------------------------------ MODULE Approvals -----------------------------
(***************************************************************************)
(* The canUseTool callback (services/agent/approval.ts) and the handlers   *)
(* that settle what it parks: approve_tool and answer_question             *)
(* (ws/handlers.ts), drainPendingRequests (session-manager.ts).            *)
(*                                                                         *)
(* Tool calls run in parallel, each with its own AbortSignal.  A call that *)
(* must ask parks a promise whose resolver sits in pendingApprovals or     *)
(* pendingQuestions; whoever finds the entry settles the promise and       *)
(* deletes it; the callback resumes later and answers the SDK.             *)
(***************************************************************************)
EXTENDS Naturals, FiniteSets

CONSTANTS Calls,      \* tool calls of the session
          Questions,  \* those of the AskUserQuestion tool
          ReadOnly,   \* those isAutoApprovable accepts
          Targets,    \* rule keys
          Target      \* Target[c]: buildRuleKey of call c

ASSUME ApprovalsAssumption == /\ Questions \subseteq Calls
                              /\ ReadOnly \subseteq Calls
                              /\ Target \in [Calls -> Targets]

Modes == {"ask", "safe", "bypass"}
Responses == {"approve", "approve_for_session", "reject"}
Answers == {"answered", "empty"}

VARIABLES
  mode,     \* active.approvalMode
  rules,    \* active.sessionAllowRules
  pending,  \* calls with an entry in pendingApprovals / pendingQuestions
  call,     \* call[c]: "new", "parked", "resolved", "allowed" or "denied"
  reply,    \* reply[c]: what its promise was resolved with, or "none"
  aborted,  \* calls whose AbortSignal fired
  open      \* history: calls the approval mode let through

vars == <<mode, rules, pending, call, reply, aborted, open>>

Init == /\ mode \in Modes
        /\ rules = {}
        /\ pending = {}
        /\ call = [c \in Calls |-> "new"]
        /\ reply = [c \in Calls |-> "none"]
        /\ aborted = {}
        /\ open = {}

Return(c, verdict) == /\ call' = [call EXCEPT ![c] = verdict]
                      /\ UNCHANGED <<mode, rules, pending, reply, aborted>>

(* bypass lets every tool through, safe the read-only ones.                *)
Waved(c) == /\ c \notin Questions
            /\ \/ mode = "bypass"
               \/ mode = "safe" /\ c \in ReadOnly

CallWaved(c) == /\ call[c] = "new"
                /\ Waved(c)
                /\ Return(c, "allowed")
                /\ open' = open \cup {c}

(* An already aborted call is denied at once.                              *)
CallAborted(c) == /\ call[c] = "new"
                  /\ ~Waved(c)
                  /\ c \in aborted
                  /\ Return(c, "denied")
                  /\ UNCHANGED open

(* Mutant: any remembered rule admits the call.                            *)
RemembersAnyTarget(c) == /\ call[c] = "new"
                         /\ ~Waved(c)
                         /\ c \notin aborted \cup Questions
                         /\ rules # {}
                         /\ Return(c, "allowed")
                         /\ UNCHANGED open

(* A rule the user granted for this very target.                           *)
CallRemembered(c) == /\ call[c] = "new"
                     /\ ~Waved(c)
                     /\ c \notin aborted \cup Questions
                     /\ Target[c] \in rules
                     /\ Return(c, "allowed")
                     /\ UNCHANGED open

(* Mutant: the signal is not looked at before parking.                     *)
ParksUnchecked(c) == /\ call[c] = "new"
                     /\ ~Waved(c)
                     /\ c \in Questions \/ Target[c] \notin rules
                     /\ call' = [call EXCEPT ![c] = "parked"]
                     /\ pending' = pending \cup {c}
                     /\ UNCHANGED <<mode, rules, reply, aborted, open>>

CallParks(c) == /\ call[c] = "new"
                /\ ~Waved(c)
                /\ c \notin aborted
                /\ c \in Questions \/ Target[c] \notin rules
                /\ call' = [call EXCEPT ![c] = "parked"]
                /\ pending' = pending \cup {c}
                /\ UNCHANGED <<mode, rules, reply, aborted, open>>

(* Resolving a promise; a second resolution of it changes nothing.         *)
Resolved(settled, with) ==
  /\ call' = [c \in Calls |-> IF c \in settled /\ call[c] = "parked"
                                THEN "resolved" ELSE call[c]]
  /\ reply' = [c \in Calls |-> IF c \in settled /\ call[c] = "parked"
                                 THEN with[c] ELSE reply[c]]

Approve(c, response) == /\ c \in pending \ Questions
                        /\ Resolved({c}, [d \in {c} |-> response])
                        /\ pending' = pending \ {c}
                        /\ UNCHANGED <<mode, rules, aborted, open>>

AnswerQuestion(c, answer) == /\ c \in pending \cap Questions
                             /\ Resolved({c}, [d \in {c} |-> answer])
                             /\ pending' = pending \ {c}
                             /\ UNCHANGED <<mode, rules, aborted, open>>

(* What abort and drain resolve with: reject, or a set of empty answers.   *)
Refusal == [c \in Calls |-> IF c \in Questions THEN "empty" ELSE "reject"]

(* Mutant: onAbort resolves the promise but leaves the entry.              *)
AbortKeepsEntry(c) == /\ c \notin aborted
                      /\ aborted' = aborted \cup {c}
                      /\ Resolved({c} \cap pending, Refusal)
                      /\ UNCHANGED <<mode, rules, pending, open>>

(* The SDK aborts one call; onAbort settles it if it is parked.            *)
Abort(c) == /\ c \notin aborted
            /\ aborted' = aborted \cup {c}
            /\ Resolved({c} \cap pending, Refusal)
            /\ pending' = pending \ {c}
            /\ UNCHANGED <<mode, rules, open>>

(* Interrupt, teardown or a failed iteration.                              *)
Drain == /\ pending # {}
         /\ Resolved(pending, Refusal)
         /\ pending' = {}
         /\ UNCHANGED <<mode, rules, aborted, open>>

(* The callback resumes with the reply, remembers a grant for the session, *)
(* and answers the SDK.                                                    *)
Continue(c) == /\ call[c] = "resolved"
               /\ call' = [call EXCEPT ![c] =
                    IF reply[c] \in {"approve", "approve_for_session", "answered"}
                      THEN "allowed" ELSE "denied"]
               /\ rules' = IF reply[c] = "approve_for_session"
                             THEN rules \cup {Target[c]} ELSE rules
               /\ pending' = pending \ {c}
               /\ UNCHANGED <<mode, reply, aborted, open>>

(* The approval mode rides along with a prompt (handleSendMessage).        *)
SetMode(m) == /\ m # mode
              /\ mode' = m
              /\ UNCHANGED <<rules, pending, call, reply, aborted, open>>

Next == \/ \E c \in Calls :
             \/ CallWaved(c) \/ CallAborted(c) \/ CallRemembered(c) \/ CallParks(c)
             \/ \E response \in Responses : Approve(c, response)
             \/ \E answer \in Answers : AnswerQuestion(c, answer)
             \/ Abort(c) \/ Continue(c)
        \/ Drain
        \/ \E m \in Modes : SetMode(m)

Spec == Init /\ [][Next]_vars

(* The event loop resumes a callback whose promise was resolved.  Nobody   *)
(* has to answer, to abort or to drain.                                    *)
FairSpec == Spec /\ \A c \in Calls : WF_vars(Continue(c))

-----------------------------------------------------------------------------
(* Every variable holds a value of its kind.                               *)
TypeOK == /\ mode \in Modes
          /\ rules \subseteq Targets
          /\ pending \subseteq Calls
          /\ call \in [Calls -> {"new", "parked", "resolved", "allowed", "denied"}]
          /\ reply \in [Calls -> Responses \cup Answers \cup {"none"}]
          /\ aborted \subseteq Calls
          /\ open \subseteq Calls

(* approval.ts:15-18: a parked call has its resolver in the pending maps,  *)
(* and an entry there always answers for a call still waiting: no click is *)
(* acknowledged that decides nothing, no call waits out of reach.          *)
PendingIsParked == pending = {c \in Calls : call[c] = "parked"}

(* No side effect without a reason: a call goes through only because the   *)
(* mode let it, because the user said so for this call, or because the     *)
(* user approved a call on the same target for the session.  A question is *)
(* only ever answered by the user.                                         *)
AllowedWasGranted ==
  \A c \in Calls : call[c] = "allowed" =>
    \/ c \in open \ Questions
    \/ c \in Questions /\ reply[c] = "answered"
    \/ c \notin Questions /\ reply[c] \in {"approve", "approve_for_session"}
    \/ c \notin Questions /\ \E d \in Calls \ Questions :
                                /\ Target[d] = Target[c]
                                /\ reply[d] = "approve_for_session"

(* session-manager.ts:217 "without this, teardown deadlocks on an awaited  *)
(* permission prompt": a call aborted before or while it asks gets its     *)
(* answer without the user.                                                *)
AbortedReturns ==
  \A c \in Calls : (c \in aborted /\ call[c] \in {"parked", "resolved"})
                     ~> call[c] \in {"allowed", "denied"}
=============================================================================
