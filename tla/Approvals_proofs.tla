--------------------------- MODULE Approvals_proofs --------------------------
(* Theorems about Approvals, for every set of calls, questions and targets. *)
EXTENDS Approvals, TLAPS

(* A call that has not been resolved has no reply yet; a reply is of the   *)
(* kind its tool takes; only other tools than questions are waved through. *)
ReplyShape ==
  /\ \A c \in Calls : call[c] \in {"new", "parked"} => reply[c] = "none"
  /\ \A c \in Questions : reply[c] \in Answers \cup {"none"}
  /\ \A c \in Calls \ Questions : reply[c] \in Responses \cup {"none"}
  /\ open \cap Questions = {}

(* Every remembered rule was granted for a call on that target.            *)
Granted(t) == \E d \in Calls \ Questions : /\ Target[d] = t
                                           /\ reply[d] = "approve_for_session"
RulesGranted == \A t \in rules : Granted(t)

IInv == TypeOK /\ PendingIsParked /\ AllowedWasGranted /\ ReplyShape /\ RulesGranted

LEMMA InitInv == Init => IInv
<1> SUFFICES ASSUME Init PROVE IInv
  OBVIOUS
<1>1. call \in [Calls -> {"new", "parked", "resolved", "allowed", "denied"}]
  BY DEF Init
<1>2. reply \in [Calls -> Responses \cup Answers \cup {"none"}]
  BY DEF Init
<1>3. TypeOK
  BY <1>1, <1>2 DEF Init, TypeOK
<1>4. PendingIsParked /\ AllowedWasGranted /\ ReplyShape /\ RulesGranted
  BY ApprovalsAssumption
     DEF Init, PendingIsParked, AllowedWasGranted, ReplyShape, RulesGranted
<1> QED
  BY <1>3, <1>4 DEF IInv

(* A reply, once given, stays: what was granted remains granted.           *)
LEMMA RepliesStay ==
  ASSUME IInv, NEW settled \in SUBSET Calls, NEW with,
         Resolved(settled, with)
  PROVE  /\ \A c \in Calls : reply[c] # "none" => reply'[c] = reply[c]
         /\ \A t \in Targets : Granted(t) => Granted(t)'
<1>1. ASSUME NEW c \in Calls, reply[c] # "none"
      PROVE  reply'[c] = reply[c]
  BY <1>1 DEF Resolved, IInv, ReplyShape
<1>2. ASSUME NEW t \in Targets, Granted(t)
      PROVE  Granted(t)'
  <2>1. PICK d \in Calls \ Questions : Target[d] = t /\ reply[d] = "approve_for_session"
    BY <1>2 DEF Granted
  <2> QED
    BY <1>1, <2>1 DEF Granted
<1> QED
  BY <1>1, <1>2

(* Whoever settles parked calls, with a reply of the kind each takes, and  *)
(* deletes exactly their entries, keeps the invariant.                     *)
LEMMA SettlingKeeps ==
  ASSUME IInv, NEW settled \in SUBSET pending,
         NEW with,
         \A c \in settled : /\ c \in Questions => with[c] \in Answers
                            /\ c \notin Questions => with[c] \in Responses,
         Resolved(settled, with), pending' = pending \ settled,
         aborted' \subseteq Calls, UNCHANGED <<mode, rules, open>>
  PROVE  IInv'
<1>0. settled \subseteq Calls
  BY DEF IInv, TypeOK
<1>1. TypeOK'
  <2>1. call' \in [Calls -> {"new", "parked", "resolved", "allowed", "denied"}]
    BY DEF IInv, TypeOK, Resolved
  <2>2. reply' \in [Calls -> Responses \cup Answers \cup {"none"}]
    BY DEF IInv, TypeOK, Resolved
  <2> QED
    BY <2>1, <2>2 DEF IInv, TypeOK
<1>2. PendingIsParked'
  BY DEF IInv, TypeOK, PendingIsParked, Resolved
<1>3. AllowedWasGranted'
  <2> SUFFICES ASSUME NEW c \in Calls, call'[c] = "allowed"
               PROVE  \/ c \in open' \ Questions
                      \/ c \in Questions /\ reply'[c] = "answered"
                      \/ c \notin Questions /\ reply'[c] \in {"approve", "approve_for_session"}
                      \/ c \notin Questions /\ Granted(Target[c])'
    BY DEF AllowedWasGranted, Granted
  <2>1. call[c] = "allowed"
    BY DEF Resolved
  <2>2. Target[c] \in Targets
    BY ApprovalsAssumption
  <2>3. Granted(Target[c]) => Granted(Target[c])'
    BY <1>0, <2>2, RepliesStay
  <2>4. reply[c] # "none" => reply'[c] = reply[c]
    BY <1>0, RepliesStay
  <2> QED
    BY <2>1, <2>3, <2>4 DEF IInv, AllowedWasGranted, Granted
<1>4. ReplyShape'
  <2>1. ASSUME NEW c \in Calls
        PROVE  reply'[c] = IF c \in settled /\ call[c] = "parked"
                             THEN with[c] ELSE reply[c]
    BY DEF Resolved
  <2>2. ASSUME NEW c \in Calls, call'[c] \in {"new", "parked"}
        PROVE  reply'[c] = "none"
    BY <2>2 DEF IInv, ReplyShape, Resolved
  <2>3. ASSUME NEW c \in Questions
        PROVE  reply'[c] \in Answers \cup {"none"}
    BY <2>1, ApprovalsAssumption DEF IInv, ReplyShape
  <2>4. ASSUME NEW c \in Calls \ Questions
        PROVE  reply'[c] \in Responses \cup {"none"}
    BY <2>1 DEF IInv, ReplyShape
  <2> QED
    BY <2>2, <2>3, <2>4 DEF IInv, ReplyShape
<1>5. RulesGranted'
  BY <1>0, RepliesStay DEF IInv, RulesGranted, TypeOK
<1> QED
  BY <1>1, <1>2, <1>3, <1>4, <1>5 DEF IInv

LEMMA NextInv == IInv /\ [Next]_vars => IInv'
<1> SUFFICES ASSUME IInv, [Next]_vars
             PROVE  IInv'
  OBVIOUS
<1> USE ApprovalsAssumption
<1>1. ASSUME NEW c \in Calls, CallWaved(c)
      PROVE  IInv'
  BY <1>1 DEF CallWaved, Return, Waved, IInv, TypeOK, PendingIsParked,
              AllowedWasGranted, ReplyShape, RulesGranted, Granted
<1>2. ASSUME NEW c \in Calls, CallAborted(c)
      PROVE  IInv'
  BY <1>2 DEF CallAborted, Return, IInv, TypeOK, PendingIsParked,
              AllowedWasGranted, ReplyShape, RulesGranted, Granted
<1>3. ASSUME NEW c \in Calls, CallRemembered(c)
      PROVE  IInv'
  <2>1. Granted(Target[c]) /\ c \notin Questions
    BY <1>3 DEF CallRemembered, IInv, RulesGranted
  <2>2. AllowedWasGranted'
    BY <1>3, <2>1 DEF CallRemembered, Return, IInv, TypeOK, AllowedWasGranted, Granted
  <2>3. TypeOK' /\ PendingIsParked' /\ ReplyShape' /\ RulesGranted'
    BY <1>3 DEF CallRemembered, Return, IInv, TypeOK, PendingIsParked,
                ReplyShape, RulesGranted, Granted
  <2> QED
    BY <2>2, <2>3 DEF IInv
<1>4. ASSUME NEW c \in Calls, CallParks(c)
      PROVE  IInv'
  BY <1>4 DEF CallParks, IInv, TypeOK, PendingIsParked, AllowedWasGranted,
              ReplyShape, RulesGranted, Granted
<1>5. ASSUME NEW c \in Calls, NEW response \in Responses, Approve(c, response)
      PROVE  IInv'
  <2>1. {c} \subseteq pending /\ c \notin Questions /\ aborted' \subseteq Calls
    BY <1>5 DEF Approve, IInv, TypeOK
  <2>2. \A d \in {c} : [e \in {c} |-> response][d] = response
    OBVIOUS
  <2> QED
    BY <1>5, <2>1, <2>2, SettlingKeeps DEF Approve
<1>6. ASSUME NEW c \in Calls, NEW answer \in Answers, AnswerQuestion(c, answer)
      PROVE  IInv'
  <2>1. {c} \subseteq pending /\ c \in Questions /\ aborted' \subseteq Calls
    BY <1>6 DEF AnswerQuestion, IInv, TypeOK
  <2>2. \A d \in {c} : [e \in {c} |-> answer][d] = answer
    OBVIOUS
  <2> QED
    BY <1>6, <2>1, <2>2, SettlingKeeps DEF AnswerQuestion
<1>7. ASSUME NEW c \in Calls, Abort(c)
      PROVE  IInv'
  <2>1. \A d \in {c} \cap pending : /\ d \in Questions => Refusal[d] \in Answers
                                    /\ d \notin Questions => Refusal[d] \in Responses
    BY DEF Refusal, Answers, Responses
  <2>2. aborted' \subseteq Calls /\ pending' = pending \ ({c} \cap pending)
    BY <1>7 DEF Abort, IInv, TypeOK
  <2> QED
    BY <1>7, <2>1, <2>2, SettlingKeeps DEF Abort
<1>8. ASSUME NEW c \in Calls, Continue(c)
      PROVE  IInv'
  BY <1>8 DEF Continue, IInv, TypeOK, PendingIsParked, AllowedWasGranted,
              ReplyShape, RulesGranted, Granted, Responses, Answers
<1>9. CASE Drain
  <2>1. \A d \in pending : /\ d \in Questions => Refusal[d] \in Answers
                           /\ d \notin Questions => Refusal[d] \in Responses
    BY DEF Refusal, Answers, Responses, IInv, TypeOK
  <2>2. aborted' \subseteq Calls /\ pending' = pending \ pending
    BY <1>9 DEF Drain, IInv, TypeOK
  <2> QED
    BY <1>9, <2>1, <2>2, SettlingKeeps DEF Drain
<1>10. ASSUME NEW m \in Modes, SetMode(m)
       PROVE  IInv'
  BY <1>10 DEF SetMode, IInv, TypeOK, PendingIsParked, AllowedWasGranted,
               ReplyShape, RulesGranted, Granted
<1>11. CASE UNCHANGED vars
  BY <1>11 DEF vars, IInv, TypeOK, PendingIsParked, AllowedWasGranted,
               ReplyShape, RulesGranted, Granted
<1> QED
  BY <1>1, <1>2, <1>3, <1>4, <1>5, <1>6, <1>7, <1>8, <1>9, <1>10, <1>11 DEF Next

LEMMA Invariance == Spec => []IInv
  BY InitInv, NextInv, PTL DEF Spec

(* The callback's variables keep their types (approval.ts).                *)
THEOREM TypeCorrect == Spec => []TypeOK
  BY Invariance, PTL DEF IInv

(* An entry of the pending maps and a call waiting for the user are the    *)
(* same thing, whatever answers, aborts and drains race each other.        *)
THEOREM NothingHangsOutOfReach == Spec => []PendingIsParked
  BY Invariance, PTL DEF IInv

(* No tool call goes through without the mode's or the user's consent.     *)
THEOREM ConsentFirst == Spec => []AllowedWasGranted
  BY Invariance, PTL DEF IInv
=============================================================================
