----------------------------- MODULE SessionView -----------------------------
(***************************************************************************)
(* What one browser tab shows of a session: the frames the output consumer *)
(* broadcasts to attached sockets, the snapshot that is built across       *)
(* database reads and replaces the tab's view (sendSnapshot,               *)
(* buildSnapshot), and the chat store that applies both (applyEvent,       *)
(* loadSnapshot).  The session is neither torn down nor deleted here.      *)
(*                                                                         *)
(* Blocks are numbered in the order they start.  A block's content is      *)
(* abstracted to how much of it the tab has.                               *)
(***************************************************************************)
EXTENDS Naturals, Sequences, FiniteSets

CONSTANTS Serves,    \* concurrent resume / subscribe requests of the tab
          MaxItems,  \* bound on the blocks of the session
          Results,   \* blocks of kind tool_result, appended without a look
          MaxWire,   \* bound on the frames under way to the tab
          MaxAsks    \* bound on the permission prompts

ASSUME ViewAssumption == /\ MaxItems \in Nat
                         /\ Results \subseteq 1..MaxItems
                         /\ MaxWire \in Nat
                         /\ MaxAsks \in Nat

Items == 1..MaxItems

VARIABLES
  busy,       \* active.turnInProgress
  made,       \* blocks started so far
  done,       \* blocks whose final frame was broadcast
  captured,   \* sessions.sdk_session_id is set
  stored,     \* blocks mirrored into session_store_entries
  parked,     \* blocks with an entry in pendingApprovals / pendingQuestions
  phase,      \* phase[s]: the await request s is at
  gotBusy,    \* gotBusy[s]: turnInProgress as buildSnapshot read it
  gotItems,   \* gotItems[s]: the blocks rendered from the entries it read
  link,       \* the socket is open
  attached,   \* the socket is in active.wsSet
  wire,       \* frames under way to the tab
  answers,    \* prompts whose answer is under way to the server
  view,       \* view[i]: how the tab shows block i
  shownBusy,  \* the tab's isTurnInProgress
  shown,      \* unresolved prompts in the tab's dock
  early,      \* history: results mirrored before their frame
  lost,       \* history: done blocks the last snapshot did not carry
  stale,      \* history: the last snapshot's turnInProgress was outdated
  misled,     \* history: an error was sent although the turn goes on
  asks        \* number of prompts

turnVars == <<busy, made, done>>
storeVars == <<captured, stored>>
serveVars == <<phase, gotBusy, gotItems>>
tabVars == <<view, shownBusy, shown>>
historyVars == <<early, lost, stale, misled, asks>>
vars == <<turnVars, storeVars, parked, serveVars, link, attached, wire, answers,
          tabVars, historyVars>>

Frame(k, i) == [kind |-> k, item |-> i]
Snapshot(b, items, prompts) ==
  [kind |-> "snapshot", busy |-> b, items |-> items, prompts |-> prompts]

(* handleStartSession registered the session, attached the socket and sent *)
(* the empty snapshot; or the tab has just connected to an idle session.   *)
Init == /\ busy = FALSE /\ made = 0 /\ done = {}
        /\ captured = FALSE /\ stored = {} /\ parked = {}
        /\ phase = [s \in Serves |-> "free"]
        /\ gotBusy = [s \in Serves |-> FALSE]
        /\ gotItems = [s \in Serves |-> {}]
        /\ link = TRUE /\ attached \in BOOLEAN
        /\ wire = <<>> /\ answers = {}
        /\ view = [i \in Items |-> "absent"]
        /\ shownBusy = FALSE /\ shown = {}
        /\ early = {} /\ lost = {} /\ stale = FALSE /\ misled = FALSE
        /\ asks = 0

(* broadcastEvent reaches a socket that is in wsSet; Bound: MaxWire.       *)
Broadcast(f) == IF attached THEN Len(wire) < MaxWire /\ wire' = Append(wire, f)
                            ELSE UNCHANGED wire

(* sendDirect reaches the socket while it is open.                         *)
SendDirect(f) == IF link THEN Len(wire) < MaxWire /\ wire' = Append(wire, f)
                         ELSE UNCHANGED wire

-----------------------------------------------------------------------------
(* A turn begins: its user block is committed by turn_begin itself.        *)
BeginTurn ==
  /\ ~busy
  /\ made < MaxItems
  /\ made + 1 \notin Results
  /\ busy' = TRUE
  /\ made' = made + 1
  /\ done' = done \cup {made + 1}
  /\ Broadcast(Frame("begin", made + 1))
  /\ stale' = FALSE
  /\ misled' = FALSE
  /\ UNCHANGED <<storeVars, parked, serveVars, link, attached, answers, tabVars,
                 early, lost, asks>>

(* External: the subprocess works on the next block.                       *)
StartBlock ==
  /\ busy
  /\ made \in done
  /\ made < MaxItems
  /\ made' = made + 1
  /\ UNCHANGED <<busy, done, storeVars, parked, serveVars, link, attached, wire,
                 answers, tabVars, historyVars>>

(* handleStreamEvent: a delta of the open block.                           *)
Delta ==
  /\ busy
  /\ made \notin done
  /\ attached
  /\ made \notin Results
  /\ Broadcast(Frame("delta", made))
  /\ UNCHANGED <<turnVars, storeVars, parked, serveVars, link, attached, answers,
                 tabVars, historyVars>>

(* handleAssistant, handleUser: the authoritative frame of the open block. *)
Commit ==
  /\ busy
  /\ made \notin done
  /\ done' = done \cup {made}
  /\ Broadcast(Frame("commit", made))
  /\ UNCHANGED <<busy, made, storeVars, parked, serveVars, link, attached, answers,
                 tabVars, historyVars>>

(* Mutant: the turn is over and nobody is told.                            *)
EndTurnSilently ==
  /\ busy
  /\ busy' = FALSE
  /\ stale' = FALSE
  /\ misled' = FALSE
  /\ UNCHANGED <<made, done, storeVars, parked, serveVars, link, attached, wire,
                 answers, tabVars, early, lost, asks>>

(* handleResult: turn_end, and the flag with it.                           *)
EndTurn ==
  /\ busy
  /\ busy' = FALSE
  /\ Broadcast(Frame("end", made))
  /\ stale' = FALSE
  /\ misled' = FALSE
  /\ UNCHANGED <<made, done, storeVars, parked, serveVars, link, attached, answers,
                 tabVars, early, lost, asks>>

(* The catch of the consumer's loop: error, flag, drain.                   *)
ConsumerFails ==
  /\ busy
  /\ busy' = FALSE
  /\ Broadcast(Frame("error", made))
  /\ parked' = {}
  /\ stale' = FALSE
  /\ misled' = FALSE
  /\ UNCHANGED <<made, done, storeVars, serveVars, link, attached, answers, tabVars,
                 early, lost, asks>>

(* mirror_error, and the assistant-level API error: the turn goes on.      *)
ErrorInTurn ==
  /\ busy
  /\ ~misled
  /\ Broadcast(Frame("error", made))
  /\ misled' = attached
  /\ UNCHANGED <<turnVars, storeVars, parked, serveVars, link, attached, answers,
                 tabVars, early, lost, stale, asks>>

(* askApproval / askQuestion park the tool call that was committed last.   *)
Park ==
  /\ busy
  /\ asks < MaxAsks
  /\ made \in done \ parked
  /\ parked' = parked \cup {made}
  /\ asks' = asks + 1
  /\ Broadcast(Frame("prompt", made))
  /\ UNCHANGED <<turnVars, storeVars, serveVars, link, attached, answers, tabVars,
                 early, lost, stale, misled>>

(* Another tab answers, the call is aborted, or the pending maps drained.  *)
SettledElsewhere(i) ==
  /\ i \in parked
  /\ parked' = parked \ {i}
  /\ UNCHANGED <<turnVars, storeVars, serveVars, link, attached, wire, answers,
                 tabVars, historyVars>>

(* captureSessionId stores the SDK session id.                             *)
Capture ==
  /\ busy
  /\ ~captured
  /\ captured' = TRUE
  /\ UNCHANGED <<turnVars, stored, parked, serveVars, link, attached, wire, answers,
                 tabVars, historyVars>>

(* The mirror appends what the subprocess wrote, before or after the       *)
(* consumer broadcast it; a batch dropped with mirror_error stays out.     *)
Mirror(i) ==
  /\ i \in (1..made) \ stored
  /\ stored' = stored \cup {i}
  /\ early' = early \cup (({i} \cap Results) \ done)
  /\ UNCHANGED <<turnVars, captured, parked, serveVars, link, attached, wire,
                 answers, tabVars, lost, stale, misled, asks>>

-----------------------------------------------------------------------------
(* The tab asks to resume (a click, a page load, a socket that opened);    *)
(* attachAndSnapshot attaches the socket, and only then reads the database.*)
(* While the request travels nothing depends on it.                        *)
Resume(s) ==
  /\ link
  /\ phase[s] = "free"
  /\ phase' = [phase EXCEPT ![s] = "row"]
  /\ attached' = TRUE
  /\ UNCHANGED <<turnVars, storeVars, parked, gotBusy, gotItems, link, wire,
                 answers, tabVars, historyVars>>

(* The sessions row arrived: turnInProgress is read now, and the entries   *)
(* only if the row has an SDK session id.                                  *)
ReadRow(s) ==
  /\ phase[s] = "row"
  /\ gotBusy' = [gotBusy EXCEPT ![s] = busy]
  /\ gotItems' = [gotItems EXCEPT ![s] = {}]
  /\ phase' = [phase EXCEPT ![s] = IF captured THEN "entries" ELSE "render"]
  /\ UNCHANGED <<turnVars, storeVars, parked, link, attached, wire, answers,
                 tabVars, historyVars>>

ReadEntries(s) ==
  /\ phase[s] = "entries"
  /\ gotItems' = [gotItems EXCEPT ![s] = stored]
  /\ phase' = [phase EXCEPT ![s] = "render"]
  /\ UNCHANGED <<turnVars, storeVars, parked, gotBusy, link, attached, wire,
                 answers, tabVars, historyVars>>

(* Mutant: the parked prompts are not sent again.                          *)
SendSnapshotAlone(s) ==
  /\ phase[s] = "render"
  /\ SendDirect(Snapshot(gotBusy[s], gotItems[s], {}))
  /\ lost' = done \ gotItems[s]
  /\ stale' = (gotBusy[s] # busy)
  /\ misled' = FALSE
  /\ phase' = [phase EXCEPT ![s] = "free"]
  /\ gotBusy' = [gotBusy EXCEPT ![s] = FALSE]
  /\ gotItems' = [gotItems EXCEPT ![s] = {}]
  /\ UNCHANGED <<turnVars, storeVars, parked, link, attached, answers, tabVars,
                 early, asks>>

(* sendSnapshot after its await: snapshot, replay_done and the prompts     *)
(* parked by now go out back to back, modelled as one frame.               *)
SendSnapshot(s) ==
  /\ phase[s] = "render"
  /\ SendDirect(Snapshot(gotBusy[s], gotItems[s], parked))
  /\ lost' = done \ gotItems[s]
  /\ stale' = (gotBusy[s] # busy)
  /\ misled' = FALSE
  /\ phase' = [phase EXCEPT ![s] = "free"]
  /\ gotBusy' = [gotBusy EXCEPT ![s] = FALSE]
  /\ gotItems' = [gotItems EXCEPT ![s] = {}]
  /\ UNCHANGED <<turnVars, storeVars, parked, link, attached, answers, tabVars,
                 early, asks>>

-----------------------------------------------------------------------------
(* The connection breaks: frames under way are gone, detachAllWS runs, and *)
(* what the requests of this socket still send reaches nobody.             *)
Drop ==
  /\ link
  /\ link' = FALSE
  /\ attached' = FALSE
  /\ wire' = <<>>
  /\ answers' = {}
  /\ phase' = [s \in Serves |-> "free"]
  /\ gotBusy' = [s \in Serves |-> FALSE]
  /\ gotItems' = [s \in Serves |-> {}]
  /\ lost' = {} /\ stale' = FALSE /\ misled' = FALSE
  /\ UNCHANGED <<turnVars, storeVars, parked, tabVars, early, asks>>

(* The socket opens again; nothing attaches it yet.                        *)
Reconnect ==
  /\ ~link
  /\ link' = TRUE
  /\ UNCHANGED <<turnVars, storeVars, parked, serveVars, attached, wire, answers,
                 tabVars, historyVars>>

(* Mutants of Applied: only known blocks are committed; a snapshot is      *)
(* merged into the blocks that are there.                                  *)
AppliedToKnown(v, f) ==
  CASE f.kind = "delta"    -> [v EXCEPT ![f.item] = "partial"]
    [] f.kind = "begin"    -> [v EXCEPT ![f.item] = "full"]
    [] f.kind = "commit"   -> [v EXCEPT ![f.item] = IF @ = "absent" THEN @ ELSE "full"]
    [] f.kind = "snapshot" -> [i \in Items |-> IF i \in f.items THEN "full" ELSE "absent"]
    [] OTHER -> v

(* applyEventToBlocks and loadSnapshot: blocks are found by id and set; a  *)
(* tool_result is appended; a snapshot replaces everything.                *)
Applied(v, f) ==
  CASE f.kind = "delta"    -> [v EXCEPT ![f.item] = "partial"]
    [] f.kind = "begin"    -> [v EXCEPT ![f.item] = "full"]
    [] f.kind = "commit"   -> [v EXCEPT ![f.item] = IF @ = "full" /\ f.item \in Results
                                                      THEN "twice" ELSE "full"]
    [] f.kind = "snapshot" -> [i \in Items |-> IF i \in f.items THEN "full" ELSE "absent"]
    [] OTHER -> v

Deliver ==
  /\ wire # <<>>
  /\ LET f == Head(wire)
     IN /\ view' = Applied(view, f)
        /\ shownBusy' = CASE f.kind = "begin" -> TRUE
                          [] f.kind \in {"end", "error"} -> FALSE
                          [] f.kind = "snapshot" -> f.busy
                          [] OTHER -> shownBusy
        /\ shown' = CASE f.kind = "prompt" -> shown \cup {f.item}
                      [] f.kind = "snapshot" -> f.prompts
                      [] OTHER -> shown
  /\ wire' = Tail(wire)
  /\ UNCHANGED <<turnVars, storeVars, parked, serveVars, link, attached, answers,
                 historyVars>>

(* The user answers in the dock: resolved locally at once, and the frame   *)
(* is dropped when the socket is not open.                                 *)
Answer(i) ==
  /\ i \in shown
  /\ shown' = shown \ {i}
  /\ answers' = IF link THEN answers \cup {i} ELSE answers
  /\ UNCHANGED <<turnVars, storeVars, parked, serveVars, link, attached, wire, view,
                 shownBusy, historyVars>>

(* handleApproveTool / handleAnswerQuestion; not_found is an error frame.  *)
AnswerArrives(i) ==
  /\ i \in answers
  /\ answers' = answers \ {i}
  /\ IF i \in parked
       THEN parked' = parked \ {i} /\ UNCHANGED <<wire, misled>>
       ELSE SendDirect(Frame("error", i)) /\ misled' = busy /\ UNCHANGED parked
  /\ UNCHANGED <<turnVars, storeVars, serveVars, link, attached, tabVars, early,
                 lost, stale, asks>>

-----------------------------------------------------------------------------
Session == \/ BeginTurn \/ StartBlock \/ Delta \/ Commit \/ EndTurn
           \/ ConsumerFails \/ ErrorInTurn \/ Park \/ Capture
           \/ \E i \in Items : SettledElsewhere(i) \/ Mirror(i) \/ AnswerArrives(i)

Serve(s) == ReadRow(s) \/ ReadEntries(s) \/ SendSnapshot(s)

Tab == \/ Drop \/ Reconnect \/ Deliver
       \/ \E i \in Items : Answer(i)
       \/ \E s \in Serves : Resume(s)

Next == Session \/ Tab \/ \E s \in Serves : Serve(s)

Spec == Init /\ [][Next]_vars

-----------------------------------------------------------------------------
(* The tab is attached and has applied all that was sent to it.            *)
Settled == /\ link /\ attached
           /\ wire = <<>>
           /\ \A s \in Serves : phase[s] = "free"

(* handlers.ts:391-397 a client that attaches mid-prompt can answer: a     *)
(* parked prompt is in the dock of a settled tab or its answer is coming.  *)
PromptReachable == Settled => parked \subseteq shown \cup answers

(* A settled tab lacks a finished block only if the last snapshot was sent *)
(* without it after its frame (the mirror had not got it when the entries  *)
(* were read).                                                             *)
ViewComplete ==
  Settled => \A i \in done : view[i] \in {"full", "twice"} \/ i \in lost

(* A settled tab agrees with the session on whether a turn is in progress, *)
(* unless a snapshot was outdated when it was sent, or an error frame was  *)
(* sent in mid-turn, and no turn boundary was broadcast since.             *)
BusyAgrees == Settled /\ ~stale /\ ~misled => shownBusy = busy

(* A block is shown twice only if it is a tool_result that the mirror had  *)
(* before its frame was broadcast.                                         *)
ShownOnce == \A i \in Items : view[i] = "twice" => i \in early

(* chat-store.ts: the live stream, its final frames and the snapshots add  *)
(* up to each block once.                                                  *)
ViewIsTrue == ViewComplete /\ ShownOnce
=============================================================================
