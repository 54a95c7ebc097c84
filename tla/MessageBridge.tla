---------------------------- MODULE MessageBridge ---------------------------
(***************************************************************************)
(* server/src/services/agent/message-bridge.ts: the single-consumer push   *)
(* queue between the WebSocket handlers and the prompt iterable the SDK    *)
(* reads.  `next` is asynchronous: between the resolution of its promise   *)
(* and the continuation that returns the message, handlers may push again, *)
(* close the bridge, or the SDK may call `return`.                         *)
(***************************************************************************)
EXTENDS Naturals, Sequences

CONSTANTS Prompts,      \* contents a turn can push
          Null,         \* the value `close` hands to a waiting reader
          MaxPush       \* bound on the number of pushes

ASSUME PromptsAssumption == Null \notin Prompts
ASSUME MaxPushAssumption == MaxPush \in Nat

VARIABLES queue,        \* the buffered messages
          done,         \* the `done` flag
          reader,       \* "ready": no call of next is pending;
                        \* "waiting": `resolve` is set;
                        \* "resolved": its promise is settled, not continued;
                        \* "ended": the iterator answered done
          handed,       \* the value the promise was settled with
          pushed,       \* history: every message pushed
          delivered     \* history: every message next() returned

vars == <<queue, done, reader, handed, pushed, delivered>>

Init == /\ queue = <<>>
        /\ done = FALSE
        /\ reader = "ready"
        /\ handed = Null
        /\ pushed = <<>>
        /\ delivered = <<>>

(* The three outcomes of a call of next(). *)
NextEnds == /\ reader = "ready"
            /\ done
            /\ reader' = "ended"
            /\ UNCHANGED <<queue, done, handed, pushed, delivered>>

NextShifts == /\ reader = "ready"
              /\ ~done
              /\ queue # <<>>
              /\ delivered' = Append(delivered, Head(queue))
              /\ queue' = Tail(queue)
              /\ UNCHANGED <<done, reader, handed, pushed>>

NextWaits == /\ reader = "ready"
             /\ ~done
             /\ queue = <<>>
             /\ reader' = "waiting"
             /\ UNCHANGED <<queue, done, handed, pushed, delivered>>

ResumesAfterDone == /\ reader = "resolved"
                    /\ IF handed = Null
                         THEN reader' = "ended" /\ UNCHANGED delivered
                         ELSE /\ reader' = "ready"
                              /\ delivered' = Append(delivered, handed)
                    /\ handed' = Null
                    /\ UNCHANGED <<queue, done, pushed>>

(* The continuation of next() after its await. *)
NextResumes == /\ reader = "resolved"
               /\ IF done \/ handed = Null
                    THEN /\ reader' = "ended"
                         /\ UNCHANGED delivered
                    ELSE /\ reader' = "ready"
                         /\ delivered' = Append(delivered, handed)
               /\ handed' = Null
               /\ UNCHANGED <<queue, done, pushed>>

(* return(): the SDK stops reading.  A pending next() is not settled. *)
Return == /\ done' = TRUE
          /\ UNCHANGED <<queue, reader, handed, pushed, delivered>>

(* Mutants: a push that buffers although a reader waits; a push that hands *)
(* the message over and buffers it as well.                                *)
PushWithoutWakeUp(p) == /\ Len(pushed) < MaxPush
                        /\ pushed' = Append(pushed, p)
                        /\ queue' = Append(queue, p)
                        /\ UNCHANGED <<done, reader, handed, delivered>>

(* push(): the message goes to the waiting reader, else to the buffer,     *)
(* also when the bridge is done.                                           *)
Push(p) == /\ Len(pushed) < MaxPush
           /\ pushed' = Append(pushed, p)
           /\ IF reader = "waiting"
                THEN /\ reader' = "resolved"
                     /\ handed' = p
                     /\ UNCHANGED queue
                ELSE /\ queue' = Append(queue, p)
                     /\ UNCHANGED <<reader, handed>>
           /\ UNCHANGED <<done, delivered>>

Close == /\ done' = TRUE
         /\ IF reader = "waiting"
              THEN reader' = "resolved" /\ handed' = Null
              ELSE UNCHANGED <<reader, handed>>
         /\ UNCHANGED <<queue, pushed, delivered>>

Reader == NextEnds \/ NextShifts \/ NextWaits \/ NextResumes

Next == Reader \/ Return \/ Close \/ \E p \in Prompts : Push(p)

Spec == Init /\ [][Next]_vars

(* The SDK keeps reading its prompt stream, and a settled promise is       *)
(* continued by the event loop; nobody is obliged to push or close.        *)
FairSpec == Spec /\ WF_vars(Reader)

-----------------------------------------------------------------------------
(* Every variable holds a value of its kind. *)
TypeOK == /\ queue \in Seq(Prompts)
          /\ done \in BOOLEAN
          /\ reader \in {"ready", "waiting", "resolved", "ended"}
          /\ handed \in Prompts \cup {Null}
          /\ pushed \in Seq(Prompts)
          /\ delivered \in Seq(Prompts)

InFlight == IF handed = Null THEN <<>> ELSE <<handed>>

(* While the bridge is open no prompt is lost, duplicated or overtaken:    *)
(* what was read, what is between resolve() and the continuation of next(),*)
(* and what is buffered are together exactly what was pushed, in order.    *)
NothingLost == ~done => pushed = delivered \o InFlight \o queue

(* No lost wake-up: next() is parked in its await only while nothing is    *)
(* buffered, so a later push cannot overtake an earlier one.               *)
WaitsOnlyWhenEmpty == reader = "waiting" /\ ~done => queue = <<>>

(* Refinement: the bridge is a FIFO prompt stream. *)
Stream == INSTANCE PromptStream WITH closed <- done
ImplementsStream == Stream!PSpec

(* Every prompt pushed into an open bridge is read unless the bridge is    *)
(* closed: the hand-over from push() to a parked next() never stalls.      *)
EveryPromptRead ==
  \A i \in 1..MaxPush :
    (Len(pushed) >= i) ~> (done \/ Len(delivered) >= i)
=============================================================================
