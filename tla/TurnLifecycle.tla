---------------------------- MODULE TurnLifecycle ---------------------------
(***************************************************************************)
(* The turns of one in-memory session: the WebSocket handlers that begin,  *)
(* compact, probe and interrupt (server/src/ws/handlers.ts), the lazy      *)
(* spawn of the SDK query (services/agent/query-runner.ts), and the output *)
(* consumer that reports results (services/agent/output-consumer.ts).      *)
(*                                                                         *)
(* Handlers are not serialised: each runs up to its next await, and any    *)
(* other handler or consumer may run before it resumes.  One action is the *)
(* code between two awaits.  A handler slot is one request being handled.  *)
(* The subprocess behind a query is external: it reads prompts, may park   *)
(* on a permission prompt, answers every prompt with one result, honours   *)
(* interrupts, and may die.                                                *)
(***************************************************************************)
EXTENDS Naturals, Sequences, FiniteSets

CONSTANTS Handlers,     \* concurrent request slots
          Spawns,       \* one element per call of startQuery
          None,         \* no query, no bridge, no turn
          MaxTurns,     \* bound on the turns begun
          Compacts,     \* whether compact_session requests occur
          Switches,     \* whether a send may change the provider
          MaxDeaths     \* bound on subprocesses dying by themselves

ASSUME ConstantsAssumption == /\ None \notin Spawns
                              /\ None \notin Nat
                              /\ MaxTurns \in Nat
                              /\ MaxDeaths \in Nat
                              /\ Compacts \in BOOLEAN
                              /\ Switches \in BOOLEAN

Turns == 1..MaxTurns

VARIABLES
  query,      \* active.query (and active.abortController): a spawn, or None
  bridge,     \* active.bridge: the spawn it was created for, or None
  busy,       \* active.turnInProgress
  intr,       \* active.interruptRequested
  parked,     \* spawns with an entry in pendingApprovals / pendingQuestions
  step,       \* step[h]: the await the handler in slot h is at
  kind,       \* kind[h]: the request it handles
  hold,       \* hold[h]: the spawn it started, or whose interrupt it awaits
  sub,        \* sub[s]: the subprocess of spawn s
  todo,       \* todo[s]: turns pushed to its bridge, not yet begun by it
  doing,      \* doing[s]: the turn it works on, or None
  signal,     \* signal[s]: an interrupt request is on its way to it
  cut,        \* cut[s]: its bridge was closed and its controller aborted
  out,        \* out[s]: results not yet read by its consumer
  pump,       \* pump[s]: where the output consumer of s is
  begun,      \* history: turns begun so far
  report,     \* history: report[t], the turn_end status clients were sent
  asked,      \* history: turns begun before some press of interrupt
  deaths      \* number of subprocesses that died by themselves

handlerVars == <<step, kind, hold>>
procVars == <<sub, todo, doing, signal, cut, out>>
historyVars == <<begun, report, asked, deaths>>
vars == <<query, bridge, busy, intr, parked, pump, handlerVars, procVars,
          historyVars>>

Kinds == {"send", "compact", "usage", "interrupt"}

(* Bound: requests that may still push a turn leave room for it.           *)
Room == begun + Cardinality({h \in Handlers : /\ step[h] # "free"
                                              /\ kind[h] \in {"send", "compact"}})
        < MaxTurns

Init == /\ query = None /\ bridge = None
        /\ busy = FALSE /\ intr = FALSE /\ parked = {}
        /\ step = [h \in Handlers |-> "free"]
        /\ kind = [h \in Handlers |-> "send"]
        /\ hold = [h \in Handlers |-> None]
        /\ sub = [s \in Spawns |-> "unused"]
        /\ todo = [s \in Spawns |-> <<>>]
        /\ doing = [s \in Spawns |-> None]
        /\ signal = [s \in Spawns |-> FALSE]
        /\ cut = [s \in Spawns |-> FALSE]
        /\ out = [s \in Spawns |-> <<>>]
        /\ pump = [s \in Spawns |-> "none"]
        /\ begun = 0
        /\ report = [t \in Turns |-> "open"]
        /\ asked = {}
        /\ deaths = 0

At(h, here) == step[h] = here
Goto(h, there) == step' = [step EXCEPT ![h] = there]

-----------------------------------------------------------------------------
(* Mutant: the turn_in_progress check is missing.                          *)
SendUnchecked(h) ==
  /\ At(h, "free")
  /\ Room
  /\ kind' = [kind EXCEPT ![h] = "send"]
  /\ \E there \in {"flags", "ensure"} : Goto(h, there)
  /\ UNCHANGED <<query, bridge, busy, intr, parked, hold, pump, procVars, historyVars>>

(* handleSendMessage up to its first await.  A send while a turn is in     *)
(* progress is refused, an unsupported slash command is swallowed; neither *)
(* changes state.  Composer flags and the model are awaited only when they *)
(* differ, the provider likewise.                                          *)
Send(h) ==
  /\ At(h, "free")
  /\ Room
  /\ ~busy
  /\ kind' = [kind EXCEPT ![h] = "send"]
  /\ \E there \in {"flags", "ensure"} \cup (IF Switches THEN {"authorize"} ELSE {}) :
       Goto(h, there)
  /\ UNCHANGED <<query, bridge, busy, intr, parked, hold, pump, procVars, historyVars>>

(* The flag and model updates return; one that fails ends the request.     *)
FlagsApplied(h) ==
  /\ At(h, "flags")
  /\ \E there \in {"free", "ensure"} \cup (IF Switches THEN {"authorize"} ELSE {}) :
       Goto(h, there)
  /\ UNCHANGED <<query, bridge, busy, intr, parked, kind, hold, pump, procVars, historyVars>>

(* resolveProviderForUser answers: the provider is refused, or persisted.  *)
ProviderAuthorized(h) ==
  /\ At(h, "authorize")
  /\ \E there \in {"free", "persist"} : Goto(h, there)
  /\ UNCHANGED <<query, bridge, busy, intr, parked, kind, hold, pump, procVars, historyVars>>

(* The provider row is written; a live query is asked to stop first.       *)
ProviderPersisted(h) ==
  /\ At(h, "persist")
  /\ IF query = None
       THEN Goto(h, "ensure") /\ UNCHANGED <<hold, signal>>
       ELSE /\ Goto(h, "dispose")
            /\ hold' = [hold EXCEPT ![h] = query]
            /\ signal' = [signal EXCEPT ![query] = TRUE]
  /\ UNCHANGED <<query, bridge, busy, intr, parked, kind, pump, sub, todo,
                 doing, cut, out, historyVars>>

(* An awaited query.interrupt() settles when the subprocess acknowledged   *)
(* it or is gone; both callers swallow a rejection.                        *)
Gone(s) == sub[s] \in {"failed", "died", "ended"}
InterruptSettled(h) == ~signal[hold[h]] \/ Gone(hold[h])

(* Abort, close and drop whatever query and bridge the session has NOW.    *)
Disposed(h) ==
  /\ At(h, "dispose")
  /\ InterruptSettled(h)
  /\ cut' = [s \in Spawns |-> cut[s] \/ s = query \/ s = bridge]
  /\ query' = None
  /\ bridge' = None
  /\ hold' = [hold EXCEPT ![h] = None]
  /\ Goto(h, "ensure")
  /\ UNCHANGED <<busy, intr, parked, kind, pump, sub, todo, doing, signal, out, historyVars>>

(* Mutant: a compaction does not look at turnInProgress.                   *)
CompactUnchecked(h) ==
  /\ Compacts
  /\ At(h, "free")
  /\ Room
  /\ kind' = [kind EXCEPT ![h] = "compact"]
  /\ Goto(h, "ensure")
  /\ UNCHANGED <<query, bridge, busy, intr, parked, hold, pump, procVars, historyVars>>

(* handleCompactSession and handleRequestContextUsage up to ensureQuery.   *)
Compact(h) ==
  /\ Compacts
  /\ At(h, "free")
  /\ Room
  /\ ~busy
  /\ kind' = [kind EXCEPT ![h] = "compact"]
  /\ Goto(h, "ensure")
  /\ UNCHANGED <<query, bridge, busy, intr, parked, hold, pump, procVars, historyVars>>

ProbeUsage(h) ==
  /\ At(h, "free")
  /\ kind' = [kind EXCEPT ![h] = "usage"]
  /\ Goto(h, "ensure")
  /\ UNCHANGED <<query, bridge, busy, intr, parked, hold, pump, procVars, historyVars>>

(* Mutant: ensureQuery spawns although a query is bound.                   *)
EnsureAlwaysSpawns(h) ==
  /\ At(h, "ensure")
  /\ \E s \in Spawns :
       /\ sub[s] = "unused"
       /\ sub' = [sub EXCEPT ![s] = "starting"]
       /\ bridge' = s
       /\ hold' = [hold EXCEPT ![h] = s]
  /\ Goto(h, "spawn")
  /\ UNCHANGED <<query, busy, intr, parked, kind, pump, todo, doing, signal,
                 cut, out, historyVars>>

(* ensureQuery: nothing to do when a query is bound, else create a bridge  *)
(* and await startQuery.                                                   *)
EnsureBound(h) ==
  /\ At(h, "ensure")
  /\ query # None
  /\ Goto(h, "ensured")
  /\ UNCHANGED <<query, bridge, busy, intr, parked, kind, hold, pump, procVars, historyVars>>

EnsureSpawns(h) ==
  /\ At(h, "ensure")
  /\ query = None
  /\ \E s \in Spawns :
       /\ sub[s] = "unused"
       /\ sub' = [sub EXCEPT ![s] = "starting"]
       /\ bridge' = s
       /\ hold' = [hold EXCEPT ![h] = s]
  /\ Goto(h, "spawn")
  /\ UNCHANGED <<query, busy, intr, parked, kind, pump, todo, doing, signal,
                 cut, out, historyVars>>

(* startQuery binds the query and its controller; the consumer starts.     *)
Spawned(h) ==
  /\ At(h, "spawn")
  /\ query' = hold[h]
  /\ sub' = [sub EXCEPT ![hold[h]] = "idle"]
  /\ pump' = [pump EXCEPT ![hold[h]] = "reading"]
  /\ hold' = [hold EXCEPT ![h] = None]
  /\ Goto(h, "ensured")
  /\ UNCHANGED <<bridge, busy, intr, parked, kind, todo, doing, signal, cut,
                 out, historyVars>>

(* startQuery throws (no provider, config unreadable): the request ends.   *)
SpawnFailed(h) ==
  /\ At(h, "spawn")
  /\ sub' = [sub EXCEPT ![hold[h]] = "failed"]
  /\ hold' = [hold EXCEPT ![h] = None]
  /\ Goto(h, "free")
  /\ UNCHANGED <<query, bridge, busy, intr, parked, kind, pump, todo, doing,
                 signal, cut, out, historyVars>>

PushEverywhere == /\ begun < MaxTurns
                  /\ begun' = begun + 1
                  /\ todo' = [s \in Spawns |-> Append(todo[s], begun + 1)]

(* active.bridge?.push of the next turn.                                   *)
PushTurn == /\ begun < MaxTurns
            /\ begun' = begun + 1
            /\ todo' = IF bridge = None THEN todo
                       ELSE [todo EXCEPT ![bridge] = Append(@, begun + 1)]

(* beginFirstTurn after ensureQuery: the only place a send is committed.   *)
Begin(h) ==
  /\ At(h, "ensured")
  /\ kind[h] = "send"
  /\ busy' = TRUE
  /\ intr' = FALSE
  /\ PushTurn
  /\ Goto(h, "free")
  /\ UNCHANGED <<query, bridge, parked, kind, hold, pump, sub, doing, signal,
                 cut, out, report, asked, deaths>>

(* handleCompactSession after ensureQuery: interruptRequested is kept.     *)
BeginCompact(h) ==
  /\ At(h, "ensured")
  /\ kind[h] = "compact"
  /\ busy' = TRUE
  /\ PushTurn
  /\ Goto(h, "free")
  /\ UNCHANGED <<query, bridge, intr, parked, kind, hold, pump, sub, doing,
                 signal, cut, out, report, asked, deaths>>

(* refreshContextUsage reads the query and broadcasts; nothing else.       *)
UsageAnswered(h) ==
  /\ At(h, "ensured")
  /\ kind[h] = "usage"
  /\ Goto(h, "free")
  /\ UNCHANGED <<query, bridge, busy, intr, parked, kind, hold, pump, procVars, historyVars>>

(* Mutant: the map is cleared, the promises are left hanging.              *)
DrainUnresolved == parked' = {} /\ UNCHANGED sub

(* drainPendingRequests settles every parked prompt.                       *)
Drain == /\ parked' = {}
         /\ sub' = [s \in Spawns |-> IF s \in parked /\ sub[s] = "asking"
                                       THEN "working" ELSE sub[s]]

(* handleInterruptTurn: mark, await query.interrupt(), drain.              *)
Interrupt(h) ==
  /\ At(h, "free")
  /\ intr' = TRUE
  /\ asked' = asked \cup (1..begun)
  /\ kind' = [kind EXCEPT ![h] = "interrupt"]
  /\ hold' = [hold EXCEPT ![h] = query]
  /\ signal' = IF query = None THEN signal ELSE [signal EXCEPT ![query] = TRUE]
  /\ Goto(h, "interrupt")
  /\ UNCHANGED <<query, bridge, busy, parked, pump, sub, todo, doing, cut, out,
                 begun, report, deaths>>

(* Mutant: the handler clears turnInProgress itself.                       *)
InterruptedClears(h) ==
  /\ At(h, "interrupt")
  /\ hold[h] # None => InterruptSettled(h)
  /\ Drain
  /\ busy' = FALSE
  /\ hold' = [hold EXCEPT ![h] = None]
  /\ Goto(h, "free")
  /\ UNCHANGED <<query, bridge, intr, kind, pump, todo, doing, signal,
                 cut, out, historyVars>>

Interrupted(h) ==
  /\ At(h, "interrupt")
  /\ hold[h] # None => InterruptSettled(h)
  /\ Drain
  /\ hold' = [hold EXCEPT ![h] = None]
  /\ Goto(h, "free")
  /\ UNCHANGED <<query, bridge, busy, intr, kind, pump, todo, doing, signal,
                 cut, out, historyVars>>

-----------------------------------------------------------------------------
(* The subprocess (external).                                              *)
ReadPrompt(s) ==
  /\ sub[s] = "idle"
  /\ ~cut[s]
  /\ todo[s] # <<>>
  /\ sub' = [sub EXCEPT ![s] = "working"]
  /\ doing' = [doing EXCEPT ![s] = Head(todo[s])]
  /\ todo' = [todo EXCEPT ![s] = Tail(@)]
  /\ UNCHANGED <<query, bridge, busy, intr, parked, pump, handlerVars, signal,
                 cut, out, historyVars>>

(* canUseTool parks a permission prompt or a question.                     *)
Ask(s) ==
  /\ sub[s] = "working"
  /\ sub' = [sub EXCEPT ![s] = "asking"]
  /\ parked' = parked \cup {s}
  /\ UNCHANGED <<query, bridge, busy, intr, pump, handlerVars, todo, doing,
                 signal, cut, out, historyVars>>

(* handleApproveTool / handleAnswerQuestion: no await before the effect.   *)
Answer(s) ==
  /\ s \in parked
  /\ parked' = parked \ {s}
  /\ sub' = [sub EXCEPT ![s] = IF @ = "asking" THEN "working" ELSE @]
  /\ UNCHANGED <<query, bridge, busy, intr, pump, handlerVars, todo, doing,
                 signal, cut, out, historyVars>>

EmitResult(s, outcome) ==
  /\ out' = [out EXCEPT ![s] = Append(@, [turn |-> doing[s], outcome |-> outcome])]
  /\ sub' = [sub EXCEPT ![s] = "idle"]
  /\ doing' = [doing EXCEPT ![s] = None]

Finish(s) ==
  /\ sub[s] = "working"
  /\ \E outcome \in {"finished", "error"} : EmitResult(s, outcome)
  /\ UNCHANGED <<query, bridge, busy, intr, parked, pump, handlerVars, todo,
                 signal, cut, historyVars>>

(* An interrupt cuts the turn short (the parked prompt's signal aborts, so *)
(* its onAbort removes the entry) and reports error_during_execution; an   *)
(* idle subprocess only acknowledges.                                      *)
ObeyInterrupt(s) ==
  /\ signal[s]
  /\ ~Gone(s)
  /\ signal' = [signal EXCEPT ![s] = FALSE]
  /\ IF sub[s] \in {"working", "asking"}
       THEN EmitResult(s, "error") /\ parked' = parked \ {s}
       ELSE UNCHANGED <<out, sub, doing, parked>>
  /\ UNCHANGED <<query, bridge, busy, intr, pump, handlerVars, todo, cut, historyVars>>

Die(s) ==
  /\ deaths < MaxDeaths
  /\ sub[s] \in {"idle", "working", "asking"}
  /\ sub' = [sub EXCEPT ![s] = "died"]
  /\ doing' = [doing EXCEPT ![s] = None]
  /\ deaths' = deaths + 1
  /\ UNCHANGED <<query, bridge, busy, intr, parked, pump, handlerVars, todo,
                 signal, cut, out, begun, report, asked>>

(* Aborted and deprived of its prompts, it is killed or exits by itself.   *)
Killed(s) ==
  /\ cut[s]
  /\ sub[s] \in {"idle", "working", "asking"}
  /\ \/ sub' = [sub EXCEPT ![s] = "died"]
     \/ sub[s] = "idle" /\ sub' = [sub EXCEPT ![s] = "ended"]
  /\ doing' = [doing EXCEPT ![s] = None]
  /\ UNCHANGED <<query, bridge, busy, intr, parked, pump, handlerVars, todo,
                 signal, cut, out, historyVars>>

-----------------------------------------------------------------------------
(* The output consumer.  handleResult awaits the usage row before it reads *)
(* interruptRequested, and the title after it cleared turnInProgress.      *)
TakeResult(s) ==
  /\ pump[s] = "reading"
  /\ out[s] # <<>>
  /\ pump' = [pump EXCEPT ![s] = "persisting"]
  /\ UNCHANGED <<query, bridge, busy, intr, parked, handlerVars, procVars, historyVars>>

(* Mutant: the loop stops at the first result.                             *)
EndTurnAndStop(s) ==
  /\ pump[s] = "persisting"
  /\ report' = [report EXCEPT ![Head(out[s]).turn] = Head(out[s]).outcome]
  /\ out' = [out EXCEPT ![s] = Tail(@)]
  /\ intr' = FALSE
  /\ busy' = FALSE
  /\ pump' = [pump EXCEPT ![s] = "over"]
  /\ UNCHANGED <<query, bridge, parked, handlerVars, sub, todo, doing, signal,
                 cut, begun, asked, deaths>>

EndTurn(s) ==
  /\ pump[s] = "persisting"
  /\ LET result == Head(out[s])
     IN report' = [report EXCEPT ![result.turn] =
                     IF intr THEN "cancelled" ELSE result.outcome]
  /\ out' = [out EXCEPT ![s] = Tail(@)]
  /\ intr' = FALSE
  /\ busy' = FALSE
  /\ pump' = [pump EXCEPT ![s] = "titling"]
  /\ UNCHANGED <<query, bridge, parked, handlerVars, sub, todo, doing, signal,
                 cut, begun, asked, deaths>>

TitleSettled(s) ==
  /\ pump[s] = "titling"
  /\ pump' = [pump EXCEPT ![s] = "reading"]
  /\ UNCHANGED <<query, bridge, busy, intr, parked, handlerVars, procVars, historyVars>>

(* Mutant: the catch does not drain.                                       *)
ThrewUndrained(s) ==
  /\ pump[s] = "reading"
  /\ sub[s] = "died"
  /\ out[s] = <<>>
  /\ busy' = FALSE
  /\ pump' = [pump EXCEPT ![s] = "over"]
  /\ UNCHANGED <<query, bridge, intr, parked, handlerVars, procVars, historyVars>>

(* The iteration throws: the catch clears turnInProgress and drains.       *)
IterationThrew(s) ==
  /\ pump[s] = "reading"
  /\ sub[s] = "died"
  /\ out[s] = <<>>
  /\ busy' = FALSE
  /\ Drain
  /\ pump' = [pump EXCEPT ![s] = "over"]
  /\ UNCHANGED <<query, bridge, intr, handlerVars, todo, doing, signal, cut,
                 out, historyVars>>

(* The iteration ends: nothing but a log line.                             *)
IterationEnded(s) ==
  /\ pump[s] = "reading"
  /\ sub[s] = "ended"
  /\ out[s] = <<>>
  /\ pump' = [pump EXCEPT ![s] = "over"]
  /\ UNCHANGED <<query, bridge, busy, intr, parked, handlerVars, procVars, historyVars>>

-----------------------------------------------------------------------------
Request(h) == Send(h) \/ Compact(h) \/ ProbeUsage(h) \/ Interrupt(h)

Resume(h) == \/ FlagsApplied(h) \/ ProviderAuthorized(h) \/ ProviderPersisted(h)
             \/ Disposed(h) \/ EnsureBound(h) \/ EnsureSpawns(h) \/ Spawned(h)
             \/ SpawnFailed(h) \/ Begin(h) \/ BeginCompact(h)
             \/ UsageAnswered(h) \/ Interrupted(h)

Subprocess(s) == \/ ReadPrompt(s) \/ Finish(s) \/ ObeyInterrupt(s) \/ Killed(s)

Consumer(s) == \/ TakeResult(s) \/ EndTurn(s) \/ TitleSettled(s)
               \/ IterationThrew(s) \/ IterationEnded(s)

Next == \/ \E h \in Handlers : Request(h) \/ Resume(h)
        \/ \E s \in Spawns : Subprocess(s) \/ Consumer(s) \/ Ask(s) \/ Answer(s) \/ Die(s)

Spec == Init /\ [][Next]_vars

(* Awaited calls return and the event loop resumes handlers and consumers; *)
(* the subprocess works.  Nobody has to send, answer, interrupt or die.    *)
Fairness == /\ \A h \in Handlers : WF_vars(Resume(h))
            /\ \A s \in Spawns : /\ WF_vars(ReadPrompt(s) \/ Finish(s))
                                 /\ WF_vars(ObeyInterrupt(s))
                                 /\ WF_vars(Killed(s))
                                 /\ WF_vars(Consumer(s))

FairSpec == Spec /\ Fairness

-----------------------------------------------------------------------------
(* Every variable holds a value of its kind; every turn mentioned began.   *)
TypeOK ==
  /\ query \in Spawns \cup {None}
  /\ bridge \in Spawns \cup {None}
  /\ busy \in BOOLEAN
  /\ intr \in BOOLEAN
  /\ parked \subseteq Spawns
  /\ step \in [Handlers -> {"free", "flags", "authorize", "persist", "dispose",
                            "ensure", "spawn", "ensured", "interrupt"}]
  /\ kind \in [Handlers -> Kinds]
  /\ hold \in [Handlers -> Spawns \cup {None}]
  /\ sub \in [Spawns -> {"unused", "starting", "idle", "working", "asking",
                         "failed", "died", "ended"}]
  /\ begun \in 0..MaxTurns
  /\ todo \in [Spawns -> Seq(1..begun)]
  /\ doing \in [Spawns -> 1..begun \cup {None}]
  /\ signal \in [Spawns -> BOOLEAN]
  /\ cut \in [Spawns -> BOOLEAN]
  /\ out \in [Spawns -> Seq([turn : 1..begun, outcome : {"finished", "error"}])]
  /\ pump \in [Spawns -> {"none", "reading", "persisting", "titling", "over"}]
  /\ report \in [Turns -> {"open", "finished", "error", "cancelled"}]
  /\ asked \subseteq 1..begun
  /\ deaths \in 0..MaxDeaths

Live(s) == sub[s] \in {"idle", "working", "asking"} /\ ~cut[s]
HeldBy(s) == (IF doing[s] = None THEN {} ELSE {doing[s]})
             \cup {todo[s][i] : i \in DOMAIN todo[s]}
             \cup {out[s][i].turn : i \in DOMAIN out[s]}

(* handlers.ts:312 "multiple `send_message` turns reuse the single         *)
(* subprocess": one live subprocess per session.                           *)
SingleSubprocess == Cardinality({s \in Spawns : Live(s)}) <= 1

(* A session runs one turn at a time: a second prompt is never on its way  *)
(* while the first is being worked on.                                     *)
OneTurnHeld ==
  Cardinality(UNION {HeldBy(s) : s \in {r \in Spawns : Live(r)}}) <= 1

(* session-manager.ts:71 turnInProgress is "True while a query is          *)
(* consuming/emitting for this session".                                   *)
BusyWhileWorking ==
  \A s \in Spawns : Live(s) /\ sub[s] # "idle" => busy

(* Turns run one at a time, and turnInProgress tells when.                 *)
OneTurnAtATime == OneTurnHeld /\ BusyWhileWorking

(* A subprocess blocked in canUseTool always has its entry in the pending  *)
(* maps, so a click, an interrupt or a drain can still settle it.          *)
AskingIsParked == \A s \in Spawns : sub[s] = "asking" => s \in parked

(* A prompt lives in one place: no turn is executed by two subprocesses or *)
(* twice by one, and a reported turn is held by none.                      *)
EachTurnOnce ==
  /\ \A s, r \in Spawns : s # r => HeldBy(s) \cap HeldBy(r) = {}
  /\ \A s \in Spawns : \A t \in HeldBy(s) : report[t] = "open"

(* A turn is reported as cancelled only if the user pressed interrupt      *)
(* after it began: interruptRequested never leaks from an earlier turn.    *)
CancelledWasAsked ==
  \A t \in 1..begun : report[t] = "cancelled" => t \in asked

(* "Never leave a canUseTool promise hanging on iteration failure"         *)
(* (output-consumer.ts:644): a dead query's prompts are settled once its   *)
(* consumer is over.                                                       *)
DrainedWhenOver == \A s \in Spawns : pump[s] = "over" => s \notin parked

(* handlers.ts:306-313 ensureQuery spawns lazily and is "a no-op if a      *)
(* query is already live": it never settles for a query whose output       *)
(* consumer is over.                                                       *)
NoOpOnlyWhenLive ==
  [][\A h \in Handlers : EnsureBound(h) => pump[query] # "over"]_vars

(* Refinement: with one request at a time, clients see turns run one by    *)
(* one, and are told of the end of each while it is the one in progress.   *)
Client == INSTANCE TurnByTurn WITH running <- busy, pressed <- intr, gone <- deaths > 0
ImplementsTurns == Client!TSpec

(* Unless a subprocess died, a turn in progress ends, or waits for the     *)
(* user's answer to a prompt.                                              *)
TurnEnds == busy ~> (~busy \/ parked # {} \/ deaths > 0)
=============================================================================
