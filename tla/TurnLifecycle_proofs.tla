------------------------ MODULE TurnLifecycle_proofs -----------------------
(* Theorems about TurnLifecycle, for every number of concurrent requests,  *)
(* of spawns, of turns and of subprocess deaths.                           *)
EXTENDS TurnLifecycle, SequenceTheorems, FiniteSetTheorems, TLAPS

-----------------------------------------------------------------------------
(* Pushing turn n + 1 to a list of turns up to n.                          *)
LEMMA PushKeepsTurns ==
  ASSUME NEW n \in Nat, NEW f \in [Spawns -> Seq(1..n)], NEW b \in Spawns
  PROVE  /\ f \in [Spawns -> Seq(1..(n + 1))]
         /\ [f EXCEPT ![b] = Append(@, n + 1)] \in [Spawns -> Seq(1..(n + 1))]
<1>1. ASSUME NEW q \in Seq(1..n)
      PROVE  q \in Seq(1..(n + 1)) /\ Append(q, n + 1) \in Seq(1..(n + 1))
  <2>1. \A i \in 1..Len(q) : q[i] \in 1..(n + 1)
    OBVIOUS
  <2>2. q \in Seq(1..(n + 1))
    BY <2>1
  <2> QED
    BY <2>2, AppendProperties
<1> QED
  BY <1>1

(* Results of turns up to n are results of turns up to n + 1.              *)
LEMMA ResultsGrow ==
  ASSUME NEW n \in Nat,
         NEW f \in [Spawns -> Seq([turn : 1..n, outcome : {"finished", "error"}])]
  PROVE  f \in [Spawns -> Seq([turn : 1..(n + 1), outcome : {"finished", "error"}])]
<1> DEFINE R(m) == [turn : 1..m, outcome : {"finished", "error"}]
<1>1. R(n) \subseteq R(n + 1)
  OBVIOUS
<1> HIDE DEF R
<1>2. ASSUME NEW q \in Seq(R(n))
      PROVE  q \in Seq(R(n + 1))
  <2>1. \A i \in 1..Len(q) : q[i] \in R(n)
    OBVIOUS
  <2>2. \A i \in 1..Len(q) : q[i] \in R(n + 1)
    BY <2>1, <1>1
  <2> QED
    BY <2>2
<1>3. \A g : g \in [Spawns -> Seq(R(n))] => g \in [Spawns -> Seq(R(n + 1))]
  BY <1>2
<1> QED
  BY <1>3 DEF R

(* What the type invariant says of one variable at a time, without the     *)
(* values of a function where only its domain matters.                     *)
LEMMA TypeFacts ==
  ASSUME TypeOK
  PROVE  /\ step = [h \in Handlers |-> step[h]] /\ kind = [h \in Handlers |-> kind[h]]
         /\ hold \in [Handlers -> Spawns \cup {None}]
         /\ sub = [s \in Spawns |-> sub[s]] /\ pump = [s \in Spawns |-> pump[s]]
         /\ report = [t \in Turns |-> report[t]]
         /\ parked \subseteq Spawns /\ query \in Spawns \cup {None}
<1>1. /\ step \in [Handlers -> {"free", "flags", "authorize", "persist", "dispose",
                                "ensure", "spawn", "ensured", "interrupt"}]
      /\ kind \in [Handlers -> Kinds]
      /\ sub \in [Spawns -> {"unused", "starting", "idle", "working", "asking",
                             "failed", "died", "ended"}]
      /\ pump \in [Spawns -> {"none", "reading", "persisting", "titling", "over"}]
      /\ report \in [Turns -> {"open", "finished", "error", "cancelled"}]
      /\ hold \in [Handlers -> Spawns \cup {None}]
      /\ parked \subseteq Spawns /\ query \in Spawns \cup {None}
  BY Zenon DEF TypeOK
<1>2. step = [h \in Handlers |-> step[h]]
  BY <1>1
<1>3. kind = [h \in Handlers |-> kind[h]]
  BY <1>1 DEF Kinds
<1>4. sub = [s \in Spawns |-> sub[s]]
  BY <1>1
<1>5. pump = [s \in Spawns |-> pump[s]]
  BY <1>1
<1>6. report = [t \in Turns |-> report[t]]
  BY <1>1
<1> QED
  BY <1>1, <1>2, <1>3, <1>4, <1>5, <1>6, Zenon

LEMMA InitType == Init => TypeOK
<1> SUFFICES ASSUME Init
             PROVE  TypeOK
  OBVIOUS
<1>1. begun = 0 /\ begun \in 0..MaxTurns /\ deaths \in 0..MaxDeaths
  BY ConstantsAssumption DEF Init
<1>2. todo \in [Spawns -> Seq(1..begun)]
  BY <1>1 DEF Init
<1>3. out \in [Spawns -> Seq([turn : 1..begun, outcome : {"finished", "error"}])]
  BY <1>1 DEF Init
<1>4. /\ query \in Spawns \cup {None} /\ bridge \in Spawns \cup {None}
      /\ busy \in BOOLEAN /\ intr \in BOOLEAN /\ parked \subseteq Spawns
      /\ asked \subseteq 1..begun
  BY DEF Init
<1>5. /\ step \in [Handlers -> {"free", "flags", "authorize", "persist", "dispose",
                                "ensure", "spawn", "ensured", "interrupt"}]
      /\ kind \in [Handlers -> Kinds]
      /\ hold \in [Handlers -> Spawns \cup {None}]
  BY DEF Init, Kinds
<1>6. /\ sub \in [Spawns -> {"unused", "starting", "idle", "working", "asking",
                             "failed", "died", "ended"}]
      /\ doing \in [Spawns -> 1..begun \cup {None}]
      /\ signal \in [Spawns -> BOOLEAN]
      /\ cut \in [Spawns -> BOOLEAN]
      /\ pump \in [Spawns -> {"none", "reading", "persisting", "titling", "over"}]
      /\ report \in [Turns -> {"open", "finished", "error", "cancelled"}]
  BY DEF Init
<1> QED
  BY <1>1, <1>2, <1>3, <1>4, <1>5, <1>6 DEF TypeOK

(* A consumer that persists a result has one to report.                    *)
HasResult == \A s \in Spawns : pump[s] = "persisting" => out[s] # <<>>

(* A subprocess that works or asks has a turn to answer.                   *)
WorkingHasTurn ==
  \A s \in Spawns : sub[s] \in {"working", "asking"} => doing[s] # None

LEMMA NextType ==
  TypeOK /\ HasResult /\ WorkingHasTurn /\ [Next]_vars => TypeOK'
<1> SUFFICES ASSUME TypeOK, HasResult, WorkingHasTurn, [Next]_vars
             PROVE  TypeOK'
  OBVIOUS
<1> USE DEF At, Goto, procVars, historyVars, handlerVars, Kinds
<1>1a. ASSUME NEW h \in Handlers, Send(h)
      PROVE  TypeOK'
  BY <1>1a DEF TypeOK, Send
<1>1b. ASSUME NEW h \in Handlers, Compact(h)
      PROVE  TypeOK'
  BY <1>1b DEF TypeOK, Compact
<1>1c. ASSUME NEW h \in Handlers, ProbeUsage(h)
      PROVE  TypeOK'
  BY <1>1c DEF TypeOK, ProbeUsage
<1>1d. ASSUME NEW h \in Handlers, FlagsApplied(h)
      PROVE  TypeOK'
  BY <1>1d DEF TypeOK, FlagsApplied
<1>1e. ASSUME NEW h \in Handlers, ProviderAuthorized(h)
      PROVE  TypeOK'
  BY <1>1e DEF TypeOK, ProviderAuthorized
<1>1f. ASSUME NEW h \in Handlers, EnsureBound(h)
      PROVE  TypeOK'
  BY <1>1f DEF TypeOK, EnsureBound
<1>1g. ASSUME NEW h \in Handlers, UsageAnswered(h)
      PROVE  TypeOK'
  BY <1>1g DEF TypeOK, UsageAnswered
<1>2. ASSUME NEW h \in Handlers, ProviderPersisted(h)
      PROVE  TypeOK'
  BY <1>2 DEF TypeOK, ProviderPersisted
<1>3. ASSUME NEW h \in Handlers, Disposed(h)
      PROVE  TypeOK'
  BY <1>3 DEF TypeOK, Disposed
<1>4a. ASSUME NEW h \in Handlers, EnsureSpawns(h)
      PROVE  TypeOK'
  BY <1>4a DEF TypeOK, EnsureSpawns
<1>4b. ASSUME NEW h \in Handlers, Spawned(h)
      PROVE  TypeOK'
  BY <1>4b DEF TypeOK, Spawned
<1>4c. ASSUME NEW h \in Handlers, SpawnFailed(h)
      PROVE  TypeOK'
  BY <1>4c DEF TypeOK, SpawnFailed
<1>5. ASSUME NEW h \in Handlers, Begin(h) \/ BeginCompact(h)
      PROVE  TypeOK'
  <2>1. begun \in Nat /\ begun' = begun + 1 /\ begun' \in 0..MaxTurns
    BY <1>5, ConstantsAssumption DEF TypeOK, Begin, BeginCompact, PushTurn
  <2>2. todo' \in [Spawns -> Seq(1..begun')]
    <3>1. PushTurn
      BY <1>5 DEF Begin, BeginCompact
    <3>2. todo \in [Spawns -> Seq(1..begun)] /\ bridge \in Spawns \cup {None}
      BY DEF TypeOK
    <3> QED
      BY <2>1, <3>1, <3>2, PushKeepsTurns, ConstantsAssumption DEF PushTurn
  <2>3. out' \in [Spawns -> Seq([turn : 1..begun', outcome : {"finished", "error"}])]
    BY <1>5, <2>1, ResultsGrow DEF TypeOK, Begin, BeginCompact
  <2>4. doing' \in [Spawns -> 1..begun' \cup {None}] /\ asked' \subseteq 1..begun'
    <3>1. 1..begun \subseteq 1..begun'
      BY <2>1
    <3>2. doing' = doing /\ asked' = asked
      BY <1>5 DEF Begin, BeginCompact
    <3> QED
      BY <3>1, <3>2 DEF TypeOK
  <2> QED
    BY <1>5, <2>1, <2>2, <2>3, <2>4 DEF TypeOK, Begin, BeginCompact
<1>6. ASSUME NEW h \in Handlers, Interrupt(h)
      PROVE  TypeOK'
  BY <1>6 DEF TypeOK, Interrupt
<1>7. ASSUME NEW h \in Handlers, Interrupted(h)
      PROVE  TypeOK'
  BY <1>7 DEF TypeOK, Interrupted, Drain
<1>8. ASSUME NEW s \in Spawns, ReadPrompt(s)
      PROVE  TypeOK'
  <2>1. Head(todo[s]) \in 1..begun /\ Tail(todo[s]) \in Seq(1..begun)
    BY <1>8 DEF ReadPrompt, TypeOK
  <2> QED
    BY <1>8, <2>1 DEF ReadPrompt, TypeOK
<1>9a. ASSUME NEW s \in Spawns, Ask(s)
      PROVE  TypeOK'
  BY <1>9a, ConstantsAssumption DEF TypeOK, Ask
<1>9b. ASSUME NEW s \in Spawns, Answer(s)
      PROVE  TypeOK'
  BY <1>9b, ConstantsAssumption DEF TypeOK, Answer
<1>9c. ASSUME NEW s \in Spawns, Die(s)
      PROVE  TypeOK'
  <2>1. deaths' \in 0..MaxDeaths
    BY <1>9c, ConstantsAssumption DEF TypeOK, Die
  <2> QED
    BY <1>9c, <2>1 DEF TypeOK, Die
<1>9d. ASSUME NEW s \in Spawns, Killed(s)
      PROVE  TypeOK'
  BY <1>9d, ConstantsAssumption DEF TypeOK, Killed
<1>10. ASSUME NEW s \in Spawns, TakeResult(s) \/ TitleSettled(s) \/ IterationEnded(s)
       PROVE  TypeOK'
  BY <1>10 DEF TypeOK, TakeResult, TitleSettled, IterationEnded
<1>11. ASSUME NEW s \in Spawns, IterationThrew(s)
       PROVE  TypeOK'
  BY <1>11 DEF TypeOK, IterationThrew, Drain
<1>12. ASSUME NEW s \in Spawns, NEW o \in {"finished", "error"}, EmitResult(s, o),
              doing[s] # None
       PROVE  /\ out' \in [Spawns -> Seq([turn : 1..begun, outcome : {"finished", "error"}])]
              /\ sub' \in [Spawns -> {"unused", "starting", "idle", "working", "asking",
                                      "failed", "died", "ended"}]
              /\ doing' \in [Spawns -> 1..begun \cup {None}]
  <2> DEFINE R == [turn : 1..begun, outcome : {"finished", "error"}]
  <2>1. [turn |-> doing[s], outcome |-> o] \in R /\ out[s] \in Seq(R)
    BY <1>12 DEF TypeOK
  <2>2. out \in [Spawns -> Seq(R)]
    BY DEF TypeOK
  <2> HIDE DEF R
  <2>3. Append(out[s], [turn |-> doing[s], outcome |-> o]) \in Seq(R)
    BY <2>1, AppendProperties
  <2>4. out' \in [Spawns -> Seq(R)]
    BY <2>2, <2>3, <1>12 DEF EmitResult
  <2>5. /\ sub' \in [Spawns -> {"unused", "starting", "idle", "working", "asking",
                                 "failed", "died", "ended"}]
        /\ doing' \in [Spawns -> 1..begun \cup {None}]
    BY <1>12 DEF EmitResult, TypeOK
  <2> QED
    BY <2>4, <2>5 DEF R
<1>13. ASSUME NEW s \in Spawns, Finish(s)
       PROVE  TypeOK'
  <2>1. doing[s] # None
    BY <1>13 DEF Finish, WorkingHasTurn
  <2>2. PICK o \in {"finished", "error"} : EmitResult(s, o)
    BY <1>13 DEF Finish
  <2> QED
    BY <1>13, <2>1, <2>2, <1>12 DEF Finish, TypeOK
<1>14. ASSUME NEW s \in Spawns, ObeyInterrupt(s)
       PROVE  TypeOK'
  <2>1. signal' \in [Spawns -> BOOLEAN] /\ parked' \subseteq Spawns
    BY <1>14 DEF ObeyInterrupt, TypeOK
  <2>2. CASE sub[s] \in {"working", "asking"}
    <3>1. doing[s] # None /\ EmitResult(s, "error")
      BY <1>14, <2>2 DEF ObeyInterrupt, WorkingHasTurn
    <3> QED
      BY <1>14, <2>1, <3>1, <1>12 DEF ObeyInterrupt, TypeOK
  <2>3. CASE sub[s] \notin {"working", "asking"}
    BY <1>14, <2>1, <2>3 DEF ObeyInterrupt, TypeOK
  <2> QED
    BY <2>2, <2>3
<1>15. ASSUME NEW s \in Spawns, EndTurn(s)
       PROVE  TypeOK'
  <2> DEFINE R == [turn : 1..begun, outcome : {"finished", "error"}]
  <2>1. out[s] \in Seq(R) /\ out[s] # <<>> /\ out \in [Spawns -> Seq(R)]
    BY <1>15 DEF EndTurn, HasResult, TypeOK
  <2>2. Head(out[s]) \in R /\ Tail(out[s]) \in Seq(R)
    <3> HIDE DEF R
    <3> QED
      BY <2>1
  <2>3. Head(out[s]).outcome \in {"finished", "error"}
    BY <2>2
  <2>4. report' \in [Turns -> {"open", "finished", "error", "cancelled"}]
    BY <1>15, <2>3 DEF EndTurn, TypeOK
  <2>5. out' \in [Spawns -> Seq(R)]
    <3> HIDE DEF R
    <3> QED
      BY <1>15, <2>1, <2>2 DEF EndTurn
  <2> QED
    BY <1>15, <2>4, <2>5 DEF EndTurn, TypeOK
<1>16. CASE UNCHANGED vars
  BY <1>16 DEF vars, TypeOK
<1> QED
  BY <1>1a, <1>1b, <1>1c, <1>1d, <1>1e, <1>1f, <1>1g, <1>2, <1>3, <1>4a, <1>4b,
     <1>4c, <1>5, <1>6, <1>7, <1>8, <1>9a, <1>9b, <1>9c, <1>9d, <1>10, <1>11,
     <1>13, <1>14, <1>15, <1>16
     DEF Next, Request, Resume, Subprocess, Consumer

-----------------------------------------------------------------------------
(* Prompts are parked by subprocesses that ask, or that died asking.       *)
ParkedShape ==
  \A s \in Spawns : s \in parked => sub[s] \in {"asking", "died"}

(* Each pending startQuery owns a spawn of its own.                        *)
SpawnsOwned ==
  /\ \A h \in Handlers : step[h] = "spawn" =>
        hold[h] \in Spawns /\ sub[hold[h]] = "starting"
  /\ \A h, g \in Handlers :
        step[h] = "spawn" /\ step[g] = "spawn" /\ h # g => hold[h] # hold[g]

(* A consumer is over only after its subprocess.                           *)
OverShape == \A s \in Spawns : pump[s] = "over" => sub[s] \in {"died", "ended"}

Structure == /\ HasResult
             /\ WorkingHasTurn
             /\ ParkedShape
             /\ SpawnsOwned
             /\ OverShape
             /\ AskingIsParked
             /\ DrainedWhenOver

LEMMA InitStructure == Init => Structure
  BY DEF Init, Structure, HasResult, WorkingHasTurn, ParkedShape, SpawnsOwned,
         OverShape, AskingIsParked, DrainedWhenOver

(* A list one was appended to is not empty.                                *)
LEMMA AppendNotEmpty ==
  ASSUME TypeOK, NEW s \in Spawns, NEW o \in {"finished", "error"}, doing[s] # None
  PROVE  Append(out[s], [turn |-> doing[s], outcome |-> o]) # <<>>
<1> DEFINE R == [turn : 1..begun, outcome : {"finished", "error"}]
<1>1. [turn |-> doing[s], outcome |-> o] \in R /\ out[s] \in Seq(R)
  BY DEF TypeOK
<1> HIDE DEF R
<1> QED
  BY <1>1, AppendProperties

LEMMA NextStructure == TypeOK /\ Structure /\ [Next]_vars => Structure'
<1> SUFFICES ASSUME TypeOK, Structure, [Next]_vars
             PROVE  Structure'
  OBVIOUS
<1> USE ConstantsAssumption
    DEF At, Goto, procVars, historyVars, handlerVars, Structure, HasResult,
        WorkingHasTurn, ParkedShape, SpawnsOwned, OverShape, AskingIsParked,
        DrainedWhenOver
<1>0. /\ step = [h \in Handlers |-> step[h]] /\ hold \in [Handlers -> Spawns \cup {None}]
      /\ sub = [s \in Spawns |-> sub[s]] /\ doing \in [Spawns -> Nat \cup {None}]
      /\ pump = [s \in Spawns |-> pump[s]] /\ out = [s \in Spawns |-> out[s]]
      /\ parked \subseteq Spawns /\ query \in Spawns \cup {None}
  <2>1. 1..begun \subseteq Nat /\ doing \in [Spawns -> 1..begun \cup {None}]
    BY DEF TypeOK
  <2>2. doing \in [Spawns -> Nat \cup {None}]
    BY <2>1
  <2>3. /\ step = [h \in Handlers |-> step[h]] /\ hold \in [Handlers -> Spawns \cup {None}]
        /\ sub = [s \in Spawns |-> sub[s]] /\ pump = [s \in Spawns |-> pump[s]]
        /\ parked \subseteq Spawns /\ query \in Spawns \cup {None}
    BY TypeFacts
  <2>4. out = [s \in Spawns |-> out[s]]
    <3> DEFINE R == [turn : 1..begun, outcome : {"finished", "error"}]
    <3>1. out \in [Spawns -> Seq(R)]
      BY DEF TypeOK
    <3> HIDE DEF R
    <3> QED
      BY <3>1
  <2> QED
    BY <2>2, <2>3, <2>4
<1>1. ASSUME NEW h \in Handlers, Send(h)
      PROVE  Structure'
  BY <1>0, <1>1 DEF Send
<1>2. ASSUME NEW h \in Handlers, Compact(h)
      PROVE  Structure'
  BY <1>0, <1>2 DEF Compact
<1>3. ASSUME NEW h \in Handlers, ProbeUsage(h)
      PROVE  Structure'
  BY <1>0, <1>3 DEF ProbeUsage
<1>4. ASSUME NEW h \in Handlers, FlagsApplied(h)
      PROVE  Structure'
  <2>1. PICK there \in {"free", "ensure", "authorize"} : step' = [step EXCEPT ![h] = there]
    BY <1>4 DEF FlagsApplied
  <2>2. UNCHANGED <<sub, doing, pump, out, parked, hold>>
    BY <1>4 DEF FlagsApplied
  <2> QED
    BY <1>0, <2>1, <2>2
<1>5. ASSUME NEW h \in Handlers, ProviderAuthorized(h)
      PROVE  Structure'
  <2>1. PICK there \in {"free", "persist"} : step' = [step EXCEPT ![h] = there]
    BY <1>5 DEF ProviderAuthorized
  <2>2. UNCHANGED <<sub, doing, pump, out, parked, hold>>
    BY <1>5 DEF ProviderAuthorized
  <2> QED
    BY <1>0, <2>1, <2>2
<1>6. ASSUME NEW h \in Handlers, ProviderPersisted(h)
      PROVE  Structure'
  <2>1. PICK there \in {"ensure", "dispose"}, held \in {hold[h], query} :
          step' = [step EXCEPT ![h] = there] /\ hold' = [hold EXCEPT ![h] = held]
    BY <1>0, <1>6 DEF ProviderPersisted
  <2>2. UNCHANGED <<sub, doing, pump, out, parked>> /\ step[h] = "persist"
    BY <1>6 DEF ProviderPersisted
  <2> QED
    BY <1>0, <2>1, <2>2
<1>7. ASSUME NEW h \in Handlers, Disposed(h)
      PROVE  Structure'
  <2>1. /\ step' = [step EXCEPT ![h] = "ensure"] /\ hold' = [hold EXCEPT ![h] = None]
        /\ UNCHANGED <<sub, doing, pump, out, parked>>
    BY <1>7 DEF Disposed
  <2> QED
    BY <1>0, <2>1
<1>8. ASSUME NEW h \in Handlers, EnsureBound(h)
      PROVE  Structure'
  BY <1>0, <1>8 DEF EnsureBound
<1>9. ASSUME NEW h \in Handlers, EnsureSpawns(h)
      PROVE  Structure'
  <2>1. PICK s \in Spawns : /\ sub[s] = "unused"
                            /\ sub' = [sub EXCEPT ![s] = "starting"]
                            /\ hold' = [hold EXCEPT ![h] = s]
    BY <1>9 DEF EnsureSpawns
  <2>2. /\ step' = [step EXCEPT ![h] = "spawn"]
        /\ UNCHANGED <<doing, pump, out, parked>>
    BY <1>9 DEF EnsureSpawns
  <2>3. SpawnsOwned'
    BY <1>0, <2>1, <2>2
  <2>4. /\ HasResult' /\ WorkingHasTurn' /\ ParkedShape' /\ OverShape'
        /\ AskingIsParked' /\ DrainedWhenOver'
    BY <1>0, <2>1, <2>2
  <2> QED
    BY <2>3, <2>4
<1>10. ASSUME NEW h \in Handlers, Spawned(h)
      PROVE  Structure'
  BY <1>0, <1>10 DEF Spawned
<1>11. ASSUME NEW h \in Handlers, SpawnFailed(h)
      PROVE  Structure'
  BY <1>0, <1>11 DEF SpawnFailed
<1>12. ASSUME NEW h \in Handlers, Begin(h)
      PROVE  Structure'
  BY <1>0, <1>12 DEF Begin
<1>13. ASSUME NEW h \in Handlers, BeginCompact(h)
      PROVE  Structure'
  BY <1>0, <1>13 DEF BeginCompact
<1>14. ASSUME NEW h \in Handlers, UsageAnswered(h)
      PROVE  Structure'
  BY <1>0, <1>14 DEF UsageAnswered
<1>15. ASSUME NEW h \in Handlers, Interrupt(h)
      PROVE  Structure'
  BY <1>0, <1>15 DEF Interrupt
<1>16. ASSUME NEW h \in Handlers, Interrupted(h)
      PROVE  Structure'
  BY <1>0, <1>16 DEF Interrupted, Drain
<1>17. ASSUME NEW s \in Spawns, ReadPrompt(s)
      PROVE  Structure'
  <2>1. Head(todo[s]) # None
    BY <1>17 DEF ReadPrompt, TypeOK
  <2> QED
    BY <1>0, <1>17, <2>1 DEF ReadPrompt
<1>18. ASSUME NEW s \in Spawns, Ask(s)
      PROVE  Structure'
  BY <1>0, <1>18 DEF Ask
<1>19. ASSUME NEW s \in Spawns, Answer(s)
      PROVE  Structure'
  BY <1>0, <1>19 DEF Answer
<1>20. ASSUME NEW s \in Spawns, Finish(s)
      PROVE  Structure'
  <2>1. PICK o \in {"finished", "error"} : EmitResult(s, o)
    BY <1>20 DEF Finish
  <2>2. HasResult'
    BY <1>0, <1>20, <2>1, AppendNotEmpty DEF Finish, EmitResult
  <2> QED
    BY <1>0, <1>20, <2>1, <2>2 DEF Finish, EmitResult
<1>21. ASSUME NEW s \in Spawns, ObeyInterrupt(s)
      PROVE  Structure'
  <2>1. CASE sub[s] \in {"working", "asking"}
    <3>1. HasResult'
      BY <1>0, <1>21, <2>1, AppendNotEmpty DEF ObeyInterrupt, EmitResult
    <3>2. /\ sub' = [sub EXCEPT ![s] = "idle"] /\ doing' = [doing EXCEPT ![s] = None]
          /\ parked' = parked \ {s}
          /\ UNCHANGED <<step, hold, pump>>
      BY <1>21, <2>1 DEF ObeyInterrupt, EmitResult
    <3>3. WorkingHasTurn' /\ ParkedShape' /\ AskingIsParked'
      BY <1>0, <3>2
    <3>4. SpawnsOwned'
      BY <1>0, <2>1, <3>2
    <3>5. OverShape' /\ DrainedWhenOver'
      BY <1>0, <2>1, <3>2
    <3> QED
      BY <3>1, <3>3, <3>4, <3>5
  <2>2. CASE sub[s] \notin {"working", "asking"}
    BY <1>0, <1>21, <2>2 DEF ObeyInterrupt
  <2> QED
    BY <2>1, <2>2
<1>22. ASSUME NEW s \in Spawns, Die(s)
      PROVE  Structure'
  BY <1>0, <1>22 DEF Die
<1>23. ASSUME NEW s \in Spawns, Killed(s)
      PROVE  Structure'
  <2>1. /\ sub[s] \in {"idle", "working", "asking"}
        /\ doing' = [doing EXCEPT ![s] = None]
        /\ UNCHANGED <<step, hold, pump, out, parked>>
    BY <1>23 DEF Killed
  <2>2. CASE sub' = [sub EXCEPT ![s] = "died"]
    BY <1>0, <2>1, <2>2
  <2>3. CASE sub[s] = "idle" /\ sub' = [sub EXCEPT ![s] = "ended"]
    BY <1>0, <2>1, <2>3
  <2> QED
    BY <1>23, <2>2, <2>3 DEF Killed
<1>24. ASSUME NEW s \in Spawns, TakeResult(s)
      PROVE  Structure'
  BY <1>0, <1>24 DEF TakeResult
<1>25. ASSUME NEW s \in Spawns, EndTurn(s)
      PROVE  Structure'
  BY <1>0, <1>25 DEF EndTurn
<1>26. ASSUME NEW s \in Spawns, TitleSettled(s)
      PROVE  Structure'
  BY <1>0, <1>26 DEF TitleSettled
<1>27. ASSUME NEW s \in Spawns, IterationThrew(s)
      PROVE  Structure'
  BY <1>0, <1>27 DEF IterationThrew, Drain
<1>28. ASSUME NEW s \in Spawns, IterationEnded(s)
      PROVE  Structure'
  BY <1>0, <1>28 DEF IterationEnded
<1>29. CASE UNCHANGED vars
  BY <1>0, <1>29 DEF vars
<1> QED
  BY <1>1, <1>2, <1>3, <1>4, <1>5, <1>6, <1>7, <1>8, <1>9, <1>10, <1>11, <1>12, <1>13, <1>14, <1>15, <1>16, <1>17, <1>18, <1>19, <1>20, <1>21, <1>22, <1>23, <1>24, <1>25, <1>26, <1>27, <1>28, <1>29
     DEF Next, Request, Resume, Subprocess, Consumer

-----------------------------------------------------------------------------
(* While the interrupt flag is up, every turn begun so far was begun       *)
(* before an interrupt.  Compaction breaks this: it begins a turn without  *)
(* clearing the flag.                                                      *)
FlagCoversTurns == ~Compacts /\ intr => 1..begun \subseteq asked

NoCompact == ~Compacts => \A h \in Handlers : kind[h] # "compact"

UnbegunIsOpen == \A t \in Turns : t > begun => report[t] = "open"

CancelShape == ~Compacts => CancelledWasAsked

Flags == FlagCoversTurns /\ NoCompact /\ UnbegunIsOpen /\ CancelShape

LEMMA InitFlags == Init => Flags
  BY DEF Init, Flags, FlagCoversTurns, NoCompact, UnbegunIsOpen, CancelShape,
         CancelledWasAsked

LEMMA NextFlags ==
  TypeOK /\ HasResult /\ Flags /\ [Next]_vars => Flags'
<1> SUFFICES ASSUME TypeOK, HasResult, Flags, [Next]_vars
             PROVE  Flags'
  OBVIOUS
<1> USE DEF Flags, FlagCoversTurns, NoCompact, UnbegunIsOpen, CancelShape,
            CancelledWasAsked, historyVars, procVars, handlerVars
<1>0. /\ begun \in Nat /\ report = [t \in Turns |-> report[t]] /\ asked \subseteq 1..begun
      /\ kind = [h \in Handlers |-> kind[h]]
      /\ Turns = 1..MaxTurns /\ MaxTurns \in Nat /\ begun <= MaxTurns
  <2>1. report = [t \in Turns |-> report[t]] /\ kind = [h \in Handlers |-> kind[h]]
    BY TypeFacts
  <2>3. begun \in 0..MaxTurns /\ asked \subseteq 1..begun
    BY DEF TypeOK
  <2>4. Turns = 1..MaxTurns /\ MaxTurns \in Nat
    BY ConstantsAssumption DEF Turns
  <2> QED
    BY <2>1, <2>3, <2>4
<1>1. ASSUME NEW h \in Handlers, Begin(h)
      PROVE  Flags'
  <2>1. /\ begun' = begun + 1 /\ begun < MaxTurns /\ intr' = FALSE
        /\ UNCHANGED <<report, asked, kind>>
    BY <1>1 DEF Begin, PushTurn
  <2>2. report[begun + 1] = "open"
    BY <1>0, <2>1
  <2>3. CancelShape'
    BY <1>0, <2>1, <2>2
  <2>4. UnbegunIsOpen' /\ FlagCoversTurns' /\ NoCompact'
    BY <1>0, <2>1
  <2> QED
    BY <2>3, <2>4
<1>2. ASSUME NEW h \in Handlers, BeginCompact(h)
      PROVE  Flags'
  <2>1. /\ begun' = begun + 1 /\ kind' = kind /\ report' = report
        /\ kind[h] = "compact"
    BY <1>2 DEF BeginCompact, PushTurn
  <2> QED
    BY <1>0, <2>1
<1>3. ASSUME NEW h \in Handlers, Interrupt(h)
      PROVE  Flags'
  <2>1. /\ begun' = begun /\ report' = report /\ asked' = asked \cup (1..begun)
        /\ kind' = [kind EXCEPT ![h] = "interrupt"]
    BY <1>3 DEF Interrupt
  <2> QED
    BY <1>0, <2>1
<1>4. ASSUME NEW s \in Spawns, EndTurn(s)
      PROVE  Flags'
  <2> DEFINE R == [turn : 1..begun, outcome : {"finished", "error"}]
  <2>1. Head(out[s]) \in R
    <3>1. out[s] \in Seq(R) /\ out[s] # <<>>
      BY <1>4 DEF EndTurn, HasResult, TypeOK
    <3> HIDE DEF R
    <3> QED
      BY <3>1
  <2>2. PICK t \in 1..begun, o \in {"finished", "error"} :
          report' = [report EXCEPT ![t] = IF intr THEN "cancelled" ELSE o]
    BY <1>4, <2>1 DEF EndTurn
  <2>3. intr' = FALSE /\ UNCHANGED <<begun, asked, kind>>
    BY <1>4 DEF EndTurn, handlerVars
  <2> HIDE DEF R
  <2> QED
    BY <1>0, <2>2, <2>3
<1>5. ASSUME NEW h \in Handlers, Send(h) \/ Compact(h) \/ ProbeUsage(h)
      PROVE  Flags'
  <2>1. UNCHANGED <<begun, report, asked, intr>>
    BY <1>5 DEF Send, Compact, ProbeUsage
  <2>2. NoCompact'
    BY <1>0, <1>5 DEF Send, Compact, ProbeUsage
  <2> QED
    BY <2>1, <2>2
<1>6. ASSUME UNCHANGED <<begun, report, asked, intr, kind>>
      PROVE  Flags'
  BY <1>6
<1>7. ASSUME NEW h \in Handlers,
             FlagsApplied(h) \/ ProviderAuthorized(h) \/ ProviderPersisted(h)
             \/ Disposed(h) \/ EnsureBound(h) \/ EnsureSpawns(h) \/ Spawned(h)
             \/ SpawnFailed(h) \/ UsageAnswered(h) \/ Interrupted(h)
      PROVE  Flags'
  BY <1>6, <1>7 DEF FlagsApplied, ProviderAuthorized, ProviderPersisted, Disposed,
     EnsureBound, EnsureSpawns, Spawned, SpawnFailed, UsageAnswered, Interrupted
<1>8. ASSUME NEW s \in Spawns,
             ReadPrompt(s) \/ Ask(s) \/ Answer(s) \/ Finish(s) \/ ObeyInterrupt(s)
             \/ Die(s) \/ Killed(s) \/ TakeResult(s) \/ TitleSettled(s)
             \/ IterationThrew(s) \/ IterationEnded(s)
      PROVE  Flags'
  BY <1>6, <1>8 DEF ReadPrompt, Ask, Answer, Finish, ObeyInterrupt, Die, Killed,
     TakeResult, TitleSettled, IterationThrew, IterationEnded
<1>9. CASE UNCHANGED vars
  BY <1>6, <1>9 DEF vars
<1> QED
  BY <1>1, <1>2, <1>3, <1>4, <1>5, <1>7, <1>8, <1>9
     DEF Next, Request, Resume, Subprocess, Consumer

-----------------------------------------------------------------------------
(* The inductive invariant. *)
IInv == TypeOK /\ Structure /\ Flags

LEMMA Invariance == Spec => []IInv
<1>1. Init => IInv
  BY InitType, InitStructure, InitFlags DEF IInv
<1>2. IInv /\ [Next]_vars => IInv'
  BY NextType, NextStructure, NextFlags DEF IInv, Structure
<1> QED
  BY <1>1, <1>2, PTL DEF Spec

(* Type correctness; in particular no result, prompt or report ever names  *)
(* a turn that did not begin.                                              *)
THEOREM TypeCorrect == Spec => []TypeOK
<1>1. IInv => TypeOK
  BY DEF IInv
<1> QED
  BY <1>1, Invariance, PTL

(* However handlers, subprocesses and consumers interleave, a subprocess   *)
(* blocked in canUseTool can still be answered.                            *)
THEOREM AskingStaysAnswerable == Spec => []AskingIsParked
<1>1. IInv => AskingIsParked
  BY DEF IInv, Structure
<1> QED
  BY <1>1, Invariance, PTL

(* A consumer that is over leaves no prompt of its subprocess behind.      *)
THEOREM NothingParkedWhenOver == Spec => []DrainedWhenOver
<1>1. IInv => DrainedWhenOver
  BY DEF IInv, Structure
<1> QED
  BY <1>1, Invariance, PTL

(* Without compaction, whatever the number of overlapping sends, provider  *)
(* switches and interrupts, a turn is reported as cancelled only if the    *)
(* user interrupted after it began.                                        *)
THEOREM CancelIsHonest == ASSUME ~Compacts
                          PROVE  Spec => []CancelledWasAsked
<1>1. IInv => CancelledWasAsked
  BY DEF IInv, Flags, CancelShape
<1> QED
  BY <1>1, Invariance, PTL

-----------------------------------------------------------------------------
(* Each turn once: a turn moves from the bridge to the work and on to the  *)
(* results of its subprocess; each step leaves it in one place, and the    *)
(* next turn is one nobody holds.                                          *)

(* One turn at most has each place of a subprocess: q waits for it, d is   *)
(* worked on, o are its results.                                           *)
Apart(q, d, o) ==
  /\ \A i, j \in DOMAIN q : i # j => q[i] # q[j]
  /\ \A i, j \in DOMAIN o : i # j => o[i].turn # o[j].turn
  /\ \A i \in DOMAIN q : q[i] # d
  /\ \A i \in DOMAIN o : o[i].turn # d
  /\ \A i \in DOMAIN q, j \in DOMAIN o : q[i] # o[j].turn

Held(q, d, o) == (IF d = None THEN {} ELSE {d})
                 \cup {q[i] : i \in DOMAIN q} \cup {o[i].turn : i \in DOMAIN o}

ResultsOf(n) == [turn : 1..n, outcome : {"finished", "error"}]

EachApart == \A s \in Spawns : Apart(todo[s], doing[s], out[s])

LEMMA HeldIsBegun ==
  ASSUME NEW n \in Nat, NEW q \in Seq(1..n), NEW d \in 1..n \cup {None},
         NEW o \in Seq(ResultsOf(n))
  PROVE  Held(q, d, o) \subseteq 1..n
<1>1. \A r \in ResultsOf(n) : r.turn \in 1..n
  BY DEF ResultsOf
<1>2. \A i \in DOMAIN o : o[i] \in ResultsOf(n)
  BY LenProperties
<1>3. \A i \in DOMAIN q : q[i] \in 1..n
  BY LenProperties
<1> QED
  BY <1>1, <1>2, <1>3 DEF Held

LEMMA PushApart ==
  ASSUME NEW n \in Nat, NEW q \in Seq(1..n), NEW d \in 1..n \cup {None},
         NEW o \in Seq(ResultsOf(n)), Apart(q, d, o)
  PROVE  /\ Apart(Append(q, n + 1), d, o)
         /\ Held(Append(q, n + 1), d, o) = Held(q, d, o) \cup {n + 1}
<1> DEFINE p == Append(q, n + 1)
<1>1. \A t \in Held(q, d, o) : t # n + 1
  BY HeldIsBegun
<1>2. q \in Seq(1..(n + 1))
  BY \A i \in 1..Len(q) : q[i] \in 1..(n + 1)
<1>3. /\ DOMAIN q = 1..Len(q) /\ Len(q) \in Nat
      /\ DOMAIN p = 1..(Len(q) + 1)
      /\ \A i \in 1..Len(q) : p[i] = q[i]
      /\ p[Len(q) + 1] = n + 1
  <2>1. n + 1 \in 1..(n + 1)
    OBVIOUS
  <2>2. p \in Seq(1..(n + 1)) /\ Len(p) = Len(q) + 1
    BY <1>2, <2>1, AppendProperties
  <2>3. DOMAIN p = 1..Len(p)
    BY <2>2, LenProperties
  <2> QED
    BY <1>2, <2>1, <2>2, <2>3, AppendProperties, LenProperties
<1>4. \A i \in DOMAIN p : (i \in DOMAIN q /\ p[i] = q[i]) \/ (i = Len(q) + 1 /\ p[i] = n + 1)
  BY <1>3
<1>5. {p[i] : i \in DOMAIN p} = {q[i] : i \in DOMAIN q} \cup {n + 1}
  BY <1>3, <1>4
<1>6. /\ \A i \in DOMAIN q : q[i] # n + 1
      /\ \A i \in DOMAIN o : o[i].turn # n + 1
      /\ d # n + 1
  BY <1>1, ConstantsAssumption DEF Held
<1> HIDE DEF p
<1>7. Apart(p, d, o)
  BY <1>4, <1>6 DEF Apart
<1>8. Held(p, d, o) = Held(q, d, o) \cup {n + 1}
  BY <1>5 DEF Held
<1> QED
  BY <1>7, <1>8 DEF p

LEMMA ReadApart ==
  ASSUME NEW n \in Nat, NEW q \in Seq(1..n), NEW d, q # <<>>,
         NEW o \in Seq(ResultsOf(n)), Apart(q, d, o)
  PROVE  /\ Apart(Tail(q), Head(q), o)
         /\ Held(Tail(q), Head(q), o) \subseteq Held(q, d, o)
<1> DEFINE p == Tail(q)
<1>1. /\ DOMAIN q = 1..Len(q) /\ Len(q) \in Nat \ {0}
      /\ Head(q) = q[1]
      /\ p \in Seq(1..n) /\ Len(p) = Len(q) - 1
      /\ \A i \in 1..Len(p) : p[i] = q[i + 1]
  BY LenProperties, EmptySeq, HeadTailProperties
<1>2. DOMAIN p = 1..(Len(q) - 1)
  BY <1>1, LenProperties
<1> HIDE DEF p
<1>3. /\ 1 \in DOMAIN q
      /\ \A i \in DOMAIN p : i + 1 \in DOMAIN q /\ i + 1 # 1 /\ p[i] = q[i + 1]
      /\ \A i, j \in DOMAIN p : i # j => i + 1 # j + 1
  BY <1>1, <1>2
<1>4. Apart(p, q[1], o)
  BY <1>3 DEF Apart
<1>5. Held(p, q[1], o) \subseteq Held(q, d, o)
  BY <1>3 DEF Held
<1> QED
  BY <1>1, <1>4, <1>5 DEF p

LEMMA EmitApart ==
  ASSUME NEW n \in Nat, NEW q \in Seq(1..n), NEW d \in 1..n,
         NEW o \in Seq(ResultsOf(n)), NEW r \in ResultsOf(n), r.turn = d,
         Apart(q, d, o)
  PROVE  /\ Apart(q, None, Append(o, r))
         /\ Held(q, None, Append(o, r)) \subseteq Held(q, d, o)
<1> DEFINE p == Append(o, r)
<1>1. /\ DOMAIN o = 1..Len(o) /\ Len(o) \in Nat
      /\ p \in Seq(ResultsOf(n)) /\ Len(p) = Len(o) + 1
      /\ \A i \in 1..Len(o) : p[i] = o[i]
      /\ p[Len(o) + 1] = r
  BY LenProperties, AppendProperties
<1>2. DOMAIN p = 1..(Len(o) + 1)
  BY <1>1, LenProperties
<1> HIDE DEF p
<1>3. \A i \in DOMAIN p : (i \in DOMAIN o /\ p[i] = o[i]) \/ (i = Len(o) + 1 /\ p[i] = r)
  BY <1>1, <1>2
<1>4. d # None /\ \A t \in 1..n : t # None
  BY ConstantsAssumption
<1>5. /\ \A i \in DOMAIN q : q[i] # None
      /\ \A i \in DOMAIN p : p[i].turn # None
  <2>1. \A x \in ResultsOf(n) : x.turn \in 1..n
    BY DEF ResultsOf
  <2>2. \A i \in DOMAIN p : p[i] \in ResultsOf(n)
    BY <1>1, LenProperties
  <2>3. \A i \in DOMAIN q : q[i] \in 1..n
    BY LenProperties
  <2> QED
    BY <1>4, <2>1, <2>2, <2>3
<1>6. Apart(q, None, p)
  BY <1>3, <1>5 DEF Apart
<1>7. Held(q, None, p) \subseteq Held(q, d, o)
  BY <1>3, <1>4 DEF Held
<1> QED
  BY <1>6, <1>7 DEF p

LEMMA DropApart ==
  ASSUME NEW n \in Nat, NEW q \in Seq(1..n), NEW d, NEW o \in Seq(ResultsOf(n)),
         Apart(q, d, o)
  PROVE  Apart(q, None, o) /\ Held(q, None, o) \subseteq Held(q, d, o)
<1>1. \A t \in 1..n : t # None
  BY ConstantsAssumption
<1>2. \A x \in ResultsOf(n) : x.turn \in 1..n
  BY DEF ResultsOf
<1>3. \A i \in DOMAIN o : o[i] \in ResultsOf(n)
  BY LenProperties
<1>4. \A i \in DOMAIN q : q[i] \in 1..n
  BY LenProperties
<1> QED
  BY <1>1, <1>2, <1>3, <1>4 DEF Apart, Held

LEMMA EndApart ==
  ASSUME NEW n \in Nat, NEW q \in Seq(1..n), NEW d,
         NEW o \in Seq(ResultsOf(n)), o # <<>>, Apart(q, d, o)
  PROVE  /\ Apart(q, d, Tail(o))
         /\ Held(q, d, Tail(o)) \subseteq Held(q, d, o) \ {Head(o).turn}
         /\ Head(o).turn \in Held(q, d, o)
<1> DEFINE p == Tail(o)
<1>1. /\ DOMAIN o = 1..Len(o) /\ Len(o) \in Nat \ {0}
      /\ Head(o) = o[1]
      /\ p \in Seq(ResultsOf(n)) /\ Len(p) = Len(o) - 1
      /\ \A i \in 1..Len(p) : p[i] = o[i + 1]
  BY LenProperties, EmptySeq, HeadTailProperties
<1>2. DOMAIN p = 1..(Len(o) - 1)
  BY <1>1, LenProperties
<1> HIDE DEF p
<1>3. /\ 1 \in DOMAIN o
      /\ \A i \in DOMAIN p : i + 1 \in DOMAIN o /\ i + 1 # 1 /\ p[i] = o[i + 1]
      /\ \A i, j \in DOMAIN p : i # j => i + 1 # j + 1
  BY <1>1, <1>2
<1>4. Apart(q, d, p)
  BY <1>3 DEF Apart
<1>5. Held(q, d, p) \subseteq Held(q, d, o) /\ o[1].turn \in Held(q, d, o)
  BY <1>3 DEF Held
<1>6. o[1].turn \notin Held(q, d, p)
  BY <1>3 DEF Held, Apart
<1> QED
  BY <1>1, <1>4, <1>5, <1>6 DEF p

LEMMA PlacesTyped ==
  ASSUME TypeOK, NEW s \in Spawns
  PROVE  /\ begun \in Nat
         /\ todo[s] \in Seq(1..begun) /\ doing[s] \in 1..begun \cup {None}
         /\ out[s] \in Seq(ResultsOf(begun))
         /\ HeldBy(s) = Held(todo[s], doing[s], out[s])
         /\ HeldBy(s) \subseteq 1..begun
<1>1. /\ begun \in Nat
      /\ todo[s] \in Seq(1..begun) /\ doing[s] \in 1..begun \cup {None}
  BY ConstantsAssumption DEF TypeOK
<1>2. out[s] \in Seq(ResultsOf(begun))
  BY Zenon DEF TypeOK, ResultsOf
<1>3. HeldBy(s) = Held(todo[s], doing[s], out[s])
  BY Zenon DEF HeldBy, Held
<1> QED
  BY <1>1, <1>2, <1>3, HeldIsBegun

(* A step that gives no spawn a turn it did not hold.                      *)
LEMMA LosingKeepsOnce ==
  ASSUME EachTurnOnce, report' = report,
         \A s \in Spawns : HeldBy(s)' \subseteq HeldBy(s)
  PROVE  EachTurnOnce'
BY Zenon DEF EachTurnOnce

Apartness == EachApart /\ EachTurnOnce

LEMMA NextApart ==
  ASSUME TypeOK, TypeOK', HasResult, WorkingHasTurn, UnbegunIsOpen, Apartness, [Next]_vars
  PROVE  Apartness'
<1> USE DEF Apartness
<1>a. \A s \in Spawns : HeldBy(s)' = Held(todo'[s], doing'[s], out'[s])
  BY Zenon DEF HeldBy, Held
<1>b. \A s \in Spawns : HeldBy(s) = Held(todo[s], doing[s], out[s])
  BY Zenon DEF HeldBy, Held
<1>1. ASSUME UNCHANGED <<todo, doing, out, report>>
      PROVE  Apartness'
  <2>1. \A s \in Spawns : HeldBy(s)' = HeldBy(s)
    BY <1>1, <1>a, <1>b
  <2>2. EachApart'
    BY <1>1 DEF EachApart
  <2>3. EachTurnOnce'
    BY <1>1, <2>1, LosingKeepsOnce
  <2> QED
    BY <2>2, <2>3
<1>2. ASSUME NEW s \in Spawns, report' = report,
             \A r \in Spawns \ {s} : todo'[r] = todo[r] /\ doing'[r] = doing[r] /\ out'[r] = out[r],
             Apart(todo'[s], doing'[s], out'[s]),
             Held(todo'[s], doing'[s], out'[s]) \subseteq HeldBy(s)
      PROVE  Apartness'
  <2>1. EachApart'
    BY <1>2 DEF EachApart
  <2>2. HeldBy(s)' \subseteq HeldBy(s)
    BY <1>2, <1>a
  <2>3. \A r \in Spawns \ {s} : HeldBy(r)' = HeldBy(r)
    BY <1>2, <1>a, <1>b
  <2> QED
    BY <1>2, <2>1, <2>2, <2>3, LosingKeepsOnce
<1>3. ASSUME NEW h \in Handlers, Begin(h) \/ BeginCompact(h)
      PROVE  Apartness'
  <2>1. PushTurn /\ doing' = doing /\ out' = out /\ report' = report
    BY <1>3 DEF Begin, BeginCompact
  <2>2. CASE bridge = None
    BY <1>1, <2>1, <2>2 DEF PushTurn
  <2>3. ASSUME NEW b \in Spawns, bridge = b
        PROVE  Apartness'
    <3>1. b # None /\ begun \in Nat /\ begun + 1 \in Turns
      BY <2>1, <2>3, ConstantsAssumption DEF TypeOK, PushTurn, Turns
    <3>2. /\ todo'[b] = Append(todo[b], begun + 1)
          /\ \A r \in Spawns \ {b} : todo'[r] = todo[r]
      BY <2>1, <2>3, <3>1 DEF PushTurn, TypeOK
    <3>3. /\ Apart(todo'[b], doing[b], out[b])
          /\ Held(todo'[b], doing[b], out[b])
               = HeldBy(b) \cup {begun + 1}
      <4>1. Apart(todo[b], doing[b], out[b])
        BY <3>1 DEF EachApart
      <4>2. /\ todo[b] \in Seq(1..begun) /\ doing[b] \in 1..begun \cup {None}
            /\ out[b] \in Seq(ResultsOf(begun))
            /\ HeldBy(b) = Held(todo[b], doing[b], out[b])
        BY PlacesTyped
      <4>3. /\ Apart(Append(todo[b], begun + 1), doing[b], out[b])
            /\ Held(Append(todo[b], begun + 1), doing[b], out[b])
                 = Held(todo[b], doing[b], out[b]) \cup {begun + 1}
        <5> HIDE DEF Apartness
        <5>1. begun \in Nat
          BY <3>1
        <5> QED
          BY <5>1, <4>1, <4>2, PushApart, ZenonT(60)
      <4> QED
        BY <3>2, <4>2, <4>3
    <3>4. EachApart'
      BY <2>1, <3>2, <3>3 DEF EachApart
    <3>5. HeldBy(b)' = HeldBy(b) \cup {begun + 1}
      BY <1>a, <2>1, <3>1, <3>3
    <3>6. \A r \in Spawns \ {b} : HeldBy(r)' = HeldBy(r)
      BY <1>a, <1>b, <2>1, <3>2
    <3>7. \A r \in Spawns : begun + 1 \notin HeldBy(r)
      BY <3>1, PlacesTyped
    <3>8. report[begun + 1] = "open"
      BY <3>1 DEF UnbegunIsOpen
    <3>9. \A r, x \in Spawns : r # x => HeldBy(r)' \cap HeldBy(x)' = {}
      <4>1. \A r, x \in Spawns : r # x => HeldBy(r) \cap HeldBy(x) = {}
        BY DEF EachTurnOnce
      <4> QED
        BY <4>1, <3>5, <3>6, <3>7
    <3>10. \A r \in Spawns : \A t \in HeldBy(r)' : report[t] = "open"
      BY <3>5, <3>6, <3>8 DEF EachTurnOnce
    <3>11. EachTurnOnce'
      BY <2>1, <3>9, <3>10, Zenon DEF EachTurnOnce
    <3> QED
      BY <3>4, <3>11
  <2> QED
    BY <2>2, <2>3 DEF TypeOK
<1>4. ASSUME NEW s \in Spawns, ReadPrompt(s)
      PROVE  Apartness'
  <2>1. /\ todo[s] # <<>> /\ UNCHANGED <<out, report>>
        /\ todo'[s] = Tail(todo[s]) /\ doing'[s] = Head(todo[s])
        /\ \A r \in Spawns \ {s} : todo'[r] = todo[r] /\ doing'[r] = doing[r]
    BY <1>4 DEF ReadPrompt, TypeOK, historyVars
  <2>2. Apart(todo[s], doing[s], out[s])
    BY DEF EachApart
  <2>3. /\ Apart(todo'[s], doing'[s], out[s])
        /\ Held(todo'[s], doing'[s], out[s]) \subseteq HeldBy(s)
    BY <2>1, <2>2, PlacesTyped, ReadApart
  <2> QED
    BY <1>2, <2>1, <2>3
<1>5. ASSUME NEW s \in Spawns, NEW outcome \in {"finished", "error"},
             EmitResult(s, outcome), sub[s] \in {"working", "asking"},
             UNCHANGED <<todo, report>>
      PROVE  Apartness'
  <2> DEFINE r == [turn |-> doing[s], outcome |-> outcome]
  <2>1. /\ out'[s] = Append(out[s], r) /\ doing'[s] = None
        /\ \A x \in Spawns \ {s} : out'[x] = out[x] /\ doing'[x] = doing[x]
    BY <1>5 DEF EmitResult, TypeOK
  <2>2. Apart(todo[s], doing[s], out[s])
    BY DEF EachApart
  <2>3. doing[s] \in 1..begun
    BY <1>5, PlacesTyped DEF WorkingHasTurn
  <2>4. r \in ResultsOf(begun) /\ r.turn = doing[s]
    BY <2>3 DEF ResultsOf
  <2> HIDE DEF r
  <2>5. /\ Apart(todo[s], None, out'[s])
        /\ Held(todo[s], None, out'[s]) \subseteq HeldBy(s)
    BY <2>1, <2>2, <2>3, <2>4, PlacesTyped, EmitApart
  <2> QED
    BY <1>2, <1>5, <2>1, <2>5
<1>6. ASSUME NEW s \in Spawns, Finish(s)
      PROVE  Apartness'
  <2>1. /\ sub[s] = "working" /\ UNCHANGED <<todo, report>>
        /\ \E outcome \in {"finished", "error"} : EmitResult(s, outcome)
    BY <1>6 DEF Finish, historyVars
  <2> QED
    BY <1>5, <2>1
<1>7. ASSUME NEW s \in Spawns, ObeyInterrupt(s)
      PROVE  Apartness'
  <2>1. UNCHANGED <<todo, report>>
    BY <1>7 DEF ObeyInterrupt, historyVars
  <2>2. CASE sub[s] \in {"working", "asking"}
    BY <1>5, <1>7, <2>1, <2>2 DEF ObeyInterrupt
  <2>3. CASE sub[s] \notin {"working", "asking"}
    BY <1>1, <1>7, <2>1, <2>3 DEF ObeyInterrupt
  <2> QED
    BY <2>2, <2>3
<1>8. ASSUME NEW s \in Spawns, Die(s) \/ Killed(s)
      PROVE  Apartness'
  <2>1. /\ UNCHANGED <<todo, out, report>> /\ doing'[s] = None
        /\ \A r \in Spawns \ {s} : doing'[r] = doing[r]
    BY <1>8 DEF Die, Killed, TypeOK, historyVars
  <2>2. Apart(todo[s], doing[s], out[s])
    BY DEF EachApart
  <2>3. /\ Apart(todo[s], None, out[s])
        /\ Held(todo[s], None, out[s]) \subseteq HeldBy(s)
    BY <2>2, PlacesTyped, DropApart
  <2> QED
    BY <1>2, <2>1, <2>3
<1>9. ASSUME NEW s \in Spawns, EndTurn(s)
      PROVE  Apartness'
  <2>1. out[s] # <<>>
    BY <1>9 DEF EndTurn, HasResult
  <2>2. /\ todo' = todo /\ doing' = doing /\ out'[s] = Tail(out[s])
        /\ \A r \in Spawns \ {s} : out'[r] = out[r]
        /\ \A t \in Turns : t # Head(out[s]).turn => report'[t] = report[t]
    BY <1>9 DEF EndTurn, TypeOK
  <2>3. Apart(todo[s], doing[s], out[s])
    BY DEF EachApart
  <2>4. /\ Apart(todo[s], doing[s], out'[s])
        /\ Held(todo[s], doing[s], out'[s]) \subseteq HeldBy(s) \ {Head(out[s]).turn}
        /\ Head(out[s]).turn \in HeldBy(s)
    <3>1. /\ begun \in Nat
          /\ todo[s] \in Seq(1..begun) /\ out[s] \in Seq(ResultsOf(begun))
          /\ HeldBy(s) = Held(todo[s], doing[s], out[s])
      BY PlacesTyped
    <3>2. /\ Apart(todo[s], doing[s], Tail(out[s]))
          /\ Held(todo[s], doing[s], Tail(out[s]))
               \subseteq Held(todo[s], doing[s], out[s]) \ {Head(out[s]).turn}
          /\ Head(out[s]).turn \in Held(todo[s], doing[s], out[s])
      BY <2>1, <2>3, <3>1, EndApart, Zenon
    <3> QED
      BY <2>2, <3>1, <3>2
  <2>5. EachApart'
    BY <2>2, <2>4 DEF EachApart
  <2>6. HeldBy(s)' \subseteq HeldBy(s) \ {Head(out[s]).turn}
    BY <1>a, <2>2, <2>4
  <2>7. \A r \in Spawns \ {s} : HeldBy(r)' = HeldBy(r)
    BY <1>a, <1>b, <2>2
  <2>8. \A r \in Spawns : HeldBy(r) \subseteq Turns
    <3>1. 1..begun \subseteq Turns
      BY ConstantsAssumption DEF TypeOK, Turns
    <3> QED
      BY <3>1, PlacesTyped
  <2>9. EachTurnOnce'
    <3>1. \A a, b \in Spawns : a # b => HeldBy(a)' \cap HeldBy(b)' = {}
      BY <2>6, <2>7 DEF EachTurnOnce
    <3>2. \A r \in Spawns : \A t \in HeldBy(r)' : t \in HeldBy(r) /\ t # Head(out[s]).turn
      BY <2>4, <2>6, <2>7 DEF EachTurnOnce
    <3>3. \A r \in Spawns : \A t \in HeldBy(r)' : report'[t] = "open"
      BY <2>2, <2>8, <3>2 DEF EachTurnOnce
    <3> QED
      BY <3>1, <3>3 DEF EachTurnOnce
  <2> QED
    BY <2>5, <2>9
<1>10. ASSUME NEW h \in Handlers, Request(h)
       PROVE  Apartness'
  BY <1>1, <1>10 DEF Request, Send, Compact, ProbeUsage, Interrupt, procVars, historyVars
<1>11. ASSUME NEW h \in Handlers,
              \/ FlagsApplied(h) \/ ProviderAuthorized(h) \/ ProviderPersisted(h)
              \/ Disposed(h) \/ EnsureBound(h) \/ EnsureSpawns(h) \/ Spawned(h)
              \/ SpawnFailed(h) \/ UsageAnswered(h) \/ Interrupted(h)
       PROVE  Apartness'
  BY <1>1, <1>11 DEF FlagsApplied, ProviderAuthorized, ProviderPersisted, Disposed,
     EnsureBound, EnsureSpawns, Spawned, SpawnFailed, UsageAnswered, Interrupted,
     procVars, historyVars
<1>12. ASSUME NEW s \in Spawns,
              \/ TakeResult(s) \/ TitleSettled(s) \/ IterationThrew(s)
              \/ IterationEnded(s) \/ Ask(s) \/ Answer(s)
       PROVE  Apartness'
  BY <1>1, <1>12 DEF TakeResult, TitleSettled, IterationThrew, IterationEnded, Ask,
     Answer, procVars, historyVars
<1>13. CASE UNCHANGED vars
  BY <1>1, <1>13 DEF vars, procVars, historyVars
<1> QED
  BY <1>3, <1>4, <1>6, <1>7, <1>8, <1>9, <1>10, <1>11, <1>12, <1>13
     DEF Next, Resume, Subprocess, Consumer

LEMMA InitApart == Init => Apartness
<1> SUFFICES ASSUME Init PROVE Apartness
  OBVIOUS
<1>1. \A s \in Spawns : todo[s] = <<>> /\ doing[s] = None /\ out[s] = <<>>
  BY DEF Init
<1> QED
  BY <1>1 DEF Apartness, EachApart, Apart, EachTurnOnce, HeldBy

(* message-bridge.ts:21 shifts a prompt out of its queue once, and         *)
(* handleResult reports one turn per result: no turn is executed by two    *)
(* subprocesses or twice by one, however the requests interleave and       *)
(* queries are replaced.                                                   *)
THEOREM TurnsAreHeldOnce == Spec => []EachTurnOnce
<1>1. IInv /\ IInv' /\ Apartness /\ [Next]_vars => Apartness'
  BY NextApart DEF IInv, Structure, Flags
<1>2. Apartness => EachTurnOnce
  BY DEF Apartness
<1> QED
  BY <1>1, <1>2, InitApart, Invariance, PTL DEF Spec

-----------------------------------------------------------------------------
(* Theorems about TurnLifecycle when a session handles one request after   *)
(* the other and keeps its provider: for every number of spawns, turns and *)
(* deaths, with compactions.                                               *)

Serial == /\ ~Switches
          /\ \A g, h \in Handlers : g = h

(* No query is replaced.                                                   *)
KeptQuery ==
  /\ \A s \in Spawns : ~cut[s]
  /\ \A h \in Handlers : step[h] \notin {"authorize", "persist", "dispose"}
  /\ \A h \in Handlers : step[h] = "spawn" => query = None

(* Only the query bound was ever spawned; the bridge was made for a spawn, *)
(* which is under way only while its request is.                           *)
OneQuery ==
  /\ \A s \in Spawns : sub[s] \in {"idle", "working", "asking"} => query = s
  /\ \A s \in Spawns : pump[s] # "none" => query = s
  /\ bridge # None => sub[bridge] # "unused"
  /\ \A s \in Spawns : sub[s] = "starting" =>
       \E h \in Handlers : step[h] = "spawn" /\ hold[h] = s

(* A request that passed the check of turnInProgress keeps it.             *)
Checked ==
  \A h \in Handlers :
    step[h] \in {"flags", "ensure", "spawn", "ensured"} /\ kind[h] \in {"send", "compact"}
      => ~busy

Empty(s) == todo[s] = <<>> /\ doing[s] = None /\ out[s] = <<>>

(* What a subprocess has of a turn: it waits, is worked on or is reported. *)
AtMostOne(s) ==
  \/ Len(todo[s]) <= 1 /\ doing[s] = None /\ out[s] = <<>>
  \/ todo[s] = <<>> /\ out[s] = <<>>
  \/ todo[s] = <<>> /\ doing[s] = None /\ Len(out[s]) <= 1

(* A subprocess that lives has one turn, and none unless one is in         *)
(* progress; one that was not started has none.                            *)
Loads ==
  /\ \A s \in Spawns : sub[s] \in {"unused", "starting"} => Empty(s)
  /\ \A s \in Spawns : sub[s] \in {"idle", "working", "asking"} =>
       /\ AtMostOne(s)
       /\ ~busy => Empty(s)
       /\ sub[s] = "idle" => doing[s] = None

Alone == KeptQuery /\ OneQuery /\ Checked /\ Loads

LEMMA InitAlone == Init => Alone
<1> SUFFICES ASSUME Init PROVE Alone
  OBVIOUS
<1>1. KeptQuery /\ Checked
  BY DEF Init, KeptQuery, Checked
<1>2. OneQuery
  BY DEF Init, OneQuery
<1>3. Loads
  <2>1. \A s \in Spawns : /\ sub[s] = "unused" /\ todo[s] = <<>>
                          /\ doing[s] = None /\ out[s] = <<>>
    BY DEF Init
  <2> QED
    BY <2>1 DEF Loads, Empty
<1> QED
  BY <1>1, <1>2, <1>3 DEF Alone

(* A list of at most one is empty when its head was taken, and one that    *)
(* was empty has one when one was put there.                               *)
LEMMA LastTaken ==
  ASSUME NEW R, NEW q \in Seq(R), Len(q) <= 1, q # <<>>
  PROVE  Tail(q) = <<>>
<1>1. Tail(q) \in Seq(R) /\ Len(Tail(q)) = Len(q) - 1
  BY HeadTailProperties
<1>2. Len(q) \in Nat /\ Len(q) # 0
  BY EmptySeq, LenProperties
<1>3. Len(Tail(q)) = 0
  BY <1>1, <1>2
<1> QED
  BY <1>1, <1>3, EmptySeq

LEMMA FirstPut ==
  ASSUME NEW R, NEW x \in R
  PROVE  Len(Append(<<>>, x)) = 1
<1>1. <<>> \in Seq(R) /\ Len(<<>>) = 0
  BY EmptySeq
<1>2. Len(Append(<<>>, x)) = Len(<<>>) + 1
  BY <1>1, AppendProperties
<1> QED
  BY <1>1, <1>2

LEMMA Facts ==
  ASSUME TypeOK
  PROVE  /\ step = [h \in Handlers |-> step[h]] /\ kind = [h \in Handlers |-> kind[h]]
         /\ hold = [h \in Handlers |-> hold[h]] /\ sub = [s \in Spawns |-> sub[s]]
         /\ pump = [s \in Spawns |-> pump[s]] /\ cut = [s \in Spawns |-> cut[s]]
         /\ doing = [s \in Spawns |-> doing[s]] /\ todo = [s \in Spawns |-> todo[s]]
         /\ out = [s \in Spawns |-> out[s]]
         /\ query \in Spawns \cup {None} /\ bridge \in Spawns \cup {None}
         /\ None \notin Spawns
<1>1. /\ hold = [h \in Handlers |-> hold[h]] /\ cut = [s \in Spawns |-> cut[s]]
      /\ bridge \in Spawns \cup {None} /\ None \notin Spawns
  BY ConstantsAssumption DEF TypeOK
<1>2. doing = [s \in Spawns |-> doing[s]]
  BY DEF TypeOK
<1>3. todo = [s \in Spawns |-> todo[s]]
  <2> DEFINE R == Seq(1..begun)
  <2>1. todo \in [Spawns -> R]
    BY DEF TypeOK
  <2> HIDE DEF R
  <2> QED
    BY <2>1
<1>4. out = [s \in Spawns |-> out[s]]
  <2> DEFINE R == Seq([turn : 1..begun, outcome : {"finished", "error"}])
  <2>1. out \in [Spawns -> R]
    BY DEF TypeOK
  <2> HIDE DEF R
  <2> QED
    BY <2>1
<1> QED
  BY <1>1, <1>2, <1>3, <1>4, TypeFacts

LEMMA NextQuery ==
  ASSUME Serial, TypeOK, Structure, KeptQuery, OneQuery, [Next]_vars
  PROVE  KeptQuery' /\ OneQuery'
<1> USE Facts DEF Serial, KeptQuery, OneQuery, At, Goto, procVars, historyVars,
                  handlerVars
<1>1. ASSUME NEW h \in Handlers, Request(h)
      PROVE  KeptQuery' /\ OneQuery'
  BY <1>1 DEF Request, Send, Compact, ProbeUsage, Interrupt
<1>2. ASSUME NEW h \in Handlers, FlagsApplied(h)
      PROVE  KeptQuery' /\ OneQuery'
  BY <1>2 DEF FlagsApplied
<1>3. ASSUME NEW h \in Handlers,
             ProviderAuthorized(h) \/ ProviderPersisted(h) \/ Disposed(h)
      PROVE  FALSE
  BY <1>3 DEF ProviderAuthorized, ProviderPersisted, Disposed
<1>4. ASSUME NEW h \in Handlers, EnsureBound(h)
      PROVE  KeptQuery' /\ OneQuery'
  BY <1>4 DEF EnsureBound
<1>5. ASSUME NEW h \in Handlers, EnsureSpawns(h)
      PROVE  KeptQuery' /\ OneQuery'
  BY <1>5 DEF EnsureSpawns
<1>6. ASSUME NEW h \in Handlers, Spawned(h)
      PROVE  KeptQuery' /\ OneQuery'
  BY <1>6 DEF Spawned, Structure, SpawnsOwned
<1>7. ASSUME NEW h \in Handlers, SpawnFailed(h)
      PROVE  KeptQuery' /\ OneQuery'
  BY <1>7 DEF SpawnFailed, Structure, SpawnsOwned
<1>8. ASSUME NEW h \in Handlers,
             Begin(h) \/ BeginCompact(h) \/ UsageAnswered(h)
      PROVE  KeptQuery' /\ OneQuery'
  BY <1>8 DEF Begin, BeginCompact, UsageAnswered
<1>9. ASSUME NEW h \in Handlers, Interrupted(h)
      PROVE  KeptQuery' /\ OneQuery'
  BY <1>9 DEF Interrupted, Drain
<1>10. ASSUME NEW s \in Spawns, ReadPrompt(s) \/ Ask(s) \/ Answer(s)
       PROVE  KeptQuery' /\ OneQuery'
  BY <1>10 DEF ReadPrompt, Ask, Answer
<1>11. ASSUME NEW s \in Spawns, Finish(s)
       PROVE  KeptQuery' /\ OneQuery'
  BY <1>11 DEF Finish, EmitResult
<1>12. ASSUME NEW s \in Spawns, ObeyInterrupt(s)
       PROVE  KeptQuery' /\ OneQuery'
  BY <1>12 DEF ObeyInterrupt, EmitResult
<1>13. ASSUME NEW s \in Spawns, Die(s) \/ Killed(s)
       PROVE  KeptQuery' /\ OneQuery'
  BY <1>13 DEF Die, Killed
<1>14. ASSUME NEW s \in Spawns,
              TakeResult(s) \/ EndTurn(s) \/ TitleSettled(s) \/ IterationEnded(s)
       PROVE  KeptQuery' /\ OneQuery'
  BY <1>14 DEF TakeResult, EndTurn, TitleSettled, IterationEnded
<1>15. ASSUME NEW s \in Spawns, IterationThrew(s)
       PROVE  KeptQuery' /\ OneQuery'
  BY <1>15 DEF IterationThrew, Drain
<1>16. CASE UNCHANGED vars
  BY <1>16 DEF vars
<1> QED
  BY <1>1, <1>2, <1>3, <1>4, <1>5, <1>6, <1>7, <1>8, <1>9, <1>10, <1>11, <1>12,
     <1>13, <1>14, <1>15, <1>16 DEF Next, Resume, Subprocess, Consumer

LEMMA NextChecked ==
  ASSUME Serial, TypeOK, KeptQuery, Checked, [Next]_vars
  PROVE  Checked'
<1> USE Facts DEF Serial, Checked, At, Goto, procVars, historyVars, handlerVars
<1>1. ASSUME NEW h \in Handlers, Send(h) \/ Compact(h)
      PROVE  Checked'
  BY <1>1 DEF Send, Compact
<1>2. ASSUME NEW h \in Handlers, ProbeUsage(h) \/ Interrupt(h)
      PROVE  Checked'
  BY <1>2 DEF ProbeUsage, Interrupt
<1>3. ASSUME NEW h \in Handlers, FlagsApplied(h) \/ EnsureBound(h) \/ EnsureSpawns(h)
                                 \/ Spawned(h)
      PROVE  Checked'
  BY <1>3 DEF FlagsApplied, EnsureBound, EnsureSpawns, Spawned
<1>4. ASSUME NEW h \in Handlers,
             \/ ProviderAuthorized(h) \/ ProviderPersisted(h) \/ Disposed(h)
             \/ SpawnFailed(h) \/ Begin(h) \/ BeginCompact(h) \/ UsageAnswered(h)
             \/ Interrupted(h)
      PROVE  Checked'
  <2>1. \A g \in Handlers : g = h
    OBVIOUS
  <2>2. ASSUME ProviderAuthorized(h) \/ ProviderPersisted(h) \/ Disposed(h)
        PROVE  FALSE
    BY <2>2 DEF ProviderAuthorized, ProviderPersisted, Disposed, KeptQuery
  <2>3. step'[h] = "free"
    BY <1>4, <2>2 DEF SpawnFailed, Begin, BeginCompact, UsageAnswered, Interrupted, TypeOK
  <2> QED
    BY <2>1, <2>3
<1>5. ASSUME NEW s \in Spawns, EndTurn(s) \/ IterationThrew(s)
      PROVE  Checked'
  BY <1>5 DEF EndTurn, IterationThrew
<1>6. ASSUME busy' = busy, step' = step, kind' = kind
      PROVE  Checked'
  BY <1>6
<1>7. ASSUME NEW s \in Spawns, Subprocess(s) \/ Ask(s) \/ Answer(s) \/ Die(s)
      PROVE  Checked'
  BY <1>6, <1>7 DEF Subprocess, ReadPrompt, Finish, ObeyInterrupt, Killed, Ask, Answer, Die
<1>8. ASSUME NEW s \in Spawns, TakeResult(s) \/ TitleSettled(s) \/ IterationEnded(s)
      PROVE  Checked'
  BY <1>6, <1>8 DEF TakeResult, TitleSettled, IterationEnded
<1>9. CASE UNCHANGED vars
  BY <1>6, <1>9 DEF vars
<1> QED
  BY <1>1, <1>2, <1>3, <1>4, <1>5, <1>7, <1>8, <1>9 DEF Next, Request, Resume, Consumer

(* What a step changes of a subprocess' turns in each of the ways there    *)
(* are: none, a prompt that is put, one that is begun, one that ends.      *)
LEMMA NextLoads ==
  ASSUME Serial, TypeOK, Structure, KeptQuery, OneQuery, Checked, Loads, [Next]_vars
  PROVE  Loads'
<1> USE Facts DEF Loads, Empty, AtMostOne, At, Goto, procVars, historyVars, handlerVars
<1>1. ASSUME UNCHANGED <<sub, todo, doing, out, busy>>
      PROVE  Loads'
  BY <1>1
<1>2. ASSUME NEW h \in Handlers, Request(h)
      PROVE  Loads'
  BY <1>1, <1>2 DEF Request, Send, Compact, ProbeUsage, Interrupt
<1>3. ASSUME NEW h \in Handlers,
             FlagsApplied(h) \/ EnsureBound(h) \/ UsageAnswered(h)
      PROVE  Loads'
  BY <1>1, <1>3 DEF FlagsApplied, EnsureBound, UsageAnswered
<1>4. ASSUME NEW h \in Handlers,
             ProviderAuthorized(h) \/ ProviderPersisted(h) \/ Disposed(h)
      PROVE  FALSE
  BY <1>4 DEF ProviderAuthorized, ProviderPersisted, Disposed, KeptQuery
<1>5. ASSUME NEW h \in Handlers, EnsureSpawns(h)
      PROVE  Loads'
  BY <1>5 DEF EnsureSpawns
<1>6. ASSUME NEW h \in Handlers, Spawned(h)
      PROVE  Loads'
  BY <1>6 DEF Spawned, Structure, SpawnsOwned
<1>7. ASSUME NEW h \in Handlers, SpawnFailed(h)
      PROVE  Loads'
  BY <1>7 DEF SpawnFailed
<1>8. ASSUME NEW h \in Handlers, Begin(h) \/ BeginCompact(h)
      PROVE  Loads'
  <2>1. /\ PushTurn /\ busy' = TRUE /\ sub' = sub /\ doing' = doing /\ out' = out
        /\ step[h] = "ensured" /\ kind[h] \in {"send", "compact"}
    BY <1>8 DEF Begin, BeginCompact
  <2>2. ~busy
    BY <2>1 DEF Checked
  <2>3. \A s \in Spawns : sub[s] # "starting"
    BY <2>1 DEF Serial, OneQuery
  <2>4. ASSUME NEW s \in Spawns, s = bridge, Empty(s)
        PROVE  Len(todo'[s]) <= 1
    <3>1. begun + 1 \in Nat
      BY DEF TypeOK
    <3>2. todo'[s] = Append(<<>>, begun + 1)
      BY <2>1, <2>4 DEF PushTurn
    <3> QED
      BY <3>1, <3>2, FirstPut
  <2>5. \A s \in Spawns : s # bridge => todo'[s] = todo[s]
    BY <2>1 DEF PushTurn
  <2>6. \A s \in Spawns : s = bridge => sub[s] # "unused"
    BY DEF OneQuery
  <2> QED
    BY <2>1, <2>2, <2>3, <2>4, <2>5, <2>6
<1>9. ASSUME NEW h \in Handlers, Interrupted(h)
      PROVE  Loads'
  BY <1>9 DEF Interrupted, Drain
<1>10. ASSUME NEW s \in Spawns, ReadPrompt(s)
       PROVE  Loads'
  <2>1. /\ sub[s] = "idle" /\ todo[s] # <<>> /\ doing[s] = None
        /\ sub' = [sub EXCEPT ![s] = "working"]
        /\ doing' = [doing EXCEPT ![s] = Head(todo[s])]
        /\ todo' = [todo EXCEPT ![s] = Tail(@)]
        /\ out' = out /\ busy' = busy
    BY <1>10 DEF ReadPrompt
  <2>2. todo[s] \in Seq(1..begun) /\ Len(todo[s]) <= 1 /\ out[s] = <<>>
    BY <2>1 DEF TypeOK
  <2>3. Tail(todo[s]) = <<>>
    BY <2>1, <2>2, LastTaken
  <2> QED
    BY <2>1, <2>2, <2>3
<1>11. ASSUME NEW s \in Spawns, Ask(s) \/ Answer(s)
       PROVE  Loads'
  BY <1>11 DEF Ask, Answer, Structure, WorkingHasTurn, ParkedShape
<1>12. ASSUME NEW s \in Spawns, NEW o \in {"finished", "error"},
              sub[s] \in {"working", "asking"}, EmitResult(s, o),
              todo' = todo, busy' = busy
       PROVE  Loads'
  <2> DEFINE R == [turn : 1..begun, outcome : {"finished", "error"}]
  <2>1. doing[s] # None /\ todo[s] = <<>> /\ out[s] = <<>> /\ busy
    BY <1>12 DEF Structure, WorkingHasTurn
  <2>2. [turn |-> doing[s], outcome |-> o] \in R
    BY <2>1 DEF TypeOK
  <2>3. /\ out' = [out EXCEPT ![s] = Append(<<>>, [turn |-> doing[s], outcome |-> o])]
        /\ sub' = [sub EXCEPT ![s] = "idle"] /\ doing' = [doing EXCEPT ![s] = None]
    BY <1>12, <2>1 DEF EmitResult
  <2> HIDE DEF R
  <2>4. Len(out'[s]) = 1
    BY <2>2, <2>3, FirstPut
  <2> QED
    BY <1>12, <2>1, <2>3, <2>4
<1>13. ASSUME NEW s \in Spawns, Finish(s) \/ ObeyInterrupt(s)
       PROVE  Loads'
  <2>1. CASE Finish(s)
    BY <1>12, <2>1 DEF Finish
  <2>2. CASE ObeyInterrupt(s) /\ sub[s] \in {"working", "asking"}
    BY <1>12, <2>2 DEF ObeyInterrupt
  <2>3. CASE ObeyInterrupt(s) /\ sub[s] \notin {"working", "asking"}
    BY <1>1, <2>3 DEF ObeyInterrupt
  <2> QED
    BY <1>13, <2>1, <2>2, <2>3
<1>14. ASSUME NEW s \in Spawns, Die(s) \/ Killed(s)
       PROVE  Loads'
  BY <1>14 DEF Die, Killed
<1>15. ASSUME NEW s \in Spawns, TakeResult(s) \/ TitleSettled(s) \/ IterationEnded(s)
       PROVE  Loads'
  BY <1>1, <1>15 DEF TakeResult, TitleSettled, IterationEnded
<1>16. ASSUME NEW s \in Spawns, EndTurn(s)
       PROVE  Loads'
  <2> DEFINE R == [turn : 1..begun, outcome : {"finished", "error"}]
  <2>1. /\ query = s /\ out[s] # <<>> /\ out' = [out EXCEPT ![s] = Tail(@)]
        /\ sub' = sub /\ todo' = todo /\ doing' = doing
    BY <1>16 DEF EndTurn, OneQuery, Structure, HasResult
  <2>2. out[s] \in Seq(R)
    BY DEF TypeOK
  <2> HIDE DEF R
  <2>3. sub[s] \in {"idle", "working", "asking"} => Tail(out[s]) = <<>>
    BY <2>1, <2>2, LastTaken
  <2>4. \A r \in Spawns : sub[r] \in {"idle", "working", "asking"} => r = s
    BY <2>1 DEF OneQuery
  <2>5. ASSUME NEW r \in Spawns, sub[r] \in {"unused", "starting"}
        PROVE  r # s
    BY <2>1, <2>5
  <2> QED
    BY <2>1, <2>3, <2>4, <2>5
<1>17. ASSUME NEW s \in Spawns, IterationThrew(s)
       PROVE  Loads'
  <2>1. query = s /\ sub[s] = "died"
    BY <1>17 DEF IterationThrew, OneQuery
  <2>2. \A r \in Spawns : sub[r] \notin {"idle", "working", "asking"}
    BY <2>1 DEF OneQuery
  <2>3. /\ todo' = todo /\ doing' = doing /\ out' = out
        /\ \A r \in Spawns : sub'[r] = sub[r] \/ sub[r] = "asking"
    BY <1>17 DEF IterationThrew, Drain
  <2> QED
    BY <2>2, <2>3
<1>18. CASE UNCHANGED vars
  BY <1>1, <1>18 DEF vars
<1> QED
  BY <1>2, <1>3, <1>4, <1>5, <1>6, <1>7, <1>8, <1>9, <1>10, <1>11, <1>13, <1>14,
     <1>15, <1>16, <1>17, <1>18 DEF Next, Resume, Subprocess, Consumer

LEMMA AloneAlways == ASSUME Serial PROVE Spec => [](IInv /\ Alone)
<1>1. Init => Alone
  BY InitAlone
<1>2. IInv /\ Alone /\ [Next]_vars => Alone'
  BY NextQuery, NextChecked, NextLoads DEF IInv, Alone
<1> QED
  BY <1>1, <1>2, Invariance, PTL DEF Spec

LEMMA SubsetOfOne ==
  ASSUME NEW S, NEW x, S \subseteq {x}
  PROVE  Cardinality(S) <= 1
<1>1. CASE S = {}
  BY <1>1, FS_EmptySet
<1>2. CASE S = {x}
  BY <1>2, FS_Singleton
<1> QED
  BY <1>1, <1>2

(* handlers.ts:312: one subprocess is reused by all turns.                 *)
THEOREM OneSubprocess == ASSUME Serial PROVE Spec => []SingleSubprocess
<1>1. IInv /\ Alone => SingleSubprocess
  <2> SUFFICES ASSUME IInv, Alone
               PROVE  Cardinality({s \in Spawns : Live(s)}) <= 1
    BY DEF SingleSubprocess
  <2>1. {s \in Spawns : Live(s)} \subseteq {query}
    BY DEF Alone, OneQuery, Live
  <2> QED
    BY <2>1, SubsetOfOne
<1> QED
  BY <1>1, AloneAlways, PTL

(* A prompt is on its way, worked on or reported before the next is sent.  *)
LEMMA OneIsHeld == ASSUME Serial PROVE Spec => []OneTurnHeld
<1>1. IInv /\ Alone => OneTurnHeld
  <2> SUFFICES ASSUME IInv, Alone
               PROVE  Cardinality(UNION {HeldBy(s) : s \in {r \in Spawns : Live(r)}}) <= 1
    BY DEF OneTurnHeld
  <2> DEFINE H == UNION {HeldBy(s) : s \in {r \in Spawns : Live(r)}}
  <2>1. ASSUME NEW s \in Spawns, Live(s)
        PROVE  \E x : HeldBy(s) \subseteq {x}
    <3>1. AtMostOne(s)
      BY <2>1 DEF Alone, Loads, Live
    <3>2. /\ DOMAIN todo[s] = 1..Len(todo[s]) /\ Len(todo[s]) \in Nat
          /\ DOMAIN out[s] = 1..Len(out[s]) /\ Len(out[s]) \in Nat
          /\ (todo[s] = <<>> => Len(todo[s]) = 0) /\ (out[s] = <<>> => Len(out[s]) = 0)
      <4> DEFINE R == [turn : 1..begun, outcome : {"finished", "error"}]
      <4>1. todo[s] \in Seq(1..begun) /\ out[s] \in Seq(R)
        BY DEF IInv, TypeOK
      <4> HIDE DEF R
      <4> QED
        BY <4>1, LenProperties, EmptySeq
    <3>3. CASE todo[s] = <<>> /\ out[s] = <<>>
      BY <3>2, <3>3 DEF HeldBy
    <3>4. CASE Len(todo[s]) <= 1 /\ doing[s] = None /\ out[s] = <<>>
      <4>1. HeldBy(s) \subseteq {todo[s][1]}
        BY <3>2, <3>4 DEF HeldBy
      <4> QED
        BY <4>1
    <3>5. CASE todo[s] = <<>> /\ doing[s] = None /\ Len(out[s]) <= 1
      <4>1. HeldBy(s) \subseteq {out[s][1].turn}
        BY <3>2, <3>5 DEF HeldBy
      <4> QED
        BY <4>1
    <3> QED
      BY <3>1, <3>3, <3>4, <3>5 DEF AtMostOne
  <2>2. \A s \in Spawns : Live(s) => s = query
    BY DEF Alone, OneQuery, Live
  <2>3. \E x : H \subseteq {x}
    <3>1. CASE \E s \in Spawns : Live(s)
      BY <2>1, <2>2, <3>1
    <3>2. CASE ~ \E s \in Spawns : Live(s)
      BY <3>2
    <3> QED
      BY <3>1, <3>2
  <2> HIDE DEF H
  <2>4. Cardinality(H) <= 1
    BY <2>3, SubsetOfOne
  <2> QED
    BY <2>4 DEF H
<1> QED
  BY <1>1, AloneAlways, PTL

(* session-manager.ts:71: turnInProgress is set as long as a subprocess    *)
(* works.                                                                  *)
LEMMA BusyIsHonest == ASSUME Serial PROVE Spec => []BusyWhileWorking
<1>1. IInv /\ Alone => BusyWhileWorking
  BY DEF IInv, Structure, WorkingHasTurn, Alone, Loads, Empty, BusyWhileWorking, Live
<1> QED
  BY <1>1, AloneAlways, PTL

(* Turns run one at a time, and turnInProgress tells when.                 *)
THEOREM OneTurn == ASSUME Serial PROVE Spec => []OneTurnAtATime
BY OneIsHeld, BusyIsHonest, PTL DEF OneTurnAtATime

-----------------------------------------------------------------------------
(* Theorem about what clients see if one request is handled at a time.     *)

(* The turn a subprocess has, waiting, in work or as a result, is the last *)
(* that began; a result keeps the turn in progress until it is told, and   *)
(* only who died by itself is dead.                                        *)
InTurn ==
  /\ \A s \in Spawns : out[s] # <<>> =>
       query = s /\ busy /\ Len(out[s]) <= 1 /\ Head(out[s]).turn = begun
  /\ \A s \in Spawns : doing[s] # None =>
       doing[s] = begun /\ sub[s] \in {"working", "asking"}
  /\ \A s \in Spawns : sub[s] = "idle" /\ todo[s] # <<>> => Head(todo[s]) = begun
  /\ \A s \in Spawns : sub[s] = "died" => deaths > 0

LEMMA InitInTurn == Init => InTurn
<1> SUFFICES ASSUME Init PROVE InTurn
  OBVIOUS
<1>1. \A s \in Spawns : /\ sub[s] = "unused" /\ todo[s] = <<>>
                        /\ doing[s] = None /\ out[s] = <<>>
  BY DEF Init
<1> QED
  BY <1>1 DEF InTurn

LEMMA FirstPutHead ==
  ASSUME NEW R, NEW x \in R
  PROVE  Append(<<>>, x) # <<>> /\ Head(Append(<<>>, x)) = x
<1>1. <<>> \in Seq(R) /\ Len(<<>>) = 0
  BY EmptySeq
<1>2. /\ Append(<<>>, x) \in Seq(R) /\ Len(Append(<<>>, x)) = 1
      /\ Append(<<>>, x)[1] = x
  BY <1>1, AppendProperties
<1> QED
  BY <1>1, <1>2

LEMMA NextInTurn ==
  ASSUME Serial, TypeOK, Structure, KeptQuery, OneQuery, Checked, Loads, InTurn,
         [Next]_vars
  PROVE  InTurn'
<1> USE Facts DEF InTurn, At, Goto, procVars, historyVars, handlerVars
<1>1. ASSUME UNCHANGED <<todo, doing, out, busy, begun, deaths, query, sub>>
      PROVE  InTurn'
  BY <1>1
<1>2. ASSUME NEW h \in Handlers, Request(h)
      PROVE  InTurn'
  BY <1>1, <1>2 DEF Request, Send, Compact, ProbeUsage, Interrupt
<1>3. ASSUME NEW h \in Handlers,
             FlagsApplied(h) \/ EnsureBound(h) \/ UsageAnswered(h)
      PROVE  InTurn'
  BY <1>1, <1>3 DEF FlagsApplied, EnsureBound, UsageAnswered
<1>4. ASSUME NEW h \in Handlers,
             ProviderAuthorized(h) \/ ProviderPersisted(h) \/ Disposed(h)
      PROVE  FALSE
  BY <1>4 DEF ProviderAuthorized, ProviderPersisted, Disposed, KeptQuery
<1>5. ASSUME NEW h \in Handlers, EnsureSpawns(h)
      PROVE  InTurn'
  BY <1>5 DEF EnsureSpawns
<1>6. ASSUME NEW h \in Handlers, Spawned(h)
      PROVE  InTurn'
  <2>1. /\ hold[h] \in Spawns /\ sub[hold[h]] = "starting" /\ query = None
        /\ query' = hold[h] /\ sub' = [sub EXCEPT ![hold[h]] = "idle"]
        /\ UNCHANGED <<todo, doing, out, busy, begun, deaths>>
    BY <1>6 DEF Spawned, Structure, SpawnsOwned, KeptQuery
  <2>2. Empty(hold[h])
    BY <2>1 DEF Loads
  <2>3. \A s \in Spawns : out[s] = <<>>
    BY <2>1
  <2> QED
    BY <2>1, <2>2, <2>3 DEF Empty
<1>7. ASSUME NEW h \in Handlers, SpawnFailed(h)
      PROVE  InTurn'
  BY <1>7 DEF SpawnFailed, Structure, SpawnsOwned
<1>8. ASSUME NEW h \in Handlers, Begin(h) \/ BeginCompact(h)
      PROVE  InTurn'
  <2>1. /\ PushTurn /\ busy' = TRUE /\ sub' = sub /\ doing' = doing /\ out' = out
        /\ query' = query /\ deaths' = deaths
        /\ step[h] = "ensured" /\ kind[h] \in {"send", "compact"}
    BY <1>8 DEF Begin, BeginCompact
  <2>2. ~busy
    BY <2>1 DEF Checked
  <2>3. /\ \A s \in Spawns : out[s] = <<>> /\ doing[s] = None
        /\ \A s \in Spawns : sub[s] = "idle" => todo[s] = <<>>
    BY <2>2 DEF Loads, Empty
  <2>4. ASSUME NEW s \in Spawns, s = bridge, sub[s] = "idle"
        PROVE  Head(todo'[s]) = begun'
    <3>1. begun + 1 \in Nat
      BY DEF TypeOK
    <3>2. todo'[s] = Append(<<>>, begun + 1) /\ begun' = begun + 1
      BY <2>1, <2>3, <2>4 DEF PushTurn
    <3> QED
      BY <3>1, <3>2, FirstPutHead
  <2>5. \A s \in Spawns : s # bridge => todo'[s] = todo[s]
    BY <2>1 DEF PushTurn
  <2> QED
    BY <2>1, <2>3, <2>4, <2>5
<1>9. ASSUME NEW h \in Handlers, Interrupted(h)
      PROVE  InTurn'
  BY <1>9 DEF Interrupted, Drain
<1>10. ASSUME NEW s \in Spawns, ReadPrompt(s)
       PROVE  InTurn'
  <2>1. /\ sub[s] = "idle" /\ todo[s] # <<>>
        /\ sub' = [sub EXCEPT ![s] = "working"]
        /\ doing' = [doing EXCEPT ![s] = Head(todo[s])]
        /\ todo' = [todo EXCEPT ![s] = Tail(@)]
        /\ UNCHANGED <<out, busy, begun, deaths, query>>
    BY <1>10 DEF ReadPrompt
  <2>2. Head(todo[s]) = begun
    BY <2>1
  <2> QED
    BY <2>1, <2>2
<1>11. ASSUME NEW s \in Spawns, Ask(s) \/ Answer(s)
       PROVE  InTurn'
  BY <1>11 DEF Ask, Answer
<1>12. ASSUME NEW s \in Spawns, NEW o \in {"finished", "error"},
              sub[s] \in {"working", "asking"}, EmitResult(s, o),
              UNCHANGED <<todo, busy, begun, deaths, query>>
       PROVE  InTurn'
  <2> DEFINE R == [turn : 1..begun, outcome : {"finished", "error"}]
             r == [turn |-> doing[s], outcome |-> o]
  <2>1. doing[s] # None /\ todo[s] = <<>> /\ out[s] = <<>> /\ busy /\ query = s
    BY <1>12 DEF Structure, WorkingHasTurn, Loads, Empty, AtMostOne, OneQuery
  <2>2. r \in R /\ r.turn = begun
    BY <2>1 DEF TypeOK
  <2>3. /\ out' = [out EXCEPT ![s] = Append(<<>>, r)]
        /\ sub' = [sub EXCEPT ![s] = "idle"] /\ doing' = [doing EXCEPT ![s] = None]
    BY <1>12, <2>1 DEF EmitResult
  <2> HIDE DEF R, r
  <2>4. Len(out'[s]) = 1 /\ Head(out'[s]) = r
    BY <2>2, <2>3, FirstPut, FirstPutHead
  <2> QED
    BY <1>12, <2>1, <2>2, <2>3, <2>4
<1>13. ASSUME NEW s \in Spawns, Finish(s) \/ ObeyInterrupt(s)
       PROVE  InTurn'
  <2>1. CASE Finish(s)
    BY <1>12, <2>1 DEF Finish
  <2>2. CASE ObeyInterrupt(s) /\ sub[s] \in {"working", "asking"}
    BY <1>12, <2>2 DEF ObeyInterrupt
  <2>3. CASE ObeyInterrupt(s) /\ sub[s] \notin {"working", "asking"}
    BY <1>1, <2>3 DEF ObeyInterrupt
  <2> QED
    BY <1>13, <2>1, <2>2, <2>3
<1>14. ASSUME NEW s \in Spawns, Die(s)
       PROVE  InTurn'
  BY <1>14 DEF Die, TypeOK
<1>15. ASSUME NEW s \in Spawns, Killed(s)
       PROVE  FALSE
  BY <1>15 DEF Killed, KeptQuery
<1>16. ASSUME NEW s \in Spawns, TakeResult(s) \/ TitleSettled(s) \/ IterationEnded(s)
       PROVE  InTurn'
  BY <1>1, <1>16 DEF TakeResult, TitleSettled, IterationEnded
<1>17. ASSUME NEW s \in Spawns, EndTurn(s)
       PROVE  InTurn'
  <2> DEFINE R == [turn : 1..begun, outcome : {"finished", "error"}]
  <2>1. /\ query = s /\ out[s] # <<>> /\ out' = [out EXCEPT ![s] = Tail(@)]
        /\ UNCHANGED <<sub, todo, doing, query, begun, deaths>>
    BY <1>17 DEF EndTurn, OneQuery, Structure, HasResult
  <2>2. out[s] \in Seq(R) /\ Len(out[s]) <= 1
    BY <2>1 DEF TypeOK
  <2> HIDE DEF R
  <2>3. Tail(out[s]) = <<>>
    BY <2>1, <2>2, LastTaken
  <2>4. \A r \in Spawns : out'[r] = <<>>
    BY <2>1, <2>3
  <2> QED
    BY <2>1, <2>4
<1>18. ASSUME NEW s \in Spawns, IterationThrew(s)
       PROVE  InTurn'
  <2>1. query = s /\ out[s] = <<>> /\ UNCHANGED <<out, todo, doing, query, begun, deaths>>
    BY <1>18 DEF IterationThrew, OneQuery
  <2>2. \A r \in Spawns : out[r] = <<>>
    BY <2>1
  <2>3. \A r \in Spawns : sub'[r] = IF r \in parked /\ sub[r] = "asking" THEN "working"
                                    ELSE sub[r]
    BY <1>18 DEF IterationThrew, Drain
  <2> QED
    BY <2>1, <2>2, <2>3
<1>19. CASE UNCHANGED vars
  BY <1>1, <1>19 DEF vars
<1> QED
  BY <1>2, <1>3, <1>4, <1>5, <1>6, <1>7, <1>8, <1>9, <1>10, <1>11, <1>13, <1>14,
     <1>15, <1>16, <1>17, <1>18, <1>19 DEF Next, Resume, Subprocess, Consumer

(* Every step of a session is one that clients are promised, or none.      *)
LEMMA StepRefines ==
  ASSUME Serial, IInv, Alone, InTurn, [Next]_vars
  PROVE  [Client!TNext]_(Client!tvars)
<1> USE DEF Client!tvars, Client!TNext
<1>1. ASSUME UNCHANGED <<begun, busy, intr, report, deaths>>
      PROVE  UNCHANGED Client!tvars
  BY <1>1
<1>2. ASSUME NEW h \in Handlers, Interrupt(h)
      PROVE  Client!Press
  BY <1>2 DEF Interrupt, Client!Press
<1>3. ASSUME NEW h \in Handlers, Begin(h) \/ BeginCompact(h)
      PROVE  Client!BeginTurn
  BY <1>3 DEF Begin, BeginCompact, PushTurn, Alone, Checked, IInv, TypeOK, At,
              Client!BeginTurn
<1>4. ASSUME NEW h \in Handlers, Send(h) \/ Compact(h) \/ ProbeUsage(h) \/ Resume(h),
             ~Begin(h), ~BeginCompact(h)
      PROVE  UNCHANGED Client!tvars
  BY <1>1, <1>4 DEF Send, Compact, ProbeUsage, Resume, FlagsApplied, ProviderAuthorized,
     ProviderPersisted, Disposed, EnsureBound, EnsureSpawns, Spawned, SpawnFailed,
     UsageAnswered, Interrupted, historyVars
<1>5. ASSUME NEW s \in Spawns, EndTurn(s)
      PROVE  Client!Tell
  <2>1. /\ out[s] # <<>> /\ busy /\ Head(out[s]).turn = begun
    BY <1>5 DEF EndTurn, IInv, Structure, HasResult, InTurn
  <2>2. Head(out[s]).outcome \in {"finished", "error"}
    <3> DEFINE R == [turn : 1..begun, outcome : {"finished", "error"}]
    <3>1. out[s] \in Seq(R)
      BY DEF IInv, TypeOK
    <3>2. \A r \in R : r.outcome \in {"finished", "error"}
      OBVIOUS
    <3> HIDE DEF R
    <3>3. Head(out[s]) \in R
      BY <2>1, <3>1, HeadTailProperties
    <3> QED
      BY <3>2, <3>3
  <2>3. /\ report' = [report EXCEPT ![begun] = IF intr THEN "cancelled"
                                                ELSE Head(out[s]).outcome]
        /\ busy' = FALSE /\ intr' = FALSE /\ UNCHANGED <<begun, deaths>>
    BY <1>5, <2>1 DEF EndTurn
  <2> QED
    BY <2>1, <2>2, <2>3 DEF Client!Tell
<1>6. ASSUME NEW s \in Spawns, IterationThrew(s)
      PROVE  Client!GiveUp
  BY <1>6 DEF IterationThrew, Drain, InTurn, historyVars, Client!GiveUp
<1>7. ASSUME NEW s \in Spawns, Die(s)
      PROVE  Client!Lose
  BY <1>7 DEF Die, IInv, TypeOK, Client!Lose
<1>8. ASSUME NEW s \in Spawns,
             \/ Subprocess(s) \/ Ask(s) \/ Answer(s)
             \/ TakeResult(s) \/ TitleSettled(s) \/ IterationEnded(s)
      PROVE  UNCHANGED Client!tvars
  BY <1>1, <1>8 DEF Subprocess, ReadPrompt, Finish, ObeyInterrupt, Killed, EmitResult,
     Ask, Answer, TakeResult, TitleSettled, IterationEnded, historyVars
<1>9. CASE UNCHANGED vars
  BY <1>1, <1>9 DEF vars, historyVars
<1> QED
  BY <1>2, <1>3, <1>4, <1>5, <1>6, <1>7, <1>8, <1>9 DEF Next, Request, Consumer

(* session-manager.ts:71, handlers.ts:341: clients that wait for each of   *)
(* their requests see turns run one by one and are told how each ended     *)
(* before the next begins, unless the subprocess died.                     *)
THEOREM TurnByTurnSeen == ASSUME Serial PROVE Spec => ImplementsTurns
<1>1. Init => Client!TInit
  BY ConstantsAssumption DEF Init, Turns, Client!TInit
<1>2. Init => InTurn
  BY InitInTurn
<1>3. IInv /\ Alone /\ InTurn /\ [Next]_vars => InTurn'
  BY NextInTurn DEF IInv, Alone
<1>4. IInv /\ Alone /\ InTurn /\ [Next]_vars => [Client!TNext]_(Client!tvars)
  BY StepRefines
<1> QED
  BY <1>1, <1>2, <1>3, <1>4, AloneAlways, PTL DEF Spec, ImplementsTurns, Client!TSpec

=============================================================================
