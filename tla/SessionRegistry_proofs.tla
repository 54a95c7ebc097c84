------------------------ MODULE SessionRegistry_proofs -----------------------
(* Theorems about SessionRegistry, for any number of concurrent requests,  *)
(* objects, subprocesses and deletes, and about ClientSocket.              *)
EXTENDS SessionRegistry, ClientSocket, TLAPS

(* The request is between tryBeginClose and unregister.                    *)
Closes(r) == step[r] \in {"interrupting", "idling"}

(* A teardown under way owns the registered object, alone.                 *)
TeardownOwns ==
  /\ \A r \in Requests : Closes(r) => /\ memory # None
                                      /\ hold[r] = memory
                                      /\ closing[memory]
  /\ \A r, q \in Requests : Closes(r) /\ Closes(q) => r = q

(* The abort is counted once, between the claim and the end of teardown.   *)
AbortShape ==
  /\ \A o \in Objects : aborts[o] = 0 \/ (aborts[o] = 1 /\ closing[o])
  /\ \A r \in Requests : step[r] = "interrupting" => aborts[hold[r]] = 0

(* Who works on something works on an object; what is registered was made. *)
HoldShape ==
  /\ \A r \in Requests : step[r] \in {"holding", "spawning"} => hold[r] \in Objects
  /\ memory # None => memory \in made

IInv == TypeOK /\ SingleIncarnation /\ TeardownOwns /\ AbortShape /\ HoldShape

LEMMA InitInv == Init => IInv
<1> SUFFICES ASSUME Init
             PROVE  IInv
  OBVIOUS
<1> USE RegistryAssumption DEF Init
<1>1. TypeOK
  <2>1. deletes \in 0..MaxDeletes
    OBVIOUS
  <2>2. /\ closing \in [Objects -> BOOLEAN]
        /\ query \in [Objects -> Procs \cup {None}]
        /\ owner \in [Procs -> Objects \cup {None}]
        /\ hold \in [Requests -> Objects \cup {None}]
        /\ knew \in [Requests -> BOOLEAN]
        /\ aborts \in [Objects -> Nat]
    OBVIOUS
  <2>3. proc \in [Procs -> {"unused", "starting", "live", "aborted"}]
    OBVIOUS
  <2>4. step \in [Requests -> {"free", "waiting", "holding", "spawning", "selected",
                            "interrupting", "idling", "purging", "dropping", "sweeping"}]
    OBVIOUS
  <2>5. row \in BOOLEAN /\ sdkId \in BOOLEAN /\ entries \in BOOLEAN
    OBVIOUS
  <2>6. /\ memory \in Objects \cup {None} /\ made \subseteq Objects
        /\ restore \in {"idle", "select", "found", "missing"}
    OBVIOUS
  <2> QED
    BY <2>1, <2>2, <2>3, <2>4, <2>5, <2>6, Zenon DEF TypeOK
<1>2. SingleIncarnation
  BY DEF SingleIncarnation
<1>3. \A r \in Requests : step[r] = "free"
  OBVIOUS
<1>4. TeardownOwns /\ AbortShape
  <2>1. \A r \in Requests : ~Closes(r) /\ step[r] # "interrupting"
    BY <1>3 DEF Closes
  <2>2. \A o \in Objects : aborts[o] = 0
    OBVIOUS
  <2>3. TeardownOwns
    BY <2>1 DEF TeardownOwns
  <2>4. AbortShape
    BY <2>1, <2>2 DEF AbortShape
  <2> QED
    BY <2>3, <2>4
<1>5. HoldShape
  <2>1. \A r \in Requests : step[r] \notin {"holding", "spawning"}
    BY <1>3
  <2>2. memory # None => memory \in made
    <3>1. CASE memory = None
      BY <3>1
    <3>2. CASE \E o \in Objects : memory = o /\ made = {o}
      BY <3>2, Zenon
    <3> QED
      BY <3>1, <3>2
  <2> QED
    BY <2>1, <2>2, Zenon DEF HoldShape
<1> QED
  BY <1>1, <1>2, <1>4, <1>5 DEF IInv

(* Every step keeps the types.                                             *)
LEMMA NextType == IInv /\ [Next]_vars => TypeOK'
<1> SUFFICES ASSUME IInv, [Next]_vars
             PROVE  TypeOK'
  OBVIOUS
<1> USE RegistryAssumption
    DEF IInv, TypeOK, Goto, Release, dbVars, objectVars, procVars, HoldShape
<1>1. ASSUME NEW r \in Requests, Lookup(r)
      PROVE  TypeOK'
  BY <1>1 DEF Lookup
<1>2. ASSUME NEW r \in Requests, SendDone(r)
      PROVE  TypeOK'
  BY <1>2 DEF SendDone
<1>3. ASSUME NEW r \in Requests, SendSpawns(r)
      PROVE  TypeOK'
  <2>1. PICK p \in Procs : /\ proc' = [proc EXCEPT ![p] = "starting"]
                           /\ owner' = [owner EXCEPT ![p] = hold[r]]
    BY <1>3 DEF SendSpawns
  <2>2. step[r] = "holding" /\ step' = [step EXCEPT ![r] = "spawning"]
    BY <1>3 DEF SendSpawns
  <2>3. UNCHANGED <<dbVars, objectVars, query, hold, knew, aborts, deletes>>
    BY <1>3 DEF SendSpawns
  <2> QED
    BY <2>1, <2>2, <2>3
<1>4. ASSUME NEW r \in Requests, Spawned(r)
      PROVE  TypeOK'
  <2>1. PICK p \in Procs : /\ proc' = [proc EXCEPT ![p] = "live"]
                           /\ query' = [query EXCEPT ![hold[r]] = p]
    BY <1>4 DEF Spawned
  <2>2. /\ step' = [step EXCEPT ![r] = "free"]
        /\ hold' = [hold EXCEPT ![r] = None]
        /\ UNCHANGED <<dbVars, objectVars, owner, knew, aborts, deletes>>
    BY <1>4 DEF Spawned
  <2> QED
    BY <2>1, <2>2
<1>5. ASSUME NEW r \in Requests, DeleteSelects(r)
      PROVE  TypeOK'
  BY <1>5 DEF DeleteSelects
<1>6. ASSUME NEW r \in Requests, DeleteClaims(r)
      PROVE  TypeOK'
  <2>1. CASE memory # None /\ ~closing[memory]
    <3>1. memory \in Objects
      BY <2>1
    <3>2. /\ closing' = [closing EXCEPT ![memory] = TRUE]
          /\ hold' = [hold EXCEPT ![r] = memory]
          /\ step' = [step EXCEPT ![r] = "interrupting"]
          /\ UNCHANGED <<dbVars, memory, restore, made, procVars, knew, aborts, deletes>>
      BY <1>6, <2>1 DEF DeleteClaims
    <3> QED
      BY <3>1, <3>2
  <2>2. CASE ~(memory # None /\ ~closing[memory])
    <3>1. /\ step' = [step EXCEPT ![r] = "purging"]
          /\ UNCHANGED <<dbVars, objectVars, procVars, hold, knew, aborts, deletes>>
      BY <1>6, <2>2 DEF DeleteClaims
    <3> QED
      BY <3>1
  <2> QED
    BY <2>1, <2>2
<1>7. ASSUME NEW r \in Requests, TeardownAborts(r)
      PROVE  TypeOK'
  <2>1. proc' = [p \in Procs |-> IF p = query[hold[r]] THEN "aborted" ELSE proc[p]]
    BY <1>7 DEF TeardownAborts
  <2>2. /\ aborts' = [aborts EXCEPT ![hold[r]] = @ + 1]
        /\ step' = [step EXCEPT ![r] = "idling"]
        /\ UNCHANGED <<dbVars, objectVars, query, owner, hold, knew, deletes>>
    BY <1>7 DEF TeardownAborts
  <2>3. proc' \in [Procs -> {"unused", "starting", "live", "aborted"}]
    BY <2>1
  <2>4. aborts' \in [Objects -> Nat]
    <3>1. hold[r] \in Objects
      BY <1>7 DEF TeardownAborts, TeardownOwns, Closes
    <3>2. aborts[hold[r]] + 1 \in Nat
      BY <3>1
    <3> QED
      BY <2>2, <3>1, <3>2
  <2> QED
    BY <2>2, <2>3, <2>4
<1>8. ASSUME NEW r \in Requests, TeardownUnregisters(r)
      PROVE  TypeOK'
  BY <1>8 DEF TeardownUnregisters
<1>9. ASSUME NEW r \in Requests, DeletePurges(r)
      PROVE  TypeOK'
  BY <1>9 DEF DeletePurges, Purge, DropRow
<1>10. ASSUME NEW r \in Requests, DeleteEnds(r)
       PROVE  TypeOK'
  BY <1>10 DEF DeleteEnds, Purge, DropRow
<1>11. CASE RowSelected
  BY <1>11 DEF RowSelected
<1>12. CASE RestoreFound
  <2>1. PICK o \in Objects \ made :
          /\ made' = made \cup {o} /\ memory' = o
          /\ hold' = [r \in Requests |-> IF r \in Waiters THEN o ELSE hold[r]]
    BY <1>12 DEF RestoreFound
  <2>2. hold' \in [Requests -> Objects \cup {None}]
    BY <2>1
  <2>3. step' \in [Requests -> {"free", "waiting", "holding", "spawning", "selected",
                            "interrupting", "idling", "purging", "dropping", "sweeping"}]
    BY <1>12 DEF RestoreFound
  <2> QED
    BY <1>12, <2>1, <2>2, <2>3 DEF RestoreFound
<1>13. CASE RestoreMissing
  <2>1. step' \in [Requests -> {"free", "waiting", "holding", "spawning", "selected",
                            "interrupting", "idling", "purging", "dropping", "sweeping"}]
    BY <1>13 DEF RestoreMissing
  <2> QED
    BY <1>13, <2>1 DEF RestoreMissing
<1>14. ASSUME NEW p \in Procs, SessionIdCaptured(p) \/ Mirrors(p)
       PROVE  TypeOK'
  BY <1>14 DEF SessionIdCaptured, Mirrors
<1>15. CASE UNCHANGED vars
  BY <1>15 DEF vars
<1> QED
  BY <1>1, <1>2, <1>3, <1>4, <1>5, <1>6, <1>7, <1>8, <1>9, <1>10, <1>11, <1>12,
     <1>13, <1>14, <1>15 DEF Next, Send, Delete

(* Every step keeps the rest.                                              *)
LEMMA NextOwns ==
  IInv /\ [Next]_vars => /\ SingleIncarnation' /\ TeardownOwns'
                         /\ AbortShape' /\ HoldShape'
<1> SUFFICES ASSUME IInv, [Next]_vars
             PROVE  /\ SingleIncarnation' /\ TeardownOwns'
                    /\ AbortShape' /\ HoldShape'
  OBVIOUS
<1> DEFINE Rest == SingleIncarnation /\ TeardownOwns /\ AbortShape /\ HoldShape
<1>0. /\ step = [r \in Requests |-> step[r]] /\ hold \in [Requests -> Objects \cup {None}]
      /\ closing = [o \in Objects |-> closing[o]] /\ aborts \in [Objects -> Nat]
      /\ made \subseteq Objects /\ memory \in Objects \cup {None}
  BY DEF IInv, TypeOK
<1>00. Rest
  BY DEF IInv
<1> USE <1>0, <1>00, RegistryAssumption
    DEF Goto, Release, dbVars, objectVars, procVars, HoldShape, SingleIncarnation,
        TeardownOwns, AbortShape, Closes
<1>1. ASSUME NEW r \in Requests, Lookup(r)
      PROVE  Rest'
  BY <1>1 DEF Lookup
<1>2. ASSUME NEW r \in Requests, SendDone(r)
      PROVE  Rest'
  BY <1>2 DEF SendDone
<1>3. ASSUME NEW r \in Requests, SendSpawns(r)
      PROVE  Rest'
  BY <1>3 DEF SendSpawns
<1>4. ASSUME NEW r \in Requests, Spawned(r)
      PROVE  Rest'
  BY <1>4 DEF Spawned
<1>5. ASSUME NEW r \in Requests, DeleteSelects(r)
      PROVE  Rest'
  BY <1>5 DEF DeleteSelects
<1>6. ASSUME NEW r \in Requests, DeleteClaims(r)
      PROVE  Rest'
  <2>1. CASE memory # None /\ ~closing[memory]
    <3>1. /\ closing' = [closing EXCEPT ![memory] = TRUE]
          /\ hold' = [hold EXCEPT ![r] = memory]
          /\ step' = [step EXCEPT ![r] = "interrupting"]
          /\ UNCHANGED <<memory, made, aborts>> /\ step[r] = "selected"
      BY <1>6, <2>1 DEF DeleteClaims
    <3>2. \A q \in Requests : ~Closes(q)
      BY <2>1
    <3>3. SingleIncarnation' /\ HoldShape'
      BY <2>1, <3>1
    <3>4. TeardownOwns'
      BY <2>1, <3>1, <3>2
    <3>5. AbortShape'
      BY <2>1, <3>1
    <3> QED
      BY <3>3, <3>4, <3>5
  <2>2. CASE ~(memory # None /\ ~closing[memory])
    <3>1. /\ step' = [step EXCEPT ![r] = "purging"] /\ step[r] = "selected"
          /\ UNCHANGED <<memory, made, aborts, closing, hold>>
      BY <1>6, <2>2 DEF DeleteClaims
    <3> QED
      BY <3>1
  <2> QED
    BY <2>1, <2>2
<1>7. ASSUME NEW r \in Requests, TeardownAborts(r)
      PROVE  Rest'
  <2>1. /\ step[r] = "interrupting" /\ step' = [step EXCEPT ![r] = "idling"]
        /\ aborts' = [aborts EXCEPT ![hold[r]] = @ + 1]
        /\ UNCHANGED <<memory, made, closing, hold>>
    BY <1>7 DEF TeardownAborts
  <2>2. hold[r] = memory /\ memory \in Objects /\ closing[memory] /\ aborts[memory] = 0
    BY <2>1
  <2>3. aborts' = [aborts EXCEPT ![memory] = 1]
    BY <2>1, <2>2
  <2>4. SingleIncarnation' /\ HoldShape' /\ TeardownOwns'
    BY <2>1
  <2>5. AbortShape'
    BY <2>1, <2>2, <2>3
  <2> QED
    BY <2>4, <2>5
<1>8. ASSUME NEW r \in Requests, TeardownUnregisters(r)
      PROVE  Rest'
  BY <1>8 DEF TeardownUnregisters
<1>9. ASSUME NEW r \in Requests, DeletePurges(r)
      PROVE  Rest'
  BY <1>9 DEF DeletePurges
<1>10. ASSUME NEW r \in Requests, DeleteEnds(r)
       PROVE  Rest'
  BY <1>10 DEF DeleteEnds
<1>11. CASE RowSelected
  BY <1>11 DEF RowSelected
<1>12. CASE RestoreFound
  <2>1. PICK o \in Objects \ made :
          /\ made' = made \cup {o} /\ memory' = o
          /\ hold' = [r \in Requests |-> IF r \in Waiters THEN o ELSE hold[r]]
    BY <1>12 DEF RestoreFound
  <2>2. /\ memory = None /\ UNCHANGED <<closing, aborts>>
        /\ step' = [r \in Requests |-> IF r \in Waiters THEN "holding" ELSE step[r]]
    BY <1>12 DEF RestoreFound
  <2>3. SingleIncarnation'
    BY <2>1, <2>2
  <2>4. \A r \in Requests : ~Closes(r) /\ ~Closes(r)'
    BY <2>2
  <2>5. TeardownOwns' /\ AbortShape'
    BY <2>2, <2>4
  <2>6. HoldShape'
    BY <2>1, <2>2 DEF Waiters
  <2> QED
    BY <2>3, <2>5, <2>6
<1>13. CASE RestoreMissing
  <2>1. /\ UNCHANGED <<memory, made, closing, hold, aborts>>
        /\ step' = [r \in Requests |-> IF r \in Waiters THEN "free" ELSE step[r]]
    BY <1>13 DEF RestoreMissing
  <2> QED
    BY <2>1
<1>14. ASSUME NEW p \in Procs, SessionIdCaptured(p) \/ Mirrors(p)
       PROVE  Rest'
  BY <1>14 DEF SessionIdCaptured, Mirrors
<1>15. CASE UNCHANGED vars
  BY <1>15 DEF vars
<1> QED
  BY <1>1, <1>2, <1>3, <1>4, <1>5, <1>6, <1>7, <1>8, <1>9, <1>10, <1>11, <1>12,
     <1>13, <1>14, <1>15 DEF Next, Send, Delete

LEMMA Invariance == Spec => []IInv
<1>1. IInv /\ [Next]_vars => IInv'
  BY NextType, NextOwns DEF IInv
<1> QED
  BY InitInv, <1>1, PTL DEF Spec

(* The registry, its requests and its rows keep their types.               *)
THEOREM TypeCorrect == Spec => []TypeOK
  BY Invariance, PTL DEF IInv

(* getOrRestore never makes a second object beside a live one.             *)
THEOREM RestoredOnce == Spec => []SingleIncarnation
  BY Invariance, PTL DEF IInv

(* tryBeginClose lets one teardown through per object.                     *)
THEOREM TornDownOnce == Spec => []AbortedOnce
<1>1. IInv => AbortedOnce
  BY DEF IInv, AbortShape, AbortedOnce
<1> QED
  BY <1>1, Invariance, PTL

(* No request is ever handed an object that is not the registered one.     *)
THEOREM RegisteredHandles == Spec => HandsOutRegistered
<1>1. ASSUME IInv, Next, NEW r \in Requests, hold'[r] \notin {None, hold[r]}
      PROVE  hold'[r] = memory'
  <2> USE <1>1 DEF Goto, Release, dbVars, objectVars, procVars
  <2>0. hold \in [Requests -> Objects \cup {None}]
    BY DEF IInv, TypeOK
  <2>1. ASSUME NEW q \in Requests, Send(q)
        PROVE  hold'[r] = memory'
    BY <2>0, <2>1 DEF Send, Lookup, SendDone, SendSpawns, Spawned
  <2>2. ASSUME NEW q \in Requests, Delete(q)
        PROVE  hold'[r] = memory'
    BY <2>0, <2>2 DEF Delete, DeleteSelects, DeleteClaims, TeardownAborts,
       TeardownUnregisters, DeletePurges, DeleteEnds
  <2>3. CASE RestoreFound
    BY <2>0, <2>3 DEF RestoreFound
  <2>4. CASE RowSelected \/ RestoreMissing
    BY <2>4 DEF RowSelected, RestoreMissing
  <2>5. ASSUME NEW p \in Procs, SessionIdCaptured(p) \/ Mirrors(p)
        PROVE  hold'[r] = memory'
    BY <2>5 DEF SessionIdCaptured, Mirrors
  <2> QED
    BY <2>1, <2>2, <2>3, <2>4, <2>5 DEF Next
<1>2. IInv /\ [Next]_vars
        => [\A r \in Requests : hold'[r] \notin {None, hold[r]} => hold'[r] = memory']_vars
  BY <1>1
<1> QED
  BY <1>2, Invariance, PTL DEF Spec, HandsOutRegistered

-----------------------------------------------------------------------------
(* Requests that do not overlap.                                           *)

(* A live subprocess is the query of the registered object.                *)
LiveIsQuery ==
  \A p \in Procs : proc[p] = "live" => /\ memory # None
                                       /\ owner[p] = memory
                                       /\ query[memory] = p

(* A send works on the registered object, and spawns for one without query.*)
SendIsCurrent ==
  \A r \in Requests :
    /\ step[r] \in {"holding", "spawning"} => memory # None /\ hold[r] = memory
    /\ step[r] = "spawning" => query[memory] = None

(* A teardown that aborted left nothing alive.                             *)
AbortedIsDead == \A r \in Requests, p \in Procs : step[r] = "idling" => proc[p] # "live"

(* What is closing is being torn down, and a fresh object is not closing.  *)
ClosingIsTeardown ==
  /\ memory # None /\ closing[memory] => \E r \in Requests : Closes(r)
  /\ \A o \in Objects : closing[o] => o \in made

(* A restore is under way for somebody, and found a row that is there.     *)
RestoreIsAwaited ==
  /\ restore # "idle" => \E r \in Requests : step[r] = "waiting"
  /\ restore = "found" => row

(* A delete past its teardown has no session in memory.                    *)
PurgedIsGone ==
  \A r \in Requests : step[r] \in {"purging", "dropping", "sweeping"} => memory = None

Orderly == /\ LiveIsQuery /\ SendIsCurrent /\ AbortedIsDead /\ ClosingIsTeardown
           /\ RestoreIsAwaited /\ PurgedIsGone /\ RowOutlivesMemory

LEMMA InitOrderly == Init => Orderly
  BY DEF Init, Orderly, LiveIsQuery, SendIsCurrent, AbortedIsDead, ClosingIsTeardown,
         RestoreIsAwaited, PurgedIsGone, RowOutlivesMemory, Closes

LEMMA NextOrderly ==
  ASSUME IInv, Orderly, Alone, Alone', [Next]_vars
  PROVE  Orderly'
<1>0. /\ step = [r \in Requests |-> step[r]] /\ hold \in [Requests -> Objects \cup {None}]
      /\ closing = [o \in Objects |-> closing[o]]
      /\ query \in [Objects -> Procs \cup {None}]
      /\ proc = [p \in Procs |-> proc[p]] /\ owner = [p \in Procs |-> owner[p]]
      /\ made \subseteq Objects /\ memory \in Objects \cup {None}
      /\ None \notin Objects /\ None \notin Procs
  BY RegistryAssumption DEF IInv, TypeOK
<1>00. Orderly /\ TeardownOwns
  BY DEF IInv
<1> USE <1>0, <1>00 DEF Goto, Release, dbVars, objectVars, procVars, Alone, Orderly,
        LiveIsQuery, SendIsCurrent, AbortedIsDead, ClosingIsTeardown, RestoreIsAwaited,
        PurgedIsGone, RowOutlivesMemory, TeardownOwns, Closes
<1>1. ASSUME NEW r \in Requests, Lookup(r)
      PROVE  Orderly'
  BY <1>1 DEF Lookup
<1>2. ASSUME NEW r \in Requests, SendDone(r)
      PROVE  Orderly'
  BY <1>2 DEF SendDone
<1>3. ASSUME NEW r \in Requests, SendSpawns(r)
      PROVE  Orderly'
  BY <1>3 DEF SendSpawns
<1>4. ASSUME NEW r \in Requests, Spawned(r)
      PROVE  Orderly'
  BY <1>4 DEF Spawned
<1>5. ASSUME NEW r \in Requests, DeleteSelects(r)
      PROVE  Orderly'
  BY <1>5 DEF DeleteSelects
<1>6. ASSUME NEW r \in Requests, DeleteClaims(r)
      PROVE  Orderly'
  <2>1. step[r] = "selected" /\ UNCHANGED <<dbVars, memory, restore, made, procVars>>
    BY <1>6 DEF DeleteClaims
  <2>2. \A q \in Requests : step[q] # "free" => q = r
    BY <2>1
  <2>3. restore = "idle" /\ (memory # None => ~closing[memory])
    BY <2>1, <2>2
  <2>4. CASE memory # None
    <3>1. /\ closing' = [closing EXCEPT ![memory] = TRUE]
          /\ step' = [step EXCEPT ![r] = "interrupting"]
      BY <1>6, <2>3, <2>4 DEF DeleteClaims
    <3>2. memory \in made
      BY <2>4 DEF IInv, HoldShape
    <3>3. ClosingIsTeardown'
      BY <2>1, <3>1, <3>2
    <3>4. SendIsCurrent' /\ AbortedIsDead' /\ PurgedIsGone'
      BY <2>1, <2>2, <3>1
    <3>5. LiveIsQuery' /\ RestoreIsAwaited' /\ RowOutlivesMemory'
      BY <2>1, <2>3
    <3> QED
      BY <3>3, <3>4, <3>5
  <2>5. CASE memory = None
    BY <1>6, <2>1, <2>2, <2>3, <2>5 DEF DeleteClaims
  <2> QED
    BY <2>4, <2>5
<1>7. ASSUME NEW r \in Requests, TeardownAborts(r)
      PROVE  Orderly'
  BY <1>7 DEF TeardownAborts
<1>8. ASSUME NEW r \in Requests, TeardownUnregisters(r)
      PROVE  Orderly'
  BY <1>8 DEF TeardownUnregisters
<1>9. ASSUME NEW r \in Requests, DeletePurges(r)
      PROVE  Orderly'
  BY <1>9 DEF DeletePurges, DropRow, Purge
<1>10. ASSUME NEW r \in Requests, DeleteEnds(r)
       PROVE  Orderly'
  BY <1>10 DEF DeleteEnds, DropRow, Purge
<1>11. CASE RowSelected
  BY <1>11 DEF RowSelected
<1>12. CASE RestoreFound
  BY <1>12 DEF RestoreFound, Waiters
<1>13. CASE RestoreMissing
  BY <1>13 DEF RestoreMissing, Waiters
<1>14. ASSUME NEW p \in Procs, SessionIdCaptured(p) \/ Mirrors(p)
       PROVE  Orderly'
  BY <1>14 DEF SessionIdCaptured, Mirrors
<1>15. CASE UNCHANGED vars
  BY <1>15 DEF vars
<1> QED
  BY <1>1, <1>2, <1>3, <1>4, <1>5, <1>6, <1>7, <1>8, <1>9, <1>10, <1>11, <1>12,
     <1>13, <1>14, <1>15 DEF Next, Send, Delete

(* A client that waits for each answer: a delete or a restore leaves no    *)
(* live subprocess behind, and no session in memory without its row.       *)
THEOREM AloneLeavesNothing == Spec => AloneIsClean
<1>1. IInv /\ Orderly /\ Alone /\ Alone' /\ [Next]_vars => Orderly'
  BY NextOrderly
<1>2. Orderly => NoOrphan /\ RowOutlivesMemory
  BY DEF Orderly, LiveIsQuery, NoOrphan
<1> QED
  BY <1>1, <1>2, InitOrderly, Invariance, PTL DEF Spec, AloneIsClean

-----------------------------------------------------------------------------
(* Theorems about ClientSocket: one tab, its bootstraps and its sockets.   *)

(* The bootstraps of a page load are two at most: App.tsx runs one in the  *)
(* effect of its mount, which StrictMode (main.tsx) runs twice.            *)
TwoBoots == \E a, b : Boots \subseteq {a, b}

LEMMA SocketStarts == ASSUME SocketInit PROVE InductiveInv
<1>1. Shapes
  BY DEF SocketInit, Shapes, CanConnect
<1>2. OneSocket /\ DialsOnce
  BY DEF SocketInit, OneSocket, DialsOnce, Ready
<1>3. ConnectsAllowed /\ LeavesForGood
  BY DEF SocketInit, ConnectsAllowed, Resting, LeavesForGood, Ready
<1> QED
  BY <1>1, <1>2, <1>3 DEF InductiveInv

LEMMA Canceled ==
  ASSUME InductiveInv, CancelReconnect
  PROVE  timers' = 0 /\ ~tracked'
  BY DEF CancelReconnect, InductiveInv, OneSocket, DialsOnce, Shapes

(* What the invariant asks of the store's step, but for the socket.        *)
LEMMA Rested ==
  ASSUME InductiveInv, Resting', ~tracked', prev' = FALSE, prev' = CanConnect(status', allowed'),
         sock' \in [Sockets -> {"free", "connecting", "open", "closing", "closed"}],
         \A s \in Sockets : sock'[s] \notin Ready,
         boot' \in [Boots -> {"getSession", "user", "nobody", "getMe", "401", "yes", "no", "done"}],
         (\E s \in Sockets : sock'[s] # "free") => Retired' /\ intentional'
  PROVE  InductiveInv'
<1>1. Shapes'
  BY DEF Shapes, Resting, CanConnect
<1>2. OneSocket' /\ DialsOnce'
  BY DEF OneSocket, DialsOnce, Resting, Ready
<1>3. ConnectsAllowed' /\ LeavesForGood'
  BY DEF ConnectsAllowed, LeavesForGood
<1> QED
  BY <1>1, <1>2, <1>3 DEF InductiveInv

(* A close that is asked for leaves the tab without socket and timer.      *)
LEMMA CloseRests ==
  ASSUME InductiveInv, Close
  PROVE  /\ Resting' /\ intentional' /\ ~tracked'
         /\ sock' \in [Sockets -> {"free", "connecting", "open", "closing", "closed"}]
         /\ \A s \in Sockets : sock'[s] \notin Ready
<1>2. timers' = 0 /\ ~tracked'
  BY Canceled DEF Close, CloseOf
<1>3. \A s \in Sockets : sock'[s] = IF s = cur /\ sock[s] \in Ready THEN "closing" ELSE sock[s]
  BY DEF Close, CloseOf
<1>4. sock' \in [Sockets -> {"free", "connecting", "open", "closing", "closed"}]
  BY DEF Close, CloseOf, InductiveInv, Shapes
<1>5. \A s \in Sockets : sock'[s] \notin Ready
  BY <1>3 DEF InductiveInv, OneSocket, Ready
<1> QED
  BY <1>2, <1>4, <1>5 DEF Close, CloseOf, Resting, Ready

LEMMA ClearKeeps ==
  ASSUME InductiveInv, ClearSession,
         boot' \in [Boots -> {"getSession", "user", "nobody", "getMe", "401", "yes", "no", "done"}]
  PROVE  InductiveInv'
<1>1. /\ Resting' /\ intentional' /\ ~tracked'
      /\ sock' \in [Sockets -> {"free", "connecting", "open", "closing", "closed"}]
      /\ \A s \in Sockets : sock'[s] \notin Ready
  BY CloseRests DEF ClearSession
<1>2. prev' = FALSE /\ prev' = CanConnect(status', allowed') /\ Retired'
  BY DEF ClearSession, CanConnect, Retired
<1> QED
  BY <1>1, <1>2, Rested

(* A tab that is allowed now dials, or has dialled already.                *)
LEMMA AllowedKeeps ==
  ASSUME InductiveInv, NEW b \in Boots, boot[b] # "done", boot' = [boot EXCEPT ![b] = "done"],
         status # "unauthenticated", SetAuth("authenticated", "yes")
  PROVE  InductiveInv'
<1>1. prev' /\ status' = "authenticated" /\ allowed' = "yes" /\ prev' = CanConnect(status', allowed')
  BY DEF SetAuth, CanConnect
<1>2. \E d \in Boots : boot'[d] = "done"
  BY DEF InductiveInv, Shapes
<1>3. ~Retired
  BY DEF Retired
<1>4. \A s \in Sockets \ {cur} : sock[s] = "free"
  BY <1>3 DEF InductiveInv, LeavesForGood
<1>5. CASE prev
  <2>0. prev = TRUE /\ CanConnect("authenticated", "yes") = TRUE
    BY <1>5 DEF InductiveInv, Shapes, CanConnect
  <2>1. UNCHANGED wsVars
    BY <2>0 DEF SetAuth
  <2> QED
    BY <1>1, <1>2, <1>4, <2>1 DEF wsVars, InductiveInv, Shapes, OneSocket, DialsOnce, ConnectsAllowed, LeavesForGood
<1>6. CASE ~prev
  <2>1. Resting /\ Connect
    BY <1>1, <1>6 DEF InductiveInv, ConnectsAllowed, SetAuth, CanConnect
  <2>2. CancelReconnect /\ OpenSocket
    BY <2>1 DEF Connect, Resting
  <2>3. timers' = 0 /\ ~tracked'
    BY <2>2, Canceled
  <2>4. PICK c \in Sockets : /\ sock[c] = "free" /\ cur' = c /\ state' = "connecting"
                             /\ sock' = [sock EXCEPT ![c] = "connecting"]
    BY <2>2 DEF OpenSocket
  <2>5. \A s \in Sockets : sock[s] = "free"
    BY <1>4, <2>1, SocketAssumption DEF Resting
  <2>6. Shapes'
    BY <1>1, <2>3, <2>4 DEF InductiveInv, Shapes
  <2>7. OneSocket' /\ DialsOnce'
    BY <2>3, <2>4, <2>5, SocketAssumption DEF InductiveInv, Shapes, OneSocket, DialsOnce, Ready
  <2>8. ConnectsAllowed' /\ LeavesForGood'
    BY <1>1, <1>2, <2>4, <2>5 DEF InductiveInv, Shapes, ConnectsAllowed, LeavesForGood
  <2> QED
    BY <2>6, <2>7, <2>8 DEF InductiveInv
<1> QED
  BY <1>5, <1>6

(* A tab that may not connect closes what it has.  It had nothing, or one  *)
(* bootstrap was done before this one: none is left.                       *)
LEMMA DeniedKeeps ==
  ASSUME TwoBoots, InductiveInv, NEW b \in Boots, boot[b] # "done",
         boot' = [boot EXCEPT ![b] = "done"],
         NEW st, NEW al, SetAuth(st, al), ~CanConnect(st, al),
         status = "unauthenticated" => st = "unauthenticated"
  PROVE  InductiveInv'
<1>1. /\ prev' = FALSE /\ status' = st /\ allowed' = al /\ prev' = CanConnect(status', allowed')
      /\ boot' \in [Boots -> {"getSession", "user", "nobody", "getMe", "401", "yes", "no", "done"}]
  BY DEF SetAuth, CanConnect, InductiveInv, Shapes
<1>2. CASE prev
  <2>1. /\ Resting' /\ intentional' /\ ~tracked'
        /\ sock' \in [Sockets -> {"free", "connecting", "open", "closing", "closed"}]
        /\ \A s \in Sockets : sock'[s] \notin Ready
    BY <1>2, CloseRests DEF SetAuth
  <2>2. PICK d \in Boots : boot[d] = "done"
    BY <1>2 DEF InductiveInv, ConnectsAllowed
  <2>3. \A e \in Boots : boot'[e] = "done"
    BY <2>2 DEF TwoBoots, InductiveInv, Shapes
  <2> QED
    BY <1>1, <2>1, <2>3, Rested DEF Retired
<1>3. CASE ~prev
  <2>1. UNCHANGED wsVars /\ Resting
    BY <1>1, <1>3 DEF SetAuth, InductiveInv, ConnectsAllowed
  <2>2. (\E s \in Sockets : sock[s] # "free") => Retired /\ intentional
    BY <2>1, SocketAssumption DEF InductiveInv, LeavesForGood, Resting
  <2>3. Retired => Retired'
    BY <1>1 DEF Retired, InductiveInv, Shapes
  <2>4. \A s \in Sockets : sock[s] \notin Ready
    BY <2>1, SocketAssumption DEF InductiveInv, OneSocket, Resting
  <2>5. ~tracked
    BY <2>1 DEF InductiveInv, DialsOnce, Resting
  <2> QED
    BY <1>1, <2>1, <2>2, <2>3, <2>4, <2>5, Rested DEF wsVars, Resting, InductiveInv, Shapes
<1> QED
  BY <1>2, <1>3

(* A bootstrap gets an answer, and the tab does not change.                *)
LEMMA AnswerKeeps ==
  ASSUME InductiveInv, NEW b \in Boots, boot[b] # "done", UNCHANGED <<authVars, wsVars>>,
         NEW v \in {"getSession", "user", "nobody", "getMe", "401", "yes", "no", "done"},
         boot' = [boot EXCEPT ![b] = v]
  PROVE  InductiveInv'
<1>0. UNCHANGED <<status, allowed, prev>> /\ UNCHANGED <<state, cur, intentional, timers, tracked, sock>>
  BY DEF authVars, wsVars
<1>1. Shapes' /\ OneSocket' /\ DialsOnce'
  BY <1>0 DEF InductiveInv, Shapes, OneSocket, DialsOnce
<1>2. ConnectsAllowed'
  BY <1>0 DEF InductiveInv, Shapes, ConnectsAllowed, Resting
<1>3. LeavesForGood'
  BY <1>0 DEF InductiveInv, LeavesForGood, Retired
<1> QED
  BY <1>1, <1>2, <1>3 DEF InductiveInv

LEMMA QuietKeeps ==
  ASSUME InductiveInv, UNCHANGED <<authVars, wsVars, boot>>
  PROVE  InductiveInv'
<1>0. UNCHANGED <<status, allowed, prev>> /\ UNCHANGED <<state, cur, intentional, timers, tracked, sock>> /\ UNCHANGED boot
  BY DEF authVars, wsVars
<1>1. Shapes' /\ OneSocket' /\ DialsOnce'
  BY <1>0 DEF InductiveInv, Shapes, OneSocket, DialsOnce
<1>2. ConnectsAllowed' /\ LeavesForGood'
  BY <1>0 DEF InductiveInv, ConnectsAllowed, Resting, LeavesForGood, Retired
<1> QED
  BY <1>1, <1>2 DEF InductiveInv

LEMMA BootKeeps ==
  ASSUME TwoBoots, InductiveInv, NEW b \in Boots, BootStep(b)
  PROVE  InductiveInv'
<1>1. CASE AnswerSession(b) \/ BootstrapUser(b) \/ AnswerMe(b)
  <2>1. UNCHANGED <<authVars, wsVars>> /\ boot[b] # "done"
    BY <1>1 DEF AnswerSession, BootstrapUser, AnswerMe
  <2>2. \E v \in {"getSession", "user", "nobody", "getMe", "401", "yes", "no", "done"} :
          boot' = [boot EXCEPT ![b] = v]
    BY <1>1 DEF AnswerSession, BootstrapUser, AnswerMe
  <2> QED
    BY <2>1, <2>2, AnswerKeeps
<1>2. CASE BootstrapNoUser(b)
  BY <1>2, DeniedKeeps DEF BootstrapNoUser, CanConnect
<1>3. CASE BootstrapMe(b)
  <2>1. boot[b] # "done" /\ boot' = [boot EXCEPT ![b] = "done"]
    BY <1>3 DEF BootstrapMe
  <2>2. CASE boot[b] = "401"
    BY <1>3, <2>1, <2>2, ClearKeeps DEF BootstrapMe, InductiveInv, Shapes
  <2>3. CASE boot[b] # "401" /\ status = "unauthenticated"
    <3>1. UNCHANGED <<authVars, wsVars>>
      BY <1>3, <2>3 DEF BootstrapMe
    <3> QED
      BY <2>1, <3>1, AnswerKeeps
  <2>4. CASE boot[b] = "yes" /\ status # "unauthenticated"
    BY <1>3, <2>1, <2>4, AllowedKeeps DEF BootstrapMe
  <2>5. CASE boot[b] = "no" /\ status # "unauthenticated"
    <3>1. SetAuth("authenticated", "no")
      BY <1>3, <2>5 DEF BootstrapMe
    <3> QED
      BY <2>1, <2>5, <3>1, DeniedKeeps DEF CanConnect
  <2> QED
    BY <1>3, <2>2, <2>3, <2>4, <2>5 DEF BootstrapMe
<1> QED
  BY <1>1, <1>2, <1>3 DEF BootStep

(* A socket that ends, at either end, is the client's, or one it had left. *)
LEMMA EndKeeps ==
  ASSUME InductiveInv, UNCHANGED <<authVars, boot, state, cur, intentional, timers, tracked>>,
         sock' \in [Sockets -> {"free", "connecting", "open", "closing", "closed"}],
         \A s \in Sockets : \/ sock'[s] = sock[s]
                            \/ sock[s] # "free" /\ sock'[s] = "closed"
  PROVE  InductiveInv'
<1>0. UNCHANGED <<status, allowed, prev>>
  BY DEF authVars
<1>1. Shapes'
  BY <1>0 DEF InductiveInv, Shapes
<1>2. OneSocket' /\ DialsOnce'
  BY DEF InductiveInv, OneSocket, DialsOnce, Ready
<1>3. ConnectsAllowed'
  BY <1>0 DEF InductiveInv, ConnectsAllowed, Resting
<1>4. LeavesForGood'
  BY <1>0 DEF InductiveInv, LeavesForGood, Retired
<1> QED
  BY <1>1, <1>2, <1>3, <1>4 DEF InductiveInv

LEMMA EndedByKeeps ==
  ASSUME InductiveInv, UNCHANGED <<authVars, boot, state, cur, intentional, timers, tracked>>,
         NEW S, NEW c, EndedBy(S, c)
  PROVE  InductiveInv'
<1>1. \A s \in Sockets : \/ sock'[s] = sock[s]
                         \/ sock[s] # "free" /\ sock'[s] = "closed"
  BY DEF EndedBy, Ready
<1>2. sock' \in [Sockets -> {"free", "connecting", "open", "closing", "closed"}]
  BY DEF EndedBy, InductiveInv, Shapes
<1> QED
  BY <1>1, <1>2, EndKeeps

LEMMA UpgradeKeeps ==
  ASSUME InductiveInv, NEW s \in Sockets, Upgrade(s)
  PROVE  InductiveInv'
<1>1. sock' \in [Sockets -> {"free", "connecting", "open", "closing", "closed"}]
  BY DEF Upgrade, InductiveInv, Shapes
<1>2. \A t \in Sockets : sock'[t] = sock[t] \/ (sock[t] # "free" /\ sock'[t] = "closed")
  <2>1. sock[s] = "connecting" /\ (sock' = sock \/ sock' = [sock EXCEPT ![s] = "closed"])
    BY DEF Upgrade
  <2>2. sock \in [Sockets -> {"free", "connecting", "open", "closing", "closed"}]
    BY DEF InductiveInv, Shapes
  <2> QED
    BY <2>1, <2>2
<1> QED
  BY <1>1, <1>2, EndKeeps DEF Upgrade

LEMMA OpenKeeps ==
  ASSUME InductiveInv, NEW s \in Sockets, OpenEvent(s)
  PROVE  InductiveInv'
<1>1. s = cur /\ cur # NoSocket
  BY SocketAssumption DEF OpenEvent, InductiveInv, OneSocket, Ready
<1>2. UNCHANGED <<status, allowed, prev>> /\ UNCHANGED <<boot, cur, intentional, timers, tracked>>
      /\ sock' = [sock EXCEPT ![s] = "open"] /\ state' = "open"
  BY DEF OpenEvent, authVars
<1>3. timers = 0
  BY <1>1 DEF InductiveInv, Shapes, OneSocket, DialsOnce
<1>4. Shapes'
  BY <1>2 DEF InductiveInv, Shapes
<1>5. OneSocket' /\ DialsOnce'
  BY <1>1, <1>2, <1>3 DEF InductiveInv, Shapes, OneSocket, DialsOnce, Ready
<1>6. ConnectsAllowed'
  BY <1>1, <1>2 DEF InductiveInv, ConnectsAllowed, Resting
<1>7. LeavesForGood'
  BY <1>1, <1>2 DEF InductiveInv, Shapes, LeavesForGood, Retired
<1> QED
  BY <1>4, <1>5, <1>6, <1>7 DEF InductiveInv

LEMMA CloseCompletesKeeps ==
  ASSUME InductiveInv, NEW s \in Sockets, CloseCompletes(s)
  PROVE  InductiveInv'
<1>1. sock' \in [Sockets -> {"free", "connecting", "open", "closing", "closed"}]
  BY DEF CloseCompletes, InductiveInv, Shapes
<1>2. \A t \in Sockets : sock'[t] = sock[t] \/ (sock[t] # "free" /\ sock'[t] = "closed")
  <2>1. sock[s] = "closing" /\ sock' = [sock EXCEPT ![s] = "closed"]
    BY DEF CloseCompletes
  <2>2. sock \in [Sockets -> {"free", "connecting", "open", "closing", "closed"}]
    BY DEF InductiveInv, Shapes
  <2> QED
    BY <2>1, <2>2
<1> QED
  BY <1>1, <1>2, EndKeeps DEF CloseCompletes

(* A close event of a socket the client had left finds the tab at rest for *)
(* good; one of the client's socket leaves none.                           *)
LEMMA CloseEventKeeps ==
  ASSUME InductiveInv, NEW s \in Sockets, CloseEvent(s)
  PROVE  InductiveInv'
<1>1. /\ sock[s] = "closed" /\ sock' = [sock EXCEPT ![s] = "free"]
      /\ HandleClose(code[s]) /\ UNCHANGED boot /\ cur' = NoSocket
  BY DEF CloseEvent, HandleClose
<1>2. sock' \in [Sockets -> {"free", "connecting", "open", "closing", "closed"}]
  BY <1>1 DEF InductiveInv, Shapes
<1>3. s # cur => Retired /\ intentional
  BY <1>1 DEF InductiveInv, LeavesForGood
<1>4. s # cur => Resting
  BY <1>3 DEF Retired, InductiveInv, Shapes, CanConnect, ConnectsAllowed
<1>5. timers = 0 /\ ~tracked
  BY <1>4, SocketAssumption DEF InductiveInv, Shapes, OneSocket, DialsOnce, Resting
<1>6. \A t \in Sockets : sock'[t] \notin Ready
  BY <1>1, <1>4, SocketAssumption DEF InductiveInv, Shapes, OneSocket, Resting, Ready
<1>7. \A t \in Sockets : sock'[t] # "free" => t # cur /\ sock[t] # "free"
  BY <1>1, <1>4, SocketAssumption DEF InductiveInv, Shapes, Resting
<1>8. (\E t \in Sockets : sock'[t] # "free") => Retired /\ intentional
  BY <1>7 DEF InductiveInv, LeavesForGood
<1>9. CASE code[s] = 4401
  <2>1. /\ intentional' /\ timers' = 0 /\ ~tracked' /\ state' = "closed"
        /\ status' = "unauthenticated" /\ prev' = FALSE
    BY <1>1, <1>9, Canceled DEF HandleClose
  <2>2. Resting' /\ Retired' /\ prev' = CanConnect(status', allowed')
    BY <1>1, <2>1 DEF Resting, Ready, Retired, CanConnect
  <2> QED
    BY <1>1, <1>2, <1>6, <2>1, <2>2, Rested DEF InductiveInv, Shapes
<1>10. CASE code[s] # 4401 /\ (intentional \/ code[s] = 1000)
  <2>1. /\ UNCHANGED <<status, allowed, prev>> /\ UNCHANGED <<intentional, timers, tracked>>
        /\ state' = "closed"
    BY <1>1, <1>10 DEF HandleClose, authVars
  <2>2. Resting'
    BY <1>1, <1>5, <2>1 DEF Resting, Ready
  <2>3. Shapes'
    BY <1>1, <1>2, <2>1 DEF InductiveInv, Shapes
  <2>4. OneSocket' /\ DialsOnce'
    BY <1>1, <1>5, <1>6, <2>1 DEF OneSocket, DialsOnce, Ready
  <2>5. ConnectsAllowed' /\ LeavesForGood'
    BY <1>1, <1>8, <2>1, <2>2 DEF InductiveInv, ConnectsAllowed, LeavesForGood, Retired
  <2> QED
    BY <2>3, <2>4, <2>5 DEF InductiveInv
<1>11. CASE code[s] # 4401 /\ ~(intentional \/ code[s] = 1000)
  <2>1. /\ UNCHANGED <<status, allowed, prev>> /\ UNCHANGED intentional
        /\ state' = "reconnecting" /\ timers' = 1 /\ tracked' = TRUE
    BY <1>1, <1>5, <1>11 DEF HandleClose, authVars, ScheduleReconnect
  <2>2. s = cur /\ cur # NoSocket
    BY <1>3, <1>11, SocketAssumption
  <2>3. Shapes'
    BY <1>1, <1>2, <2>1 DEF InductiveInv, Shapes
  <2>4. OneSocket' /\ DialsOnce'
    BY <1>1, <1>6, <2>1 DEF OneSocket, DialsOnce, Ready
  <2>5. ConnectsAllowed'
    BY <1>1, <2>1, <2>2 DEF InductiveInv, ConnectsAllowed, Resting
  <2>6. LeavesForGood'
    BY <1>1, <1>8, <1>11, <2>1 DEF LeavesForGood, Retired
  <2> QED
    BY <2>3, <2>4, <2>5, <2>6 DEF InductiveInv
<1> QED
  BY <1>9, <1>10, <1>11

LEMMA RedialKeeps ==
  ASSUME InductiveInv, Redial
  PROVE  InductiveInv'
<1>1. timers = 1 /\ cur = NoSocket /\ state = "reconnecting" /\ prev
  BY DEF Redial, InductiveInv, Shapes, OneSocket, DialsOnce, ConnectsAllowed, Resting
<1>2. /\ UNCHANGED <<status, allowed, prev>> /\ UNCHANGED <<boot, intentional>>
      /\ timers' = 0 /\ tracked' = FALSE
  BY <1>1 DEF Redial, authVars
<1>3. CASE UNCHANGED <<state, cur, sock>>
  <2>0. Shapes'
    BY <1>2, <1>3 DEF InductiveInv, Shapes
  <2>1. Shapes' /\ OneSocket' /\ DialsOnce'
    BY <1>1, <1>2, <1>3, <2>0 DEF InductiveInv, OneSocket, DialsOnce, Ready
  <2>2. ConnectsAllowed' /\ LeavesForGood'
    BY <1>1, <1>2, <1>3 DEF InductiveInv, ConnectsAllowed, LeavesForGood, Retired
  <2> QED
    BY <2>1, <2>2 DEF InductiveInv
<1>4. CASE ~intentional /\ OpenSocket
  <2>1. PICK c \in Sockets : /\ sock[c] = "free" /\ cur' = c /\ state' = "connecting"
                             /\ sock' = [sock EXCEPT ![c] = "connecting"]
    BY <1>4 DEF OpenSocket
  <2>2. \A t \in Sockets : sock[t] = "free"
    BY <1>1, <1>4, SocketAssumption DEF InductiveInv, LeavesForGood
  <2>3. Shapes'
    BY <1>2, <2>1 DEF InductiveInv, Shapes
  <2>4. OneSocket' /\ DialsOnce'
    BY <1>2, <2>1, <2>2, SocketAssumption DEF InductiveInv, Shapes, OneSocket, DialsOnce, Ready
  <2>5. ConnectsAllowed' /\ LeavesForGood'
    BY <1>1, <1>2, <2>1, <2>2 DEF InductiveInv, Shapes, ConnectsAllowed, LeavesForGood
  <2> QED
    BY <2>3, <2>4, <2>5 DEF InductiveInv
<1> QED
  BY <1>3, <1>4 DEF Redial

LEMMA SocketNextKeeps ==
  ASSUME TwoBoots, InductiveInv, [SocketNext]_socketVars
  PROVE  InductiveInv'
<1>1. CASE \E b \in Boots : BootStep(b)
  BY <1>1, BootKeeps
<1>2. CASE \E s \in Sockets : Upgrade(s) \/ OpenEvent(s) \/ CloseCompletes(s) \/ CloseEvent(s)
  BY <1>2, UpgradeKeeps, OpenKeeps, CloseCompletesKeeps, CloseEventKeeps
<1>3. CASE \E s \in Sockets : ResumeRefused(s) \/ Drop(s)
  BY <1>3, EndedByKeeps DEF ResumeRefused, Drop
<1>4. CASE \E s \in Sockets : Register(s) \/ Resume(s) \/ SnapshotArrives(s)
  BY <1>4, QuietKeeps DEF Register, Resume, SnapshotArrives
<1>5. CASE SignOut \/ Unauthorized
  BY <1>5, ClearKeeps DEF SignOut, Unauthorized, InductiveInv, Shapes
<1>6. CASE Mount \/ StartSession \/ GuardExpires \/ BeatStart \/ Revoke \/ Delist
  BY <1>6, QuietKeeps DEF Mount, StartSession, GuardExpires, BeatStart, Revoke, Delist
<1>7. CASE Redial
  BY <1>7, RedialKeeps
<1>8. CASE BeatEnd
  <2>1. UNCHANGED <<authVars, boot, state, cur, intentional, timers, tracked>>
    BY <1>8 DEF BeatEnd
  <2>2. CASE EndedBy(beat.snap \cap Up, 4401)
    BY <2>1, <2>2, EndedByKeeps
  <2>3. CASE UNCHANGED sock
    BY <2>1, <2>3, QuietKeeps DEF wsVars
  <2> QED
    BY <1>8, <2>2, <2>3 DEF BeatEnd
<1>9. CASE UNCHANGED socketVars
  BY <1>9, QuietKeeps DEF socketVars
<1> QED
  BY <1>1, <1>2, <1>3, <1>4, <1>5, <1>6, <1>7, <1>8, <1>9 DEF SocketNext, SocketStep

(* A tab never has a socket it does not know, nor two redials to come:     *)
(* ws-client.ts under every order of bootstraps, sign-outs, 4401s, closes  *)
(* and timers.  A third bootstrap could leave one: it may be allowed after *)
(* another was denied and closed the socket, whose event is still to come. *)
THEOREM OneSocketKnown == ASSUME TwoBoots PROVE SocketSpec => []OneSocket
<1>1. SocketInit => InductiveInv
  BY SocketStarts
<1>2. InductiveInv /\ [SocketNext]_socketVars => InductiveInv'
  BY SocketNextKeeps
<1>3. InductiveInv => OneSocket
  BY DEF InductiveInv
<1> QED
  BY <1>1, <1>2, <1>3, PTL DEF SocketSpec
=============================================================================
