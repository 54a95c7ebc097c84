--------------------------- MODULE SessionRegistry --------------------------
(***************************************************************************)
(* The life of one session id: restored into memory on demand and shared   *)
(* by concurrent waiters (SessionManager.getOrRestore, defaultRestore),    *)
(* used by sends that spawn its subprocess, torn down                      *)
(* (teardownActiveSession) and hard-deleted (DELETE /api/sessions/:id and  *)
(* deleteProjectForUser).                                                  *)
(*                                                                         *)
(* An object is one ActiveSession; the session may have several over time. *)
(* A request runs up to its next await; requests interleave there.         *)
(***************************************************************************)
EXTENDS Naturals, FiniteSets

CONSTANTS Requests,   \* concurrent request slots
          Objects,    \* ActiveSession objects, one per register
          Procs,      \* SDK subprocesses, one per startQuery
          None,
          Sends,      \* whether sends occur
          MaxDeletes  \* bound on DELETE requests

ASSUME RegistryAssumption == /\ None \notin Objects \cup Procs
                             /\ Sends \in BOOLEAN
                             /\ MaxDeletes \in Nat

VARIABLES
  row,       \* the sessions row exists
  sdkId,     \* sessions.sdk_session_id is set
  entries,   \* session_store_entries holds rows of the transcript
  memory,    \* the object registered in SessionManager.sessions, or None
  restore,   \* the shared promise in SessionManager.restoring
  made,      \* objects created so far
  closing,   \* closing[o]
  query,     \* query[o]: the subprocess of active.query, or None
  proc,      \* proc[p]: the state of a subprocess
  owner,     \* owner[p]: the object it was spawned for, or None
  step,      \* step[r]: the await request r is at
  hold,      \* hold[r]: the object it works on, or None
  knew,      \* knew[r]: a delete's row carried an sdk session id
  aborts,    \* history: aborts[o], how often a teardown aborted it
  deletes    \* number of DELETE requests

dbVars == <<row, sdkId, entries>>
objectVars == <<memory, restore, made, closing>>
procVars == <<query, proc, owner>>
vars == <<dbVars, objectVars, procVars, step, hold, knew, aborts, deletes>>

(* handleStartSession inserted the row and registered the object; or the   *)
(* server was restarted since and nothing is in memory.                    *)
Init == /\ row = TRUE
        /\ entries \in BOOLEAN
        /\ sdkId = entries
        /\ \/ memory = None /\ made = {}
           \/ \E o \in Objects : memory = o /\ made = {o}
        /\ restore = "idle"
        /\ closing = [o \in Objects |-> FALSE]
        /\ query = [o \in Objects |-> None]
        /\ proc = [p \in Procs |-> "unused"]
        /\ owner = [p \in Procs |-> None]
        /\ step = [r \in Requests |-> "free"]
        /\ hold = [r \in Requests |-> None]
        /\ knew = [r \in Requests |-> FALSE]
        /\ aborts = [o \in Objects |-> 0]
        /\ deletes = 0

Goto(r, there) == step' = [step EXCEPT ![r] = there]

-----------------------------------------------------------------------------
(* getOrRestore: in memory, or join the shared restore, or start it.       *)
Lookup(r) ==
  /\ Sends
  /\ step[r] = "free"
  /\ IF memory # None
       THEN /\ hold' = [hold EXCEPT ![r] = memory]
            /\ Goto(r, "holding")
            /\ UNCHANGED restore
       ELSE /\ Goto(r, "waiting")
            /\ restore' = IF restore = "idle" THEN "select" ELSE restore
            /\ UNCHANGED hold
  /\ UNCHANGED <<dbVars, memory, made, closing, procVars, knew, aborts, deletes>>

(* The database answers the SELECT of defaultRestore.                      *)
RowSelected ==
  /\ restore = "select"
  /\ restore' = IF row THEN "found" ELSE "missing"
  /\ UNCHANGED <<dbVars, memory, made, closing, procVars, step, hold, knew, aborts, deletes>>

Waiters == {r \in Requests : step[r] = "waiting"}

(* Mutant: every waiter restores an object of its own.                     *)
RestoresEach ==
  /\ restore = "found"
  /\ memory = None
  /\ \E o \in Objects \ made, each \in [Waiters -> Objects \ made] :
       /\ memory' = o
       /\ made' = made \cup {o} \cup {each[r] : r \in Waiters}
       /\ hold' = [r \in Requests |-> IF r \in Waiters THEN each[r] ELSE hold[r]]
  /\ step' = [r \in Requests |-> IF r \in Waiters THEN "holding" ELSE step[r]]
  /\ restore' = "idle"
  /\ UNCHANGED <<dbVars, closing, procVars, knew, aborts, deletes>>

(* The row was there: register a fresh object (register refuses an id that *)
(* is taken) and hand the one object to every waiter.                      *)
RestoreFound ==
  /\ restore = "found"
  /\ memory = None
  /\ \E o \in Objects \ made :
       /\ made' = made \cup {o}
       /\ memory' = o
       /\ hold' = [r \in Requests |-> IF r \in Waiters THEN o ELSE hold[r]]
  /\ step' = [r \in Requests |-> IF r \in Waiters THEN "holding" ELSE step[r]]
  /\ restore' = "idle"
  /\ UNCHANGED <<dbVars, closing, procVars, knew, aborts, deletes>>

(* Mutant: the waiters of a failed restore are never told.                 *)
MissingForgets ==
  /\ restore = "missing"
  /\ restore' = "idle"
  /\ UNCHANGED <<dbVars, memory, made, closing, procVars, step, hold, knew, aborts, deletes>>

(* No row: every waiter is told not_found.                                 *)
RestoreMissing ==
  /\ restore = "missing"
  /\ step' = [r \in Requests |-> IF r \in Waiters THEN "free" ELSE step[r]]
  /\ restore' = "idle"
  /\ UNCHANGED <<dbVars, memory, made, closing, procVars, hold, knew, aborts, deletes>>

(* A send goes on with its object: it finds a query, or spawns one; it may *)
(* also end early (refused, busy, bad provider).                           *)
Release(r) == Goto(r, "free") /\ hold' = [hold EXCEPT ![r] = None]

SendDone(r) ==
  /\ step[r] = "holding"
  /\ Release(r)
  /\ UNCHANGED <<dbVars, objectVars, procVars, knew, aborts, deletes>>

SendSpawns(r) ==
  /\ step[r] = "holding"
  /\ query[hold[r]] = None
  /\ \E p \in Procs : /\ proc[p] = "unused"
                      /\ proc' = [proc EXCEPT ![p] = "starting"]
                      /\ owner' = [owner EXCEPT ![p] = hold[r]]
  /\ Goto(r, "spawning")
  /\ UNCHANGED <<dbVars, objectVars, query, hold, knew, aborts, deletes>>

(* startQuery returns: active.query is set.                                *)
Spawned(r) ==
  /\ step[r] = "spawning"
  /\ \E p \in Procs : /\ proc[p] = "starting" /\ owner[p] = hold[r]
                      /\ proc' = [proc EXCEPT ![p] = "live"]
                      /\ query' = [query EXCEPT ![hold[r]] = p]
  /\ Release(r)
  /\ UNCHANGED <<dbVars, objectVars, owner, knew, aborts, deletes>>

(* The consumer persists the sdk session id the subprocess reported (an    *)
(* UPDATE of a deleted row changes nothing).                               *)
SessionIdCaptured(p) ==
  /\ proc[p] = "live"
  /\ ~sdkId
  /\ row
  /\ sdkId' = TRUE
  /\ UNCHANGED <<row, entries, objectVars, procVars, step, hold, knew, aborts, deletes>>

(* External: the SDK mirrors a transcript frame; an aborted one exits.     *)
Mirrors(p) ==
  /\ proc[p] = "live"
  /\ ~entries
  /\ entries' = TRUE
  /\ UNCHANGED <<row, sdkId, objectVars, procVars, step, hold, knew, aborts, deletes>>

-----------------------------------------------------------------------------
(* DELETE: the row is selected, with its sdk session id.                   *)
DeleteSelects(r) ==
  /\ step[r] = "free"
  /\ row
  /\ deletes < MaxDeletes
  /\ deletes' = deletes + 1
  /\ knew' = [knew EXCEPT ![r] = sdkId]
  /\ Goto(r, "selected")
  /\ UNCHANGED <<dbVars, objectVars, procVars, hold, aborts>>

(* getForUser and tryBeginClose, up to the awaited interrupt.  The loser   *)
(* of the claim returns at once and goes on deleting.                      *)
DeleteClaims(r) ==
  /\ step[r] = "selected"
  /\ IF memory # None /\ ~closing[memory]
       THEN /\ closing' = [closing EXCEPT ![memory] = TRUE]
            /\ hold' = [hold EXCEPT ![r] = memory]
            /\ Goto(r, "interrupting")
       ELSE Goto(r, "purging") /\ UNCHANGED <<closing, hold>>
  /\ UNCHANGED <<dbVars, memory, restore, made, procVars, knew, aborts, deletes>>

(* Mutant: teardown forgets the subprocess.                                *)
DrainsOnly(r) ==
  /\ step[r] = "interrupting"
  /\ aborts' = [aborts EXCEPT ![hold[r]] = @ + 1]
  /\ Goto(r, "idling")
  /\ UNCHANGED <<dbVars, objectVars, procVars, hold, knew, deletes>>

(* The interrupt settled: drain, abort the subprocess, close the bridge.   *)
TeardownAborts(r) ==
  /\ step[r] = "interrupting"
  /\ proc' = [p \in Procs |-> IF p = query[hold[r]] THEN "aborted" ELSE proc[p]]
  /\ aborts' = [aborts EXCEPT ![hold[r]] = @ + 1]
  /\ Goto(r, "idling")
  /\ UNCHANGED <<dbVars, objectVars, query, owner, hold, knew, deletes>>

(* Local files cleared, row marked idle: unregister the id.                *)
TeardownUnregisters(r) ==
  /\ step[r] = "idling"
  /\ memory' = None
  /\ hold' = [hold EXCEPT ![r] = None]
  /\ Goto(r, "purging")
  /\ UNCHANGED <<dbVars, restore, made, closing, procVars, knew, aborts, deletes>>

(* deleteStoreEntries when the selected row named a transcript, and the    *)
(* row itself: DELETE /:id in this order, deleteProjectForUser in the      *)
(* other; each is a statement of its own.                                  *)
Purge(r) == entries' = (entries /\ ~knew[r])
DropRow == row' = FALSE /\ sdkId' = FALSE

DeletePurges(r) ==
  /\ step[r] = "purging"
  /\ \/ Purge(r) /\ Goto(r, "dropping") /\ UNCHANGED <<row, sdkId>>
     \/ DropRow /\ Goto(r, "sweeping") /\ UNCHANGED entries
  /\ UNCHANGED <<objectVars, procVars, hold, knew, aborts, deletes>>

DeleteEnds(r) ==
  /\ \/ step[r] = "dropping" /\ DropRow /\ UNCHANGED entries
     \/ step[r] = "sweeping" /\ Purge(r) /\ UNCHANGED <<row, sdkId>>
  /\ Goto(r, "free")
  /\ UNCHANGED <<objectVars, procVars, hold, knew, aborts, deletes>>

-----------------------------------------------------------------------------
Send(r) == Lookup(r) \/ SendDone(r) \/ SendSpawns(r) \/ Spawned(r)

Delete(r) == \/ DeleteSelects(r) \/ DeleteClaims(r) \/ TeardownAborts(r)
             \/ TeardownUnregisters(r) \/ DeletePurges(r) \/ DeleteEnds(r)

Next == \/ \E r \in Requests : Send(r) \/ Delete(r)
        \/ RowSelected \/ RestoreFound \/ RestoreMissing
        \/ \E p \in Procs : SessionIdCaptured(p) \/ Mirrors(p)

Spec == Init /\ [][Next]_vars

(* Awaited calls return; nobody has to send or to delete.                  *)
FairSpec ==
  /\ Spec
  /\ WF_vars(RowSelected) /\ WF_vars(RestoreFound) /\ WF_vars(RestoreMissing)
  /\ \A r \in Requests :
       /\ WF_vars(SendDone(r)) /\ WF_vars(Spawned(r))
       /\ WF_vars(Delete(r) /\ step[r] # "free")

-----------------------------------------------------------------------------
(* Every variable holds a value of its kind.                               *)
TypeOK ==
  /\ row \in BOOLEAN /\ sdkId \in BOOLEAN /\ entries \in BOOLEAN
  /\ memory \in Objects \cup {None}
  /\ restore \in {"idle", "select", "found", "missing"}
  /\ made \subseteq Objects
  /\ closing \in [Objects -> BOOLEAN]
  /\ query \in [Objects -> Procs \cup {None}]
  /\ proc \in [Procs -> {"unused", "starting", "live", "aborted"}]
  /\ owner \in [Procs -> Objects \cup {None}]
  /\ step \in [Requests -> {"free", "waiting", "holding", "spawning", "selected",
                            "interrupting", "idling", "purging", "dropping", "sweeping"}]
  /\ hold \in [Requests -> Objects \cup {None}]
  /\ knew \in [Requests -> BOOLEAN]
  /\ aborts \in [Objects -> Nat]
  /\ deletes \in 0..MaxDeletes

(* session-manager.ts:123 "concurrent waiters restore exactly once": there *)
(* is never a second object of the session that is not on its way out.     *)
SingleIncarnation ==
  \A o \in made : ~closing[o] => o = memory

(* session-lifecycle.ts:34-35 "The subprocess is aborted exactly once      *)
(* across concurrent callers".                                             *)
AbortedOnce == \A o \in Objects : aborts[o] <= 1

(* What getOrRestore hands out is the registered session, so that two      *)
(* requests served at the same time work on one object.                    *)
HandsOutRegistered ==
  [][\A r \in Requests : hold'[r] \notin {None, hold[r]} => hold'[r] = memory']_vars

(* A live subprocess belongs to the registered session: interrupts,        *)
(* answers and teardown can reach it.                                      *)
NoOrphan == \A p \in Procs : proc[p] = "live" => owner[p] = memory

(* sessions.ts:129-131 "If in memory, tear the session down first ... and  *)
(* DELETE the row": the row outlives the session in memory.                *)
RowOutlivesMemory == memory # None => row

(* Requests that never overlap: a client that waits for each answer.       *)
Alone == \A r, s \in Requests : step[r] # "free" /\ step[s] # "free" => r = s

(* As long as no two requests overlap, neither a delete nor a restore      *)
(* leaves a live subprocess outside the registered session, or a session   *)
(* in memory whose row is gone.                                            *)
AloneIsClean == []Alone => [](NoOrphan /\ RowOutlivesMemory)

(* Every request is answered: a waiter of a restore, a spawn, a teardown   *)
(* and its losers all come to an end.                                      *)
RequestsEnd == \A r \in Requests : step[r] # "free" ~> step[r] = "free"
=============================================================================
