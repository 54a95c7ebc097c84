---------------------------- MODULE CloneLifecycle ----------------------------
(***************************************************************************)
(* The project folders of one user on the server: blank projects, clones   *)
(* running in the background, clones of a project made again, cancelling,  *)
(* adopting, deleting, and what a restart does with a clone it finds cut   *)
(* off (server/src/routes/projects.ts, services/projects.ts, services/git/ *)
(* clone-registry.ts, services/reconcile.ts).                              *)
(*                                                                         *)
(* A name is the suffix claimProjectDir tries: base, base-2, ...  A clone  *)
(* is one cloneId with its background task.  Folders are what they hold:   *)
(* who put it there and whether it is complete.  The database, git and the *)
(* file system's answers are the environment's choice.                     *)
(***************************************************************************)
EXTENDS Naturals, Sequences, FiniteSets

CONSTANTS MaxName,     \* how many suffixes claimProjectDir tries
          Tasks,       \* the clones of a run of the model
          Local,       \* "who" of a folder no clone made: blank or adopted
          NoOne,       \* "who" of a folder that is not there
          Foreign,     \* the names another machine made a project of
          MaxRequests, \* bound: requests of the user
          MaxCrashes   \* bound: restarts

ASSUME BoundAssumption ==
  MaxName \in Nat \ {0} /\ MaxRequests \in Nat /\ MaxCrashes \in Nat
ASSUME ForeignAssumption == Foreign \subseteq 1 .. MaxName
ASSUME WhoAssumption ==
  Local \notin Tasks /\ NoOne \notin Tasks /\ Local # NoOne

Names == 1 .. MaxName

VARIABLES
  disk,       \* [Names -> what the folder holds]
  marker,     \* the names that have a `.cloning-<name>` file
  meta,       \* [Names -> number of projectGitMetadata rows]
  rows,       \* the names some session row carries
  task,       \* [Tasks -> the background task of a clone]
  clones,     \* the registry of running clones, a Map in insertion order
  deleting,   \* [Names -> where a DELETE /:name stands]
  up,         \* the server accepts requests
  crashes,
  asked,      \* requests made
  told,       \* [Tasks -> the ends told in clone_progress frames]
  disturbed   \* history: the clones whose name was emptied under them

vars == <<disk, marker, meta, rows, task, clones, deleting, up, crashes, asked,
          told, disturbed>>

Absent == [by |-> NoOne, full |-> FALSE]
Stages == {"new", "emptying", "claimed", "running", "cloned", "rollback",
           "unmarking", "done"}
Alive(t) == ~task[t].dead /\ task[t].st \notin {"new", "done"}
Entries == {clones[i] : i \in DOMAIN clones}
CloningNames == {task[t].name : t \in Entries}

\* A request reaches a server that is up.
Ask == up /\ asked < MaxRequests /\ asked' = asked + 1

Free == {n \in Names : disk[n].by = NoOne}
Claims(n) == n \in Free /\ \A m \in Free : n <= m

\* The failure of an aborted clone is told as a cancel, whatever the cause.
Tell(t, end) ==
  told' = [told EXCEPT ![t] = Append(@, IF end = "failed" /\ task[t].aborted
                                          THEN "canceled" ELSE end)]

Register(t) == clones' = Append(clones, t)
Unregister(t) ==
  \E i \in DOMAIN clones :
    /\ clones[i] = t
    /\ clones' = SubSeq(clones, 1, i - 1) \o SubSeq(clones, i + 1, Len(clones))

Step(t, st) == task' = [task EXCEPT ![t].st = st]

\* Those whose folder another removes.
Disturb(n, but) ==
  disturbed' = disturbed \cup
                 {t \in Tasks \ but : Alive(t) /\ task[t].name = n}
-----------------------------------------------------------------------------
(* POST / : a clone and a blank project. *)

Post(t) ==
  /\ Ask /\ task[t].st = "new"
  /\ \E n \in Names :
       /\ Claims(n)
       /\ disk' = [disk EXCEPT ![n] = [by |-> t, full |-> FALSE]]
       /\ task' = [task EXCEPT ![t].st = "claimed", ![t].name = n]
  /\ Register(t)
  /\ UNCHANGED <<marker, meta, rows, deleting, up, crashes, told, disturbed>>

CreateBlank ==
  /\ Ask
  /\ \E n \in Names :
       Claims(n) /\ disk' = [disk EXCEPT ![n] = [by |-> Local, full |-> TRUE]]
  /\ UNCHANGED <<marker, meta, rows, task, clones, deleting, up, crashes, told,
                 disturbed>>

\* Mutant: the marker is not written.
NoMarkerWritten(t) ==
  /\ Alive(t) /\ task[t].st = "claimed"
  /\ task' = [task EXCEPT ![t].st = "running", ![t].marked = TRUE]
  /\ UNCHANGED <<disk, marker, meta, rows, clones, deleting, up, crashes, asked,
                 told, disturbed>>

\* The marker's write may fail; the request goes on without it.
WriteMarker(t) ==
  /\ Alive(t) /\ task[t].st = "claimed"
  /\ \E wrote \in BOOLEAN :
       /\ marker' = IF wrote THEN marker \cup {task[t].name} ELSE marker
       /\ task' = [task EXCEPT ![t].st = "running", ![t].marked = wrote]
  /\ UNCHANGED <<disk, meta, rows, clones, deleting, up, crashes, asked, told,
                 disturbed>>

\* POST /:name/reclone empties the folder, then makes it; the mkdir throws when
\* somebody made it in between.
Reclone(t, n) ==
  /\ Ask /\ task[t].st = "new" /\ meta[n] > 0
  /\ disk' = [disk EXCEPT ![n] = Absent]
  /\ Disturb(n, {})
  /\ task' = [task EXCEPT ![t].st = "emptying", ![t].name = n,
                          ![t].again = TRUE]
  /\ UNCHANGED <<marker, meta, rows, clones, deleting, up, crashes, told>>

RecloneClaim(t) ==
  /\ Alive(t) /\ task[t].st = "emptying"
  /\ LET n == task[t].name IN
       IF disk[n].by = NoOne
         THEN /\ disk' = [disk EXCEPT ![n] = [by |-> t, full |-> FALSE]]
              /\ Step(t, "claimed")
              /\ Register(t)
         ELSE Step(t, "done") /\ UNCHANGED <<disk, clones>>
  /\ UNCHANGED <<marker, meta, rows, deleting, up, crashes, asked, told,
                 disturbed>>
-----------------------------------------------------------------------------
(* The background task. *)

\* git may exit 0 though an abort or a removal of its folder came too late.
GitSucceeds(t) ==
  /\ Alive(t) /\ task[t].st = "running"
  /\ disk' = IF disk[task[t].name].by = t
               THEN [disk EXCEPT ![task[t].name].full = TRUE] ELSE disk
  /\ Step(t, "cloned")
  /\ UNCHANGED <<marker, meta, rows, clones, deleting, up, crashes, asked,
                 told, disturbed>>

\* A failed spawn, an exit code, the timeout, or the abort of a cancel.
GitFails(t) ==
  /\ Alive(t) /\ task[t].st = "running"
  /\ Step(t, "rollback")
  /\ UNCHANGED <<disk, marker, meta, rows, clones, deleting, up, crashes,
                 asked, told,
                 disturbed>>

\* The row is inserted (POST) or updated (reclone), the end is told, and the
\* `finally` takes the clone out of the registry, all before the next await.
Complete(t) ==
  /\ Alive(t) /\ task[t].st = "cloned"
  /\ meta' = IF task[t].again THEN meta
               ELSE [meta EXCEPT ![task[t].name] = @ + 1]
  /\ Tell(t, "completed")
  /\ Unregister(t)
  /\ Step(t, "unmarking")
  /\ UNCHANGED <<disk, marker, rows, deleting, up, crashes, asked, disturbed>>

MetadataFails(t) ==
  /\ Alive(t) /\ task[t].st = "cloned"
  /\ Step(t, "rollback")
  /\ UNCHANGED <<disk, marker, meta, rows, clones, deleting, up, crashes,
                 asked, told,
                 disturbed>>

FailClone(t) ==
  /\ Alive(t) /\ task[t].st = "rollback"
  /\ disk' = [disk EXCEPT ![task[t].name] = Absent]
  /\ Disturb(task[t].name, {t})
  /\ Tell(t, "failed")
  /\ Unregister(t)
  /\ Step(t, "unmarking")
  /\ UNCHANGED <<marker, meta, rows, deleting, up, crashes, asked>>

\* Mutant: the marker stays behind.
KeepsMarker(t) ==
  /\ Alive(t) /\ task[t].st = "unmarking"
  /\ Step(t, "done")
  /\ UNCHANGED <<disk, marker, meta, rows, clones, deleting, up, crashes, asked,
                 told, disturbed>>

\* Mutant: waits for a marker whose write had failed.
NeedsMarker(t) ==
  /\ Alive(t) /\ task[t].st = "unmarking" /\ task[t].marked
  /\ marker' = marker \ {task[t].name}
  /\ Step(t, "done")
  /\ UNCHANGED <<disk, meta, rows, clones, deleting, up, crashes, asked, told,
                 disturbed>>

RemoveMarker(t) ==
  /\ Alive(t) /\ task[t].st = "unmarking"
  /\ marker' = marker \ {task[t].name}
  /\ Step(t, "done")
  /\ UNCHANGED <<disk, meta, rows, clones, deleting, up, crashes, asked, told,
                 disturbed>>
-----------------------------------------------------------------------------
(* Cancel, adopt and delete. *)

\* Only the first entry of that name is aborted.
CancelClone(n) ==
  /\ Ask /\ n \in CloningNames
  /\ LET i == CHOOSE i \in DOMAIN clones :
                /\ task[clones[i]].name = n
                /\ \A j \in 1 .. i - 1 : task[clones[j]].name # n
     IN task' = [task EXCEPT ![clones[i]].aborted = TRUE]
  /\ UNCHANGED <<disk, marker, meta, rows, clones, deleting, up, crashes, told,
                 disturbed>>

AdoptProject(n) ==
  /\ Ask /\ n \in rows
  /\ disk' = [disk EXCEPT ![n] = IF @.by = NoOne
                                   THEN [by |-> Local, full |-> TRUE] ELSE @]
  /\ UNCHANGED <<marker, meta, rows, task, clones, deleting, up, crashes, told,
                 disturbed>>

\* The rows go first; then the folder, which a running clone may be filling;
\* then the git metadata.
DeleteRows(n) ==
  /\ Ask /\ deleting[n] = "no"
  /\ n \in rows \/ disk[n].by # NoOne
  /\ rows' = rows \ {n}
  /\ deleting' = [deleting EXCEPT ![n] = "folder"]
  /\ UNCHANGED <<disk, marker, meta, task, clones, up, crashes, told,
                 disturbed>>

DeleteFolder(n) ==
  /\ up /\ deleting[n] = "folder"
  /\ disk' = [disk EXCEPT ![n] = Absent]
  /\ Disturb(n, {})
  /\ deleting' = [deleting EXCEPT ![n] = "metadata"]
  /\ UNCHANGED <<marker, meta, rows, task, clones, up, crashes, asked, told>>

DeleteMetadata(n) ==
  /\ up /\ deleting[n] = "metadata"
  /\ meta' = [meta EXCEPT ![n] = 0]
  /\ deleting' = [deleting EXCEPT ![n] = "no"]
  /\ UNCHANGED <<disk, marker, rows, task, clones, up, crashes, asked, told,
                 disturbed>>
-----------------------------------------------------------------------------
(* A restart. *)

Crash ==
  /\ up /\ crashes < MaxCrashes
  /\ up' = FALSE
  /\ crashes' = crashes + 1
  /\ task' = [t \in Tasks |-> [task[t] EXCEPT !.dead = Alive(t) \/ @]]
  /\ clones' = <<>>
  /\ deleting' = [n \in Names |-> "no"]
  /\ UNCHANGED <<disk, marker, meta, rows, asked, told, disturbed>>

\* Boot takes every marker for that of a clone cut off.
CleanInterrupted(n) ==
  /\ ~up /\ n \in marker
  /\ disk' = [disk EXCEPT ![n] = Absent]
  /\ marker' = marker \ {n}
  /\ UNCHANGED <<meta, rows, task, clones, deleting, up, crashes, asked, told,
                 disturbed>>

Serve ==
  /\ ~up /\ marker = {}
  /\ up' = TRUE
  /\ UNCHANGED <<disk, marker, meta, rows, task, clones, deleting, crashes,
                 asked, told,
                 disturbed>>
-----------------------------------------------------------------------------
\* A project of another machine has rows and may have metadata, but no folder.
Init ==
  /\ disk = [n \in Names |-> Absent]
  /\ marker = {}
  /\ rows = Foreign
  /\ meta \in [Names -> 0 .. 1] /\ \A n \in Names : meta[n] > 0 => n \in rows
  /\ task = [t \in Tasks |-> [st |-> "new", name |-> 1, aborted |-> FALSE,
                              again |-> FALSE, marked |-> FALSE, dead |-> FALSE]]
  /\ clones = <<>>
  /\ deleting = [n \in Names |-> "no"]
  /\ up = TRUE
  /\ crashes = 0
  /\ asked = 0
  /\ told = [t \in Tasks |-> <<>>]
  /\ disturbed = {}

TaskStep(t) ==
  \/ WriteMarker(t) \/ RecloneClaim(t) \/ GitSucceeds(t)
  \/ GitFails(t) \/ Complete(t) \/ MetadataFails(t) \/ FailClone(t)
  \/ RemoveMarker(t)

Request ==
  \/ \E t \in Tasks : Post(t) \/ \E n \in Names : Reclone(t, n)
  \/ CreateBlank
  \/ \E n \in Names : CancelClone(n) \/ AdoptProject(n) \/ DeleteRows(n)

DeleteStep(n) == DeleteFolder(n) \/ DeleteMetadata(n)
BootStep == (\E n \in Names : CleanInterrupted(n)) \/ Serve

Next ==
  \/ Request
  \/ \E t \in Tasks : TaskStep(t)
  \/ \E n \in Names : DeleteStep(n)
  \/ Crash
  \/ BootStep

\* A task's awaits return: git has a timeout, the file system and the database
\* answer.  Boot does not stop half-way.  Nobody has to ask for anything.
Fairness ==
  /\ \A t \in Tasks : WF_vars(TaskStep(t))
  /\ \A n \in Names : WF_vars(DeleteStep(n))
  /\ WF_vars(BootStep)

Spec == Init /\ [][Next]_vars /\ Fairness
-----------------------------------------------------------------------------
\* A folder that is only half there is listed as cloning, never as ready, unless
\* a restart left it: its clone had no marker yet, could not write it, or lost it
\* to the end of an earlier clone of the same name.
HalfIsFlagged ==
  \A n \in Names :
    LET t == disk[n].by IN
    up /\ t \in Tasks /\ ~disk[n].full =>
      \/ n \in CloningNames
      \/ task[t].dead /\ ~task[t].marked
      \/ task[t].dead /\ \E u \in Tasks \ {t} : /\ task[u].name = n
                                               /\ task[u].st = "done"

\* A folder that is complete goes away only when the user deletes it or clones
\* the project again; when a clone that lost its folder rolls back; or when a
\* boot finds the marker of a clone that was killed after git had finished.
FinishedSurvives ==
  [][\A n \in Names :
       disk[n].full /\ ~disk'[n].full =>
         \/ deleting[n] = "folder" /\ deleting'[n] = "metadata"
         \/ \E t \in Tasks : task[t].st = "new" /\ task'[t].st = "emptying"
         \/ \E t \in Tasks : /\ task[t].name = n
                             /\ task[t].st = "rollback"
                             /\ task'[t].st = "unmarking"
                             /\ disk[n].by = t \/ t \in disturbed
         \/ /\ ~up
            /\ \E t \in Tasks : /\ task[t].dead /\ task[t].name = n
                                /\ \/ t \in disturbed
                                   \/ task[t].st \in {"cloned", "rollback",
                                                     "unmarking"}]_vars

\* reconcile.ts:12 the route "removes it on any terminal outcome", and what boot
\* removes is "a clone that was interrupted": one that was told to be complete
\* keeps its folder.
BootSparesCompleted ==
  [][\A n \in Names, t \in Tasks :
       ~up /\ disk[n].by = t /\ told[t] = <<"completed">> =>
         disk'[n] = disk[n]]_vars

\* A clone that was started ends or is killed by a crash.
ClonesEnd ==
  \A t \in Tasks : Alive(t) ~> task[t].dead \/ task[t].st = "done"

=============================================================================
