------------------------------- MODULE GitCommit -------------------------------
(***************************************************************************)
(* The commits of the git panel: commitFiles of                            *)
(* server/src/services/git/commands.ts behind POST /api/git/commit, with   *)
(* the stage and unstage commands of POST /api/git/command and the agent's *)
(* own use of the repository.  A commit is a chain of git processes on one *)
(* index, and anyone may run another git process between two of them.      *)
(***************************************************************************)
EXTENDS Naturals, FiniteSets

CONSTANTS
  Paths,
  Commits,    \* calls of commitFiles that may run together (two tabs)
  MaxMeddle,  \* bound: steps of the others on the tree and the index
  MaxFaults,  \* bound: git processes that fail for a reason of their own
  Renames     \* does git status pair a deletion and an addition as a rename

VARIABLES
  wt, ix, hd, \* [Paths -> content] on disk, in the index, at HEAD; 0: absent
  born,       \* does HEAD name a commit
  job,        \* [Commits -> a call of commitFiles]
  meddled, faults

gitVars == <<wt, ix, hd, born, job, meddled, faults>>

\* prot: protectedPaths.  History: the index when the status was read, the
\* deletions no entry showed, the contents that were added, what others changed.
Blank == [p \in Paths |-> 0]
NoJob == [pc |-> "no", sel |-> {}, amend |-> FALSE, prot |-> {},
          base |-> Blank, hidden |-> {}, added |-> Blank, touched |-> {}]

Init ==
  /\ hd \in [Paths -> {0, 1}] /\ born \in BOOLEAN
  /\ born \/ hd = [p \in Paths |-> 0]
  /\ ix \in [Paths -> 0..2] /\ wt \in [Paths -> 0..2]
  /\ job = [c \in Commits |-> NoJob]
  /\ meddled = 0 /\ faults = 0

-----------------------------------------------------------------------------
(* What the git processes do.                                              *)

\* A staged rename of an unchanged file has one entry, of the new path; git
\* pairs one of several candidates.
Pairs == {r \in Paths \X Paths : /\ hd[r[1]] # 0 /\ ix[r[1]] = 0
                                 /\ hd[r[2]] = 0 /\ ix[r[2]] = hd[r[1]]}
Hidden == IF ~Renames \/ Pairs = {} THEN {}
          ELSE {p \in {(CHOOSE r \in Pairs : TRUE)[1]} : wt[p] = 0}

\* parseStatus and isStaged: the paths with an entry, those whose X is a change.
Entries == {p \in Paths : ix[p] # hd[p] \/ wt[p] # ix[p]} \ Hidden
Staged  == {p \in Paths : ix[p] # hd[p]} \ Hidden

\* git add -- P stages deletions too; a path neither on disk nor in the index
\* fails it as a whole.
Addable(P) == \A p \in P : wt[p] # 0 \/ ix[p] # 0
AddPaths(P) == ix' = [p \in Paths |-> IF p \in P THEN wt[p] ELSE ix[p]]

\* git reset HEAD -- P needs a HEAD.
ResetPaths(P) == ix' = [p \in Paths |-> IF p \in P THEN hd[p] ELSE ix[p]]

\* A process that meets a lock, a hook or its timeout fails and changes nothing.
Fault == faults < MaxFaults /\ faults' = faults + 1

-----------------------------------------------------------------------------
(* commitFiles *)

\* What this step changes, for the calls under way of others.
Changed == {p \in Paths : wt'[p] # wt[p] \/ ix'[p] # ix[p] \/ hd'[p] # hd[p]}
Ends == {"refused", "failed", "unrestored", "done"}
Seen(d) == IF job[d].pc \in Ends \cup {"no"} THEN job[d]
           ELSE [job[d] EXCEPT !.touched = @ \cup Changed]
Moves(c, j) == job' = [d \in Commits |-> IF d = c THEN j ELSE Seen(d)]
GoesTo(c, pc) ==
  Moves(c, IF pc \in Ends THEN [NoJob EXCEPT !.pc = pc] ELSE [job[c] EXCEPT !.pc = pc])

AfterFailure(c) == IF job[c].prot = {} THEN "failed" ELSE "restore"

\* The status is read, unknown files are refused, and so is an amend without a
\* commit; what is staged but not selected is to be protected.
Begin(c) ==
  /\ job[c].pc = "no"
  /\ UNCHANGED <<wt, ix, hd, born, meddled>>
  /\ \E sel \in SUBSET Paths \ {{}}, amend \in BOOLEAN :
       \/ /\ sel \subseteq Entries /\ (amend => born)
          /\ Moves(c, [NoJob EXCEPT !.pc = IF Staged \subseteq sel THEN "add" ELSE "protect",
                                    !.sel = sel, !.amend = amend, !.prot = Staged \ sel,
                                    !.base = ix, !.hidden = Hidden])
          /\ UNCHANGED faults
       \/ /\ \/ ~(sel \subseteq Entries /\ (amend => born)) /\ UNCHANGED faults
             \/ Fault
          /\ GoesTo(c, "refused")

\* A commit that leaves what is staged in the index.
NoProtect(c) ==
  /\ job[c].pc = "protect"
  /\ UNCHANGED <<wt, ix, hd, born, meddled, faults>> /\ GoesTo(c, "add")

Protect(c) ==
  /\ job[c].pc = "protect"
  /\ UNCHANGED <<wt, hd, born, meddled>>
  /\ \/ born /\ ResetPaths(job[c].prot) /\ GoesTo(c, "add") /\ UNCHANGED faults
     \/ (IF born THEN Fault ELSE UNCHANGED faults) /\ UNCHANGED ix /\ GoesTo(c, "failed")

AddSelected(c) ==
  /\ job[c].pc = "add"
  /\ UNCHANGED <<wt, hd, born, meddled>>
  /\ \/ /\ Addable(job[c].sel) /\ AddPaths(job[c].sel)
        /\ Moves(c, [job[c] EXCEPT !.pc = "commit", !.added = wt]) /\ UNCHANGED faults
     \/ /\ IF Addable(job[c].sel) THEN Fault ELSE UNCHANGED faults
        /\ UNCHANGED ix /\ GoesTo(c, AfterFailure(c))

\* git commit takes the whole index; it has nothing to do when that is HEAD's.
Commit(c) ==
  LET something == ix # hd \/ job[c].amend IN
  /\ job[c].pc = "commit"
  /\ UNCHANGED <<wt, ix, meddled>>
  /\ \/ /\ something /\ hd' = ix /\ born' = TRUE
        /\ GoesTo(c, "done") /\ UNCHANGED faults
     \/ /\ IF something THEN Fault ELSE UNCHANGED faults
        /\ UNCHANGED <<hd, born>> /\ GoesTo(c, AfterFailure(c))

\* The protected files are added again; the outcome is ignored.
Restore(c) ==
  /\ job[c].pc = "restore"
  /\ UNCHANGED <<wt, hd, born, meddled>>
  /\ \/ /\ Addable(job[c].prot) /\ AddPaths(job[c].prot)
        /\ GoesTo(c, "failed") /\ UNCHANGED faults
     \/ /\ IF Addable(job[c].prot) THEN Fault ELSE UNCHANGED faults
        /\ UNCHANGED ix /\ GoesTo(c, "unrestored")

-----------------------------------------------------------------------------
(* The others: the agent's tools, and the panel's stage and unstage.       *)

Meddles ==
  /\ meddled < MaxMeddle /\ meddled' = meddled + 1
  /\ job' = [d \in Commits |-> Seen(d)]
  /\ UNCHANGED faults

Edit == /\ \E p \in Paths, v \in 0..2 : v # wt[p] /\ wt' = [wt EXCEPT ![p] = v]
        /\ UNCHANGED <<ix, hd, born>> /\ Meddles

StageFiles == /\ \E P \in SUBSET Paths \ {{}} : Addable(P) /\ AddPaths(P)
              /\ UNCHANGED <<wt, hd, born>> /\ Meddles

UnstageFiles == /\ born /\ \E P \in SUBSET Paths \ {{}} : ResetPaths(P)
                /\ UNCHANGED <<wt, hd, born>> /\ Meddles

OtherCommit == /\ ix # hd /\ hd' = ix /\ born' = TRUE
               /\ UNCHANGED <<wt, ix>> /\ Meddles

Next ==
  \/ \E c \in Commits : Begin(c) \/ Protect(c) \/ AddSelected(c) \/ Commit(c) \/ Restore(c)
  \/ Edit \/ StageFiles \/ UnstageFiles \/ OtherCommit

Spec == Init /\ [][Next]_gitVars

-----------------------------------------------------------------------------
Succeeds(c) == job[c].pc = "commit" /\ job'[c].pc = "done"
Fails(c) == job[c].pc # "failed" /\ job'[c].pc = "failed"

\* A commit changes exactly the selected files, each to what was on disk when it
\* was added, whatever else is staged: except for what others changed since the
\* status was read, and for the old path of a staged rename, which has no entry.
OfSelection ==
  \A c \in Commits : Succeeds(c) =>
    \A p \in Paths \ job[c].touched :
      hd'[p] = IF p \in job[c].sel THEN job[c].added[p]
               ELSE IF p \in job[c].hidden THEN ix[p] ELSE hd[p]

CommitIsOfSelection == [][OfSelection]_gitVars

\* A commit that fails leaves what was staged in full before it staged as it was,
\* unless others changed the file since or git refused to stage it again.
KeepsStaged ==
  \A c \in Commits : Fails(c) =>
    \A p \in Paths \ (job[c].touched \cup job[c].sel \cup job[c].hidden) :
      (wt[p] = job[c].base[p] \/ p \notin job[c].prot) => ix'[p] = job[c].base[p]

FailureKeepsStaged == [][KeepsStaged]_gitVars

\* As commitFiles promises it: renames too.
CommitIsExact ==
  [][\A c \in Commits : Succeeds(c) =>
       \A p \in Paths \ (job[c].touched \cup job[c].sel) : hd'[p] = hd[p]]_gitVars

-----------------------------------------------------------------------------
\* What keeps them so: of the files no other touched since the status was read, those
\* that were not selected are in the index as they were read or, once protected, as they
\* are at HEAD; those that were selected are there as they were added.
Contents == [Paths -> Nat]
Running == {"protect", "add", "commit", "restore"}

Shapes ==
  /\ wt \in Contents /\ ix \in Contents /\ hd \in Contents
  /\ job \in [Commits -> [pc : Running \cup Ends \cup {"no"}, sel : SUBSET Paths,
                          amend : BOOLEAN, prot : SUBSET Paths, base : Contents,
                          hidden : SUBSET Paths, added : Contents, touched : SUBSET Paths]]

Known(c) ==
  job[c].pc \in Running =>
    /\ job[c].prot \cap job[c].sel = {}
    /\ \A p \in Paths \ (job[c].touched \cup job[c].sel \cup job[c].hidden) :
         IF job[c].pc = "protect" THEN /\ ix[p] = job[c].base[p]
                                       /\ p \notin job[c].prot => ix[p] = hd[p]
         ELSE /\ ix[p] = hd[p]
              /\ p \notin job[c].prot => ix[p] = job[c].base[p]
    /\ job[c].pc = "commit" =>
         \A p \in job[c].sel \ job[c].touched : ix[p] = job[c].added[p]

IndexIsKnown == \A c \in Commits : Known(c)

InductiveInv == Shapes /\ IndexIsKnown

=============================================================================
