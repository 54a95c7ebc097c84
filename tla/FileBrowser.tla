------------------------------- MODULE FileBrowser -------------------------------
(***************************************************************************)
(* The folder listing of the sidebar (components/file-management-view)     *)
(* beside GET /api/files/list.  One level is shown at a time.  Moving to   *)
(* another folder aborts the listing that the move before it asked for;    *)
(* Refresh and Retry ask without a signal that could be aborted.           *)
(***************************************************************************)
EXTENDS Naturals, Sequences, FiniteSets

CONSTANTS
  Projects,
  Subs,        \* the folders in the root of each project
  MaxCalls,    \* bound: listings under way
  MaxMoves,    \* bound: moves, refreshes and changes on the disk, together
  Overlaps     \* a Refresh may be under way together with another listing

VARIABLES
  project,     \* the panel's, which follows the session on the screen
  current,     \* currentPath: the project, then the folder in it
  state,       \* what is shown: loading, error, or the listing of a folder
  calls,       \* listings under way
  version,     \* [folder -> how often its entries changed]
  asked,       \* history: the version when the shown folder was last asked for
  moves

browserVars == <<project, current, state, calls, version, asked, moves>>

Root(p) == <<p>>
Folders == {Root(p) : p \in Projects} \cup {<<p, d>> : p \in Projects, d \in Subs}

Loading == [status |-> "loading"]
Failed == [status |-> "error"]
Ready(f, v) == [status |-> "ready", of |-> f, v |-> v]

\* A listing on its way: out of the effect, which has a signal, or of a button; read by
\* the server or not yet; and its number, by which it is aborted.
Call(f, signal, n) ==
  [path |-> f, signal |-> signal, aborted |-> FALSE, answer |-> Loading, n |-> n]

VersionOf(f) == IF f \in Folders THEN version[f] ELSE 0

Init ==
  /\ project \in Projects
  /\ current = Root(project)
  /\ state = Loading
  /\ calls = {Call(Root(project), TRUE, 0)}
  /\ version = [f \in Folders |-> 0]
  /\ asked = 0 /\ moves = 0

-----------------------------------------------------------------------------
(* The panel *)

MayMove ==
  /\ moves < MaxMoves /\ Cardinality(calls) < MaxCalls
  /\ Overlaps \/ \A c \in calls : c.signal
  /\ moves' = moves + 1

\* A change of currentPath: the effect's cleanup, then the effect.
MoveTo(f) ==
  /\ current' = f
  /\ state' = Loading
  /\ calls' = {IF c.signal THEN [c EXCEPT !.aborted = TRUE] ELSE c : c \in calls}
              \cup {Call(f, TRUE, moves')}
  /\ asked' = VersionOf(f)

\* Another session is shown: its project's root.
SwitchProject(p) ==
  /\ p # project /\ MayMove
  /\ project' = p
  /\ MoveTo(Root(p))
  /\ UNCHANGED version

\* enterDir, with a name of the listing that is shown.
EnterDir(d) ==
  /\ state.status = "ready" /\ Len(state.of) = 1
  /\ MayMove
  /\ MoveTo(Append(current, d))
  /\ UNCHANGED <<project, version>>

\* goUp, and the crumb of the root.  The row ".." is in the listing, the crumbs are above it.
GoUp ==
  /\ current # Root(project) /\ MayMove
  /\ MoveTo(Root(project))
  /\ UNCHANGED <<project, version>>

\* Refresh is in the menu at all times, Retry under an error.
Refresh ==
  /\ MayMove
  /\ Overlaps \/ \A c \in calls : c.aborted
  /\ state' = Loading
  /\ calls' = calls \cup {Call(current, FALSE, moves')}
  /\ asked' = VersionOf(current)
  /\ UNCHANGED <<project, current, version>>

\* A listing that is shown whatever became of the panel since.
ArrivesUnchecked(c) ==
  /\ c \in calls /\ c.answer # Loading
  /\ calls' = calls \ {c}
  /\ state' = c.answer
  /\ UNCHANGED <<project, current, version, asked, moves>>

\* load, after its awaits.
Arrives(c) ==
  /\ c \in calls /\ c.answer # Loading
  /\ calls' = calls \ {c}
  /\ state' = IF c.aborted THEN state ELSE c.answer
  /\ UNCHANGED <<project, current, version, asked, moves>>

-----------------------------------------------------------------------------
(* The server and the disk *)

\* A folder that is not there is not found.
List(c) ==
  /\ c \in calls /\ c.answer = Loading
  /\ calls' = (calls \ {c}) \cup
       {[c EXCEPT !.answer = IF c.path \in Folders THEN Ready(c.path, version[c.path]) ELSE Failed]}
  /\ UNCHANGED <<project, current, state, version, asked, moves>>

\* The request is lost, or an entry went away between readdir and lstat.
ListFails(c) ==
  /\ c \in calls /\ c.answer = Loading
  /\ calls' = (calls \ {c}) \cup {[c EXCEPT !.answer = Failed]}
  /\ UNCHANGED <<project, current, state, version, asked, moves>>

Change(f) ==
  /\ moves < MaxMoves /\ moves' = moves + 1
  /\ version' = [version EXCEPT ![f] = @ + 1]
  /\ UNCHANGED <<project, current, state, calls, asked>>

Next ==
  \/ \E p \in Projects : SwitchProject(p)
  \/ \E d \in Subs : EnterDir(d)
  \/ GoUp
  \/ Refresh
  \/ \E c \in calls : Arrives(c)
  \/ \E c \in calls : List(c)
  \/ \E c \in calls : ListFails(c)
  \/ \E f \in Folders : Change(f)

Spec == Init /\ [][Next]_browserVars

-----------------------------------------------------------------------------
\* file-management-view.tsx "if (signal?.aborted) return": a listing is shown under the
\* path it is of, which is what a click on a file opens, and it is no older than the last
\* time it was asked for.
ListingIsOfFolder ==
  state.status = "ready" => state.of = current /\ state.v >= asked

\* The panel does not load for ever.
LoadingHasACall ==
  state = Loading => \E c \in calls : ~c.aborted

-----------------------------------------------------------------------------
(* What is always so, and keeps itself so, as long as listings do not overlap. *)

AnyAnswer == {Loading, Failed} \cup [status : {"ready"}, of : Folders, v : Nat]
AnyCall == [path : Folders, signal : BOOLEAN, aborted : BOOLEAN, answer : AnyAnswer, n : Nat]

Shapes ==
  /\ project \in Projects
  /\ current \in {Root(project)} \cup {<<project, d>> : d \in Subs}
  /\ state \in AnyAnswer /\ calls \subseteq AnyCall
  /\ version \in [Folders -> Nat] /\ asked \in Nat /\ moves \in Nat

\* Whoever may still be heard was asked for the folder shown, and what was read for it
\* is what the folder had then or has got since.
LiveAreOfFolder ==
  /\ asked <= version[current]
  /\ \A c \in calls : ~c.aborted =>
       /\ c.path = current
       /\ c.answer.status = "ready" => c.answer.of = current /\ c.answer.v >= asked

InductiveInv == Shapes /\ LiveAreOfFolder /\ ListingIsOfFolder /\ LoadingHasACall

=============================================================================
