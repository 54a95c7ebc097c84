------------------------------ MODULE ProjectList ------------------------------
(***************************************************************************)
(* A tab's list of projects and its new-project dialog, driven by the      *)
(* answers of the requests it makes and by the clone_progress frames of    *)
(* the server (client/src/lib/projects-store.ts, clone-progress-store.ts,  *)
(* ws-subscriber.ts, components/new-project-modal.tsx, project-row.tsx),   *)
(* composed with the server's CloneLifecycle.  Answers and frames travel   *)
(* apart: a frame may overtake the answer of the request it is about.      *)
(***************************************************************************)
EXTENDS CloneLifecycle

CONSTANTS Fetches,        \* listings that may be in flight together
          MaxDisconnects  \* bound: times the socket drops

VARIABLES
  list,      \* [Names -> the row the sidebar shows]
  progress,  \* clone-progress-store's byId, "none" where there is no entry
  modal,     \* the clone the dialog shows, or NoOne
  frames,    \* frames on their way, with the truth when sent (history)
  answers,   \* the clones whose 201 is on its way
  fetch,     \* [Fetches -> a GET /api/projects]
  dirty,     \* a refresh is due
  cancel,    \* [Names -> where a cancelClone stands]
  removal,   \* [Names -> where a remove stands]
  online, drops,
  unheard,   \* history: the clones whose end came to no dialog
  excuse     \* history: the names whose row may be wrong, see Excuse

cvars == <<list, progress, modal, frames, answers, fetch, dirty, cancel, removal,
           online, drops, unheard, excuse>>
pvars == <<vars, cvars>>

Shown == {"none", "foreign", "cloning", "ready"}
NoFetch == [st |-> "no", dirs |-> {}, own |-> {}, flagged |-> {}, stale |-> {}]

\* What a listing of this moment says: listProjectsForUser.
Listed(dirs, own, flagged) ==
  [n \in Names |-> IF n \in dirs
                     THEN IF n \in flagged THEN "cloning" ELSE "ready"
                     ELSE IF n \in own THEN "foreign" ELSE "none"]
Folders == {n \in Names : disk[n].by # NoOne}
Truth == Listed(Folders, rows, CloningNames)

\* A row may be wrong until the next listing when what came for it was outdated
\* (something changed on the server after it was sent); when a clone that failed
\* under a name that has session rows, or one whose folder was taken, tells its
\* end; when a cancel drops a row that is no longer cloning; when the answer of a
\* create comes after the end of its clone.
Excuse(names) == excuse \cup names

\* A listing is stale in what changed since it was read.
Aged == [f \in Fetches |->
           IF fetch[f].st \in {"read", "flagged"}
             THEN [fetch[f] EXCEPT !.stale =
                     @ \cup {n \in Names : Truth'[n] # Truth[n]}]
             ELSE fetch[f]]

\* The ends this step of the server tells, which nobody gets while offline.
Told == {t \in Tasks : told'[t] # told[t]}
Sent == IF Told = {} \/ ~online THEN frames
        ELSE LET t == CHOOSE t \in Told : TRUE IN
             Append(frames, [id |-> t, status |-> told'[t][Len(told'[t])],
                             truth |-> Truth'[task[t].name]])

\* Frames are broadcast to the tab as the step makes them; the rest waits.
ServerMoves ==
  /\ fetch' = Aged
  /\ frames' = Sent
  /\ unheard' = IF online THEN unheard ELSE unheard \cup Told
-----------------------------------------------------------------------------
(* What the user can ask for is what the rows offer. *)

UserPosts(t) ==
  /\ Post(t)
  /\ ServerMoves
  /\ UNCHANGED <<list, progress, modal, answers, dirty, cancel, removal, online,
                 drops, excuse>>

UserReclones(t, n) ==
  /\ list[n] = "foreign" /\ Reclone(t, n)
  /\ ServerMoves
  /\ UNCHANGED <<list, progress, modal, answers, dirty, cancel, removal, online,
                 drops, excuse>>

\* `project_adopted` makes the sidebar refresh after its debounce.
UserAdopts(n) ==
  /\ list[n] = "foreign" /\ AdoptProject(n)
  /\ dirty' = TRUE
  /\ ServerMoves
  /\ UNCHANGED <<list, progress, modal, answers, cancel, removal, online, drops,
                 excuse>>

\* The row's button and the dialog's: cancelClone looks before it asks.
UserCancels(n) ==
  /\ list[n] = "cloning" /\ cancel[n] = "no"
  /\ cancel' = [cancel EXCEPT ![n] = "asked"]
  /\ modal' = IF modal # NoOne /\ task[modal].name = n THEN NoOne ELSE modal
  /\ UNCHANGED <<vars, list, progress, frames, answers, fetch, dirty, removal,
                 online, drops, unheard, excuse>>

UserRemoves(n) ==
  /\ list[n] \in {"ready", "foreign"} /\ removal[n] = "no"
  /\ removal' = [removal EXCEPT ![n] = "asked"]
  /\ UNCHANGED <<vars, list, progress, modal, frames, answers, fetch, dirty,
                 cancel, online, drops, unheard, excuse>>

\* "Run in background".
UserCloses ==
  /\ modal # NoOne
  /\ modal' = NoOne
  /\ UNCHANGED <<vars, list, progress, frames, answers, fetch, dirty, cancel,
                 removal, online, drops, unheard, excuse>>
-----------------------------------------------------------------------------
(* The server at work. *)

\* The 201 leaves once the marker is written and the task started.
TaskMoves(t) ==
  /\ TaskStep(t)
  /\ ServerMoves
  /\ answers' = IF task[t].st = "claimed" /\ ~task[t].again
                  THEN answers \cup {t} ELSE answers
  /\ UNCHANGED <<list, progress, modal, dirty, cancel, removal, online, drops,
                 excuse>>

CancelArrives(n) ==
  /\ cancel[n] = "asked"
  /\ cancel' = [cancel EXCEPT ![n] = "answered"]
  /\ \/ CancelClone(n)
     \/ n \notin CloningNames /\ UNCHANGED vars
  /\ ServerMoves
  /\ UNCHANGED <<list, progress, modal, answers, dirty, removal, online, drops,
                 excuse>>

RemovalArrives(n) ==
  /\ removal[n] = "asked"
  /\ \/ DeleteRows(n) /\ removal' = [removal EXCEPT ![n] = "under way"]
     \/ /\ n \notin rows /\ disk[n].by = NoOne  \* 404: the row stays
        /\ removal' = [removal EXCEPT ![n] = "no"]
        /\ UNCHANGED vars
  /\ ServerMoves
  /\ UNCHANGED <<list, progress, modal, answers, dirty, cancel, online, drops,
                 excuse>>

RemovalMoves(n) ==
  /\ DeleteStep(n)
  /\ removal' = IF deleting'[n] = "no" THEN [removal EXCEPT ![n] = "answered"]
                                       ELSE removal
  /\ ServerMoves
  /\ UNCHANGED <<list, progress, modal, answers, dirty, cancel, online, drops,
                 excuse>>
-----------------------------------------------------------------------------
(* The stores. *)

Upsert(n) == [list EXCEPT ![n] = IF @ = "none" THEN "cloning" ELSE @]
Drop(n) == [list EXCEPT ![n] = "none"]

\* apply keeps the running clones and the frame that came.
Apply(t, status) ==
  progress' = [u \in Tasks |-> IF u = t THEN status
                               ELSE IF progress[u] = "cloning" THEN "cloning"
                               ELSE "none"]

\* The first frames say "cloning"; the tab gets one for each percent.
ProgressArrives(t) ==
  /\ online /\ Alive(t) /\ task[t].st = "running" /\ progress[t] = "none"
  /\ \A i \in DOMAIN frames : frames[i].id # t
  /\ Apply(t, "cloning")
  /\ list' = Upsert(task[t].name)
  /\ UNCHANGED <<vars, modal, frames, answers, fetch, dirty, cancel, removal,
                 online, drops, unheard, excuse>>

\* Mutant: a cancel "is terminal but not an error" and returns before the drop.
CancelReturnsEarly ==
  /\ online /\ frames # <<>>
  /\ frames' = Tail(frames)
  /\ LET f == Head(frames)
         n == task[f.id].name
     IN /\ list' = CASE f.status = "completed" -> [list EXCEPT ![n] = "ready"]
                      [] f.status = "failed" -> Drop(n)
                      [] OTHER -> list
        /\ Apply(f.id, f.status)
  /\ UNCHANGED <<vars, modal, answers, fetch, dirty, cancel, removal, online,
                 drops, unheard, excuse>>

\* Mutant: the dialog closes on success only.
ClosesOnSuccess ==
  /\ online /\ frames # <<>> /\ Head(frames).status # "completed"
  /\ frames' = Tail(frames)
  /\ list' = Drop(task[Head(frames).id].name)
  /\ Apply(Head(frames).id, Head(frames).status)
  /\ UNCHANGED <<vars, modal, answers, fetch, dirty, cancel, removal, online,
                 drops, unheard, excuse>>

\* The subscriber routes a terminal frame to the stores; the dialog closes, or
\* shows the failure, when it is about the clone it shows.
FrameArrives ==
  /\ online /\ frames # <<>>
  /\ frames' = Tail(frames)
  /\ LET t == Head(frames).id
         n == task[t].name
     IN /\ list' = IF Head(frames).status = "completed"
                     THEN [list EXCEPT ![n] = "ready"] ELSE Drop(n)
        /\ IF modal = t
             THEN /\ modal' = NoOne
                  /\ progress' = [progress EXCEPT ![t] = "none"]
             ELSE /\ Apply(t, Head(frames).status)
                  /\ UNCHANGED modal
        /\ excuse' =
             IF \/ Head(frames).truth # Truth[n]
                \/ list'[n] = "none" /\ n \in rows
                \/ list'[n] = "ready" /\ t \in disturbed
               THEN Excuse({n}) ELSE excuse
  /\ UNCHANGED <<vars, answers, fetch, dirty, cancel, removal, online, drops,
                 unheard>>

\* create() puts the placeholder, handleSubmit seeds the entry and shows it.
AnswerArrives(t) ==
  /\ t \in answers
  /\ answers' = answers \ {t}
  /\ list' = Upsert(task[t].name)
  /\ Apply(t, "cloning")
  /\ \E shown \in {t, modal} : modal' = shown
  /\ excuse' = IF task[t].st \in {"unmarking", "done"}
                 THEN Excuse({task[t].name}) ELSE excuse
  /\ unheard' = IF task[t].st \in {"unmarking", "done"}
                  THEN unheard \cup {t} ELSE unheard
  /\ UNCHANGED <<vars, frames, fetch, dirty, cancel, removal, online, drops>>

\* cancelClone drops the row whatever became of the clone meanwhile.
CancelAnswered(n) ==
  /\ cancel[n] = "answered"
  /\ cancel' = [cancel EXCEPT ![n] = "no"]
  /\ list' = Drop(n)
  /\ excuse' = IF list[n] = "cloning" THEN excuse ELSE Excuse({n})
  /\ UNCHANGED <<vars, progress, modal, frames, answers, fetch, dirty, removal,
                 online, drops, unheard>>

RemovalAnswered(n) ==
  /\ removal[n] = "answered"
  /\ removal' = [removal EXCEPT ![n] = "no"]
  /\ list' = Drop(n)
  /\ excuse' = IF Truth[n] = "none" THEN excuse ELSE Excuse({n})
  /\ UNCHANGED <<vars, progress, modal, frames, answers, fetch, dirty, cancel,
                 online, drops, unheard>>

\* The directory and the rows are read together, the clones after them.
FetchStart(f) ==
  /\ dirty /\ online /\ fetch[f].st = "no"
  /\ dirty' = FALSE
  /\ fetch' = [fetch EXCEPT ![f] = [NoFetch EXCEPT !.st = "read",
                                          !.dirs = Folders, !.own = rows]]
  /\ UNCHANGED <<vars, list, progress, modal, frames, answers, cancel, removal,
                 online, drops, unheard, excuse>>

FetchFlag(f) ==
  /\ fetch[f].st = "read"
  /\ fetch' = [fetch EXCEPT ![f].st = "flagged", ![f].flagged = CloningNames]
  /\ UNCHANGED <<vars, list, progress, modal, frames, answers, dirty, cancel,
                 removal, online, drops, unheard, excuse>>

\* The list is replaced whole, by whichever listing comes last.
FetchArrives(f) ==
  /\ fetch[f].st = "flagged"
  /\ list' = Listed(fetch[f].dirs, fetch[f].own, fetch[f].flagged)
  /\ excuse' = fetch[f].stale
  /\ fetch' = [fetch EXCEPT ![f] = NoFetch]
  /\ UNCHANGED <<vars, progress, modal, frames, answers, dirty, cancel, removal,
                 online, drops, unheard>>

\* Frames in flight and those sent meanwhile are lost; opening again refetches.
SocketDrops ==
  /\ online /\ drops < MaxDisconnects
  /\ online' = FALSE /\ drops' = drops + 1
  /\ frames' = <<>>
  /\ unheard' = unheard \cup {frames[i].id : i \in DOMAIN frames}
  /\ UNCHANGED <<vars, list, progress, modal, answers, fetch, dirty, cancel,
                 removal, excuse>>

SocketOpens ==
  /\ ~online
  /\ online' = TRUE
  /\ dirty' = TRUE
  /\ UNCHANGED <<vars, list, progress, modal, frames, answers, fetch, cancel,
                 removal, drops, unheard, excuse>>
-----------------------------------------------------------------------------
PInit ==
  /\ Init
  /\ list = Listed({}, rows, {})   \* the first listing, on mount
  /\ progress = [t \in Tasks |-> "none"]
  /\ modal = NoOne
  /\ frames = <<>>
  /\ answers = {}
  /\ fetch = [f \in Fetches |-> NoFetch]
  /\ dirty = FALSE
  /\ cancel = [n \in Names |-> "no"]
  /\ removal = [n \in Names |-> "no"]
  /\ online = TRUE /\ drops = 0
  /\ unheard = {}
  /\ excuse = {}

User ==
  \/ \E t \in Tasks : UserPosts(t) \/ \E n \in Names : UserReclones(t, n)
  \/ \E n \in Names : UserAdopts(n) \/ UserCancels(n) \/ UserRemoves(n)
  \/ UserCloses

Work ==
  \/ \E t \in Tasks : TaskMoves(t) \/ ProgressArrives(t) \/ AnswerArrives(t)
  \/ FrameArrives
  \/ \E n \in Names : \/ CancelArrives(n) \/ CancelAnswered(n)
                      \/ RemovalArrives(n) \/ RemovalMoves(n)
                      \/ RemovalAnswered(n)
  \/ \E f \in Fetches : FetchStart(f) \/ FetchFlag(f) \/ FetchArrives(f)
  \/ SocketOpens

PNext == User \/ Work \/ SocketDrops

PSpec == PInit /\ [][PNext]_pvars
-----------------------------------------------------------------------------
\* Nothing is under way any more.
Settled ==
  /\ online /\ ~dirty /\ frames = <<>> /\ answers = {}
  /\ \A t \in Tasks : ~Alive(t)
  /\ \A f \in Fetches : fetch[f].st = "no"
  /\ \A n \in Names : cancel[n] = "no" /\ removal[n] = "no"

\* The dialog goes on showing a clone that ended only if the end was told while
\* the 201 was on its way, or while the socket was down.
ModalEnds ==
  Settled /\ modal # NoOne => modal \in unheard

\* Once everything has arrived the sidebar shows the projects there are.
SettledListIsTrue ==
  Settled => \A n \in Names : list[n] = Truth[n] \/ n \in excuse
=============================================================================
