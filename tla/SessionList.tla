------------------------------- MODULE SessionList -------------------------------
(***************************************************************************)
(* The sidebar's list of sessions in one tab (lib/sessions-store, the      *)
(* effects of components/sidebar and the rows' actions) beside the rows of *)
(* the database (routes/sessions, ws/handlers).  The list is fetched as a  *)
(* whole: when the tab opens, when it gets the focus, and half a second    *)
(* after the last frame that tells of a change; broadcastEvent sends such  *)
(* a frame to the sockets attached to that session only.  Routes, drafts   *)
(* and the chats of the sessions are left out.                             *)
(***************************************************************************)
EXTENDS Naturals, Sequences

CONSTANTS
  Sids,
  MaxVersion,  \* bound: changes of what is listed of a row
  MaxFrames,   \* bound: frames under way to the tab
  MaxCalls,    \* bound: requests of the tab under way
  Overtakes    \* answers may arrive in another order than they were given

VARIABLES
  rows,        \* [Sids -> the version of the row, NoRow or Gone]
  list,        \* [Sids -> the version the sidebar shows, NoRow when it shows none]
  status,      \* of the store
  attached,    \* sessions whose wsSet holds the tab's socket
  frames,      \* sessions told of in frames to the tab, in order
  timer,       \* the debounce runs
  asked,       \* listings requested and not read yet
  answers,     \* answers under way to the tab, in the order they were given
  deleting,    \* sessions whose DELETE is not handled yet
  untold,      \* sessions written whose frame is not sent yet
  missed       \* history: sessions that changed since the last listing was read
               \* without a frame for this tab

listVars == <<rows, list, status, attached, frames, timer, asked, answers,
              deleting, untold, missed>>

NoRow == 0
Gone == MaxVersion + 1

Init ==
  /\ rows \in [Sids -> {NoRow, 1}]
  /\ list = [s \in Sids |-> NoRow]
  /\ status = "loading" /\ asked = 1          \* the initial load
  /\ attached = {} /\ frames = <<>> /\ timer = FALSE
  /\ answers = <<>>
  /\ deleting = {} /\ untold = {} /\ missed = {}

-----------------------------------------------------------------------------
(* The tab *)

CallIsFree == asked + Len(answers) < MaxCalls

Fetch == asked' = asked + 1 /\ status' = "loading"

Focus ==
  /\ CallIsFree
  /\ Fetch
  /\ UNCHANGED <<rows, list, attached, frames, timer, answers, deleting, untold, missed>>

\* A frame of a type that tells of a change starts the debounce again.
FrameArrives ==
  /\ frames # <<>>
  /\ frames' = Tail(frames)
  /\ timer' = TRUE
  /\ UNCHANGED <<rows, list, status, attached, asked, answers, deleting, untold, missed>>

TimerFires ==
  /\ timer /\ CallIsFree
  /\ timer' = FALSE
  /\ Fetch
  /\ UNCHANGED <<rows, list, attached, frames, answers, deleting, untold, missed>>

\* What an answer does to the list: fetch, remove, and the fetch after a project's
\* removal.
AnswerArrives(i) ==
  /\ i \in DOMAIN answers
  /\ i = 1 \/ Overtakes
  /\ answers' = [j \in 1..(Len(answers) - 1) |-> answers[IF j < i THEN j ELSE j + 1]]
  /\ LET a == answers[i] IN
     \/ a.kind = "list" /\ list' = a.rows /\ status' = "ready" /\ UNCHANGED asked
     \/ a.kind = "error" /\ status' = "error" /\ UNCHANGED <<list, asked>>
     \/ a.kind = "deleted" /\ list' = [list EXCEPT ![a.sid] = NoRow] /\ UNCHANGED <<status, asked>>
     \/ a.kind = "project" /\ Fetch /\ UNCHANGED list
  /\ UNCHANGED <<rows, attached, frames, timer, deleting, untold, missed>>

\* handleConfirmDelete; the dialog stays open until the answer.
Remove(s) ==
  /\ list[s] # NoRow /\ deleting = {}
  /\ \A i \in DOMAIN answers : answers[i].kind \notin {"deleted", "project"}
  /\ deleting' = {s}
  /\ UNCHANGED <<rows, list, status, attached, frames, timer, asked, answers, untold, missed>>

-----------------------------------------------------------------------------
(* The server *)

Exists(s) == rows[s] \notin {NoRow, Gone}
Listed == [s \in Sids |-> IF Exists(s) THEN rows[s] ELSE NoRow]

Answer(a) == answers' = Append(answers, a)

\* GET /api/sessions; a request that fails before or after the query is answered alike.
ListIsRead(fails) ==
  /\ asked > 0
  /\ asked' = asked - 1
  /\ IF fails THEN Answer([kind |-> "error"]) /\ UNCHANGED missed
     ELSE Answer([kind |-> "list", rows |-> Listed]) /\ missed' = {}
  /\ UNCHANGED <<rows, list, status, attached, frames, timer, deleting, untold>>

\* DELETE /api/sessions/:id, 404 when it is gone.  A lost answer shows as an error and
\* leaves the list alone.
DeleteHandled(s, lost) ==
  /\ s \in deleting /\ Len(answers) < MaxCalls
  /\ deleting' = deleting \ {s}
  /\ IF ~Exists(s) THEN UNCHANGED <<rows, answers, missed>>
     ELSE /\ rows' = [rows EXCEPT ![s] = Gone]
          /\ IF lost THEN missed' = missed \cup {s} /\ UNCHANGED answers
             ELSE Answer([kind |-> "deleted", sid |-> s]) /\ UNCHANGED missed
  /\ UNCHANGED <<list, status, attached, frames, timer, asked, untold>>

\* DELETE /api/projects/:name, which deletes the sessions of the project with it.
ProjectDeleted ==
  /\ deleting = {} /\ Len(answers) < MaxCalls
  /\ \E s \in Sids : Exists(s)
  /\ rows' = [s \in Sids |-> IF Exists(s) THEN Gone ELSE rows[s]]
  /\ Answer([kind |-> "project"])
  /\ UNCHANGED <<list, status, attached, frames, timer, asked, deleting, untold, missed>>

Tell(s) == frames' = Append(frames, s)

\* start_session from this tab: its socket is attached, session_created and the snapshot
\* follow.  From another tab the frame goes to that one only.
StartSession(s, here) ==
  /\ rows[s] = NoRow /\ Len(frames) < MaxFrames
  /\ rows' = [rows EXCEPT ![s] = 1]
  /\ IF here THEN attached' = attached \cup {s} /\ Tell(s) /\ UNCHANGED missed
     ELSE missed' = missed \cup {s} /\ UNCHANGED <<attached, frames>>
  /\ UNCHANGED <<list, status, timer, asked, answers, deleting, untold>>

\* A row is clicked: attachAndSnapshot.
Resume(s) ==
  /\ list[s] # NoRow /\ Exists(s) /\ s \notin attached
  /\ Len(frames) < MaxFrames
  /\ attached' = attached \cup {s}
  /\ Tell(s)
  /\ UNCHANGED <<rows, list, status, timer, asked, answers, deleting, untold, missed>>

\* A turn's usage, a title, a model or a provider is written, and told of afterwards.
RowIsWritten(s) ==
  /\ Exists(s) /\ rows[s] < MaxVersion
  /\ rows' = [rows EXCEPT ![s] = @ + 1]
  /\ untold' = untold \cup {s}
  /\ UNCHANGED <<list, status, attached, frames, timer, asked, answers, deleting, missed>>

\* broadcastEvent; a send that is refused after its model was written does not get here.
Broadcast(s, refused) ==
  /\ s \in untold /\ Len(frames) < MaxFrames
  /\ untold' = untold \ {s}
  /\ IF s \in attached /\ ~refused THEN Tell(s) /\ UNCHANGED missed
     ELSE missed' = missed \cup {s} /\ UNCHANGED frames
  /\ UNCHANGED <<rows, list, status, attached, timer, asked, answers, deleting>>

\* The socket closes with what was under way to it, and the new one is attached nowhere.
\* The subscriber fetches the projects again, not the sessions.
SocketDrops ==
  /\ attached # {}
  /\ attached' = {}
  /\ frames' = <<>>
  /\ missed' = missed \cup {frames[i] : i \in DOMAIN frames}
  /\ UNCHANGED <<rows, list, status, timer, asked, answers, deleting, untold>>

\* Another tab deletes the session: nobody is told.
DeletedElsewhere(s) ==
  /\ Exists(s)
  /\ rows' = [rows EXCEPT ![s] = Gone]
  /\ missed' = missed \cup {s}
  /\ UNCHANGED <<list, status, attached, frames, timer, asked, answers, deleting, untold>>

Next ==
  \/ Focus
  \/ FrameArrives
  \/ TimerFires
  \/ \E i \in 1..MaxCalls : AnswerArrives(i)
  \/ \E s \in Sids : Remove(s)
  \/ \E b \in BOOLEAN : ListIsRead(b)
  \/ \E s \in Sids, b \in BOOLEAN : DeleteHandled(s, b)
  \/ ProjectDeleted
  \/ \E s \in Sids, b \in BOOLEAN : StartSession(s, b)
  \/ \E s \in Sids : Resume(s)
  \/ \E s \in Sids : RowIsWritten(s)
  \/ \E s \in Sids, b \in BOOLEAN : Broadcast(s, b)
  \/ SocketDrops
  \/ \E s \in Sids : DeletedElsewhere(s)

Spec == Init /\ [][Next]_listVars

-----------------------------------------------------------------------------
Settled ==
  /\ frames = <<>> /\ ~timer
  /\ asked = 0 /\ answers = <<>>
  /\ deleting = {} /\ untold = {}

\* sidebar.tsx "debounced sessions + projects refresh on session-mutating events": once
\* no frame, timer or request is under way and the last fetch went well, the sidebar shows
\* of each session what the database has, but for changes this tab was not told of.
SessionsAreTrue ==
  Settled /\ status = "ready" => \A s \in Sids \ missed : list[s] = Listed[s]

-----------------------------------------------------------------------------
(* What is always so, and keeps itself so, as long as no answer overtakes another. *)

Views == [Sids -> NoRow..Gone]
AnyAnswer == [kind : {"list"}, rows : Views] \cup [kind : {"error", "project"}]
             \cup [kind : {"deleted"}, sid : Sids]

Shapes ==
  /\ rows \in Views /\ list \in Views
  /\ status \in {"loading", "ready", "error"}
  /\ attached \subseteq Sids /\ untold \subseteq Sids /\ missed \subseteq Sids
  /\ frames \in Seq(Sids) /\ timer \in BOOLEAN
  /\ asked \in Nat /\ answers \in Seq(AnyAnswer)

\* The last of the answers that is in Some is in Good, or what is there is, if none is.
EndsIn(Some, Good, here) ==
  IF \E i \in DOMAIN answers : answers[i] \in Some
  THEN \E i \in DOMAIN answers :
         /\ answers[i] \in Some \cap Good
         /\ \A j \in DOMAIN answers : j > i => answers[j] \notin Some
  ELSE here

\* Answers that end a fetch, and those of them that succeed.
Ends == {a \in AnyAnswer : a.kind \in {"list", "error"}}
Succeeds == {a \in AnyAnswer : a.kind = "list"}

\* Answers that change what is listed of a session, and those that show what there is.
Touches(s) == {a \in AnyAnswer : a.kind = "list" \/ (a.kind = "deleted" /\ a.sid = s)}
Shows(s, v) ==
  {a \in AnyAnswer : (a.kind = "list" /\ a.rows[s] = v) \/ (a.kind = "deleted" /\ v = NoRow)}

\* A fetch is made, or will be: something tells of the session, the timer runs, or a
\* project was deleted.
Refreshes(s) ==
  \/ asked > 0 \/ timer \/ s \in untold
  \/ \E i \in DOMAIN frames : frames[i] = s
  \/ \E i \in DOMAIN answers : answers[i].kind = "project"

\* When all answers are in, each session shows what there is, unless the last fetch failed
\* or another is still to come.
EachComes ==
  \A s \in Sids \ missed :
    \/ Refreshes(s)
    \/ EndsIn(Ends, AnyAnswer \ Succeeds, status # "ready")
    \/ EndsIn(Touches(s), Shows(s, Listed[s]), list[s] = Listed[s])

InductiveInv == Shapes /\ EachComes

=============================================================================
