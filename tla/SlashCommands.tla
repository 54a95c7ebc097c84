------------------------------ MODULE SlashCommands ------------------------------
(***************************************************************************)
(* Slash commands.  A query reports the commands and skills of its folder  *)
(* (system/init); the server keeps them for the folder and for the session *)
(* (agent/commands-catalog), tells the tabs attached to the session, and   *)
(* sends those of the folder with each snapshot (services/snapshot).  The  *)
(* composer offers them in a picker and refuses what it does not know; the *)
(* server refuses it again before a turn (shared/commands, agent/commands).*)
(* All sessions are in one folder.  A draft, whose first message is not    *)
(* refused by the server, offers the built-in commands only and is left    *)
(* out.                                                                    *)
(***************************************************************************)
EXTENDS Naturals, Sequences, FiniteSets

CONSTANTS
  Sessions,
  Builtin,     \* STATIC_PASSTHROUGH
  Blacklist,   \* the command line's own, which a query reports too
  Dynamic,     \* project commands and skills
  Typos,       \* names of nothing
  None,
  MaxMoves,    \* bound: messages, reports, switches, drops and restarts
  MaxTasks     \* bound: refreshes, snapshots, frames and messages under way, each

VARIABLES
  catalog,     \* catalogByWorkDir: the names for the folder, or None
  commands,    \* [Sessions -> active.commands: names, or None]
  refreshes,   \* refreshCatalog, awaiting supportedCommands
  attached,    \* sessions the tab's socket is attached to
  building,    \* snapshots being built for it
  frames,      \* on their way to the tab
  offered,     \* [Sessions -> commandsBySession]
  shown,       \* the session on the screen
  texts,       \* [Sessions -> the draft of its composer]
  posts,       \* messages on their way to the server
  ran,         \* history: commands that went on to the model
  swallowed,   \* history: those the tab let through and the server did not
  latest,      \* history: the session that reported last since the server started
  moves

slashVars == <<catalog, commands, refreshes, attached, building, frames, offered, shown,
               texts, posts, ran, swallowed, latest, moves>>

Names == Builtin \cup Blacklist \cup Dynamic \cup Typos
Known(c) == IF c = None THEN {} ELSE c

\* classifyCommand: dynamic is None as long as nothing was reported.
Passes(n, dynamic) ==
  /\ n \notin Blacklist
  /\ n \in Builtin \/ dynamic = None \/ n \in Known(dynamic)

Init ==
  /\ catalog = None /\ commands = [s \in Sessions |-> None]
  /\ refreshes = {} /\ attached = {} /\ building = {} /\ frames = <<>>
  /\ offered = [s \in Sessions |-> {}]
  /\ shown \in Sessions
  /\ texts = [s \in Sessions |-> None]
  /\ posts = <<>> /\ ran = {} /\ swallowed = {} /\ latest = None /\ moves = 0

Move == moves < MaxMoves /\ moves' = moves + 1

server == <<catalog, commands, refreshes, building, latest>>
history == <<ran, swallowed>>
tab == <<offered, shown, texts>>

-----------------------------------------------------------------------------
(* The server *)

\* buildCatalog: what is built in or blacklisted is not the query's to offer.
Built(names) == names \ (Builtin \cup Blacklist)

\* system/init; the names of the query's own commands come with it.
Reports(s, names) ==
  /\ Move /\ Cardinality(refreshes) < MaxTasks
  /\ refreshes' = refreshes \cup {[of |-> s, names |-> names, n |-> moves]}
  /\ UNCHANGED <<catalog, commands, attached, building, frames, tab, posts, history, latest>>

\* refreshCatalog after its await; reports that follow each other may be done in any order.
Refreshed(r) ==
  /\ r \in refreshes /\ Len(frames) < MaxTasks
  /\ refreshes' = refreshes \ {r}
  /\ catalog' = Built(r.names)
  /\ commands' = [commands EXCEPT ![r.of] = Built(r.names)]
  /\ frames' = IF r.of \in attached THEN Append(frames, [of |-> r.of, names |-> Built(r.names)])
               ELSE frames
  /\ latest' = r.of
  /\ UNCHANGED <<attached, building, tab, posts, history, moves>>

\* resume_session: the socket is attached, then the rows are read.
Resume(s) ==
  /\ s = shown /\ s \notin attached
  /\ attached' = attached \cup {s}
  /\ building' = building \cup {[of |-> s, names |-> Known(catalog)]}
  /\ UNCHANGED <<catalog, commands, refreshes, frames, tab, posts, history, latest, moves>>

\* A snapshot that has the catalog of when its building began.
BuiltSnapshotEarly(b) ==
  /\ b \in building /\ Len(frames) < MaxTasks
  /\ building' = building \ {b}
  /\ frames' = Append(frames, b)
  /\ UNCHANGED <<catalog, commands, refreshes, attached, tab, posts, history, latest, moves>>

\* buildSnapshot reads the catalog last.
BuiltSnapshot(b) ==
  /\ b \in building /\ Len(frames) < MaxTasks
  /\ building' = building \ {b}
  /\ frames' = Append(frames, [b EXCEPT !.names = Known(catalog)])
  /\ UNCHANGED <<catalog, commands, refreshes, attached, tab, posts, history, latest, moves>>

\* tryHandleSlashCommand: what it swallows has no turn and no answer.
HandleSendMessage ==
  /\ posts # <<>>
  /\ LET p == Head(posts) IN
     IF Passes(p.name, commands[p.of]) THEN ran' = ran \cup {p.name} /\ UNCHANGED swallowed
     ELSE swallowed' = swallowed \cup {p.name} /\ UNCHANGED ran
  /\ posts' = Tail(posts)
  /\ UNCHANGED <<server, attached, frames, tab, moves>>

-----------------------------------------------------------------------------
(* The tab *)

\* ws-subscriber: a snapshot or commands_available.
FrameArrives ==
  /\ frames # <<>>
  /\ offered' = [offered EXCEPT ![Head(frames).of] = Head(frames).names]
  /\ frames' = Tail(frames)
  /\ UNCHANGED <<server, attached, shown, texts, posts, history, moves>>

Show(s) ==
  /\ s # shown /\ Move
  /\ shown' = s
  /\ UNCHANGED <<server, attached, frames, offered, texts, posts, history>>

\* mergedCatalog, and what of it the picker shows for a text: after "/" all of it, after
\* a name that name; a space closes it.
Merged(s) == offered[s] \cup Builtin
PickerItems ==
  LET t == texts[shown] IN
  IF t = None THEN {} ELSE IF t.open THEN {n \in Merged(shown) : t.name \in {None, n}} ELSE {}

Typed(open, n) == texts' = [texts EXCEPT ![shown] = [open |-> open, name |-> n]]

Type(open, n) ==
  /\ n = None => open
  /\ Move
  /\ Typed(open, n)
  /\ UNCHANGED <<server, attached, frames, offered, shown, posts, history>>

\* Enter, Tab or a click on an item.
SelectCommand(n) ==
  /\ n \in PickerItems
  /\ Typed(FALSE, n)
  /\ UNCHANGED <<server, attached, frames, offered, shown, posts, history, moves>>

\* The button, or Enter when nothing is picked.  Nothing of a session's is None here: as
\* the built-in commands are merged in, a session that reported nothing knows those.  The
\* socket drops what is sent while it is down.
Sends(n) ==
  /\ texts[shown] # None /\ texts[shown].name = n
  /\ texts' = [texts EXCEPT ![shown] = None]
  /\ \/ Len(posts) < MaxTasks /\ posts' = Append(posts, [of |-> shown, name |-> n])
     \/ shown \notin attached /\ UNCHANGED posts
  /\ UNCHANGED <<server, attached, frames, offered, shown, history, moves>>

\* A session of which nothing is known yet lets everything through.
SendUnlessKnown(n) ==
  /\ Passes(n, IF offered[shown] = {} THEN None ELSE Merged(shown))
  /\ Sends(n)

SendMessage(n) == Passes(n, Merged(shown)) /\ Sends(n)

-----------------------------------------------------------------------------
(* Failures *)

Disconnected == attached' = {} /\ building' = {} /\ frames' = <<>>

SocketDrops ==
  /\ attached # {} /\ Move
  /\ Disconnected
  /\ posts' \in {posts, <<>>}
  /\ UNCHANGED <<catalog, commands, refreshes, tab, history, latest>>

\* The server keeps neither catalog; the tab keeps its own.
ServerRestarts ==
  /\ Move
  /\ Disconnected
  /\ catalog' = None /\ commands' = [s \in Sessions |-> None] /\ refreshes' = {}
  /\ posts' = <<>> /\ latest' = None
  /\ UNCHANGED <<tab, history>>

Next ==
  \/ \E s \in Sessions, D \in SUBSET Dynamic : Reports(s, D \cup Builtin \cup Blacklist)
  \/ \E r \in refreshes : Refreshed(r)
  \/ \E s \in Sessions : Resume(s)
  \/ \E b \in building : BuiltSnapshot(b)
  \/ HandleSendMessage
  \/ FrameArrives
  \/ \E s \in Sessions : Show(s)
  \/ \E open \in BOOLEAN, n \in Names \cup {None} : Type(open, n)
  \/ \E n \in Names : SelectCommand(n)
  \/ \E n \in Names : SendMessage(n)
  \/ SocketDrops
  \/ ServerRestarts

Spec == Init /\ [][Next]_slashVars

-----------------------------------------------------------------------------
\* commands-catalog.ts, snapshot.ts: once all frames are in, an attached tab offers what
\* its session reported last, if no other session of the folder reported since: neither
\* a snapshot that was being built meanwhile nor a reconnection loses the report.
OfferedIsReported ==
  \A s \in attached :
    latest = s /\ frames = <<>> /\ (\A b \in building : b.of # s) => offered[s] = catalog

\* commands.ts: no name of nothing and none of the command line's own goes on to the
\* model, not even before the first report.
RanIsSupported == ran \subseteq Builtin \cup Dynamic

SlashIsTrue == OfferedIsReported /\ RanIsSupported

\* What the tab lets through is run.  Not so: the session may have reported other names
\* than the folder, or than the tab heard of, and the server drops the message in silence.
PassedIsRun == swallowed = {}

-----------------------------------------------------------------------------
(* What is always so, and keeps itself so. *)

AnyFrame == [of : Sessions, names : SUBSET Dynamic]

Shapes ==
  /\ catalog \in (SUBSET Dynamic) \cup {None}
  /\ commands \in [Sessions -> (SUBSET Dynamic) \cup {None}]
  /\ \A r \in refreshes : r.of \in Sessions /\ Built(r.names) \subseteq Dynamic
  /\ attached \subseteq Sessions /\ building \subseteq AnyFrame
  /\ frames \in Seq(AnyFrame)
  /\ offered \in [Sessions -> SUBSET Dynamic]
  /\ shown \in Sessions
  /\ latest = None \/ (latest \in Sessions /\ catalog # None)

\* What a tab lets through is supported, whatever the server knows when it comes.
PostsAreSupported == posts \in Seq([of : Sessions, name : Builtin \cup Dynamic])

\* The last of the frames for a session, or its offer if none is on its way, is the
\* catalog, as long as no other session reported and no snapshot is being built.
LastIs(s, names) ==
  IF \E i \in DOMAIN frames : frames[i].of = s
  THEN \E i \in DOMAIN frames :
         /\ frames[i].of = s /\ frames[i].names = names
         /\ \A j \in DOMAIN frames : j > i => frames[j].of # s
  ELSE offered[s] = names

LastIsReported ==
  \A s \in attached : latest = s /\ (\A b \in building : b.of # s) => LastIs(s, catalog)

InductiveInv == Shapes /\ PostsAreSupported /\ RanIsSupported /\ LastIsReported

=============================================================================
