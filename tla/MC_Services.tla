------------------------------ MODULE MC_Services ------------------------------
\* Parts of the system that share no state, each in behaviours of its own: the
\* initial state says which part a behaviour is of, and v1, v2, ... stand for the
\* variables of that part.
EXTENDS TLC, FiniteSets

CONSTANTS
  Paths, Commits, MaxMeddle, Renames,            \* GitCommit
  MaxLines, Tasks, MaxLosses, Interleaves,       \* TranscriptStore
  SignUps, MaxTime,                              \* FirstAdmin
  Files, Saves, MaxVersion, MaxMoves,            \* FileEditor
  Provs, Forms, Toks, Urls, MaxChanges,          \* Providers
  Testers, Slots, MinInterval, SweepThreshold, MaxClock,   \* TestLimiter
  Calls, Agents, Asks, MaxBlocks,                \* Timeline
  Chats, Prompts, Options, NumQuestions, Multi, MaxTimers,   \* PromptDock
  Projects, Repos, Creds, MaxSwitches,           \* GitPanel
  CatalogPairs, Sessions, MaxEdits, MaxPuts,     \* Composer
  Passthrough, Blacklist, Dynamic, Typos, MaxActs, MaxTasks,   \* SlashCommands
  Sids, MaxRevision, MaxFrames,                  \* SessionList
  Emails, Admins, EnvDefault,                    \* AccessControl
  Models, MaxSaves,                              \* ProviderList
  Subs, MaxReads, MaxWalks,                      \* FileBrowser
  MaxRows, MaxOpens,                             \* GitCredentials
  Reqs, Writes,                                  \* Uploads
  None, MaxCalls, MaxFaults

VARIABLES
  part,
  v1, v2, v3, v4, v5, v6, v7, v8, v9, v10, v11, v12, v13, v14   \* those of the part, 0 beyond

GC == INSTANCE GitCommit WITH
  wt <- v1, ix <- v2, hd <- v3, job <- v4, meddled <- v5, born <- v6,
  faults <- v7
TS == INSTANCE TranscriptStore WITH
  MaxFaults <- MaxLosses, local <- v1, rows <- v2, sent <- v3, agents <- v4,
  up <- v5, deleted <- v6, written <- v7, msg <- v8, idx <- v9, faults <- v10
FA == INSTANCE FirstAdmin WITH
  sign <- v1, elected <- v2, role <- v3, demote <- v4, lock <- v5, born <- v6
FE == INSTANCE FileEditor WITH
  disk <- v1, openFile <- v2, pending <- v3, dirty <- v4, ed <- v5,
  write <- v6, page <- v7, kept <- v8, version <- v9, moves <- v10,
  faults <- v11
PV == INSTANCE Providers WITH
  row <- v1, form <- v2, start <- v3, recent <- v4, admin <- v5, tested <- v6,
  mixed <- v7, steady <- v8, seen <- v9, roles <- v10, changes <- v11
TL == INSTANCE TestLimiter WITH
  NoEntry <- None, entries <- v1, tests <- v2, clock <- v3,
  lastTest <- v4
TI == INSTANCE Timeline WITH
  NoCall <- None, blocks <- v1
PD == INSTANCE PromptDock WITH
  NoPrompt <- None, Count <- NumQuestions, chatOf <- v1, askers <- v2,
  prompts <- v3, shown <- v4, card <- v5, parked <- v6, frames <- v7, outcome <- v8, picks <- v9
GP == INSTANCE GitPanel WITH
  NoProject <- None, NoCred <- None,
  panel <- v1, calls <- v2, meta <- v3, creds <- v4, astray <- v5
CO == INSTANCE Composer WITH
  Catalog <- CatalogPairs, Unset <- None, NewChat <- None, Chats <- Sessions,
  settings <- v1, defaults <- v2, loading <- v3, pending <- v4, puts <- v5,
  offered <- v6, ready <- v7, key <- v8, selected <- v9, draft <- v10,
  pinned <- v11, sent <- v12, edits <- v13, torn <- v14
SL == INSTANCE SessionList WITH
  MaxVersion <- MaxRevision, Overtakes <- FALSE, rows <- v1,
  list <- v2, status <- v3, attached <- v4, frames <- v5, timer <- v6,
  asked <- v7, answers <- v8, deleting <- v9, untold <- v10, missed <- v11
AC == INSTANCE AccessControl WITH
  MaxLosses <- MaxFaults, Overtakes <- FALSE, override <- v1, listed <- v2,
  panel <- v3, saving <- v4, requests <- v5, answers <- v6, retries <- v7, unsure <- v8, check <- v9, just <- v10,
  losses <- v11
PL == INSTANCE ProviderList WITH
  MaxLosses <- MaxFaults, Overlaps <- FALSE, builtin <- v1, rows <- v2,
  list <- v3, loading <- v4, editing <- v5, form <- v6, saving <- v7,
  requests <- v8, answers <- v9, unsure <- v10, saves <- v11, losses <- v12

FB == INSTANCE FileBrowser WITH
  MaxCalls <- MaxReads, MaxMoves <- MaxWalks, Overlaps <- FALSE, project <- v1, current <- v2,
  state <- v3, calls <- v4, version <- v5, asked <- v6, moves <- v7
UP == INSTANCE Uploads WITH
  link <- v1, made <- v2, bytes <- v3, at <- v4, open <- v5, outcome <- v6,
  orphan <- v7, faults <- v8
CR == INSTANCE GitCredentials WITH
  MaxLosses <- MaxFaults, Overlaps <- FALSE,
  page <- v1, status <- v2, list <- v3, dialog <- v4, picked <- v5, rows <- v6,
  made <- v7, calls <- v8, unsure <- v9, opens <- v10, losses <- v11
SC == INSTANCE SlashCommands WITH
  Sessions <- Chats, Builtin <- Passthrough, MaxMoves <- MaxActs, catalog <- v1, commands <- v2,
  refreshes <- v3, attached <- v4, building <- v5, frames <- v6, offered <- v7,
  shown <- v8, texts <- v9, posts <- v10, ran <- v11,
  swallowed <- v12, latest <- v13, moves <- v14

vars == <<part, v1, v2, v3, v4, v5, v6, v7, v8, v9, v10, v11, v12, v13, v14>>

\* The variables a part of fewer leaves unused.
from13 == <<v13, v14>>
from12 == <<v12, from13>>
from11 == <<v11, from12>>
from10 == <<v10, from11>>
from9 == <<v9, from10>>
from8 == <<v8, from9>>
from7 == <<v7, from8>>
from6 == <<v6, from7>>
from5 == <<v5, from6>>
from2 == <<v2, v3, v4, from5>>

None13 == v13 = 0 /\ v14 = 0
None12 == v12 = 0 /\ None13
None11 == v11 = 0 /\ None12
None10 == v10 = 0 /\ None11
None9 == v9 = 0 /\ None10
None8 == v8 = 0 /\ None9
None7 == v7 = 0 /\ None8
None6 == v6 = 0 /\ None7
None5 == v5 = 0 /\ None6
None2 == v2 = 0 /\ v3 = 0 /\ v4 = 0 /\ None5

AnyOf(S) == CHOOSE x \in S : TRUE

Init ==
  \/ part = "git" /\ GC!Init /\ None8
  \/ part = "store" /\ TS!Init /\ None11
  \/ part = "users" /\ FA!Init /\ None7
  \/ part = "files" /\ FE!Init /\ None12
  \/ part = "limit" /\ TL!Init /\ None5
  \/ part = "rail" /\ TI!Init /\ None2
  \/ part = "dock" /\ PD!Init /\ None10
     /\ v1[AnyOf(Prompts)] = AnyOf(Chats)   \* chatOf: the chats are interchangeable
  \/ part = "panel" /\ GP!Init /\ None6
  \/ part = "comp" /\ CO!Init
  \/ part = "list" /\ SL!Init /\ None12
  \/ part = "gate" /\ AC!Init /\ None12
  \/ part = "models" /\ PL!Init /\ None13
     /\ \A p \in Provs : v2[p].is <=> p = AnyOf(Provs)   \* rows: the other may be added
  \/ part = "browse" /\ FB!Init /\ None8
  \/ part = "upload" /\ UP!Init /\ None9
  \/ part = "creds" /\ CR!Init /\ None12
  \/ part = "slash" /\ SC!Init
  \/ /\ part \in {"forms", "starts"}
     /\ PV!Init /\ None12
     /\ part = "forms" => /\ v5 /\ v4 = None /\ Cardinality(PV!Rows) = 1   \* admin, recent, row
                          /\ \A p \in PV!Rows : v1[p].own = "me"

InGit == part = "git" /\ UNCHANGED <<part, from8>>
InStore == part = "store" /\ UNCHANGED <<part, from11>>
InUsers == part = "users" /\ UNCHANGED <<part, from7>>
InFiles == part = "files" /\ UNCHANGED <<part, from12>>
InLimit == part = "limit" /\ UNCHANGED <<part, from5>>
InRail == part = "rail" /\ UNCHANGED <<part, from2>>
InDock == part = "dock" /\ UNCHANGED <<part, from10>>
InPanel == part = "panel" /\ UNCHANGED <<part, from6>>
InComp == part = "comp" /\ UNCHANGED part
InList == part = "list" /\ UNCHANGED <<part, from12>>
InGate == part = "gate" /\ UNCHANGED <<part, from12>>
InModels == part = "models" /\ UNCHANGED <<part, from13>>
InBrowse == part = "browse" /\ UNCHANGED <<part, from8>>
InUpload == part = "upload" /\ UNCHANGED <<part, from9>>
InCreds == part = "creds" /\ UNCHANGED <<part, from12>>
InSlash == part = "slash" /\ UNCHANGED part
InForms == part = "forms" /\ UNCHANGED <<part, from12>>
InStarts == part = "starts" /\ UNCHANGED <<part, from12>>

Requests ==   \* calls, requests, refreshes and building
  CASE part = "panel" -> v2 [] part = "gate" -> v5 [] part \in {"models", "creds"} -> v8
    [] part = "browse" -> v4 [] part = "slash" -> v3 \cup v5 [] OTHER -> {}
Puts == IF part = "comp" THEN v5 ELSE {}       \* puts

Next ==
  \/ InGit /\
       \/ \E c \in Commits : GC!Begin(c) \/ GC!Protect(c) \/ GC!AddSelected(c)
         \/ GC!Commit(c) \/ GC!Restore(c)
       \/ GC!Edit \/ GC!StageFiles \/ GC!UnstageFiles \/ GC!OtherCommit
  \/ InStore /\
       \/ TS!WritePrompt \/ TS!WriteTitle \/ TS!WriteBlock \/ TS!WriteResult
       \/ TS!AppendBatch \/ TS!AppendAgent \/ TS!ProcessEnds \/ TS!Resume
       \/ TS!DeleteEntries
  \/ InUsers /\
       \/ \E u \in SignUps : FA!Count(u) \/ FA!Insert(u) \/ FA!MakeDirectory(u)
         \/ FA!RepairReads(u) \/ FA!RepairDemotes(u)
       \/ FA!Crash
  \/ InFiles /\
       \/ \E f \in Files : FE!Open(f)
       \/ FE!Close \/ FE!ConfirmPending \/ FE!CancelPending \/ FE!ReadFile
       \/ FE!ReadArrives \/ FE!Type \/ FE!AgentWrites
       \/ \E s \in Saves : FE!Save(s) \/ FE!Write(s) \/ FE!Saved(s)
       \/ \E p \in FE!Pages : FE!Navigate(p)
  \/ InStarts /\
       \/ \E p \in Provs : PV!Create(p) \/ PV!ToggleVisibility(p)
       \/ PV!StartSession \/ PV!ResolveRow \/ PV!ResolveRole \/ PV!Recent
       \/ PV!Personal \/ PV!PersonalModels \/ PV!UserRole \/ PV!Builtin
       \/ PV!BuiltinModels \/ PV!Insert \/ PV!ChangeRole
  \/ (InStarts \/ InForms) /\ \E p \in Provs : PV!Delete(p)
  \/ InForms /\
       \/ \E f \in Forms : PV!OpenForm(f) \/ PV!CancelEdit(f) \/ PV!PatchForm(f)
         \/ PV!TestForm(f) \/ PV!TestAnswers(f) \/ PV!Save(f) \/ PV!PatchTests(f)
         \/ PV!PatchWrites(f)
  \/ InLimit /\
       \/ \E u \in Testers, k \in Slots : TL!WithTestLimit(u, k)
       \/ \E u \in Testers : TL!Limited(u)
       \/ \E k \in Slots : TL!Released(k)
       \/ TL!Tick
  \/ InRail /\
       \/ TI!Says
       \/ \E c \in Calls : TI!ToolCall(c) \/ TI!ApprovalResponse(c)
         \/ TI!ToolResult(c)
       \/ \E c \in Agents : TI!SubagentEvent(c)
       \/ \E c \in Calls \ (Agents \cup Asks) : TI!ApprovalRequest(c)
       \/ \E c \in Asks : TI!QuestionRequest(c)
  \/ InDock /\
       \/ \E r \in Prompts : PD!Ask(r) \/ PD!Settled(r)
       \/ \E s \in Chats : PD!Show(s)
       \/ \E o \in Options : PD!SelectOption(o) \/ PD!Resolve(o)
       \/ PD!Advances \/ PD!Submit \/ PD!Handle
       \/ \E i \in PD!Questions : PD!GoTo(i)
  \/ InPanel /\
       \/ GP!Switch \/ GP!Refresh \/ GP!Pull \/ GP!Checkout \/ GP!Retry
       \/ GP!DismissAuth \/ GP!OpenDialog \/ GP!CommitFiles
       \/ \E c \in Requests : GP!StatusArrives(c) \/ GP!LogArrives(c)
         \/ GP!ReadFails(c) \/ GP!MetadataIsRead(c) \/ GP!MetadataArrives(c)
         \/ GP!LinkIsChecked(c) \/ GP!LinkUpdates(c) \/ GP!LinkInserts(c)
         \/ GP!LinkSucceeds(c) \/ GP!LinkFails(c) \/ GP!CommandRuns(c)
         \/ GP!AuthIsRequired(c) \/ GP!CommandAnswers(c) \/ GP!Committed(c)
       \/ \E d \in Creds \cup {None} : GP!LinkCredential(d)
       \/ \E d \in Creds : GP!DeleteCredential(d)
  \/ InComp /\
       \/ CO!Load \/ CO!DefaultsAreRead \/ CO!DefaultsArrive \/ CO!Flush
       \/ CO!CatalogLoads \/ CO!CatalogArrives \/ CO!ResetModel \/ CO!SendMessage
       \/ \E c \in Puts : CO!PutWrites(c) \/ CO!PutEnds(c) \/ CO!Retry(c)
       \/ \E k \in Sessions \cup {None} : CO!SwitchTo(k)
       \/ \E x \in CatalogPairs : CO!SelectModel(x) \/ CO!SetDefault(x)
  \/ InList /\
       \/ SL!Focus \/ SL!FrameArrives \/ SL!TimerFires \/ SL!AnswerArrives(1)
       \/ SL!ProjectDeleted \/ SL!SocketDrops
       \/ \E s \in Sids : SL!Remove(s) \/ SL!Resume(s) \/ SL!RowIsWritten(s)
         \/ SL!DeletedElsewhere(s)
       \/ \E b \in BOOLEAN : SL!ListIsRead(b)
       \/ \E s \in Sids, b \in BOOLEAN : SL!DeleteHandled(s, b)
         \/ SL!StartSession(s, b) \/ SL!Broadcast(s, b)
  \/ InGate /\
       \/ \E u \in Emails : AC!Reach(u)
            /\ \A w \in Emails \ {u} : v9[w] = "idle"   \* check: two users share nothing
       \/ \E u \in Emails : AC!ReadControl(u) \/ AC!ReadAllowlist(u)
       \/ \E c \in AC!Choices : AC!ChangeOverride(c) \/ AC!Retry(c)
       \/ \E k \in {"add", "remove"}, e \in Emails : AC!Change(k, e)
       \/ \E r \in Requests : AC!Handle(r)
       \/ \E r \in Requests, b \in BOOLEAN : AC!HandleFails(r, b)
       \/ AC!AnswerArrives(1)
  \/ InModels /\
       \/ \E m \in Models : PL!ToggleSelected(m) \/ PL!ToggleDefault(m)
       \/ PL!SetVisibility \/ PL!Cancel \/ PL!Save \/ PL!AnswerArrives
       \/ \E e \in Provs \cup {"new"} : PL!Open(e)
       \/ \E p \in Provs : PL!Remove(p) \/ PL!ToggleVisibility(p)
       \/ \E r \in Requests : PL!Handle(r)
       \/ \E r \in Requests, b \in BOOLEAN : PL!HandleFails(r, b)
  \/ InBrowse /\
       \/ \E p \in Projects : FB!SwitchProject(p)
       \/ \E d \in Subs : FB!EnterDir(d)
       \/ FB!GoUp \/ FB!Refresh
       \/ \E c \in Requests : FB!Arrives(c) \/ FB!List(c) \/ FB!ListFails(c)
       \/ \E f \in FB!Folders : FB!Change(f)
  \/ InUpload /\
       \/ \E r \in Reqs : UP!Begin(r) \/ UP!Open(r) \/ UP!MkdirFails(r)
         \/ UP!Write(r) \/ UP!EndOfPart(r) \/ UP!PartFails(r) \/ UP!Refuse(r)
         \/ UP!Accept(r)
       \/ \E r \in Reqs \ Writes : UP!BodyIsCut(r)
       \/ UP!AgentRemoves
  \/ InCreds /\
       \/ CR!OpenPanel \/ CR!Leave \/ CR!OpenModal \/ CR!Cancel \/ CR!Submit
       \/ \E i \in CR!Ids : CR!Pick(i)
       \/ \E k \in {0} \cup CR!Ids : CR!Open(k)
       \/ \E f \in {"label", "token"} : CR!Type(f)
       \/ \E k \in CR!Ids : CR!Remove(k)
       \/ \E c \in Requests : CR!Handle(c) \/ CR!UpdateReads(c)
         \/ CR!UpdateWrites(c) \/ CR!CallFails(c) \/ CR!Arrives(c)
  \/ InSlash /\
       \/ \E s \in Chats, D \in SUBSET Dynamic :
         SC!Reports(s, D \cup Passthrough \cup Blacklist)
       \/ \E r \in Requests : SC!Refreshed(r)
       \/ \E s \in Chats : SC!Resume(s) \/ SC!Show(s)
       \/ \E b \in Requests : SC!BuiltSnapshot(b)
       \/ SC!HandleSendMessage \/ SC!FrameArrives \/ SC!SocketDrops
       \/ SC!ServerRestarts
       \/ \E open \in BOOLEAN, n \in SC!Names \cup {None} : SC!Type(open, n)
       \/ \E n \in SC!Names : SC!SelectCommand(n) \/ SC!SendMessage(n)

Spec == Init /\ [][Next]_vars

\* The catalog: two providers of a model each.
TwoPairs == {[p |-> "p1", m |-> "m1"], [p |-> "p2", m |-> "m2"]}

Alike == Permutations(Forms) \cup Permutations(Sids)

-----------------------------------------------------------------------------
\* commands.ts commitFiles: a commit is of what was selected and no more, and one that
\* fails restores what it had unstaged.
CommitSparesOthers == [][part = "git" => GC!OfSelection /\ GC!KeepsStaged]_vars

\* session-store.ts, transcript-render.ts: the mirror has no gap, no repetition and no
\* other order, and a snapshot of it shows each block under the id it was streamed with
\* and each tool call with one outcome.
MirrorIsTrue ==
  part = "store" => TS!StoreIsRun /\ TS!EveryCallHasOneOutcome /\ TS!IdsAreStable

\* file-editor-panel.tsx: no edit that a save missed is dropped unasked.
EditsNotLost == [][part = "files" => FE!KeepsEdits]_vars

\* resolve.ts: a session starts without a provider only when there is none.
StartPicksUsable == part \in {"forms", "starts"} => PV!StartPicksUsable

\* provider-route-helpers.ts, git-credential-dialog.tsx: a provider's secret is stored for
\* a URL it was tested with, a credential's token only by the dialog it was typed in.
SecretsAreTheirs ==
  /\ part \in {"forms", "starts"} => PV!TestedTogether
  /\ part = "creds" => CR!TokensAreOwn

\* test-limiter.ts: a user's tests run one at a time, their starts apart, whatever the
\* map forgets.
TestsAreSpaced == [][part = "limit" => TL!SpacesTests]_vars

\* group-rail-segments.ts, activity-timeline.tsx: each block is shown once, in order,
\* and a call spins no longer than its rail explains.
TimelineIsTrue == part = "rail" => TI!TimelineIsTrue

\* pending-approval-dock.tsx, question-card.tsx: a prompt is settled with the answers
\* picked for it.
AnswersAreOwn == part = "dock" => PD!AnswersAreOwn

\* git-panel-store.ts: the panel shows the project on the screen and its credential.
PanelIsOfProject == part = "panel" => GP!PanelIsOfProject

\* chat-input.tsx, session-defaults-store.ts, shared/commands.ts: a model goes with the
\* provider it was picked with; the commands offered are those that were reported, and
\* what is not supported does not go on to the model.
ComposerIsTrue ==
  /\ part = "comp" => CO!PairsStayTogether
  /\ part = "slash" => SC!SlashIsTrue

\* sessions-store.ts, provider-panel.tsx, git-credentials-store.ts,
\* file-management-view.tsx: what is shown is what is stored once nothing is under way, a
\* stored provider with models has one default, and a listing is of the folder it is
\* shown under.
ListsAreTrue ==
  /\ part = "list" => SL!SessionsAreTrue
  /\ part = "models" => PL!ProviderListIsTrue
  /\ part = "creds" => CR!CredentialsAreTrue /\ CR!PickedIsListed
  /\ part = "browse" => FB!ListingIsOfFolder /\ FB!LoadingHasACall

\* auth/index.ts, access.ts, access-control-panel.tsx: sign-ups that race leave one
\* administrator, the gate lets in whom the tables permitted while it looked, and the
\* panel shows what it goes by.
AccessIsJust ==
  /\ part = "users" => FA!OneAdmin
  /\ part = "gate" => AC!AccessIsJust

\* routes/files.ts: a refused upload leaves no byte, an accepted one is at its path.
UploadsAreClean == part = "upload" => UP!UploadsAreClean

=============================================================================
