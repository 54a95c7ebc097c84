# Verification of arclight-kimi-webui

arclight-kimi-webui is a web front end for the `claude` agent: a browser talks
over one WebSocket to a Node server, which keeps one agent subprocess per live
session, relays its output, asks the user before tools run, mirrors transcripts
into a database, and offers projects, git, files, providers and settings around
it. This directory holds TLA+ models of it, the TLC runs that check them, and
TLAPS proofs of theorems about them. All paths below are relative to `src/`.

Contents: 1 the system, 2 the modules, 3 the runs, 4 the proofs, 5 what was found,
6 what is open, 7 what is not modelled, 8 how to run it.

## 1. Inventory

### The heart: a session and its subprocess (server)

| Component | State | Operations | Hard because |
|---|---|---|---|
| **Message bridge** `server/src/services/agent/message-bridge.ts` | `queue`, `done`, `resolve` | `push`, `close`, the iterator's `next` and `return` | `next` parks in an await that a push or a close settles; both may be followed by another before it continues |
| **Turns** `server/src/ws/handlers.ts`, `services/agent/query-runner.ts`, `output-consumer.ts` | `active.query`, `bridge`, `abortController`, `turnInProgress`, `interruptRequested` | send, compact, context-usage probe, interrupt, provider switch, lazy spawn, result, end of the iteration | handlers are not serialised; each awaits several times between testing a flag and setting it; the consumer of a replaced query still owns the session's flags |
| **Approvals and questions** `services/agent/approval.ts`, `rule-matcher.ts`, `session-manager.ts`; the dock in `client/src/components/pending-approval-dock*`, `question-card` | `approvalMode`, `sessionAllowRules`, `pendingApprovals`, `pendingQuestions`; the tab's card and its half-given answers | `canUseTool`, approve, answer, abort of one call, drain, mode change; show, pick, go on, submit | parallel tool calls wait on promises that a click, a signal, a drain or nobody settles; the dock moves to another prompt under timers and half-given answers |
| **Session registry** `services/session-manager.ts`, `session-lifecycle.ts`, `routes/sessions.ts`; `client/src/lib/sessions-store.ts` | `sessions`, `pendingRestores`, `closing`, the session row; the sidebar's list | register, getOrRestore, tryBeginClose, unregister, teardown, hard delete; listings | restores are shared promises; a teardown awaits while others hold the object; listings are fetched whole and answered whenever |
| **Snapshot and broadcast** `ws/handlers.ts`, `session-manager.ts`, `client/src/lib/chat-store.ts` | `wsSet`, the frames under way, the tab's blocks | attach, detach, broadcastEvent, sendDirect, buildSnapshot; applyEvent, loadSnapshot | a snapshot is put together across database reads while live frames flow to the same socket |
| **SDK session store** `services/agent/session-store.ts` | `session_store_entries` | append, load, delete | batches are appended again after a lost answer or by the next process |
| **Transcript rendering** `services/agent/transcript-render.ts`; `client/.../blocks/timeline` | none (pure); the tab's rails | lines to blocks, subagents, synthesised results; blocks to rails and rows | ids must agree between live and replayed blocks; results, approvals and subagent events come in any order |
| **Slash commands** `shared/src/commands.ts`, `services/agent/commands-catalog.ts`, `commands.ts`; the picker of `chat-input.tsx` | the catalogue per folder and session; what a tab offers | report, refresh, snapshot, frame; type, pick, send, refuse | two ways to the tab, background refreshes, and a process that may be replaced |

### The edges

| Component | State | Hard because |
|---|---|---|
| **Projects, clones, boot** `server/src/routes/projects.ts`, `services/git/clone-registry.ts`, `services/reconcile.ts`; `client/src/lib/projects-store.ts`, `clone-progress-store.ts`, `components/new-project-modal.tsx` | folders, markers, rows, running clones; the sidebar's list and the dialog | a clone runs in the background while its project is deleted or cloned again, and the process may be killed between any two steps; frames overtake answers |
| **Client socket; registry, upgrade, heartbeat** `client/src/lib/auth-store.ts`, `auth-subscriber.ts`, `ws-client.ts`, `ws-send.ts`, `components/transcript.tsx`; `server/src/ws/upgrade.ts`, `registry.ts`, `heartbeat.ts` | sign-in state, the socket, backoff timer, resend guard; the sockets of a user | late events of replaced sockets, two bootstraps, a session revoked between the upgrade's check and its registration |
| **Authentication and access** `server/src/auth/index.ts`, `access.ts`, `routes/config-system.ts`; `client/.../access-control-panel.tsx` | users and roles, switch and allowlist | two first sign-ups; a gate that reads policy, list and user one after the other |
| **Git panel and credentials** `server/src/services/git/*`, `routes/git.ts`, `git-credentials.ts`; `client/src/lib/git-panel-store.ts`, `git-credentials-store.ts`, their components | index, work tree, links, credential rows; the panel, the dialog | a commit is a chain of git processes beside other git processes; the panel's answers arrive after the project changed |
| **Providers** `server/src/services/providers/*`, `routes/provider-route-helpers.ts`; `client/.../use-provider-form.ts`, the two panels | provider rows, tests in progress; forms | tests run for seconds between reading and writing a row; a session picks one by several queries |
| **Settings, composer** `client/src/lib/session-defaults-store.ts`, `save-toast.ts`, `components/chat-input.tsx`; `server/src/services/user-settings.ts` | defaults, pending and failed saves; draft and selected model | debounced saves, retries and loads race, each with a part of a choice |
| **Files** `server/src/routes/files.ts`; `client/src/lib/open-file-store.ts`, `components/file-editor-panel.tsx`, `file-management-view.tsx` | files; the editor's buffer, the listing | saves answer after more was typed; uploads and writes of one path overlap |

Agent environment, database schema, HTTP wiring, overview, discovery, logging,
shared types and build files keep no state with an order of steps to get wrong
(section 7).

### How they interact

A WebSocket message is dispatched to an async handler in `ws/handlers.ts`. It
obtains the session from the registry (`getOrRestore`), makes sure a query is
bound (`ensureQuery` -> `startQuery`), and pushes the prompt into the session's
bridge. The SDK reads the bridge, calls `canUseTool` for each tool, mirrors the
transcript into the session store, and yields messages to `consumeQueryOutput`,
which broadcasts frames to the sockets of `wsSet` and clears the turn. A socket
that resumes is attached and sent a snapshot. The client folds frames and
snapshots into per-session stores; the panels around the chat talk to REST routes
through stores of their own. Everything on the server runs on one event loop, and
so does a tab: code between two awaits is atomic, and nothing else is. Every model
here uses that grain: **one action is the code between two awaits.** What is
between an await and its continuation in the code (a database query, a request, a
git process, a frame on the wire) is a state of its own in the models.

### What makes each component correct

* Bridge: every prompt is read once, in order; a reader is never parked while
  something is buffered.
* Turns: one live subprocess and one turn at a time; `turnInProgress` says so;
  every prompt is run once; a turn ends.
* Approvals: a tool runs only with a reason; a parked call is always answerable
  and an aborted one returns; the dock settles a prompt with the answers given to it.
* Registry: one object per id, torn down once; nothing registered and no subprocess
  left behind by a delete; the sidebar lists what is there.
* View: what the tab shows is what the session did, once the frames arrived.
* Store and rendering: no line missing, repeated or out of order; ids stable; each
  call with one outcome; nothing spins without a reason.
* Projects: what is half there is flagged; a finished project does not go away
  unasked; a clone and its dialog come to an end.
* Socket: one, known to the tab; permitted tabs connect; revoked sessions keep none;
  a transcript that waits is attached.
* Access: one first administrator; the gate lets in whom the tables permitted.
* Git, credentials, providers: no commit of what was not selected; the panel is of
  the project on the screen; a secret is stored only where its owner put it and where
  it was tested; a session finds a usable provider when there is one.
* Settings and files: a model goes with the provider it was picked with; no edit is
  dropped unasked; a refused upload leaves no byte.

`PROJECT.json` lists every component with its status, and every hazard with its
line and the properties that watch over it.

## 2. Modules

| Module | Models | Run |
|---|---|---|
| `PromptStream` | abstract: an ordered, at-most-once stream of prompts | (refinement target) |
| `MessageBridge` | `createMessageBridge` | `bridge` |
| `TurnByTurn` | abstract: the turns of a session as its clients see them, one by one | (refinement target) |
| `TurnLifecycle` | handlers, spawn and consumer of one in-memory session | `turns_*`, `dead_query` |
| `Approvals` | `canUseTool` and what settles it | `approvals` |
| `SessionRegistry` | one id: registry, restore, teardown, delete | `registry` |
| `SessionView` | broadcast, snapshot and one tab's chat store | `view` |
| `CloneLifecycle` | a user's project folders: claim, clone, reclone, cancel, adopt, delete, crash, boot | `clones`, `boot_deletes_finished` |
| `ProjectList` | one tab's list and new-project dialog, composed with `CloneLifecycle` | `project_list` |
| `ClientSocket` | a tab's sign-in and socket, and the server's end of it | `client_socket` |
| `TranscriptStore` | the mirror of a transcript and what a snapshot renders of it | `services`: store |
| `Timeline` | from blocks to rails and rows | rail |
| `PromptDock` | the dock above the composer | dock |
| `SlashCommands` | catalogue, picker, refusals | slash |
| `Composer` | provider and model of a message, session defaults | comp |
| `SessionList` | the sidebar's sessions | list |
| `GitCommit` | `commitFiles` beside other git processes | git |
| `GitPanel` | the panel's store and the link to a credential | panel |
| `GitCredentials` | rows, cache, preferences panel and dialog | creds |
| `Providers` | rows, tested saves, the choice of a new session | forms, starts |
| `ProviderList` | the panels that list providers and the form of models | models |
| `TestLimiter` | one test at a time per user | limit |
| `FirstAdmin` | the election of the first administrator | users |
| `AccessControl` | switch, allowlist, gate and panel | gate |
| `FileEditor` | open file, buffer, saves, the question that guards them | files |
| `FileBrowser` | the folder listing | browse |
| `Uploads` | uploads and writes of one path | upload |
| `MC_*` | instances for TLC | |
| `*_proofs` | theorems of the module they extend | |

Every module holds a few definitions marked *Mutant*: plausible bugs of the
operation next to them. No specification uses them; they document which slip
each property would catch.

### MessageBridge

`queue` and `done` are the variables of the same names. `resolve` and the position
in `next` are `reader`: `waiting` when `resolve` is set, `resolved` between the
settling of the promise and the continuation, when `handed` holds the value.
`push`, `close`, `return` and the four outcomes of `next` are the actions. The
reader is single, as in the code, and asks again when it has an answer.
`pushed` and `delivered` are histories; with `closed <- done` they are the variables
of `PromptStream`, which the bridge implements.

### TurnLifecycle

One session; `Handlers` are request slots, and `step[h]` is the await at which the
request in slot `h` is suspended. A spawn is one call of `startQuery`; it names
query, controller, bridge and subprocess at once, since the code creates them
together, but `query` and `bridge` are separate because the bridge is assigned before
`startQuery` is awaited. A request begins with the checks its handler makes before
its first await, and `begin` (`beginFirstTurn`) pushes to whatever bridge is bound
*then*. `Disposed` likewise aborts the query bound after the awaited interrupt. The
consumer's `handleResult` is `TakeResult` (up to the usage row), `EndTurn` (flags and
`turn_end`) and `TitleSettled`.

`Spawned` merges the last synchronous part of `startQuery` with the start of the
consumer. The subprocess is external: it reads prompts while its controller is
not aborted, may park, emits one result per prompt, honours an interrupt, may
die. The `.catch` behind `consumeQueryOutput` (handlers.ts:324-337), which runs
only if the catch in the consumer itself throws, is not modelled; nor are the
composer flags, the model, the usage totals and the title beyond their awaits.

`TurnByTurn` is what clients may rely on if they wait for each request to be handled:
its `running` is `turnInProgress`, `pressed` is `interruptRequested`, `gone` says that a
subprocess died by itself.

### Approvals and PromptDock

A call is `new`, `parked`, `resolved` (promise settled, callback not yet resumed),
then `allowed` or `denied`. `pending` is both pending maps. `Abort` is the SDK firing
the call's signal, with `onAbort` when the call is parked. `SetMode` may run while a
call is parked: a send is refused while a turn is in progress, but two sends that
overlap reach it (section 5), so the model allows it.

`PromptDock` is the tab's side: the oldest unresolved prompt of the session on the
screen, an approval or a question card with one answer per question, the timer that
advances a single choice, the echo into the tab's blocks and the frame to the
server, which settles the prompt if it is still parked.

### SessionRegistry and SessionList

`memory` is the entry in `sessions`, `restore` the shared promise in
`pendingRestores`, `Objects` the `ActiveSession` objects that are made in turn.
`closing` is the flag `tryBeginClose` claims. A send looks up, waits, holds its
object across awaits and may spawn for it; a delete selects the row, tears down and
removes transcript and row. `DELETE /:id` and `deleteProjectForUser` remove these
in opposite orders and `DeletePurges` allows either. Owners, listings and the
scratch files of a session are left out.

`SessionList` is the sidebar beside the rows: listings are fetched whole at the start,
on focus, and half a second after the last frame that tells of a change, and such a
frame reaches the sockets attached to its session only. `untold` and `missed` are the
changes that the tab is still to be told of and those that nobody tells.

### SessionView

Blocks are numbered as they start; a block is `absent`, `partial`, `full` or `twice`
in the tab. `Results` are the blocks of kind `tool_result`, which `applyEvent` appends
without looking for their id. `wire` is the socket's FIFO stream. A resume
attaches the socket, awaits the row, awaits the entries, and then sends. The snapshot,
`replay_done` and the parked prompts are sent back to back and are one frame. The read
of the row and the look at `turnInProgress` that follows it are one action, and
nothing depends on the time a request travels. One resume is served at a
time; a resume that finds the socket already attached is allowed, as the server
does; which tabs do resume after a reconnect is `ClientSocket`'s. Nested subagent
blocks, metadata events and optimistic user blocks are not modelled. A turn begins
with a user block, so never with one of `Results`. Parking is attached to the last
committed block; several calls of one message that park in any order are
over-approximated by `SettledElsewhere`.

### TranscriptStore and Timeline

A line has a uuid (0 for a title line, which has none), a kind, a message and a
place in it. `rows` is the table; append skips what the two unique indexes already
have. An answer may be lost (the batch is sent again) and a process may end with lines
unmirrored; the next starts from `load()` and writes on behind them. `RenderTranscript`,
`AttachSubagents` and `SynthesizeInterrupted` are the pure functions of
`transcript-render.ts` over abstract lines; a snapshot is the set of its blocks, each with
the place at which the code splices it in. `Interleaves` says whether the lines of two
messages may be mirrored mixed; block ids are counted over neighbouring lines, so this
matters (section 5).

`Timeline` starts from a tab's blocks: every event of `applyEvent` that adds one, in any
order after its call, then the bundling of subagents, rails and rows, each an operator. A
block is named by its place, so that segments and rows are sets of places, and the loop of
`groupRail` is the function `Buffer`: what it has collected behind each place.

### CloneLifecycle and ProjectList

A name is a suffix `claimProjectDir` tries, a task one cloneId with its background
promise, a folder who put it there and whether it is complete. `Post`, `Reclone` and
`RecloneClaim` claim; `WriteMarker` may fail, as the code allows; `Complete` is the
row, the frame and the registry's `finally` in one, as there is no await between them.
`Crash` kills what runs; boot cleans every marker before the server serves
(`CleanInterrupted`, `Serve`). `disturbed` is a history of the clones whose folder was
removed under them.

`ProjectList` extends it with a tab: fetches, the answers of its own requests, frames
that may overtake them, a socket that may be down, the dialog's steps.

### ClientSocket

Both ends of one tab's socket. The tab: bootstrap with its two awaits, sign-out, a 401
noticed by any fetch, the subscriber, backoff, the resend guard of 1.5 s, and the
effect that resumes the session on the screen. The server: the upgrade's check, the
registration behind it, the heartbeat over the sockets it listed before an await, and
the messages' own validation. The browser reports a socket's end long after `close()`
returned. `QuickRedial` says whether a redial may come within the guard's time.

### The panels and stores (`MC_Services`)

Seventeen smaller modules share no state with each other. They are instantiated in one
module, `MC_Services`: the initial state says which part a behaviour is of, and the
variables `v1` to `v14` stand for those of the part; every part keeps its own
next-state relation, spelled out action by action, and its own properties, which are
grouped by what they are about. One TLC run thus checks eighteen systems (`Providers` is in two) one beside
the other, as if each had a run of its own.

Constants that name a *fault of timing* are worth knowing, because the properties hold
for one value and TLC finds a counterexample for the other (section 5):
`Interleaves` (TranscriptStore), `QuickRedial` (ClientSocket), `Overtakes` (SessionList,
AccessControl: answers arrive in another order than they were given), `Overlaps`
(ProviderList, FileBrowser, GitCredentials: fetches of one list overlap).

* `GitCommit`: index, work tree and HEAD as functions of paths; `job` walks through the
  git processes of `commitFiles`; other processes stage, unstage, edit and commit between.
* `GitPanel`: `calls` under way know the project and the epoch they were made in;
  `meta` is the table of links, `astray` the histories of answers that crossed a switch.
* `GitCredentials`: a label stands for itself; a secret is the dialog it was typed in.
* `Providers`: a row has a token, a URL, models, an owner and a visibility; a form tests,
  then saves; `seen` are the rows a starting session found at each query.
* `ProviderList`: lists, forms and the rule that models need one default.
* `TestLimiter`: `entries` is the map, swept when it has grown; a test keeps its entry.
* `FirstAdmin`: count, insert, directory, and the repair after a race; a crash in between.
* `AccessControl`: policy, list and role are read by the gate one after the other.
* `Composer`: a pair of provider and model is kept under two keys; `pending`, `puts` and
  `loading` are the ways it travels; `torn` is set where the code itself splits a pair.
* `FileEditor`: versions of files; `ed` is the buffer, `kept` what the user agreed to drop.
* `FileBrowser`, `Uploads`: a listing knows the folder it was asked for; a file is an
  inode, so that one unlinked is still written by those who have it open.
* `SlashCommands`: one folder, several sessions; `swallowed` counts what the server
  silently drops.

## 3. Runs: what they ask and what they show

| Run | Question | Bounds | States |
|---|---|---|---|
| `bridge` | Is the bridge a FIFO stream, without lost wake-ups, and does every prompt arrive? | 2 prompts, 4 pushes | 872 |
| `turns_one_request_at_a_time` | With a client that waits for each request to be handled: one subprocess, one turn, an honest `turnInProgress`, so that clients see turns run one by one (`TurnByTurn`), and do turns end? | 1 slot, 2 spawns, 3 turns, compactions, 1 death | 57 k |
| `turns_concurrent_requests` | What survives when requests overlap and the provider is switched? Prompts stay answerable, each is run once, a dead query leaves nothing parked | 2 slots, 2 spawns, 2 turns, 1 death | 2.5 M |
| `dead_query` | (counterexample) is a bound query a live one? | 1 slot | 184 |
| `approvals` | Is every tool use justified, is every parked call reachable, does an aborted one return? | 4 calls: two on one target, a read-only one, a question | 215 k |
| `registry` | One object handed to every waiter, every request answered; and, as long as requests do not overlap, nothing left behind by a delete | 2 requests, 3 objects, 2 spawns, 2 deletes | 80 k |
| `view` | Once the frames arrived: every unresolved prompt is in the dock, blocks are complete and single, busy agrees | 3 blocks (user, text or call, result), 2 frames, 1 prompt, 1 snapshot at a time, reconnects | 6.4 M |
| `clones` | Is what is half there flagged, does a finished project stay, does every clone end? | 2 names, 2 clones, 3 requests, 1 crash, a project of another machine | 275 k |
| `boot_deletes_finished` | (counterexample) does boot spare a clone that was told complete? | 1 clone, 1 crash | 496 |
| `project_list` | Once nothing is under way, does the list say what the server has, and does the dialog end? | 1 name, 2 clones, 2 requests, 1 fetch, 1 disconnect | 1.6 M |
| `client_socket` | One known socket; permitted tabs connect; revoked sessions keep none; the waiting transcript is attached on every socket | 2 sockets, 2 bootstraps, 2 faults | 84 k |
| `services` | The eighteen parts of `MC_Services` | below | 5.3 M |

The parts of `services`, with what is bounded and the states each contributes:

| Part | Property | Instance | States |
|---|---|---|---|
| git | `CommitSparesOthers` | 2 paths, 1 commit, 2 steps of others, renames, 1 fault | 215 k |
| store | `MirrorIsTrue` | 4 lines of a session with a subagent, 2 lost answers | 463 k |
| users | `AccessIsJust` | 3 sign-ups, 2 moments, a crash | 22 k |
| files | `EditsNotLost` | 2 files, 2 saves, 3 versions, 1 move | 396 k |
| forms | `SecretsAreTheirs` | 2 forms, 2 tokens, 2 URLs, 2 changes | 171 k |
| starts | `StartPicksUsable` | 2 providers, 2 changes during one start | 252 k |
| limit | `TestsAreSpaced` | 3 users, 2 tests, clock to 5, map swept at 2 | 6 k |
| rail | `TimelineIsTrue` | a call, an agent, a question, 6 blocks | 37 k |
| dock | `AnswersAreOwn` | 2 sessions, 2 prompts, 2 questions (one multiple), 2 options | 416 k |
| panel | `PanelIsOfProject` | 2 projects, 1 credential, 2 calls, 2 switches | 1.34 M |
| comp | `ComposerIsTrue` | 1 session and a draft, 2 pairs, 2 edits, 2 saves | 177 k |
| list | `ListsAreTrue` | 2 sessions, 2 versions, 1 frame, 2 calls | 831 k |
| gate | `AccessIsJust` | 2 emails of which one administers, 2 calls, 1 lost answer; one user in the gate at a time, as two share nothing there | 294 k |
| models | `ListsAreTrue` | 2 providers, 2 models, 2 saves, 1 lost answer | 460 k |
| browse | `ListsAreTrue` | 2 projects, a subfolder, 3 calls, 4 moves | 52 k |
| upload | `UploadsAreClean` | 2 uploads and a write, 1 fault | 38 k |
| creds | `ListsAreTrue`, `SecretsAreTheirs` | 2 rows, 2 calls, 4 dialogs, 1 lost answer | 48 k |
| slash | `ComposerIsTrue` | 2 sessions, a command of each kind, 3 moves | 53 k |

**Why the bounds are enough.** The code has few thresholds: each hazard takes a
fixed small number of actors. Two slots give every pair of overlapping
requests, and two spawns an old query and its replacement. Two or three turns let a flag
set for one turn meet the next. Four pushes fill a buffer behind a value in
flight, twice the same content included. Three objects cover a torn down, a
restored and a restored-again session. Three blocks are one of each kind that
`applyEvent` treats differently, and two frames on the wire are enough for one to
overtake what a snapshot read. Two clones of one name and a crash are the earlier
and the later one of every race about a folder. Two sockets are a replaced and a
new one. In the panels, two of a thing are the one on the screen and the one before,
and two calls an answer that is late and its successor. The limiter's threshold of a
swept map is a constant there, and small enough to be passed.

Named bounds (`MaxPush`, `MaxTurns`, `MaxDeaths`, `MaxDeletes`, `MaxItems`, `MaxWire`,
`MaxAsks`, `MaxRequests`, `MaxCrashes`, `MaxCalls`, `MaxMoves`, ...) stop the
*environment* (the user, the subprocess, the network), and `Room` keeps a begun request
within `MaxTurns`, so that no request is stuck because of a bound. In `SessionView`,
`MaxWire` also holds back the server until the tab reads; the properties of that module
are safety only. Symmetry is used for the forms and for the sessions of the list, which
nothing orders or names. `project_list` has a VIEW that leaves out histories its
properties do not read.

`CHECK_DEADLOCK FALSE` everywhere: these systems may come to rest. The bridge
ends, calls are answered, budgets run out.

**Fairness.** Only what the runtime owes: an event loop that resumes a continuation
whose promise settled, a database, a file system and git that answer (git has a
timeout), a browser that delivers its events and fires its timers, an SDK that reads its
stream, a subprocess that works on a turn it has, acknowledges an interrupt and dies when
killed, a boot that does not stop half way, the heartbeat's interval. Nobody has to
send, press, answer, delete, sign in or reconnect, and no fault has to happen or to stop
beyond its bound. `TurnEnds` therefore excuses a turn that waits for the user; it excuses
a subprocess that died by itself too, because a dead query is then kept (`dead_query`).
`AllowedConnects` excuses a tab that signs out or loses its session or its allowance.

**Serial and concurrent runs.** Some properties of a session hold only if a request is
handled before the next arrives. `turns_one_request_at_a_time` states them over one
slot, and `AloneIsClean` of `registry` as long as no two requests overlapped; the
concurrent run shows which remain. That the handlers do not enforce this discipline is a
finding.

## 4. Proofs

TLC checks the instances above; the theorems hold for all values of the constants.

| Module | Theorem | States | That |
|---|---|---|---|
| `MessageBridge_proofs` | `TypeCorrect` | `TypeOK` | |
| | `NoPromptLost` | `NothingLost` | delivered, in flight and buffered is what was pushed, in order, until it closes |
| | `NoLostWakeUp` | `WaitsOnlyWhenEmpty` | nothing is buffered while the reader is parked |
| | `BridgeIsAStream` | `ImplementsStream` | the bridge implements `PromptStream` |
| `TurnLifecycle_proofs` | `TypeCorrect` | `TypeOK` | |
| | `AskingStaysAnswerable` | `AskingIsParked` | what waits for the user can be answered |
| | `NothingParkedWhenOver` | `DrainedWhenOver` | a dead query leaves nothing parked |
| | `CancelIsHonest` | `CancelledWasAsked` | without compactions, what is reported as cancelled was interrupted |
| | `TurnsAreHeldOnce` | `EachTurnOnce` | no prompt is run twice, however requests overlap |
| | `OneSubprocess` | `SingleSubprocess` | with one request at a time and one provider: one subprocess, |
| | `OneTurn` | `OneTurnAtATime` | one turn, and a flag that says so; |
| | `TurnByTurnSeen` | `ImplementsTurns` | together, the session implements `TurnByTurn`: the end of each turn is told once, before the next begins, and as cancelled exactly if the user pressed |
| `Approvals_proofs` | `TypeCorrect` | `TypeOK` | |
| | `NothingHangsOutOfReach` | `PendingIsParked` | every parked call has its entry and the reverse |
| | `ConsentFirst` | `AllowedWasGranted` | a tool runs only with a reason |
| `SessionRegistry_proofs` | `TypeCorrect` | `TypeOK` | |
| | `RestoredOnce` | `SingleIncarnation` | one object per id |
| | `TornDownOnce` | `AbortedOnce` | each is torn down once |
| | `RegisteredHandles` | `HandsOutRegistered` | a request is handed the registered object |
| | `AloneLeavesNothing` | `AloneIsClean` | requests that never overlap leave no subprocess behind, nor a session without its row |
| | `OneSocketKnown` | `OneSocket` | (of `ClientSocket`) a page load that bootstraps at most twice never loses sight of an open socket |
| `SessionView_proofs` | `TypeCorrect` | `TypeOK` | |
| | `PromptsAreReachable` | `PromptReachable` | a parked prompt is shown once everything arrived |
| | `BusyIsShown` | `BusyAgrees` | so is the busy flag |
| | `ViewAddsUp` | `ViewIsTrue` | so is every block, once |
| `CloneLifecycle_proofs` | `HalfFoldersAreFlagged` | `HalfIsFlagged` | half a folder has its marker |
| | `FinishedFoldersSurvive` | `FinishedSurvives` | a finished project goes only when asked, or by the cases it names |
| | `SettledListsAreTrue` | `SettledListIsTrue` | (of `ProjectList`) a list to which nothing is still to come has the projects of the server, each with its state, for any number of clones, removals and fetches |
| | `ModalsEnd` | `ModalEnds` | (of `ProjectList`) a dialog that waits while nothing is under way waits for a frame that was sent while the socket was down |
| `Services_proofs` | `RefusedLeaveNothing` | `UploadsAreClean` | a refused upload leaves no byte, an accepted one is at its path |
| | `TestsSpaced` | `TestsAreSpaced` | (action property) a user's tests run one at a time and start apart, whatever the sweep forgets |
| | `OnlyPermittedEnter` | `AccessIsJust` | racing sign-ups leave one administrator; the gate lets in only whom the tables permitted while it looked; the panel shows what it goes by |
| | `CommitSparesTheRest` | `CommitSparesOthers` | (action property) a commit takes what was selected and no more, and one that fails restores what it unstaged |
| | `StartsAreUsable` | `StartPicksUsable` | a session starts without a provider only if there was none it could use |
| | `SecretsStayTheirs` | `SecretsAreTheirs` | a stored secret was tested with its URL; a credential keeps a token of its own dialog |
| | `MirrorStaysTrue` | `MirrorIsTrue` | the store has a gapless run of the lines with a uuid; a snapshot shows each call with one outcome, each block under the id it was streamed with |
| `Panels_proofs` | `NoEditIsLost` | `EditsNotLost` | (action property) no edit that no save took is dropped, but by leaving the page or after a question |
| | `AnswersReachTheirPrompt` | `AnswersAreOwn` | a prompt is settled with answers picked for it |
| | `PanelFollows` | `PanelIsOfProject` | the git panel is of the project on the screen, busy while its command runs, and links a credential of its rows |
| | `ComposerTellsTheTruth` | `ComposerIsTrue` | a model goes with its provider unless a save was torn; the commands offered were reported last, and what is not supported does not run |
| | `ListsTellTheTruth` | `ListsAreTrue` | once nothing is under way the lists of sessions, providers and credentials are what is stored, and a listing is of the folder it is shown under |
| | `TimelineStaysTrue` | `TimelineIsTrue` | each block is in one row, the rows in the order of their first blocks; a call spins on after its result only if a block off the rail is between them |

The assumptions are those named in the modules (`None` and `Null` are not values,
bounds are naturals, constants have their types), and what a theorem adds in its ASSUME.
`OneSocketKnown` adds `TwoBoots`: a page load bootstraps at most twice. The mount effect of
`client/src/App.tsx` is the only caller of `bootstrap()`, and under `StrictMode`
(`client/src/main.tsx`) React runs it twice in development; the bound is thus the code's, and
a third bootstrap could leave a socket unknown.
`SettledListsAreTrue` and `ModalsEnd` are about `PSpec`, that of a server that does not crash
while the tab looks on.
The theorems about the parts of `services` have theirs in a definition before each
section of the proof modules:

* `None` (or `"new"`, `"close"`) is not a member of the set it is added to:
  `UploadAssumptions`, `LimiterAssumptions`, `AdminAssumptions`, `ProviderAssumptions`,
  `EditorAssumptions`, `DockAssumptions`, `PanelAssumptions`, `ComposerAssumptions`,
  `SlashAssumptions`, `ModelAssumptions`, `RailAssumptions`;
  in some of these also: a set of requests is finite (a finite number of uploads), an interval is a
  natural number, there is a model, a pair of the catalogue has a provider and a model;
* a bound lets something happen at all: one call (`GateAssumptions`), one question, one
  revision (`ListAssumptions`), one row (`CredentialAssumptions`);
* the commands that a folder reports are told apart from those the agent has and those
  that are refused (`SlashAssumptions`), as `dynamic` names are filtered by the server;
* a tool's result is not written between the blocks of its message (`StoreAssumptions`).

They hold for the instances as `MC_Services` makes them, that is with `Interleaves`,
`Overtakes` and `Overlaps` FALSE where a module has them: with TRUE the properties are false (section 5).
There `Spec` is that of all parts; a behaviour stays in the part it starts in
(`PartStays`), and each theorem takes the parts its property speaks of one by one.

Each proof follows the same argument: `IInv` is inductive and implies the property.

* *Bridge.* `NothingLost` alone is not inductive: a value may be in `handed` only
  while the reader is `resolved` (`HandedOnlyWhenResolved`), and after `done`, where
  `NothingLost` is silent, what was delivered is still a prefix of what was pushed
  (`DeliveredIsPrefix`). The refinement needs both.
* *Turns.* `Structure`: a consumer that persists has a result, a subprocess that
  works has a turn, a spawn under way is held by exactly one request, only a
  subprocess that lives is parked or the entry is drained before the
  consumer is over. `Flags`: while the interrupt flag is set, every turn begun so far
  was interrupted.
* *Serial turns.* If all slots are one and the provider is kept, `Alone` is inductive:
  no query is cut or replaced (`KeptQuery`), the query bound is the only one that lives
  (`OneQuery`), a request past the check of `turnInProgress` finds it still unset
  (`Checked`), and a live subprocess has at most one turn, which waits, is worked on or
  is reported, and none unless `turnInProgress` is set (`Loads`). The refinement adds that
  this turn is the last that began and that a result keeps `turnInProgress` set until it is
  told (`InTurn`): so `EndTurn` is about the turn in progress, and only the catch of a dead
  subprocess gives one up.
* *Each turn once.* `EachTurnOnce` speaks of which spawns hold a turn; inductive is that
  no spawn holds it in two places either (`EachApart`: waiting turns and results do not
  repeat, and neither is the turn worked on). One lemma for each way a turn moves says
  that it keeps this and adds no turn to the spawn; a turn pushed is one nobody holds,
  because all held ones had begun.
* *Approvals.* A resolved call has a reply of its own kind (`ReplyShape`) and every
  rule was granted by a call on its target (`RulesGranted`).
* *Registry.* The teardown that claimed an object owns it until it unregisters
  (`TeardownOwns`), so that it never frees another object's slot; an object was
  aborted only past its claim (`AbortShape`); what a request holds was made (`HoldShape`).
  `AloneIsClean` is proved from a second invariant, `Orderly`, kept by steps before and after
  which at most one request is under way: a live subprocess is the query of the registered
  object, a send works on that object, what closes is being torn down, a restore has
  somebody who waits, and a delete past its teardown finds no session in memory.
* *Socket.* `OneSocket` alone is not inductive. A dial is made only without a socket
  (`DialsOnce`); a tab that may connect has had a bootstrap done, and one that may not
  rests, without socket or timer (`ConnectsAllowed`); and while a socket the tab no longer
  knows has not ended (`LeavesForGood`), the tab is signed out, or may not connect and has no
  bootstrap left (`Retired`): one was done to open that socket and another to close it, so
  that nobody dials beside it.
* *View.* The properties speak of a tab to which everything has arrived; the invariants
  speak of what is *still on the wire*. `Told(x)` and `Silent(x)` say what the frames
  under way will tell of a prompt, a block or the busy flag (`Shows`/`Hides`, `Says`,
  `Makes`/`Breaks`, `Commits`), and `PromptComing`, `BusyComing`, `BlockComing` and
  `OnceComing` that the tab, after all of them, will agree with the session. Lemmas on
  sequences (`OneMore`, `OneLess`) say what sending and reading a frame does to them.
* *Clones.* The registry lists every clone at work, and a server that is down runs none
  (`Registered`); a folder tells the stage of the clone that made it (`Owned`); a clone at
  work has its folder or lost it to a removal (`Holds`); a marker is that of a clone past
  its start, and its folder is half of it until git has finished (`Marked`); and half a
  folder whose clone wrote its marker has it still, or an earlier clone of that name
  took it away (`Flagged`). The last is the reason for the third excuse in `HalfIsFlagged`.
* *Project list.* A row of the tab that differs from the server's has a correction to come
  (`ListComes`): the socket is down, so that a reconnect will fetch, a refresh is due, a listing is in
  flight that was answered after the change, the clone is still at work, its frame is in flight, or
  the removal that was asked has not been answered. That needs what the server's registry
  says of each clone (`Registry`, `Removals`) and that what is in flight was true when it was sent
  and what changed since is itself to come (`AnswersTrue`, `FramesTrue`, `FetchTrue`). For the
  dialog (`ModalComes`): while it waits, its clone works, its frame is on the way, or the frame
  was sent to a socket that was down.
* *Uploads.* A request opens one inode (`Inodes`, `Requests`: what is open at which step,
  and that who answered is over), and it stays at the path until another unlinks it
  (`OpenIsLinked`), so that the one who is refused unlinks what it wrote into.
* *Limiter.* Who runs a test has an entry that says so and runs it once (`RunningIsKept`);
  the entry remembers the last start, and who has none began long enough ago
  (`StartIsRemembered`): what the sweep may forget.
* *Gate and its panel.* Who is at the gate is known to be permitted from the moment the tables
  permit it (`JustIsKept`). The last answer under way that carries the switch has what
  the table holds (`ControlIsCarried`); the last listing has it but for the removals that
  follow (`ListingIsCarried`).
* *Commit.* In each phase (`Known`): the index is HEAD's for what was neither selected nor
  hidden, was as it is now for what was not protected, and holds what `add` took of the
  selected paths, but for paths others touched meanwhile.
* *Starts and secrets.* What a start has watched covers what is open now, and what it
  has listed covers what was open throughout (`StartIsWatched`, `ListsCover`). A save
  that no other overtook began from the row as it is, and what it is about to write passed a
  test (`SavesAreTested`). In the credentials a token is typed in one dialog and goes
  with its number (`TokensAreTyped`).
* *Editor.* The store's dirty flag is the buffer's, and what the buffer takes for saved was
  read from the disk or has reached it (`SavedWasOnDisk`).
* *Dock.* A prompt is a block of one session once (`BlocksAreOnce`), the card is of the current
  one (`CardIsOfCurrent`), and an answer on its way holds what was picked, its block
  resolved by that click (`FramesArePicked`).
* *Git panel.* An epoch is of one project and the panel's is the latest
  (`EpochsAreOfProjects`); one command of it runs (`OneCommand`); the one request about the link
  of the project on the screen tells its row, or what it was (`LinkIsUnderWay`).
* *Composer and slash commands.* One save is half way at most and what it wrote is still
  there (`HalfIsStored`). For each session that is attached, the last frame under way, or
  what it offers if there is none, is the catalogue (`LastIsReported`); what the tab let
  through is supported whatever the server knows by then (`PostsAreSupported`).
* *Browser.* Whoever may still be heard was asked for the folder shown (`LiveAreOfFolder`),
  and who loads has a call that will be heard (`LoadingHasACall`).
* *Sessions and providers in lists.* As for the view, the properties speak of what is settled and
  the invariants of what is under way: of the answers not yet read, the last one that touches a
  row leaves it true, or there is none and it is true already (`EachComes`,
  `ComesTrue`), unless the list is going to be asked for. The lemmas about `EndsWith` say what
  one more answer and one less do to this, for any queue. The providers also need that
  a row has one request at a time (`Apart`), that what is being edited stays listed
  (`StaysListed`), that a row just made is listed by nobody yet (`MadeIsNew`) and that a form keeps
  one default (`Fits`).
* *Credentials.* A load is alone, and a credential is changed by one request at a time
  (`CallFits`). Every difference between list and rows is accounted for by a request under way: an
  entry is that of the row or what changed the row answers (`Fixed`), a row is listed
  or what made it answers (`Owed`).
* *Store.* What the process wrote is in order of uuid, the blocks of one message follow each other
  with nothing but titles between (`Together`, and `Continues` for the message that may go on),
  and the table has what is known to be mirrored and perhaps more (`Mirrors`). A batch that is
  sent again meets a table that has a part of it: line by line, either it is there or it
  is the next (`LineInserted`). A process that starts from the table must find these
  invariants in it (`RowsTogether`). `InsertNew` and the counting of `BlockIndex` go over any number
  of lines, so what they compute is an induction; it is done by looking at the least
  counterexample (`HasLeast`): the first line after which the insertion is wrong, the
  first place in its message at which a block is miscounted.
* *Timeline.* A call has one block of each kind, and its own is the first (`Once`,
  `CallFirst`); all the rest is about what such a list is shown as. What `groupRail` has in its
  buffer behind a place is the run that goes on there (`BufferIsRun`, again by the least
  counterexample), so that two places share a rail exactly when nothing stands alone between
  them (`RailMembers`), and a rail is known from any of its places (`OneRail`). Then each
  block has its row: that of its bundle, its own, that of its call or of a lone result
  (`ConsumedOnce`, `AloneOnce`, `OnRailOnce`), and a result that its call's row has not is
  on another rail (`SpinsWhenSplit`).
* *First administrator.* Rows are inserted once, with the role decided before (`RowShape`);
  who is about to demote holds the lock and saw every administrator whose own repair is
  over, and spares one that still is (`RepairShape`); so of the administrators whose sign-up
  is over there is one (`OneDone`).

Model-checked only: everything under fairness (`EveryPromptRead`, `TurnEnds`,
`AbortedReturns`, `RequestsEnd`, `ClonesEnd`, `AllowedConnects`, `RevokedDisconnects`,
`ListenerFollows`), which is beyond the prover together with `ENABLED`. Every safety
property of a passing run is a theorem above.

## 5. Findings

Two are runs whose counterexample TLC prints:

1. `dead_query`: a consumer that ends leaves `active.query` bound, so later sends go
   into a bridge nobody reads and the session stays busy. `server/src/ws/handlers.ts:312`
   calls `ensureQuery` "a no-op if a query is already live".
2. `boot_deletes_finished`: the marker of a clone is removed last, after `completed` was
   told. A process killed between the two has its finished project deleted at the next
   boot, although `server/src/services/reconcile.ts:10` speaks of clones interrupted
   "mid-fetch" and `:12` of "any terminal outcome".

The others are counterexamples TLC gives when a property is stated without its exception,
or a constant has its other value. Each can be had by the change named.

**Turns** (`TurnLifecycle`)

* Two spawns: `ensureQuery` tests `active.query` and awaits `startQuery` before anything
  sets it; a send and the usage probe, or two tabs, spawn two subprocesses, of which the
  first is out of reach (`handlers.ts:316`). `SingleSubprocess` with two slots.
* Two overlapping sends both pass the `turnInProgress` check: `OneTurnHeld` and
  `BusyWhileWorking` with two slots.
* A provider switch: the aborted consumer's catch clears `turnInProgress` and drains the
  prompts of the turn that began on the new query (`output-consumer.ts:643`).
  `BusyWhileWorking` with `Switches = TRUE`.
* A compaction does not reset `interruptRequested` (`handlers.ts:841`), so an interrupt
  pressed between turns makes it report `cancelled`, contrary to
  `session-manager.ts:76`. `CancelledWasAsked` with `Compacts = TRUE`.
* An interrupt that arrives while `handleResult` awaits the usage row turns a finished
  turn into a cancelled one (`output-consumer.ts:482`).
* Not in the model's reach but next to it: a provider that is refused (`handlers.ts:642`)
  leaves the model already stored, without `session_updated`; `providerId` is set in
  memory before the database (`:646`); a socket that closed while a restore was awaited is
  attached (`:860`).

**Registry and lists** (`SessionRegistry`, `SessionList`)

* With overlapping requests `AloneIsClean`'s conclusion fails: a send that looked its
  session up before a teardown spawns after it; a restore that selected the row before
  a delete registers after it; the loser of `tryBeginClose` deletes the row while the
  winner is still tearing down; a delete that selected its row before the SDK session id
  was captured leaves the transcript.
* `Overtakes = TRUE`: an older listing that arrives last stays. A session deleted in
  another tab is told to nobody, `session_created` reaches only the sockets attached to
  that session although `handlers.ts:527` and `:621` speak of the sidebar, a failed
  fetch is not made again, and a reconnect refetches projects but not sessions
  (`client/src/lib/ws-subscriber.ts:113`).
* `session-row.tsx:57` keeps the open session it saw before its await, and a late
  snapshot navigates.

**View** (`SessionView`)

* A snapshot replaces the view with what the store held when it was read: blocks
  broadcast or mirrored later are wiped, and its busy flag may be old. `ViewIsTrue`
  and `BusyAgrees` name exactly these exceptions (`lost`, `stale`), and say that
  there are no others.
* `applyEvent` takes every `error` frame for the end of the turn, also `mirror_error`,
  after which "the turn continues" (`output-consumer.ts:417`; `chat-store.ts:458`).

**Store and timeline** (`TranscriptStore`, `Timeline`)

* `Interleaves = TRUE`: when the mirror has the lines of two messages mixed, block ids
  counted over neighbouring lines shift and two blocks share one.
* `query-runner.ts:95` clears the local session and with it lines not yet mirrored.
* `StopsWithResult` fails: a call split from its result by a block that is not on the rail
  keeps spinning.

**Dock** (`PromptDock`)

* A double click on a single choice answers the next question unseen; questions of the
  same text share an answer; `approval_response` is never broadcast and `turn_end` leaves
  unresolved approvals, so that what was settled elsewhere stays in a dock until the next
  snapshot.

**Slash commands** (`SlashCommands`)

* The server silently swallows what the composer let through (`PassedIsRun`), as
  the session may have reported other names than the folder or the tab knows, and the
  pending block stays. The composer always passes `dynamic` (`chat-input.tsx:355`), so
  that before the first report project commands are refused, contrary to
  `shared/src/commands.ts:94`, and always in a draft. The picker's active row is not
  reset when the catalogue changes under the same filter; `bypassConfirmOpen` survives a
  change of session (`chat-input.tsx:419`).

**Composer and defaults** (`Composer`)

* `ShowsOwnModel`, `SentIsPicked` and `ShownIsStored` fail: a draft seeded from the
  defaults outranks a session's own model (`chat-input.tsx:209`, contrary to `:301`), a
  provider without a model is completed with the session's, and a load overwrites choices
  that wait for their flush. A silent save that failed is never made again; the Retry of an
  earlier failed save overrides a later one; `sendMessage` clears the draft before a send
  that is dropped when the socket is down. `defaults-panel.tsx:105` keys providers by model
  id alone.

**Socket** (`ClientSocket`)

* `QuickRedial = TRUE`: a resume on a new socket within 1.5 s of the last is dropped as a
  double click (`ws-send.ts:36`), and the transcript stays deaf. A transcript that had its
  session when it mounted registers no listener at all.

**Projects** (`CloneLifecycle`, `ProjectList`)

* The end of an earlier clone of a name removes its successor's folder or marker
  (`routes/projects.ts:241`): the excuses of `HalfIsFlagged` and `FinishedSurvives` are
  those cases.

**Git and credentials** (`GitCommit`, `GitPanel`, `GitCredentials`)

* `CommitIsExact` fails: a commit also takes the other side of a rename of which one path
  was selected.
* `PanelIsOfProject` once said that the link shown is *the* row's. The proof did not go
  through, and TLC showed why as soon as the user may switch projects twice: a link made before
  the switch and one made after the return both find no row and insert one, and the panel
  shows either. The property now says one of the rows, and the bound is two switches.
* `NothingAstray` and `OneRow` fail: status, branches and the auth prompt of one project
  are shown for another (`git-panel-store.ts:139`), a failed link reverts a later one
  (`:193`), links that race insert two rows (`services/git.ts:339`), and an auto-link goes
  to the project now on the screen (`:258`). `commit-dialog.tsx:51` depends on the entries
  it fetches again, and its refresh wipes the message being typed (contrary to `:20`, `:49`).
* `Overlaps = TRUE`: a credential added while the modal's first load is under way is
  listed twice. The late answer of a cancelled dialog closes the one opened since;
  `ensureLoaded` does not try again after an error.

**Providers** (`Providers`, `ProviderList`)

* `TestedIsOfForm` fails: a late test answer is taken for the form now open, as is a late
  list of models. Two saves that overlap store a token and a URL never tested together
  (`store.ts:214`). `setEditing(null)` after a save closes a form opened meanwhile, and
  `handleDelete` (`provider-panel.tsx:146`) goes by a stale `editing`.
* `Overlaps = TRUE`: the older listing stays.

**Access** (`AccessControl`, `FirstAdmin`)

* The gate reads policy, list and user one after the other and may deny although every
  moment's policy allowed. `routes/access.ts:68` writes a legacy table with no effect;
  `sidebar.tsx:124` signs out in the client only.
  `handleAdd` of the panel is entered again by the Enter key while its request is under way
  (`access-control-panel.tsx:82`, `:220`).

**Files** (`FileEditor`, `FileBrowser`, `Uploads`)

* `DiscardIsAsked` fails: leaving the pages the editor is on drops its edits without a
  question.
* `Overlaps = TRUE`: Refresh and Retry pass no signal and may show another folder's entries.
* A refused upload unlinks the path whoever's file is there by then; `mkdir` (`files.ts:271`)
  and `chmod` (`:307`) are outside the try, and a cut-off body (`:328`) leaves the upload
  unanswered.

## 6. What is open

In order of weight.

1. `SessionView` with nested subagent blocks and optimistic user blocks; `SessionRegistry`
   with the scratch files of a session.
2. A composition of `ClientSocket` with `SessionView`, so that the resumes of the second
   are those of the first.
3. Listing and adopting folders with their git metadata; downloads and raw views of files.
4. `rule-matcher` and the parsing of git's output against references over bounded inputs.

## 7. Not modelled

* Agent environment, database schema and migrations, HTTP wiring, overview, discovery and
  logging, shared types, tests and build files: configuration, declarations, read-only
  listings and formatting, with no order of steps to get wrong. Types and tests were read
  as documentation of what the code promises.
* The routes of the authentication library; the network probe behind a provider test and
  its URL guard; the fixed catalogue of OAuth providers; the test of a git credential.
* Presentation: components that only lay out what a store has.
* Of the modelled components: the contents of messages and files, cost and usage totals,
  titles, ownership checks, the display blocks of each tool, git's output.

## 8. Running

    tlc -workers 2 -config MC_MessageBridge.cfg MC_MessageBridge
    tlc -workers 2 -config TurnLifecycle_serial.cfg MC_TurnLifecycle
    tlc -workers 2 -config Services.cfg MC_Services
    tlapm Services_proofs.tla

`PROJECT.json` names the module and configuration of every run. To look at one part of
`services` alone, keep its disjunct of `Init` only.
