------------------------------- MODULE PromptDock -------------------------------
(***************************************************************************)
(* The dock above the composer (client components/pending-approval-dock):  *)
(* it shows the oldest prompt of the session on the screen that is not     *)
(* resolved, an approval with its buttons or a question card               *)
(* (blocks/question-card) with answers of its own, a question at a time.   *)
(* A click echoes into the tab's blocks first and is sent then; the server *)
(* settles the prompt if it is still parked (approve_tool, answer_question *)
(* of ws/handlers.ts).                                                     *)
(***************************************************************************)
EXTENDS Naturals, Sequences, FiniteSets

CONSTANTS
  Chats, Prompts, NoPrompt,
  Count,       \* questions of each
  Multi,       \* the numbers of those that take several options
  Options,
  MaxTimers    \* bound: clicks within the 120 ms before a card moves on

VARIABLES
  chatOf,      \* [Prompts -> the session that asks]
  askers,      \* the prompts that are questions; the others are approvals
  prompts,     \* [Chats -> the prompts among the tab's blocks, [req, resolved]]
  shown,       \* the session on the screen
  card,        \* the mounted question card, NoCard when there is none
  parked,      \* prompts parked on the server
  frames,      \* answers under way to the server, in order
  outcome,     \* [Prompts -> what the server settled it with]
  picks        \* history: the options the user picked, by prompt and question

dockVars == <<chatOf, askers, prompts, shown, card, parked, frames, outcome, picks>>

Questions == 1..Count
NoAnswers == [i \in Questions |-> {}]
NoCard == [req |-> NoPrompt, answers |-> NoAnswers, active |-> 1, timers |-> 0]
NewCard(r) == [NoCard EXCEPT !.req = r]

Init ==
  /\ chatOf \in [Prompts -> Chats] /\ askers \in SUBSET Prompts
  /\ prompts = [s \in Chats |-> <<>>]
  /\ shown \in Chats
  /\ card = NoCard
  /\ parked = {} /\ frames = <<>>
  /\ outcome = [r \in Prompts |-> {}]
  /\ picks = {}

-----------------------------------------------------------------------------
\* collectPending, and the one the dock shows: the first of them.
Pending(blocks) == {i \in DOMAIN blocks : ~blocks[i].resolved}

Current(blocks) ==
  IF Pending(blocks) = {} THEN NoPrompt
  ELSE blocks[CHOOSE i \in Pending(blocks) : \A j \in Pending(blocks) : i <= j].req

\* Without the key the card of a question stays for the next.
Unkeyed(old, r) ==
  IF r \notin askers THEN NoCard ELSE [old EXCEPT !.req = r]

\* The card is keyed by the request: another request mounts another card, whose
\* state is new; the timers of the old one change nothing any more.
Mounted(old, r) ==
  IF r \notin askers THEN NoCard ELSE IF old.req = r THEN old ELSE NewCard(r)

\* A render: the blocks, the session on the screen and the card of the dock.
Renders(blocks, s, old) ==
  prompts' = blocks /\ shown' = s /\ card' = Mounted(old, Current(blocks[s]))

CardBecomes(new) == Renders(prompts, shown, new)

Resolved(r) ==
  [prompts EXCEPT ![chatOf[r]] =
     [i \in DOMAIN @ |-> IF @[i].req = r THEN [@[i] EXCEPT !.resolved = TRUE] ELSE @[i]]]

Asked(r) == \E i \in DOMAIN prompts[chatOf[r]] : prompts[chatOf[r]][i].req = r

\* approval_request and question_request, parked and broadcast by the server.
Ask(r) ==
  /\ ~Asked(r)
  /\ parked' = parked \cup {r}
  /\ Renders([prompts EXCEPT ![chatOf[r]] = Append(@, [req |-> r, resolved |-> FALSE])],
             shown, card)
  /\ UNCHANGED <<chatOf, askers, frames, outcome, picks>>

\* An abort or another tab settles it: the tool_result resolves a question here, an
\* approval stays in the dock.
Settled(r) ==
  /\ r \in parked
  /\ parked' = parked \ {r}
  /\ IF r \in askers THEN Renders(Resolved(r), shown, card)
     ELSE UNCHANGED <<prompts, shown, card>>
  /\ UNCHANGED <<chatOf, askers, frames, outcome, picks>>

Show(s) ==
  /\ s # shown
  /\ Renders(prompts, s, card)
  /\ UNCHANGED <<chatOf, askers, parked, frames, outcome, picks>>

-----------------------------------------------------------------------------
(* question-card.tsx *)

Clicks == card.req # NoPrompt

\* handleSelectOption: a single choice moves on by itself, a little later.
SelectOption(o) ==
  /\ Clicks /\ card.timers < MaxTimers
  /\ LET i == card.active
         several == i \in Multi
         next == IF ~several THEN {o}
                 ELSE IF o \in card.answers[i] THEN card.answers[i] \ {o}
                 ELSE card.answers[i] \cup {o}
     IN  CardBecomes([card EXCEPT !.answers[i] = next,
           !.timers = IF several \/ i = Count THEN @ ELSE @ + 1])
  /\ picks' = picks \cup {<<card.req, card.active, o>>}
  /\ UNCHANGED <<chatOf, askers, parked, frames, outcome>>

Advances ==
  /\ card.timers > 0
  /\ CardBecomes([card EXCEPT !.timers = @ - 1,
                              !.active = IF @ < Count THEN @ + 1 ELSE @])
  /\ UNCHANGED <<chatOf, askers, parked, frames, outcome, picks>>

\* The progress dots go anywhere, Back and Next one step.
GoTo(i) ==
  /\ Clicks /\ i # card.active
  /\ CardBecomes([card EXCEPT !.active = i])
  /\ UNCHANGED <<chatOf, askers, parked, frames, outcome, picks>>

\* buildWireAnswers: what was left empty is not sent.
WireAnswers(answers) == {p \in Questions \X Options : p[2] \in answers[p[1]]}

Submit ==
  /\ Clicks
  /\ card.active = Count
  /\ WireAnswers(card.answers) # {}
  /\ frames' = Append(frames, [req |-> card.req, chat |-> shown, answers |-> WireAnswers(card.answers)])
  /\ Renders(Resolved(card.req), shown, card)
  /\ UNCHANGED <<chatOf, askers, parked, outcome, picks>>

-----------------------------------------------------------------------------
\* resolve of the dock: approve, approve for the session or reject.
Resolve(o) ==
  LET r == Current(prompts[shown]) IN
  /\ r \notin askers \cup {NoPrompt}
  /\ frames' = Append(frames, [req |-> r, chat |-> shown, answers |-> {<<1, o>>}])
  /\ picks' = picks \cup {<<r, 1, o>>}
  /\ Renders(Resolved(r), shown, card)
  /\ UNCHANGED <<chatOf, askers, parked, outcome>>

\* handleApproveTool, handleAnswerQuestion: not_found when the session has no such
\* prompt parked.
Handle ==
  /\ frames # <<>>
  /\ frames' = Tail(frames)
  /\ LET f == Head(frames)
         found == f.req \in parked /\ chatOf[f.req] = f.chat
     IN  /\ parked' = IF found THEN parked \ {f.req} ELSE parked
         /\ outcome' = IF found THEN [outcome EXCEPT ![f.req] = f.answers] ELSE outcome
  /\ UNCHANGED <<chatOf, askers, prompts, shown, card, picks>>

Next ==
  \/ \E r \in Prompts : Ask(r)
  \/ \E r \in Prompts : Settled(r)
  \/ \E s \in Chats : Show(s)
  \/ \E o \in Options : SelectOption(o)
  \/ Advances
  \/ \E i \in Questions : GoTo(i)
  \/ Submit
  \/ \E o \in Options : Resolve(o)
  \/ Handle

Spec == Init /\ [][Next]_dockVars

-----------------------------------------------------------------------------
\* pending-approval-dock.tsx:113 "local answer state never bleeds between queued
\* questions when the dock advances": a prompt is settled only with what the user
\* picked for it, and a click reaches the session that asked, once.
AnswersAreOwn ==
  /\ \A r \in Prompts : \A a \in outcome[r] : <<r, a[1], a[2]>> \in picks
  /\ \A i, j \in DOMAIN frames :
       /\ frames[i].chat = chatOf[frames[i].req]
       /\ frames[i].req = frames[j].req => i = j

-----------------------------------------------------------------------------
\* What keeps them own.
AnyAnswers == SUBSET (Questions \X Options)

Shapes ==
  /\ chatOf \in [Prompts -> Chats] /\ shown \in Chats /\ askers \subseteq Prompts
  /\ prompts \in [Chats -> Seq([req : Prompts, resolved : BOOLEAN])]
  /\ card \in [req : Prompts \cup {NoPrompt}, answers : [Questions -> SUBSET Options],
              active : Questions, timers : Nat]
  /\ frames \in Seq([req : Prompts, chat : Chats, answers : AnyAnswers])
  /\ outcome \in [Prompts -> AnyAnswers]

\* A prompt is a block once, of the session that asked; the card is of the one shown.
BlocksAreOnce ==
  \A s \in Chats : \A i, j \in DOMAIN prompts[s] :
    /\ chatOf[prompts[s][i].req] = s
    /\ prompts[s][i].req = prompts[s][j].req => i = j

CardIsOfCurrent ==
  /\ card.req # NoPrompt => card.req = Current(prompts[shown])
  /\ \A i \in Questions : \A o \in card.answers[i] : <<card.req, i, o>> \in picks

\* An answer on its way holds what was picked, and its click resolved the block.
FramesArePicked ==
  \A i \in DOMAIN frames :
    /\ \A a \in frames[i].answers : <<frames[i].req, a[1], a[2]>> \in picks
    /\ LET blocks == prompts[chatOf[frames[i].req]]
       IN  \E k \in DOMAIN blocks : blocks[k].req = frames[i].req /\ blocks[k].resolved

InductiveInv ==
  Shapes /\ BlocksAreOnce /\ CardIsOfCurrent /\ FramesArePicked /\ AnswersAreOwn

=============================================================================
