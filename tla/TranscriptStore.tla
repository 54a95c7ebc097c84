---------------------------- MODULE TranscriptStore ----------------------------
(***************************************************************************)
(* The transcript of one session: the lines the agent's process writes,    *)
(* their mirror in Postgres (server/src/services/agent/session-store.ts)   *)
(* and what a snapshot shows of it (agent/transcript-render.ts).  A batch  *)
(* is appended again when its answer is lost; a process that ends takes    *)
(* with it what was not mirrored, and the next one starts from load().     *)
(***************************************************************************)
EXTENDS Naturals, FiniteSets, Sequences

CONSTANTS
  MaxLines,   \* bound: lines written, also by processes that ended
  Tasks,      \* the calls that run a subagent, by their uuid
  MaxFaults,  \* bound: failed appends, lost answers and ended processes
  Interleaves \* may a tool's result be written between blocks of its message?

VARIABLES
  local,     \* the lines of the process's file
  rows,      \* the lines in session_store_entries, by id
  sent,      \* how many of local the SDK knows to be mirrored
  agents,    \* [Tasks -> the files of its subagent as mirrored]
  up,        \* is the process alive
  deleted,   \* was the session deleted
  written,   \* how many lines were ever written
  msg, idx,  \* the assistant message that may go on, and its next block
  faults

streamVars == <<local, written, msg, idx>>
storeVars == <<rows, sent, agents>>
transcriptVars == <<streamVars, storeVars, up, deleted, faults>>

\* A line: its uuid (0: none), what it is, and for a block its place in its
\* message.  A tool call's id is its uuid; a result names its call.
Line(t, m, n, c) == [u |-> IF t = "title" THEN 0 ELSE written + 1,
                     t |-> t, m |-> m, n |-> n, c |-> c]

\* Of the Tasks' subagents: "none" written yet, "linked" when the meta entry names
\* the call, "bare" when only the call's result does.
AgentFiles == {"none", "linked", "bare"}

Fault == faults < MaxFaults /\ faults' = faults + 1

Init ==
  /\ local = <<>> /\ rows = <<>> /\ sent = 0
  /\ agents = [c \in Tasks |-> "none"]
  /\ up = TRUE /\ deleted = FALSE
  /\ written = 0 /\ msg = 0 /\ idx = 0
  /\ faults = 0

-----------------------------------------------------------------------------
(* The agent's process, as the SDK documents it.                           *)

CallsOf(s) == {s[i].c : i \in {j \in DOMAIN s : s[j].t = "call"}}
ResultsOf(s) == {s[i].c : i \in {j \in DOMAIN s : s[j].t = "result"}}
Waiting == CallsOf(local) \ ResultsOf(local)

Write(l, m, n) ==
  /\ up /\ written < MaxLines
  /\ local' = Append(local, l) /\ written' = written + 1 /\ msg' = m /\ idx' = n
  /\ UNCHANGED <<storeVars, up, deleted, faults>>

WritePrompt == Write(Line("prompt", 0, 0, 0), 0, 0)
WriteTitle == Write(Line("title", 0, 0, 0), msg, idx)

\* A block of the message under way, or of a new one once its calls returned.
WriteBlock ==
  \E t \in {"text", "call"} :
    LET c == IF t = "call" THEN written + 1 ELSE 0 IN
    \/ msg # 0 /\ Write(Line(t, msg, idx, c), msg, idx + 1)
    \/ Waiting = {} /\ Write(Line(t, written + 1, 0, c), written + 1, 1)

WriteResult ==
  \E c \in Waiting :
    IF Interleaves THEN Write(Line("result", 0, 0, c), msg, idx)
    ELSE Write(Line("result", 0, 0, c), 0, 0)

-----------------------------------------------------------------------------
(* session-store.ts *)

Has(s, u) == u # 0 /\ \E i \in DOMAIN s : s[i].u = u

\* An INSERT that gives up on the batch for one conflict.
InsertWholeOrNot(batch) ==
  IF \E i \in DOMAIN batch : Has(rows, batch[i].u) THEN rows ELSE rows \o batch

\* ON CONFLICT (..., entry_uuid) WHERE entry_uuid IS NOT NULL DO NOTHING.
InsertLine(r, l) == IF Has(r, l.u) THEN r ELSE Append(r, l)

InsertNew(batch) ==
  LET After[k \in 0..Len(batch)] ==
        IF k = 0 THEN rows ELSE InsertLine(After[k - 1], batch[k])
  IN  After[Len(batch)]

\* The SDK flushes what it has not seen mirrored, and again when that fails or
\* the answer is lost; the last flush may come after the session was deleted.
AppendBatch ==
  /\ up
  /\ \E k \in (sent + 1)..Len(local) :
       LET batch == SubSeq(local, sent + 1, k) IN
       \/ rows' = InsertNew(batch) /\ sent' = k /\ UNCHANGED faults
       \/ Fault /\ UNCHANGED sent /\ rows' \in {rows, InsertNew(batch)}
  /\ UNCHANGED <<streamVars, agents, up, deleted>>

\* The files of a Task's subagent, under a subpath of their own.
AppendAgent ==
  /\ up
  /\ \E c \in CallsOf(local) \cap Tasks : agents[c] = "none" /\
       \E a \in AgentFiles \ {"none"} : agents' = [agents EXCEPT ![c] = a]
  /\ UNCHANGED <<streamVars, rows, sent, up, deleted, faults>>

\* The server restarts, the session is torn down or its query is replaced.
ProcessEnds ==
  /\ up /\ IF deleted THEN UNCHANGED faults ELSE Fault
  /\ up' = FALSE
  /\ UNCHANGED <<streamVars, storeVars, deleted>>

\* clearLocalSession, then load(): the file is what the store has.  Whether the
\* SDK appends it again is its own affair.
Resume ==
  /\ ~up /\ ~deleted /\ up' = TRUE
  /\ local' = rows /\ sent' \in {0, Len(rows)}
  /\ msg' = 0 /\ idx' = 0
  /\ UNCHANGED <<written, rows, agents, deleted, faults>>

\* deleteStoreEntries: the main transcript and every subpath.
DeleteEntries ==
  /\ ~deleted /\ deleted' = TRUE
  /\ rows' = <<>> /\ agents' = [c \in Tasks |-> "none"]
  /\ UNCHANGED <<streamVars, sent, up, faults>>

Next ==
  \/ WritePrompt \/ WriteTitle \/ WriteBlock \/ WriteResult
  \/ AppendBatch \/ AppendAgent \/ ProcessEnds \/ Resume \/ DeleteEntries

Spec == Init /\ [][Next]_transcriptVars

-----------------------------------------------------------------------------
(* transcript-render.ts: the blocks of a snapshot, each with its place <<i, j>>: *)
(* the line it is of, or what was spliced in behind that line's block.     *)

Blocks == {"text", "call"}

Shown == {i \in DOMAIN rows : rows[i].t # "title"}

\* contentBlockIndex: the assistant lines of this message since another line.
BlockIndex(i) ==
  Cardinality({j \in Shown : j < i /\ \A k \in Shown : j <= k /\ k < i =>
                                rows[k].t \in Blocks /\ rows[k].m = rows[i].m})

BlockOf(i) ==
  [k |-> rows[i].t, at |-> <<i, 0>>,
   id |-> CASE rows[i].t = "text" -> <<rows[i].m, BlockIndex(i)>>
            [] rows[i].t = "prompt" -> <<rows[i].u, 0>>
            [] OTHER -> <<rows[i].c, 0>>]

RenderTranscript == {BlockOf(i) : i \in Shown}

\* The first tool_call block of this id.
IsCallOf(i, c) ==
  /\ i \in Shown /\ rows[i].t = "call" /\ rows[i].c = c
  /\ \A j \in Shown : j < i => rows[j].t # "call" \/ rows[j].c # c

\* attachSubagents: behind the parent's call when the parent is known and shown,
\* else at the end.
ParentIsKnown(c) == agents[c] = "linked" \/ c \in ResultsOf(rows)

PlaceOf(c) ==
  IF ParentIsKnown(c) /\ \E i \in Shown : IsCallOf(i, c)
  THEN <<CHOOSE i \in Shown : IsCallOf(i, c), 2>> ELSE <<Len(rows) + 1, 0>>

AttachSubagents ==
  {[k |-> "subagent", at |-> PlaceOf(c), id |-> <<c, 0>>] :
     c \in {a \in Tasks : agents[a] # "none"}}

\* synthesizeInterruptedResults: right behind each call that has no result.
SynthesizeInterrupted ==
  {[k |-> "interrupted", at |-> <<i, 1>>, id |-> <<rows[i].c, 0>>] :
     i \in {j \in Shown : IsCallOf(j, rows[j].c) /\ rows[j].c \notin ResultsOf(rows)}}

Snapshot(terminal) ==
  RenderTranscript \cup AttachSubagents \cup (IF terminal THEN SynthesizeInterrupted ELSE {})

Before(b, d) == b.at[1] < d.at[1] \/ (b.at[1] = d.at[1] /\ b.at[2] < d.at[2])

-----------------------------------------------------------------------------
\* By uuid, that is in the order they were written, and none twice.
InOrder(s) ==
  \A i, j \in DOMAIN s : i < j /\ s[i].u # 0 /\ s[j].u # 0 => s[i].u < s[j].u

LinesOf(s, D) == {s[i] : i \in {j \in D : s[j].u # 0}}

\* Whatever was lost, failed or repeated, the store has of the lines that carry
\* a uuid a gapless run, each once and in the order they were written.
StoreIsRun ==
  /\ InOrder(rows)
  /\ \E a, b \in 0..Len(local) : LinesOf(rows, DOMAIN rows) = LinesOf(local, a + 1 .. b)

\* A snapshot of a session at rest shows for each tool call exactly one outcome,
\* its result or that it was interrupted, and shows it after the call; that of a
\* running turn shows no outcome the tool did not have.  A subagent whose call is
\* known and shown comes before whatever followed the call, but for its halt.
EveryCallHasOneOutcome ==
  \A terminal \in BOOLEAN :
    LET bs == Snapshot(terminal)
        Outcomes(b) == {o \in bs : o.k \in {"result", "interrupted"} /\ o.id = b.id} IN
      \A b \in bs : b.k = "call" =>
        /\ \A o, p \in Outcomes(b) : o = p
        /\ terminal => Outcomes(b) # {}
        /\ \A o \in Outcomes(b) :
             /\ Before(b, o)
             /\ o.k = "interrupted" =>
                  /\ terminal /\ b.id[1] \notin ResultsOf(rows)
                  /\ \A d \in bs : ~(Before(b, d) /\ Before(d, o))
        /\ \A a \in bs : a.k = "subagent" /\ a.id = b.id /\ ParentIsKnown(b.id[1]) =>
             /\ Before(b, a)
             /\ \A d \in bs : Before(b, d) /\ Before(d, a) => d.k = "interrupted"

\* A reload gives each block of the assistant the id it had when it was streamed:
\* its message and its place in that message.  No two blocks share one.
IdsAreStable ==
  ~deleted =>
    /\ \A b, d \in RenderTranscript : b.k = d.k /\ b.id = d.id => b = d
    /\ \A i \in Shown : rows[i].t = "text" => BlockOf(i).id = <<rows[i].m, rows[i].n>>

-----------------------------------------------------------------------------
\* What keeps it so.  A line: only a title has no uuid; a message has that of its first
\* block, a call its own, a result a later one than its call.
Lines ==
  {l \in [u : Nat, t : {"prompt", "title", "text", "call", "result"}, m : Nat, n : Nat, c : Nat] :
     /\ l.u = 0 <=> l.t = "title"
     /\ l.t \in Blocks => l.m # 0 /\ l.m <= l.u /\ (l.n = 0 => l.m = l.u)
     /\ l.t = "call" => l.c = l.u
     /\ l.t = "result" => l.c < l.u}

Shapes ==
  /\ local \in Seq(Lines) /\ sent \in 0..Len(local) /\ agents \in [Tasks -> AgentFiles]
  /\ up \in BOOLEAN /\ deleted \in BOOLEAN
  /\ written \in Nat /\ msg \in 0..written /\ idx \in Nat /\ (msg # 0 => idx # 0)
  /\ \A i \in DOMAIN local : local[i].u <= written

ResultsOnce ==
  \A i, j \in DOMAIN local :
    local[i].t = "result" /\ local[j].t = "result" /\ local[i].c = local[j].c => i = j

\* Place j of s is block n of message m, and only titles follow it before place i.
Precedes(s, j, i, m, n) ==
  /\ j < i /\ s[j].t \in Blocks /\ s[j].m = m /\ s[j].n = n
  /\ \A k \in DOMAIN s : j < k /\ k < i => s[k].t = "title"

Follows(s, i, m, n) == n = 0 \/ \E j \in DOMAIN s : Precedes(s, j, i, m, n - 1)

Together(s) ==
  \A i \in DOMAIN s : s[i].t \in Blocks => Follows(s, i, s[i].m, s[i].n)

\* The message that may go on is at the end.
Continues == msg # 0 => Follows(local, Len(local) + 1, msg, idx)

\* r has, in order, the lines with a uuid behind place a up to some place b: all that is
\* known to be mirrored, and all up to place q.
Mirrors(r, q) ==
  /\ r \in Seq(Lines) /\ InOrder(r)
  /\ \E a, b \in 0..Len(local) :
       /\ a <= sent /\ q <= b /\ (~deleted => a = 0)
       /\ LinesOf(r, DOMAIN r) = LinesOf(local, a + 1 .. b)

InductiveInv ==
  /\ Shapes /\ InOrder(local) /\ ResultsOnce /\ Together(local) /\ Continues
  /\ Mirrors(rows, sent)

=============================================================================
