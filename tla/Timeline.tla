-------------------------------- MODULE Timeline --------------------------------
(***************************************************************************)
(* From a session's blocks to what the transcript shows: the tab's blocks   *)
(* as its events build them (client/src/lib/chat-store.ts), subagents put  *)
(* together with the call that started them (components/transcript.tsx),   *)
(* runs of activity collected on rails (timeline/group-rail-segments.ts),  *)
(* and the rows of a rail (timeline/activity-timeline.tsx).                *)
(***************************************************************************)
EXTENDS SequencesExt

CONSTANTS
  Calls, Agents, Asks,   \* tool calls; those that start a subagent, that ask the user
  NoCall,
  MaxBlocks              \* bound: blocks of the transcript

VARIABLE blocks          \* sequence of blocks: what it is, and the call it is about

Block(kind, c) == [kind |-> kind, call |-> c]
Has(kind, c) == \E i \in DOMAIN blocks : blocks[i] = Block(kind, c)
IndexOf(kind, c) == CHOOSE i \in DOMAIN blocks : blocks[i] = Block(kind, c)

Init == blocks = <<>>

-----------------------------------------------------------------------------
(* chat-store.ts applyEventToBlocks *)

Room == Len(blocks) < MaxBlocks

\* A user block, text or a cancelled marker stands alone, thinking and errors do not.
Says == Room /\ \E kind \in {"text", "thinking"} : blocks' = Append(blocks, Block(kind, NoCall))

ToolCall(c) ==
  /\ Room /\ ~Has("call", c)
  /\ blocks' = Append(blocks, Block("call", c))

\* A subagent comes right behind its call, whatever followed it.
SubagentEvent(c) ==
  /\ Room /\ Has("call", c) /\ ~Has("result", c) /\ ~Has("subagent", c)
  /\ blocks' = InsertAt(blocks, IndexOf("call", c) + 1, Block("subagent", c))

ApprovalRequest(c) ==
  /\ Room /\ Has("call", c) /\ ~Has("result", c)
  /\ ~Has("approval", c) /\ ~Has("resolved", c)
  /\ blocks' = Append(blocks, Block("approval", c))

ApprovalResponse(c) ==
  /\ Has("approval", c)
  /\ blocks' = [blocks EXCEPT ![IndexOf("approval", c)] = Block("resolved", c)]

QuestionRequest(c) ==
  /\ Room /\ Has("call", c) /\ ~Has("result", c) /\ ~Has("question", c)
  /\ blocks' = Append(blocks, Block("question", c))

\* Always at the end; results of parallel calls come in any order.
ToolResult(c) ==
  /\ Room /\ Has("call", c) /\ ~Has("result", c)
  /\ blocks' = Append(blocks, Block("result", c))

Next ==
  \/ Says
  \/ \E c \in Calls : ToolCall(c)
  \/ \E c \in Agents : SubagentEvent(c)
  \/ \E c \in Calls \ (Agents \cup Asks) : ApprovalRequest(c)
  \/ \E c \in Calls : ApprovalResponse(c)
  \/ \E c \in Asks : QuestionRequest(c)
  \/ \E c \in Calls : ToolResult(c)

Spec == Init /\ [][Next]_blocks

-----------------------------------------------------------------------------
(* What is shown; a block is named by its place, and rows by that of their first. *)

\* bundleSubagents: the call takes its subagent and its result.
Bundled(i) == Has("subagent", blocks[i].call)
Bundles(i) == blocks[i].kind = "call" /\ Bundled(i)
Consumed(i) == blocks[i].kind \in {"subagent", "result"} /\ Bundled(i)

Items == {i \in DOMAIN blocks : ~Consumed(i)}

OnRail(i) ==
  /\ blocks[i].kind \in {"thinking", "call", "result", "approval", "resolved"}
  /\ ~Bundles(i)

Alone == {i \in Items : ~OnRail(i)}

\* groupRail: a run of rail blocks is one segment, anything else one of its own.  The
\* buffer after the n-th block:
Buffer[n \in 0..Len(blocks)] ==
  IF n = 0 \/ n \in Alone THEN {}
  ELSE IF n \in Items THEN Buffer[n - 1] \cup {n} ELSE Buffer[n - 1]

Flush(n) == {Buffer[n]} \ {{}}

\* Without the flush behind the last item.
Unflushed == UNION {Flush(i - 1) : i \in Alone}
GroupRail == Unflushed \cup Flush(Len(blocks))

\* buildRows: the row of place i on this rail, or none.
Mates(rail, i, kind) == {j \in rail : blocks[j] = Block(kind, blocks[i].call)}

HasRow(rail, i) ==
  CASE blocks[i].kind \in {"result", "approval"} -> Mates(rail, i, "call") = {}
    [] blocks[i].kind = "resolved" -> FALSE
    [] OTHER -> TRUE

\* A call's row shows its result and its approval, a lone result's the approval.
Shows(rail, i) ==
  {i} \cup CASE blocks[i].kind = "call" ->
                  UNION {Mates(rail, i, k) : k \in {"result", "approval", "resolved"}}
             [] blocks[i].kind = "result" -> Mates(rail, i, "resolved")
             [] OTHER -> {}

BuildRows(rail) ==
  {[at |-> i, shows |-> Shows(rail, i)] : i \in {j \in rail : HasRow(rail, j)}}

\* A bundle is a row of its own, with its subagent and its result.
BundleOf(i) ==
  {i} \cup {j \in DOMAIN blocks :
              Bundles(i) /\ Consumed(j) /\ blocks[j].call = blocks[i].call}

Rows ==
  (UNION {BuildRows(rail) : rail \in GroupRail})
    \cup {[at |-> i, shows |-> BundleOf(i)] : i \in Alone}

\* statusOf: a call's row spins while the row has no result, nor waits for the user.
Running(r) ==
  /\ \E i \in r.shows : blocks[i].kind = "call" /\ ~Bundles(i)
  /\ \A i \in r.shows : blocks[i].kind \notin {"result", "approval"}

-----------------------------------------------------------------------------
\* Every block is shown in one row, and the rows are in the order of their first
\* blocks; only a decision that was taken shows nowhere when its call is elsewhere.
EachShownOnce ==
  /\ \A i \in DOMAIN blocks :
       LET in == {r \in Rows : i \in r.shows} IN
       \/ \E r \in in : in = {r}
       \/ in = {} /\ blocks[i].kind = "resolved"
  /\ \A r, s \in Rows :
       /\ r.at = s.at => r = s
       /\ r.at < s.at => \E i \in r.shows : \A j \in s.shows :
                           i < j \/ blocks[j].kind = "resolved"

\* A call still spins after its result only if a block that stands alone, or a
\* bundle, came between them.
SpinsOnlyWhenSplit ==
  \A r \in Rows : Running(r) =>
    \A i \in r.shows, j \in DOMAIN blocks :
      blocks[i].kind = "call" /\ blocks[j] = Block("result", blocks[i].call) =>
        \E k \in Alone : i < k /\ k < j

TimelineIsTrue == EachShownOnce /\ SpinsOnlyWhenSplit

\* chat-store.ts:184 "the timeline derives status from whether a tool_result is
\* present": a call whose result is there does not spin.
StopsWithResult ==
  \A r \in Rows : Running(r) => \A i \in r.shows : ~Has("result", blocks[i].call)

-----------------------------------------------------------------------------
\* What keeps it so.  Only text and thinking are about no call.
Kinds ==
  {"text", "thinking", "call", "subagent", "approval", "resolved", "question", "result"}

Shapes ==
  /\ blocks \in Seq([kind : Kinds, call : Calls \cup {NoCall}])
  /\ \A i \in DOMAIN blocks :
       blocks[i].call = NoCall <=> blocks[i].kind \in {"text", "thinking"}

\* Of each kind a call has one block, and one approval, resolved or not.
Role(kind) == IF kind = "resolved" THEN "approval" ELSE kind

Once ==
  \A i, j \in DOMAIN blocks :
    /\ blocks[i].call # NoCall /\ blocks[i].call = blocks[j].call
    /\ Role(blocks[i].kind) = Role(blocks[j].kind)
    => i = j

\* The call comes first.
CallFirst ==
  \A i \in DOMAIN blocks : blocks[i].call # NoCall =>
    \E j \in DOMAIN blocks : j <= i /\ blocks[j] = Block("call", blocks[i].call)

InductiveInv == Shapes /\ Once /\ CallFirst

=============================================================================
