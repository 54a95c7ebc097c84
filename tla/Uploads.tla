--------------------------------- MODULE Uploads ---------------------------------
(***************************************************************************)
(* Requests that write one path: POST /api/files/upload, which streams a   *)
(* part of the body to the disk and removes what it wrote when the part    *)
(* fails or is over the limit, and PUT /api/files/write (routes/files).    *)
(* A file is an inode, as for the system calls beneath: one that is opened *)
(* again is emptied, and one that is unlinked is still written by those    *)
(* who have it open.                                                       *)
(***************************************************************************)
EXTENDS Naturals, FiniteSets

CONSTANTS
  Reqs,        \* the requests
  Writes,      \* those of them that are PUT /write
  None,
  MaxFaults    \* bound: bodies cut off, disks that fail, files removed by the agent

VARIABLES
  link,        \* the inode at the path, 0 when there is none
  made,        \* inodes made
  bytes,       \* [inode -> those whose bytes are in it]
  at,          \* [Reqs -> the stage of the request]
  open,        \* [Reqs -> the inode it has open, or 0]
  outcome,     \* [Reqs -> what it was answered, or None]
  orphan,      \* history: requests whose file was unlinked by another since they opened it
  faults

uploadVars == <<link, made, bytes, at, open, outcome, orphan, faults>>

Init ==
  /\ link \in {0, 1} /\ made = 1                 \* inode 1: a file of before
  /\ bytes = [i \in 0..(Cardinality(Reqs) + 1) |-> {}]
  /\ at = [r \in Reqs |-> "idle"]
  /\ open = [r \in Reqs |-> 0]
  /\ outcome = [r \in Reqs |-> None]
  /\ orphan = {} /\ faults = 0

GoesTo(r, stage) == at' = [at EXCEPT ![r] = stage]
Answers(r, what) == outcome' = [outcome EXCEPT ![r] = what]
Unlink == link' = 0 /\ orphan' = orphan \cup {r \in Reqs : open[r] = link /\ link # 0}
Disk == <<link, made, bytes>>

Fails == faults < MaxFaults /\ faults' = faults + 1

\* The path is resolved and is no directory; a part that comes before the path, one that
\* is not multipart, or a body over the limit of /write is refused here.
Begin(r) ==
  /\ at[r] = "idle"
  /\ \/ GoesTo(r, "checked") /\ UNCHANGED outcome
     \/ GoesTo(r, "over") /\ Answers(r, "refused")
  /\ UNCHANGED <<Disk, open, orphan, faults>>

\* mkdir of the parent, which may fail, outside of the try; then the writer.
Open(r) ==
  /\ at[r] = "checked"
  /\ made' = IF link = 0 THEN made + 1 ELSE made
  /\ link' = IF link = 0 THEN made' ELSE link
  /\ bytes' = [bytes EXCEPT ![link'] = {}]
  /\ open' = [open EXCEPT ![r] = link']
  /\ GoesTo(r, "open")
  /\ UNCHANGED <<outcome, orphan, faults>>

\* An upload that dies of an exception outside of the try is not answered; the handler of
\* /write throws into Hono, which answers 500.
Dies(r) ==
  /\ GoesTo(r, "over")
  /\ IF r \in Writes THEN Answers(r, "error") ELSE UNCHANGED outcome

MkdirFails(r) ==
  /\ at[r] = "checked" /\ Fails
  /\ Dies(r)
  /\ UNCHANGED <<Disk, open, orphan>>

Write(r) ==
  /\ at[r] = "open" /\ r \notin bytes[open[r]]
  /\ bytes' = [bytes EXCEPT ![open[r]] = @ \cup {r}]
  /\ UNCHANGED <<link, made, at, open, outcome, orphan, faults>>

\* The part ends, within the limit or cut off at it.
EndOfPart(r) ==
  /\ at[r] = "open"
  /\ \/ GoesTo(r, "ended")
     \/ r \notin Writes /\ GoesTo(r, "limited")
  /\ UNCHANGED <<Disk, open, outcome, orphan, faults>>

\* The stream or the disk fails in mid-part.
PartFails(r) ==
  /\ at[r] = "open" /\ Fails
  /\ IF r \in Writes THEN Dies(r) ELSE GoesTo(r, "failed") /\ UNCHANGED outcome
  /\ UNCHANGED <<Disk, open, orphan>>

\* The client goes away: the part neither ends nor fails, as pipe passes no error on.
BodyIsCut(r) ==
  /\ at[r] = "open" /\ r \notin Writes /\ Fails
  /\ GoesTo(r, "over")
  /\ UNCHANGED <<Disk, open, outcome, orphan>>

\* What a part over the limit wrote stays.
LimitedStays(r) ==
  /\ at[r] \in {"limited", "failed"}
  /\ IF at[r] = "failed" THEN Unlink ELSE UNCHANGED <<link, orphan>>
  /\ GoesTo(r, "over")
  /\ Answers(r, IF at[r] = "limited" THEN "too_large" ELSE "error")
  /\ UNCHANGED <<made, bytes, open, faults>>

\* The writer was ended before; unlink, whose error does not matter, then the answer.
Refuse(r) ==
  /\ at[r] \in {"limited", "failed"}
  /\ Unlink
  /\ GoesTo(r, "over")
  /\ Answers(r, IF at[r] = "limited" THEN "too_large" ELSE "error")
  /\ UNCHANGED <<made, bytes, open, faults>>

\* chmod, which needs the file at its path still, and the answer.
Accept(r) ==
  /\ at[r] = "ended"
  /\ IF link = 0 THEN Dies(r) ELSE GoesTo(r, "over") /\ Answers(r, "ok")
  /\ UNCHANGED <<Disk, open, orphan, faults>>

\* The agent removes the file.
AgentRemoves ==
  /\ link # 0 /\ Fails
  /\ Unlink
  /\ UNCHANGED <<made, bytes, at, open, outcome>>

Next ==
  \/ \E r \in Reqs : Begin(r)
  \/ \E r \in Reqs : Open(r)
  \/ \E r \in Reqs : MkdirFails(r)
  \/ \E r \in Reqs : Write(r)
  \/ \E r \in Reqs : EndOfPart(r)
  \/ \E r \in Reqs : PartFails(r)
  \/ \E r \in Reqs \ Writes : BodyIsCut(r)
  \/ \E r \in Reqs : Refuse(r)
  \/ \E r \in Reqs : Accept(r)
  \/ AgentRemoves

Spec == Init /\ [][Next]_uploadVars

-----------------------------------------------------------------------------
\* routes/files.ts:285-301: an upload that was told it is too large or that it failed has
\* left no byte at the path, whoever else writes there.
RefusedLeavesNothing ==
  \A r \in Reqs \ Writes :
    outcome[r] \in {"too_large", "error"} /\ link # 0 => r \notin bytes[link]

\* One that was accepted is there in full or was overwritten, unless another unlinked it.
AcceptedIsThere ==
  \A r \in Reqs :
    outcome[r] = "ok" /\ r \notin orphan => link = open[r]

UploadsAreClean == RefusedLeavesNothing /\ AcceptedIsThere

-----------------------------------------------------------------------------
\* What keeps them so: a request opens one inode, which is at the path until another
\* unlinks it, and it answers when it is over.
Stages == {"idle", "checked", "open", "ended", "limited", "failed", "over"}
Opened == {r \in Reqs : at[r] \notin {"idle", "checked"}}

Inodes ==
  /\ made \in Nat /\ link \in 0..made
  /\ made <= Cardinality(Opened) + 1
  /\ bytes \in [0..(Cardinality(Reqs) + 1) -> SUBSET Reqs]

Requests ==
  /\ at \in [Reqs -> Stages]
  /\ open \in [Reqs -> Nat]
  /\ outcome \in [Reqs -> {None, "ok", "refused", "too_large", "error"}]
  /\ orphan \subseteq Reqs
  /\ \A r \in Reqs :
       /\ at[r] \in {"idle", "checked"} => open[r] = 0
       /\ at[r] \in {"open", "ended", "limited", "failed"} => open[r] # 0
       /\ outcome[r] # None => at[r] = "over"
       /\ outcome[r] = "ok" => open[r] # 0

OpenIsLinked == \A r \in Reqs : open[r] # 0 /\ r \notin orphan => link = open[r]

InductiveInv == Inodes /\ Requests /\ OpenIsLinked /\ RefusedLeavesNothing

=============================================================================
