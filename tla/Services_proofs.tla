----------------------------- MODULE Services_proofs -----------------------------
(***************************************************************************)
(* Theorems about the services of MC_Services, for any requests, users,    *)
(* bounds and interleavings.  A behaviour is of one part and stays of it;  *)
(* each section takes one part: its inductive invariant is defined with    *)
(* the component, in the names of its variables, and a comment names the   *)
(* v1, v2, ... that stand for them here.                                   *)
(***************************************************************************)
EXTENDS MC_Services, Integers, Sequences, TLAPS, FiniteSetTheorems, SequenceTheorems,
        WellFoundedInduction

USE DEF InGit, InStore, InUsers, InFiles, InLimit, InRail, InDock, InPanel, InComp,
        InList, InGate, InModels, InBrowse, InUpload, InCreds, InSlash, InForms,
        InStarts

(* A step is of the part its behaviour is of.                              *)
LEMMA PartStays == [Next]_vars => part' = part
  BY DEF Next, vars

(* The elements of a sequence.                                             *)
LEMMA SeqElements ==
  ASSUME NEW S, NEW q \in Seq(S)
  PROVE  /\ \A i \in DOMAIN q : q[i] \in S
         /\ DOMAIN q = 1..Len(q) /\ Len(q) \in Nat /\ DOMAIN q \subseteq Nat
  BY ElementOfSeq, LenProperties

(* A set of natural numbers that is not empty has a least one.             *)
LEMMA HasLeast ==
  ASSUME NEW S \in SUBSET Nat, S # {}
  PROVE  \E i \in S : \A j \in S : i <= j
<1> DEFINE LT == {p \in Nat \X Nat : p[1] < p[2]}
<1>1. IsWellFoundedOn(LT, Nat)
  BY NatLessThanWellFounded DEF OpToRel
<1> HIDE DEF LT
<1>2. PICK i \in S : \A j \in S : ~ (<<j, i>> \in LT)
  BY <1>1, WFMin
<1>3. ASSUME NEW j \in S, ~(i <= j)
      PROVE  FALSE
  <2>1. <<j, i>> \in LT
    BY <1>3 DEF LT
  <2> QED
    BY <1>2, <2>1
<1> QED
  BY <1>3

LEMMA UploadSteps ==
  ASSUME part = "upload", [Next]_vars
  PROVE  UP!Next \/ UNCHANGED UP!uploadVars
  BY DEF Next, vars, UP!Next, UP!uploadVars

LEMMA UploadStarts == Init /\ part = "upload" => UP!Init
  BY DEF Init

-----------------------------------------------------------------------------
(* Uploads: v1 link, v2 made, v3 bytes, v4 at, v5 open, v6 outcome,        *)
(* v7 orphan, v8 faults.                                                   *)

(* None is no answer, and there are finitely many requests.                *)
UploadAssumptions ==
  /\ None \notin {"ok", "refused", "too_large", "error"}
  /\ IsFiniteSet(Reqs)

LEMMA UploadCardinality == ASSUME NEW S PROVE UP!Cardinality(S) = Cardinality(S)
  BY DEF UP!Cardinality, Cardinality

LEMMA UploadInit == ASSUME UploadAssumptions, UP!Init PROVE UP!InductiveInv
<1>1. UP!Opened = {}
  BY DEF UP!Init, UP!Opened
<1>2. Cardinality(UP!Opened) = 0 /\ Cardinality(Reqs) \in Nat
  BY <1>1, FS_EmptySet, FS_CardinalityType DEF UploadAssumptions
<1>3. UP!Inodes
  BY <1>2, UploadCardinality DEF UP!Init, UP!Inodes
<1>4. UP!Requests
  BY DEF UP!Init, UP!Requests, UP!Stages, UploadAssumptions
<1>5. UP!OpenIsLinked /\ UP!RefusedLeavesNothing
  BY DEF UP!Init, UP!OpenIsLinked, UP!RefusedLeavesNothing, UploadAssumptions
<1> QED
  BY <1>3, <1>4, <1>5 DEF UP!InductiveInv

(* Opening its file is the one step after which a request counts as opened *)
(* and the only one that may make an inode.                                *)
LEMMA UploadCounts ==
  ASSUME UploadAssumptions, NEW r \in Reqs
  PROVE  /\ UP!Cardinality(Reqs) \in Nat
         /\ UP!Cardinality(UP!Opened) \in Nat
         /\ UP!Cardinality(UP!Opened \cup {r}) \in Nat
         /\ UP!Cardinality(UP!Opened \cup {r}) <= UP!Cardinality(Reqs)
         /\ UP!Cardinality(UP!Opened) <= UP!Cardinality(UP!Opened \cup {r})
         /\ r \notin UP!Opened =>
              UP!Cardinality(UP!Opened \cup {r}) = UP!Cardinality(UP!Opened) + 1
<1>1. UP!Opened \cup {r} \subseteq Reqs /\ UP!Opened \subseteq Reqs /\ IsFiniteSet(Reqs)
  BY DEF UP!Opened, UploadAssumptions
<1>2. /\ IsFiniteSet(UP!Opened) /\ IsFiniteSet(UP!Opened \cup {r})
      /\ Cardinality(UP!Opened \cup {r}) <= Cardinality(Reqs)
  BY <1>1, FS_Subset
<1>3. /\ Cardinality(UP!Opened) \in Nat /\ Cardinality(Reqs) \in Nat
      /\ Cardinality(UP!Opened \cup {r}) \in Nat
  BY <1>1, <1>2, FS_CardinalityType
<1>4. r \notin UP!Opened => Cardinality(UP!Opened \cup {r}) = Cardinality(UP!Opened) + 1
  BY <1>2, FS_AddElement
<1>5. r \in UP!Opened => UP!Opened \cup {r} = UP!Opened
  OBVIOUS
<1> QED
  BY <1>2, <1>3, <1>4, <1>5, UploadCardinality

LEMMA UploadMade ==
  ASSUME UploadAssumptions, UP!Inodes, NEW r \in Reqs
  PROVE  /\ v2 <= UP!Cardinality(UP!Opened) + 1
         /\ v2 <= UP!Cardinality(UP!Opened \cup {r}) + 1
<1>1. v2 <= UP!Cardinality(UP!Opened) + 1 /\ v2 \in Nat
  BY DEF UP!Inodes
<1> QED
  BY <1>1, UploadCounts

LEMMA UploadNext ==
  ASSUME UploadAssumptions, UP!InductiveInv, UP!Next \/ UNCHANGED UP!uploadVars
  PROVE  UP!InductiveInv'
<1> USE DEF UP!InductiveInv, UP!GoesTo, UP!Answers, UP!Disk, UP!Fails
<1>0. /\ v4 \in [Reqs -> UP!Stages] /\ v5 \in [Reqs -> Nat]
      /\ v6 \in [Reqs -> {None, "ok", "refused", "too_large", "error"}]
      /\ v7 \subseteq Reqs
      /\ v2 \in Nat /\ v1 \in 0..v2
  BY DEF UP!Requests, UP!Inodes
<1>1. ASSUME NEW r \in Reqs, UP!Begin(r)
      PROVE  UP!InductiveInv'
  <2>1. /\ v4[r] = "idle" /\ UNCHANGED <<v1, v2, v3, v5, v7>>
        /\ \/ v4' = [v4 EXCEPT ![r] = "checked"] /\ v6' = v6
           \/ v4' = [v4 EXCEPT ![r] = "over"] /\ v6' = [v6 EXCEPT ![r] = "refused"]
    BY <1>1 DEF UP!Begin
  <2>2. UP!Requests' /\ UP!OpenIsLinked'
    BY <1>0, <2>1 DEF UP!Requests, UP!OpenIsLinked, UP!Stages
  <2>3. UP!RefusedLeavesNothing'
    BY <1>0, <2>1 DEF UP!RefusedLeavesNothing, UP!Requests
  <2>4. UP!Opened' = UP!Opened \/ UP!Opened' = UP!Opened \cup {r}
    BY <1>0, <2>1 DEF UP!Opened
  <2>5. v2 <= UP!Cardinality(UP!Opened') + 1
    BY <1>0, <2>4, UploadMade
  <2>6. UP!Inodes'
    BY <2>1, <2>5 DEF UP!Inodes
  <2> QED
    BY <2>2, <2>3, <2>6
<1>2. ASSUME NEW r \in Reqs, UP!Open(r)
      PROVE  UP!InductiveInv'
  <2>1. /\ v4[r] = "checked" /\ UNCHANGED <<v6, v7>>
        /\ v2' = IF v1 = 0 THEN v2 + 1 ELSE v2
        /\ v1' = IF v1 = 0 THEN v2' ELSE v1
        /\ v3' = [v3 EXCEPT ![v1'] = {}]
        /\ v5' = [v5 EXCEPT ![r] = v1']
        /\ v4' = [v4 EXCEPT ![r] = "open"]
    BY <1>2 DEF UP!Open
  <2>2. v1' # 0 /\ v1' \in 0..v2' /\ v2' \in Nat
    BY <1>0, <2>1
  <2>3. UP!Requests'
    BY <1>0, <2>1, <2>2 DEF UP!Requests, UP!Stages
  <2>4. UP!OpenIsLinked'
    BY <1>0, <2>1, <2>2 DEF UP!Requests, UP!OpenIsLinked
  <2>5. UP!Opened' = UP!Opened \cup {r} /\ r \notin UP!Opened
    BY <1>0, <2>1 DEF UP!Opened
  <2>6. /\ UP!Cardinality(UP!Opened') = UP!Cardinality(UP!Opened) + 1
        /\ UP!Cardinality(UP!Opened') <= UP!Cardinality(Reqs)
        /\ UP!Cardinality(Reqs) \in Nat /\ UP!Cardinality(UP!Opened) \in Nat
    BY <2>5, UploadCounts
  <2>7. v1' \in DOMAIN v3 /\ v2' <= UP!Cardinality(UP!Opened') + 1
    BY <1>0, <2>1, <2>2, <2>6 DEF UP!Inodes
  <2>9. UP!Inodes'
    BY <2>1, <2>2, <2>7 DEF UP!Inodes
  <2>8. UP!RefusedLeavesNothing'
    BY <2>1, <2>7 DEF UP!RefusedLeavesNothing
  <2> QED
    BY <2>3, <2>4, <2>8, <2>9
<1>3. ASSUME NEW r \in Reqs, UP!Write(r)
      PROVE  UP!InductiveInv'
  <2>1. /\ v4[r] = "open" /\ UNCHANGED <<v1, v2, v4, v5, v6, v7>>
        /\ v3' = [v3 EXCEPT ![v5[r]] = @ \cup {r}]
    BY <1>3 DEF UP!Write
  <2>2. UP!Requests' /\ UP!OpenIsLinked'
    BY <2>1 DEF UP!Requests, UP!OpenIsLinked
  <2>3. UP!Opened' = UP!Opened
    BY <2>1 DEF UP!Opened
  <2>4. UP!Inodes'
    BY <1>0, <2>1, <2>3 DEF UP!Inodes
  <2>5. v6[r] = None
    BY <1>0, <2>1 DEF UP!Requests
  <2>6. UP!RefusedLeavesNothing'
    BY <1>0, <2>1, <2>5 DEF UP!RefusedLeavesNothing, UP!Inodes, UploadAssumptions
  <2> QED
    BY <2>2, <2>4, <2>6
(* The ends of a request: its stage and its answer change, and the path    *)
(* unless it unlinks the file.                                             *)
<1>4. ASSUME NEW r \in Reqs, v4[r] # "idle",
             NEW stage \in UP!Stages \ {"idle", "checked"},
             NEW what \in {v6[r], "ok", "error", "too_large"},
             v4' = [v4 EXCEPT ![r] = stage], v6' = [v6 EXCEPT ![r] = what],
             v6[r] = None, stage # "over" => what = None,
             stage # "over" => v5[r] # 0, what = "ok" => v5[r] # 0,
             r \notin Writes /\ what \in {"error", "too_large"} => v1' = 0,
             v3' = v3, v2' = v2, v5' = v5, v7 \subseteq v7', v7' \subseteq Reqs,
             v1' = v1 \/ (v1' = 0 /\ \A q \in Reqs : v5[q] = v1 /\ v1 # 0 => q \in v7')
      PROVE  UP!InductiveInv'
  <2>1. UP!Opened' = UP!Opened \cup {r} /\ UP!Opened \cup {r} \subseteq Reqs
    BY <1>0, <1>4 DEF UP!Opened
  <2>6. v2' <= UP!Cardinality(UP!Opened') + 1
    BY <1>4, <2>1, UploadMade
  <2>2. UP!Inodes'
    BY <1>0, <1>4, <2>6 DEF UP!Inodes
  <2>3. UP!Requests'
    BY <1>0, <1>4 DEF UP!Requests, UP!Stages, UploadAssumptions
  <2>4. UP!OpenIsLinked'
    BY <1>0, <1>4 DEF UP!OpenIsLinked
  <2>5. UP!RefusedLeavesNothing'
    BY <1>0, <1>4 DEF UP!RefusedLeavesNothing, UploadAssumptions
  <2> QED
    BY <2>2, <2>3, <2>4, <2>5
<1>5. ASSUME NEW r \in Reqs,
             \/ UP!MkdirFails(r) \/ UP!EndOfPart(r) \/ UP!PartFails(r)
             \/ r \notin Writes /\ UP!BodyIsCut(r)
      PROVE  UP!InductiveInv'
  <2>1. /\ v4[r] \in {"checked", "open"} /\ UNCHANGED <<v1, v2, v3, v5, v7>>
        /\ v4[r] = "checked" => UP!MkdirFails(r)
    BY <1>5 DEF UP!MkdirFails, UP!EndOfPart, UP!PartFails, UP!BodyIsCut
  <2>2. v6[r] = None /\ (v4[r] = "open" => v5[r] # 0) /\ v6 = [v6 EXCEPT ![r] = None]
    BY <1>0, <2>1 DEF UP!Requests
  <2>3. \/ /\ v4' = [v4 EXCEPT ![r] = "over"]
           /\ v6' = [v6 EXCEPT ![r] = "error"] /\ r \in Writes
        \/ v6' = v6 /\ v4' = [v4 EXCEPT ![r] = "over"]
        \/ /\ v6' = v6 /\ v4[r] = "open"
           /\ \/ v4' = [v4 EXCEPT ![r] = "ended"]
              \/ v4' = [v4 EXCEPT ![r] = "limited"]
              \/ v4' = [v4 EXCEPT ![r] = "failed"]
    BY <1>5, <2>1 DEF UP!MkdirFails, UP!EndOfPart, UP!PartFails, UP!BodyIsCut, UP!Dies
  <2> QED
    BY <1>0, <1>4, <2>1, <2>2, <2>3 DEF UP!Stages, UploadAssumptions
<1>6. ASSUME NEW r \in Reqs, UP!Refuse(r)
      PROVE  UP!InductiveInv'
  <2>1. /\ v4[r] \in {"limited", "failed"} /\ UNCHANGED <<v2, v3, v5>>
        /\ v1' = 0 /\ v7' = v7 \cup {q \in Reqs : v5[q] = v1 /\ v1 # 0}
        /\ v4' = [v4 EXCEPT ![r] = "over"]
        /\ v6' = [v6 EXCEPT ![r] = IF v4[r] = "limited" THEN "too_large" ELSE "error"]
    BY <1>6 DEF UP!Refuse, UP!Unlink
  <2>2. v6[r] = None
    BY <1>0, <2>1 DEF UP!Requests
  <2> QED
    BY <1>0, <1>4, <2>1, <2>2 DEF UP!Stages, UploadAssumptions
<1>7. ASSUME NEW r \in Reqs, UP!Accept(r)
      PROVE  UP!InductiveInv'
  <2>1. v4[r] = "ended" /\ UNCHANGED <<v1, v2, v3, v5, v7>>
    BY <1>7 DEF UP!Accept
  <2>2. v6[r] = None /\ v5[r] # 0 /\ v6 = [v6 EXCEPT ![r] = None]
    BY <1>0, <2>1 DEF UP!Requests
  <2>3. /\ v4' = [v4 EXCEPT ![r] = "over"]
        /\ \/ v6' = v6 \/ v6' = [v6 EXCEPT ![r] = "ok"]
           \/ v6' = [v6 EXCEPT ![r] = "error"] /\ r \in Writes
    BY <1>7, <2>2 DEF UP!Accept, UP!Dies
  <2> QED
    BY <1>0, <1>4, <2>1, <2>2, <2>3 DEF UP!Stages, UploadAssumptions
<1>8. CASE UP!AgentRemoves
  <2>1. /\ UNCHANGED <<v2, v3, v4, v5, v6>>
        /\ v1' = 0 /\ v7' = v7 \cup {q \in Reqs : v5[q] = v1 /\ v1 # 0}
    BY <1>8 DEF UP!AgentRemoves, UP!Unlink
  <2>2. UP!Opened' = UP!Opened
    BY <2>1 DEF UP!Opened
  <2>3. UP!Inodes' /\ UP!Requests'
    BY <1>0, <2>1, <2>2 DEF UP!Inodes, UP!Requests
  <2>4. UP!OpenIsLinked' /\ UP!RefusedLeavesNothing'
    BY <1>0, <2>1 DEF UP!OpenIsLinked, UP!RefusedLeavesNothing
  <2> QED
    BY <2>3, <2>4
<1>9. CASE UNCHANGED UP!uploadVars
  BY <1>9 DEF UP!uploadVars, UP!Inodes, UP!Requests, UP!OpenIsLinked,
              UP!RefusedLeavesNothing, UP!Opened
<1> HIDE DEF UP!InductiveInv
<1> QED
  BY <1>1, <1>2, <1>3, <1>5, <1>6, <1>7, <1>8, <1>9 DEF UP!Next

(* routes/files.ts: a refused upload leaves no byte at its path, whoever   *)
(* else writes there, and an accepted one is there until another unlinks   *)
(* or overwrites it, for any number of requests, faults and removals.      *)
THEOREM RefusedLeaveNothing == ASSUME UploadAssumptions PROVE Spec => []UploadsAreClean
<1> DEFINE Inv == part = "upload" => UP!InductiveInv
<1>1. Init => Inv
  BY UploadStarts, UploadInit
<1>2. Inv /\ [Next]_vars => Inv'
  BY PartStays, UploadSteps, UploadNext
<1>3. Inv => UploadsAreClean
  BY DEF UploadsAreClean, UP!UploadsAreClean, UP!InductiveInv, UP!Requests,
         UP!OpenIsLinked, UP!AcceptedIsThere, UploadAssumptions
<1> QED
  BY <1>1, <1>2, <1>3, PTL DEF Spec

-----------------------------------------------------------------------------
(* The test limiter: v1 entries, v2 tests, v3 clock, v4 lastTest.          *)

LimiterAssumptions ==
  /\ None \notin Testers
  /\ None \notin [inFlight : BOOLEAN, lastStart : Nat, started : BOOLEAN]
  /\ MinInterval \in Nat

LEMMA LimiterSteps ==
  ASSUME part = "limit", [Next]_vars
  PROVE  TL!Next \/ UNCHANGED TL!limiterVars
  BY DEF Next, vars, TL!Next, TL!limiterVars

LEMMA LimiterInit == ASSUME LimiterAssumptions, TL!Init PROVE TL!InductiveInv
<1>1. TL!Shapes
  BY DEF TL!Init, TL!Shapes, TL!NoTest
<1> QED
  BY <1>1 DEF TL!Init, TL!InductiveInv, TL!RunningIsKept, TL!StartIsRemembered,
              TL!NoTest

(* Who is refused had an entry, so a refusal sweeps nothing.               *)
LEMMA RefusalSweepsNothing ==
  ASSUME TL!Shapes, NEW u \in Testers, ~TL!Admits(TL!Got(u)[u])
  PROVE  v1[u] # None /\ TL!Got(u) = v1
<1>1. ASSUME v1[u] = None
      PROVE  FALSE
  <2>1. TL!Got(u)[u] = TL!Fresh
    BY <1>1 DEF TL!Got
  <2> QED
    BY <2>1 DEF TL!Admits, TL!Fresh
<1> QED
  BY <1>1 DEF TL!Got

(* What the map loses on an admission is of users who run no test and      *)
(* whose last start is long ago.                                           *)
LEMMA SweepSpares ==
  ASSUME LimiterAssumptions, TL!InductiveInv, NEW u \in Testers, NEW v \in Testers \ {u}
  PROVE  /\ TL!Got(u)[v] = v1[v] \/ (TL!Got(u)[v] = None /\ v \in TL!Swept)
         /\ v \in TL!Swept => /\ v1[v] # None /\ ~v1[v].inFlight
                              /\ v3 - v4[v] >= MinInterval
<1>1. TL!Got(u)[v] = v1[v] \/ (TL!Got(u)[v] = None /\ v \in TL!Swept)
  BY DEF TL!Got
<1>2. v \in TL!Swept => /\ v1[v] # None /\ ~v1[v].inFlight
                       /\ v3 - v4[v] >= MinInterval
  BY DEF TL!Swept, TL!InductiveInv, TL!StartIsRemembered
<1> QED
  BY <1>1, <1>2

(* Who is admitted runs no test and began the last one long enough ago.    *)
LEMMA AdmittedIsRested ==
  ASSUME LimiterAssumptions, TL!InductiveInv, NEW u \in Testers, TL!Admits(TL!Got(u)[u])
  PROVE  /\ \A k \in Slots : v2[k].who # u
         /\ v4[u] # 0 => v3 - v4[u] >= MinInterval
<1>1. CASE v1[u] = None
  <2>1. v4[u] # 0 => v3 - v4[u] >= MinInterval
    BY <1>1 DEF TL!InductiveInv, TL!StartIsRemembered
  <2>2. ASSUME NEW k \in Slots, v2[k].who = u
        PROVE  FALSE
    <3>1. v2[k] # TL!NoTest
      BY <2>2 DEF TL!NoTest, LimiterAssumptions
    <3> QED
      BY <1>1, <2>2, <3>1 DEF TL!InductiveInv, TL!RunningIsKept
  <2> QED
    BY <2>1, <2>2
<1>2. CASE v1[u] # None
  <2>1. TL!Got(u) = v1
    BY <1>2 DEF TL!Got
  <2>2. /\ v1[u].started /\ v1[u].lastStart = v4[u]
    BY <1>2 DEF TL!InductiveInv, TL!StartIsRemembered
  <2>3. ~v1[u].inFlight /\ v3 - v4[u] >= MinInterval
    BY <2>1, <2>2 DEF TL!Admits
  <2>4. ASSUME NEW k \in Slots, v2[k].who = u
        PROVE  FALSE
    <3>1. v2[k] # TL!NoTest
      BY <2>4 DEF TL!NoTest, LimiterAssumptions
    <3> QED
      BY <2>3, <2>4, <3>1 DEF TL!InductiveInv, TL!RunningIsKept
  <2> QED
    BY <2>3, <2>4
<1> QED
  BY <1>1, <1>2

LEMMA LimiterNext ==
  ASSUME LimiterAssumptions, TL!InductiveInv, TL!Next \/ UNCHANGED TL!limiterVars
  PROVE  TL!InductiveInv'
<1>0. /\ v1 \in [Testers -> TL!Entries \cup {None}]
      /\ v2 \in [Slots -> [who : Testers, kept : BOOLEAN] \cup {TL!NoTest}]
      /\ v3 \in Nat /\ v4 \in [Testers -> Nat]
  BY DEF TL!InductiveInv, TL!Shapes
<1>1. ASSUME NEW u \in Testers, NEW k \in Slots, TL!WithTestLimit(u, k)
      PROVE  TL!InductiveInv'
  <2>1. /\ v2[k] = TL!NoTest /\ TL!Admits(TL!Got(u)[u]) /\ v3' = v3
        /\ v1' = [TL!Got(u) EXCEPT ![u] = [inFlight |-> TRUE, lastStart |-> v3,
                                           started |-> TRUE]]
        /\ v2' = [j \in Slots |->
              IF j = k THEN [who |-> u, kept |-> TRUE]
              ELSE [v2[j] EXCEPT !.kept = @ /\ TL!Got(u)[v2[j].who] # None]]
        /\ v4' = [v4 EXCEPT ![u] = v3]
    BY <1>1 DEF TL!WithTestLimit
  <2>0. ASSUME NEW j \in Slots, j # k
        PROVE  /\ v2[j] = TL!NoTest => v2'[j] = TL!NoTest
               /\ v2[j] # TL!NoTest =>
                    /\ v2'[j] \in [who : Testers, kept : BOOLEAN]
                    /\ v2'[j].who = v2[j].who
                    /\ v2'[j].kept <=> v2[j].kept /\ TL!Got(u)[v2[j].who] # None
    <3>1. PICK b \in BOOLEAN : b <=> TL!Got(u)[v2[j].who] # None
      OBVIOUS
    <3>2. v2'[j] = [v2[j] EXCEPT !.kept = @ /\ b]
      BY <2>0, <2>1, <3>1
    <3>3. CASE v2[j] = TL!NoTest
      <4>1. v2'[j] = [who |-> None, kept |-> FALSE /\ b]
        BY <3>2, <3>3 DEF TL!NoTest
      <4> QED
        BY <3>3, <4>1 DEF TL!NoTest
    <3>4. CASE v2[j] # TL!NoTest
      <4>1. v2[j] \in [who : Testers, kept : BOOLEAN]
        BY <1>0, <3>4
      <4>2. v2'[j] = [who |-> v2[j].who, kept |-> v2[j].kept /\ b]
        BY <3>2, <4>1
      <4> QED
        BY <3>1, <3>4, <4>1, <4>2
    <3> QED
      BY <3>3, <3>4
  <2>2. /\ \A j \in Slots : v2[j].who # u
        /\ v4[u] # 0 => v3 - v4[u] >= MinInterval
    BY <2>1, AdmittedIsRested
  <2>3. DOMAIN TL!Got(u) = Testers
    BY <1>0 DEF TL!Got
  <2>4. /\ v1'[u] = [inFlight |-> TRUE, lastStart |-> v3, started |-> TRUE]
        /\ \A v \in Testers \ {u} : v1'[v] = TL!Got(u)[v]
        /\ DOMAIN v1' = Testers
    BY <2>1, <2>3
  <2>11. v1'[u] # None
    <3>1. v1'[u] \in [inFlight : BOOLEAN, lastStart : Nat, started : BOOLEAN]
      BY <1>0, <2>4
    <3> QED
      BY <3>1 DEF LimiterAssumptions
  <2>5. v1' \in [Testers -> TL!Entries \cup {None}]
    <3>1. v1'[u] \in TL!Entries \cup {None}
      BY <1>0, <2>4 DEF TL!Entries
    <3>2. ASSUME NEW v \in Testers \ {u}
          PROVE  v1'[v] \in TL!Entries \cup {None}
      BY <1>0, <2>4, SweepSpares
    <3>3. v1' = [v \in Testers |-> v1'[v]]
      BY <2>1, <2>3
    <3> QED
      BY <3>1, <3>2, <3>3
  <2>6. v2' \in [Slots -> [who : Testers, kept : BOOLEAN] \cup {TL!NoTest}]
    <3>1. ASSUME NEW j \in Slots \ {k}
          PROVE  v2'[j] \in [who : Testers, kept : BOOLEAN] \cup {TL!NoTest}
      BY <1>0, <2>0
    <3>2. v2'[k] \in [who : Testers, kept : BOOLEAN]
      BY <2>1
    <3> QED
      BY <2>1, <3>1, <3>2
  <2>7. TL!Shapes'
    BY <1>0, <2>1, <2>5, <2>6 DEF TL!Shapes
  <2>8. ASSUME NEW j \in Slots, v2'[j] # TL!NoTest, j # k
        PROVE  /\ v2[j] # TL!NoTest /\ v2'[j].who = v2[j].who
               /\ v2[j].who \in Testers \ {u}
               /\ v1'[v2[j].who] = v1[v2[j].who] /\ v2'[j].kept
    <3>1. v2[j] # TL!NoTest /\ v2'[j].who = v2[j].who
      BY <2>0, <2>8
    <3>2. v2[j].who \in Testers \ {u}
      BY <1>0, <2>2, <3>1
    <3>3. v2[j].kept /\ v1[v2[j].who] # None /\ v1[v2[j].who].inFlight
      BY <3>1 DEF TL!InductiveInv, TL!RunningIsKept
    <3>4. TL!Got(u)[v2[j].who] = v1[v2[j].who]
      BY <3>2, <3>3, SweepSpares
    <3>5. v2'[j].kept
      BY <2>0, <2>8, <3>1, <3>3, <3>4
    <3> QED
      BY <2>4, <3>1, <3>2, <3>4, <3>5
  <2>9. TL!RunningIsKept'
    <3> SUFFICES ASSUME NEW j \in Slots, v2'[j] # TL!NoTest
                 PROVE  /\ v2'[j].kept
                        /\ v1'[v2'[j].who] # None /\ v1'[v2'[j].who].inFlight
                        /\ \A i \in Slots : v2'[i].who = v2'[j].who => i = j
      BY DEF TL!RunningIsKept, TL!NoTest
    <3>1. v2'[k] = [who |-> u, kept |-> TRUE]
      BY <2>1
    <3>2. ASSUME NEW i \in Slots, i # k
          PROVE  v2'[i].who = v2[i].who /\ v2'[i].who # u
      BY <2>0, <2>2, <3>2
    <3>3. CASE j = k
      BY <2>4, <2>11, <3>1, <3>2, <3>3
    <3>4. CASE j # k
      BY <2>8, <3>1, <3>2, <3>4 DEF TL!InductiveInv, TL!RunningIsKept
    <3> QED
      BY <3>3, <3>4
  <2>10. TL!StartIsRemembered'
    <3>1. ASSUME NEW v \in Testers \ {u}
          PROVE  /\ v4'[v] <= v3'
                 /\ IF v1'[v] = None THEN v4'[v] = 0 \/ v3' - v4'[v] >= MinInterval
                    ELSE v1'[v].started /\ v1'[v].lastStart = v4'[v]
      BY <1>0, <2>1, <2>4, SweepSpares DEF TL!InductiveInv, TL!StartIsRemembered
    <3>2. /\ v4'[u] <= v3'
          /\ v1'[u] # None /\ v1'[u].started /\ v1'[u].lastStart = v4'[u]
      BY <1>0, <2>1, <2>4, <2>11
    <3> QED
      BY <3>1, <3>2 DEF TL!StartIsRemembered
  <2> QED
    BY <2>7, <2>9, <2>10 DEF TL!InductiveInv
<1>2. ASSUME NEW u \in Testers, TL!Limited(u)
      PROVE  TL!InductiveInv'
  <2>1. UNCHANGED <<v1, v2, v3, v4>>
    BY <1>2, RefusalSweepsNothing DEF TL!Limited, TL!InductiveInv
  <2> QED
    BY <2>1 DEF TL!InductiveInv, TL!Shapes, TL!RunningIsKept, TL!StartIsRemembered
<1>3. ASSUME NEW k \in Slots, TL!Released(k)
      PROVE  TL!InductiveInv'
  <2>1. /\ v2[k] # TL!NoTest /\ v2' = [v2 EXCEPT ![k] = TL!NoTest]
        /\ v1' = [v1 EXCEPT ![v2[k].who].inFlight = FALSE]
        /\ v3' = v3 /\ v4' = v4
    BY <1>3 DEF TL!Released, TL!InductiveInv, TL!RunningIsKept
  <2>2. v2[k].who \in Testers /\ v1[v2[k].who] \in TL!Entries
    BY <1>0, <2>1 DEF TL!InductiveInv, TL!RunningIsKept
  <2>3. /\ \A v \in Testers : v # v2[k].who => v1'[v] = v1[v]
        /\ v1'[v2[k].who] \in TL!Entries
        /\ v1'[v2[k].who].started = v1[v2[k].who].started
        /\ v1'[v2[k].who].lastStart = v1[v2[k].who].lastStart
        /\ v1' \in [Testers -> TL!Entries \cup {None}]
    BY <1>0, <2>1, <2>2 DEF TL!Entries
  <2>4. TL!Shapes'
    BY <1>0, <2>1, <2>3 DEF TL!Shapes
  <2>5. TL!StartIsRemembered'
    BY <1>0, <2>1, <2>2, <2>3 DEF TL!InductiveInv, TL!StartIsRemembered, TL!Entries, LimiterAssumptions
  <2>6. TL!RunningIsKept'
    BY <1>0, <2>1, <2>2, <2>3 DEF TL!InductiveInv, TL!RunningIsKept, TL!NoTest, LimiterAssumptions
  <2> QED
    BY <2>4, <2>5, <2>6 DEF TL!InductiveInv
<1>4. CASE TL!Tick
  BY <1>0, <1>4 DEF TL!Tick, TL!InductiveInv, TL!Shapes, TL!RunningIsKept,
                    TL!StartIsRemembered, LimiterAssumptions
<1>5. CASE UNCHANGED TL!limiterVars
  BY <1>5 DEF TL!limiterVars, TL!InductiveInv, TL!Shapes, TL!RunningIsKept,
              TL!StartIsRemembered
<1> QED
  BY <1>1, <1>2, <1>3, <1>4, <1>5 DEF TL!Next

LEMMA StartIsRested ==
  ASSUME LimiterAssumptions, TL!InductiveInv, TL!Next \/ UNCHANGED TL!limiterVars
  PROVE  TL!SpacesTests
<1> SUFFICES ASSUME NEW u \in Testers, v4'[u] # v4[u]
             PROVE  /\ \A k \in Slots : v2[k].who # u
                    /\ v4[u] # 0 => v3 - v4[u] >= MinInterval
  BY DEF TL!SpacesTests
<1>1. PICK w \in Testers, k \in Slots : TL!WithTestLimit(w, k)
  BY DEF TL!Next, TL!limiterVars, TL!Limited, TL!Released, TL!Tick
<1>2. v4' = [v4 EXCEPT ![w] = v3] /\ v4 \in [Testers -> Nat]
  BY <1>1 DEF TL!WithTestLimit, TL!InductiveInv, TL!Shapes
<1>3. w = u
  BY <1>2
<1> QED
  BY <1>1, <1>3, AdmittedIsRested DEF TL!WithTestLimit

(* test-limiter.ts: whatever the map forgets, a user's tests run one at a  *)
(* time and begin MinInterval apart, for any users, slots and thresholds.  *)
THEOREM TestsSpaced == ASSUME LimiterAssumptions PROVE Spec => TestsAreSpaced
<1> DEFINE Inv == part = "limit" => TL!InductiveInv
<1>1. Init => Inv
  BY LimiterInit DEF Init
<1>2. Inv /\ [Next]_vars => Inv'
  BY PartStays, LimiterSteps, LimiterNext
<1>3. Inv /\ [Next]_vars => [part = "limit" => TL!SpacesTests]_vars
  BY LimiterSteps, StartIsRested
<1> QED
  BY <1>1, <1>2, <1>3, PTL DEF Spec, TestsAreSpaced

-----------------------------------------------------------------------------
(* The first administrator: v1 sign, v2 elected, v3 role, v4 demote,       *)
(* v5 lock, v6 born.                                                       *)

(* The lock's free value is no account.                                    *)
AdminAssumptions == FA!Nobody \notin SignUps

LEMMA AdminSteps ==
  ASSUME part = "users", [Next]_vars
  PROVE  FA!Next \/ UNCHANGED FA!adminVars
  BY DEF Next, vars, FA!Next, FA!adminVars

LEMMA AdminInit == FA!Init => FA!InductiveInv
  BY DEF FA!Init, FA!InductiveInv, FA!Kinds, FA!RowShape, FA!SomeAdmin, FA!RepairShape, FA!OneDone, FA!Users, FA!Administrators

(* A step that leaves the rows as they are.                                *)
LEMMA RowsKept == UNCHANGED v3 => FA!Users' = FA!Users /\ FA!Administrators' = FA!Administrators
  BY DEF FA!Users, FA!Administrators

LEMMA AdminNext ==
  ASSUME AdminAssumptions, FA!InductiveInv, FA!Next \/ UNCHANGED FA!adminVars
  PROVE  FA!InductiveInv'
<1> USE DEF FA!GoesTo, FA!InductiveInv, AdminAssumptions
<1>1. ASSUME NEW u \in SignUps, FA!Count(u)
      PROVE  FA!InductiveInv'
  <2>1. /\ v1[u] = "no" /\ v1' = [v1 EXCEPT ![u] = "counted"]
        /\ v2' = [v2 EXCEPT ![u] = FA!Users = {}]
        /\ UNCHANGED <<v3, v4, v5>>
    BY <1>1 DEF FA!Count
  <2>2. FA!Users' = FA!Users /\ FA!Administrators' = FA!Administrators
    BY <2>1, RowsKept
  <2>3. FA!Kinds' /\ FA!SomeAdmin'
    BY <2>1, <2>2 DEF FA!Kinds, FA!SomeAdmin
  <2>4. FA!RowShape'
    BY <2>1, <2>2 DEF FA!Kinds, FA!RowShape
  <2>5. FA!RepairShape' /\ FA!OneDone'
    BY <2>1, <2>2 DEF FA!Kinds, FA!RepairShape, FA!OneDone
  <2> QED
    BY <2>3, <2>4, <2>5
<1>2. ASSUME NEW u \in SignUps, FA!Insert(u)
      PROVE  FA!InductiveInv'
  <2>1. /\ v1[u] = "counted" /\ v1' = [v1 EXCEPT ![u] = "inserted"]
        /\ v3' = [v3 EXCEPT ![u] = IF v2[u] THEN "admin" ELSE "user"]
        /\ UNCHANGED <<v2, v4, v5>>
    BY <1>2 DEF FA!Insert
  <2>2. v3[u] = "none" /\ v3'[u] # "none" /\ (v2[u] <=> v3'[u] = "admin")
    BY <2>1 DEF FA!RowShape, FA!Kinds
  <2>3. /\ FA!Users' = FA!Users \cup {u}
        /\ FA!Administrators' = IF v2[u] THEN FA!Administrators \cup {u} ELSE FA!Administrators
    BY <2>1, <2>2 DEF FA!Users, FA!Administrators, FA!Kinds
  <2>4. FA!Kinds'
    BY <2>1 DEF FA!Kinds
  <2>5. FA!RowShape'
    BY <2>1, <2>2, <2>3 DEF FA!Kinds, FA!RowShape
  <2>6. FA!SomeAdmin'
    BY <2>1, <2>3 DEF FA!RowShape, FA!SomeAdmin
  <2>7. FA!RepairShape' /\ FA!OneDone'
    BY <2>1, <2>3 DEF FA!Kinds, FA!RepairShape, FA!OneDone
  <2> QED
    BY <2>4, <2>5, <2>6, <2>7
<1>3. ASSUME NEW u \in SignUps, FA!MakeDirectory(u)
      PROVE  FA!InductiveInv'
  <2>1. /\ v1[u] = "inserted" /\ UNCHANGED <<v2, v3, v4, v5>>
        /\ \E there \in {"repair", "done", "cut"} :
             /\ v1' = [v1 EXCEPT ![u] = there]
             /\ there = "done" => ~v2[u]
    BY <1>3 DEF FA!MakeDirectory
  <2>2. FA!Users' = FA!Users /\ FA!Administrators' = FA!Administrators
    BY <2>1, RowsKept
  <2>3. FA!Kinds' /\ FA!SomeAdmin'
    BY <2>1, <2>2 DEF FA!Kinds, FA!SomeAdmin
  <2>4. FA!RowShape'
    BY <2>1, <2>2 DEF FA!Kinds, FA!RowShape
  <2>5. v1'[u] = "done" => u \notin FA!Administrators
    BY <2>1 DEF FA!Kinds, FA!RowShape, FA!Administrators
  <2>6. FA!RepairShape' /\ FA!OneDone'
    BY <2>1, <2>2, <2>5 DEF FA!Kinds, FA!RepairShape, FA!OneDone
  <2> QED
    BY <2>3, <2>4, <2>6
<1>4. ASSUME NEW u \in SignUps, FA!RepairReads(u)
      PROVE  FA!InductiveInv'
  <2>1. /\ v1[u] = "repair" /\ v1' = [v1 EXCEPT ![u] = "demote"]
        /\ v5 = FA!Nobody /\ v5' = u /\ UNCHANGED <<v2, v3>>
    BY <1>4 DEF FA!RepairReads
  <2>2. FA!Users' = FA!Users /\ FA!Administrators' = FA!Administrators
    BY <2>1, RowsKept
  <2>3. u \in FA!Users /\ FA!Administrators # {}
    BY <2>1 DEF FA!RowShape, FA!SomeAdmin, FA!Users
  <2>4. PICK first \in FA!Administrators :
          v4' = [v4 EXCEPT ![u] = FA!Administrators \ {first}]
    BY <1>4, <2>3 DEF FA!RepairReads, FA!Oldest, FA!Others
  <2>5. FA!Administrators \subseteq SignUps /\ FA!Administrators \subseteq FA!Users
    BY DEF FA!Administrators, FA!Users
  <2>6. FA!Kinds' /\ FA!SomeAdmin'
    BY <2>1, <2>2, <2>4, <2>5 DEF FA!Kinds, FA!SomeAdmin
  <2>7. FA!RowShape'
    BY <2>1, <2>2 DEF FA!Kinds, FA!RowShape
  <2>8. \A v \in SignUps : v1[v] # "demote"
    BY <2>1 DEF FA!RepairShape
  <2>9. FA!RepairShape' /\ FA!OneDone'
    BY <2>1, <2>2, <2>4, <2>5, <2>8 DEF FA!Kinds, FA!RepairShape, FA!OneDone
  <2> QED
    BY <2>6, <2>7, <2>9
<1>5. ASSUME NEW u \in SignUps, FA!RepairDemotes(u)
      PROVE  FA!InductiveInv'
  <2>1. /\ v1[u] = "demote" /\ v1' = [v1 EXCEPT ![u] = "done"]
        /\ v3' = [v \in SignUps |-> IF v \in v4[u] THEN "user" ELSE v3[v]]
        /\ UNCHANGED <<v2, v4>>
    BY <1>5 DEF FA!RepairDemotes
  <2>2. PICK first \in FA!Administrators :
          /\ first \notin v4[u]
          /\ \A v \in FA!Administrators : /\ v1[v] = "done" \/ v = u
                                       /\ v # first
                                       => v \in v4[u]
    BY <2>1 DEF FA!RepairShape
  <2>3. FA!Administrators' = FA!Administrators \ v4[u]
    BY <2>1 DEF FA!Kinds, FA!Administrators
  <2>4. FA!Users \subseteq FA!Users'
    BY <2>1 DEF FA!Kinds, FA!Users
  <2>5. FA!Kinds' /\ FA!SomeAdmin'
    BY <2>1, <2>2, <2>3 DEF FA!Kinds, FA!SomeAdmin
  <2>6. v4[u] \subseteq FA!Users
    BY <2>1 DEF FA!RepairShape
  <2>7. FA!RowShape'
    BY <2>1, <2>3, <2>4, <2>6 DEF FA!Kinds, FA!RowShape, FA!Users
  <2>8. \A v \in SignUps : v1'[v] # "demote"
    BY <2>1 DEF FA!Kinds, FA!RepairShape
  <2>9. FA!OneDone'
    BY <2>1, <2>2, <2>3 DEF FA!Kinds, FA!OneDone
  <2> QED
    BY <2>5, <2>7, <2>8, <2>9 DEF FA!RepairShape
<1>6. CASE FA!Crash
  <2>1. /\ v1' = [u \in SignUps |-> IF v1[u] \in {"no", "done"} THEN v1[u] ELSE "cut"]
        /\ UNCHANGED <<v2, v3, v4>>
    BY <1>6 DEF FA!Crash
  <2>2. FA!Users' = FA!Users /\ FA!Administrators' = FA!Administrators
    BY <2>1, RowsKept
  <2>3. FA!Kinds' /\ FA!SomeAdmin'
    BY <2>1, <2>2 DEF FA!Kinds, FA!SomeAdmin
  <2>4. FA!RowShape'
    BY <2>1, <2>2 DEF FA!Kinds, FA!RowShape
  <2>5. FA!RepairShape' /\ FA!OneDone'
    BY <2>1, <2>2 DEF FA!Kinds, FA!RepairShape, FA!OneDone, FA!Administrators
  <2> QED
    BY <2>3, <2>4, <2>5
<1>7. CASE UNCHANGED FA!adminVars
  BY <1>7 DEF FA!adminVars, FA!Kinds, FA!RowShape, FA!SomeAdmin, FA!RepairShape, FA!OneDone, FA!Users,
              FA!Administrators
<1> QED
  BY <1>1, <1>2, <1>3, <1>4, <1>5, <1>6, <1>7 DEF FA!Next

LEMMA OneAdminLeft == FA!InductiveInv => FA!OneAdmin
<1> SUFFICES ASSUME FA!InductiveInv, FA!Users # {}
             PROVE  /\ FA!Administrators # {}
                    /\ (\A u \in FA!Users : v1[u] \in {"done", "cut"}) =>
                         \A u, v \in FA!Administrators :
                           u = v \/ v1[u] = "cut" \/ v1[v] = "cut"
  BY DEF FA!OneAdmin
<1>1. FA!Administrators # {}
  BY DEF FA!InductiveInv, FA!SomeAdmin
<1>2. FA!Administrators \subseteq FA!Users
  BY DEF FA!Administrators, FA!Users
<1> QED
  BY <1>1, <1>2 DEF FA!InductiveInv, FA!OneDone

-----------------------------------------------------------------------------
(* The gate and its panel: v1 override, v2 listed, v3 panel, v4 saving,    *)
(* v5 requests, v6 answers, v7 retries, v8 unsure, v9 check, v10 just.     *)

GateAssumptions == MaxCalls \in Nat \ {0}

LEMMA GateSteps ==
  ASSUME GateAssumptions, part = "gate", [Next]_vars
  PROVE  AC!Next \/ UNCHANGED AC!accessVars
<1>1. ASSUME NEW r \in Requests, AC!Handle(r)
      PROVE  AC!Next
  BY <1>1 DEF AC!Handle, AC!Next
<1>2. ASSUME NEW r \in Requests, NEW b \in BOOLEAN, AC!HandleFails(r, b)
      PROVE  AC!Next
  BY <1>2 DEF AC!HandleFails, AC!Next
<1>3. 1 \in 1..MaxCalls
  BY DEF GateAssumptions
<1> QED
  BY <1>1, <1>2, <1>3 DEF Next, vars, AC!Next, AC!accessVars

(* Who is let in was permitted: the tables change in one step and each     *)
(* change is looked at, so no check straddles a permission unnoticed.      *)
LEMMA GateInit == AC!Init => AC!InductiveInv
<1> SUFFICES ASSUME AC!Init PROVE AC!InductiveInv
  OBVIOUS
<1>1. AC!Shapes
  BY EmptySeq DEF AC!Init, AC!Shapes, AC!Handled
<1> QED
  BY <1>1 DEF AC!Init, AC!InductiveInv, AC!JustIsKept, AC!ControlIsCarried, AC!ListingIsCarried

LEMMA JustStays ==
  ASSUME AC!InductiveInv, AC!Next \/ UNCHANGED AC!accessVars
  PROVE  AC!JustIsKept'
<1>0. AC!JustIsKept /\ v9 \in [Emails -> {"idle", "reached", "enforced", "granted", "denied"}]
      /\ v10 \in [Emails -> BOOLEAN]
  BY DEF AC!InductiveInv, AC!Shapes
<1>1. ASSUME NEW u \in Emails, AC!Reach(u) \/ AC!ReadControl(u) \/ AC!ReadAllowlist(u)
      PROVE  AC!JustIsKept'
  <2>1. v1' = v1 /\ v2' = v2
    BY <1>1 DEF AC!Reach, AC!ReadControl, AC!ReadAllowlist, AC!GateUnchanged
  <2>2. CASE AC!Reach(u)
    <3>1. v9' = [v9 EXCEPT ![u] = "reached"] /\ v10' = [v10 EXCEPT ![u] = AC!Permits(v1, v2, u)]
      BY <2>2 DEF AC!Reach
    <3> QED
      BY <1>0, <2>1, <3>1 DEF AC!JustIsKept
  <2>3. CASE AC!ReadControl(u)
    <3>1. /\ v9[u] = "reached" /\ v10' = v10
          /\ v9' = [v9 EXCEPT ![u] = IF AC!Effective THEN "enforced" ELSE "granted"]
      BY <2>3 DEF AC!ReadControl
    <3>2. ~AC!Effective => AC!Permits(v1, v2, u)
      BY DEF AC!Effective, AC!Permits, AC!InductiveInv, AC!Shapes, AC!Choices
    <3> QED
      BY <1>0, <2>1, <3>1, <3>2 DEF AC!JustIsKept
  <2>4. CASE AC!ReadAllowlist(u)
    <3>1. /\ v9[u] = "enforced" /\ v10' = v10
          /\ v9' = [v9 EXCEPT ![u] = IF AC!IsUserAllowed(u) THEN "granted" ELSE "denied"]
      BY <2>4 DEF AC!ReadAllowlist
    <3>2. AC!IsUserAllowed(u) => AC!Permits(v1, v2, u)
      BY DEF AC!IsUserAllowed, AC!Permits
    <3> QED
      BY <1>0, <2>1, <3>1, <3>2 DEF AC!JustIsKept
  <2> QED
    BY <1>1, <2>2, <2>3, <2>4
<1>2. ASSUME NEW r \in v5, NEW b \in BOOLEAN, AC!Handle(r) \/ AC!HandleFails(r, b)
      PROVE  AC!JustIsKept'
  <2>1. /\ v9' = v9 /\ v10' = [u \in Emails |-> v10[u] \/ AC!Permits(v1', v2', u)]
    BY <1>2 DEF AC!Handle, AC!HandleFails
  <2> QED
    BY <1>0, <2>1 DEF AC!JustIsKept
<1>3. ASSUME UNCHANGED <<v1, v2, v9, v10>>
      PROVE  AC!JustIsKept'
  BY <1>0, <1>3 DEF AC!JustIsKept
<1>4. \/ UNCHANGED <<v1, v2, v9, v10>>
      \/ \E u \in Emails : AC!Reach(u) \/ AC!ReadControl(u) \/ AC!ReadAllowlist(u)
      \/ \E r \in v5, b \in BOOLEAN : AC!Handle(r) \/ AC!HandleFails(r, b)
  BY DEF AC!Next, AC!accessVars, AC!ChangeOverride, AC!Retry, AC!Change, AC!AnswerArrives
<1> QED
  BY <1>1, <1>2, <1>3, <1>4

(* What a step does to what is under way.                                  *)
LEMMA AnswerIsGiven ==
  ASSUME AC!Shapes, NEW r \in v5, NEW b \in BOOLEAN, AC!Handle(r) \/ AC!HandleFails(r, b)
  PROVE  \E a : /\ v6' = Append(v6, a) /\ a.of = r
                /\ a \in [of : AC!Handled, ok : {TRUE}, control : AC!Choices, emails : SUBSET Emails]
                        \cup [of : AC!Handled, ok : {FALSE}]
                /\ (a.ok => a.control = v1' /\ AC!Handle(r))
                /\ (a.ok => a.emails = v2')
                /\ (~a.ok => AC!HandleFails(r, b))
                /\ v1' \in AC!Choices /\ v2' \subseteq Emails
<1>1. r \in AC!Handled /\ v1 \in AC!Choices /\ v2 \subseteq Emails
  BY DEF AC!Shapes
<1>2. AC!Sets(r) => v1' \in AC!Choices /\ v2' \subseteq Emails
  BY <1>1 DEF AC!Sets, AC!Handled
<1>3. v1' \in AC!Choices /\ v2' \subseteq Emails
  BY <1>1, <1>2 DEF AC!Handle, AC!HandleFails
<1>4. CASE AC!Handle(r)
  <2> DEFINE a == [of |-> r, ok |-> TRUE, control |-> v1', emails |-> v2']
  <2>1. v6' = Append(v6, a) /\ a.ok /\ a.of = r /\ a.control = v1' /\ a.emails = v2'
    BY <1>4 DEF AC!Handle
  <2>2. a \in [of : AC!Handled, ok : {TRUE}, control : AC!Choices, emails : SUBSET Emails]
    BY <1>1, <1>3
  <2> HIDE DEF a
  <2> QED
    BY <1>3, <1>4, <2>1, <2>2
<1>5. CASE AC!HandleFails(r, b)
  <2> DEFINE a == [of |-> r, ok |-> FALSE]
  <2>1. v6' = Append(v6, a) /\ ~a.ok /\ a.of = r
    BY <1>5 DEF AC!HandleFails
  <2>2. a \in [of : AC!Handled, ok : {FALSE}]
    BY <1>1
  <2> HIDE DEF a
  <2> QED
    BY <1>3, <1>5, <2>1, <2>2
<1> QED
  BY <1>4, <1>5

LEMMA AnswerIsTaken ==
  ASSUME AC!Shapes, NEW i \in 1..MaxCalls, AC!AnswerArrives(i)
  PROVE  /\ i = 1 /\ Len(v6) \in Nat \ {0} /\ Len(v6') = Len(v6) - 1
         /\ \A j \in 1..Len(v6') : v6'[j] = v6[j + 1]
         /\ \A S : v6 \in Seq(S) => v6[1] \in S /\ v6' \in Seq(S)
<1>1. i = 1 /\ 1 \in DOMAIN v6 /\ v6' = [j \in 1..(Len(v6) - 1) |-> v6[j + 1]]
  BY DEF AC!AnswerArrives
<1>2. Len(v6) \in Nat /\ DOMAIN v6 = 1..Len(v6)
  BY LenProperties DEF AC!Shapes
<1>3. Len(v6) - 1 \in Nat /\ Len(v6) \in Nat \ {0}
  BY <1>1, <1>2
<1>4. ASSUME NEW S, v6 \in Seq(S)
      PROVE  v6[1] \in S /\ v6' \in Seq(S) /\ Len(v6') = Len(v6) - 1
  <2>1. \A j \in 1..Len(v6) : v6[j] \in S
    BY <1>4, ElementOfSeq
  <2>2. \A j \in 1..(Len(v6) - 1) : j + 1 \in 1..Len(v6)
    BY <1>3
  <2>3. v6' \in [1..(Len(v6) - 1) -> S]
    BY <1>1, <2>1, <2>2
  <2>4. v6' \in Seq(S) /\ Len(v6') = Len(v6) - 1
    BY <1>3, <2>3, SeqDef, LenProperties
  <2> QED
    BY <1>1, <1>2, <2>1, <2>4
<1> QED
  BY <1>1, <1>3, <1>4 DEF AC!Shapes

LEMMA AnswerIsAdded ==
  ASSUME AC!Shapes, NEW r \in v5, NEW b \in BOOLEAN, AC!Handle(r) \/ AC!HandleFails(r, b)
  PROVE  \E a : /\ v6' = Append(v6, a) /\ a.of = r
                /\ (a.ok => a.control = v1' /\ AC!Handle(r))
                /\ (a.ok => a.emails = v2')
                /\ (~a.ok => AC!HandleFails(r, b))
                /\ Len(v6') = Len(v6) + 1 /\ v6'[Len(v6) + 1] = a
                /\ \A j \in 1..Len(v6) : v6'[j] = v6[j]
<1> DEFINE As == [of : AC!Handled, ok : {TRUE}, control : AC!Choices, emails : SUBSET Emails]
                   \cup [of : AC!Handled, ok : {FALSE}]
<1>1. PICK a : /\ v6' = Append(v6, a) /\ a.of = r /\ a \in As
               /\ (a.ok => a.control = v1' /\ AC!Handle(r))
               /\ (a.ok => a.emails = v2')
               /\ (~a.ok => AC!HandleFails(r, b))
  BY AnswerIsGiven
<1>2. v6 \in Seq(As)
  BY DEF AC!Shapes
<1> HIDE DEF As
<1>3. /\ Len(v6') = Len(v6) + 1 /\ v6'[Len(v6) + 1] = a
      /\ \A j \in 1..Len(v6) : v6'[j] = v6[j]
  BY <1>1, <1>2, AppendProperties
<1> QED
  BY <1>1, <1>3

LEMMA GateShapes ==
  ASSUME AC!InductiveInv, AC!Next \/ UNCHANGED AC!accessVars
  PROVE  AC!Shapes'
<1> DEFINE As == [of : AC!Handled, ok : {TRUE}, control : AC!Choices, emails : SUBSET Emails]
                   \cup [of : AC!Handled, ok : {FALSE}]
           Ps == [control : AC!Choices \cup {"loading"}, emails : SUBSET Emails]
           Cs == [Emails -> {"idle", "reached", "enforced", "granted", "denied"}]
<1>0. /\ v1 \in AC!Choices /\ v2 \subseteq Emails /\ v3 \in Ps
      /\ v5 \subseteq AC!Handled /\ v7 \subseteq AC!Choices /\ v6 \in Seq(As)
      /\ v9 \in Cs /\ v10 \in [Emails -> BOOLEAN]
  BY DEF AC!InductiveInv, AC!Shapes
<1>1. SUFFICES /\ v1' \in AC!Choices /\ v2' \subseteq Emails /\ v3' \in Ps
               /\ v5' \subseteq AC!Handled /\ v7' \subseteq AC!Choices /\ v6' \in Seq(As)
               /\ v9' \in Cs /\ v10' \in [Emails -> BOOLEAN]
  BY DEF AC!Shapes
<1>2. ASSUME NEW u \in Emails, AC!Reach(u) \/ AC!ReadControl(u) \/ AC!ReadAllowlist(u)
      PROVE  /\ UNCHANGED <<v1, v2, v3, v5, v6, v7>>
             /\ v9' \in Cs /\ v10' \in [Emails -> BOOLEAN]
  <2>1. UNCHANGED <<v1, v2, v3, v5, v6, v7>>
    BY <1>2 DEF AC!Reach, AC!ReadControl, AC!ReadAllowlist, AC!GateUnchanged
  <2>2. /\ \E c \in {"reached", "enforced", "granted", "denied"} : v9' = [v9 EXCEPT ![u] = c]
        /\ v10' = v10 \/ \E b \in BOOLEAN : v10' = [v10 EXCEPT ![u] = b]
    BY <1>2 DEF AC!Reach, AC!ReadControl, AC!ReadAllowlist, AC!Permits
  <2> QED
    BY <1>0, <2>1, <2>2
<1>3. ASSUME NEW c \in AC!Choices, AC!ChangeOverride(c) \/ AC!Retry(c)
      PROVE  /\ UNCHANGED <<v1, v2, v3, v6, v9, v10>>
             /\ v5' \subseteq AC!Handled /\ v7' \subseteq AC!Choices
  <2>1. [kind |-> "control", value |-> c] \in AC!Handled
    BY DEF AC!Handled
  <2> QED
    BY <1>0, <1>3, <2>1 DEF AC!ChangeOverride, AC!Retry, AC!Request
<1>4. ASSUME NEW k \in {"add", "remove"}, NEW e \in Emails, AC!Change(k, e)
      PROVE  UNCHANGED <<v1, v2, v3, v6, v7, v9, v10>> /\ v5' \subseteq AC!Handled
  <2>1. [kind |-> k, value |-> e] \in AC!Handled
    BY DEF AC!Handled
  <2> QED
    BY <1>0, <1>4, <2>1 DEF AC!Change, AC!Request
<1>5. ASSUME NEW r \in v5, NEW b \in BOOLEAN, AC!Handle(r) \/ AC!HandleFails(r, b)
      PROVE  /\ v1' \in AC!Choices /\ v2' \subseteq Emails /\ v6' \in Seq(As)
             /\ UNCHANGED <<v3, v7, v9>> /\ v5' \subseteq v5 /\ v10' \in [Emails -> BOOLEAN]
  <2>1. PICK a \in As : v6' = Append(v6, a) /\ v1' \in AC!Choices /\ v2' \subseteq Emails
    BY <1>5, AnswerIsGiven DEF AC!InductiveInv
  <2>2. v6' \in Seq(As)
    BY <1>0, <2>1, AppendProperties
  <2> HIDE DEF As
  <2>3. /\ UNCHANGED <<v3, v7, v9>> /\ v5' \subseteq v5
        /\ v10' = [u \in Emails |-> v10[u] \/ AC!Permits(v1', v2', u)]
    BY <1>5 DEF AC!Handle, AC!HandleFails
  <2> QED
    BY <1>0, <2>1, <2>2, <2>3
<1>6. ASSUME NEW i \in 1..MaxCalls, AC!AnswerArrives(i)
      PROVE  /\ UNCHANGED <<v1, v2, v9, v10>>
             /\ v3' \in Ps /\ v5' \subseteq AC!Handled /\ v6' \in Seq(As)
             /\ v7' \subseteq AC!Choices
  <2>1. i = 1 /\ v6[1] \in As /\ v6' \in Seq(As)
    BY <1>0, <1>6, AnswerIsTaken DEF AC!InductiveInv
  <2>2. v6[1].of \in AC!Handled /\ [kind |-> "list"] \in AC!Handled
    BY <2>1 DEF AC!Handled
  <2>3. v6[1].of.kind = "control" => v6[1].of.value \in AC!Choices
    BY <2>2 DEF AC!Handled
  <2>4. v6[1].ok => v6[1].control \in AC!Choices /\ v6[1].emails \subseteq Emails
    BY <2>1
  <2>5. v6[1].ok => AC!Shows(v6[1]) \in Ps
    BY <1>0, <2>4 DEF AC!Shows
  <2>6. v3' = IF v6[1].ok THEN AC!Shows(v6[1])
              ELSE IF AC!IsShown THEN v3 ELSE [v3 EXCEPT !.control = "default"]
    BY <1>6, <2>1 DEF AC!AnswerArrives
  <2>7. v3' \in Ps
    BY <1>0, <2>5, <2>6 DEF AC!Choices
  <2>8. v5' \subseteq AC!Handled /\ v7' \subseteq AC!Choices
    BY <1>0, <1>6, <2>1, <2>2, <2>3 DEF AC!AnswerArrives
  <2> QED
    BY <1>6, <2>1, <2>7, <2>8 DEF AC!AnswerArrives
<1>7. CASE UNCHANGED AC!accessVars
  BY <1>0, <1>7 DEF AC!accessVars
<1> QED
  BY <1>0, <1>2, <1>3, <1>4, <1>5, <1>6, <1>7 DEF AC!Next

(* A step neither gives nor takes an answer, or one of these.              *)
LEMMA GateKinds ==
  ASSUME AC!Next \/ UNCHANGED AC!accessVars
  PROVE  \/ /\ UNCHANGED <<v1, v2, v3, v6, v8>> /\ v5 \subseteq v5'
         \/ \E r \in v5, b \in BOOLEAN : AC!Handle(r) \/ AC!HandleFails(r, b)
         \/ \E i \in 1..MaxCalls : AC!AnswerArrives(i)
  BY DEF AC!Next, AC!accessVars, AC!Reach, AC!ReadControl, AC!ReadAllowlist,
         AC!GateUnchanged, AC!ChangeOverride, AC!Retry, AC!Change, AC!Request

LEMMA ControlStays ==
  ASSUME AC!InductiveInv, AC!Next \/ UNCHANGED AC!accessVars
  PROVE  AC!ControlIsCarried'
<1>0. AC!Shapes /\ AC!ControlIsCarried /\ Len(v6) \in Nat
  BY LenProperties DEF AC!InductiveInv, AC!Shapes
<1>1. CASE UNCHANGED <<v1, v2, v3, v6, v8>> /\ v5 \subseteq v5'
  BY <1>0, <1>1 DEF AC!ControlIsCarried
<1>2. ASSUME NEW r \in v5, NEW b \in BOOLEAN, AC!Handle(r) \/ AC!HandleFails(r, b)
      PROVE  AC!ControlIsCarried'
  <2>1. PICK a : /\ v6' = Append(v6, a) /\ a.of = r
                 /\ (a.ok => a.control = v1' /\ AC!Handle(r))
                 /\ (~a.ok => AC!HandleFails(r, b))
                 /\ Len(v6') = Len(v6) + 1 /\ v6'[Len(v6) + 1] = a
                 /\ \A j \in 1..Len(v6) : v6'[j] = v6[j]
    BY <1>0, <1>2, AnswerIsAdded
  <2>2. CASE AC!HasControl(a)
    <3>1. a.control = v1'
      BY <2>1, <2>2 DEF AC!HasControl
    <3> QED
      BY <1>0, <2>1, <2>2, <3>1 DEF AC!ControlIsCarried
  <2>3. CASE r.kind \in {"load", "control"} /\ ~AC!HasControl(a)
    <3>1. "control" \in v8'
      BY <2>1, <2>3 DEF AC!HasControl, AC!HandleFails, AC!Parts
    <3> QED
      BY <3>1 DEF AC!ControlIsCarried
  <2>4. CASE r.kind \notin {"load", "control"}
    <3>1. ~AC!HasControl(a) /\ v3' = v3 /\ v1' = v1
      BY <1>2, <2>1, <2>4 DEF AC!HasControl, AC!Handle, AC!HandleFails, AC!Sets
    <3>2. "control" \in v8 => "control" \in v8'
      BY <1>2, <2>4 DEF AC!Handle, AC!HandleFails, AC!Parts
    <3>3. [kind |-> "load"] \in v5 => [kind |-> "load"] \in v5'
      BY <1>2, <2>4 DEF AC!Handle, AC!HandleFails
    <3> QED
      BY <1>0, <2>1, <3>1, <3>2, <3>3 DEF AC!ControlIsCarried
  <2> QED
    BY <2>2, <2>3, <2>4
<1>3. ASSUME NEW i \in 1..MaxCalls, AC!AnswerArrives(i)
      PROVE  AC!ControlIsCarried'
  <2>1. /\ i = 1 /\ Len(v6) \in Nat \ {0} /\ Len(v6') = Len(v6) - 1
        /\ \A j \in 1..Len(v6') : v6'[j] = v6[j + 1]
    BY <1>0, <1>3, AnswerIsTaken
  <2>2. v1' = v1 /\ v8' = v8 /\ v5 \subseteq v5'
    BY <1>3 DEF AC!AnswerArrives
  <2>3. CASE "control" \in v8 \/ [kind |-> "load"] \in v5
    BY <2>2, <2>3 DEF AC!ControlIsCarried
  <2>4. ASSUME NEW m \in 0..Len(v6),
               \A j \in (m + 1)..Len(v6) : ~AC!HasControl(v6[j]),
               IF m = 0 THEN v1 = v3.control
               ELSE AC!HasControl(v6[m]) /\ v1 = v6[m].control
        PROVE  AC!ControlIsCarried'
    <3>1. CASE m \in 2..Len(v6)
      <4>1. \A j \in ((m - 1) + 1)..Len(v6') : ~AC!HasControl(v6'[j])
        <5> SUFFICES ASSUME NEW j \in ((m - 1) + 1)..Len(v6')
                     PROVE  ~AC!HasControl(v6'[j])
          OBVIOUS
        <5>1. j \in 1..Len(v6') /\ j + 1 \in (m + 1)..Len(v6)
          BY <2>1, <3>1
        <5> QED
          BY <2>1, <2>4, <5>1
      <4>2. AC!HasControl(v6'[m - 1]) /\ v1' = v6'[m - 1].control /\ m - 1 \in 0..Len(v6')
        BY <2>1, <2>2, <2>4, <3>1
      <4> QED
        BY <3>1, <4>1, <4>2 DEF AC!ControlIsCarried
    <3>2. CASE m \in {0, 1}
      <4>1. \A j \in (0 + 1)..Len(v6') : ~AC!HasControl(v6'[j])
        BY <2>1, <2>4, <3>2
      <4>2. v1' = v3'.control
        <5>1. v3' = IF v6[1].ok THEN AC!Shows(v6[1])
                    ELSE IF AC!IsShown THEN v3 ELSE [v3 EXCEPT !.control = "default"]
          BY <1>3, <2>1 DEF AC!AnswerArrives
        <5>2. v3 \in [control : AC!Choices \cup {"loading"}, emails : SUBSET Emails]
              /\ v1 # "loading"
          BY <1>0 DEF AC!Shapes, AC!Choices
        <5>3. CASE m = 1
          <6>1. AC!HasControl(v6[1]) /\ v1 = v6[1].control
            BY <2>4, <5>3
          <6> QED
            BY <2>2, <5>1, <5>2, <6>1 DEF AC!HasControl, AC!Shows
        <5>4. CASE m = 0
          <6>1. ~AC!HasControl(v6[1]) /\ v1 = v3.control
            BY <2>1, <2>4, <5>4
          <6>2. v6[1].ok => AC!Shows(v6[1]).control = v3.control
            BY <5>2, <6>1 DEF AC!HasControl, AC!Shows
          <6> QED
            BY <2>2, <5>1, <5>2, <6>1, <6>2 DEF AC!IsShown
        <5> QED
          BY <3>2, <5>3, <5>4
      <4>3. 0 \in 0..Len(v6')
        BY <2>1
      <4> QED
        BY <4>1, <4>2, <4>3 DEF AC!ControlIsCarried
    <3> QED
      BY <2>1, <3>1, <3>2
  <2> QED
    BY <1>0, <2>3, <2>4 DEF AC!ControlIsCarried
<1> QED
  BY <1>1, <1>2, <1>3, GateKinds

LEMMA RemovedLater ==
  ASSUME NEW m \in Nat, NEW x
  PROVE  x \in AC!RemovedAfter(m) <=>
           \E j \in (m + 1)..Len(v6) : AC!Removes(v6[j]) /\ x = v6[j].of.value
  BY DEF AC!RemovedAfter

LEMMA RemovedLaterNext ==
  ASSUME NEW m \in Nat, NEW x
  PROVE  x \in AC!RemovedAfter(m)' <=>
           \E j \in (m + 1)..Len(v6') : AC!Removes(v6'[j]) /\ x = v6'[j].of.value
  BY DEF AC!RemovedAfter

LEMMA ListingStays ==
  ASSUME AC!InductiveInv, AC!Next \/ UNCHANGED AC!accessVars
  PROVE  AC!ListingIsCarried'
<1>0. AC!Shapes /\ AC!ListingIsCarried /\ Len(v6) \in Nat
  BY LenProperties DEF AC!InductiveInv, AC!Shapes
<1>1. CASE UNCHANGED <<v1, v2, v3, v6, v8>> /\ v5 \subseteq v5'
  BY <1>0, <1>1 DEF AC!ListingIsCarried, AC!RemovedAfter
<1>2. ASSUME NEW r \in v5, NEW b \in BOOLEAN, AC!Handle(r) \/ AC!HandleFails(r, b)
      PROVE  AC!ListingIsCarried'
  <2>1. PICK a : /\ v6' = Append(v6, a) /\ a.of = r
                 /\ (a.ok => AC!Handle(r)) /\ (a.ok => a.emails = v2')
                 /\ (~a.ok => AC!HandleFails(r, b))
                 /\ Len(v6') = Len(v6) + 1 /\ v6'[Len(v6) + 1] = a
                 /\ \A j \in 1..Len(v6) : v6'[j] = v6[j]
    BY <1>0, <1>2, AnswerIsAdded
  <2>2. CASE ~a.ok /\ r.kind # "control"
    <3>1. "emails" \in v8'
      BY <2>1, <2>2, <1>0 DEF AC!HandleFails, AC!Parts
    <3> QED
      BY <3>1 DEF AC!ListingIsCarried
  <2>3. CASE a.ok /\ r.kind \in {"load", "list"}
    <3>1. AC!HasListing(a) /\ v2' = a.emails
      BY <2>1, <2>3 DEF AC!HasListing
    <3>3. PICK n \in 0..Len(v6') : n = Len(v6) + 1 /\ n # 0
      BY <1>0, <2>1
    <3>2. AC!RemovedAfter(n)' = {}
      BY <1>0, <2>1, <3>3, RemovedLaterNext
    <3>4. /\ \A j \in (n + 1)..Len(v6') : ~AC!HasListing(v6'[j])
          /\ AC!HasListing(v6'[n]) /\ v2' = v6'[n].emails \ AC!RemovedAfter(n)'
      BY <1>0, <2>1, <3>1, <3>2, <3>3
    <3> QED
      BY <3>3, <3>4 DEF AC!ListingIsCarried
  <2>4. CASE a.ok /\ r.kind = "add"
    <3>1. Len(v6) + 1 \in DOMAIN v6'
      BY <1>0, <2>1
    <3> QED
      BY <2>1, <2>4, <3>1 DEF AC!ListingIsCarried
  <2>5. CASE (a.ok /\ r.kind = "remove") \/ r.kind = "control"
    <3>1. v3' = v3 /\ ~AC!HasListing(a)
      BY <1>2, <2>1, <2>5 DEF AC!HasListing, AC!Handle, AC!HandleFails
    <3>2. "emails" \in v8 => "emails" \in v8'
      BY <1>2, <2>1, <2>5 DEF AC!Handle, AC!HandleFails, AC!Parts
    <3>3. \A k \in {"load", "list"} : [kind |-> k] \in v5 => [kind |-> k] \in v5'
      BY <1>2, <2>5 DEF AC!Handle, AC!HandleFails
    <3>4. v2' = IF AC!Removes(a) THEN v2 \ {a.of.value} ELSE v2
      BY <1>2, <2>1, <2>5 DEF AC!Handle, AC!HandleFails, AC!Sets, AC!Removes
    <3>5. ASSUME NEW m \in 0..Len(v6)
          PROVE  AC!RemovedAfter(m)' = IF AC!Removes(a) THEN AC!RemovedAfter(m) \cup {a.of.value}
                                       ELSE AC!RemovedAfter(m)
      <4>1. \A j : j \in (m + 1)..Len(v6') <=> j \in (m + 1)..Len(v6) \/ j = Len(v6) + 1
        BY <1>0, <2>1
      <4>2. \A j \in (m + 1)..Len(v6) : v6'[j] = v6[j]
        BY <2>1
      <4>3. ASSUME NEW x
            PROVE  x \in AC!RemovedAfter(m)' <=>
                     x \in AC!RemovedAfter(m) \/ (AC!Removes(a) /\ x = a.of.value)
        BY <2>1, <4>1, <4>2, RemovedLater, RemovedLaterNext
      <4> QED
        BY <4>3
    <3>6. CASE "emails" \in v8 \/ [kind |-> "load"] \in v5 \/ [kind |-> "list"] \in v5
      BY <3>2, <3>3, <3>6 DEF AC!ListingIsCarried
    <3>7. ASSUME NEW i \in DOMAIN v6, v6[i].ok /\ v6[i].of.kind = "add"
          PROVE  AC!ListingIsCarried'
      <4>1. i \in 1..Len(v6) /\ i \in DOMAIN v6'
        BY <1>0, <2>1, <3>7, LenProperties DEF AC!Shapes
      <4> QED
        BY <2>1, <3>7, <4>1 DEF AC!ListingIsCarried
    <3>8. ASSUME NEW m \in 0..Len(v6), \A j \in (m + 1)..Len(v6) : ~AC!HasListing(v6[j]),
                 IF m = 0 THEN v2 = v3.emails \ AC!RemovedAfter(0)
                 ELSE AC!HasListing(v6[m]) /\ v2 = v6[m].emails \ AC!RemovedAfter(m)
          PROVE  AC!ListingIsCarried'
      <4>1. m \in 0..Len(v6') /\ \A j \in (m + 1)..Len(v6') : ~AC!HasListing(v6'[j])
        BY <1>0, <2>1, <3>1, <3>8
      <4>2. IF m = 0 THEN v2' = v3'.emails \ AC!RemovedAfter(0)'
            ELSE AC!HasListing(v6'[m]) /\ v2' = v6'[m].emails \ AC!RemovedAfter(m)'
        <5>1. m = 0 => v2' = v3'.emails \ AC!RemovedAfter(0)'
          BY <3>1, <3>4, <3>5, <3>8
        <5>2. m # 0 => AC!HasListing(v6'[m]) /\ v2' = v6'[m].emails \ AC!RemovedAfter(m)'
          BY <2>1, <3>4, <3>5, <3>8
        <5> QED
          BY <5>1, <5>2
      <4> QED
        BY <4>1, <4>2 DEF AC!ListingIsCarried
    <3> QED
      BY <1>0, <3>6, <3>7, <3>8 DEF AC!ListingIsCarried
  <2>6. r.kind \in {"load", "list", "control", "add", "remove"}
    BY <1>0 DEF AC!Shapes, AC!Handled
  <2> QED
    BY <2>2, <2>3, <2>4, <2>5, <2>6
<1>3. ASSUME NEW i \in 1..MaxCalls, AC!AnswerArrives(i)
      PROVE  AC!ListingIsCarried'
  <2>1. /\ i = 1 /\ Len(v6) \in Nat \ {0} /\ Len(v6') = Len(v6) - 1
        /\ \A j \in 1..Len(v6') : v6'[j] = v6[j + 1]
    BY <1>0, <1>3, AnswerIsTaken
  <2>2. v2' = v2 /\ v8' = v8 /\ v5 \subseteq v5'
    BY <1>3 DEF AC!AnswerArrives
  <2>3. CASE "emails" \in v8 \/ [kind |-> "load"] \in v5 \/ [kind |-> "list"] \in v5
    BY <2>2, <2>3 DEF AC!ListingIsCarried
  <2>4. ASSUME NEW j \in DOMAIN v6, v6[j].ok /\ v6[j].of.kind = "add"
        PROVE  AC!ListingIsCarried'
    <3>1. CASE j = 1
      <4>1. [kind |-> "list"] \in v5'
        BY <1>3, <2>1, <2>4, <3>1 DEF AC!AnswerArrives
      <4> QED
        BY <4>1 DEF AC!ListingIsCarried
    <3>2. CASE j # 1
      <4>1. j - 1 \in 1..Len(v6') /\ DOMAIN v6' = 1..Len(v6') /\ (j - 1) + 1 = j
        BY <1>0, <1>3, <2>1, <3>2, LenProperties DEF AC!Shapes, AC!AnswerArrives
      <4>2. v6'[j - 1] = v6[j]
        BY <2>1, <4>1
      <4> QED
        BY <2>4, <4>1, <4>2 DEF AC!ListingIsCarried
    <3> QED
      BY <3>1, <3>2
  <2>5. ASSUME NEW m \in 0..Len(v6), \A j \in (m + 1)..Len(v6) : ~AC!HasListing(v6[j]),
               IF m = 0 THEN v2 = v3.emails \ AC!RemovedAfter(0)
               ELSE AC!HasListing(v6[m]) /\ v2 = v6[m].emails \ AC!RemovedAfter(m)
        PROVE  AC!ListingIsCarried'
    <3>0. ASSUME NEW n \in 0..Len(v6'), NEW x
          PROVE  x \in AC!RemovedAfter(n)' <=>
                   \E j \in (n + 2)..Len(v6) : AC!Removes(v6[j]) /\ x = v6[j].of.value
      <4>1. \A j \in (n + 1)..Len(v6') : j + 1 \in (n + 2)..Len(v6) /\ v6'[j] = v6[j + 1]
        BY <2>1
      <4>2. \A j \in (n + 2)..Len(v6) : j - 1 \in (n + 1)..Len(v6') /\ v6'[j - 1] = v6[j]
        BY <2>1
      <4>3. /\ x \in AC!RemovedAfter(n)' => \E j \in (n + 2)..Len(v6) :
                   AC!Removes(v6[j]) /\ x = v6[j].of.value
            /\ (\E j \in (n + 2)..Len(v6) : AC!Removes(v6[j]) /\ x = v6[j].of.value)
                 => \E j \in (n + 1)..Len(v6') : AC!Removes(v6'[j]) /\ x = v6'[j].of.value
        <5>1. n \in Nat
          BY <2>1
        <5>2. ASSUME NEW j \in (n + 1)..Len(v6'), AC!Removes(v6'[j]) /\ x = v6'[j].of.value
              PROVE  \E l \in (n + 2)..Len(v6) : AC!Removes(v6[l]) /\ x = v6[l].of.value
          BY <4>1, <5>2
        <5>3. ASSUME NEW j \in (n + 2)..Len(v6), AC!Removes(v6[j]) /\ x = v6[j].of.value
              PROVE  \E l \in (n + 1)..Len(v6') : AC!Removes(v6'[l]) /\ x = v6'[l].of.value
          BY <4>2, <5>3
        <5> QED
          BY <5>1, <5>2, <5>3, RemovedLaterNext
      <4>4. n \in Nat
        BY <2>1
      <4> QED
        BY <4>3, <4>4, RemovedLaterNext
    <3>1. CASE m \in 2..Len(v6)
      <4>1. \A j \in ((m - 1) + 1)..Len(v6') : ~AC!HasListing(v6'[j])
        <5> SUFFICES ASSUME NEW j \in ((m - 1) + 1)..Len(v6')
                     PROVE  ~AC!HasListing(v6'[j])
          OBVIOUS
        <5>1. j \in 1..Len(v6') /\ j + 1 \in (m + 1)..Len(v6)
          BY <2>1, <3>1
        <5> QED
          BY <2>1, <2>5, <5>1
      <4>2. m - 1 \in 0..Len(v6') /\ m - 1 # 0 /\ v6'[m - 1] = v6[m] /\ (m - 1) + 2 = m + 1
        BY <2>1, <3>1
      <4>3. AC!RemovedAfter(m - 1)' = AC!RemovedAfter(m)
        <5>1. ASSUME NEW x
              PROVE  x \in AC!RemovedAfter(m - 1)' <=> x \in AC!RemovedAfter(m)
          BY <3>0, <4>2, RemovedLater
        <5> QED
          BY <5>1
      <4>4. AC!HasListing(v6'[m - 1]) /\ v2' = v6'[m - 1].emails \ AC!RemovedAfter(m - 1)'
        BY <2>2, <2>5, <3>1, <4>2, <4>3
      <4> QED
        BY <4>1, <4>2, <4>4 DEF AC!ListingIsCarried
    <3>2. CASE m \in {0, 1}
      <4>1. \A j \in (0 + 1)..Len(v6') : ~AC!HasListing(v6'[j])
        BY <2>1, <2>5, <3>2
      <4>2. v3' = IF v6[1].ok THEN AC!Shows(v6[1])
                  ELSE IF AC!IsShown THEN v3 ELSE [v3 EXCEPT !.control = "default"]
        BY <1>3, <2>1 DEF AC!AnswerArrives
      <4>3. v3 \in [control : AC!Choices \cup {"loading"}, emails : SUBSET Emails]
        BY <1>0 DEF AC!Shapes
      <4>4. \A x : x \in AC!RemovedAfter(1) <=> x \in AC!RemovedAfter(0)'
        BY <2>1, <3>0, RemovedLater
      <4>5. CASE m = 1
        <5>1. AC!HasListing(v6[1]) /\ v2 = v6[1].emails \ AC!RemovedAfter(1)
          BY <2>5, <4>5
        <5>2. v3'.emails = v6[1].emails
          BY <4>2, <4>3, <5>1 DEF AC!HasListing, AC!Shows
        <5>3. v2' = v3'.emails \ AC!RemovedAfter(0)'
          BY <2>2, <4>4, <5>1, <5>2
        <5> QED
          BY <2>1, <4>1, <5>3 DEF AC!ListingIsCarried
      <4>6. CASE m = 0
        <5>1. ~AC!HasListing(v6[1]) /\ v2 = v3.emails \ AC!RemovedAfter(0)
          BY <2>1, <2>5, <4>6
        <5>2. v3'.emails = IF AC!Removes(v6[1]) THEN v3.emails \ {v6[1].of.value} ELSE v3.emails
          BY <4>2, <4>3, <5>1 DEF AC!HasListing, AC!Shows, AC!Removes
        <5>3. ASSUME NEW x
              PROVE  x \in AC!RemovedAfter(0) <=>
                       x \in AC!RemovedAfter(0)' \/ (AC!Removes(v6[1]) /\ x = v6[1].of.value)
          <6>1. \A j : j \in (0 + 1)..Len(v6) <=> j = 1 \/ j \in (0 + 2)..Len(v6)
            BY <2>1
          <6> QED
            BY <2>1, <3>0, <6>1, RemovedLater
        <5>4. v2' = v3'.emails \ AC!RemovedAfter(0)'
          BY <2>2, <5>1, <5>2, <5>3
        <5> QED
          BY <2>1, <4>1, <5>4 DEF AC!ListingIsCarried
      <4> QED
        BY <3>2, <4>5, <4>6
    <3> QED
      BY <2>1, <3>1, <3>2
  <2> QED
    BY <1>0, <2>3, <2>4, <2>5 DEF AC!ListingIsCarried
<1> QED
  BY <1>1, <1>2, <1>3, GateKinds

LEMMA PanelShowsTables == AC!InductiveInv => AC!AccessIsJust
<1> SUFFICES ASSUME AC!InductiveInv PROVE AC!AccessIsJust
  OBVIOUS
<1>1. AC!GrantsAreJust
  BY DEF AC!InductiveInv, AC!JustIsKept, AC!GrantsAreJust
<1>2. ASSUME v5 = {}, v6 = <<>>
      PROVE  /\ "control" \notin v8 => v3.control = v1
             /\ "emails" \notin v8 => v3.emails = v2
  <2>1. Len(v6) = 0 /\ DOMAIN v6 = {}
    BY <1>2, EmptySeq
  <2>2. AC!RemovedAfter(0) = {}
    BY <2>1, RemovedLater
  <2>3. AC!ControlIsCarried /\ AC!ListingIsCarried
    BY DEF AC!InductiveInv
  <2>4. "control" \notin v8 => v3.control = v1
    BY <1>2, <2>1, <2>3 DEF AC!ControlIsCarried
  <2>5. ASSUME "emails" \notin v8
        PROVE  v3.emails = v2
    <3>1. PICK i \in 0..Len(v6) :
            IF i = 0 THEN v2 = v3.emails \ AC!RemovedAfter(0)
            ELSE AC!HasListing(v6[i]) /\ v2 = v6[i].emails \ AC!RemovedAfter(i)
      BY <1>2, <2>1, <2>3, <2>5 DEF AC!ListingIsCarried
    <3>2. i = 0
      BY <2>1
    <3> QED
      BY <2>2, <3>1, <3>2
  <2> QED
    BY <2>4, <2>5
<1> QED
  BY <1>1, <1>2 DEF AC!AccessIsJust, AC!PanelIsTrue

(* auth/index.ts, access.ts, access-control-panel.tsx: sign-ups that race  *)
(* leave one administrator, the gate lets in whom the tables permitted at  *)
(* some moment of its check, and the panel at rest shows what the gate     *)
(* goes by, for any users and any number of requests and lost answers.     *)
THEOREM OnlyPermittedEnter ==
  ASSUME AdminAssumptions, GateAssumptions PROVE Spec => []AccessIsJust
<1> DEFINE Inv == /\ part = "users" => FA!InductiveInv
                  /\ part = "gate" => AC!InductiveInv
<1>1. Init => Inv
  BY AdminInit, GateInit DEF Init
<1>2. ASSUME Inv, [Next]_vars
      PROVE  Inv'
  <2>1. part' = part
    BY <1>2, PartStays
  <2>2. CASE part = "users"
    BY <1>2, <2>1, <2>2, AdminSteps, AdminNext
  <2>3. CASE part = "gate"
    BY <1>2, <2>1, <2>3, GateSteps, JustStays, GateShapes, ControlStays, ListingStays
       DEF AC!InductiveInv
  <2> QED
    BY <2>1, <2>2, <2>3
<1>3. Inv => AccessIsJust
  BY OneAdminLeft, PanelShowsTables DEF AccessIsJust
<1> QED
  BY <1>1, <1>2, <1>3, PTL DEF Spec

-----------------------------------------------------------------------------
(* Commits: v1 wt, v2 ix, v3 hd, v4 job, v5 meddled, v6 born, v7 faults.   *)

LEMMA GitSteps ==
  ASSUME part = "git", [Next]_vars
  PROVE  GC!Next \/ UNCHANGED GC!gitVars
  BY DEF Next, vars, GC!Next, GC!gitVars

LEMMA HiddenArePaths == GC!Hidden \subseteq Paths /\ GC!Changed \subseteq Paths
<1>1. CASE GC!Pairs = {} \/ ~Renames
  BY <1>1 DEF GC!Hidden, GC!Changed
<1>2. CASE GC!Pairs # {} /\ Renames
  <2>1. (CHOOSE r \in GC!Pairs : TRUE) \in GC!Pairs
    BY <1>2
  <2>2. (CHOOSE r \in GC!Pairs : TRUE)[1] \in Paths
    BY <2>1 DEF GC!Pairs
  <2> QED
    BY <1>2, <2>2 DEF GC!Hidden, GC!Changed
<1> QED
  BY <1>1, <1>2

LEMMA GitInit == ASSUME GC!Init PROVE GC!InductiveInv
<1>1. GC!Shapes
  BY DEF GC!Init, GC!Shapes, GC!NoJob, GC!Blank, GC!Contents
<1> QED
  BY <1>1 DEF GC!Init, GC!InductiveInv, GC!IndexIsKnown, GC!Known, GC!NoJob, GC!Running

(* A call that another step does not move: what the step changed it counts *)
(* as touched, and of the rest it knows what it knew.                      *)
LEMMA OthersAreSeen ==
  ASSUME GC!Shapes, NEW d \in Commits, GC!Known(d), v4'[d] = GC!Seen(d)
  PROVE  /\ GC!Known(d)'
         /\ v4'[d] \in [pc : GC!Running \cup GC!Ends \cup {"no"}, sel : SUBSET Paths,
                        amend : BOOLEAN, prot : SUBSET Paths, base : GC!Contents,
                        hidden : SUBSET Paths, added : GC!Contents, touched : SUBSET Paths]
         /\ v4'[d].pc = v4[d].pc
<1>1. CASE v4[d].pc \in GC!Ends \cup {"no"}
  BY <1>1 DEF GC!Shapes, GC!Seen, GC!Known, GC!Running, GC!Ends
<1>2. CASE v4[d].pc \notin GC!Ends \cup {"no"}
  <2>1. v4'[d] = [v4[d] EXCEPT !.touched = @ \cup GC!Changed]
    BY <1>2 DEF GC!Seen
  <2>2. /\ \A p \in Paths \ v4'[d].touched :
             v2'[p] = v2[p] /\ v3'[p] = v3[p] /\ p \notin v4[d].touched
        /\ v4'[d].pc = v4[d].pc /\ v4'[d].sel = v4[d].sel /\ v4'[d].prot = v4[d].prot
        /\ v4'[d].base = v4[d].base /\ v4'[d].hidden = v4[d].hidden
        /\ v4'[d].added = v4[d].added /\ v4[d].sel \subseteq Paths
    BY <2>1 DEF GC!Shapes, GC!Changed
  <2>3. GC!Known(d)'
    BY <2>2 DEF GC!Known
  <2> QED
    BY <2>1, <2>3, HiddenArePaths DEF GC!Shapes
<1> QED
  BY <1>1, <1>2

(* A step of one call: it remains to show what that call knows after it.   *)
LEMMA GitMove ==
  ASSUME GC!InductiveInv, NEW c \in Commits,
         NEW j \in [pc : GC!Running \cup GC!Ends \cup {"no"}, sel : SUBSET Paths,
                    amend : BOOLEAN, prot : SUBSET Paths, base : GC!Contents,
                    hidden : SUBSET Paths, added : GC!Contents, touched : SUBSET Paths],
         GC!Moves(c, j), v1' = v1, v2' \in GC!Contents, v3' \in GC!Contents,
         GC!Known(c)'
  PROVE  /\ GC!InductiveInv'
         /\ v4'[c] = j
         /\ \A d \in Commits \ {c} : v4'[d].pc = v4[d].pc
<1>1. v4'[c] = j /\ \A d \in Commits \ {c} : v4'[d] = GC!Seen(d)
  BY DEF GC!Moves
<1>2. \A d \in Commits : GC!Known(d)
  BY DEF GC!InductiveInv, GC!IndexIsKnown
<1>3. \A d \in Commits \ {c} :
        /\ GC!Known(d)' /\ v4'[d].pc = v4[d].pc
        /\ v4'[d] \in [pc : GC!Running \cup GC!Ends \cup {"no"}, sel : SUBSET Paths,
                       amend : BOOLEAN, prot : SUBSET Paths, base : GC!Contents,
                       hidden : SUBSET Paths, added : GC!Contents, touched : SUBSET Paths]
  BY <1>1, <1>2, OthersAreSeen DEF GC!InductiveInv
<1>4. GC!IndexIsKnown'
  BY <1>3 DEF GC!IndexIsKnown
<1>5. GC!Shapes'
  BY <1>1, <1>3 DEF GC!InductiveInv, GC!Shapes, GC!Moves
<1> QED
  BY <1>1, <1>3, <1>4, <1>5 DEF GC!InductiveInv
LEMMA GitEnds ==
  ASSUME GC!InductiveInv, NEW c \in Commits, NEW pc \in GC!Ends, GC!GoesTo(c, pc),
         v1' = v1, v2' \in GC!Contents, v3' \in GC!Contents
  PROVE  /\ GC!InductiveInv'
         /\ v4'[c].pc = pc
         /\ \A d \in Commits \ {c} : v4'[d].pc = v4[d].pc
<1> DEFINE j == [GC!NoJob EXCEPT !.pc = pc]
<1>1. GC!Moves(c, j) /\ j.pc = pc
  BY DEF GC!GoesTo, GC!NoJob
<1>2. j \in [pc : GC!Running \cup GC!Ends \cup {"no"}, sel : SUBSET Paths,
             amend : BOOLEAN, prot : SUBSET Paths, base : GC!Contents,
             hidden : SUBSET Paths, added : GC!Contents, touched : SUBSET Paths]
  BY DEF GC!NoJob, GC!Blank, GC!Contents
<1> HIDE DEF j
<1>3. v4'[c].pc = pc
  BY <1>1 DEF GC!Moves
<1>4. GC!Known(c)'
  BY <1>3 DEF GC!Known, GC!Running, GC!Ends
<1>5. v4'[c] = j
  BY <1>1 DEF GC!Moves
<1> QED
  BY <1>1, <1>2, <1>3, <1>4, GitMove

LEMMA GitGoesOn ==
  ASSUME GC!InductiveInv, NEW c \in Commits, NEW pc \in GC!Running, GC!GoesTo(c, pc),
         v1' = v1, v2' \in GC!Contents, v3' \in GC!Contents,
         v4'[c] = [v4[c] EXCEPT !.pc = pc] => GC!Known(c)'
  PROVE  /\ GC!InductiveInv'
         /\ v4'[c].pc = pc
         /\ \A d \in Commits \ {c} : v4'[d].pc = v4[d].pc
<1> DEFINE j == [v4[c] EXCEPT !.pc = pc]
<1>1. GC!Moves(c, j)
  BY DEF GC!GoesTo, GC!Running, GC!Ends
<1>2. /\ j \in [pc : GC!Running \cup GC!Ends \cup {"no"}, sel : SUBSET Paths,
                amend : BOOLEAN, prot : SUBSET Paths, base : GC!Contents,
                hidden : SUBSET Paths, added : GC!Contents, touched : SUBSET Paths]
      /\ j.pc = pc
  BY DEF GC!InductiveInv, GC!Shapes
<1>3. v4'[c] = j
  BY <1>1 DEF GC!Moves
<1> HIDE DEF j
<1>4. GC!Known(c)'
  BY <1>3 DEF j
<1> QED
  BY <1>1, <1>2, <1>3, <1>4, GitMove

(* What one step of a call does, besides what it leaves known.             *)
LEMMA GitCall ==
  ASSUME GC!InductiveInv, NEW c \in Commits,
         GC!Begin(c) \/ GC!Protect(c) \/ GC!AddSelected(c) \/ GC!Commit(c) \/ GC!Restore(c)
  PROVE  /\ GC!InductiveInv'
         /\ \A d \in Commits \ {c} : v4'[d].pc = v4[d].pc
<1>0. /\ v1 \in GC!Contents /\ v2 \in GC!Contents /\ v3 \in GC!Contents
      /\ v4[c].prot \subseteq Paths /\ v4[c].sel \subseteq Paths
      /\ v4[c].base \in GC!Contents /\ GC!Known(c)
      /\ v4[c] \in [pc : GC!Running \cup GC!Ends \cup {"no"}, sel : SUBSET Paths,
                     amend : BOOLEAN, prot : SUBSET Paths, base : GC!Contents,
                     hidden : SUBSET Paths, added : GC!Contents, touched : SUBSET Paths]
  BY DEF GC!InductiveInv, GC!Shapes, GC!IndexIsKnown
<1>00. GC!AfterFailure(c) \in {"failed", "restore"}
  BY DEF GC!AfterFailure
<1>1. CASE GC!Begin(c)
  <2>1. UNCHANGED <<v1, v2, v3>>
    BY <1>1 DEF GC!Begin
  <2>2. CASE GC!GoesTo(c, "refused")
    BY <1>0, <2>1, <2>2, GitEnds DEF GC!Ends
  <2>3. ASSUME NEW sel \in SUBSET Paths, NEW amend \in BOOLEAN,
               GC!Moves(c, [GC!NoJob EXCEPT
                  !.pc = IF GC!Staged \subseteq sel THEN "add" ELSE "protect",
                  !.sel = sel, !.amend = amend, !.prot = GC!Staged \ sel,
                  !.base = v2, !.hidden = GC!Hidden])
        PROVE  /\ GC!InductiveInv'
               /\ \A d \in Commits \ {c} : v4'[d].pc = v4[d].pc
    <3> DEFINE pc == IF GC!Staged \subseteq sel THEN "add" ELSE "protect"
               j == [GC!NoJob EXCEPT !.pc = pc, !.sel = sel, !.amend = amend,
                       !.prot = GC!Staged \ sel, !.base = v2, !.hidden = GC!Hidden]
    <3>1. /\ pc \in GC!Running /\ pc # "commit"
          /\ pc # "protect" => GC!Staged \subseteq sel
          /\ GC!Hidden \subseteq Paths /\ GC!Staged \ sel \subseteq Paths
          /\ GC!Moves(c, j)
      BY <2>3, HiddenArePaths DEF GC!Running, GC!Staged
    <3> HIDE DEF pc
    <3>2. /\ j \in [pc : GC!Running \cup GC!Ends \cup {"no"}, sel : SUBSET Paths,
                    amend : BOOLEAN, prot : SUBSET Paths, base : GC!Contents,
                    hidden : SUBSET Paths, added : GC!Contents, touched : SUBSET Paths]
          /\ j.pc = pc /\ j.sel = sel /\ j.prot = GC!Staged \ sel
          /\ j.base = v2 /\ j.hidden = GC!Hidden /\ j.touched = {}
      <4>1. /\ GC!NoJob \in [pc : GC!Running \cup GC!Ends \cup {"no"}, sel : SUBSET Paths,
                    amend : BOOLEAN, prot : SUBSET Paths, base : GC!Contents,
                    hidden : SUBSET Paths, added : GC!Contents, touched : SUBSET Paths]
            /\ GC!NoJob.touched = {}
        BY DEF GC!NoJob, GC!Blank, GC!Contents
      <4> QED
        BY <1>0, <3>1, <4>1
    <3> HIDE DEF j
    <3>3. v4'[c] = j
      BY <3>1 DEF GC!Moves
    <3>4. \A p \in Paths \ (sel \cup GC!Hidden) :
            p \notin GC!Staged \ sel => v2[p] = v3[p]
      BY DEF GC!Staged
    <3>5. GC!Known(c)'
      <4>1. \A p \in Paths \ (sel \cup GC!Hidden) :
              /\ p \notin j.prot => v2'[p] = v3'[p]
              /\ pc # "protect" => v2'[p] = v3'[p]
              /\ v2'[p] = j.base[p]
        BY <2>1, <3>1, <3>2, <3>4
      <4>2. j.prot \cap j.sel = {} /\ j.pc # "commit"
        BY <3>1, <3>2
      <4> QED
        BY <3>2, <3>3, <4>1, <4>2 DEF GC!Known
    <3> QED
      BY <1>0, <2>1, <3>1, <3>2, <3>5, GitMove
  <2> QED
    BY <1>1, <2>2, <2>3 DEF GC!Begin
<1>2. CASE GC!Protect(c)
  <2>1. v4[c].pc = "protect" /\ UNCHANGED <<v1, v3>>
    BY <1>2 DEF GC!Protect
  <2>2. CASE GC!GoesTo(c, "failed") /\ v2' = v2
    BY <1>0, <2>1, <2>2, GitEnds DEF GC!Ends
  <2>3. CASE GC!GoesTo(c, "add") /\ GC!ResetPaths(v4[c].prot)
    <3>1. v2' \in GC!Contents
      BY <1>0, <2>3 DEF GC!ResetPaths, GC!Contents
    <3>2. v4'[c] = [v4[c] EXCEPT !.pc = "add"] => GC!Known(c)'
      BY <1>0, <2>1, <2>3 DEF GC!ResetPaths, GC!Known, GC!Running
    <3> QED
      BY <1>0, <2>1, <2>3, <3>1, <3>2, GitGoesOn DEF GC!Running
  <2> QED
    BY <1>2, <2>2, <2>3 DEF GC!Protect
<1>3. CASE GC!AddSelected(c)
  <2>1. v4[c].pc = "add" /\ UNCHANGED <<v1, v3>>
    BY <1>3 DEF GC!AddSelected
  <2>2. CASE GC!GoesTo(c, GC!AfterFailure(c)) /\ v2' = v2
    <3>1. v4'[c] = [v4[c] EXCEPT !.pc = "restore"] => GC!Known(c)'
      BY <1>0, <2>1, <2>2 DEF GC!Known, GC!Running
    <3> QED
      BY <1>0, <1>00, <2>1, <2>2, <3>1, GitGoesOn, GitEnds DEF GC!Running, GC!Ends
  <2>3. CASE /\ GC!AddPaths(v4[c].sel)
             /\ GC!Moves(c, [v4[c] EXCEPT !.pc = "commit", !.added = v1])
    <3> DEFINE j == [v4[c] EXCEPT !.pc = "commit", !.added = v1]
    <3>1. v2' \in GC!Contents
      BY <1>0, <2>3 DEF GC!AddPaths, GC!Contents
    <3>2. j \in [pc : GC!Running \cup GC!Ends \cup {"no"}, sel : SUBSET Paths,
                 amend : BOOLEAN, prot : SUBSET Paths, base : GC!Contents,
                 hidden : SUBSET Paths, added : GC!Contents, touched : SUBSET Paths]
      BY <1>0 DEF GC!Running
    <3>3. v4'[c] = j
      BY <2>3 DEF GC!Moves
    <3>4. GC!Known(c)'
      BY <1>0, <2>1, <2>3, <3>3 DEF GC!AddPaths, GC!Known, GC!Running
    <3> HIDE DEF j
    <3>5. GC!Moves(c, j)
      BY <2>3 DEF j
    <3> QED
      BY <1>0, <2>1, <3>1, <3>2, <3>4, <3>5, GitMove
  <2> QED
    BY <1>3, <2>2, <2>3 DEF GC!AddSelected
<1>4. CASE GC!Commit(c)
  <2>1. v4[c].pc = "commit" /\ UNCHANGED <<v1, v2>> /\ v3' \in GC!Contents
    BY <1>0, <1>4 DEF GC!Commit
  <2>2. CASE GC!GoesTo(c, GC!AfterFailure(c)) /\ v3' = v3
    <3>1. v4'[c] = [v4[c] EXCEPT !.pc = "restore"] => GC!Known(c)'
      BY <1>0, <2>1, <2>2 DEF GC!Known, GC!Running
    <3> QED
      BY <1>0, <1>00, <2>1, <2>2, <3>1, GitGoesOn, GitEnds DEF GC!Running, GC!Ends
  <2>3. CASE GC!GoesTo(c, "done")
    BY <1>0, <2>1, <2>3, GitEnds DEF GC!Ends
  <2> QED
    BY <1>4, <2>2, <2>3 DEF GC!Commit
<1>5. CASE GC!Restore(c)
  <2>1. /\ UNCHANGED <<v1, v3>>
        /\ GC!GoesTo(c, "failed") \/ GC!GoesTo(c, "unrestored")
        /\ v2' = v2 \/ GC!AddPaths(v4[c].prot)
    BY <1>5 DEF GC!Restore
  <2>2. v2' \in GC!Contents
    BY <1>0, <2>1 DEF GC!AddPaths, GC!Contents
  <2> QED
    BY <1>0, <2>1, <2>2, GitEnds DEF GC!Ends
<1> QED
  BY <1>1, <1>2, <1>3, <1>4, <1>5

LEMMA GitOthers ==
  ASSUME GC!InductiveInv,
         GC!Edit \/ GC!StageFiles \/ GC!UnstageFiles \/ GC!OtherCommit
  PROVE  /\ GC!InductiveInv'
         /\ \A d \in Commits : v4'[d].pc = v4[d].pc
<1>1. v1 \in GC!Contents /\ v2 \in GC!Contents /\ v3 \in GC!Contents
  BY DEF GC!InductiveInv, GC!Shapes
<1>2. v1' \in GC!Contents /\ v2' \in GC!Contents /\ v3' \in GC!Contents
  <2>1. CASE GC!Edit
    BY <1>1, <2>1 DEF GC!Edit, GC!Contents
  <2>2. CASE GC!StageFiles
    BY <1>1, <2>2 DEF GC!StageFiles, GC!AddPaths, GC!Contents
  <2>3. CASE GC!UnstageFiles
    BY <1>1, <2>3 DEF GC!UnstageFiles, GC!ResetPaths, GC!Contents
  <2>4. CASE GC!OtherCommit
    BY <1>1, <2>4 DEF GC!OtherCommit
  <2> QED
    BY <2>1, <2>2, <2>3, <2>4
<1>3. v4' = [d \in Commits |-> GC!Seen(d)]
  BY DEF GC!Edit, GC!StageFiles, GC!UnstageFiles, GC!OtherCommit, GC!Meddles
<1>4. \A d \in Commits :
        /\ GC!Known(d)' /\ v4'[d].pc = v4[d].pc
        /\ v4'[d] \in [pc : GC!Running \cup GC!Ends \cup {"no"}, sel : SUBSET Paths,
                       amend : BOOLEAN, prot : SUBSET Paths, base : GC!Contents,
                       hidden : SUBSET Paths, added : GC!Contents, touched : SUBSET Paths]
  BY <1>3, OthersAreSeen DEF GC!InductiveInv, GC!IndexIsKnown
<1> QED
  BY <1>2, <1>3, <1>4 DEF GC!InductiveInv, GC!Shapes, GC!IndexIsKnown

LEMMA GitNext ==
  ASSUME GC!InductiveInv, GC!Next \/ UNCHANGED GC!gitVars
  PROVE  GC!InductiveInv'
<1>1. CASE UNCHANGED GC!gitVars
  BY <1>1 DEF GC!gitVars, GC!InductiveInv, GC!Shapes, GC!IndexIsKnown, GC!Known
<1> QED
  BY <1>1, GitCall, GitOthers DEF GC!Next

LEMMA WhereItGoes ==
  ASSUME GC!Shapes, NEW c \in Commits, NEW pc, GC!GoesTo(c, pc)
  PROVE  v4'[c].pc = pc
<1>1. /\ [GC!NoJob EXCEPT !.pc = pc].pc = pc
      /\ [v4[c] EXCEPT !.pc = pc].pc = pc
  BY DEF GC!Shapes, GC!NoJob
<1> QED
  BY <1>1 DEF GC!GoesTo, GC!Moves

LEMMA OnlyItsOwn ==
  ASSUME GC!InductiveInv, GC!Next \/ UNCHANGED GC!gitVars, NEW c \in Commits,
         v4'[c].pc # v4[c].pc
  PROVE  GC!Begin(c) \/ GC!Protect(c) \/ GC!AddSelected(c) \/ GC!Commit(c) \/ GC!Restore(c)
<1>1. ASSUME NEW d \in Commits, d # c
      PROVE  ~(GC!Begin(d) \/ GC!Protect(d) \/ GC!AddSelected(d) \/ GC!Commit(d) \/ GC!Restore(d))
  BY <1>1, GitCall
<1>2. ~(GC!Edit \/ GC!StageFiles \/ GC!UnstageFiles \/ GC!OtherCommit)
  BY GitOthers
<1> QED
  BY <1>1, <1>2 DEF GC!Next, GC!gitVars

(* The step that ends a call is its own, and what the call knew of the     *)
(* index says what was committed or left.                                  *)
LEMMA GitSpares ==
  ASSUME GC!InductiveInv, GC!Next \/ UNCHANGED GC!gitVars
  PROVE  GC!OfSelection /\ GC!KeepsStaged
<1>0. \A c \in Commits : GC!Known(c)
  BY DEF GC!InductiveInv, GC!IndexIsKnown
<1>1. ASSUME NEW c \in Commits, GC!Succeeds(c), NEW p \in Paths \ v4[c].touched
      PROVE  v3'[p] = IF p \in v4[c].sel THEN v4[c].added[p]
                      ELSE IF p \in v4[c].hidden THEN v2[p] ELSE v3[p]
  <2>1. v4[c].pc = "commit" /\ v4'[c].pc = "done"
    BY <1>1 DEF GC!Succeeds
  <2>2. GC!Commit(c)
    BY <2>1, OnlyItsOwn DEF GC!Begin, GC!Protect, GC!AddSelected, GC!Restore
  <2>3. GC!AfterFailure(c) # "done"
    BY DEF GC!AfterFailure
  <2>4. v3' = v2
    BY <2>1, <2>2, <2>3, WhereItGoes DEF GC!Commit, GC!InductiveInv
  <2> QED
    BY <1>0, <1>1, <2>1, <2>4 DEF GC!Known, GC!Running
<1>2. ASSUME NEW c \in Commits, GC!Fails(c),
             NEW p \in Paths \ (v4[c].touched \cup v4[c].sel \cup v4[c].hidden),
             v1[p] = v4[c].base[p] \/ p \notin v4[c].prot
      PROVE  v2'[p] = v4[c].base[p]
  <2>1. v4[c].pc # "failed" /\ v4'[c].pc = "failed"
    BY <1>2 DEF GC!Fails
  <2>2. GC!Shapes /\ GC!Known(c)
    BY <1>0 DEF GC!InductiveInv
  <2>3. CASE GC!Begin(c)
    <3>1. CASE GC!GoesTo(c, "refused")
      BY <2>1, <2>2, <3>1, WhereItGoes
    <3>2. ASSUME NEW sel, NEW amend,
                 GC!Moves(c, [GC!NoJob EXCEPT
                    !.pc = IF GC!Staged \subseteq sel THEN "add" ELSE "protect",
                    !.sel = sel, !.amend = amend, !.prot = GC!Staged \ sel,
                    !.base = v2, !.hidden = GC!Hidden])
          PROVE  FALSE
      BY <2>1, <3>2 DEF GC!Moves, GC!NoJob
    <3> QED
      BY <2>3, <3>1, <3>2 DEF GC!Begin
  <2>4. CASE GC!Protect(c)
    <3>1. v4[c].pc = "protect" /\ v2' = v2
      BY <2>1, <2>2, <2>4, WhereItGoes DEF GC!Protect
    <3> QED
      BY <2>2, <3>1 DEF GC!Known, GC!Running
  <2>5. CASE GC!AddSelected(c) \/ GC!Commit(c)
    <3>1. v4[c].pc \in {"add", "commit"}
      BY <2>5 DEF GC!AddSelected, GC!Commit
    <3>2. ~GC!Moves(c, [v4[c] EXCEPT !.pc = "commit", !.added = v1])
      BY <2>1, <2>2 DEF GC!Moves, GC!Shapes
    <3>3. GC!GoesTo(c, GC!AfterFailure(c)) /\ v2' = v2
      BY <2>1, <2>2, <2>5, <3>2, WhereItGoes DEF GC!AddSelected, GC!Commit
    <3>4. v4[c].prot = {}
      BY <2>1, <2>2, <3>3, WhereItGoes DEF GC!AfterFailure
    <3> QED
      BY <2>2, <3>1, <3>3, <3>4 DEF GC!Known, GC!Running
  <2>6. CASE GC!Restore(c)
    <3>1. v4[c].pc = "restore" /\ GC!AddPaths(v4[c].prot)
      BY <2>1, <2>2, <2>6, WhereItGoes DEF GC!Restore
    <3> QED
      BY <1>2, <2>2, <3>1 DEF GC!Known, GC!Running, GC!AddPaths
  <2> QED
    BY <2>1, <2>3, <2>4, <2>5, <2>6, OnlyItsOwn
<1> QED
  BY <1>1, <1>2 DEF GC!OfSelection, GC!KeepsStaged

(* commands.ts commitFiles: a commit changes the selected files, each to   *)
(* what was added, and no other, and one that fails puts back what it had  *)
(* unstaged, but for what others touched meanwhile, for any paths and any  *)
(* number of calls, faults and steps of others between its processes.      *)
THEOREM CommitSparesTheRest == Spec => CommitSparesOthers
<1> DEFINE Inv == part = "git" => GC!InductiveInv
           Spares == part = "git" => GC!OfSelection /\ GC!KeepsStaged
<1>1. Init => Inv
  BY GitInit DEF Init
<1>2. Inv /\ [Next]_vars => Inv'
  BY PartStays, GitSteps, GitNext
<1>3. Inv /\ [Next]_vars => Spares
  BY GitSteps, GitSpares
<1>4. Spec => [][Spares]_vars
  <2> HIDE DEF Inv, Spares
  <2> QED
    BY <1>1, <1>2, <1>3, PTL DEF Spec
<1> QED
  BY <1>4 DEF CommitSparesOthers

-----------------------------------------------------------------------------
(* Providers: v1 row, v2 form, v3 start, v4 recent, v5 admin, v6 tested,   *)
(* v7 mixed, v8 steady, v9 seen, v10 roles, v11 changes.                   *)

ProviderAssumptions == None \notin Provs

LEMMA ProviderSteps ==
  ASSUME part \in {"forms", "starts"}, [Next]_vars
  PROVE  PV!Next \/ UNCHANGED PV!providerVars
  BY DEF Next, vars, PV!Next, PV!providerVars

LEMMA ProviderStarts == Init /\ part \in {"forms", "starts"} => PV!Init
  BY DEF Init

LEMMA ProviderInit == ASSUME PV!Init PROVE PV!InductiveInv
<1>1. v1 \in [Provs -> PV!AnyRow]
  <2>1. PV!NoRow \in PV!AnyRow
    BY DEF PV!NoRow, PV!AnyRow
  <2>2. ASSUME NEW r \in [own : {"builtin", "me", "other"}, public : BOOLEAN,
                           tok : {1}, url : {1}, has : BOOLEAN]
        PROVE  r \in PV!AnyRow
    BY DEF PV!AnyRow
  <2>3. \A p \in Provs : v1[p] \in PV!AnyRow
    BY <2>1, <2>2 DEF PV!Init
  <2> QED
    BY <2>3 DEF PV!Init
<1>2. v2 \in [Forms -> PV!AnyForm]
  BY DEF PV!Init, PV!NoForm, PV!Blank, PV!NoRow, PV!AnyRow, PV!AnyForm
<1>3. v3 \in PV!AnyStart /\ v3.pc = "no"
  BY DEF PV!Init, PV!NoStart, PV!AnyStart
<1>4. PV!Shapes
  BY <1>1, <1>2, <1>3 DEF PV!Init, PV!Shapes, PV!Rows
<1>5. PV!SavesAreTested
  BY DEF PV!Init, PV!SavesAreTested, PV!NoForm
<1>6. PV!TestedTogether
  <2>1. \A p \in PV!Rows : v1[p].tok = 1 /\ v1[p].url = 1
    BY DEF PV!Init, PV!Rows
  <2> QED
    BY <2>1 DEF PV!Init, PV!TestedTogether
<1> QED
  BY <1>3, <1>4, <1>5, <1>6
     DEF PV!InductiveInv, PV!StartIsWatched, PV!ListsCover, PV!StartPicksUsable

(* What every step adds to the history of the start.                       *)
LEMMA WatchedCovers ==
  ASSUME PV!Watched, v5' \in BOOLEAN, v10 \subseteq BOOLEAN, v8 \subseteq Provs
  PROVE  /\ v5' \in v10' /\ v10' \subseteq BOOLEAN /\ v8' \subseteq Provs
         /\ PV!StartIsWatched'
         /\ \A p \in v8' : v1'[p].has /\ \A a \in v10' : PV!MayUse(v1'[p], a)
         /\ \A p \in Provs, a \in BOOLEAN : PV!MayUse(v1'[p], a) => <<p, a>> \in v9'
         /\ v3.pc # "no" => v10 \subseteq v10' /\ v8' \subseteq v8 /\ v9 \subseteq v9'
<1>1. v10' = (IF v3.pc = "no" THEN {} ELSE v10) \cup {v5'}
  BY DEF PV!Watched
<1>2. v8' = {p \in IF v3.pc = "no" THEN Provs ELSE v8 :
                 v1'[p].has /\ \A a \in v10' : PV!MayUse(v1'[p], a)}
  BY DEF PV!Watched
<1>3. v9' = (IF v3.pc = "no" THEN {} ELSE v9)
              \cup {q \in Provs \X BOOLEAN : PV!MayUse(v1'[q[1]], q[2])}
  BY DEF PV!Watched
<1>4. v5' \in v10' /\ v10' \subseteq BOOLEAN
  BY <1>1
<1>5. /\ v8' \subseteq Provs
      /\ \A p \in v8' : v1'[p].has /\ \A a \in v10' : PV!MayUse(v1'[p], a)
  BY <1>2
<1>6. \A p \in Provs, a \in BOOLEAN : PV!MayUse(v1'[p], a) => <<p, a>> \in v9'
  BY <1>3
<1>7. v3.pc # "no" => v10 \subseteq v10' /\ v8' \subseteq v8 /\ v9 \subseteq v9'
  BY <1>1, <1>2, <1>3
<1>8. PV!StartIsWatched'
  BY <1>4, <1>5, <1>6 DEF PV!StartIsWatched, PV!MayUse
<1> QED
  BY <1>4, <1>5, <1>6, <1>7, <1>8

(* A step beside the start leaves what the start listed as good as it was. *)
LEMMA StartIsBeside ==
  ASSUME PV!InductiveInv, PV!Watched, v5' \in BOOLEAN, v3' = v3,
         v3.pc # "no" => \A p \in v8 : v1'[p].has => v1'[p].own = v1[p].own
  PROVE  /\ v10' \subseteq BOOLEAN /\ v8' \subseteq Provs
         /\ PV!StartIsWatched' /\ PV!ListsCover' /\ PV!StartPicksUsable'
<1>1. /\ v10 \subseteq BOOLEAN /\ v8 \subseteq Provs
  BY DEF PV!InductiveInv, PV!Shapes
<1>2. /\ v10' \subseteq BOOLEAN /\ v8' \subseteq Provs /\ PV!StartIsWatched'
      /\ \A p \in v8' : v1'[p].has
      /\ v3.pc # "no" => v10 \subseteq v10' /\ v8' \subseteq v8 /\ v9 \subseteq v9'
  BY <1>1, WatchedCovers
<1>3. v3.pc # "no" => \A p \in v8' : p \in v8 /\ v1'[p].own = v1[p].own
  BY <1>2
<1>4. PV!ListsCover'
  BY <1>2, <1>3 DEF PV!InductiveInv, PV!ListsCover
<1>5. PV!StartPicksUsable'
  BY <1>2 DEF PV!InductiveInv, PV!StartPicksUsable
<1> QED
  BY <1>2, <1>4, <1>5

LEMMA BesideTheStart ==
  ASSUME PV!InductiveInv, PV!Watched, v5' \in BOOLEAN, v3' = v3, v4' \in Provs \cup {None},
         v3.pc # "no" => \A p \in v8 : v1'[p].has => v1'[p].own = v1[p].own,
         v1' \in [Provs -> PV!AnyRow], v2' \in [Forms -> PV!AnyForm],
         PV!SavesAreTested', PV!TestedTogether'
  PROVE  PV!InductiveInv'
<1>1. /\ v10' \subseteq BOOLEAN /\ v8' \subseteq Provs
      /\ PV!StartIsWatched' /\ PV!ListsCover' /\ PV!StartPicksUsable'
  BY StartIsBeside
<1>2. PV!Shapes'
  BY <1>1 DEF PV!InductiveInv, PV!Shapes
<1> QED
  BY <1>1, <1>2 DEF PV!InductiveInv

(* The steps that change a row: no form under way forgets what it saves.   *)
LEMMA RowsChange ==
  ASSUME PV!InductiveInv, NEW p \in Provs,
         PV!Create(p) \/ PV!Delete(p) \/ PV!ToggleVisibility(p)
  PROVE  PV!InductiveInv'
<1>0. /\ v1 \in [Provs -> PV!AnyRow] /\ v2 \in [Forms -> PV!AnyForm] /\ v5 \in BOOLEAN
      /\ v4 \in Provs \cup {None}
      /\ PV!StartIsWatched /\ PV!SavesAreTested /\ PV!TestedTogether
      /\ v3 \in PV!AnyStart /\ (v3.pc \in {"row", "role"} => v3.prov \in Provs)
  BY DEF PV!InductiveInv, PV!Shapes
<1>1. UNCHANGED <<v2, v3, v5>> /\ PV!Watched
  BY DEF PV!Create, PV!Delete, PV!ToggleVisibility
<1>2. v4' \in Provs \cup {None}
  BY <1>0 DEF PV!Create, PV!Delete, PV!ToggleVisibility
<1>6. v8 \subseteq Provs
  BY DEF PV!InductiveInv, PV!Shapes
<1>3. CASE PV!Create(p)
  <2>1. PICK r \in PV!AnyRow :
          /\ v1' = [v1 EXCEPT ![p] = r] /\ v6' = v6 \cup {<<r.tok, r.url>>}
          /\ v7' = v7 \ {p}
    <3>1. PICK own \in {"builtin", "me"}, public \in BOOLEAN, has \in BOOLEAN,
               tok \in Toks \ {0}, url \in Urls :
            /\ v1' = [v1 EXCEPT ![p] = [own |-> own, public |-> public, tok |-> tok,
                                        url |-> url, has |-> has]]
            /\ v6' = v6 \cup {<<tok, url>>} /\ v7' = v7 \ {p}
      BY <1>3 DEF PV!Create
    <3>2. [own |-> own, public |-> public, tok |-> tok, url |-> url, has |-> has]
            \in PV!AnyRow
      BY DEF PV!AnyRow
    <3> QED
      BY <3>1, <3>2
  <2>2. v1[p] = PV!NoRow /\ \A f \in Forms : v2[f].p # p
    BY <1>3 DEF PV!Create, PV!Rows, PV!Referred
  <2>3. v1' \in [Provs -> PV!AnyRow] /\ v1'[p] = r /\ \A q \in Provs \ {p} : v1'[q] = v1[q]
    BY <1>0, <2>1
  <2>4. PV!SavesAreTested'
    BY <1>0, <1>1, <2>1, <2>2, <2>3 DEF PV!SavesAreTested, PV!Rows
  <2>5. PV!TestedTogether'
    BY <1>0, <2>1, <2>3 DEF PV!TestedTogether, PV!Rows
  <2>6. v3.pc # "no" => p \notin v8
    BY <1>0, <2>2 DEF PV!StartIsWatched, PV!NoRow
  <2>7. v3.pc # "no" => \A q \in v8 : v1'[q].has => v1'[q].own = v1[q].own
    BY <1>0, <1>6, <2>3, <2>6
  <2> QED
    BY <1>0, <1>1, <1>2, <2>3, <2>4, <2>5, <2>7, BesideTheStart
<1>4. CASE PV!Delete(p)
  <2>1. v1' = [v1 EXCEPT ![p] = PV!NoRow] /\ UNCHANGED <<v6, v7>>
    BY <1>4 DEF PV!Delete
  <2>2. PV!NoRow \in PV!AnyRow /\ ~PV!NoRow.has
    BY DEF PV!NoRow, PV!AnyRow
  <2>3. v1' \in [Provs -> PV!AnyRow] /\ ~v1'[p].has /\ \A q \in Provs \ {p} : v1'[q] = v1[q]
    BY <1>0, <2>1, <2>2
  <2>4. v1'[p] = PV!NoRow
    BY <1>0, <2>1
  <2>5. PV!SavesAreTested' /\ PV!TestedTogether'
    BY <1>0, <1>1, <2>1, <2>3, <2>4 DEF PV!SavesAreTested, PV!TestedTogether, PV!Rows
  <2>6. v3.pc # "no" => \A q \in v8 : v1'[q].has => v1'[q].own = v1[q].own
    BY <1>6, <2>3
  <2> QED
    BY <1>0, <1>1, <1>2, <2>3, <2>5, <2>6, BesideTheStart
<1>5. CASE PV!ToggleVisibility(p)
  <2>1. v1' = [v1 EXCEPT ![p].public = ~@] /\ UNCHANGED <<v6, v7>> /\ v1[p].own = "builtin"
    BY <1>5 DEF PV!ToggleVisibility
  <2>2. PV!NoRow.own = "none"
    BY DEF PV!NoRow
  <2>0. PICK b \in BOOLEAN : b = ~v1[p].public
    OBVIOUS
  <2>3. /\ v1'[p] = [v1[p] EXCEPT !.public = b] /\ \A q \in Provs \ {p} : v1'[q] = v1[q]
        /\ DOMAIN v1' = Provs
    BY <1>0, <2>0, <2>1
  <2>4. /\ v1'[p] \in PV!AnyRow /\ v1'[p].own = "builtin" /\ v1'[p].tok = v1[p].tok
        /\ v1'[p].url = v1[p].url
    BY <1>0, <2>1, <2>3 DEF PV!AnyRow
  <2>5. v1' \in [Provs -> PV!AnyRow]
    BY <1>0, <2>1, <2>3, <2>4
  <2>6. PV!Rows' = PV!Rows
    BY <2>1, <2>2, <2>3, <2>4 DEF PV!Rows
  <2>7. \A q \in Provs : v1'[q].tok = v1[q].tok /\ v1'[q].url = v1[q].url /\ v1'[q].own = v1[q].own
    BY <2>1, <2>3, <2>4
  <2>8. \A q \in PV!Rows : q \in Provs
    BY DEF PV!Rows
  <2>9. PV!SavesAreTested' /\ PV!TestedTogether'
    BY <1>0, <1>1, <2>1, <2>6, <2>7, <2>8 DEF PV!SavesAreTested, PV!TestedTogether
  <2> QED
    BY <1>0, <1>1, <1>2, <1>6, <2>5, <2>7, <2>9, BesideTheStart
<1> QED
  BY <1>3, <1>4, <1>5

(* The steps of a form.                                                    *)
LEMMA FormEdits ==
  ASSUME PV!InductiveInv, NEW f \in Forms, NEW g \in PV!AnyForm, PV!Edits(f, g),
         v6 \subseteq v6',
         g.st \in {"saving", "passed"} /\ ~g.stale /\ g.p \in PV!Rows =>
           v1[g.p].tok = g.old.tok,
         g.st = "passed" =>
           <<IF g.draft.tok # 0 THEN g.draft.tok ELSE g.old.tok, g.draft.url>> \in v6'
  PROVE  PV!InductiveInv'
<1>1. /\ v1 \in [Provs -> PV!AnyRow] /\ v2 \in [Forms -> PV!AnyForm] /\ v5 \in BOOLEAN
      /\ v4 \in Provs \cup {None}
      /\ PV!SavesAreTested /\ PV!TestedTogether
  BY DEF PV!InductiveInv, PV!Shapes
<1>2. /\ v2' = [v2 EXCEPT ![f] = g] /\ UNCHANGED <<v1, v3, v4, v5, v7>> /\ PV!Watched
  BY DEF PV!Edits
<1>3. v2' \in [Forms -> PV!AnyForm] /\ v2'[f] = g /\ \A h \in Forms \ {f} : v2'[h] = v2[h]
  BY <1>1, <1>2
<1>4. PV!Rows' = PV!Rows
  BY <1>2 DEF PV!Rows
<1>5. PV!SavesAreTested'
  BY <1>1, <1>2, <1>3, <1>4 DEF PV!SavesAreTested
<1>6. PV!TestedTogether'
  BY <1>1, <1>2, <1>4 DEF PV!TestedTogether
<1> QED
  BY <1>1, <1>2, <1>3, <1>5, <1>6, BesideTheStart

LEMMA FormSteps ==
  ASSUME ProviderAssumptions, PV!InductiveInv, NEW f \in Forms,
         \/ PV!OpenForm(f) \/ PV!CancelEdit(f) \/ PV!PatchForm(f) \/ PV!TestForm(f)
         \/ PV!TestAnswers(f) \/ PV!Save(f) \/ PV!PatchTests(f)
  PROVE  PV!InductiveInv'
<1>0. /\ v1 \in [Provs -> PV!AnyRow] /\ v2[f] \in PV!AnyForm
      /\ PV!SavesAreTested /\ PV!TestedTogether
      /\ \A p \in PV!Rows : p \in Provs
  BY DEF PV!InductiveInv, PV!Shapes, PV!Rows
<1>00. /\ PV!NoForm \in PV!AnyForm /\ PV!NoForm.st = "closed"
  BY DEF PV!NoForm, PV!AnyForm, PV!NoRow, PV!Blank, PV!AnyRow
<1>1. CASE PV!OpenForm(f)
  <2>1. PICK p \in PV!Rows :
          PV!Edits(f, [PV!NoForm EXCEPT !.st = "open", !.p = p, !.base = v1[p].url,
             !.draft = [tok |-> 0, url |-> v1[p].url, has |-> v1[p].has, public |-> v1[p].public]])
    BY <1>1 DEF PV!OpenForm
  <2> DEFINE d == [tok |-> 0, url |-> v1[p].url, has |-> v1[p].has, public |-> v1[p].public]
             g == [PV!NoForm EXCEPT !.st = "open", !.p = p, !.base = v1[p].url, !.draft = d]
  <2>2. d \in [tok : Toks \cup {0}, url : Urls \cup {0, 1}, has : BOOLEAN, public : BOOLEAN]
        /\ v1[p].url \in Urls \cup {0, 1} /\ p \in Provs
    BY <1>0 DEF PV!AnyRow
  <2> HIDE DEF d
  <2>3. g \in PV!AnyForm /\ g.st = "open"
    BY <1>00, <2>2 DEF PV!AnyForm
  <2>4. PV!Edits(f, g) /\ v6' = v6
    BY <1>1, <2>1 DEF PV!OpenForm, d
  <2> HIDE DEF g
  <2> QED
    BY <2>3, <2>4, FormEdits
<1>2. CASE PV!CancelEdit(f)
  BY <1>00, <1>2, FormEdits DEF PV!CancelEdit
<1>3. CASE PV!PatchForm(f)
  <2>1. PICK tok \in Toks, url \in Urls, has \in BOOLEAN, public \in BOOLEAN :
          LET d == [tok |-> tok, url |-> url, has |-> has, public |-> public]
              same == tok = v2[f].draft.tok /\ url = v2[f].draft.url
          IN  PV!Edits(f, [v2[f] EXCEPT !.draft = d, !.tested = @ /\ same])
    BY <1>3 DEF PV!PatchForm
  <2> DEFINE d == [tok |-> tok, url |-> url, has |-> has, public |-> public]
             same == tok = v2[f].draft.tok /\ url = v2[f].draft.url
  <2>0. PICK b \in BOOLEAN : b = (v2[f].tested /\ same)
    OBVIOUS
  <2> DEFINE g == [v2[f] EXCEPT !.draft = d, !.tested = b]
  <2>2. d \in [tok : Toks \cup {0}, url : Urls \cup {0, 1}, has : BOOLEAN, public : BOOLEAN]
    OBVIOUS
  <2>3. PV!Edits(f, g)
    BY <2>0, <2>1
  <2> HIDE DEF d, same
  <2>4. g \in PV!AnyForm /\ g.st = "open" /\ v6' = v6
    BY <1>0, <1>3, <2>2 DEF PV!AnyForm, PV!PatchForm
  <2> HIDE DEF g
  <2> QED
    BY <2>3, <2>4, FormEdits
<1>4. CASE PV!TestForm(f)
  <2> DEFINE asks == IF v2[f].draft.tok # 0 THEN <<v2[f].draft.tok, v2[f].draft.url>>
                     ELSE <<v1[v2[f].p].tok, v1[v2[f].p].url>>
             g == [v2[f] EXCEPT !.asks = asks]
  <2>1. v2[f].st = "open" /\ (v2[f].draft.tok # 0 \/ v2[f].p \in Provs)
    BY <1>0, <1>4 DEF PV!TestForm
  <2>2. asks \in (Toks \cup {0, 1}) \X (Urls \cup {0, 1})
    BY <1>0, <2>1 DEF PV!AnyForm, PV!AnyRow
  <2>3. PV!Edits(f, g) /\ v6' = v6
    BY <1>4 DEF PV!TestForm
  <2> HIDE DEF asks
  <2>4. g \in PV!AnyForm /\ g.st = "open"
    BY <1>0, <2>1, <2>2 DEF PV!AnyForm
  <2> HIDE DEF g
  <2> QED
    BY <2>3, <2>4, FormEdits
<1>5. CASE PV!TestAnswers(f)
  <2>1. PICK ok \in BOOLEAN : PV!Edits(f, [v2[f] EXCEPT !.asks = <<0, 0>>, !.tested = ok])
    BY <1>5 DEF PV!TestAnswers
  <2> DEFINE g == [v2[f] EXCEPT !.asks = <<0, 0>>, !.tested = ok]
  <2>2. g \in PV!AnyForm /\ g.st = "open" /\ v6 \subseteq v6'
    BY <1>0, <1>5 DEF PV!TestAnswers, PV!AnyForm
  <2>3. PV!Edits(f, g)
    BY <2>1
  <2> HIDE DEF g
  <2> QED
    BY <2>2, <2>3, FormEdits
<1>6. CASE PV!Save(f)
  <2> DEFINE g == [v2[f] EXCEPT !.st = "saving", !.old = v1[v2[f].p], !.asks = <<0, 0>>]
  <2>1. v6' = v6 /\ (PV!Edits(f, PV!NoForm) \/ (v2[f].p \in PV!Rows /\ PV!Edits(f, g)))
    BY <1>6 DEF PV!Save
  <2>2. CASE PV!Edits(f, PV!NoForm)
    BY <1>00, <2>1, <2>2, FormEdits
  <2>3. CASE v2[f].p \in PV!Rows /\ PV!Edits(f, g)
    <3>1. /\ g \in PV!AnyForm /\ g.st = "saving" /\ g.p = v2[f].p /\ g.old = v1[v2[f].p]
      BY <1>0, <2>3 DEF PV!AnyForm
    <3> HIDE DEF g
    <3> QED
      BY <2>1, <2>3, <3>1, FormEdits
  <2> QED
    BY <2>1, <2>2, <2>3
<1>7. CASE PV!PatchTests(f)
  <2> DEFINE g == [v2[f] EXCEPT !.st = "passed"]
             pair == <<IF v2[f].draft.tok # 0 THEN v2[f].draft.tok ELSE v2[f].old.tok,
                       v2[f].draft.url>>
  <2>1. /\ v2[f].st = "saving"
        /\ \/ PV!Edits(f, g) /\ v6' = v6 \cup {pair}
           \/ PV!Edits(f, PV!NoForm) /\ v6' = v6
    BY <1>7 DEF PV!PatchTests, PV!NeedsTest
  <2>2. CASE PV!Edits(f, PV!NoForm) /\ v6' = v6
    BY <1>00, <2>2, FormEdits
  <2>3. CASE PV!Edits(f, g) /\ v6' = v6 \cup {pair}
    <3>1. /\ g \in PV!AnyForm /\ g.st = "passed" /\ g.p = v2[f].p /\ g.old = v2[f].old
          /\ g.draft = v2[f].draft /\ g.stale = v2[f].stale
      BY <1>0 DEF PV!AnyForm
    <3> HIDE DEF g
    <3> QED
      BY <1>0, <2>1, <2>3, <3>1, FormEdits DEF PV!SavesAreTested
  <2> QED
    BY <2>1, <2>2, <2>3
<1> QED
  BY <1>1, <1>2, <1>3, <1>4, <1>5, <1>6, <1>7

(* The write of a save: of two that overlap the row counts as mixed.       *)
LEMMA PatchIsWritten ==
  ASSUME ProviderAssumptions, PV!InductiveInv, NEW f \in Forms, PV!PatchWrites(f)
  PROVE  PV!InductiveInv'
<1> DEFINE p == v2[f].p
           d == v2[f].draft
           tok == IF d.tok # 0 THEN d.tok ELSE v1[p].tok
           new == [v1[p] EXCEPT !.tok = tok, !.url = d.url, !.has = d.has, !.public = d.public]
<1>0. /\ v1 \in [Provs -> PV!AnyRow] /\ v2 \in [Forms -> PV!AnyForm] /\ v5 \in BOOLEAN
      /\ v4 \in Provs \cup {None} /\ v8 \subseteq Provs
      /\ PV!SavesAreTested /\ PV!TestedTogether
      /\ PV!Rows \subseteq Provs
  BY DEF PV!InductiveInv, PV!Shapes, PV!Rows
<1>1. /\ v2[f].st = "passed" /\ UNCHANGED <<v3, v4, v5, v6>> /\ PV!Watched
      /\ v2' = [h \in Forms |->
           IF h = f THEN PV!NoForm
           ELSE [v2[h] EXCEPT !.stale = @ \/ (v2[h].p = p /\ v2[h].st \in {"saving", "passed"})]]
      /\ IF p \notin PV!Rows THEN v1' = v1 /\ v7' = v7
         ELSE /\ v1' = [v1 EXCEPT ![p] = new]
              /\ v7' = IF v2[f].stale THEN v7 \cup {p} ELSE v7 \ {p}
  BY DEF PV!PatchWrites
<1>2. /\ PV!NoForm \in PV!AnyForm /\ PV!NoForm.st = "closed"
  BY DEF PV!NoForm, PV!AnyForm, PV!NoRow, PV!Blank, PV!AnyRow
<1>3. ASSUME NEW h \in Forms \ {f}
      PROVE  /\ v2'[h] \in PV!AnyForm
             /\ v2'[h].st = v2[h].st /\ v2'[h].p = v2[h].p /\ v2'[h].old = v2[h].old
             /\ v2'[h].draft = v2[h].draft
             /\ ~v2'[h].stale => ~v2[h].stale /\ ~(v2[h].p = p /\ v2[h].st \in {"saving", "passed"})
  <2>1. PICK b \in BOOLEAN :
          b = (v2[h].stale \/ (v2[h].p = p /\ v2[h].st \in {"saving", "passed"}))
    OBVIOUS
  <2>2. v2'[h] = [v2[h] EXCEPT !.stale = b] /\ v2[h] \in PV!AnyForm
    BY <1>0, <1>1, <2>1
  <2>3. /\ v2'[h] \in PV!AnyForm
        /\ v2'[h].st = v2[h].st /\ v2'[h].p = v2[h].p /\ v2'[h].old = v2[h].old
        /\ v2'[h].draft = v2[h].draft /\ v2'[h].stale = b
    BY <2>2 DEF PV!AnyForm
  <2> QED
    BY <2>1, <2>3
<1>4. v2' \in [Forms -> PV!AnyForm] /\ v2'[f].st = "closed"
  BY <1>1, <1>2, <1>3
<1>7. ASSUME NEW h \in Forms, v2'[h].st = "passed"
      PROVE  <<IF v2'[h].draft.tok # 0 THEN v2'[h].draft.tok ELSE v2'[h].old.tok,
               v2'[h].draft.url>> \in v6'
  BY <1>0, <1>1, <1>3, <1>4, <1>7 DEF PV!SavesAreTested
<1>5. CASE p \notin PV!Rows
  <2>1. UNCHANGED <<v1, v7>>
    BY <1>1, <1>5
  <2>2. PV!TestedTogether'
    BY <1>0, <1>1, <2>1 DEF PV!TestedTogether, PV!Rows
  <2>3. PV!SavesAreTested'
    <3>1. ASSUME NEW h \in Forms \ {f}, v2'[h].st \in {"saving", "passed"}, ~v2'[h].stale,
                 v2'[h].p \in PV!Rows'
          PROVE  v1'[v2'[h].p].tok = v2'[h].old.tok
      BY <1>0, <1>3, <2>1, <3>1 DEF PV!SavesAreTested, PV!Rows
    <3> QED
      BY <1>4, <1>7, <3>1 DEF PV!SavesAreTested
  <2> QED
    BY <1>0, <1>1, <1>4, <2>1, <2>2, <2>3, BesideTheStart
<1>6. CASE p \in PV!Rows
  <2>1. p \in Provs /\ v1' = [v1 EXCEPT ![p] = new]
    BY <1>0, <1>1, <1>6
  <2>2. tok \in Toks \cup {0, 1} /\ d \in [tok : Toks \cup {0}, url : Urls \cup {0, 1},
          has : BOOLEAN, public : BOOLEAN] /\ v1[p] \in PV!AnyRow
    BY <1>0, <2>1 DEF PV!AnyForm, PV!AnyRow
  <2> HIDE DEF tok, d
  <2>3. new \in PV!AnyRow /\ new.tok = tok /\ new.url = d.url /\ new.own = v1[p].own
    BY <2>2 DEF PV!AnyRow
  <2> HIDE DEF new
  <2>4. /\ v1' \in [Provs -> PV!AnyRow] /\ v1'[p] = new
        /\ \A q \in Provs \ {p} : v1'[q] = v1[q]
    BY <1>0, <2>1, <2>3
  <2>5. \A q \in Provs \ {p} : q \in PV!Rows' <=> q \in PV!Rows
    BY <2>4 DEF PV!Rows
  <2>6. PV!SavesAreTested'
    <3>1. ASSUME NEW h \in Forms \ {f}, v2'[h].st \in {"saving", "passed"}, ~v2'[h].stale,
                 v2'[h].p \in PV!Rows'
          PROVE  v1'[v2'[h].p].tok = v2'[h].old.tok
      <4>1. v2[h].p # p /\ v2[h].p \in Provs
        BY <1>3, <3>1 DEF PV!Rows
      <4> QED
        BY <1>0, <1>3, <2>4, <2>5, <3>1, <4>1 DEF PV!SavesAreTested
    <3> QED
      BY <1>4, <1>7, <3>1 DEF PV!SavesAreTested
  <2>7. PV!TestedTogether'
    <3>1. ~v2[f].stale => <<tok, d.url>> \in v6
      BY <1>0, <1>1, <1>6 DEF PV!SavesAreTested, tok, d
    <3>2. ASSUME NEW q \in PV!Rows', q \notin v7', q # p
          PROVE  <<v1'[q].tok, v1'[q].url>> \in v6'
      <4>1. q \in PV!Rows /\ q \notin v7 /\ v1'[q] = v1[q]
        BY <1>1, <1>6, <2>4, <2>5, <3>2 DEF PV!Rows
      <4> QED
        BY <1>0, <1>1, <4>1 DEF PV!TestedTogether
    <3>3. p \notin v7' => <<v1'[p].tok, v1'[p].url>> \in v6'
      BY <1>1, <1>6, <2>3, <2>4, <3>1
    <3> QED
      BY <3>2, <3>3 DEF PV!TestedTogether
  <2>8. \A q \in v8 : v1'[q].own = v1[q].own
    BY <1>0, <2>3, <2>4
  <2> QED
    BY <1>0, <1>1, <1>4, <2>4, <2>6, <2>7, <2>8, BesideTheStart
<1> QED
  BY <1>5, <1>6

-----------------------------------------------------------------------------
(* The steps of the start: what it lists and settles on is checked against *)
(* what it has watched.                                                    *)
LEMMA StartGoesOn ==
  ASSUME PV!InductiveInv, NEW s \in PV!AnyStart, PV!Starts(s),
         s.pc \in {"row", "role"} => s.prov \in Provs,
         v4' \in Provs \cup {None},
         PV!StartIsWatched' => PV!ListsCover' /\ PV!StartPicksUsable'
  PROVE  PV!InductiveInv'
<1>1. /\ v3' = s /\ UNCHANGED <<v1, v2, v5, v6, v7>> /\ PV!Watched
  BY DEF PV!Starts
<1>2. /\ v5' \in BOOLEAN /\ v10 \subseteq BOOLEAN /\ v8 \subseteq Provs
      /\ v1 \in [Provs -> PV!AnyRow] /\ v2 \in [Forms -> PV!AnyForm]
      /\ PV!SavesAreTested /\ PV!TestedTogether
  BY <1>1 DEF PV!InductiveInv, PV!Shapes
<1>3. v10' \subseteq BOOLEAN /\ v8' \subseteq Provs /\ PV!StartIsWatched'
  BY <1>1, <1>2, WatchedCovers
<1>4. PV!Shapes'
  BY <1>1, <1>2, <1>3 DEF PV!Shapes
<1>5. PV!SavesAreTested' /\ PV!TestedTogether'
  BY <1>1, <1>2 DEF PV!SavesAreTested, PV!TestedTogether, PV!Rows
<1> QED
  BY <1>3, <1>4, <1>5 DEF PV!InductiveInv

(* What a step of the start that is under way may rely on.                 *)
LEMMA UnderWay ==
  ASSUME PV!InductiveInv, NEW s \in PV!AnyStart, PV!Starts(s), v3.pc # "no"
  PROVE  /\ v3' = s /\ UNCHANGED <<v1, v5>> /\ v3 \in PV!AnyStart /\ PV!ListsCover
         /\ v5 \in BOOLEAN /\ v5 \in v10' /\ v10' \subseteq BOOLEAN
         /\ \A p \in v8' : v1[p].has /\ \A a \in v10' : PV!MayUse(v1[p], a)
         /\ \A p \in Provs, a \in BOOLEAN : PV!MayUse(v1[p], a) => <<p, a>> \in v9'
         /\ v10 \subseteq v10' /\ v8' \subseteq v8 /\ v9 \subseteq v9' /\ v8' \subseteq Provs
<1>1. v3' = s /\ UNCHANGED <<v1, v5>> /\ PV!Watched
  BY DEF PV!Starts
<1>2. v5' \in BOOLEAN /\ v10 \subseteq BOOLEAN /\ v8 \subseteq Provs /\ v3 \in PV!AnyStart
      /\ PV!ListsCover
  BY <1>1 DEF PV!InductiveInv, PV!Shapes
<1>3. /\ v5' \in v10' /\ v10' \subseteq BOOLEAN /\ v8' \subseteq Provs
      /\ \A p \in v8' : v1'[p].has /\ \A a \in v10' : PV!MayUse(v1'[p], a)
      /\ \A p \in Provs, a \in BOOLEAN : PV!MayUse(v1'[p], a) => <<p, a>> \in v9'
      /\ v10 \subseteq v10' /\ v8' \subseteq v8 /\ v9 \subseteq v9'
  BY <1>1, <1>2, WatchedCovers
<1> QED
  BY <1>1, <1>2, <1>3

LEMMA StartSteps ==
  ASSUME ProviderAssumptions, PV!InductiveInv,
         \/ PV!StartSession \/ PV!ResolveRow \/ PV!ResolveRole \/ PV!Recent \/ PV!Personal
         \/ PV!PersonalModels \/ PV!UserRole \/ PV!Builtin \/ PV!BuiltinModels \/ PV!Insert
  PROVE  PV!InductiveInv'
<1>0. /\ v3 \in PV!AnyStart /\ v4 \in Provs \cup {None} /\ v5 \in BOOLEAN
      /\ v1 \in [Provs -> PV!AnyRow]
      /\ v3.pc \in {"row", "role"} => v3.prov \in Provs
  BY DEF PV!InductiveInv, PV!Shapes
<1>1. PV!NoStart \in PV!AnyStart /\ PV!NoStart.pc = "no"
  BY DEF PV!NoStart, PV!AnyStart
<1>2. ASSUME NEW p \in Provs \cup {None}, NEW m \in BOOLEAN
      PROVE  /\ PV!Settles(p, m) \in PV!AnyStart
             /\ PV!Settles(p, m).pc = "insert" /\ PV!Settles(p, m).prov = p
  BY <1>0 DEF PV!Settles, PV!AnyStart
<1>3. PV!Refused \in PV!AnyStart /\ PV!Refused.pc \in {"recent", "personal"}
  <2>1. PICK pc \in {"recent", "personal"} :
          pc = IF v3.for = "supplied" THEN "recent" ELSE "personal"
    OBVIOUS
  <2>2. PV!Refused = [v3 EXCEPT !.pc = pc, !.prov = None]
    BY <2>1 DEF PV!Refused
  <2> QED
    BY <1>0, <2>2 DEF PV!AnyStart
(* A step to where nothing is listed yet.                                  *)
<1>4. ASSUME NEW s \in PV!AnyStart, PV!Starts(s), s.pc \in {"no", "recent", "row", "personal"},
             s.pc = "row" => s.prov \in Provs, v4' \in Provs \cup {None}
      PROVE  PV!InductiveInv'
  <2>1. v3' = s
    BY <1>4 DEF PV!Starts
  <2>2. PV!ListsCover' /\ PV!StartPicksUsable'
    BY <1>4, <2>1 DEF PV!ListsCover, PV!StartPicksUsable
  <2> QED
    BY <1>4, <2>2, StartGoesOn
(* A step that settles on a row that is open to a role the user had.       *)
<1>5. ASSUME NEW p \in Provs, NEW m \in BOOLEAN, PV!Starts(PV!Settles(p, m)),
             NEW a \in v10', <<p, a>> \in v9', v4' \in Provs \cup {None}
      PROVE  PV!InductiveInv'
  <2>1. v3' = PV!Settles(p, m)
    BY <1>5 DEF PV!Starts
  <2>2. PV!ListsCover' /\ PV!StartPicksUsable'
    BY <1>2, <1>5, <2>1 DEF PV!ListsCover, PV!StartPicksUsable, ProviderAssumptions
  <2> QED
    BY <1>2, <1>5, <2>2, StartGoesOn
<1>6. CASE PV!StartSession
  <2>1. v4' = v4
    BY <1>6 DEF PV!StartSession
  <2>2. CASE PV!Starts([PV!NoStart EXCEPT !.pc = "recent"])
    <3>1. /\ [PV!NoStart EXCEPT !.pc = "recent"] \in PV!AnyStart
          /\ [PV!NoStart EXCEPT !.pc = "recent"].pc = "recent"
      BY <1>1 DEF PV!AnyStart
    <3> QED
      BY <1>0, <1>4, <2>1, <2>2, <3>1
  <2>3. ASSUME NEW p \in Provs, NEW m \in BOOLEAN,
               PV!Starts([PV!NoStart EXCEPT !.pc = "row", !.for = "supplied", !.prov = p,
                                            !.model = m])
        PROVE  PV!InductiveInv'
    <3> DEFINE s == [PV!NoStart EXCEPT !.pc = "row", !.for = "supplied", !.prov = p, !.model = m]
    <3>1. s \in PV!AnyStart /\ s.pc = "row" /\ s.prov = p
      BY <1>1 DEF PV!AnyStart
    <3>2. PV!Starts(s)
      BY <2>3
    <3> HIDE DEF s
    <3> QED
      BY <1>0, <1>4, <2>1, <3>1, <3>2
  <2> QED
    BY <1>6, <2>2, <2>3 DEF PV!StartSession
<1>7. CASE PV!ResolveRow
  <2>1. v3.pc = "row" /\ v3.prov \in Provs /\ v4' = v4 /\ v3.model \in BOOLEAN
    BY <1>0, <1>7 DEF PV!ResolveRow, PV!AnyStart
  <2>2. CASE PV!MayUse(v1[v3.prov], FALSE) /\ PV!Starts(PV!Settles(v3.prov, v3.model))
    <3>1. PV!MayUse(v1[v3.prov], v5)
      BY <2>2 DEF PV!MayUse
    <3>2. v5 \in v10' /\ <<v3.prov, v5>> \in v9'
      BY <1>0, <1>2, <2>1, <2>2, <3>1, UnderWay
    <3> QED
      BY <1>0, <1>5, <2>1, <2>2, <3>2
  <2>3. CASE v1[v3.prov].own = "builtin" /\ PV!Starts([v3 EXCEPT !.pc = "role"])
    <3> DEFINE s == [v3 EXCEPT !.pc = "role"]
    <3>1. s \in PV!AnyStart /\ s.pc = "role" /\ s.prov = v3.prov /\ PV!Starts(s)
      BY <1>0, <2>3 DEF PV!AnyStart
    <3> HIDE DEF s
    <3>2. PV!MayUse(v1[v3.prov], TRUE)
      BY <2>3 DEF PV!MayUse
    <3>3. v3' = s /\ <<v3.prov, TRUE>> \in v9'
      BY <2>1, <3>1, <3>2, UnderWay
    <3>4. PV!ListsCover' /\ PV!StartPicksUsable'
      BY <3>1, <3>3 DEF PV!ListsCover, PV!StartPicksUsable
    <3> QED
      BY <1>0, <2>1, <3>1, <3>4, StartGoesOn
  <2>4. CASE PV!Starts(PV!Refused)
    BY <1>0, <1>3, <1>4, <2>1, <2>4
  <2> QED
    BY <1>7, <2>2, <2>3, <2>4 DEF PV!ResolveRow
<1>8. CASE PV!ResolveRole
  <2>1. v3.pc = "role" /\ v3.prov \in Provs /\ v4' = v4 /\ v3.model \in BOOLEAN
    BY <1>0, <1>8 DEF PV!ResolveRole, PV!AnyStart
  <2>2. CASE v5 /\ PV!Starts(PV!Settles(v3.prov, v3.model))
    <3>1. TRUE \in v10' /\ <<v3.prov, TRUE>> \in v9'
      <4>1. v5 \in v10' /\ v9 \subseteq v9' /\ PV!ListsCover
        BY <1>0, <1>2, <2>1, <2>2, UnderWay
      <4>2. v5 = TRUE
        BY <1>0, <2>2
      <4> QED
        BY <2>1, <4>1, <4>2 DEF PV!ListsCover
    <3> QED
      BY <1>0, <1>5, <2>1, <2>2, <3>1
  <2>3. CASE PV!Starts(PV!Refused)
    BY <1>0, <1>3, <1>4, <2>1, <2>3
  <2> QED
    BY <1>8, <2>2, <2>3 DEF PV!ResolveRole
<1>9. CASE PV!Recent
  <2>1. v3.pc = "recent" /\ v4' = v4
    BY <1>9 DEF PV!Recent
  <2>2. CASE PV!Starts([v3 EXCEPT !.pc = "personal"])
    <3>1. /\ [v3 EXCEPT !.pc = "personal"] \in PV!AnyStart
          /\ [v3 EXCEPT !.pc = "personal"].pc = "personal"
      BY <1>0 DEF PV!AnyStart
    <3> QED
      BY <1>0, <1>4, <2>1, <2>2, <3>1
  <2>3. CASE /\ v4 # None
             /\ PV!Starts([v3 EXCEPT !.pc = "row", !.for = "recent", !.prov = v4, !.model = TRUE])
    <3> DEFINE s == [v3 EXCEPT !.pc = "row", !.for = "recent", !.prov = v4, !.model = TRUE]
    <3>1. s \in PV!AnyStart /\ s.pc = "row" /\ s.prov = v4
      BY <1>0 DEF PV!AnyStart
    <3>2. PV!Starts(s) /\ v4 \in Provs
      BY <1>0, <2>3
    <3> HIDE DEF s
    <3> QED
      BY <1>0, <1>4, <2>1, <3>1, <3>2
  <2> QED
    BY <1>9, <2>2, <2>3 DEF PV!Recent
<1>10. CASE PV!Personal
  <2> DEFINE ps == {p \in Provs : v1[p].own = "me"}
             s == [v3 EXCEPT !.list = ps, !.pc = "personalModels"]
  <2>1. v3.pc = "personal" /\ v4' = v4 /\ PV!Starts(s)
    BY <1>10 DEF PV!Personal, PV!Lists
  <2>2. s \in PV!AnyStart /\ s.pc = "personalModels" /\ s.list = ps
    BY <1>0 DEF PV!AnyStart
  <2> HIDE DEF s
  <2>3. /\ v3' = s /\ v1' = v1 /\ v8' \subseteq Provs
        /\ \A p \in Provs, a \in BOOLEAN : PV!MayUse(v1[p], a) => <<p, a>> \in v9'
    BY <2>1, <2>2, UnderWay
  <2>4. PV!ListsCover' /\ PV!StartPicksUsable'
    BY <2>2, <2>3 DEF PV!ListsCover, PV!StartPicksUsable, PV!MayUse
  <2> QED
    BY <1>0, <2>1, <2>2, <2>4, StartGoesOn
<1>11. CASE PV!PersonalModels
  <2>1. v3.pc = "personalModels" /\ v4' = v4 /\ v3.list \subseteq Provs
    BY <1>0, <1>11 DEF PV!PersonalModels, PV!AnyStart
  <2>2. ASSUME NEW p \in PV!WithModel, PV!Starts(PV!Settles(p, TRUE))
        PROVE  PV!InductiveInv'
    <3>1. p \in v3.list /\ p \in Provs
      BY <2>1, <2>2 DEF PV!WithModel
    <3>2. v5 \in v10' /\ <<p, v5>> \in v9'
      <4>1. v5 \in v10' /\ v5 \in BOOLEAN /\ v9 \subseteq v9' /\ PV!ListsCover
        BY <1>2, <2>1, <2>2, <3>1, UnderWay
      <4> QED
        BY <2>1, <3>1, <4>1 DEF PV!ListsCover
    <3> QED
      BY <1>0, <1>5, <2>1, <2>2, <3>1, <3>2
  <2>3. CASE PV!WithModel = {} /\ PV!Starts([v3 EXCEPT !.pc = "userRole"])
    <3> DEFINE s == [v3 EXCEPT !.pc = "userRole"]
    <3>1. s \in PV!AnyStart /\ s.pc = "userRole" /\ PV!Starts(s)
      BY <1>0, <2>3 DEF PV!AnyStart
    <3> HIDE DEF s
    <3>2. /\ v3' = s /\ v1' = v1 /\ v5 \in v10' /\ v8' \subseteq v8 /\ PV!ListsCover
          /\ \A p \in v8' : v1[p].has /\ PV!MayUse(v1[p], v5)
      BY <2>1, <3>1, UnderWay
    <3>3. ASSUME NEW p \in v8'
          PROVE  v1[p].own = "builtin"
      <4>1. v1[p].own = "me" => p \in v3.list
        BY <2>1, <3>2 DEF PV!ListsCover
      <4> QED
        BY <2>3, <3>2, <4>1 DEF PV!WithModel, PV!MayUse
    <3>4. PV!ListsCover' /\ PV!StartPicksUsable'
      BY <3>1, <3>2, <3>3 DEF PV!ListsCover, PV!StartPicksUsable
    <3> QED
      BY <1>0, <2>1, <3>1, <3>4, StartGoesOn
  <2> QED
    BY <1>11, <2>2, <2>3 DEF PV!PersonalModels
<1>12. CASE PV!UserRole
  <2> DEFINE s == [v3 EXCEPT !.pc = "builtin", !.role = v5]
  <2>1. v3.pc = "userRole" /\ v4' = v4 /\ PV!Starts(s)
    BY <1>12 DEF PV!UserRole
  <2>2. s \in PV!AnyStart /\ s.pc = "builtin" /\ s.role = v5
    BY <1>0 DEF PV!AnyStart
  <2> HIDE DEF s
  <2>3. v3' = s /\ v1' = v1 /\ v5 \in v10' /\ v8' \subseteq v8 /\ PV!ListsCover
    BY <2>1, <2>2, UnderWay
  <2>4. PV!ListsCover' /\ PV!StartPicksUsable'
    BY <2>1, <2>2, <2>3 DEF PV!ListsCover, PV!StartPicksUsable
  <2> QED
    BY <1>0, <2>1, <2>2, <2>4, StartGoesOn
<1>13. CASE PV!Builtin
  <2> DEFINE s == [v3 EXCEPT !.list = PV!BuiltinRowsForUser(v3.role), !.pc = "builtinModels"]
  <2>1. v3.pc = "builtin" /\ v4' = v4 /\ PV!Starts(s) /\ v3.role \in BOOLEAN
    BY <1>0, <1>13 DEF PV!Builtin, PV!Lists, PV!AnyStart
  <2>2. PV!BuiltinRowsForUser(v3.role) \subseteq Provs
    BY DEF PV!BuiltinRowsForUser
  <2>3. /\ s \in PV!AnyStart /\ s.pc = "builtinModels" /\ s.role = v3.role
        /\ s.list = PV!BuiltinRowsForUser(v3.role)
    BY <1>0, <2>2 DEF PV!AnyStart
  <2> HIDE DEF s
  <2>4. /\ v3' = s /\ v1' = v1 /\ v8' \subseteq v8 /\ v8' \subseteq Provs /\ v10 \subseteq v10'
        /\ PV!ListsCover
        /\ \A p \in v8' : \A a \in v10' : PV!MayUse(v1[p], a)
        /\ \A p \in Provs, a \in BOOLEAN : PV!MayUse(v1[p], a) => <<p, a>> \in v9'
    BY <2>1, <2>3, UnderWay
  <2>5. v3.role \in v10' /\ \A p \in v8 : v1[p].own = "builtin"
    BY <2>1, <2>4 DEF PV!ListsCover
  <2>6. v8' \subseteq PV!BuiltinRowsForUser(v3.role)
    BY <2>4, <2>5 DEF PV!BuiltinRowsForUser, PV!MayUse
  <2>7. \A p \in PV!BuiltinRowsForUser(v3.role) : <<p, v3.role>> \in v9'
    BY <2>1, <2>4 DEF PV!BuiltinRowsForUser, PV!MayUse
  <2>8. PV!ListsCover' /\ PV!StartPicksUsable'
    BY <2>3, <2>4, <2>5, <2>6, <2>7 DEF PV!ListsCover, PV!StartPicksUsable
  <2> QED
    BY <1>0, <2>1, <2>3, <2>8, StartGoesOn
<1>14. CASE PV!BuiltinModels
  <2>1. v3.pc = "builtinModels" /\ v4' = v4 /\ v3.list \subseteq Provs
    BY <1>0, <1>14 DEF PV!BuiltinModels, PV!AnyStart
  <2>2. ASSUME NEW p \in PV!WithModel, PV!Starts(PV!Settles(p, TRUE))
        PROVE  PV!InductiveInv'
    <3>1. p \in v3.list /\ p \in Provs
      BY <2>1, <2>2 DEF PV!WithModel
    <3>2. v3.role \in v10' /\ <<p, v3.role>> \in v9'
      <4>1. v10 \subseteq v10' /\ v9 \subseteq v9' /\ PV!ListsCover
        BY <1>2, <2>1, <2>2, <3>1, UnderWay
      <4> QED
        BY <2>1, <3>1, <4>1 DEF PV!ListsCover
    <3> QED
      BY <1>0, <1>5, <2>1, <2>2, <3>1, <3>2
  <2>3. CASE PV!WithModel = {} /\ PV!Starts(PV!Settles(None, FALSE))
    <3>1. /\ v3' = PV!Settles(None, FALSE) /\ v8' \subseteq v8 /\ PV!ListsCover
          /\ \A p \in v8' : v1[p].has
      BY <1>2, <2>1, <2>3, UnderWay
    <3>2. v8' = {}
      BY <2>1, <2>3, <3>1 DEF PV!ListsCover, PV!WithModel
    <3>3. PV!ListsCover' /\ PV!StartPicksUsable'
      BY <1>2, <3>1, <3>2 DEF PV!ListsCover, PV!StartPicksUsable
    <3> QED
      BY <1>0, <1>2, <2>1, <2>3, <3>3, StartGoesOn
  <2> QED
    BY <1>14, <2>2, <2>3 DEF PV!BuiltinModels
<1>15. CASE PV!Insert
  <2>1. v3.pc = "insert" /\ PV!Starts(PV!NoStart)
    BY <1>15 DEF PV!Insert
  <2>2. v4' \in Provs \cup {None}
    BY <1>0, <1>15 DEF PV!Insert, PV!AnyStart
  <2> QED
    BY <1>1, <1>4, <2>1, <2>2
<1> QED
  BY <1>6, <1>7, <1>8, <1>9, <1>10, <1>11, <1>12, <1>13, <1>14, <1>15

LEMMA ProviderNext ==
  ASSUME ProviderAssumptions, PV!InductiveInv, PV!Next \/ UNCHANGED PV!providerVars
  PROVE  PV!InductiveInv'
<1>1. CASE UNCHANGED PV!providerVars
  BY <1>1 DEF PV!providerVars, PV!InductiveInv, PV!Shapes, PV!SavesAreTested,
              PV!TestedTogether, PV!StartIsWatched, PV!ListsCover, PV!StartPicksUsable,
              PV!Rows, PV!MayUse
<1>2. CASE PV!ChangeRole
  <2>1. UNCHANGED <<v1, v2, v3, v4, v6, v7>> /\ v5' = ~v5 /\ PV!Watched
    BY <1>2 DEF PV!ChangeRole
  <2>2. /\ v1' \in [Provs -> PV!AnyRow] /\ v2' \in [Forms -> PV!AnyForm] /\ v5' \in BOOLEAN
        /\ v4' \in Provs \cup {None}
    BY <2>1 DEF PV!InductiveInv, PV!Shapes
  <2>3. PV!SavesAreTested' /\ PV!TestedTogether'
    BY <2>1 DEF PV!InductiveInv, PV!SavesAreTested, PV!TestedTogether, PV!Rows
  <2> QED
    BY <2>1, <2>2, <2>3, BesideTheStart
<1> QED
  BY <1>1, <1>2, RowsChange, FormSteps, PatchIsWritten, StartSteps DEF PV!Next

(* resolve.ts: a session starts without a provider only when none was open *)
(* to its user throughout, and on one that was open at some moment,        *)
(* whatever rows and roles change between its queries.                     *)
THEOREM StartsAreUsable == ASSUME ProviderAssumptions PROVE Spec => []StartPicksUsable
<1> DEFINE Inv == part \in {"forms", "starts"} => PV!InductiveInv
<1>1. Init => Inv
  BY ProviderStarts, ProviderInit
<1>2. Inv /\ [Next]_vars => Inv'
  BY PartStays, ProviderSteps, ProviderNext
<1>3. Inv => StartPicksUsable
  BY DEF StartPicksUsable, PV!InductiveInv
<1> QED
  BY <1>1, <1>2, <1>3, PTL DEF Spec

-----------------------------------------------------------------------------
(* Git credentials: v1 page, v2 status, v3 list, v4 dialog, v5 picked,     *)
(* v6 rows, v7 made, v8 calls, v9 unsure, v10 opens, v11 losses.           *)

LEMMA CredentialSteps ==
  ASSUME part = "creds", [Next]_vars
  PROVE  CR!Next \/ UNCHANGED CR!credentialVars
  BY DEF Next, vars, CR!Next, CR!credentialVars, Requests, CR!Ids

LEMMA CredentialInit == ASSUME CR!Init PROVE CR!InductiveInv
<1>1. DOMAIN CR!NoRow = {"label", "token", "by"} /\ CR!NoRow.token = CR!NoRow.by
  BY DEF CR!NoRow
<1>2. /\ DOMAIN [label |-> 2, token |-> 1, by |-> 1] = {"label", "token", "by"}
      /\ [label |-> 2, token |-> 1, by |-> 1].token = 1
      /\ [label |-> 2, token |-> 1, by |-> 1].by = 1
  OBVIOUS
<1>3. DOMAIN v6 = CR!Ids /\ \A i \in CR!Ids : v6[i] = CR!NoRow \/
        v6[i] = [label |-> 2, token |-> 1, by |-> 1]
  BY DEF CR!Init
<1>4. v4 = CR!Closed /\ CR!Closed.token = 0 /\ v8 = {}
  BY DEF CR!Init, CR!Closed
<1> QED
  BY <1>1, <1>2, <1>3, <1>4 DEF CR!InductiveInv, CR!TokensAreTyped, CR!TokensAreOwn

(* What a request is made of.                                              *)
LEMMA CallFields ==
  ASSUME NEW kind, NEW i, NEW from
  PROVE  /\ DOMAIN CR!Call(kind, i, from) =
              {"kind", "id", "from", "label", "token", "n", "read", "answer"}
         /\ CR!Call(kind, i, from).kind = kind /\ CR!Call(kind, i, from).read = CR!NoRow
  BY DEF CR!Call

(* A step that leaves the rows and the dialog's token as they are or       *)
(* forgets it.                                                             *)
LEMMA TokensStay ==
  ASSUME CR!InductiveInv, v6' = v6, DOMAIN v4' = DOMAIN CR!Closed,
         v4'.token \in {0, v4'.n},
         \A c \in v8' : c \in v8 \/ CR!CallIsTyped(c)
  PROVE  CR!InductiveInv'
<1>1. CR!TokensAreOwn'
  BY DEF CR!InductiveInv, CR!TokensAreOwn
<1>2. DOMAIN v6' = CR!Ids /\ \A i \in CR!Ids : DOMAIN v6'[i] = DOMAIN CR!NoRow
  BY DEF CR!InductiveInv, CR!TokensAreTyped
<1>3. \A c \in v8' : CR!CallIsTyped(c)
  BY DEF CR!InductiveInv, CR!TokensAreTyped
<1>4. CR!TokensAreTyped'
  BY <1>2, <1>3 DEF CR!TokensAreTyped
<1> QED
  BY <1>1, <1>4 DEF CR!InductiveInv

(* A step that writes a row, with the token of who saves it.               *)
LEMMA RowsWritten ==
  ASSUME CR!InductiveInv, v4' = v4, DOMAIN v6' = CR!Ids,
         \A i \in CR!Ids :
           v6'[i] = v6[i] \/ (DOMAIN v6'[i] = DOMAIN CR!NoRow /\ v6'[i].token = v6'[i].by),
         \A c \in v8' : c \in v8 \/ CR!CallIsTyped(c)
  PROVE  CR!InductiveInv'
<1>1. \A i \in CR!Ids : DOMAIN v6'[i] = DOMAIN CR!NoRow /\ v6'[i].token = v6'[i].by
  BY DEF CR!InductiveInv, CR!TokensAreTyped, CR!TokensAreOwn
<1>2. CR!TokensAreOwn'
  BY <1>1 DEF CR!TokensAreOwn, CR!Ids
<1>3. \A c \in v8' : CR!CallIsTyped(c)
  BY DEF CR!InductiveInv, CR!TokensAreTyped
<1>4. DOMAIN v4' = DOMAIN CR!Closed /\ v4'.token \in {0, v4'.n}
  BY DEF CR!InductiveInv, CR!TokensAreTyped
<1>5. CR!TokensAreTyped'
  BY <1>1, <1>3, <1>4 DEF CR!TokensAreTyped
<1> QED
  BY <1>2, <1>5 DEF CR!InductiveInv

LEMMA RowIsWritten ==
  ASSUME CR!InductiveInv, v4' = v4,
         NEW r, DOMAIN r = DOMAIN CR!NoRow, r.token = r.by, \E i : v6' = [v6 EXCEPT ![i] = r],
         \A c \in v8' : c \in v8 \/ CR!CallIsTyped(c)
  PROVE  CR!InductiveInv'
<1>1. DOMAIN v6 = CR!Ids
  BY DEF CR!InductiveInv, CR!TokensAreTyped
<1>2. DOMAIN v6' = CR!Ids /\ \A i \in CR!Ids : v6'[i] = v6[i] \/ v6'[i] = r
  BY <1>1
<1> QED
  BY <1>2, RowsWritten

(* The steps at the server: an answer changes no token of a request.       *)
LEMMA AnswersKeep ==
  ASSUME CR!InductiveInv, NEW c \in v8, NEW a, CR!Answers(c, a)
  PROVE  \A d \in v8' : d \in v8 \/ CR!CallIsTyped(d)
<1> DEFINE d == [c EXCEPT !.answer = a]
<1>1. {"kind", "id", "from", "label", "token", "n", "read", "answer"} = DOMAIN c
  BY DEF CR!InductiveInv, CR!TokensAreTyped, CR!CallIsTyped
<1>2. /\ DOMAIN d = DOMAIN c /\ d.kind = c.kind /\ d.token = c.token /\ d.n = c.n
      /\ d.read = c.read
  BY <1>1
<1>3. v8' = (v8 \ {c}) \cup {d}
  BY DEF CR!Answers
<1> HIDE DEF d
<1> QED
  BY <1>2, <1>3 DEF CR!InductiveInv, CR!TokensAreTyped, CR!CallIsTyped

LEMMA CredentialNext ==
  ASSUME CR!InductiveInv, CR!Next \/ UNCHANGED CR!credentialVars
  PROVE  CR!InductiveInv'
<1>0. /\ DOMAIN v4 = DOMAIN CR!Closed /\ v4.token \in {0, v4.n}
      /\ DOMAIN v6 = CR!Ids /\ \A i \in CR!Ids : DOMAIN v6[i] = DOMAIN CR!NoRow
      /\ \A i \in CR!Ids : v6[i].token = v6[i].by
      /\ \A c \in v8 : CR!CallIsTyped(c)
  BY DEF CR!InductiveInv, CR!TokensAreTyped, CR!TokensAreOwn
<1>1. ASSUME NEW open, NEW i, NEW label
      PROVE  DOMAIN CR!Reset(open, i, label) = DOMAIN CR!Closed /\ CR!Reset(open, i, label).token = 0
  BY DEF CR!Reset, CR!Closed
<1>2. DOMAIN CR!Closed = {"open", "id", "label", "token", "saving", "n"} /\ CR!Closed.token = 0
  BY DEF CR!Closed
<1>3. CASE CR!OpenPanel \/ CR!OpenModal
  <2>1. v6' = v6 /\ v4' = CR!Closed
        /\ (v8' = v8 \/ v8' = v8 \cup {CR!Call("load", 0, "store")})
    BY <1>3 DEF CR!OpenPanel, CR!OpenModal, CR!Load
  <2> QED
    BY <1>2, <2>1, CallFields, TokensStay DEF CR!CallIsTyped
<1>4. CASE CR!Leave
  <2>1. UNCHANGED <<v4, v6>>
        /\ v8' = {IF c.from = "panel" THEN [c EXCEPT !.from = "store"] ELSE c : c \in v8}
    BY <1>4 DEF CR!Leave
  <2>2. ASSUME NEW c \in v8
        PROVE  LET d == [c EXCEPT !.from = "store"]
               IN  /\ DOMAIN d = DOMAIN c /\ d.kind = c.kind /\ d.token = c.token /\ d.n = c.n
                   /\ d.read = c.read
    <3>1. {"kind", "id", "from", "label", "token", "n", "read", "answer"} = DOMAIN c
      BY <1>0 DEF CR!CallIsTyped
    <3> QED
      BY <3>1
  <2>3. ASSUME NEW d \in v8', d \notin v8
        PROVE  CR!CallIsTyped(d)
    <3>1. PICK c \in v8 : d = [c EXCEPT !.from = "store"]
      BY <2>1, <2>3
    <3>2. /\ DOMAIN d = DOMAIN c /\ d.kind = c.kind /\ d.token = c.token /\ d.n = c.n
          /\ d.read = c.read
      BY <2>2, <3>1
    <3> QED
      BY <1>0, <3>2 DEF CR!CallIsTyped
  <2> QED
    BY <1>0, <2>1, <2>3, TokensStay
<1>5. CASE \E i \in CR!Ids : CR!Pick(i)
  <2>1. UNCHANGED <<v4, v6, v8>>
    BY <1>5 DEF CR!Pick
  <2> QED
    BY <1>0, <2>1, TokensStay
<1>6. CASE CR!Cancel \/ \E k : CR!Open(k)
  <2>1. PICK open, i, label : v4' = CR!Reset(open, i, label) /\ UNCHANGED <<v6, v8>>
    BY <1>6 DEF CR!Cancel, CR!Open
  <2> QED
    BY <1>1, <2>1, TokensStay
<1>7. ASSUME NEW f \in {"label", "token"}, CR!Type(f)
      PROVE  CR!InductiveInv'
  <2>1. v4' = [v4 EXCEPT ![f] = v4.n] /\ UNCHANGED <<v6, v8>>
    BY <1>7 DEF CR!Type
  <2>2. DOMAIN v4' = DOMAIN CR!Closed /\ v4'.token \in {0, v4'.n}
    BY <1>0, <1>2, <2>1
  <2> QED
    BY <2>1, <2>2, TokensStay
<1>8. CASE CR!Submit
  <2> DEFINE kind == IF v4.id = 0 THEN "create" ELSE "update"
             call == CR!Call(kind, v4.id, v1)
             c == [call EXCEPT !.label = v4.label, !.token = v4.token, !.n = v4.n]
  <2>1. /\ v6' = v6 /\ v4' = [v4 EXCEPT !.saving = TRUE] /\ v8' = v8 \cup {c}
        /\ v4.id = 0 => v4.token # 0
    BY <1>8 DEF CR!Submit
  <2>2. /\ DOMAIN call = {"kind", "id", "from", "label", "token", "n", "read", "answer"} /\ call.kind = kind
        /\ call.read = CR!NoRow
    BY CallFields
  <2> HIDE DEF call
  <2>3. /\ DOMAIN c = DOMAIN call /\ c.kind = kind /\ c.token = v4.token /\ c.n = v4.n
        /\ c.read = CR!NoRow
    BY <2>2
  <2>4. DOMAIN v4' = DOMAIN CR!Closed /\ v4'.token \in {0, v4'.n}
    BY <1>0, <1>2, <2>1
  <2> HIDE DEF c
  <2> QED
    BY <1>0, <2>1, <2>2, <2>3, <2>4, TokensStay DEF CR!CallIsTyped
<1>9. CASE \E k \in CR!Ids : CR!Remove(k)
  <2>1. PICK k : v8' = v8 \cup {CR!Call("remove", v3[k].id, v1)} /\ UNCHANGED <<v4, v6>>
    BY <1>9 DEF CR!Remove
  <2> QED
    BY <1>0, <2>1, CallFields, TokensStay DEF CR!CallIsTyped
<1>10. ASSUME NEW c \in v8, CR!Handle(c)
       PROVE  CR!InductiveInv'
  <2>1. v4' = v4 /\ \E a : CR!Answers(c, a)
    BY <1>10 DEF CR!Handle
  <2>2. CASE v6' = v6
    BY <1>0, <2>1, <2>2, AnswersKeep, TokensStay
  <2>3. CASE \E i : v6' = [v6 EXCEPT ![i] = CR!NoRow]
    <3>1. CR!NoRow.token = CR!NoRow.by
      BY DEF CR!NoRow
    <3> QED
      BY <1>0, <2>1, <2>3, <3>1, AnswersKeep, RowIsWritten
  <2>4. CASE /\ c.kind = "create"
             /\ \E i : v6' = [v6 EXCEPT ![i] = [label |-> c.label, token |-> c.token, by |-> c.n]]
    <3> DEFINE r == [label |-> c.label, token |-> c.token, by |-> c.n]
    <3>1. r.token = r.by /\ DOMAIN r = DOMAIN CR!NoRow
      BY <1>0, <2>4 DEF CR!NoRow, CR!CallIsTyped
    <3>2. \E i : v6' = [v6 EXCEPT ![i] = r]
      BY <2>4
    <3> HIDE DEF r
    <3> QED
      BY <1>0, <2>1, <3>1, <3>2, AnswersKeep, RowIsWritten
  <2> QED
    BY <1>10, <2>2, <2>3, <2>4 DEF CR!Handle
<1>11. ASSUME NEW c \in v8, CR!UpdateReads(c)
       PROVE  CR!InductiveInv'
  <2> DEFINE d == [c EXCEPT !.read = v6[c.id]]
  <2>1. /\ UNCHANGED <<v4, v6>> /\ c.kind = "update"
        /\ (v8' = (v8 \ {c}) \cup {d} \/ CR!Answers(c, CR!Failed))
    BY <1>11 DEF CR!UpdateReads
  <2>2. CASE CR!Answers(c, CR!Failed)
    BY <1>0, <2>1, <2>2, AnswersKeep, TokensStay
  <2>3. CASE v8' = (v8 \ {c}) \cup {d}
    <3>1. {"kind", "id", "from", "label", "token", "n", "read", "answer"} = DOMAIN c
      BY <1>0 DEF CR!CallIsTyped
    <3>2. DOMAIN d = DOMAIN c /\ d.kind = "update" /\ d.token = c.token /\ d.n = c.n
      BY <2>1, <3>1
    <3> HIDE DEF d
    <3> QED
      BY <1>0, <2>1, <2>3, <3>2, TokensStay DEF CR!CallIsTyped
  <2> QED
    BY <2>1, <2>2, <2>3
<1>12. ASSUME NEW c \in v8, CR!UpdateWrites(c)
       PROVE  CR!InductiveInv'
  <2>1. /\ v4' = v4 /\ (\E a : CR!Answers(c, a)) /\ c.kind = "update" /\ c.token \in {0, c.n}
        /\ (v6' = v6 \/ v6' = [v6 EXCEPT ![c.id] = CR!Set(v6[c.id], c)])
    BY <1>0, <1>12 DEF CR!UpdateWrites, CR!CallIsTyped
  <2>2. CASE v6' = v6
    BY <1>0, <2>1, <2>2, AnswersKeep, TokensStay
  <2>3. CASE v6' = [v6 EXCEPT ![c.id] = CR!Set(v6[c.id], c)] /\ c.id \in CR!Ids
    <3> DEFINE r == CR!Set(v6[c.id], c)
    <3>1. DOMAIN v6[c.id] = {"label", "token", "by"} /\ v6[c.id].token = v6[c.id].by
      BY <1>0, <2>3 DEF CR!NoRow
    <3>2. r.token = r.by /\ DOMAIN r = {"label", "token", "by"}
      BY <2>1, <3>1 DEF CR!Set
    <3>3. DOMAIN r = DOMAIN CR!NoRow
      BY <3>2 DEF CR!NoRow
    <3> HIDE DEF r
    <3>4. v6' = [v6 EXCEPT ![c.id] = r]
      BY <2>3 DEF r
    <3> QED
      BY <1>0, <2>1, <3>2, <3>3, <3>4, AnswersKeep, RowIsWritten
  <2>4. CASE v6' = [v6 EXCEPT ![c.id] = CR!Set(v6[c.id], c)] /\ c.id \notin CR!Ids
    <3>1. DOMAIN v6' = CR!Ids /\ \A i \in CR!Ids : v6'[i] = v6[i]
      BY <1>0, <2>4
    <3> QED
      BY <1>0, <2>1, <3>1, AnswersKeep, RowsWritten
  <2> QED
    BY <2>1, <2>2, <2>3, <2>4
<1>13. ASSUME NEW c \in v8, CR!CallFails(c)
       PROVE  CR!InductiveInv'
  <2>1. UNCHANGED <<v4, v6>> /\ CR!Answers(c, CR!Failed)
    BY <1>13 DEF CR!CallFails
  <2> QED
    BY <1>0, <2>1, AnswersKeep, TokensStay
<1>14. ASSUME NEW c \in v8, CR!Arrives(c)
       PROVE  CR!InductiveInv'
  <2>1. /\ v6' = v6 /\ v8' = v8 \ {c}
        /\ \/ v4' = v4 \/ v4' = [v4 EXCEPT !.saving = FALSE]
           \/ v4' = CR!Reset(FALSE, v4.id, v4.label)
    BY <1>14 DEF CR!Arrives
  <2>2. CASE v4' = CR!Reset(FALSE, v4.id, v4.label)
    <3>1. DOMAIN v4' = DOMAIN CR!Closed /\ v4'.token = 0
      BY <1>1, <2>2
    <3>2. \A d \in v8' : d \in v8
      BY <2>1
    <3> QED
      BY <2>1, <3>1, <3>2, TokensStay
  <2>3. CASE v4' = v4 \/ v4' = [v4 EXCEPT !.saving = FALSE]
    <3>1. DOMAIN v4' = DOMAIN v4 /\ v4'.token = v4.token /\ v4'.n = v4.n
      BY <1>0, <1>2, <2>3
    <3> QED
      BY <1>0, <2>1, <3>1, TokensStay
  <2> QED
    BY <2>1, <2>2, <2>3
<1>15. CASE UNCHANGED CR!credentialVars
  <2>1. UNCHANGED <<v4, v6, v8>>
    BY <1>15 DEF CR!credentialVars
  <2> QED
    BY <1>0, <2>1, TokensStay
<1> QED
  BY <1>3, <1>4, <1>5, <1>6, <1>7, <1>8, <1>9, <1>10, <1>11, <1>12, <1>13, <1>14, <1>15
     DEF CR!Next

(* git-credential-dialog.tsx, provider-route-helpers.ts: a credential's    *)
(* token was typed in the dialog that saved it, and a provider's secret    *)
(* passed a test with the URL it is stored for, whatever calls are lost    *)
(* and however forms and requests interleave.                              *)
THEOREM SecretsStayTheirs == ASSUME ProviderAssumptions PROVE Spec => []SecretsAreTheirs
<1> DEFINE Inv == /\ part = "creds" => CR!InductiveInv
                  /\ part \in {"forms", "starts"} => PV!InductiveInv
<1>1. Init => Inv
  BY ProviderStarts, ProviderInit, CredentialInit DEF Init
<1>2. Inv /\ [Next]_vars => Inv'
  BY PartStays, CredentialSteps, CredentialNext, ProviderSteps, ProviderNext
<1>3. Inv => SecretsAreTheirs
  BY DEF SecretsAreTheirs, PV!InductiveInv, CR!InductiveInv
<1> QED
  BY <1>1, <1>2, <1>3, PTL DEF Spec

-----------------------------------------------------------------------------
(* The store: v1 local, v2 rows, v3 sent, v4 agents, v5 up, v6 deleted,    *)
(* v7 written, v8 msg, v9 idx, v10 faults.                                 *)

(* A message's blocks are written one after the other.                     *)
StoreAssumptions == ~Interleaves

LEMMA StoreSteps ==
  ASSUME part = "store", [Next]_vars
  PROVE  TS!Next \/ UNCHANGED TS!transcriptVars
  BY DEF Next, vars, TS!Next, TS!transcriptVars, TS!streamVars, TS!storeVars

(* A list with one more line at its end.                                   *)
LEMMA Appended ==
  ASSUME NEW S, NEW q \in Seq(S), NEW e \in S
  PROVE  /\ Append(q, e) \in Seq(S) /\ Len(Append(q, e)) = Len(q) + 1
         /\ DOMAIN Append(q, e) = DOMAIN q \cup {Len(q) + 1}
         /\ Append(q, e)[Len(q) + 1] = e
         /\ \A i \in DOMAIN q : Append(q, e)[i] = q[i] /\ i <= Len(q)
<1>1. /\ Append(q, e) \in Seq(S) /\ Len(Append(q, e)) = Len(q) + 1
      /\ Append(q, e)[Len(q) + 1] = e
      /\ \A i \in 1..Len(q) : Append(q, e)[i] = q[i]
  BY AppendProperties
<1>2. /\ DOMAIN Append(q, e) = 1..(Len(q) + 1) /\ DOMAIN q = 1..Len(q) /\ Len(q) \in Nat
  BY <1>1, SeqElements
<1> QED
  BY <1>1, <1>2

(* What is appended line by line has a value for each line.                *)
LEMMA InsertsDefined ==
  ASSUME NEW S, NEW r \in Seq(S), NEW q \in Seq(S)
  PROVE  \E f : f = [k \in 0..Len(q) |-> IF k = 0 THEN r ELSE TS!InsertLine(f[k - 1], q[k])]
<1> DEFINE Fits(f, n) ==
             f = [k \in 0..n |-> IF k = 0 THEN r ELSE TS!InsertLine(f[k - 1], q[k])]
           Bad == {n \in Nat : ~\E f : Fits(f, n)}
<1>1. ASSUME NEW n \in Bad, \A j \in Bad : n <= j
      PROVE  FALSE
  <2>1. CASE n = 0
    <3>1. Fits([k \in 0..0 |-> r], 0)
      OBVIOUS
    <3> QED
      BY <2>1, <3>1
  <2>2. CASE n # 0
    <3> HIDE DEF Fits
    <3>1. n - 1 \in Nat /\ n - 1 \notin Bad
      BY <1>1, <2>2
    <3>2. PICK f : Fits(f, n - 1)
      BY <3>1
    <3> USE DEF Fits
    <3> DEFINE g == [k \in 0..n |-> IF k = n THEN TS!InsertLine(f[n - 1], q[n]) ELSE f[k]]
    <3>3. ASSUME NEW k \in 0..n
          PROVE  g[k] = IF k = 0 THEN r ELSE TS!InsertLine(g[k - 1], q[k])
      <4>1. CASE k = n
        <5>1. g[k - 1] = f[n - 1] /\ g[k] = TS!InsertLine(f[n - 1], q[n])
          BY <2>2, <4>1
        <5> QED
          BY <2>2, <4>1, <5>1
      <4>2. CASE k # n
        <5>1. k \in 0..(n - 1) /\ g[k] = f[k] /\ (k # 0 => g[k - 1] = f[k - 1])
          BY <4>2
        <5>2. f[k] = IF k = 0 THEN r ELSE TS!InsertLine(f[k - 1], q[k])
          BY <3>2, <5>1
        <5> QED
          BY <5>1, <5>2
      <4> QED
        BY <4>1, <4>2
    <3>4. Fits(g, n)
      BY <3>3
    <3> QED
      BY <3>4
  <2> QED
    BY <2>1, <2>2
<1>2. Len(q) \notin Bad
  BY <1>1, HasLeast
<1> QED
  BY <1>2, SeqElements

(* What InsertNew does: one line after the other.                          *)
LEMMA InsertsOneByOne ==
  ASSUME NEW S, v2 \in Seq(S), NEW q \in Seq(S)
  PROVE  \E f : /\ f = [k \in 0..Len(q) |-> IF k = 0 THEN v2 ELSE TS!InsertLine(f[k - 1], q[k])]
                /\ TS!InsertNew(q) = f[Len(q)]
<1> DEFINE Fits(f) == f = [k \in 0..Len(q) |-> IF k = 0 THEN v2
                                                ELSE TS!InsertLine(f[k - 1], q[k])]
           After == CHOOSE f : Fits(f)
<1>1. \E f : Fits(f)
  BY InsertsDefined
<1>2. TS!InsertNew(q) = After[Len(q)]
  BY DEF TS!InsertNew
<1> HIDE DEF Fits
<1>3. Fits(After)
  BY <1>1
<1> HIDE DEF After
<1> QED
  BY <1>2, <1>3 DEF Fits

LEMMA LineFacts ==
  ASSUME NEW l \in TS!Lines
  PROVE  /\ l.u \in Nat /\ l.m \in Nat /\ l.n \in Nat /\ l.c \in Nat
         /\ l.t \in {"prompt", "title", "text", "call", "result"}
         /\ (l.u = 0 <=> l.t = "title")
         /\ l.t \in TS!Blocks => l.m # 0 /\ l.m <= l.u /\ (l.n = 0 => l.m = l.u)
         /\ l.t = "call" => l.c = l.u
         /\ l.t = "result" => l.c < l.u
  BY DEF TS!Lines

LEMMA LineTypes ==
  ASSUME NEW q \in Seq(TS!Lines)
  PROVE  /\ \A i \in DOMAIN q : q[i] \in TS!Lines
         /\ DOMAIN q = 1..Len(q) /\ Len(q) \in Nat /\ DOMAIN q \subseteq Nat
<1> DEFINE S == TS!Lines
<1>1. q \in Seq(S)
  OBVIOUS
<1> HIDE DEF S
<1>2. /\ \A i \in DOMAIN q : q[i] \in S
      /\ DOMAIN q = 1..Len(q) /\ Len(q) \in Nat /\ DOMAIN q \subseteq Nat
  BY <1>1, SeqElements
<1> QED
  BY <1>2 DEF S

(* Lines in order: of two with a uuid the later has the greater one.       *)
LEMMA OrderFacts ==
  ASSUME NEW q \in Seq(TS!Lines), TS!InOrder(q),
         NEW i \in DOMAIN q, NEW j \in DOMAIN q, q[i].u # 0, q[j].u # 0
  PROVE  (i < j <=> q[i].u < q[j].u) /\ (i = j <=> q[i].u = q[j].u)
<1>1. i \in Nat /\ j \in Nat /\ q[i].u \in Nat /\ q[j].u \in Nat
  BY LineTypes, LineFacts
<1>2. (i < j => q[i].u < q[j].u) /\ (j < i => q[j].u < q[i].u)
  BY DEF TS!InOrder
<1> QED
  BY <1>1, <1>2

LEMMA InLinesOf ==
  ASSUME NEW q, NEW D, NEW x
  PROVE  x \in TS!LinesOf(q, D) <=> \E i \in D : q[i] = x /\ q[i].u # 0
  BY DEF TS!LinesOf

(* One line of the batch is inserted: the run grows, or has it already.    *)
LEMMA LineInserted ==
  ASSUME TS!Shapes, TS!InOrder(v1), NEW r, NEW p \in Nat, TS!Mirrors(r, p),
         v3 <= p, p < Len(v1)
  PROVE  TS!Mirrors(TS!InsertLine(r, v1[p + 1]), p + 1)
<1> DEFINE x == v1[p + 1]
           D == DOMAIN r
<1>1. /\ v1 \in Seq(TS!Lines) /\ r \in Seq(TS!Lines) /\ TS!InOrder(r) /\ v3 \in Nat
      /\ DOMAIN v1 = 1..Len(v1) /\ Len(v1) \in Nat /\ D = 1..Len(r) /\ Len(r) \in Nat
      /\ p + 1 \in DOMAIN v1
  BY LineTypes DEF TS!Shapes, TS!Mirrors
<1>2. /\ x \in TS!Lines /\ x.u \in Nat /\ \A i \in D : r[i] \in TS!Lines /\ r[i].u \in Nat
      /\ \A j \in DOMAIN v1 : v1[j] \in TS!Lines /\ v1[j].u \in Nat
  BY <1>1, LineTypes, LineFacts
<1>3. PICK a \in 0..Len(v1), b \in 0..Len(v1) :
        /\ a <= v3 /\ p <= b /\ (~v6 => a = 0)
        /\ TS!LinesOf(r, D) = TS!LinesOf(v1, a + 1 .. b)
  BY DEF TS!Mirrors
<1> HIDE DEF x, D
<1>4. CASE TS!Has(r, x.u)
  <2>1. PICK i \in D : r[i].u = x.u /\ x.u # 0
    BY <1>4 DEF TS!Has, D
  <2>2. r[i] \in TS!LinesOf(v1, a + 1 .. b)
    BY <1>3, <2>1, InLinesOf
  <2>3. PICK j \in a + 1 .. b : v1[j] = r[i]
    BY <2>2, InLinesOf
  <2>4. j \in DOMAIN v1 /\ v1[j].u = x.u /\ v1[j].u # 0
    BY <1>1, <2>1, <2>3
  <2>5. j = p + 1
    BY <1>1, <2>1, <2>4, OrderFacts DEF x
  <2>6. TS!InsertLine(r, x) = r
    BY <1>4 DEF TS!InsertLine
  <2>7. p + 1 <= b
    BY <2>5
  <2> QED
    BY <1>1, <1>3, <2>6, <2>7 DEF TS!Mirrors, x, D
<1>5. CASE ~TS!Has(r, x.u)
  <2> DEFINE s == Append(r, x)
             E == DOMAIN s
  <2>1. TS!InsertLine(r, x) = s
    BY <1>5 DEF TS!InsertLine
  <2>2. /\ s \in Seq(TS!Lines) /\ E = D \cup {Len(r) + 1} /\ s[Len(r) + 1] = x
        /\ \A i \in D : s[i] = r[i] /\ i <= Len(r)
    BY <1>1, <1>2, Appended DEF D
  <2> HIDE DEF s, E
  <2>3. TS!LinesOf(s, E) = TS!LinesOf(r, D) \cup (IF x.u # 0 THEN {x} ELSE {})
    BY <2>2 DEF TS!LinesOf
  <2>4. CASE x.u = 0
    <3> DEFINE e == IF b = p THEN p + 1 ELSE b
    <3>1. e \in 0..Len(v1) /\ p + 1 <= e /\ b <= e /\ (e # b => e = p + 1 /\ b = p)
      BY <1>1, <1>3
    <3>2. TS!LinesOf(v1, a + 1 .. e) = TS!LinesOf(v1, a + 1 .. b)
      BY <1>1, <1>3, <2>4, <3>1 DEF TS!LinesOf, x
    <3>3. TS!InOrder(s)
      BY <1>1, <2>2, <2>4 DEF TS!InOrder, E, D
    <3> HIDE DEF e
    <3> QED
      BY <1>1, <1>3, <2>1, <2>2, <2>3, <2>4, <3>1, <3>2, <3>3 DEF TS!Mirrors, E, x
  <2>5. CASE x.u # 0
    <3>1. b = p
      <4>1. ASSUME b # p PROVE FALSE
        <5>1. p + 1 \in a + 1 .. b
          BY <1>1, <1>3, <4>1
        <5>2. x \in TS!LinesOf(r, D)
          BY <1>3, <2>5, <5>1, InLinesOf DEF x
        <5> QED
          BY <1>5, <2>5, <5>2, InLinesOf DEF TS!Has, D
      <4> QED
        BY <4>1
    <3>2. TS!LinesOf(v1, a + 1 .. p + 1) = TS!LinesOf(v1, a + 1 .. b) \cup {x}
      BY <1>1, <1>3, <2>5, <3>1 DEF TS!LinesOf, x
    <3>3. ASSUME NEW i \in D, r[i].u # 0 PROVE r[i].u < x.u
      <4>1. r[i] \in TS!LinesOf(v1, a + 1 .. b)
        BY <1>3, <3>3, InLinesOf
      <4>2. PICK j \in a + 1 .. b : v1[j] = r[i]
        BY <4>1, InLinesOf
      <4>3. j \in DOMAIN v1 /\ j < p + 1 /\ v1[j].u # 0
        BY <1>1, <3>1, <3>3, <4>2
      <4> QED
        BY <1>1, <2>5, <4>2, <4>3, OrderFacts DEF x
    <3>4. TS!InOrder(s)
      BY <1>1, <2>2, <3>3 DEF TS!InOrder, E, D
    <3>5. p + 1 \in 0..Len(v1) /\ p + 1 <= p + 1
      BY <1>1
    <3>6. TS!LinesOf(s, E) = TS!LinesOf(v1, a + 1 .. p + 1)
      <4>1. TS!LinesOf(s, E) = TS!LinesOf(r, D) \cup {x}
        BY <2>3, <2>5
      <4> QED
        BY <1>3, <3>2, <4>1
    <3>7. TS!Mirrors(s, p + 1)
      BY <1>3, <2>2, <3>4, <3>5, <3>6 DEF TS!Mirrors, E
    <3> QED
      BY <2>1, <3>7 DEF x
  <2> QED
    BY <1>2, <2>4, <2>5
<1> QED
  BY <1>4, <1>5 DEF x

(* A batch is inserted: what is mirrored reaches its end.                  *)
LEMMA BatchInserted ==
  ASSUME TS!Shapes, TS!InOrder(v1), TS!Mirrors(v2, v3), NEW e \in (v3 + 1)..Len(v1)
  PROVE  TS!Mirrors(TS!InsertNew(SubSeq(v1, v3 + 1, e)), e)
<1> DEFINE q == SubSeq(v1, v3 + 1, e)
           n == e - v3
<1>1. /\ v1 \in Seq(TS!Lines) /\ v2 \in Seq(TS!Lines) /\ v3 \in Nat /\ Len(v1) \in Nat
      /\ n \in Nat /\ e \in Nat
  BY LineTypes DEF TS!Shapes, TS!Mirrors
<1>2. /\ q \in Seq(TS!Lines) /\ Len(q) = n /\ \A k \in 1..n : q[k] = v1[v3 + k]
  <2> DEFINE S == TS!Lines
  <2>1. v1 \in Seq(S)
    BY <1>1
  <2> HIDE DEF S
  <2>2. /\ q \in Seq(S) /\ Len(q) = e - (v3 + 1) + 1
        /\ \A k \in 1..(e - (v3 + 1) + 1) : q[k] = v1[(v3 + 1) + k - 1]
    BY <1>1, <2>1, SubSeqProperties
  <2>3. Len(q) = n /\ \A k \in 1..n : q[k] = v1[v3 + k]
    BY <1>1, <2>2
  <2> QED
    BY <2>2, <2>3 DEF S
<1> HIDE DEF q
<1>3. PICK f : /\ f = [k \in 0..n |-> IF k = 0 THEN v2 ELSE TS!InsertLine(f[k - 1], q[k])]
               /\ TS!InsertNew(q) = f[n]
  BY <1>1, <1>2, InsertsOneByOne
<1> DEFINE Bad == {k \in Nat : k <= n /\ ~TS!Mirrors(f[k], v3 + k)}
<1>4. ASSUME NEW k \in Bad, \A j \in Bad : k <= j
      PROVE  FALSE
  <2>1. k # 0
    BY <1>1, <1>3
  <2>2. k - 1 \in Nat /\ k - 1 <= n /\ k - 1 \notin Bad /\ k \in 0..n
    BY <1>1, <1>4, <2>1
  <2>3. TS!Mirrors(f[k - 1], v3 + (k - 1))
    BY <2>2
  <2>4. f[k] = TS!InsertLine(f[k - 1], v1[v3 + k])
    BY <1>2, <1>3, <2>1, <2>2
  <2>5. /\ v3 + (k - 1) \in Nat /\ v3 <= v3 + (k - 1) /\ v3 + (k - 1) < Len(v1)
        /\ (v3 + (k - 1)) + 1 = v3 + k
    BY <1>1, <2>2
  <2>6. TS!Mirrors(TS!InsertLine(f[k - 1], v1[(v3 + (k - 1)) + 1]), (v3 + (k - 1)) + 1)
    BY <2>3, <2>5, LineInserted
  <2> QED
    BY <2>4, <2>5, <2>6
<1>5. n \notin Bad
  <2> HIDE DEF n
  <2>1. Bad \in SUBSET Nat
    OBVIOUS
  <2> HIDE DEF Bad
  <2> QED
    BY <1>4, <2>1, HasLeast
<1>6. TS!Mirrors(f[n], v3 + n) /\ v3 + n = e
  BY <1>1, <1>5
<1> QED
  BY <1>3, <1>6 DEF q

(* Nothing is written yet.                                                 *)
LEMMA StoreStarts ==
  ASSUME TS!Init
  PROVE  TS!InductiveInv
<1>1. v1 \in Seq(TS!Lines) /\ v2 \in Seq(TS!Lines) /\ Len(v1) = 0 /\ DOMAIN v1 = {} /\ DOMAIN v2 = {}
  BY EmptySeq DEF TS!Init
<1>2. TS!LinesOf(v2, DOMAIN v2) = TS!LinesOf(v1, 0 + 1 .. 0)
  BY <1>1 DEF TS!LinesOf
<1>3. TS!Shapes
  <2>1. v4 \in [Tasks -> TS!AgentFiles]
    BY DEF TS!Init, TS!AgentFiles
  <2>2. v5 \in BOOLEAN /\ v6 \in BOOLEAN
    BY DEF TS!Init
  <2>3. v3 \in 0..Len(v1) /\ v7 \in Nat /\ v8 \in 0..v7 /\ v9 \in Nat /\ v8 = 0
    BY <1>1 DEF TS!Init
  <2> QED
    BY <1>1, <2>1, <2>2, <2>3 DEF TS!Shapes
<1>4. TS!Mirrors(v2, v3)
  BY <1>1, <1>2 DEF TS!Init, TS!Mirrors, TS!InOrder
<1> QED
  BY <1>1, <1>3, <1>4
     DEF TS!InductiveInv, TS!Init, TS!InOrder, TS!ResultsOnce, TS!Together, TS!Continues

(* A line at the end leaves alone what came before it.                     *)
LEMMA FollowsKept ==
  ASSUME NEW q \in Seq(TS!Lines), NEW l \in TS!Lines, NEW i \in 1..(Len(q) + 1),
         NEW m, NEW n, TS!Follows(q, i, m, n)
  PROVE  TS!Follows(Append(q, l), i, m, n)
<1> DEFINE s == Append(q, l)
<1>1. /\ DOMAIN q = 1..Len(q) /\ Len(q) \in Nat
      /\ DOMAIN s = DOMAIN q \cup {Len(q) + 1} /\ \A k \in DOMAIN q : s[k] = q[k]
  BY LineTypes, Appended
<1> HIDE DEF s
<1>2. CASE n = 0
  BY <1>2 DEF TS!Follows
<1>3. CASE n # 0
  <2>1. PICK j \in DOMAIN q : TS!Precedes(q, j, i, m, n - 1)
    BY <1>3 DEF TS!Follows
  <2>2. j \in DOMAIN s /\ TS!Precedes(s, j, i, m, n - 1)
    BY <1>1, <2>1 DEF TS!Precedes
  <2> QED
    BY <2>2 DEF TS!Follows, s
<1> QED
  BY <1>2, <1>3

(* A line is written at the end, and what may come next is known.          *)
LEMMA LineWritten ==
  ASSUME TS!InductiveInv, NEW l \in TS!Lines, NEW m \in 0..(v7 + 1), NEW n \in Nat,
         TS!Write(l, m, n), l.u \in {0, v7 + 1}, m # 0 => n # 0,
         l.t = "result" => l.c \in TS!Waiting,
         l.t \in TS!Blocks => TS!Follows(v1, Len(v1) + 1, l.m, l.n),
         \/ m = 0
         \/ l.t = "title" /\ m = v8 /\ n = v9
         \/ l.t \in TS!Blocks /\ m = l.m /\ n = l.n + 1
  PROVE  TS!InductiveInv'
<1> DEFINE s == Append(v1, l)
           D == DOMAIN v1
           z == Len(v1) + 1
<1>1. /\ TS!Shapes /\ TS!InOrder(v1) /\ TS!ResultsOnce /\ TS!Together(v1) /\ TS!Continues
      /\ TS!Mirrors(v2, v3)
  BY DEF TS!InductiveInv
<1>2. /\ v1 \in Seq(TS!Lines) /\ D = 1..Len(v1) /\ Len(v1) \in Nat /\ v7 \in Nat
      /\ \A i \in D : v1[i] \in TS!Lines /\ v1[i].u \in Nat /\ v1[i].u <= v7
  BY <1>1, LineTypes, LineFacts DEF TS!Shapes
<1>3. /\ s \in Seq(TS!Lines) /\ Len(s) = z /\ DOMAIN s = D \cup {z} /\ s[z] = l
      /\ \A i \in D : s[i] = v1[i] /\ i <= Len(v1) /\ i # z
  BY <1>2, Appended
<1>4. /\ v1' = s /\ v7' = v7 + 1 /\ v8' = m /\ v9' = n
      /\ v2' = v2 /\ v3' = v3 /\ v4' = v4 /\ v5' = v5 /\ v6' = v6
  BY DEF TS!Write, TS!storeVars
<1>5. l.u \in Nat /\ (l.u = 0 <=> l.t = "title") /\ l.n \in Nat
  BY LineFacts
<1> HIDE DEF s, D
<1>6. TS!Shapes'
  <2>1. \A i \in DOMAIN s : s[i].u <= v7 + 1
    BY <1>2, <1>3
  <2> QED
    BY <1>1, <1>2, <1>3, <1>4, <2>1 DEF TS!Shapes
<1>7. TS!InOrder(s)
  BY <1>2, <1>3, <1>1 DEF TS!InOrder, D
<1>8. TS!ResultsOnce'
  <2>1. ASSUME NEW i \in DOMAIN s, NEW j \in D, s[i].t = "result", s[j].t = "result",
               s[i].c = s[j].c
        PROVE  i = j
    <3>1. CASE i \in D
      BY <1>1, <1>3, <2>1, <3>1 DEF TS!ResultsOnce, D
    <3>2. CASE i = z
      <4>1. l.c \in TS!ResultsOf(v1)
        BY <1>3, <2>1, <3>2 DEF TS!ResultsOf, D
      <4> QED
        BY <1>3, <2>1, <3>2, <4>1 DEF TS!Waiting
    <3> QED
      BY <1>3, <3>1, <3>2
  <2>2. \A i, j \in DOMAIN s : s[i].t = "result" /\ s[j].t = "result" /\ s[i].c = s[j].c => i = j
    BY <1>3, <2>1
  <2> QED
    BY <1>4, <2>2 DEF TS!ResultsOnce
<1>9. TS!Together(s)
  <2>1. ASSUME NEW i \in DOMAIN s, s[i].t \in TS!Blocks
        PROVE  TS!Follows(s, i, s[i].m, s[i].n)
    <3>1. i \in 1..(Len(v1) + 1)
      BY <1>2, <1>3
    <3>2. TS!Follows(v1, i, s[i].m, s[i].n)
      BY <1>1, <1>3, <2>1 DEF TS!Together, D
    <3> QED
      BY <1>2, <3>1, <3>2, FollowsKept DEF s
  <2> QED
    BY <2>1 DEF TS!Together
<1>10. m # 0 => TS!Follows(s, Len(s) + 1, m, n)
  <2> SUFFICES ASSUME m # 0 PROVE TS!Follows(s, Len(s) + 1, m, n)
    OBVIOUS
  <2>1. CASE l.t = "title" /\ m = v8 /\ n = v9
    <3>1. PICK j \in D : TS!Precedes(v1, j, z, m, n - 1)
      BY <1>1, <2>1 DEF TS!Continues, TS!Follows, D
    <3>2. TS!Precedes(s, j, z + 1, m, n - 1)
      <4>1. ASSUME NEW k \in DOMAIN s, j < k, k < z + 1 PROVE s[k].t = "title"
        BY <1>2, <1>3, <2>1, <3>1, <4>1 DEF TS!Precedes, D
      <4> QED
        BY <1>2, <1>3, <3>1, <4>1 DEF TS!Precedes
    <3> QED
      BY <1>3, <3>2 DEF TS!Follows
  <2>2. CASE l.t \in TS!Blocks /\ m = l.m /\ n = l.n + 1
    <3>1. TS!Precedes(s, z, z + 1, m, n - 1)
      BY <1>2, <1>3, <1>5, <2>2 DEF TS!Precedes
    <3> QED
      BY <1>3, <3>1 DEF TS!Follows
  <2> QED
    BY <2>1, <2>2
<1>11. TS!Mirrors(v2, v3)'
  <2>1. PICK a \in 0..Len(v1), b \in 0..Len(v1) :
          /\ a <= v3 /\ v3 <= b /\ (~v6 => a = 0)
          /\ TS!LinesOf(v2, DOMAIN v2) = TS!LinesOf(v1, a + 1 .. b)
    BY <1>1 DEF TS!Mirrors
  <2>2. TS!LinesOf(s, a + 1 .. b) = TS!LinesOf(v1, a + 1 .. b)
    <3>1. \A i \in a + 1 .. b : s[i] = v1[i]
      BY <1>2, <1>3
    <3> QED
      BY <3>1 DEF TS!LinesOf
  <2>3. a \in 0..Len(s) /\ b \in 0..Len(s)
    BY <1>2, <1>3
  <2> QED
    BY <1>1, <1>4, <2>1, <2>2, <2>3 DEF TS!Mirrors
<1> QED
  BY <1>4, <1>6, <1>7, <1>8, <1>9, <1>10, <1>11 DEF TS!InductiveInv, TS!Continues

(* Each line the process writes keeps it so.                               *)
LEMMA WritesKeep ==
  ASSUME StoreAssumptions, TS!InductiveInv,
         TS!WritePrompt \/ TS!WriteTitle \/ TS!WriteBlock \/ TS!WriteResult
  PROVE  TS!InductiveInv'
<1>1. /\ v7 \in Nat /\ v8 \in 0..v7 /\ v9 \in Nat /\ (v8 # 0 => v9 # 0) /\ ~Interleaves
      /\ v1 \in Seq(TS!Lines) /\ \A i \in DOMAIN v1 : v1[i] \in TS!Lines /\ v1[i].u <= v7
      /\ (v8 # 0 => TS!Follows(v1, Len(v1) + 1, v8, v9))
  BY LineTypes DEF StoreAssumptions, TS!InductiveInv, TS!Shapes, TS!Continues
<1>2. CASE TS!WritePrompt
  <2> DEFINE l == TS!Line("prompt", 0, 0, 0)
  <2>1. l \in TS!Lines /\ l.u = v7 + 1 /\ l.t = "prompt"
    BY <1>1 DEF TS!Line, TS!Lines, TS!Blocks
  <2>2. TS!Write(l, 0, 0)
    BY <1>2 DEF TS!WritePrompt
  <2> HIDE DEF l
  <2> QED
    BY <1>1, <2>1, <2>2, LineWritten DEF TS!Blocks
<1>3. CASE TS!WriteTitle
  <2> DEFINE l == TS!Line("title", 0, 0, 0)
  <2>1. l \in TS!Lines /\ l.u = 0 /\ l.t = "title"
    BY <1>1 DEF TS!Line, TS!Lines, TS!Blocks
  <2>2. TS!Write(l, v8, v9)
    BY <1>3 DEF TS!WriteTitle
  <2> HIDE DEF l
  <2>3. v8 \in 0..(v7 + 1)
    BY <1>1
  <2> QED
    BY <1>1, <2>1, <2>2, <2>3, LineWritten DEF TS!Blocks
<1>4. CASE TS!WriteBlock
  <2>1. PICK t \in {"text", "call"} :
          LET c == IF t = "call" THEN v7 + 1 ELSE 0 IN
          \/ v8 # 0 /\ TS!Write(TS!Line(t, v8, v9, c), v8, v9 + 1)
          \/ TS!Write(TS!Line(t, v7 + 1, 0, c), v7 + 1, 1)
    BY <1>4 DEF TS!WriteBlock
  <2> DEFINE c == IF t = "call" THEN v7 + 1 ELSE 0
             l == TS!Line(t, v8, v9, c)
             k == TS!Line(t, v7 + 1, 0, c)
  <2>2. CASE v8 # 0 /\ TS!Write(l, v8, v9 + 1)
    <3>1. l \in TS!Lines
      BY <1>1, <2>2 DEF TS!Line, TS!Lines, TS!Blocks
    <3>2. l.u = v7 + 1 /\ l.t = t /\ l.m = v8 /\ l.n = v9
      BY DEF TS!Line
    <3> HIDE DEF l
    <3>3. v8 \in 0..(v7 + 1) /\ v9 + 1 \in Nat /\ v9 + 1 # 0 /\ t \in TS!Blocks /\ t # "result"
      BY <1>1 DEF TS!Blocks
    <3>4. TS!Follows(v1, Len(v1) + 1, l.m, l.n)
      BY <1>1, <2>2, <3>2
    <3> QED
      BY <2>2, <3>1, <3>2, <3>3, <3>4, LineWritten
  <2>3. CASE TS!Write(k, v7 + 1, 1)
    <3>1. k \in TS!Lines
      BY <1>1 DEF TS!Line, TS!Lines, TS!Blocks
    <3>2. k.u = v7 + 1 /\ k.t = t /\ k.m = v7 + 1 /\ k.n = 0
      BY DEF TS!Line
    <3> HIDE DEF k
    <3>3. v7 + 1 \in 0..(v7 + 1) /\ 1 \in Nat /\ t \in TS!Blocks /\ t # "result" /\ 1 = k.n + 1
      BY <1>1, <3>2 DEF TS!Blocks
    <3>4. TS!Follows(v1, Len(v1) + 1, k.m, k.n)
      BY <3>2 DEF TS!Follows
    <3> QED
      BY <2>3, <3>1, <3>2, <3>3, <3>4, LineWritten
  <2> QED
    BY <2>1, <2>2, <2>3
<1>5. CASE TS!WriteResult
  <2>1. PICK c \in TS!Waiting : TS!Write(TS!Line("result", 0, 0, c), 0, 0)
    BY <1>1, <1>5 DEF TS!WriteResult
  <2> DEFINE l == TS!Line("result", 0, 0, c)
  <2>2. PICK i \in DOMAIN v1 : v1[i].t = "call" /\ c = v1[i].c
    BY DEF TS!Waiting, TS!CallsOf
  <2>3. c \in Nat /\ c < v7 + 1
    BY <1>1, <2>2, LineFacts
  <2>4. l \in TS!Lines /\ l.u = v7 + 1 /\ l.t = "result" /\ l.c = c
    BY <1>1, <2>3 DEF TS!Line, TS!Lines, TS!Blocks
  <2> HIDE DEF l
  <2> QED
    BY <1>1, <2>1, <2>4, LineWritten DEF TS!Blocks, l
<1> QED
  BY <1>2, <1>3, <1>4, <1>5

(* What the store has of the lines with a uuid was written.                *)
LEMMA RowsAreLines ==
  ASSUME TS!InductiveInv
  PROVE  /\ v2 \in Seq(TS!Lines) /\ TS!InOrder(v2)
         /\ \A i \in DOMAIN v2 : v2[i].u # 0 => \E j \in DOMAIN v1 : v1[j] = v2[i]
         /\ \A i, j \in DOMAIN v2 :
              v2[i].t = "result" /\ v2[j].t = "result" /\ v2[i].c = v2[j].c => i = j
<1>1. /\ v1 \in Seq(TS!Lines) /\ v2 \in Seq(TS!Lines) /\ TS!InOrder(v2)
      /\ DOMAIN v1 = 1..Len(v1) /\ Len(v1) \in Nat
      /\ \A i \in DOMAIN v2 : v2[i] \in TS!Lines
  BY LineTypes DEF TS!InductiveInv, TS!Shapes, TS!Mirrors
<1>2. PICK a \in 0..Len(v1), b \in 0..Len(v1) :
        TS!LinesOf(v2, DOMAIN v2) = TS!LinesOf(v1, a + 1 .. b)
  BY DEF TS!InductiveInv, TS!Mirrors
<1>3. ASSUME NEW i \in DOMAIN v2, v2[i].u # 0
      PROVE  \E j \in DOMAIN v1 : v1[j] = v2[i]
  <2>1. v2[i] \in TS!LinesOf(v1, a + 1 .. b)
    BY <1>2, <1>3, InLinesOf
  <2>2. PICK j \in a + 1 .. b : v1[j] = v2[i]
    BY <2>1, InLinesOf
  <2> QED
    BY <1>1, <2>2
<1>4. ASSUME NEW i \in DOMAIN v2, NEW j \in DOMAIN v2,
             v2[i].t = "result", v2[j].t = "result", v2[i].c = v2[j].c
      PROVE  i = j
  <2>1. v2[i].u # 0 /\ v2[j].u # 0
    BY <1>1, <1>4, LineFacts
  <2>2. PICK g \in DOMAIN v1 : v1[g] = v2[i]
    BY <1>3, <2>1
  <2>3. PICK h \in DOMAIN v1 : v1[h] = v2[j]
    BY <1>3, <2>1
  <2>4. g = h
    BY <1>4, <2>2, <2>3 DEF TS!InductiveInv, TS!ResultsOnce
  <2> QED
    BY <1>1, <2>1, <2>2, <2>3, <2>4, OrderFacts
<1> QED
  BY <1>1, <1>3, <1>4

(* The blocks of a message are together in the store as well.              *)
LEMMA RowsTogether ==
  ASSUME TS!InductiveInv, ~v6
  PROVE  TS!Together(v2)
<1>1. /\ v1 \in Seq(TS!Lines) /\ v2 \in Seq(TS!Lines) /\ TS!InOrder(v1) /\ TS!InOrder(v2)
      /\ DOMAIN v1 = 1..Len(v1) /\ Len(v1) \in Nat /\ DOMAIN v2 \subseteq Nat
      /\ \A i \in DOMAIN v2 : v2[i] \in TS!Lines
      /\ \A i \in DOMAIN v1 : v1[i] \in TS!Lines
      /\ TS!Together(v1)
  BY LineTypes DEF TS!InductiveInv, TS!Shapes, TS!Mirrors
<1>2. PICK b \in 0..Len(v1) : TS!LinesOf(v2, DOMAIN v2) = TS!LinesOf(v1, 0 + 1 .. b)
  BY DEF TS!InductiveInv, TS!Mirrors
<1>3. ASSUME NEW i \in DOMAIN v2, v2[i].u # 0
      PROVE  \E j \in 1..b : v1[j] = v2[i]
  <2>1. v2[i] \in TS!LinesOf(v1, 0 + 1 .. b)
    BY <1>2, <1>3, InLinesOf
  <2>2. PICK j \in 0 + 1 .. b : v1[j] = v2[i]
    BY <2>1, InLinesOf
  <2> QED
    BY <2>2
<1>4. ASSUME NEW j \in 1..b, v1[j].u # 0
      PROVE  \E i \in DOMAIN v2 : v1[j] = v2[i]
  <2>1. j \in 0 + 1 .. b
    OBVIOUS
  <2>2. v1[j] \in TS!LinesOf(v2, DOMAIN v2)
    BY <1>2, <1>4, <2>1, InLinesOf
  <2> QED
    BY <2>2, InLinesOf
<1>5. ASSUME NEW i \in DOMAIN v2, v2[i].t \in TS!Blocks, v2[i].n # 0
      PROVE  TS!Follows(v2, i, v2[i].m, v2[i].n)
  <2>1. v2[i].u # 0
    BY <1>1, <1>5, LineFacts DEF TS!Blocks
  <2>2. PICK j \in 1..b : v1[j] = v2[i]
    BY <1>3, <2>1
  <2>3. j \in DOMAIN v1
    BY <1>1
  <2>4. PICK g \in DOMAIN v1 : TS!Precedes(v1, g, j, v2[i].m, v2[i].n - 1)
    BY <1>1, <1>5, <2>2, <2>3 DEF TS!Together, TS!Follows
  <2>5. g < j /\ g \in 1..b /\ v1[g].u # 0
    BY <1>1, <2>4, LineFacts DEF TS!Precedes, TS!Blocks
  <2>6. PICK h \in DOMAIN v2 : v1[g] = v2[h]
    BY <1>4, <2>5
  <2>7. h < i
    BY <1>1, <2>1, <2>2, <2>3, <2>5, <2>6, OrderFacts
  <2>8. ASSUME NEW k \in DOMAIN v2, h < k, k < i, v2[k].t # "title"
        PROVE  FALSE
    <3>1. v2[k].u # 0
      BY <1>1, <2>8, LineFacts
    <3>2. PICK f \in 1..b : v1[f] = v2[k]
      BY <1>3, <3>1
    <3>3. f \in DOMAIN v1
      BY <1>1
    <3>4. v2[h].u < v2[k].u /\ v2[k].u < v2[i].u
      BY <1>1, <2>1, <2>5, <2>6, <2>8, <3>1, OrderFacts
    <3>5. g < f /\ f < j
      BY <1>1, <2>1, <2>2, <2>3, <2>5, <2>6, <3>1, <3>2, <3>3, <3>4, OrderFacts
    <3> QED
      BY <2>4, <2>8, <3>2, <3>3, <3>5 DEF TS!Precedes
  <2>9. TS!Precedes(v2, h, i, v2[i].m, v2[i].n - 1)
    BY <2>4, <2>6, <2>7, <2>8 DEF TS!Precedes
  <2> QED
    BY <2>9 DEF TS!Follows
<1> QED
  BY <1>5 DEF TS!Together, TS!Follows

(* A batch reaches the store, or the store cannot tell.                    *)
LEMMA BatchKeeps ==
  ASSUME TS!InductiveInv, TS!AppendBatch
  PROVE  TS!InductiveInv'
<1>1. /\ TS!Shapes /\ TS!InOrder(v1) /\ TS!Mirrors(v2, v3) /\ v3 \in 0..Len(v1)
      /\ v1 \in Seq(TS!Lines) /\ Len(v1) \in Nat
  BY LineTypes DEF TS!InductiveInv, TS!Shapes
<1>2. PICK k \in (v3 + 1)..Len(v1) :
        \/ v2' = TS!InsertNew(SubSeq(v1, v3 + 1, k)) /\ v3' = k
        \/ v3' = v3 /\ v2' \in {v2, TS!InsertNew(SubSeq(v1, v3 + 1, k))}
  BY DEF TS!AppendBatch
<1>3. /\ v1' = v1 /\ v4' = v4 /\ v5' = v5 /\ v6' = v6 /\ v7' = v7 /\ v8' = v8 /\ v9' = v9
  BY DEF TS!AppendBatch, TS!streamVars
<1>4. TS!Mirrors(TS!InsertNew(SubSeq(v1, v3 + 1, k)), k)
  BY <1>1, BatchInserted
<1>5. TS!Mirrors(v2', v3') /\ v3' \in 0..Len(v1) /\ v3 <= v3'
  <2>1. TS!Mirrors(TS!InsertNew(SubSeq(v1, v3 + 1, k)), v3)
    BY <1>1, <1>4 DEF TS!Mirrors
  <2> QED
    BY <1>1, <1>2, <1>4, <2>1
<1>6. TS!Mirrors(v2, v3)'
  <2>1. PICK a \in 0..Len(v1), b \in 0..Len(v1) :
          /\ a <= v3 /\ v3' <= b /\ (~v6 => a = 0)
          /\ TS!LinesOf(v2', DOMAIN v2') = TS!LinesOf(v1, a + 1 .. b)
    BY <1>5 DEF TS!Mirrors
  <2>2. a <= v3'
    BY <1>1, <1>5, <2>1
  <2>3. v2' \in Seq(TS!Lines) /\ TS!InOrder(v2')
    BY <1>5 DEF TS!Mirrors
  <2> QED
    BY <1>3, <2>1, <2>2, <2>3 DEF TS!Mirrors
<1>7. TS!Shapes'
  BY <1>1, <1>3, <1>5 DEF TS!Shapes
<1> QED
  BY <1>3, <1>6, <1>7
     DEF TS!InductiveInv, TS!ResultsOnce, TS!Continues

(* A new process starts from what the store has.                           *)
LEMMA ResumeKeeps ==
  ASSUME TS!InductiveInv, TS!Resume
  PROVE  TS!InductiveInv'
<1>1. /\ TS!Shapes /\ v2 \in Seq(TS!Lines) /\ DOMAIN v2 = 1..Len(v2) /\ Len(v2) \in Nat
      /\ v7 \in Nat /\ \A i \in DOMAIN v2 : v2[i].u \in Nat
  BY RowsAreLines, LineTypes, LineFacts DEF TS!InductiveInv, TS!Shapes
<1>2. /\ v1' = v2 /\ v3' \in {0, Len(v2)} /\ v5' = TRUE /\ v8' = 0 /\ v9' = 0 /\ ~v6
      /\ v2' = v2 /\ v4' = v4 /\ v6' = v6 /\ v7' = v7
  BY DEF TS!Resume
<1>3. \A i \in DOMAIN v2 : v2[i].u <= v7
  <2>1. ASSUME NEW i \in DOMAIN v2, v2[i].u # 0
        PROVE  v2[i].u <= v7
    <3>1. PICK j \in DOMAIN v1 : v1[j] = v2[i]
      BY <2>1, RowsAreLines
    <3> QED
      BY <1>1, <3>1 DEF TS!Shapes
  <2> QED
    BY <1>1, <2>1
<1>4. v3' \in 0..Len(v2)
  BY <1>1, <1>2
<1>5. TS!Shapes'
  <2>1. v5' \in BOOLEAN /\ v6' \in BOOLEAN
    BY <1>1, <1>2 DEF TS!Shapes
  <2>2. v4' \in [Tasks -> TS!AgentFiles]
    BY <1>1, <1>2 DEF TS!Shapes
  <2>3. v1' \in Seq(TS!Lines) /\ v3' \in 0..Len(v1') /\ \A i \in DOMAIN v1' : v1'[i].u <= v7'
    BY <1>1, <1>2, <1>3, <1>4
  <2>4. v7' \in Nat /\ v8' \in 0..v7' /\ v9' \in Nat /\ v8' = 0
    BY <1>1, <1>2
  <2> QED
    BY <2>1, <2>2, <2>3, <2>4 DEF TS!Shapes
<1>6. TS!InOrder(v1') /\ TS!ResultsOnce' /\ TS!Together(v1') /\ TS!Continues'
  BY <1>2, RowsAreLines, RowsTogether DEF TS!ResultsOnce, TS!Continues
<1>7. TS!Mirrors(v2, v3)'
  <2>1. 0 + 1 .. Len(v2) = DOMAIN v2
    BY <1>1
  <2>2. 0 \in 0..Len(v2) /\ Len(v2) \in 0..Len(v2) /\ 0 <= v3' /\ v3' <= Len(v2)
    BY <1>1, <1>4
  <2>3. TS!LinesOf(v2, DOMAIN v2) = TS!LinesOf(v1', 0 + 1 .. Len(v2))
    BY <1>2, <2>1
  <2> QED
    BY <1>1, <1>2, <2>2, <2>3, RowsAreLines DEF TS!Mirrors
<1> QED
  BY <1>5, <1>6, <1>7 DEF TS!InductiveInv

(* Every step keeps it so.                                                 *)
LEMMA StoreKeeps ==
  ASSUME StoreAssumptions, TS!InductiveInv, TS!Next \/ UNCHANGED TS!transcriptVars
  PROVE  TS!InductiveInv'
<1> USE DEF TS!InductiveInv, TS!ResultsOnce, TS!Continues
<1>1. CASE TS!WritePrompt \/ TS!WriteTitle \/ TS!WriteBlock \/ TS!WriteResult
  BY <1>1, WritesKeep
<1>2. CASE TS!AppendBatch
  BY <1>2, BatchKeeps
<1>3. CASE TS!Resume
  BY <1>3, ResumeKeeps
<1>4. CASE TS!AppendAgent
  <2>1. v4' \in [Tasks -> TS!AgentFiles]
    BY <1>4 DEF TS!AppendAgent, TS!Shapes, TS!AgentFiles
  <2>2. v1' = v1 /\ v2' = v2 /\ v3' = v3 /\ v5' = v5 /\ v6' = v6 /\ v7' = v7 /\ v8' = v8 /\ v9' = v9
    BY <1>4 DEF TS!AppendAgent, TS!streamVars
  <2>3. TS!Shapes'
    BY <2>1, <2>2 DEF TS!Shapes
  <2> QED
    BY <2>2, <2>3 DEF TS!Mirrors
<1>5. CASE TS!ProcessEnds
  <2>1. /\ v1' = v1 /\ v2' = v2 /\ v3' = v3 /\ v4' = v4 /\ v5' = FALSE /\ v6' = v6 /\ v7' = v7
        /\ v8' = v8 /\ v9' = v9
    BY <1>5 DEF TS!ProcessEnds, TS!streamVars, TS!storeVars
  <2>2. v5' \in BOOLEAN
    BY <2>1
  <2>3. TS!Shapes'
    BY <2>1, <2>2 DEF TS!Shapes
  <2> QED
    BY <2>1, <2>3 DEF TS!Mirrors
<1>6. CASE TS!DeleteEntries
  <2>1. /\ v1' = v1 /\ v2' = <<>> /\ v3' = v3 /\ v5' = v5 /\ v6' = TRUE /\ v7' = v7
        /\ v8' = v8 /\ v9' = v9 /\ v4' = [c \in Tasks |-> "none"]
    BY <1>6 DEF TS!DeleteEntries, TS!streamVars
  <2>2. v4' \in [Tasks -> TS!AgentFiles] /\ v6' \in BOOLEAN
    BY <2>1 DEF TS!AgentFiles
  <2>3. TS!Shapes'
    BY <2>1, <2>2 DEF TS!Shapes
  <2>4. v3 \in 0..Len(v1) /\ Len(v1) \in Nat
    BY LineTypes DEF TS!Shapes
  <2>5. TS!LinesOf(v2', DOMAIN v2') = TS!LinesOf(v1, v3 + 1 .. v3)
    BY <2>1, <2>4 DEF TS!LinesOf
  <2>6. v2' \in Seq(TS!Lines) /\ TS!InOrder(v2')
    BY <2>1, EmptySeq DEF TS!InOrder
  <2>7. v3 \in 0..Len(v1) /\ v3 <= v3 /\ v1' = v1 /\ v3' = v3 /\ v6'
    BY <2>1, <2>4
  <2>8. TS!Mirrors(v2, v3)'
    BY <2>5, <2>6, <2>7 DEF TS!Mirrors
  <2> QED
    BY <2>1, <2>3, <2>8
<1>7. CASE UNCHANGED TS!transcriptVars
  <2>1. /\ v1' = v1 /\ v2' = v2 /\ v3' = v3 /\ v4' = v4 /\ v5' = v5 /\ v6' = v6 /\ v7' = v7
        /\ v8' = v8 /\ v9' = v9
    BY <1>7 DEF TS!transcriptVars, TS!streamVars, TS!storeVars
  <2> QED
    BY <2>1 DEF TS!Mirrors, TS!Shapes
<1> QED
  BY <1>1, <1>2, <1>3, <1>4, <1>5, <1>6, <1>7 DEF TS!Next

LEMMA StoreCardinality == ASSUME NEW S PROVE TS!Cardinality(S) = Cardinality(S)
  BY DEF TS!Cardinality, Cardinality

(* No two places have the same block of the same message.                  *)
LEMMA PlacesDiffer ==
  ASSUME NEW q \in Seq(TS!Lines), TS!InOrder(q), TS!Together(q),
         NEW i \in DOMAIN q, NEW j \in DOMAIN q, q[i].t \in TS!Blocks, q[j].t \in TS!Blocks,
         q[i].m = q[j].m, q[i].n = q[j].n
  PROVE  i = j
<1> DEFINE Twin(n, g, h) == /\ g # h /\ q[g].t \in TS!Blocks /\ q[h].t \in TS!Blocks
                            /\ q[g].m = q[h].m /\ q[g].n = n /\ q[h].n = n
           Bad == {n \in Nat : \E g, h \in DOMAIN q : Twin(n, g, h)}
<1>0. /\ \A k \in DOMAIN q : q[k] \in TS!Lines
      /\ DOMAIN q = 1..Len(q) /\ Len(q) \in Nat /\ DOMAIN q \subseteq Nat
  BY LineTypes
<1>1. ASSUME NEW n \in Bad, \A k \in Bad : n <= k
      PROVE  FALSE
  <2>1. PICK g \in DOMAIN q, h \in DOMAIN q : Twin(n, g, h)
    BY <1>1
  <2>2. /\ q[g].u \in Nat /\ q[h].u \in Nat /\ q[g].u # 0 /\ q[h].u # 0
        /\ (n = 0 => q[g].m = q[g].u /\ q[h].m = q[h].u)
        /\ q[g].t # "title" /\ q[h].t # "title"
    BY <1>0, <2>1, LineFacts DEF TS!Blocks
  <2>3. n # 0
    BY <1>0, <2>1, <2>2, OrderFacts
  <2>4. PICK e \in DOMAIN q : TS!Precedes(q, e, g, q[g].m, n - 1)
    BY <2>1, <2>3 DEF TS!Together, TS!Follows
  <2>5. PICK f \in DOMAIN q : TS!Precedes(q, f, h, q[g].m, n - 1)
    BY <2>1, <2>3 DEF TS!Together, TS!Follows
  <2>6. n - 1 \in Nat /\ n - 1 \notin Bad
    BY <1>1, <2>3
  <2>7. e = f
    BY <2>4, <2>5, <2>6 DEF TS!Precedes
  <2>8. g < h \/ h < g
    BY <1>0, <2>1
  <2> QED
    BY <1>0, <2>2, <2>4, <2>5, <2>7, <2>8 DEF TS!Precedes
<1>2. q[i].n \in Nat
  BY <1>0, LineFacts
<1>3. ASSUME i # j PROVE FALSE
  <2>1. q[i].n \in Bad
    BY <1>2, <1>3
  <2>2. Bad \in SUBSET Nat
    OBVIOUS
  <2> HIDE DEF Bad
  <2> QED
    BY <1>1, <2>1, <2>2, HasLeast
<1> QED
  BY <1>3

(* The places before i where its message has been since another line.      *)
Earlier(i) ==
  {j \in TS!Shown : j < i /\ \A k \in TS!Shown : j <= k /\ k < i =>
                      v2[k].t \in TS!Blocks /\ v2[k].m = v2[i].m}

(* A block is counted at the place it has in its message.                  *)
LEMMA CountedInPlace ==
  ASSUME TS!InductiveInv, ~v6, NEW i \in TS!Shown, v2[i].t \in TS!Blocks
  PROVE  TS!BlockIndex(i) = v2[i].n
<1> DEFINE Off(n, g) == v2[g].t \in TS!Blocks /\ v2[g].n = n /\ Cardinality(Earlier(g)) # n
           Bad == {n \in Nat : \E g \in TS!Shown : Off(n, g)}
<1>0. /\ v2 \in Seq(TS!Lines) /\ TS!InOrder(v2) /\ TS!Together(v2)
      /\ \A k \in DOMAIN v2 : v2[k] \in TS!Lines
      /\ DOMAIN v2 = 1..Len(v2) /\ Len(v2) \in Nat /\ DOMAIN v2 \subseteq Nat
      /\ TS!Shown \subseteq DOMAIN v2
  BY RowsAreLines, RowsTogether, LineTypes DEF TS!Shown
<1>1. \A g \in TS!Shown : Earlier(g) \subseteq 1..Len(v2) /\ IsFiniteSet(Earlier(g))
  <2>1. \A g \in TS!Shown : Earlier(g) \subseteq 1..Len(v2)
    BY <1>0 DEF Earlier
  <2>2. IsFiniteSet(1..Len(v2))
    BY <1>0, FS_Interval
  <2>3. \A S \in SUBSET (1..Len(v2)) : IsFiniteSet(S)
    BY <2>2, FS_Subset
  <2> QED
    BY <2>1, <2>3
<1>2. ASSUME NEW n \in Bad, \A k \in Bad : n <= k
      PROVE  FALSE
  <2>1. PICK g \in TS!Shown : Off(n, g)
    BY <1>2
  <2>2. CASE n = 0
    <3>1. v2[g].m = v2[g].u /\ v2[g].u # 0
      BY <1>0, <2>1, <2>2, LineFacts DEF TS!Blocks
    <3>2. ASSUME NEW j \in Earlier(g) PROVE FALSE
      <4>1. j \in TS!Shown /\ j < g /\ v2[j].t \in TS!Blocks /\ v2[j].m = v2[g].u
        BY <1>0, <3>1 DEF Earlier
      <4>2. v2[j].m <= v2[j].u /\ v2[j].u # 0 /\ v2[j].u \in Nat /\ v2[g].u \in Nat
        BY <1>0, <4>1, LineFacts DEF TS!Blocks
      <4>3. v2[j].u < v2[g].u
        BY <1>0, <3>1, <4>1, <4>2, OrderFacts
      <4> QED
        BY <4>1, <4>2, <4>3
    <3>3. Earlier(g) = {}
      BY <3>2
    <3> QED
      BY <2>1, <2>2, <3>3, FS_EmptySet
  <2>3. CASE n # 0
    <3>1. PICK h \in DOMAIN v2 : TS!Precedes(v2, h, g, v2[g].m, n - 1)
      BY <1>0, <2>1, <2>3 DEF TS!Together, TS!Follows
    <3>2. /\ h \in TS!Shown /\ h < g /\ v2[h].t \in TS!Blocks /\ v2[h].m = v2[g].m
          /\ v2[h].n = n - 1
      BY <3>1 DEF TS!Precedes, TS!Shown, TS!Blocks
    <3>3. \A k \in TS!Shown : ~(h < k /\ k < g)
      BY <3>1 DEF TS!Precedes, TS!Shown
    <3>4. ASSUME NEW j \in Earlier(g) PROVE j \in Earlier(h) \cup {h}
      <4>1. j \in TS!Shown /\ j <= h
        BY <1>0, <3>2, <3>3 DEF Earlier
      <4>2. ASSUME NEW k \in TS!Shown, j <= k, k < h
            PROVE  v2[k].t \in TS!Blocks /\ v2[k].m = v2[h].m
        BY <1>0, <3>2, <4>2 DEF Earlier
      <4> QED
        BY <1>0, <4>1, <4>2 DEF Earlier
    <3>5. ASSUME NEW j \in Earlier(h) \cup {h} PROVE j \in Earlier(g)
      <4>1. j \in TS!Shown /\ j <= h /\ j < g
        BY <1>0, <3>2 DEF Earlier
      <4>2. ASSUME NEW k \in TS!Shown, j <= k, k < g
            PROVE  v2[k].t \in TS!Blocks /\ v2[k].m = v2[g].m
        <5>1. k = h \/ k < h
          BY <1>0, <3>2, <3>3, <4>2
        <5>2. CASE k < h
          <6>1. j \in Earlier(h)
            BY <1>0, <4>1, <4>2, <5>2
          <6> QED
            BY <3>2, <4>2, <5>2, <6>1 DEF Earlier
        <5> QED
          BY <3>2, <5>1, <5>2
      <4> QED
        BY <4>1, <4>2 DEF Earlier
    <3>6. Earlier(g) = Earlier(h) \cup {h} /\ h \notin Earlier(h)
      BY <1>0, <3>2, <3>4, <3>5 DEF Earlier
    <3>7. n - 1 \in Nat /\ n - 1 \notin Bad
      BY <1>2, <2>3
    <3>8. Cardinality(Earlier(h)) = n - 1
      BY <3>2, <3>7
    <3>9. Cardinality(Earlier(g)) = Cardinality(Earlier(h)) + 1
      BY <1>1, <3>2, <3>6, FS_AddElement
    <3> QED
      BY <2>1, <3>8, <3>9
  <2> QED
    BY <2>2, <2>3
<1>3. v2[i].n \in Nat
  BY <1>0, LineFacts
<1>4. v2[i].n \notin Bad
  <2>1. Bad \in SUBSET Nat
    OBVIOUS
  <2> HIDE DEF Bad
  <2> QED
    BY <1>2, <2>1, HasLeast
<1>5. Cardinality(Earlier(i)) = v2[i].n
  BY <1>3, <1>4
<1>6. TS!BlockIndex(i) = TS!Cardinality(Earlier(i))
  BY DEF TS!BlockIndex, Earlier
<1> QED
  BY <1>5, <1>6, StoreCardinality

(* No two blocks of a snapshot share an id, and a text has the one it was  *)
(* streamed with.                                                          *)
LEMMA IdsStable ==
  ASSUME TS!InductiveInv
  PROVE  TS!IdsAreStable
<1> SUFFICES ASSUME ~v6 PROVE TS!IdsAreStable
  BY DEF TS!IdsAreStable
<1>0. /\ v2 \in Seq(TS!Lines) /\ TS!InOrder(v2) /\ TS!Together(v2)
      /\ \A k \in DOMAIN v2 : v2[k] \in TS!Lines
      /\ \A g, h \in DOMAIN v2 :
           v2[g].t = "result" /\ v2[h].t = "result" /\ v2[g].c = v2[h].c => g = h
      /\ TS!Shown \subseteq DOMAIN v2
  BY RowsAreLines, RowsTogether, LineTypes DEF TS!Shown
<1>1. ASSUME NEW i \in TS!Shown, v2[i].t = "text"
      PROVE  TS!BlockOf(i).id = <<v2[i].m, v2[i].n>>
  BY <1>1, CountedInPlace DEF TS!BlockOf, TS!Blocks
<1>2. ASSUME NEW g \in TS!Shown, NEW h \in TS!Shown, v2[g].t = v2[h].t,
             TS!BlockOf(g).id = TS!BlockOf(h).id
      PROVE  g = h
  <2>1. g \in DOMAIN v2 /\ h \in DOMAIN v2 /\ v2[g].u # 0 /\ v2[h].u # 0
        /\ v2[g].t \in {"prompt", "text", "call", "result"}
    BY <1>0, LineFacts DEF TS!Shown
  <2>2. CASE v2[g].t = "text"
    <3>1. <<v2[g].m, v2[g].n>> = <<v2[h].m, v2[h].n>>
      BY <1>1, <1>2, <2>2
    <3>2. v2[g].m = v2[h].m /\ v2[g].n = v2[h].n /\ v2[g].t \in TS!Blocks /\ v2[h].t \in TS!Blocks
      BY <1>2, <2>2, <3>1 DEF TS!Blocks
    <3> QED
      BY <1>0, <2>1, <3>2, PlacesDiffer
  <2>3. CASE v2[g].t = "prompt"
    <3>1. v2[g].u = v2[h].u
      BY <1>2, <2>3 DEF TS!BlockOf
    <3> QED
      BY <1>0, <2>1, <3>1, OrderFacts
  <2>4. CASE v2[g].t \in {"call", "result"}
    <3>1. v2[g].c = v2[h].c
      BY <1>2, <2>4 DEF TS!BlockOf
    <3>2. CASE v2[g].t = "call"
      <4>1. v2[g].u = v2[h].u
        BY <1>0, <1>2, <2>1, <3>1, <3>2, LineFacts
      <4> QED
        BY <1>0, <2>1, <4>1, OrderFacts
    <3> QED
      BY <1>0, <1>2, <2>1, <2>4, <3>1, <3>2
  <2> QED
    BY <2>1, <2>2, <2>3, <2>4
<1>3. ASSUME NEW b \in TS!RenderTranscript, NEW d \in TS!RenderTranscript, b.k = d.k, b.id = d.id
      PROVE  b = d
  <2>1. PICK g \in TS!Shown : b = TS!BlockOf(g)
    BY DEF TS!RenderTranscript
  <2>2. PICK h \in TS!Shown : d = TS!BlockOf(h)
    BY DEF TS!RenderTranscript
  <2>3. v2[g].t = v2[h].t
    BY <1>3, <2>1, <2>2 DEF TS!BlockOf
  <2> QED
    BY <1>2, <1>3, <2>1, <2>2, <2>3
<1> QED
  BY <1>1, <1>3 DEF TS!IdsAreStable

(* The call of an id is one, and the first of that id.                     *)
LEMMA CallIsOne ==
  ASSUME TS!InductiveInv, NEW i \in TS!Shown, v2[i].t = "call"
  PROVE  /\ TS!IsCallOf(i, v2[i].c)
         /\ \A h : TS!IsCallOf(h, v2[i].c) => h = i
         /\ (\E h \in TS!Shown : TS!IsCallOf(h, v2[i].c))
         /\ (CHOOSE h \in TS!Shown : TS!IsCallOf(h, v2[i].c)) = i
<1>0. /\ v2 \in Seq(TS!Lines) /\ TS!InOrder(v2) /\ DOMAIN v2 \subseteq Nat
      /\ \A k \in DOMAIN v2 : v2[k] \in TS!Lines
      /\ TS!Shown \subseteq DOMAIN v2
  BY RowsAreLines, LineTypes DEF TS!Shown
<1>1. ASSUME NEW h \in TS!Shown, v2[h].t = "call", v2[h].c = v2[i].c
      PROVE  h = i
  <2>1. v2[h].u = v2[i].u /\ v2[i].u # 0
    BY <1>0, <1>1, LineFacts
  <2> QED
    BY <1>0, <2>1, OrderFacts
<1>2. TS!IsCallOf(i, v2[i].c)
  BY <1>0, <1>1 DEF TS!IsCallOf
<1>3. \A h : TS!IsCallOf(h, v2[i].c) => h = i
  BY <1>1 DEF TS!IsCallOf
<1> QED
  BY <1>2, <1>3

(* What a block of a snapshot is, and where it stands.                     *)
LEMMA BlockKinds ==
  ASSUME TS!InductiveInv, NEW terminal \in BOOLEAN, NEW b \in TS!Snapshot(terminal)
  PROVE  \/ \E i \in TS!Shown : b = TS!BlockOf(i) /\ b.k = v2[i].t /\ b.at = <<i, 0>>
         \/ \E c \in Tasks : b.k = "subagent" /\ b.at = TS!PlaceOf(c) /\ b.id = <<c, 0>>
         \/ \E i \in TS!Shown :
              /\ terminal /\ TS!IsCallOf(i, v2[i].c) /\ v2[i].c \notin TS!ResultsOf(v2)
              /\ b = [k |-> "interrupted", at |-> <<i, 1>>, id |-> <<v2[i].c, 0>>]
<1>1. CASE b \in TS!RenderTranscript
  <2>1. PICK i \in TS!Shown : b = TS!BlockOf(i)
    BY <1>1 DEF TS!RenderTranscript
  <2> QED
    BY <2>1 DEF TS!BlockOf
<1>2. CASE b \in TS!AttachSubagents
  <2>1. PICK c \in Tasks : b = [k |-> "subagent", at |-> TS!PlaceOf(c), id |-> <<c, 0>>]
    BY <1>2 DEF TS!AttachSubagents
  <2>2. b.k = "subagent" /\ b.at = TS!PlaceOf(c) /\ b.id = <<c, 0>>
    BY <2>1
  <2> QED
    BY <2>2
<1>3. CASE terminal /\ b \in TS!SynthesizeInterrupted
  BY <1>3 DEF TS!SynthesizeInterrupted
<1> QED
  BY <1>1, <1>2, <1>3 DEF TS!Snapshot

(* The outcomes of a call, by where they stand.                            *)
LEMMA OutcomeKinds ==
  ASSUME TS!InductiveInv, NEW terminal \in BOOLEAN, NEW i \in TS!Shown, v2[i].t = "call",
         NEW o \in TS!Snapshot(terminal), o.k \in {"result", "interrupted"},
         o.id = <<v2[i].c, 0>>
  PROVE  \/ \E j \in TS!Shown : /\ o = TS!BlockOf(j) /\ o.k = "result" /\ o.at = <<j, 0>>
                                /\ v2[j].t = "result" /\ v2[j].c = v2[i].c /\ i < j
         \/ /\ o.k = "interrupted" /\ o.at = <<i, 1>> /\ terminal
            /\ v2[i].c \notin TS!ResultsOf(v2)
<1>0. /\ v2 \in Seq(TS!Lines) /\ TS!InOrder(v2) /\ DOMAIN v2 \subseteq Nat
      /\ \A k \in DOMAIN v2 : v2[k] \in TS!Lines
      /\ TS!Shown \subseteq DOMAIN v2
  BY RowsAreLines, LineTypes DEF TS!Shown
<1>1. ASSUME NEW j \in TS!Shown, o = TS!BlockOf(j), o.k = v2[j].t, o.at = <<j, 0>>
      PROVE  o.k = "result" /\ v2[j].t = "result" /\ v2[j].c = v2[i].c /\ i < j
  <2>1. v2[j].t = "result"
    BY <1>0, <1>1, LineFacts
  <2>2. TS!BlockOf(j).id = <<v2[j].c, 0>>
    BY <2>1 DEF TS!BlockOf
  <2>3. v2[j].c = v2[i].c
    BY <1>1, <2>2
  <2>4. v2[i].u < v2[j].u /\ v2[i].u # 0 /\ v2[j].u # 0
    BY <1>0, <2>1, <2>3, LineFacts
  <2> QED
    BY <1>0, <1>1, <2>1, <2>3, <2>4, OrderFacts
<1>2. ASSUME NEW j \in TS!Shown, terminal, TS!IsCallOf(j, v2[j].c),
             v2[j].c \notin TS!ResultsOf(v2),
             o = [k |-> "interrupted", at |-> <<j, 1>>, id |-> <<v2[j].c, 0>>]
      PROVE  o.k = "interrupted" /\ o.at = <<i, 1>> /\ v2[i].c \notin TS!ResultsOf(v2)
  <2>1. o.id = <<v2[j].c, 0>> /\ o.k = "interrupted" /\ o.at = <<j, 1>>
    BY <1>2
  <2>2. v2[j].c = v2[i].c
    BY <2>1
  <2>3. j = i
    BY <1>2, <2>2, CallIsOne
  <2> QED
    BY <1>2, <2>1, <2>3
<1> QED
  BY <1>1, <1>2, BlockKinds

(* Where a subagent whose call is known and shown stands: right behind it. *)
LEMMA SubagentPlace ==
  ASSUME TS!InductiveInv, NEW i \in TS!Shown, v2[i].t = "call", TS!ParentIsKnown(v2[i].c)
  PROVE  TS!PlaceOf(v2[i].c) = <<i, 2>>
  BY CallIsOne DEF TS!PlaceOf

(* Only a halt stands at the second place of a line.                       *)
LEMMA SecondPlace ==
  ASSUME TS!InductiveInv, NEW terminal \in BOOLEAN, NEW d \in TS!Snapshot(terminal)
  PROVE  /\ d.at[1] \in Nat /\ d.at[2] \in {0, 1, 2}
         /\ d.at[2] = 1 => d.k = "interrupted"
<1>0. DOMAIN v2 \subseteq Nat /\ Len(v2) \in Nat /\ TS!Shown \subseteq Nat
  BY RowsAreLines, LineTypes DEF TS!Shown
<1>1. ASSUME NEW c \in Tasks, d.at = TS!PlaceOf(c)
      PROVE  d.at[1] \in Nat /\ d.at[2] \in {0, 2}
  <2>1. CASE TS!ParentIsKnown(c) /\ \E h \in TS!Shown : TS!IsCallOf(h, c)
    <3>1. PICK h \in TS!Shown : h = CHOOSE g \in TS!Shown : TS!IsCallOf(g, c)
      BY <2>1
    <3>2. d.at = <<h, 2>>
      BY <1>1, <2>1, <3>1 DEF TS!PlaceOf
    <3> QED
      BY <1>0, <3>2
  <2>2. CASE ~(TS!ParentIsKnown(c) /\ \E h \in TS!Shown : TS!IsCallOf(h, c))
    <3>1. d.at = <<Len(v2) + 1, 0>>
      BY <1>1, <2>2 DEF TS!PlaceOf
    <3> QED
      BY <1>0, <3>1
  <2> QED
    BY <2>1, <2>2
<1> QED
  BY <1>0, <1>1, BlockKinds

(* A call of a snapshot has one outcome, after it, and what its subagent   *)
(* did comes between.                                                      *)
LEMMA OutcomeIsOne ==
  ASSUME TS!InductiveInv
  PROVE  TS!EveryCallHasOneOutcome
<1> SUFFICES ASSUME NEW terminal \in BOOLEAN, NEW b \in TS!Snapshot(terminal), b.k = "call"
             PROVE  LET bs == TS!Snapshot(terminal)
                        Outcomes == {o \in bs : o.k \in {"result", "interrupted"} /\ o.id = b.id} IN
                    /\ \A o, p \in Outcomes : o = p
                    /\ terminal => Outcomes # {}
                    /\ \A o \in Outcomes :
                         /\ TS!Before(b, o)
                         /\ o.k = "interrupted" =>
                              /\ terminal /\ b.id[1] \notin TS!ResultsOf(v2)
                              /\ \A d \in bs : ~(TS!Before(b, d) /\ TS!Before(d, o))
                    /\ \A a \in bs : a.k = "subagent" /\ a.id = b.id /\ TS!ParentIsKnown(b.id[1]) =>
                         /\ TS!Before(b, a)
                         /\ \A d \in bs : TS!Before(b, d) /\ TS!Before(d, a) => d.k = "interrupted"
  BY DEF TS!EveryCallHasOneOutcome
<1> DEFINE bs == TS!Snapshot(terminal)
           Outcomes == {o \in bs : o.k \in {"result", "interrupted"} /\ o.id = b.id}
<1>0. /\ DOMAIN v2 \subseteq Nat /\ TS!Shown \subseteq Nat /\ TS!Shown \subseteq DOMAIN v2
      /\ \A g, h \in DOMAIN v2 :
           v2[g].t = "result" /\ v2[h].t = "result" /\ v2[g].c = v2[h].c => g = h
  BY RowsAreLines, LineTypes DEF TS!Shown
<1>1. PICK i \in TS!Shown : b = TS!BlockOf(i) /\ v2[i].t = "call" /\ b.at = <<i, 0>>
  BY BlockKinds
<1>2. b.id = <<v2[i].c, 0>> /\ b.id[1] = v2[i].c
  BY <1>1 DEF TS!BlockOf
<1>3. ASSUME NEW o \in Outcomes
      PROVE  \/ \E j \in TS!Shown : /\ o = TS!BlockOf(j) /\ o.k = "result" /\ o.at = <<j, 0>>
                                    /\ v2[j].t = "result" /\ v2[j].c = v2[i].c /\ i < j
             \/ /\ o.k = "interrupted" /\ o.at = <<i, 1>> /\ terminal
                /\ v2[i].c \notin TS!ResultsOf(v2)
  <2>1. o \in bs /\ o.k \in {"result", "interrupted"} /\ o.id = <<v2[i].c, 0>>
    BY <1>2, <1>3
  <2> HIDE DEF Outcomes
  <2> QED
    BY <1>1, <2>1, OutcomeKinds
<1>4. \A j \in TS!Shown : v2[j].t = "result" => v2[j].c \in TS!ResultsOf(v2)
  BY <1>0 DEF TS!ResultsOf
<1>5. ASSUME NEW o \in Outcomes, NEW p \in Outcomes PROVE o = p
  <2>1. CASE o.k = "result"
    <3>1. PICK j \in TS!Shown : o = TS!BlockOf(j) /\ v2[j].t = "result" /\ v2[j].c = v2[i].c
      BY <1>3, <2>1
    <3>2. PICK h \in TS!Shown : p = TS!BlockOf(h) /\ v2[h].t = "result" /\ v2[h].c = v2[i].c
      BY <1>3, <1>4, <3>1
    <3> QED
      BY <1>0, <3>1, <3>2
  <2>2. CASE o.k = "interrupted"
    <3>1. v2[i].c \notin TS!ResultsOf(v2)
      BY <1>3, <2>2
    <3>2. p.k = "interrupted"
      BY <1>3, <1>4, <3>1
    <3>3. ASSUME NEW q \in Outcomes, q.k = "interrupted"
          PROVE  q = [k |-> "interrupted", at |-> <<i, 1>>, id |-> <<v2[i].c, 0>>]
      <4>1. q \in bs /\ q.id = <<v2[i].c, 0>>
        BY <1>2
      <4>2. PICK j \in TS!Shown :
              /\ TS!IsCallOf(j, v2[j].c)
              /\ q = [k |-> "interrupted", at |-> <<j, 1>>, id |-> <<v2[j].c, 0>>]
        <5>1. ~ \E j \in TS!Shown : q.k = v2[j].t
          BY <1>0, <3>3, RowsAreLines, LineTypes, LineFacts
        <5> HIDE DEF Outcomes
        <5> QED
          BY <3>3, <4>1, <5>1, BlockKinds
      <4>3. v2[j].c = v2[i].c
        BY <4>1, <4>2
      <4>4. j = i
        BY <1>1, <4>2, <4>3, CallIsOne
      <4> QED
        BY <4>2, <4>4
    <3> QED
      BY <2>2, <3>2, <3>3
  <2> QED
    BY <2>1, <2>2
<1>6. ASSUME terminal PROVE Outcomes # {}
  <2>1. CASE v2[i].c \in TS!ResultsOf(v2)
    <3>1. PICK j \in DOMAIN v2 : v2[j].t = "result" /\ v2[j].c = v2[i].c
      BY <2>1 DEF TS!ResultsOf
    <3>2. j \in TS!Shown
      BY <3>1 DEF TS!Shown
    <3>3. TS!BlockOf(j) \in bs
      BY <3>2 DEF TS!Snapshot, TS!RenderTranscript
    <3>4. TS!BlockOf(j).k = "result" /\ TS!BlockOf(j).id = <<v2[j].c, 0>>
      BY <3>1 DEF TS!BlockOf
    <3>5. TS!BlockOf(j) \in Outcomes
      BY <1>2, <3>1, <3>3, <3>4
    <3> QED
      BY <3>5
  <2>2. CASE v2[i].c \notin TS!ResultsOf(v2)
    <3> DEFINE o == [k |-> "interrupted", at |-> <<i, 1>>, id |-> <<v2[i].c, 0>>]
    <3>1. TS!IsCallOf(i, v2[i].c)
      BY <1>1, CallIsOne
    <3>2. o \in TS!SynthesizeInterrupted
      BY <2>2, <3>1 DEF TS!SynthesizeInterrupted
    <3>3. o \in bs
      BY <1>6, <3>2 DEF TS!Snapshot
    <3>4. o \in Outcomes
      BY <1>2, <3>3
    <3> QED
      BY <3>4
  <2> QED
    BY <2>1, <2>2
<1>7. ASSUME NEW o \in Outcomes PROVE TS!Before(b, o)
  BY <1>0, <1>1, <1>3 DEF TS!Before
<1>8. ASSUME NEW o \in Outcomes, o.k = "interrupted"
      PROVE  /\ terminal /\ b.id[1] \notin TS!ResultsOf(v2)
             /\ \A d \in bs : ~(TS!Before(b, d) /\ TS!Before(d, o))
  <2>1. o.at = <<i, 1>> /\ terminal /\ v2[i].c \notin TS!ResultsOf(v2)
    BY <1>3, <1>8
  <2>2. ASSUME NEW d \in bs, TS!Before(b, d), TS!Before(d, o) PROVE FALSE
    <3>1. d.at[1] \in Nat /\ d.at[2] \in {0, 1, 2}
      BY SecondPlace
    <3> QED
      BY <1>0, <1>1, <2>1, <2>2, <3>1 DEF TS!Before
  <2> QED
    BY <1>2, <2>1, <2>2
<1>9. ASSUME NEW a \in bs, a.k = "subagent", a.id = b.id, TS!ParentIsKnown(b.id[1])
      PROVE  /\ TS!Before(b, a)
             /\ \A d \in bs : TS!Before(b, d) /\ TS!Before(d, a) => d.k = "interrupted"
  <2>1. PICK c \in Tasks : a.at = TS!PlaceOf(c) /\ a.id = <<c, 0>>
    <3>1. ~ \E j \in TS!Shown : a.k = v2[j].t
      BY <1>0, <1>9, RowsAreLines, LineTypes, LineFacts
    <3> QED
      BY <1>9, <3>1, BlockKinds
  <2>2. a.at = <<i, 2>>
    BY <1>1, <1>2, <1>9, <2>1, SubagentPlace
  <2>3. TS!Before(b, a)
    BY <1>1, <2>2 DEF TS!Before
  <2>4. ASSUME NEW d \in bs, TS!Before(b, d), TS!Before(d, a) PROVE d.k = "interrupted"
    <3>1. d.at[1] \in Nat /\ d.at[2] \in {0, 1, 2} /\ (d.at[2] = 1 => d.k = "interrupted")
      BY SecondPlace
    <3> QED
      BY <1>0, <1>1, <2>2, <2>4, <3>1 DEF TS!Before
  <2> QED
    BY <2>3, <2>4
<1> QED
  BY <1>5, <1>6, <1>7, <1>8, <1>9

(* session-store.ts, transcript-render.ts: whatever appends fail or are    *)
(* repeated, processes end and sessions are deleted, the store has of the  *)
(* lines with a uuid a gapless run in the order they were written, and a   *)
(* snapshot of it shows each call with one outcome and each block under    *)
(* the id it was streamed with.                                            *)
THEOREM MirrorStaysTrue == ASSUME StoreAssumptions PROVE Spec => []MirrorIsTrue
<1> DEFINE Inv == part = "store" => TS!InductiveInv
<1>1. Init => Inv
  BY StoreStarts DEF Init
<1>2. Inv /\ [Next]_vars => Inv'
  BY PartStays, StoreSteps, StoreKeeps
<1>3. Inv => MirrorIsTrue
  BY OutcomeIsOne, IdsStable
     DEF MirrorIsTrue, TS!StoreIsRun, TS!InductiveInv, TS!Mirrors
<1> QED
  BY <1>1, <1>2, <1>3, PTL DEF Spec

=============================================================================
