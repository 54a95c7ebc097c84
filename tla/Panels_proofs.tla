------------------------------ MODULE Panels_proofs ------------------------------
(***************************************************************************)
(* Theorems about the client's panels, stores and composer of MC_Services, *)
(* laid out as in Services_proofs: a section for each part, whose          *)
(* inductive invariant is defined with the component, in the names of its  *)
(* variables; a comment names the v1, v2, ... that stand for them.         *)
(***************************************************************************)
EXTENDS Services_proofs

USE DEF InGit, InStore, InUsers, InFiles, InLimit, InRail, InDock, InPanel, InComp,
        InList, InGate, InModels, InBrowse, InUpload, InCreds, InSlash, InForms,
        InStarts

(* The last element of a queue that is in Some is in Good; if none is,     *)
(* here holds.                                                             *)
EndsWith(q, Some, Good, here) ==
  IF \E i \in DOMAIN q : q[i] \in Some
  THEN \E i \in DOMAIN q : /\ q[i] \in Some \cap Good
                           /\ \A j \in DOMAIN q : j > i => q[j] \notin Some
  ELSE here

LEMMA EndsAppended ==
  ASSUME NEW S, NEW q \in Seq(S), NEW e \in S, NEW Some, NEW Good, NEW here,
         IF e \in Some THEN e \in Good ELSE EndsWith(q, Some, Good, here)
  PROVE  EndsWith(Append(q, e), Some, Good, here)
<1> DEFINE a == Append(q, e)
<1>1. /\ DOMAIN a = 1..(Len(q) + 1) /\ a[Len(q) + 1] = e
      /\ \A i \in DOMAIN q : a[i] = q[i] /\ i \in DOMAIN a
      /\ DOMAIN q = 1..Len(q) /\ Len(q) \in Nat
  <2>1. a \in Seq(S) /\ Len(a) = Len(q) + 1
    BY AppendProperties
  <2>2. DOMAIN a = 1..(Len(q) + 1) /\ DOMAIN q = 1..Len(q) /\ Len(q) \in Nat
    BY <2>1, SeqElements
  <2> QED
    BY <2>2, AppendProperties
<1>2. \A i \in DOMAIN a : i \in DOMAIN q \/ i = Len(q) + 1
  BY <1>1
<1>3. Len(q) + 1 \in DOMAIN a /\ ~\E j \in DOMAIN a : j > Len(q) + 1
  BY <1>1
<1> HIDE DEF a
<1>4. CASE e \in Some
  BY <1>1, <1>3, <1>4 DEF EndsWith, a
<1>5. CASE e \notin Some
  BY <1>1, <1>2, <1>5 DEF EndsWith, a
<1> QED
  BY <1>4, <1>5

LEMMA EndsTail ==
  ASSUME NEW S, NEW q \in Seq(S), q # <<>>, NEW Some, NEW Good, NEW here,
         EndsWith(q, Some, Good, here)
  PROVE  EndsWith(Tail(q), Some, Good, IF Head(q) \in Some THEN Head(q) \in Good ELSE here)
<1> DEFINE t == Tail(q)
<1>1. /\ DOMAIN t = 1..(Len(q) - 1) /\ DOMAIN q = 1..Len(q) /\ Len(q) \in Nat \ {0}
      /\ \A i \in DOMAIN t : t[i] = q[i + 1] /\ i + 1 \in DOMAIN q /\ i \in Nat
      /\ Head(q) = q[1]
  <2>1. /\ t \in Seq(S) /\ Len(t) = Len(q) - 1 /\ Head(q) = q[1]
        /\ \A i \in 1..Len(t) : t[i] = q[i + 1]
    BY HeadTailProperties
  <2>2. DOMAIN t = 1..Len(t) /\ DOMAIN q = 1..Len(q) /\ Len(q) \in Nat /\ Len(q) # 0
    BY <2>1, SeqElements, EmptySeq
  <2> QED
    BY <2>1, <2>2
<1>2. \A j \in DOMAIN q : j # 1 => j - 1 \in DOMAIN t /\ t[j - 1] = q[j] /\ j \in Nat
  BY <1>1
<1>3. \A j \in DOMAIN q : j \in Nat /\ j >= 1
  BY <1>1
<1> HIDE DEF t
<1>4. CASE ~\E i \in DOMAIN q : q[i] \in Some
  <2>1. ~\E i \in DOMAIN t : t[i] \in Some
    BY <1>1, <1>4
  <2>2. Head(q) \notin Some
    BY <1>1, <1>4
  <2> QED
    BY <1>4, <2>1, <2>2 DEF EndsWith, t
<1>5. ASSUME NEW i \in DOMAIN q, q[i] \in Some \cap Good,
             \A j \in DOMAIN q : j > i => q[j] \notin Some
      PROVE  EndsWith(t, Some, Good, IF Head(q) \in Some THEN Head(q) \in Good ELSE here)
  <2>1. CASE i = 1
    <3>1. ~\E j \in DOMAIN t : t[j] \in Some
      <4>1. ASSUME NEW j \in DOMAIN t PROVE t[j] \notin Some
        BY <1>1, <1>5, <2>1
      <4> QED
        BY <4>1
    <3> QED
      BY <1>1, <1>5, <2>1, <3>1 DEF EndsWith
  <2>2. CASE i # 1
    <3>1. i - 1 \in DOMAIN t /\ t[i - 1] \in Some \cap Good
      BY <1>2, <1>5, <2>2
    <3>2. ASSUME NEW j \in DOMAIN t, j > i - 1 PROVE t[j] \notin Some
      <4>1. j + 1 \in DOMAIN q /\ t[j] = q[j + 1] /\ j + 1 > i
        BY <1>1, <1>3, <3>2
      <4> QED
        BY <1>5, <4>1
    <3> QED
      BY <3>1, <3>2 DEF EndsWith
  <2> QED
    BY <2>1, <2>2
<1> QED
  BY <1>4, <1>5 DEF EndsWith, t

LEMMA EndsNone ==
  ASSUME NEW Some, NEW Good, NEW here, EndsWith(<<>>, Some, Good, here)
  PROVE  here
  BY DEF EndsWith

(* If the last answer of Some leaves something true, and here implies      *)
(* there, so does it with weaker demands.                                  *)
LEMMA EndsWeaken ==
  ASSUME NEW q, NEW Some, NEW Good, NEW Fair, NEW here, NEW there,
         EndsWith(q, Some, Good, here), here => there,
         \A i \in DOMAIN q : q[i] \in Some \cap Good => q[i] \in Fair
  PROVE  EndsWith(q, Some, Fair, there)
  BY DEF EndsWith

-----------------------------------------------------------------------------
(* The file editor: v1 disk, v2 openFile, v3 pending, v4 dirty, v5 ed,     *)
(* v6 write, v7 page, v8 kept, v9 version, v10 moves, v11 faults.          *)

EditorAssumptions == None \notin Files /\ "close" \notin Files /\ None # "close"
                     /\ MaxVersion \in Nat

LEMMA EditorSteps ==
  ASSUME part = "files", [Next]_vars
  PROVE  FE!Next \/ UNCHANGED FE!editorVars
  BY DEF Next, vars, FE!Next, FE!editorVars, FE!storeFields, FE!bounds

LEMMA EditorInit == ASSUME EditorAssumptions, FE!Init PROVE FE!InductiveInv
<1>1. FE!Shapes
  BY DEF FE!Init, FE!Shapes, FE!Unmounted, FE!NoWrite
<1> QED
  BY <1>1 DEF FE!Init, FE!InductiveInv, FE!SavedWasOnDisk, FE!Dirty, FE!Unmounted, FE!NoWrite

(* A body that mounts or unmounts hears of no save made before.            *)
LEMMA EditorRemounts ==
  ASSUME EditorAssumptions, FE!InductiveInv, NEW f \in Files \cup {None},
         NEW body \in {FE!Unmounted, FE!Mounted}, FE!Remounts(f, body),
         v1' = v1, v9' = v9, v3' \in Files \cup {None, "close"}
  PROVE  FE!InductiveInv'
<1>1. /\ v2' = f /\ v4' = FALSE /\ v8' = {}
      /\ v5' \in {FE!Unmounted, FE!Mounted} /\ (f = None => v5' = FE!Unmounted)
      /\ v6' = [s \in Saves |-> [v6[s] EXCEPT !.mine = FALSE]]
  BY DEF FE!Remounts
<1>2. /\ v5' \in [st : {"none", "loading", "read", "ready", "error"}, value : Nat,
                  original : Nat, got : Nat, saving : BOOLEAN]
      /\ v5'.st \in {"none", "loading"} /\ (f = None => v5'.st = "none")
  <2>1. /\ FE!Unmounted \in [st : {"none", "loading", "read", "ready", "error"}, value : Nat,
                             original : Nat, got : Nat, saving : BOOLEAN]
        /\ FE!Unmounted.st = "none"
    BY DEF FE!Unmounted
  <2>2. /\ FE!Mounted \in [st : {"none", "loading", "read", "ready", "error"}, value : Nat,
                           original : Nat, got : Nat, saving : BOOLEAN]
        /\ FE!Mounted.st = "loading"
    BY <2>1 DEF FE!Mounted
  <2> QED
    BY <1>1, <2>1, <2>2
<1>3. ASSUME NEW s \in Saves
      PROVE  /\ v6'[s] \in [st : {"no", "sent", "written", "failed"}, f : Files \cup {None},
                            v : Nat, mine : BOOLEAN]
             /\ ~v6'[s].mine /\ v6'[s].st = v6[s].st /\ v6'[s].f = v6[s].f
  BY <1>1 DEF FE!InductiveInv, FE!Shapes
<1>4. v6' \in [Saves -> [st : {"no", "sent", "written", "failed"}, f : Files \cup {None},
                         v : Nat, mine : BOOLEAN]]
  BY <1>1, <1>3
<1>5. FE!Shapes'
  BY <1>1, <1>2, <1>3, <1>4 DEF FE!InductiveInv, FE!Shapes
<1>6. FE!SavedWasOnDisk'
  BY <1>1, <1>2, <1>3 DEF FE!SavedWasOnDisk, FE!Dirty
<1> QED
  BY <1>5, <1>6 DEF FE!InductiveInv

(* A step that leaves the editor and its saves alone.                      *)
LEMMA EditorStays ==
  ASSUME FE!InductiveInv, FE!Stays, v1' \in [Files -> Nat], v9' \in Nat,
         v3' \in Files \cup {None, "close"}
  PROVE  FE!InductiveInv'
<1>1. UNCHANGED <<v2, v4, v5, v6, v8>>
  BY DEF FE!Stays
<1>2. FE!Shapes'
  BY <1>1 DEF FE!InductiveInv, FE!Shapes
<1> QED
  BY <1>1, <1>2 DEF FE!InductiveInv, FE!SavedWasOnDisk, FE!Dirty

LEMMA EditorShows ==
  ASSUME EditorAssumptions, FE!InductiveInv, NEW f \in Files \cup {None}, FE!Shows(f),
         v1' = v1, v9' = v9, v3' \in Files \cup {None, "close"}
  PROVE  FE!InductiveInv'
<1>1. v1' \in [Files -> Nat] /\ v9' \in Nat
  BY DEF FE!InductiveInv, FE!Shapes
<1> QED
  BY <1>1, EditorRemounts, EditorStays DEF FE!Shows

(* A step of the body: the store is told whether the buffer is dirty.      *)
LEMMA BodyChanges ==
  ASSUME FE!InductiveInv,
         NEW e \in [st : {"none", "loading", "read", "ready", "error"}, value : Nat,
                    original : Nat, got : Nat, saving : BOOLEAN],
         v5' = e, v4' = FE!Dirty(e), e.st # "none" => v5.st # "none",
         UNCHANGED <<v1, v2, v3>>, v9' \in Nat, v8 \subseteq v8',
         e.st = "ready" => e.original \in v8',
         v6' \in [Saves -> [st : {"no", "sent", "written", "failed"}, f : Files \cup {None},
                            v : Nat, mine : BOOLEAN]],
         \A s \in Saves : /\ v6'[s].st = "sent" => v6'[s].f \in Files
                          /\ v6'[s].mine /\ v6'[s].st = "written" => v6'[s].v \in v8'
  PROVE  FE!InductiveInv'
<1>1. FE!Shapes'
  BY DEF FE!InductiveInv, FE!Shapes
<1>2. FE!SavedWasOnDisk'
  BY DEF FE!SavedWasOnDisk, FE!Dirty
<1> QED
  BY <1>1, <1>2 DEF FE!InductiveInv

LEMMA EditorNext ==
  ASSUME EditorAssumptions, FE!InductiveInv, FE!Next \/ UNCHANGED FE!editorVars
  PROVE  FE!InductiveInv'
<1> DEFINE Bodies == [st : {"none", "loading", "read", "ready", "error"}, value : Nat,
                      original : Nat, got : Nat, saving : BOOLEAN]
           Puts_ == [st : {"no", "sent", "written", "failed"}, f : Files \cup {None},
                      v : Nat, mine : BOOLEAN]
<1>0. /\ v1 \in [Files -> Nat] /\ v9 \in Nat
      /\ v2 \in Files \cup {None} /\ v3 \in Files \cup {None, "close"}
      /\ v5 \in Bodies /\ (v5.st # "none" => v2 \in Files)
      /\ v6 \in [Saves -> Puts_]
      /\ \A s \in Saves : /\ v6[s].st = "sent" => v6[s].f \in Files
                          /\ v6[s].mine /\ v6[s].st = "written" => v6[s].v \in v8
      /\ v4 = FE!Dirty(v5) /\ (v5.st = "ready" => v5.original \in v8)
  BY DEF FE!InductiveInv, FE!Shapes, FE!SavedWasOnDisk
<1>1. CASE \E f \in Files : FE!Open(f)
  <2>1. PICK f \in Files : FE!Open(f)
    BY <1>1
  <2>2. UNCHANGED <<v1, v9>> /\ ((v3' = f /\ FE!Stays) \/ (v3' = None /\ FE!Shows(f)))
    BY <2>1 DEF FE!Open, FE!bounds
  <2> QED
    BY <1>0, <2>2, EditorStays, EditorShows
<1>2. CASE FE!Close
  <2>1. UNCHANGED <<v1, v9>> /\ ((v3' = "close" /\ FE!Stays) \/ (v3' = None /\ FE!Shows(None)))
    BY <1>2 DEF FE!Close, FE!CloseFile, FE!bounds
  <2> QED
    BY <1>0, <2>1, EditorStays, EditorShows
<1>3. CASE FE!ConfirmPending
  <2>1. PICK f \in Files \cup {None} : FE!Shows(f) /\ v3' = None /\ UNCHANGED <<v1, v9>>
    BY <1>0, <1>3 DEF FE!ConfirmPending, FE!bounds
  <2> QED
    BY <1>0, <2>1, EditorShows
<1>4. CASE FE!CancelPending
  <2>1. FE!Stays /\ v3' = None /\ UNCHANGED <<v1, v9>>
    BY <1>4 DEF FE!CancelPending, FE!Stays, FE!bounds
  <2> QED
    BY <1>0, <2>1, EditorStays
<1>5. CASE FE!ReadFile
  <2> DEFINE e == [v5 EXCEPT !.st = "read", !.got = v1[v2]]
  <2>1. v5.st = "loading" /\ v5' = e /\ UNCHANGED <<v1, v2, v3, v4, v6, v8, v9>>
    BY <1>5 DEF FE!ReadFile, FE!storeFields, FE!bounds
  <2>2. v1[v2] \in Nat /\ ~v4
    BY <1>0, <2>1 DEF FE!Dirty
  <2>3. e \in Bodies /\ e.st = "read"
    BY <1>0, <2>2
  <2> HIDE DEF e
  <2>4. FE!Dirty(e) = FALSE
    BY <2>3 DEF FE!Dirty
  <2>5. v4' = FE!Dirty(e)
    BY <1>0, <2>1, <2>2, <2>4 DEF FE!Dirty
  <2> QED
    BY <1>0, <2>1, <2>3, <2>5, BodyChanges
<1>6. CASE FE!ReadArrives
  <2>1. UNCHANGED <<v1, v2, v3, v6, v9>>
    BY <1>6 DEF FE!ReadArrives, FE!storeFields
  <2>2. CASE /\ v5.st = "read" /\ v8' = v8 \cup {v5.got}
             /\ FE!Becomes([v5 EXCEPT !.st = "ready", !.value = v5.got, !.original = v5.got])
    <3> DEFINE e == [v5 EXCEPT !.st = "ready", !.value = v5.got, !.original = v5.got]
    <3>1. e \in Bodies /\ e.original = v5.got
      BY <1>0
    <3>2. v5' = e /\ v4' = FE!Dirty(e)
      BY <2>2 DEF FE!Becomes
    <3> HIDE DEF e
    <3> QED
      BY <1>0, <2>1, <2>2, <3>1, <3>2, BodyChanges
  <2>3. CASE /\ v5.st \in {"loading", "read"} /\ v8' = v8
             /\ FE!Becomes([v5 EXCEPT !.st = "error"])
    <3> DEFINE e == [v5 EXCEPT !.st = "error"]
    <3>1. e \in Bodies /\ e.st = "error"
      BY <1>0
    <3>2. v5' = e /\ v4' = FE!Dirty(e)
      BY <2>3 DEF FE!Becomes
    <3> HIDE DEF e
    <3> QED
      BY <1>0, <2>1, <2>3, <3>1, <3>2, BodyChanges
  <2> QED
    BY <1>6, <2>2, <2>3 DEF FE!ReadArrives
<1>7. CASE FE!Type
  <2>1. PICK n \in Nat : /\ v5.st = "ready" /\ FE!Becomes([v5 EXCEPT !.value = n])
                         /\ UNCHANGED <<v1, v2, v3, v6, v8>> /\ v9' \in Nat
    <3>1. v5.original \in Nat /\ v9 \in Nat /\ v9 + 1 \in Nat
      BY <1>0
    <3>2. CASE FE!Becomes([v5 EXCEPT !.value = v9 + 1]) /\ v9' = v9 + 1
      BY <1>7, <3>1, <3>2 DEF FE!Type, FE!storeFields
    <3>3. CASE FE!Becomes([v5 EXCEPT !.value = v5.original]) /\ v9' = v9
      BY <1>7, <3>1, <3>3 DEF FE!Type, FE!storeFields
    <3> QED
      BY <1>7, <3>2, <3>3 DEF FE!Type
  <2> DEFINE e == [v5 EXCEPT !.value = n]
  <2>2. e \in Bodies /\ e.original = v5.original /\ e.st = v5.st
    BY <1>0
  <2>3. v5' = e /\ v4' = FE!Dirty(e)
    BY <2>1 DEF FE!Becomes
  <2> HIDE DEF e
  <2> QED
    BY <1>0, <2>1, <2>2, <2>3, BodyChanges
<1>8. ASSUME NEW s \in Saves, FE!Save(s)
      PROVE  FE!InductiveInv'
  <2> DEFINE e == [v5 EXCEPT !.saving = TRUE]
             w == [st |-> "sent", f |-> v2, v |-> v5.value, mine |-> TRUE]
  <2>1. /\ v4 /\ v6' = [v6 EXCEPT ![s] = w] /\ v5' = e /\ v4' = FE!Dirty(e)
        /\ UNCHANGED <<v1, v2, v3, v8, v9>>
    BY <1>8 DEF FE!Save, FE!Becomes, FE!storeFields, FE!bounds
  <2>2. e \in Bodies /\ e.original = v5.original /\ e.st = v5.st
    BY <1>0
  <2>3. v5.st = "ready"
    BY <1>0, <2>1 DEF FE!Dirty
  <2>4. w \in Puts_ /\ w.st = "sent" /\ w.f \in Files
    BY <1>0, <2>3
  <2> HIDE DEF e, w
  <2> QED
    BY <1>0, <2>1, <2>2, <2>3, <2>4, BodyChanges
<1>9. ASSUME NEW s \in Saves, FE!Write(s)
      PROVE  FE!InductiveInv'
  <2>1. v6[s].st = "sent" /\ UNCHANGED <<v2, v3, v4, v5, v9>>
    BY <1>9 DEF FE!Write, FE!storeFields
  <2>2. PICK st \in {"written", "failed"} :
          /\ v6' = [v6 EXCEPT ![s].st = st]
          /\ st = "written" => /\ v1' = [v1 EXCEPT ![v6[s].f] = v6[s].v]
                               /\ v8' = IF v6[s].mine THEN v8 \cup {v6[s].v} ELSE v8
          /\ st = "failed" => UNCHANGED <<v1, v8>>
    BY <1>9 DEF FE!Write
  <2>3. v1' \in [Files -> Nat]
    BY <1>0, <2>2
  <2>4. v8 \subseteq v8' /\ (v6[s].mine /\ st = "written" => v6[s].v \in v8')
    BY <2>2
  <2>5. /\ v6' \in [Saves -> Puts_]
        /\ v6'[s].st = st /\ v6'[s].mine = v6[s].mine /\ v6'[s].v = v6[s].v
        /\ \A x \in Saves \ {s} : v6'[x] = v6[x]
    BY <1>0, <2>2
  <2>6. FE!Shapes'
    BY <1>0, <2>1, <2>3, <2>5 DEF FE!Shapes
  <2>7. FE!SavedWasOnDisk'
    BY <1>0, <2>1, <2>4, <2>5 DEF FE!SavedWasOnDisk, FE!Dirty
  <2> QED
    BY <2>6, <2>7 DEF FE!InductiveInv
<1>10. ASSUME NEW s \in Saves, FE!Saved(s)
       PROVE  FE!InductiveInv'
  <2> DEFINE o == IF v6[s].st = "written" THEN v6[s].v ELSE v5.original
             e == [v5 EXCEPT !.saving = FALSE, !.original = o]
  <2>1. /\ v6[s].st \in {"written", "failed"} /\ v6' = [v6 EXCEPT ![s] = FE!NoWrite]
        /\ UNCHANGED <<v1, v2, v3, v8, v9>>
        /\ \/ ~v6[s].mine /\ UNCHANGED <<v4, v5>>
           \/ v6[s].mine /\ v5' = e /\ v4' = FE!Dirty(e)
    BY <1>10 DEF FE!Saved, FE!Becomes, FE!storeFields, FE!bounds
  <2>2. FE!NoWrite \in Puts_ /\ FE!NoWrite.st = "no"
    BY DEF FE!NoWrite
  <2>3. /\ v6' \in [Saves -> Puts_]
        /\ \A x \in Saves : v6'[x] = v6[x] \/ v6'[x].st = "no"
    BY <1>0, <2>1, <2>2
  <2>4. o \in Nat /\ (v5.st = "ready" /\ v6[s].mine => o \in v8)
    BY <1>0, <2>1
  <2> HIDE DEF o
  <2>5. e \in Bodies /\ e.original = o /\ e.st = v5.st
    BY <1>0, <2>4
  <2> HIDE DEF e
  <2>6. CASE ~v6[s].mine /\ UNCHANGED <<v4, v5>>
    BY <1>0, <2>1, <2>3, <2>6, BodyChanges
  <2>7. CASE v6[s].mine /\ v5' = e /\ v4' = FE!Dirty(e)
    BY <1>0, <2>1, <2>3, <2>4, <2>5, <2>7, BodyChanges
  <2> QED
    BY <2>1, <2>6, <2>7
<1>11. CASE FE!AgentWrites
  <2>1. FE!Stays /\ v3' = v3 /\ v9' = v9 + 1
        /\ \E f \in Files : v1' = [v1 EXCEPT ![f] = v9 + 1]
    BY <1>11 DEF FE!AgentWrites, FE!Stays, FE!storeFields
  <2> QED
    BY <1>0, <2>1, EditorStays
<1>12. ASSUME NEW p \in FE!Pages, FE!Navigate(p)
       PROVE  FE!InductiveInv'
  <2>1. UNCHANGED <<v1, v9>>
    BY <1>12 DEF FE!Navigate
  <2>2. CASE FE!CloseFile
    BY <1>0, <2>1, <2>2, EditorStays, EditorShows DEF FE!CloseFile
  <2>3. CASE FE!Stays /\ v3' = v3
    BY <1>0, <2>1, <2>3, EditorStays
  <2>4. CASE FE!Remounts(None, FE!Unmounted) /\ v3' = None
    BY <1>0, <2>1, <2>4, EditorRemounts
  <2>5. CASE /\ FE!Remounts(v2, FE!Unmounted) \/ FE!Remounts(v2, FE!Mounted)
             /\ v3' = v3
    BY <1>0, <2>1, <2>5, EditorRemounts
  <2> QED
    BY <1>12, <2>2, <2>3, <2>4, <2>5 DEF FE!Navigate
<1>13. CASE UNCHANGED FE!editorVars
  <2>1. FE!Stays /\ UNCHANGED <<v1, v3, v9>>
    BY <1>13 DEF FE!editorVars, FE!Stays, FE!storeFields, FE!bounds
  <2> QED
    BY <1>0, <2>1, EditorStays
<1> QED
  BY <1>1, <1>2, <1>3, <1>4, <1>5, <1>6, <1>7, <1>8, <1>9, <1>10, <1>11, <1>12, <1>13
     DEF FE!Next

(* A buffer that is not on the disk is dirty, and what asks about a dirty  *)
(* buffer keeps it.                                                        *)
LEMMA DirtyIsAsked ==
  ASSUME EditorAssumptions, FE!InductiveInv, FE!Next \/ UNCHANGED FE!editorVars
  PROVE  FE!KeepsEdits
<1> SUFFICES ASSUME v5.value \notin v8, v5.st = "ready", v5'.st # "ready", v3 = None,
                    FE!Branch(v7') = FE!Branch(v7)
             PROVE  FALSE
  BY DEF FE!KeepsEdits, FE!Unsaved, FE!Dropped
<1>1. v4 /\ v2 \in Files /\ v2 # None
      /\ v5 \in [st : {"none", "loading", "read", "ready", "error"}, value : Nat,
                 original : Nat, got : Nat, saving : BOOLEAN]
  BY DEF FE!InductiveInv, FE!SavedWasOnDisk, FE!Shapes, FE!Dirty, EditorAssumptions
<1>2. v5' # v5
  OBVIOUS
<1>3. ~FE!Stays /\ ~FE!CloseFile
  BY <1>1, <1>2 DEF FE!Stays, FE!CloseFile
<1>4. ~(\E f \in Files : FE!Open(f)) /\ ~FE!Close /\ ~FE!ConfirmPending /\ ~FE!CancelPending
  BY <1>1, <1>2, <1>3 DEF FE!Open, FE!Close, FE!ConfirmPending, FE!CancelPending
<1>5. ~FE!ReadFile /\ ~FE!ReadArrives
  BY DEF FE!ReadFile, FE!ReadArrives
<1>6. ~FE!Type
  <2>1. \A n : [v5 EXCEPT !.value = n].st = "ready"
    BY <1>1
  <2> QED
    BY <2>1 DEF FE!Type, FE!Becomes
<1>7. ASSUME NEW s \in Saves
      PROVE  ~FE!Save(s) /\ ~FE!Write(s) /\ ~FE!Saved(s)
  <2>1. \A b, o : /\ [v5 EXCEPT !.saving = b].st = "ready"
                  /\ [v5 EXCEPT !.saving = b, !.original = o].st = "ready"
    BY <1>1
  <2>2. ~FE!Save(s) /\ ~FE!Write(s)
    BY <1>2, <2>1 DEF FE!Save, FE!Write, FE!Becomes
  <2>3. ASSUME FE!Saved(s)
        PROVE  FALSE
    <3> DEFINE o == IF v6[s].st = "written" THEN v6[s].v ELSE v5.original
    <3>1. v5' = v5 \/ v5' = [v5 EXCEPT !.saving = FALSE, !.original = o]
      BY <2>3 DEF FE!Saved, FE!Becomes
    <3> HIDE DEF o
    <3> QED
      BY <1>1, <1>2, <3>1
  <2> QED
    BY <2>2, <2>3
<1>8. ~FE!AgentWrites /\ ~UNCHANGED FE!editorVars
  BY <1>2 DEF FE!AgentWrites, FE!editorVars
<1>9. ASSUME NEW p \in FE!Pages
      PROVE  ~FE!Navigate(p)
  BY <1>3 DEF FE!Navigate
<1> QED
  BY <1>4, <1>5, <1>6, <1>7, <1>8, <1>9 DEF FE!Next

(* file-editor-panel.tsx: no edit that a save missed is dropped unless the *)
(* user confirmed it or left the pages of the editor, whatever saves, reads *)
(* and writes of the agent interleave.                                     *)
THEOREM NoEditIsLost == ASSUME EditorAssumptions PROVE Spec => EditsNotLost
<1> DEFINE Inv == part = "files" => FE!InductiveInv
           Keeps == part = "files" => FE!KeepsEdits
<1>1. Init => Inv
  BY EditorInit DEF Init
<1>2. Inv /\ [Next]_vars => Inv'
  BY PartStays, EditorSteps, EditorNext
<1>3. Inv /\ [Next]_vars => Keeps
  BY EditorSteps, DirtyIsAsked
<1>4. Spec => [][Keeps]_vars
  <2> HIDE DEF Inv, Keeps
  <2> QED
    BY <1>1, <1>2, <1>3, PTL DEF Spec
<1> QED
  BY <1>4 DEF EditsNotLost

-----------------------------------------------------------------------------
(* The dock: v1 chatOf, v2 askers, v3 prompts, v4 shown, v5 card,          *)
(* v6 parked, v7 frames, v8 outcome, v9 picks.                             *)

DockAssumptions == None \notin Prompts /\ NumQuestions \in Nat \ {0}

LEMMA DockSteps ==
  ASSUME part = "dock", [Next]_vars
  PROVE  PD!Next \/ UNCHANGED PD!dockVars
  BY DEF Next, vars, PD!Next, PD!dockVars

LEMMA DockStarts == Init /\ part = "dock" => PD!Init
  BY DEF Init

(* What the dock shows is a block of the session that is not resolved.     *)
LEMMA CurrentIsPending ==
  ASSUME NEW blocks \in Seq([req : Prompts, resolved : BOOLEAN]),
         PD!Current(blocks) # None
  PROVE  \E i \in DOMAIN blocks : blocks[i].req = PD!Current(blocks) /\ ~blocks[i].resolved
<1> DEFINE P == PD!Pending(blocks)
<1>1. P # {} /\ P \subseteq DOMAIN blocks /\ DOMAIN blocks \subseteq Nat
  BY LenProperties DEF PD!Current, PD!Pending
<1>2. \E i \in P : \A j \in P : i <= j
  <2> HIDE DEF P
  <2> QED
    BY <1>1, HasLeast
<1>3. PICK i \in P : PD!Current(blocks) = blocks[i].req
  <2>1. (CHOOSE i \in P : \A j \in P : i <= j) \in P
    BY <1>2
  <2> QED
    BY <1>1, <2>1 DEF PD!Current
<1> QED
  BY <1>3 DEF PD!Pending

LEMMA DockInit == ASSUME PD!Init, DockAssumptions PROVE PD!InductiveInv
<1>1. /\ PD!NoCard \in [req : Prompts \cup {None}, answers : [PD!Questions -> SUBSET Options],
                        active : PD!Questions, timers : Nat]
      /\ PD!NoCard.req = None /\ \A i \in PD!Questions : PD!NoCard.answers[i] = {}
  BY DEF PD!NoCard, PD!NoAnswers, PD!Questions, DockAssumptions
<1>2. v3 = [s \in Chats |-> <<>>] /\ v7 = <<>> /\ v5 = PD!NoCard
      /\ v8 = [r \in Prompts |-> {}]
  BY DEF PD!Init
<1>3. PD!Shapes
  BY <1>1, <1>2, EmptySeq DEF PD!Init, PD!Shapes, PD!AnyAnswers
<1>4. PD!BlocksAreOnce /\ PD!FramesArePicked /\ PD!AnswersAreOwn
  BY <1>2 DEF PD!BlocksAreOnce, PD!FramesArePicked, PD!AnswersAreOwn
<1>5. PD!CardIsOfCurrent
  BY <1>1, <1>2 DEF PD!CardIsOfCurrent
<1> QED
  BY <1>3, <1>4, <1>5 DEF PD!InductiveInv

(* A render leaves the card of the prompt that is shown, with the answers  *)
(* that were picked for it.                                                *)
LEMMA RendersCard ==
  ASSUME DockAssumptions, NEW blocks \in [Chats -> Seq([req : Prompts, resolved : BOOLEAN])], NEW s \in Chats,
         NEW old \in [req : Prompts \cup {None}, answers : [PD!Questions -> SUBSET Options],
                      active : PD!Questions, timers : Nat],
         PD!Renders(blocks, s, old),
         \A i \in PD!Questions : \A o \in old.answers[i] : <<old.req, i, o>> \in v9'
  PROVE  /\ v3' = blocks /\ v4' = s
         /\ v5' \in [req : Prompts \cup {None}, answers : [PD!Questions -> SUBSET Options],
                     active : PD!Questions, timers : Nat]
         /\ PD!CardIsOfCurrent'
<1>1. /\ PD!NoCard \in [req : Prompts \cup {None}, answers : [PD!Questions -> SUBSET Options],
                        active : PD!Questions, timers : Nat]
      /\ PD!NoCard.req = None /\ \A i \in PD!Questions : PD!NoCard.answers[i] = {}
  BY DEF PD!NoCard, PD!NoAnswers, PD!Questions, DockAssumptions
<1> DEFINE r == PD!Current(blocks[s])
<1>2. r \in Prompts \cup {None}
  <2>1. blocks[s] \in Seq([req : Prompts, resolved : BOOLEAN])
    OBVIOUS
  <2>2. r # None => \E i \in DOMAIN blocks[s] : blocks[s][i].req = r
    BY <2>1, CurrentIsPending
  <2>3. \A i \in DOMAIN blocks[s] : blocks[s][i] \in [req : Prompts, resolved : BOOLEAN]
    BY <2>1, SeqElements
  <2> QED
    BY <2>2, <2>3
<1>3. v3' = blocks /\ v4' = s /\ v5' = PD!Mounted(old, r)
  BY DEF PD!Renders
<1>4. v3'[v4'] = blocks[s]
  BY <1>3
<1>5. \/ v5' = PD!NoCard
      \/ v5' = old /\ old.req = r
      \/ v5' = PD!NewCard(r)
  BY <1>3 DEF PD!Mounted
<1>6. /\ PD!NewCard(r) \in [req : Prompts \cup {None}, answers : [PD!Questions -> SUBSET Options],
                            active : PD!Questions, timers : Nat]
      /\ PD!NewCard(r).req = r /\ \A i \in PD!Questions : PD!NewCard(r).answers[i] = {}
  <2> HIDE DEF r
  <2> QED
    BY <1>1, <1>2 DEF PD!NewCard
<1>7. v5'.req # None => v5'.req = PD!Current(v3'[v4'])
  BY <1>1, <1>4, <1>5, <1>6
<1>8. \A i \in PD!Questions : \A o \in v5'.answers[i] : <<v5'.req, i, o>> \in v9'
  BY <1>1, <1>5, <1>6
<1>9. PD!CardIsOfCurrent'
  BY <1>7, <1>8 DEF PD!CardIsOfCurrent, PD!Current, PD!Pending
<1> QED
  BY <1>1, <1>3, <1>5, <1>6, <1>9

(* Resolving a prompt changes no other block and unresolves none.          *)
LEMMA ResolvedBlocks ==
  ASSUME PD!Shapes, NEW r \in Prompts
  PROVE  /\ PD!Resolved(r) \in [Chats -> Seq([req : Prompts, resolved : BOOLEAN])]
         /\ \A s \in Chats :
              /\ DOMAIN PD!Resolved(r)[s] = DOMAIN v3[s]
              /\ \A i \in DOMAIN v3[s] :
                   /\ PD!Resolved(r)[s][i].req = v3[s][i].req
                   /\ (v3[s][i].resolved => PD!Resolved(r)[s][i].resolved)
                   /\ (s = v1[r] /\ v3[s][i].req = r => PD!Resolved(r)[s][i].resolved)
<1> DEFINE Block == [req : Prompts, resolved : BOOLEAN]
           old == v3[v1[r]]
           At(b) == IF b.req = r THEN [b EXCEPT !.resolved = TRUE] ELSE b
           new == [i \in DOMAIN old |-> At(old[i])]
<1>1. v1[r] \in Chats /\ v3 \in [Chats -> Seq(Block)] /\ old \in Seq(Block)
  BY DEF PD!Shapes
<1>2. PD!Resolved(r) = [v3 EXCEPT ![v1[r]] = new]
  BY DEF PD!Resolved
<1>3. /\ \A i \in DOMAIN old : old[i] \in Block
      /\ DOMAIN old = 1..Len(old) /\ Len(old) \in Nat
  <2> HIDE DEF Block, old
  <2> QED
    BY <1>1, SeqElements
<1>4. \A b \in Block : /\ At(b) \in Block /\ At(b).req = b.req
                       /\ (b.resolved => At(b).resolved)
                       /\ (b.req = r => At(b).resolved)
  OBVIOUS
<1>5. DOMAIN new = DOMAIN old /\ \A i \in DOMAIN old : new[i] = At(old[i])
  OBVIOUS
<1>6. new \in Seq(Block)
  <2> HIDE DEF Block, old, At
  <2>1. new = [i \in 1..Len(old) |-> At(old[i])]
    BY <1>3
  <2>2. \A i \in 1..Len(old) : At(old[i]) \in Block
    BY <1>3, <1>4
  <2>3. new \in [1..Len(old) -> Block]
    BY <2>1, <2>2
  <2> QED
    BY <1>3, <2>3, SeqDef
<1>7. /\ DOMAIN new = DOMAIN old
      /\ \A i \in DOMAIN old : /\ new[i].req = old[i].req
                               /\ (old[i].resolved => new[i].resolved)
                               /\ (old[i].req = r => new[i].resolved)
  <2> HIDE DEF Block, At, new, old
  <2> QED
    BY <1>3, <1>4, <1>5
<1>8. PD!Resolved(r) \in [Chats -> Seq(Block)]
  <2> HIDE DEF Block, new
  <2> QED
    BY <1>1, <1>2, <1>6
<1>9. ASSUME NEW s \in Chats
      PROVE  /\ DOMAIN PD!Resolved(r)[s] = DOMAIN v3[s]
             /\ \A i \in DOMAIN v3[s] :
                  /\ PD!Resolved(r)[s][i].req = v3[s][i].req
                  /\ (v3[s][i].resolved => PD!Resolved(r)[s][i].resolved)
                  /\ (s = v1[r] /\ v3[s][i].req = r => PD!Resolved(r)[s][i].resolved)
  <2>1. s # v1[r] => PD!Resolved(r)[s] = v3[s]
    <3> HIDE DEF Block, new
    <3> QED
      BY <1>1, <1>2
  <2>2. s = v1[r] => PD!Resolved(r)[s] = new /\ v3[s] = old
    <3> HIDE DEF Block, new
    <3> QED
      BY <1>1, <1>2
  <2> HIDE DEF new, old, Block
  <2>3. CASE s = v1[r]
    BY <1>7, <2>2, <2>3
  <2>4. CASE s # v1[r]
    BY <2>1, <2>4
  <2> QED
    BY <2>3, <2>4
<1> QED
  BY <1>8, <1>9

(* Blocks that keep their prompts stay a block a prompt.                   *)
LEMMA BlocksStayOnce ==
  ASSUME PD!BlocksAreOnce, v1' = v1,
         \A c \in Chats : /\ DOMAIN v3'[c] = DOMAIN v3[c]
                          /\ \A i \in DOMAIN v3[c] : v3'[c][i].req = v3[c][i].req
  PROVE  PD!BlocksAreOnce'
<1> SUFFICES ASSUME NEW c \in Chats, NEW i \in DOMAIN v3'[c], NEW j \in DOMAIN v3'[c]
             PROVE  v1'[v3'[c][i].req] = c /\ (v3'[c][i].req = v3'[c][j].req => i = j)
  BY DEF PD!BlocksAreOnce
<1>1. i \in DOMAIN v3[c] /\ j \in DOMAIN v3[c]
      /\ v3'[c][i].req = v3[c][i].req /\ v3'[c][j].req = v3[c][j].req
  OBVIOUS
<1>2. v1[v3[c][i].req] = c /\ (v3[c][i].req = v3[c][j].req => i = j)
  BY <1>1 DEF PD!BlocksAreOnce
<1> QED
  BY <1>1, <1>2

(* A step after which no block is new, none is unresolved that was not,    *)
(* and no answer is new.                                                   *)
LEMMA DockKeeps ==
  ASSUME PD!InductiveInv, DockAssumptions, UNCHANGED <<v1, v2, v7, v8>>,
         NEW blocks \in [Chats -> Seq([req : Prompts, resolved : BOOLEAN])], NEW s \in Chats,
         NEW old \in [req : Prompts \cup {None}, answers : [PD!Questions -> SUBSET Options],
                      active : PD!Questions, timers : Nat],
         PD!Renders(blocks, s, old), v9 \subseteq v9',
         \A i \in PD!Questions : \A o \in old.answers[i] : <<old.req, i, o>> \in v9',
         \A c \in Chats :
           /\ DOMAIN blocks[c] = DOMAIN v3[c]
           /\ \A i \in DOMAIN v3[c] : /\ blocks[c][i].req = v3[c][i].req
                                      /\ (v3[c][i].resolved => blocks[c][i].resolved)
  PROVE  PD!InductiveInv'
<1>1. /\ v3' = blocks /\ v4' = s
      /\ v5' \in [req : Prompts \cup {None}, answers : [PD!Questions -> SUBSET Options],
                  active : PD!Questions, timers : Nat]
      /\ PD!CardIsOfCurrent'
  BY RendersCard
<1>2. PD!Shapes'
  BY <1>1 DEF PD!InductiveInv, PD!Shapes
<1>3. PD!BlocksAreOnce'
  BY <1>1, BlocksStayOnce DEF PD!InductiveInv
<1>4. PD!FramesArePicked'
  <2>1. v7 \in Seq([req : Prompts, chat : Chats, answers : PD!AnyAnswers])
        /\ v1 \in [Prompts -> Chats]
    BY DEF PD!InductiveInv, PD!Shapes
  <2> DEFINE Frame == [req : Prompts, chat : Chats, answers : PD!AnyAnswers]
  <2>2. \A i \in DOMAIN v7 : v7[i] \in Frame
    <3>1. v7 \in Seq(Frame)
      BY <2>1
    <3> HIDE DEF Frame
    <3> QED
      BY <3>1, SeqElements
  <2>3. \A i \in DOMAIN v7 : v1[v7[i].req] \in Chats
    BY <2>1, <2>2
  <2>4. \A i \in DOMAIN v7 :
          /\ \A a \in v7[i].answers : <<v7[i].req, a[1], a[2]>> \in v9'
          /\ \E k \in DOMAIN blocks[v1[v7[i].req]] :
               blocks[v1[v7[i].req]][k].req = v7[i].req /\ blocks[v1[v7[i].req]][k].resolved
    BY <2>3 DEF PD!InductiveInv, PD!FramesArePicked
  <2> QED
    BY <1>1, <2>4 DEF PD!FramesArePicked
<1>5. PD!AnswersAreOwn'
  BY DEF PD!InductiveInv, PD!AnswersAreOwn
<1> QED
  BY <1>1, <1>2, <1>3, <1>4, <1>5 DEF PD!InductiveInv

LEMMA DockStays ==
  ASSUME PD!InductiveInv, UNCHANGED <<v1, v2, v3, v4, v5, v7, v8, v9>>
  PROVE  PD!InductiveInv'
<1>1. PD!Shapes'
  BY DEF PD!InductiveInv, PD!Shapes
<1>2. PD!BlocksAreOnce'
  BY BlocksStayOnce DEF PD!InductiveInv
<1>3. PD!AnswersAreOwn'
  BY DEF PD!InductiveInv, PD!AnswersAreOwn
<1>4. PD!CardIsOfCurrent' /\ PD!FramesArePicked'
  BY DEF PD!InductiveInv, PD!CardIsOfCurrent, PD!Current, PD!Pending, PD!FramesArePicked
<1> QED
  BY <1>1, <1>2, <1>3, <1>4 DEF PD!InductiveInv

(* An answer to the prompt that is shown is the first to it: those under   *)
(* way are to prompts whose blocks are resolved.                           *)
LEMMA AnswerIsSent ==
  ASSUME PD!InductiveInv, DockAssumptions, UNCHANGED <<v1, v2, v8>>, v9 \subseteq v9',
         NEW r \in Prompts, r = PD!Current(v3[v4]), NEW given \in PD!AnyAnswers,
         \A a \in given : <<r, a[1], a[2]>> \in v9',
         v7' = Append(v7, [req |-> r, chat |-> v4, answers |-> given]),
         PD!Renders(PD!Resolved(r), v4, v5)
  PROVE  PD!InductiveInv'
<1> DEFINE Frame == [req : Prompts, chat : Chats, answers : PD!AnyAnswers]
           f == [req |-> r, chat |-> v4, answers |-> given]
<1>1. PD!Shapes /\ PD!BlocksAreOnce /\ PD!CardIsOfCurrent /\ PD!FramesArePicked /\ PD!AnswersAreOwn
  BY DEF PD!InductiveInv
<1>2. v4 \in Chats /\ v3[v4] \in Seq([req : Prompts, resolved : BOOLEAN])
      /\ v7 \in Seq(Frame) /\ f \in Frame /\ v1 \in [Prompts -> Chats]
      /\ f.req = r /\ f.chat = v4 /\ f.answers = given
  BY <1>1 DEF PD!Shapes
<1>3. PICK k \in DOMAIN v3[v4] : v3[v4][k].req = r /\ ~v3[v4][k].resolved
  BY <1>2, CurrentIsPending DEF DockAssumptions
<1>4. v1[r] = v4
  BY <1>1, <1>2, <1>3 DEF PD!BlocksAreOnce
<1>5. \A i \in DOMAIN v7 : v7[i].req # r
  <2>1. ASSUME NEW i \in DOMAIN v7, v7[i].req = r
        PROVE  FALSE
    <3>1. PICK j \in DOMAIN v3[v4] : v3[v4][j].req = r /\ v3[v4][j].resolved
      BY <1>1, <1>4, <2>1 DEF PD!FramesArePicked
    <3>2. j = k
      BY <1>1, <1>2, <1>3, <3>1 DEF PD!BlocksAreOnce
    <3> QED
      BY <1>3, <3>1, <3>2
  <2> QED
    BY <2>1
<1>6. /\ v7' \in Seq(Frame) /\ DOMAIN v7' = DOMAIN v7 \cup {Len(v7) + 1}
      /\ Len(v7) + 1 \notin DOMAIN v7
      /\ \A i \in DOMAIN v7 : v7'[i] = v7[i]
      /\ v7'[Len(v7) + 1] = f
      /\ \A i \in DOMAIN v7 : v7[i] \in Frame
  <2>1. v7' = Append(v7, f)
    OBVIOUS
  <2> HIDE DEF Frame, f
  <2>2. v7' \in Seq(Frame) /\ Len(v7') = Len(v7) + 1 /\ v7'[Len(v7) + 1] = f
        /\ \A i \in 1..Len(v7) : v7'[i] = v7[i]
    BY <1>2, <2>1, AppendProperties
  <2>3. /\ DOMAIN v7 = 1..Len(v7) /\ Len(v7) \in Nat /\ DOMAIN v7' = 1..Len(v7')
        /\ \A i \in DOMAIN v7 : v7[i] \in Frame
    BY <1>2, <2>2, SeqElements
  <2> QED
    BY <2>2, <2>3
<1>7. /\ PD!Resolved(r) \in [Chats -> Seq([req : Prompts, resolved : BOOLEAN])]
      /\ \A s \in Chats :
           /\ DOMAIN PD!Resolved(r)[s] = DOMAIN v3[s]
           /\ \A i \in DOMAIN v3[s] :
                /\ PD!Resolved(r)[s][i].req = v3[s][i].req
                /\ (v3[s][i].resolved => PD!Resolved(r)[s][i].resolved)
                /\ (s = v1[r] /\ v3[s][i].req = r => PD!Resolved(r)[s][i].resolved)
  BY <1>1, ResolvedBlocks
<1>8. /\ v3' = PD!Resolved(r) /\ v4' = v4
      /\ v5' \in [req : Prompts \cup {None}, answers : [PD!Questions -> SUBSET Options],
                  active : PD!Questions, timers : Nat]
      /\ PD!CardIsOfCurrent'
  <2>1. /\ v5 \in [req : Prompts \cup {None}, answers : [PD!Questions -> SUBSET Options],
                   active : PD!Questions, timers : Nat]
        /\ \A i \in PD!Questions : \A o \in v5.answers[i] : <<v5.req, i, o>> \in v9'
    BY <1>1 DEF PD!Shapes, PD!CardIsOfCurrent
  <2> QED
    BY <1>2, <1>7, <2>1, RendersCard
<1>9. PD!Shapes'
  BY <1>1, <1>6, <1>7, <1>8 DEF PD!Shapes
<1>10. PD!BlocksAreOnce'
  <2>1. \A c \in Chats : /\ DOMAIN v3'[c] = DOMAIN v3[c]
                         /\ \A i \in DOMAIN v3[c] : v3'[c][i].req = v3[c][i].req
    BY <1>7, <1>8
  <2> QED
    BY <1>1, <2>1, BlocksStayOnce
<1>11. PD!FramesArePicked'
  <2> SUFFICES ASSUME NEW i \in DOMAIN v7'
               PROVE  /\ \A a \in v7'[i].answers : <<v7'[i].req, a[1], a[2]>> \in v9'
                      /\ \E j \in DOMAIN v3'[v1'[v7'[i].req]] :
                           /\ v3'[v1'[v7'[i].req]][j].req = v7'[i].req
                           /\ v3'[v1'[v7'[i].req]][j].resolved
    BY DEF PD!FramesArePicked
  <2>1. CASE i \in DOMAIN v7
    <3>1. v7'[i] = v7[i] /\ v1[v7[i].req] \in Chats
      BY <1>2, <1>6, <2>1
    <3>2. \A a \in v7[i].answers : <<v7[i].req, a[1], a[2]>> \in v9'
      BY <1>1, <2>1 DEF PD!FramesArePicked
    <3>3. PICK j \in DOMAIN v3[v1[v7[i].req]] :
            v3[v1[v7[i].req]][j].req = v7[i].req /\ v3[v1[v7[i].req]][j].resolved
      BY <1>1, <2>1 DEF PD!FramesArePicked
    <3>4. /\ j \in DOMAIN v3'[v1[v7[i].req]]
          /\ v3'[v1[v7[i].req]][j].req = v7[i].req /\ v3'[v1[v7[i].req]][j].resolved
      BY <1>7, <1>8, <3>1, <3>3
    <3> QED
      BY <3>1, <3>2, <3>4
  <2>2. CASE i = Len(v7) + 1
    <3>1. v7'[i] = f
      BY <1>6, <2>2
    <3>2. \A a \in f.answers : <<f.req, a[1], a[2]>> \in v9'
      OBVIOUS
    <3>3. /\ k \in DOMAIN v3'[v1[r]]
          /\ v3'[v1[r]][k].req = r /\ v3'[v1[r]][k].resolved
      BY <1>2, <1>3, <1>4, <1>7, <1>8
    <3> QED
      BY <1>2, <3>1, <3>2, <3>3
  <2> QED
    BY <1>6, <2>1, <2>2
<1>12. PD!AnswersAreOwn'
  <2>1. \A q \in Prompts : \A a \in v8'[q] : <<q, a[1], a[2]>> \in v9'
    BY <1>1 DEF PD!AnswersAreOwn
  <2>2. \A i, j \in DOMAIN v7 : /\ v7[i].chat = v1[v7[i].req]
                                /\ (v7[i].req = v7[j].req => i = j)
    BY <1>1 DEF PD!AnswersAreOwn
  <2>3. \A i \in DOMAIN v7' : v7'[i].chat = v1'[v7'[i].req]
    <3> HIDE DEF Frame, f
    <3> QED
      BY <1>2, <1>4, <1>6, <2>2
  <2>4. \A i, j \in DOMAIN v7' : v7'[i].req = v7'[j].req => i = j
    <3> HIDE DEF Frame, f
    <3> QED
      BY <1>2, <1>5, <1>6, <2>2
  <2> QED
    BY <2>1, <2>3, <2>4 DEF PD!AnswersAreOwn
<1> QED
  BY <1>8, <1>9, <1>10, <1>11, <1>12 DEF PD!InductiveInv

(* A prompt is asked once, and becomes a block that is not resolved.       *)
LEMMA DockAsks ==
  ASSUME PD!InductiveInv, DockAssumptions, NEW r \in Prompts, PD!Ask(r)
  PROVE  PD!InductiveInv'
<1> DEFINE Block == [req : Prompts, resolved : BOOLEAN]
           b == [req |-> r, resolved |-> FALSE]
           c == v1[r]
           blocks == [v3 EXCEPT ![c] = Append(v3[c], b)]
<1>1. PD!Shapes /\ PD!BlocksAreOnce /\ PD!CardIsOfCurrent /\ PD!FramesArePicked /\ PD!AnswersAreOwn
  BY DEF PD!InductiveInv
<1>2. /\ v4 \in Chats /\ c \in Chats /\ v3 \in [Chats -> Seq(Block)] /\ v1 \in [Prompts -> Chats]
      /\ b \in Block /\ b.req = r /\ v3[c] \in Seq(Block)
      /\ v5 \in [req : Prompts \cup {None}, answers : [PD!Questions -> SUBSET Options],
                 active : PD!Questions, timers : Nat]
      /\ v7 \in Seq([req : Prompts, chat : Chats, answers : PD!AnyAnswers])
  BY <1>1 DEF PD!Shapes
<1>3. /\ UNCHANGED <<v1, v2, v7, v8, v9>> /\ PD!Renders(blocks, v4, v5)
      /\ \A i \in DOMAIN v3[c] : v3[c][i].req # r
  BY DEF PD!Ask, PD!Asked
<1>4. /\ Append(v3[c], b) \in Seq(Block)
      /\ DOMAIN Append(v3[c], b) = DOMAIN v3[c] \cup {Len(v3[c]) + 1}
      /\ \A i \in DOMAIN v3[c] : Append(v3[c], b)[i] = v3[c][i]
      /\ Append(v3[c], b)[Len(v3[c]) + 1] = b
  <2> HIDE DEF Block, b, c
  <2>1. Append(v3[c], b) \in Seq(Block) /\ Len(Append(v3[c], b)) = Len(v3[c]) + 1
        /\ Append(v3[c], b)[Len(v3[c]) + 1] = b
        /\ \A i \in 1..Len(v3[c]) : Append(v3[c], b)[i] = v3[c][i]
    BY <1>2, AppendProperties
  <2>2. DOMAIN v3[c] = 1..Len(v3[c]) /\ Len(v3[c]) \in Nat
        /\ DOMAIN Append(v3[c], b) = 1..Len(Append(v3[c], b))
    BY <1>2, <2>1, SeqElements
  <2> QED
    BY <2>1, <2>2
<1>5. blocks \in [Chats -> Seq(Block)] /\ blocks[c] = Append(v3[c], b)
      /\ \A s \in Chats : s # c => blocks[s] = v3[s]
  <2> HIDE DEF Block, b, c
  <2> QED
    BY <1>2, <1>4
<1>6. \A s \in Chats : \A i \in DOMAIN v3[s] : i \in DOMAIN blocks[s] /\ blocks[s][i] = v3[s][i]
  <2> HIDE DEF Block, b, c, blocks
  <2>1. ASSUME NEW s \in Chats, NEW i \in DOMAIN v3[s]
        PROVE  i \in DOMAIN blocks[s] /\ blocks[s][i] = v3[s][i]
    <3>1. CASE s = c
      BY <1>4, <1>5, <3>1
    <3>2. CASE s # c
      BY <1>5, <3>2
    <3> QED
      BY <3>1, <3>2
  <2> QED
    BY <2>1
<1>7. /\ v3' = blocks /\ v4' = v4
      /\ v5' \in [req : Prompts \cup {None}, answers : [PD!Questions -> SUBSET Options],
                  active : PD!Questions, timers : Nat]
      /\ PD!CardIsOfCurrent'
  <2>1. \A i \in PD!Questions : \A o \in v5.answers[i] : <<v5.req, i, o>> \in v9'
    BY <1>1, <1>3 DEF PD!CardIsOfCurrent
  <2> HIDE DEF blocks
  <2> QED
    BY <1>2, <1>3, <1>5, <2>1, RendersCard
<1>8. PD!Shapes'
  <2> HIDE DEF blocks
  <2> QED
    BY <1>1, <1>3, <1>5, <1>7 DEF PD!Shapes
<1>9. PD!BlocksAreOnce'
  <2> HIDE DEF b, blocks, c
  <2>1. \A s \in Chats : \A i, j \in DOMAIN v3[s] :
          v1[v3[s][i].req] = s /\ (v3[s][i].req = v3[s][j].req => i = j)
    BY <1>1 DEF PD!BlocksAreOnce
  <2> SUFFICES ASSUME NEW s \in Chats, NEW i \in DOMAIN blocks[s], NEW j \in DOMAIN blocks[s]
               PROVE  v1[blocks[s][i].req] = s /\ (blocks[s][i].req = blocks[s][j].req => i = j)
    BY <1>3, <1>7 DEF PD!BlocksAreOnce
  <2>2. CASE s # c
    BY <1>5, <2>1, <2>2
  <2>3. CASE s = c
    <3>1. \A x \in DOMAIN blocks[c] :
            \/ x \in DOMAIN v3[c] /\ blocks[c][x] = v3[c][x]
            \/ x = Len(v3[c]) + 1 /\ blocks[c][x].req = r
      BY <1>2, <1>4, <1>5
    <3>2. v1[r] = c /\ \A x \in DOMAIN v3[c] : v3[c][x].req # r
      BY <1>3 DEF c
    <3>3. \A x \in DOMAIN v3[c] : v1[v3[c][x].req] = c
      BY <1>2, <2>1
    <3>4. v1[blocks[c][i].req] = c
      BY <2>3, <3>1, <3>2, <3>3
    <3>5. blocks[c][i].req = blocks[c][j].req => i = j
      <4>1. CASE i \in DOMAIN v3[c] /\ j \in DOMAIN v3[c]
        BY <1>2, <1>6, <2>1, <4>1
      <4>2. CASE i \notin DOMAIN v3[c] \/ j \notin DOMAIN v3[c]
        BY <2>3, <3>1, <3>2, <4>2
      <4> QED
        BY <4>1, <4>2
    <3> QED
      BY <2>3, <3>4, <3>5
  <2> QED
    BY <2>2, <2>3
<1>10. PD!FramesArePicked'
  <2> SUFFICES ASSUME NEW i \in DOMAIN v7
               PROVE  /\ \A a \in v7[i].answers : <<v7[i].req, a[1], a[2]>> \in v9
                      /\ \E j \in DOMAIN v3'[v1[v7[i].req]] :
                           /\ v3'[v1[v7[i].req]][j].req = v7[i].req
                           /\ v3'[v1[v7[i].req]][j].resolved
    BY <1>3 DEF PD!FramesArePicked
  <2>1. v1[v7[i].req] \in Chats
    <3> DEFINE Frame == [req : Prompts, chat : Chats, answers : PD!AnyAnswers]
    <3>1. v7[i] \in Frame
      <4>1. v7 \in Seq(Frame)
        BY <1>2
      <4> HIDE DEF Frame
      <4> QED
        BY <4>1, SeqElements
    <3> QED
      BY <1>2, <3>1
  <2>2. PICK j \in DOMAIN v3[v1[v7[i].req]] :
          v3[v1[v7[i].req]][j].req = v7[i].req /\ v3[v1[v7[i].req]][j].resolved
    BY <1>1 DEF PD!FramesArePicked
  <2> HIDE DEF blocks
  <2> QED
    BY <1>1, <1>6, <1>7, <2>1, <2>2 DEF PD!FramesArePicked
<1>11. PD!AnswersAreOwn'
  BY <1>1, <1>3 DEF PD!AnswersAreOwn
<1> QED
  BY <1>7, <1>8, <1>9, <1>10, <1>11 DEF PD!InductiveInv

(* A click on the card changes the answers, the question or the timers.    *)
LEMMA DockCardMoves ==
  ASSUME PD!InductiveInv, DockAssumptions, UNCHANGED <<v1, v2, v7, v8>>, v9 \subseteq v9',
         NEW old \in [req : Prompts \cup {None}, answers : [PD!Questions -> SUBSET Options],
                      active : PD!Questions, timers : Nat],
         NEW s \in Chats, PD!Renders(v3, s, old),
         \A i \in PD!Questions : \A o \in old.answers[i] : <<old.req, i, o>> \in v9'
  PROVE  PD!InductiveInv'
<1>1. v3 \in [Chats -> Seq([req : Prompts, resolved : BOOLEAN])]
  BY DEF PD!InductiveInv, PD!Shapes
<1> QED
  BY <1>1, DockKeeps

LEMMA DockSelects ==
  ASSUME PD!InductiveInv, DockAssumptions, NEW o \in Options, PD!SelectOption(o)
  PROVE  PD!InductiveInv'
<1> DEFINE i == v5.active
           several == i \in Multi
           next == IF ~several THEN {o}
                   ELSE IF o \in v5.answers[i] THEN v5.answers[i] \ {o}
                   ELSE v5.answers[i] \cup {o}
           old == [v5 EXCEPT !.answers[i] = next,
                             !.timers = IF several \/ i = NumQuestions THEN @ ELSE @ + 1]
           Card == [req : Prompts \cup {None}, answers : [PD!Questions -> SUBSET Options],
                    active : PD!Questions, timers : Nat]
<1>1. v5 \in Card /\ v4 \in Chats
      /\ \A j \in PD!Questions : \A x \in v5.answers[j] : <<v5.req, j, x>> \in v9
  BY DEF PD!InductiveInv, PD!Shapes, PD!CardIsOfCurrent
<1>2. /\ UNCHANGED <<v1, v2, v7, v8>> /\ v9' = v9 \cup {<<v5.req, i, o>>}
      /\ PD!Renders(v3, v4, old)
  BY DEF PD!SelectOption, PD!CardBecomes
<1>3. /\ next \in SUBSET Options
      /\ \A x \in next : <<v5.req, i, x>> \in v9'
  BY <1>1, <1>2
<1>4. /\ old \in Card /\ old.req = v5.req /\ old.answers[i] = next
      /\ \A j \in PD!Questions : j # i => old.answers[j] = v5.answers[j]
  <2> DEFINE given == [v5.answers EXCEPT ![i] = next]
             left == IF several \/ i = NumQuestions THEN v5.timers ELSE v5.timers + 1
  <2>1. old = [v5 EXCEPT !.answers = given, !.timers = left]
    OBVIOUS
  <2>2. /\ given \in [PD!Questions -> SUBSET Options] /\ given[i] = next
        /\ \A j \in PD!Questions : j # i => given[j] = v5.answers[j]
    <3> HIDE DEF next
    <3> QED
      BY <1>1, <1>3
  <2>3. left \in Nat
    BY <1>1
  <2> HIDE DEF given, left, old
  <2>4. old \in Card /\ old.req = v5.req /\ old.answers = given
    BY <1>1, <2>1, <2>2, <2>3
  <2> QED
    BY <2>2, <2>4
<1>5. \A j \in PD!Questions : \A x \in old.answers[j] : <<old.req, j, x>> \in v9'
  <2> HIDE DEF next, old
  <2> QED
    BY <1>1, <1>2, <1>3, <1>4
<1> HIDE DEF old, next
<1> QED
  BY <1>1, <1>2, <1>4, <1>5, DockCardMoves

LEMMA DockAdvances ==
  ASSUME PD!InductiveInv, DockAssumptions, PD!Advances \/ (\E i \in PD!Questions : PD!GoTo(i))
                          \/ (\E s \in Chats : PD!Show(s))
  PROVE  PD!InductiveInv'
<1> DEFINE Card == [req : Prompts \cup {None}, answers : [PD!Questions -> SUBSET Options],
                    active : PD!Questions, timers : Nat]
<1>1. v5 \in Card /\ v4 \in Chats
      /\ \A j \in PD!Questions : \A x \in v5.answers[j] : <<v5.req, j, x>> \in v9
  BY DEF PD!InductiveInv, PD!Shapes, PD!CardIsOfCurrent
<1>2. CASE PD!Advances
  <2> DEFINE old == [v5 EXCEPT !.timers = @ - 1, !.active = IF @ < NumQuestions THEN @ + 1 ELSE @]
  <2>1. UNCHANGED <<v1, v2, v7, v8, v9>> /\ PD!Renders(v3, v4, old) /\ v5.timers > 0
    BY <1>2 DEF PD!Advances, PD!CardBecomes
  <2>2. old \in Card /\ old.req = v5.req /\ old.answers = v5.answers
    <3> DEFINE left == v5.timers - 1
               next == IF v5.active < NumQuestions THEN v5.active + 1 ELSE v5.active
    <3>1. old = [v5 EXCEPT !.timers = left, !.active = next]
      OBVIOUS
    <3>2. left \in Nat
      BY <1>1, <2>1
    <3>3. next \in PD!Questions
      BY <1>1 DEF PD!Questions, DockAssumptions
    <3> HIDE DEF old, left, next
    <3> QED
      BY <1>1, <3>1, <3>2, <3>3
  <2> HIDE DEF old
  <2> QED
    BY <1>1, <2>1, <2>2, DockCardMoves
<1>3. ASSUME NEW i \in PD!Questions, PD!GoTo(i)
      PROVE  PD!InductiveInv'
  <2> DEFINE old == [v5 EXCEPT !.active = i]
  <2>1. UNCHANGED <<v1, v2, v7, v8, v9>> /\ PD!Renders(v3, v4, old)
    BY <1>3 DEF PD!GoTo, PD!CardBecomes
  <2>2. old \in Card /\ old.req = v5.req /\ old.answers = v5.answers
    BY <1>1
  <2> HIDE DEF old
  <2> QED
    BY <1>1, <2>1, <2>2, DockCardMoves
<1>4. ASSUME NEW s \in Chats, PD!Show(s)
      PROVE  PD!InductiveInv'
  <2>1. UNCHANGED <<v1, v2, v7, v8, v9>> /\ PD!Renders(v3, s, v5)
    BY <1>4 DEF PD!Show
  <2> QED
    BY <1>1, <2>1, DockCardMoves
<1> QED
  BY <1>2, <1>3, <1>4

LEMMA DockSettles ==
  ASSUME PD!InductiveInv, DockAssumptions, NEW r \in Prompts, PD!Settled(r)
  PROVE  PD!InductiveInv'
<1>1. PD!Shapes /\ v4 \in Chats
      /\ v5 \in [req : Prompts \cup {None}, answers : [PD!Questions -> SUBSET Options],
                 active : PD!Questions, timers : Nat]
      /\ \A j \in PD!Questions : \A x \in v5.answers[j] : <<v5.req, j, x>> \in v9
  BY DEF PD!InductiveInv, PD!Shapes, PD!CardIsOfCurrent
<1>2. UNCHANGED <<v1, v2, v7, v8, v9>>
  BY DEF PD!Settled
<1>3. CASE r \in v2
  <2>1. PD!Renders(PD!Resolved(r), v4, v5)
    BY <1>3 DEF PD!Settled
  <2>2. /\ PD!Resolved(r) \in [Chats -> Seq([req : Prompts, resolved : BOOLEAN])]
        /\ \A s \in Chats :
             /\ DOMAIN PD!Resolved(r)[s] = DOMAIN v3[s]
             /\ \A i \in DOMAIN v3[s] :
                  /\ PD!Resolved(r)[s][i].req = v3[s][i].req
                  /\ (v3[s][i].resolved => PD!Resolved(r)[s][i].resolved)
    BY <1>1, ResolvedBlocks
  <2>3. v9 \subseteq v9' /\ \A j \in PD!Questions : \A x \in v5.answers[j] : <<v5.req, j, x>> \in v9'
    BY <1>1, <1>2
  <2> QED
    BY <1>1, <1>2, <2>1, <2>2, <2>3, DockKeeps
<1>4. CASE r \notin v2
  <2>1. UNCHANGED <<v3, v4, v5>>
    BY <1>4 DEF PD!Settled
  <2> QED
    BY <1>2, <2>1, DockStays
<1> QED
  BY <1>3, <1>4

LEMMA DockSubmits ==
  ASSUME PD!InductiveInv, DockAssumptions, PD!Submit
  PROVE  PD!InductiveInv'
<1> DEFINE given == PD!WireAnswers(v5.answers)
<1>1. /\ v5.req \in Prompts /\ v5.req = PD!Current(v3[v4])
      /\ \A i \in PD!Questions : \A o \in v5.answers[i] : <<v5.req, i, o>> \in v9
  BY DEF PD!InductiveInv, PD!Shapes, PD!CardIsOfCurrent, PD!Submit, PD!Clicks
<1>2. given \in PD!AnyAnswers
  BY DEF PD!WireAnswers, PD!AnyAnswers
<1>3. \A a \in given : <<v5.req, a[1], a[2]>> \in v9
  <2>1. ASSUME NEW a \in given
        PROVE  a[1] \in PD!Questions /\ a[2] \in v5.answers[a[1]]
    BY DEF PD!WireAnswers
  <2> HIDE DEF given
  <2> QED
    BY <1>1, <2>1
<1>4. /\ v7' = Append(v7, [req |-> v5.req, chat |-> v4, answers |-> given])
      /\ PD!Renders(PD!Resolved(v5.req), v4, v5) /\ UNCHANGED <<v1, v2, v8, v9>>
  BY DEF PD!Submit
<1> HIDE DEF given
<1> QED
  BY <1>1, <1>2, <1>3, <1>4, AnswerIsSent

LEMMA DockResolves ==
  ASSUME PD!InductiveInv, DockAssumptions, NEW o \in Options, PD!Resolve(o)
  PROVE  PD!InductiveInv'
<1> DEFINE r == PD!Current(v3[v4])
           given == {<<1, o>>}
<1>1. /\ v7' = Append(v7, [req |-> r, chat |-> v4, answers |-> given])
      /\ v9' = v9 \cup {<<r, 1, o>>} /\ r # None
      /\ PD!Renders(PD!Resolved(r), v4, v5) /\ UNCHANGED <<v1, v2, v8>>
  BY DEF PD!Resolve
<1>2. r \in Prompts
  <2>1. v3[v4] \in Seq([req : Prompts, resolved : BOOLEAN])
    BY DEF PD!InductiveInv, PD!Shapes
  <2>2. PICK i \in DOMAIN v3[v4] : v3[v4][i].req = r
    BY <1>1, <2>1, CurrentIsPending
  <2>3. v3[v4][i] \in [req : Prompts, resolved : BOOLEAN]
    BY <2>1, SeqElements
  <2> QED
    BY <2>2, <2>3
<1>3. given \in PD!AnyAnswers
  BY DEF PD!AnyAnswers, PD!Questions, DockAssumptions
<1>4. \A a \in given : <<r, a[1], a[2]>> \in v9'
  <2> HIDE DEF r
  <2> QED
    BY <1>1
<1>5. v9 \subseteq v9'
  BY <1>1
<1> HIDE DEF given, r
<1>6. r = PD!Current(v3[v4])
  BY DEF r
<1> QED
  BY <1>1, <1>2, <1>3, <1>4, <1>5, <1>6, AnswerIsSent

LEMMA DockHandles ==
  ASSUME PD!InductiveInv, PD!Handle
  PROVE  PD!InductiveInv'
<1> DEFINE Frame == [req : Prompts, chat : Chats, answers : PD!AnyAnswers]
           f == Head(v7)
           found == f.req \in v6 /\ v1[f.req] = f.chat
<1>1. PD!Shapes /\ PD!BlocksAreOnce /\ PD!CardIsOfCurrent /\ PD!FramesArePicked /\ PD!AnswersAreOwn
  BY DEF PD!InductiveInv
<1>2. v7 \in Seq(Frame) /\ v7 # <<>> /\ v7' = Tail(v7)
      /\ v8' = (IF found THEN [v8 EXCEPT ![f.req] = f.answers] ELSE v8)
      /\ UNCHANGED <<v1, v2, v3, v4, v5, v9>> /\ v8 \in [Prompts -> PD!AnyAnswers]
  BY <1>1 DEF PD!Handle, PD!Shapes
<1>3. /\ v7' \in Seq(Frame) /\ f \in Frame
      /\ 1 \in DOMAIN v7 /\ f = v7[1]
      /\ \A i \in DOMAIN v7' : i + 1 \in DOMAIN v7 /\ v7'[i] = v7[i + 1] /\ i \in Nat
  <2> HIDE DEF Frame
  <2>1. /\ v7' \in Seq(Frame) /\ f \in Frame /\ f = v7[1] /\ Len(v7') = Len(v7) - 1
        /\ \A i \in 1..Len(v7') : v7'[i] = v7[i + 1]
    BY <1>2, HeadTailProperties
  <2>2. /\ DOMAIN v7 = 1..Len(v7) /\ DOMAIN v7' = 1..Len(v7')
        /\ Len(v7) \in Nat /\ Len(v7') \in Nat
    BY <1>2, <2>1, SeqElements
  <2> QED
    BY <2>1, <2>2
<1>4. v8' \in [Prompts -> PD!AnyAnswers]
      /\ \A r \in Prompts : v8'[r] = v8[r] \/ (r = f.req /\ v8'[r] = f.answers)
  <2>1. f.req \in Prompts /\ f.answers \in PD!AnyAnswers
    BY <1>3
  <2> DEFINE req == f.req
             answers == f.answers
  <2>2. v8' = v8 \/ v8' = [v8 EXCEPT ![req] = answers]
    <3> HIDE DEF found
    <3> QED
      BY <1>2
  <2>3. req \in Prompts /\ answers \in PD!AnyAnswers
    BY <2>1
  <2> HIDE DEF req, answers, f
  <2>4. CASE v8' = v8
    BY <1>2, <2>4
  <2>5. CASE v8' = [v8 EXCEPT ![req] = answers]
    <3>1. v8' \in [Prompts -> PD!AnyAnswers]
      BY <1>2, <2>3, <2>5
    <3>2. \A r \in Prompts : v8'[r] = v8[r] \/ (r = req /\ v8'[r] = answers)
      BY <1>2, <2>3, <2>5
    <3> QED
      BY <3>1, <3>2 DEF req, answers
  <2> QED
    BY <2>2, <2>4, <2>5
<1>5. PD!Shapes'
  BY <1>1, <1>2, <1>3, <1>4 DEF PD!Shapes
<1>6. PD!BlocksAreOnce'
  BY <1>1, <1>2, BlocksStayOnce
<1>7. PD!CardIsOfCurrent'
  BY <1>1, <1>2 DEF PD!CardIsOfCurrent, PD!Current, PD!Pending
<1>8. PD!FramesArePicked'
  <2> SUFFICES ASSUME NEW i \in DOMAIN v7'
               PROVE  /\ \A a \in v7'[i].answers : <<v7'[i].req, a[1], a[2]>> \in v9
                      /\ \E j \in DOMAIN v3[v1[v7'[i].req]] :
                           /\ v3[v1[v7'[i].req]][j].req = v7'[i].req
                           /\ v3[v1[v7'[i].req]][j].resolved
    BY <1>2 DEF PD!FramesArePicked
  <2>1. i + 1 \in DOMAIN v7 /\ v7'[i] = v7[i + 1]
    BY <1>3
  <2> QED
    BY <1>1, <2>1 DEF PD!FramesArePicked
<1>9. PD!AnswersAreOwn'
  <2>1. \A r \in Prompts : \A a \in v8'[r] : <<r, a[1], a[2]>> \in v9
    <3>1. \A r \in Prompts : \A a \in v8[r] : <<r, a[1], a[2]>> \in v9
      BY <1>1 DEF PD!AnswersAreOwn
    <3>2. \A a \in f.answers : <<f.req, a[1], a[2]>> \in v9
      BY <1>1, <1>3 DEF PD!FramesArePicked
    <3> HIDE DEF f
    <3> QED
      BY <1>4, <3>1, <3>2
  <2>2. \A i, j \in DOMAIN v7 : /\ v7[i].chat = v1[v7[i].req]
                                /\ (v7[i].req = v7[j].req => i = j)
    BY <1>1 DEF PD!AnswersAreOwn
  <2>3. \A i, j \in DOMAIN v7' : /\ v7'[i].chat = v1[v7'[i].req]
                                 /\ (v7'[i].req = v7'[j].req => i = j)
    BY <1>3, <2>2
  <2> QED
    BY <1>2, <2>1, <2>3 DEF PD!AnswersAreOwn
<1> QED
  BY <1>5, <1>6, <1>7, <1>8, <1>9 DEF PD!InductiveInv

LEMMA DockNext ==
  ASSUME PD!InductiveInv, DockAssumptions, PD!Next \/ UNCHANGED PD!dockVars
  PROVE  PD!InductiveInv'
<1>1. CASE UNCHANGED PD!dockVars
  BY <1>1, DockStays DEF PD!dockVars
<1>2. CASE PD!Next
  BY <1>2, DockAsks, DockSettles, DockSelects, DockAdvances, DockSubmits, DockResolves,
     DockHandles DEF PD!Next
<1> QED
  BY <1>1, <1>2

(* A prompt is settled only with what the user picked for it, and an       *)
(* answer goes to the session that asked, once: AnswersAreOwn of           *)
(* PromptDock, the key of the card in pending-approval-dock.tsx.           *)
THEOREM AnswersReachTheirPrompt == ASSUME DockAssumptions PROVE Spec => []AnswersAreOwn
<1> DEFINE Inv == part = "dock" => PD!InductiveInv
<1>1. Init => Inv
  BY DockStarts, DockInit
<1>2. Inv /\ [Next]_vars => Inv'
  BY DockSteps, DockNext, PartStays
<1>3. Inv => AnswersAreOwn
  BY DEF AnswersAreOwn, PD!InductiveInv
<1> HIDE DEF Inv
<1> QED
  BY <1>1, <1>2, <1>3, PTL DEF Spec

-----------------------------------------------------------------------------
(* The git panel: v1 panel, v2 calls, v3 meta, v4 creds, v5 astray.        *)

PanelAssumptions == None \notin Projects

LEMMA PanelSteps ==
  ASSUME part = "panel", [Next]_vars
  PROVE  GP!Next \/ UNCHANGED GP!panelVars
<1>1. ASSUME NEW c,
             \/ GP!StatusArrives(c) \/ GP!LogArrives(c) \/ GP!ReadFails(c)
             \/ GP!MetadataIsRead(c) \/ GP!MetadataArrives(c)
             \/ GP!LinkIsChecked(c) \/ GP!LinkUpdates(c) \/ GP!LinkInserts(c)
             \/ GP!LinkSucceeds(c) \/ GP!LinkFails(c)
             \/ GP!CommandRuns(c) \/ GP!AuthIsRequired(c) \/ GP!CommandAnswers(c)
             \/ GP!Committed(c)
      PROVE  GP!Next
  <2>1. c \in v2
    BY <1>1 DEF GP!StatusArrives, GP!LogArrives, GP!ReadFails, GP!MetadataIsRead,
       GP!MetadataArrives, GP!LinkIsChecked, GP!LinkUpdates, GP!LinkInserts,
       GP!LinkSucceeds, GP!LinkFails, GP!CommandRuns, GP!AuthIsRequired,
       GP!CommandAnswers, GP!Committed, GP!Of
  <2> QED
    BY <1>1, <2>1 DEF GP!Answer, GP!Next
<1> QED
  BY <1>1 DEF Next, vars, GP!Next, GP!panelVars

LEMMA PanelStarts == Init /\ part = "panel" => GP!Init
  BY DEF Init

LEMMA ReadsAreCalls ==
  ASSUME NEW p \in GP!AnyProject, NEW kinds \in SUBSET GP!Loaded
  PROVE  /\ GP!Reads(kinds, p) \subseteq GP!AnyCall
         /\ \A c \in GP!Reads(kinds, p) : c.kind \in kinds /\ c.project = p /\ c.st = "sent"
         /\ p = None => GP!Reads(kinds, p) = {}
<1>1. \A k \in kinds : /\ p # None => GP!Call(k, p) \in GP!AnyCall
                       /\ GP!Call(k, p).kind = k /\ GP!Call(k, p).project = p
                       /\ GP!Call(k, p).st = "sent"
  BY DEF GP!Call, GP!AnyCall, GP!AnyProject, GP!AnyCred
<1> QED
  BY <1>1 DEF GP!Reads

LEMMA PanelInit == ASSUME PanelAssumptions, GP!Init PROVE GP!InductiveInv
<1>1. PICK p \in Projects : v1 = GP!Initial(p, 0) /\ v2 = GP!Reads(GP!Loaded, p)
  BY DEF GP!Init
<1>2. /\ v2 \subseteq GP!AnyCall
      /\ \A c \in v2 : c.kind \in {"status", "log", "meta"} /\ c.st = "sent"
      /\ \A c \in v2 : c.kind = "meta" => c = GP!Call("meta", p)
  <2>1. p \in GP!AnyProject
    BY DEF GP!AnyProject
  <2>2. \A c \in v2 : \E k \in GP!Loaded : c = GP!Call(k, p) /\ c.kind = k
    BY <1>1 DEF GP!Reads, GP!Call
  <2> QED
    BY <1>1, <2>1, <2>2, ReadsAreCalls DEF GP!Loaded
<1>3. /\ v1 \in GP!AnyPanel /\ v1.project = p /\ v1.epoch = 0 /\ v1.linked = None
      /\ v1.status = None /\ v1.log = None /\ v1.auth = None
      /\ v1.busy = FALSE /\ v1.dialog = FALSE
  BY <1>1 DEF GP!Initial, GP!AnyPanel, GP!AnyProject, GP!AnyCred
<1>4. v5 = {} /\ v4 = Creds /\ v3 \in [Projects -> {{}} \cup {{c} : c \in Creds}]
  BY DEF GP!Init
<1>5. GP!Shapes
  <2>1. v3 \in [Projects -> SUBSET GP!AnyCred]
    BY <1>4 DEF GP!AnyCred
  <2> QED
    BY <1>2, <1>3, <1>4, <2>1 DEF GP!Shapes
<1>6. GP!EpochsAreOfProjects /\ GP!OneCommand
  BY <1>2 DEF GP!EpochsAreOfProjects, GP!OneCommand, GP!Of
<1>7. GP!LinkIsUnderWay
  BY <1>2 DEF GP!LinkIsUnderWay, GP!Of
<1>8. GP!ShowsProject /\ GP!BusyIsTrue
  BY <1>2, <1>3 DEF GP!ShowsProject, GP!BusyIsTrue, GP!Of
<1>9. GP!LinkedIsTrue
  <2>1. GP!Call("meta", p) \in v2 /\ GP!Call("meta", p).kind = "meta"
        /\ GP!Call("meta", p).project = p
    BY <1>1, <1>3 DEF GP!Reads, GP!Call, GP!Loaded, PanelAssumptions
  <2> QED
    BY <1>3, <2>1 DEF GP!LinkedIsTrue, GP!Crossed, GP!Of
<1> QED
  BY <1>5, <1>6, <1>7, <1>8, <1>9 DEF GP!InductiveInv, GP!PanelIsOfProject

(* What a step must leave for the panel to stay busy as long as a command  *)
(* of the project runs.                                                    *)
LEMMA CommandsKeep ==
  ASSUME GP!OneCommand, GP!BusyIsTrue,
         v1'.epoch = v1.epoch, v1'.busy = v1.busy, "busy" \in v5 => "busy" \in v5',
         \A c : c.kind \in {"command", "commit"} => (c \in v2' <=> c \in v2)
  PROVE  GP!OneCommand' /\ GP!BusyIsTrue'
<1>1. GP!Of({"command", "commit"})' = GP!Of({"command", "commit"})
  BY DEF GP!Of
<1> QED
  BY <1>1 DEF GP!OneCommand, GP!BusyIsTrue

LEMMA CommandEnds ==
  ASSUME GP!OneCommand, NEW c \in GP!Of({"command", "commit"}),
         v1'.epoch = v1.epoch, v1'.busy = FALSE, v5 \cup GP!LateBusy(c) \subseteq v5',
         \A d : d.kind \in {"command", "commit"} => (d \in v2' <=> d \in v2 /\ d # c)
  PROVE  GP!OneCommand' /\ GP!BusyIsTrue'
<1>1. GP!Of({"command", "commit"})' = GP!Of({"command", "commit"}) \ {c}
  BY DEF GP!Of
<1>2. "busy" \notin v5' => "busy" \notin v5 /\ c.epoch = v1.epoch
  BY DEF GP!LateBusy
<1> QED
  BY <1>1, <1>2 DEF GP!OneCommand, GP!BusyIsTrue

LEMMA EpochsKeep ==
  ASSUME GP!Shapes, GP!EpochsAreOfProjects, v1'.project = v1.project, v1'.epoch = v1.epoch,
         \A c \in v2' : c.kind \in {"command", "commit", "link"} =>
           \/ c.epoch = v1.epoch /\ c.project = v1.project
           \/ \E d \in v2 : d.kind = c.kind /\ d.epoch = c.epoch /\ d.project = c.project
  PROVE  GP!EpochsAreOfProjects'
<1>1. v1.epoch \in Nat
  BY DEF GP!Shapes, GP!AnyPanel
<1> QED
  BY <1>1 DEF GP!EpochsAreOfProjects, GP!Of

(* What a step must leave for the credential shown to stay the linked one. *)
LEMMA LinkKeeps ==
  ASSUME GP!LinkIsUnderWay, GP!LinkedIsTrue,
         v1'.project = v1.project, v1'.linked = v1.linked, "linked" \in v5 => "linked" \in v5',
         v1.project # None => v3'[v1.project] = v3[v1.project],
         \A c : c.kind \in {"link", "meta"} /\ c.project = v1.project => (c \in v2' <=> c \in v2)
  PROVE  GP!LinkIsUnderWay' /\ GP!LinkedIsTrue'
<1> DEFINE p == v1.project
<1>1. \A c : c \in GP!Of({"link", "meta"})' /\ c.project = p
               <=> c \in GP!Of({"link", "meta"}) /\ c.project = p
  BY DEF GP!Of
<1>2. p # None => GP!RowOf(p)' = GP!RowOf(p)
  BY DEF GP!RowOf
<1>3. GP!LinkIsUnderWay'
  BY <1>1, <1>2 DEF GP!LinkIsUnderWay, GP!RowOf
<1>4. GP!LinkedIsTrue'
  BY <1>1, <1>2 DEF GP!LinkedIsTrue, GP!Crossed, GP!RowOf
<1> QED
  BY <1>3, <1>4

(* A request about the link of the project on the screen is the only one.  *)
LEMMA LinkStarts ==
  ASSUME v1'.project = v1.project,
         NEW n, n.kind = "link", n.project = v1.project, n.prev = v1.linked,
         n.st = "sent", v1'.linked = n.cred, v3' = v3,
         GP!Crossed(v1.project) => "linked" \in v5', "linked" \in v5 => "linked" \in v5',
         GP!LinkedIsTrue,
         \A c : c.kind \in {"link", "meta"} => (c \in v2' <=> c \in v2 \cup {n})
  PROVE  GP!LinkIsUnderWay' /\ GP!LinkedIsTrue'
<1> DEFINE p == v1.project
<1>1. GP!Of({"link", "meta"})' = GP!Of({"link", "meta"}) \cup {n}
  BY DEF GP!Of
<1>2. GP!LinkedIsTrue'
  BY <1>1 DEF GP!LinkedIsTrue, GP!Crossed
<1>3. ASSUME "linked" \notin v5', p # None
      PROVE  /\ \A c \in GP!Of({"link", "meta"}) : c.project # p
             /\ v1.linked \in GP!RowOf(p)
  BY <1>3 DEF GP!LinkedIsTrue, GP!Crossed
<1>4. GP!RowOf(p)' = GP!RowOf(p)
  BY DEF GP!RowOf
<1>5. GP!LinkIsUnderWay'
  BY <1>1, <1>3, <1>4 DEF GP!LinkIsUnderWay, GP!RowOf
<1> QED
  BY <1>2, <1>5

(* The one request moves on.                                               *)
LEMMA LinkMoves ==
  ASSUME GP!LinkIsUnderWay, "linked" \notin v5, v1.project # None, UNCHANGED <<v1, v5>>,
         NEW c \in GP!Of({"link", "meta"}), c.project = v1.project,
         NEW d, d.kind = c.kind, d.project = c.project, v2' = (v2 \ {c}) \cup {d},
         d.kind = "meta" /\ d.st = "read" => d.cred \in GP!RowOf(d.project)',
         d.kind = "link" => /\ d.cred = c.cred
                            /\ (IF d.st = "ok" THEN d.cred ELSE d.prev) \in GP!RowOf(d.project)'
  PROVE  GP!LinkIsUnderWay' /\ GP!LinkedIsTrue'
<1>1. \A x \in GP!Of({"link", "meta"}) : x.project = v1.project => x = c
  BY DEF GP!LinkIsUnderWay
<1>2. d \in GP!Of({"link", "meta"})'
      /\ \A x \in GP!Of({"link", "meta"})' : x.project = v1.project => x = d
  BY <1>1 DEF GP!Of
<1>3. d.kind = "link" => v1.linked = d.cred
  BY DEF GP!LinkIsUnderWay
<1>4. GP!LinkIsUnderWay'
  BY <1>2, <1>3 DEF GP!LinkIsUnderWay, GP!RowOf
<1>5. GP!LinkedIsTrue'
  BY <1>2 DEF GP!LinkedIsTrue, GP!Crossed
<1> QED
  BY <1>4, <1>5

(* It is answered.                                                         *)
LEMMA LinkEnds ==
  ASSUME GP!LinkIsUnderWay, GP!LinkedIsTrue, v1'.project = v1.project, v3' = v3,
         NEW c \in GP!Of({"link", "meta"}), v2' = v2 \ {c}, "linked" \in v5 => "linked" \in v5',
         c.project # v1.project /\ "linked" \notin v5' => v1'.linked = v1.linked,
         c.project = v1.project /\ v1.project # None /\ "linked" \notin v5' =>
           v1'.linked \in GP!RowOf(c.project)
  PROVE  GP!LinkIsUnderWay' /\ GP!LinkedIsTrue'
<1> DEFINE p == v1.project
<1>1. GP!Of({"link", "meta"})' = GP!Of({"link", "meta"}) \ {c}
  BY DEF GP!Of
<1>2. GP!RowOf(p)' = GP!RowOf(p)
  BY DEF GP!RowOf
<1>3. CASE "linked" \in v5' \/ p = None
  BY <1>3 DEF GP!LinkIsUnderWay, GP!LinkedIsTrue
<1>4. CASE "linked" \notin v5' /\ p # None /\ c.project = p
  <2>1. \A x \in GP!Of({"link", "meta"})' : x.project # p
    BY <1>1, <1>4 DEF GP!LinkIsUnderWay
  <2> QED
    BY <1>2, <1>4, <2>1 DEF GP!LinkIsUnderWay, GP!LinkedIsTrue, GP!Crossed, GP!RowOf
<1>5. CASE "linked" \notin v5' /\ p # None /\ c.project # p
  <2>1. GP!Crossed(p)' <=> GP!Crossed(p)
    BY <1>1, <1>5 DEF GP!Crossed
  <2>2. GP!LinkedIsTrue'
    BY <1>2, <1>5, <2>1 DEF GP!LinkedIsTrue, GP!RowOf, GP!Crossed
  <2>3. GP!LinkIsUnderWay'
    BY <1>1, <1>2, <1>5 DEF GP!LinkIsUnderWay, GP!RowOf
  <2> QED
    BY <2>2, <2>3
<1> QED
  BY <1>3, <1>4, <1>5

(* Steps that only show what was read, and reads under way.                *)
LEMMA PanelKeeps ==
  ASSUME GP!InductiveInv, GP!Shapes', GP!ShowsProject', v3' = v3,
         v1'.project = v1.project, v1'.epoch = v1.epoch, v1'.busy = v1.busy,
         v1'.linked = v1.linked,
         "busy" \in v5 => "busy" \in v5', "linked" \in v5 => "linked" \in v5',
         \A c : c.kind \in {"command", "commit", "link", "meta"} => (c \in v2' <=> c \in v2)
  PROVE  GP!InductiveInv'
<1>1. GP!Shapes /\ GP!EpochsAreOfProjects /\ GP!OneCommand /\ GP!LinkIsUnderWay
      /\ GP!BusyIsTrue /\ GP!LinkedIsTrue
  BY DEF GP!InductiveInv, GP!PanelIsOfProject
<1>2. GP!OneCommand' /\ GP!BusyIsTrue'
  BY <1>1, CommandsKeep
<1>3. GP!LinkIsUnderWay' /\ GP!LinkedIsTrue'
  BY <1>1, LinkKeeps
<1>4. GP!EpochsAreOfProjects'
  BY <1>1, EpochsKeep
<1> QED
  BY <1>2, <1>3, <1>4 DEF GP!InductiveInv, GP!PanelIsOfProject

LEMMA PanelStays ==
  ASSUME GP!InductiveInv, UNCHANGED GP!panelVars
  PROVE  GP!InductiveInv'
<1>1. GP!Shapes' /\ GP!ShowsProject'
  BY DEF GP!InductiveInv, GP!PanelIsOfProject, GP!Shapes, GP!ShowsProject, GP!panelVars
<1> QED
  BY <1>1, PanelKeeps DEF GP!panelVars

(* The parts of the invariant, and the kinds of the fields.                *)
LEMMA PanelParts ==
  ASSUME GP!InductiveInv
  PROVE  /\ GP!Shapes /\ GP!EpochsAreOfProjects /\ GP!OneCommand /\ GP!LinkIsUnderWay
         /\ GP!ShowsProject /\ GP!BusyIsTrue /\ GP!LinkedIsTrue
         /\ v1 \in GP!AnyPanel /\ v2 \subseteq GP!AnyCall
         /\ v1.project \in GP!AnyProject /\ v1.epoch \in Nat /\ v1.linked \in GP!AnyCred
         /\ v3 \in [Projects -> SUBSET GP!AnyCred] /\ v4 \subseteq Creds
         /\ \A c \in v2 : c \in GP!AnyCall /\ c.project \in Projects
                          /\ c.cred \in GP!AnyCred /\ c.prev \in GP!AnyCred /\ c.epoch \in Nat
<1>1. v1 \in GP!AnyPanel /\ v2 \subseteq GP!AnyCall
      /\ v3 \in [Projects -> SUBSET GP!AnyCred] /\ v4 \subseteq Creds
  BY DEF GP!InductiveInv, GP!Shapes
<1>2. v1.project \in GP!AnyProject /\ v1.epoch \in Nat /\ v1.linked \in GP!AnyCred
  BY <1>1 DEF GP!AnyPanel
<1>3. \A c \in v2 : c \in GP!AnyCall /\ c.project \in Projects
                    /\ c.cred \in GP!AnyCred /\ c.prev \in GP!AnyCred /\ c.epoch \in Nat
  BY <1>1 DEF GP!AnyCall
<1> QED
  BY <1>1, <1>2, <1>3 DEF GP!InductiveInv, GP!PanelIsOfProject

LEMMA PanelReads ==
  ASSUME GP!InductiveInv,
         GP!Refresh \/ GP!OpenDialog \/ GP!DismissAuth
           \/ (\E c \in v2 : GP!StatusArrives(c) \/ GP!LogArrives(c))
  PROVE  GP!InductiveInv'
<1> DEFINE p == v1.project
           reads == GP!Reads({"status"}, p)
<1>1. /\ GP!Shapes /\ GP!ShowsProject /\ v1 \in GP!AnyPanel /\ v2 \subseteq GP!AnyCall
      /\ p \in GP!AnyProject
      /\ \A c \in v2 : c.project \in Projects
  BY PanelParts
<1>2. reads \subseteq GP!AnyCall /\ \A c \in reads : c.kind = "status"
  <2>1. {"status"} \in SUBSET GP!Loaded
    BY DEF GP!Loaded
  <2> HIDE DEF p
  <2> QED
    BY <1>1, <2>1, ReadsAreCalls
<1> HIDE DEF reads
<1>3. CASE GP!Refresh
  <2>1. v2' = v2 \cup reads /\ UNCHANGED <<v1, v3, v4, v5>>
    BY <1>3 DEF GP!Refresh, reads
  <2>2. GP!Shapes' /\ GP!ShowsProject'
    BY <1>1, <1>2, <2>1 DEF GP!Shapes, GP!ShowsProject
  <2> QED
    BY <1>2, <2>1, <2>2, PanelKeeps
<1>4. CASE GP!OpenDialog
  <2>1. v2' = v2 \cup reads /\ UNCHANGED <<v3, v4, v5>> /\ p # None
        /\ v1' = [v1 EXCEPT !.dialog = TRUE]
    BY <1>4 DEF GP!OpenDialog, GP!Visible, reads
  <2>2. /\ v1' \in GP!AnyPanel /\ v1'.project = p /\ v1'.epoch = v1.epoch
        /\ v1'.busy = v1.busy /\ v1'.linked = v1.linked
        /\ v1'.log = v1.log /\ v1'.status = v1.status /\ v1'.auth = v1.auth
    BY <1>1, <2>1 DEF GP!AnyPanel
  <2>3. GP!Shapes' /\ GP!ShowsProject'
    BY <1>1, <1>2, <2>1, <2>2 DEF GP!Shapes, GP!ShowsProject
  <2> QED
    BY <1>2, <2>1, <2>2, <2>3, PanelKeeps
<1>5. CASE GP!DismissAuth
  <2>1. UNCHANGED <<v2, v3, v4, v5>> /\ v1' = [v1 EXCEPT !.auth = None]
    BY <1>5 DEF GP!DismissAuth
  <2>2. /\ v1' \in GP!AnyPanel /\ v1'.project = p /\ v1'.epoch = v1.epoch
        /\ v1'.busy = v1.busy /\ v1'.linked = v1.linked /\ v1'.dialog = v1.dialog
        /\ v1'.log = v1.log /\ v1'.status = v1.status /\ v1'.auth = None
    BY <1>1, <2>1 DEF GP!AnyPanel, GP!AnyProject
  <2>3. GP!Shapes' /\ GP!ShowsProject'
    BY <1>1, <2>1, <2>2 DEF GP!Shapes, GP!ShowsProject
  <2> QED
    BY <2>1, <2>2, <2>3, PanelKeeps
<1>6. ASSUME NEW c \in v2, GP!StatusArrives(c)
      PROVE  GP!InductiveInv'
  <2>1. /\ v1' = [v1 EXCEPT !.status = c.project] /\ c.kind = "status"
        /\ v2' = v2 \ {c} \/ v2' = (v2 \ {c}) \cup reads
        /\ v5' = (IF c.project = p THEN v5 \ {"status"} ELSE v5 \cup {"status"})
        /\ UNCHANGED <<v3, v4>>
    BY <1>6 DEF GP!StatusArrives, GP!Stray, GP!Of, reads
  <2>2. /\ v1' \in GP!AnyPanel /\ v1'.project = p /\ v1'.epoch = v1.epoch
        /\ v1'.busy = v1.busy /\ v1'.linked = v1.linked /\ v1'.dialog = v1.dialog
        /\ v1'.log = v1.log /\ v1'.status = c.project /\ v1'.auth = v1.auth
    BY <1>1, <2>1 DEF GP!AnyPanel, GP!AnyProject
  <2>3. GP!Shapes' /\ GP!ShowsProject'
    BY <1>1, <1>2, <2>1, <2>2 DEF GP!Shapes, GP!ShowsProject
  <2> QED
    BY <1>2, <2>1, <2>2, <2>3, PanelKeeps
<1>7. ASSUME NEW c \in v2, GP!LogArrives(c)
      PROVE  GP!InductiveInv'
  <2>1. /\ \/ v1' = v1
           \/ v1' = [v1 EXCEPT !.log = c.project] /\ c.project = p
        /\ c.kind = "log" /\ v2' = v2 \ {c} /\ UNCHANGED <<v3, v4, v5>>
    BY <1>7 DEF GP!LogArrives, GP!Of
  <2>2. /\ v1' \in GP!AnyPanel /\ v1'.project = p /\ v1'.epoch = v1.epoch
        /\ v1'.busy = v1.busy /\ v1'.linked = v1.linked /\ v1'.dialog = v1.dialog
        /\ v1'.log \in {v1.log, p} /\ v1'.status = v1.status /\ v1'.auth = v1.auth
    BY <1>1, <2>1 DEF GP!AnyPanel, GP!AnyProject
  <2>3. GP!Shapes' /\ GP!ShowsProject'
    BY <1>1, <2>1, <2>2 DEF GP!Shapes, GP!ShowsProject
  <2> QED
    BY <2>1, <2>2, <2>3, PanelKeeps
<1> QED
  BY <1>3, <1>4, <1>5, <1>6, <1>7

(* Another project on the screen: nothing of an earlier one counts.        *)
LEMMA PanelSwitches ==
  ASSUME GP!InductiveInv, NEW p \in GP!AnyProject, GP!SetProject(p)
  PROVE  GP!InductiveInv'
<1> DEFINE reads == GP!Reads(GP!Loaded, p)
<1>1. /\ GP!Shapes /\ GP!EpochsAreOfProjects /\ v2 \subseteq GP!AnyCall /\ v1.epoch \in Nat
      /\ \A c \in v2 : c.epoch \in Nat
  BY PanelParts
<1>2. /\ v1' = GP!Initial(p, v1.epoch + 1) /\ v2' = v2 \cup reads /\ UNCHANGED <<v3, v4>>
      /\ v5' = IF GP!Crossed(p) THEN {"linked"} ELSE {}
  BY DEF GP!SetProject, GP!Crossed
<1>3. /\ v1' \in GP!AnyPanel /\ v1'.project = p /\ v1'.epoch = v1.epoch + 1
      /\ v1'.linked = None /\ v1'.status = None /\ v1'.log = None /\ v1'.auth = None
      /\ v1'.busy = FALSE /\ v1'.dialog = FALSE
  <2>1. v1.epoch + 1 \in Nat
    BY <1>1
  <2> QED
    BY <1>2, <2>1 DEF GP!Initial, GP!AnyPanel, GP!AnyProject, GP!AnyCred
<1>4. /\ reads \subseteq GP!AnyCall
      /\ \A c \in reads : c.kind \in {"status", "log", "meta"} /\ c.st = "sent"
      /\ \A c \in reads : c.kind = "meta" => c = GP!Call("meta", p)
      /\ p # None => GP!Call("meta", p) \in reads
  <2>1. \A c \in reads : \E k \in GP!Loaded : c = GP!Call(k, p) /\ c.kind = k
    BY DEF GP!Reads, GP!Call
  <2>2. p # None => GP!Call("meta", p) \in reads
    BY DEF GP!Reads, GP!Loaded
  <2>3. GP!Loaded = {"status", "log", "meta"}
    BY DEF GP!Loaded
  <2>4. reads \subseteq GP!AnyCall /\ \A c \in reads : c.kind \in GP!Loaded /\ c.st = "sent"
    BY ReadsAreCalls
  <2> HIDE DEF reads
  <2> QED
    BY <2>1, <2>2, <2>3, <2>4
<1> HIDE DEF reads
<1>5. GP!Shapes'
  BY <1>1, <1>2, <1>3, <1>4 DEF GP!Shapes
<1>6. \A c \in GP!Of({"command", "commit", "link"})' :
        c \in GP!Of({"command", "commit", "link"}) /\ c.epoch < v1'.epoch
  BY <1>1, <1>2, <1>3, <1>4 DEF GP!Of, GP!EpochsAreOfProjects
<1>7. GP!EpochsAreOfProjects'
  BY <1>1, <1>2, <1>3, <1>6 DEF GP!EpochsAreOfProjects, GP!Of
<1>8. \A c \in GP!Of({"command", "commit"})' : c.epoch # v1'.epoch
  BY <1>1, <1>2, <1>3, <1>6 DEF GP!Of
<1>9. GP!OneCommand' /\ GP!BusyIsTrue' /\ GP!ShowsProject'
  BY <1>3, <1>8 DEF GP!OneCommand, GP!BusyIsTrue, GP!ShowsProject
<1>10. ASSUME "linked" \notin v5'
       PROVE  \A c \in GP!Of({"link", "meta"})' :
                c.project = p => c = GP!Call("meta", p) /\ c.kind = "meta" /\ c.st = "sent"
  BY <1>2, <1>4, <1>10 DEF GP!Of, GP!Crossed
<1>11. GP!LinkIsUnderWay'
  BY <1>3, <1>10 DEF GP!LinkIsUnderWay
<1>12. GP!LinkedIsTrue'
  <2>1. p # None => GP!Crossed(p)'
    BY <1>2, <1>4 DEF GP!Crossed, GP!Of, GP!Call
  <2> QED
    BY <1>3, <2>1 DEF GP!LinkedIsTrue, GP!Crossed
<1> QED
  BY <1>5, <1>7, <1>9, <1>11, <1>12 DEF GP!InductiveInv, GP!PanelIsOfProject

(* A step about the link alone.                                            *)
LEMMA PanelLinks ==
  ASSUME GP!InductiveInv, GP!Shapes', GP!LinkIsUnderWay' /\ GP!LinkedIsTrue',
         v1'.project = v1.project, v1'.epoch = v1.epoch, v1'.busy = v1.busy,
         v1'.log = v1.log, v1'.status = v1.status, v1'.auth = v1.auth,
         \A f \in {"busy", "status", "auth"} : f \in v5' <=> f \in v5,
         \A c : c.kind \in {"command", "commit"} => (c \in v2' <=> c \in v2),
         \A c \in v2' : c.kind = "link" =>
           \/ c.epoch = v1.epoch /\ c.project = v1.project
           \/ \E d \in v2 : d.kind = c.kind /\ d.epoch = c.epoch /\ d.project = c.project
  PROVE  GP!InductiveInv'
<1>1. GP!Shapes /\ GP!EpochsAreOfProjects /\ GP!OneCommand /\ GP!BusyIsTrue /\ GP!ShowsProject
  BY PanelParts
<1>2. GP!OneCommand' /\ GP!BusyIsTrue'
  BY <1>1, CommandsKeep
<1>3. GP!EpochsAreOfProjects'
  <2>1. \A c \in v2' : c.kind \in {"command", "commit"} => c \in v2
    OBVIOUS
  <2> QED
    BY <1>1, <2>1, EpochsKeep
<1>4. GP!ShowsProject'
  BY <1>1 DEF GP!ShowsProject
<1> QED
  BY <1>2, <1>3, <1>4 DEF GP!InductiveInv, GP!PanelIsOfProject

(* A request that moves on keeps all but its state and what it read.       *)
LEMMA PanelLinkMoves ==
  ASSUME GP!InductiveInv, UNCHANGED <<v1, v4, v5>>, NEW c \in v2, c.kind \in {"link", "meta"},
         NEW d \in GP!AnyCall, d.kind = c.kind, d.project = c.project, d.epoch = c.epoch,
         d.cred = c.cred \/ d.kind = "meta", d.prev = c.prev, v2' = (v2 \ {c}) \cup {d},
         v3' \in [Projects -> SUBSET GP!AnyCred],
         \A q \in Projects : q # c.project => v3'[q] = v3[q],
         d.kind = "meta" /\ d.st = "read" => d.cred \in GP!RowOf(d.project)',
         d.kind = "link" /\ d.st = "ok" => d.cred \in GP!RowOf(d.project)',
         d.kind = "link" /\ d.st # "ok" => v3'[c.project] = v3[c.project] /\ c.st # "ok"
  PROVE  GP!InductiveInv'
<1>1. /\ GP!Shapes /\ GP!LinkIsUnderWay /\ GP!LinkedIsTrue
      /\ v1.project \in GP!AnyProject /\ v2 \subseteq GP!AnyCall
  BY PanelParts
<1>2. GP!Shapes'
  BY <1>1 DEF GP!Shapes
<1>3. c \in GP!Of({"link", "meta"})
  BY DEF GP!Of
<1>4. GP!LinkIsUnderWay' /\ GP!LinkedIsTrue'
  <2>1. CASE "linked" \in v5 \/ v1.project = None
    BY <2>1 DEF GP!LinkIsUnderWay, GP!LinkedIsTrue
  <2>2. CASE "linked" \notin v5 /\ v1.project # None /\ c.project # v1.project
    BY <1>1, <2>2, LinkKeeps DEF GP!AnyProject
  <2>3. CASE "linked" \notin v5 /\ v1.project # None /\ c.project = v1.project
    <3>1. d.kind = "link" /\ d.st # "ok" => d.prev \in GP!RowOf(d.project)'
      BY <1>1, <1>3, <2>3 DEF GP!LinkIsUnderWay, GP!RowOf
    <3>2. d.kind = "link" => d.cred = c.cred
      OBVIOUS
    <3> QED
      BY <1>1, <1>3, <2>3, <3>1, <3>2, LinkMoves
  <2> QED
    BY <2>1, <2>2, <2>3
<1>5. GP!ShowsProject
  BY PanelParts
<1> QED
  BY <1>2, <1>4, PanelLinks

LEMMA PanelMetadata ==
  ASSUME GP!InductiveInv, NEW c \in v2,
         GP!ReadFails(c) \/ GP!MetadataIsRead(c) \/ GP!MetadataArrives(c)
  PROVE  GP!InductiveInv'
<1>1. /\ GP!Shapes /\ GP!LinkIsUnderWay /\ GP!LinkedIsTrue /\ GP!ShowsProject
      /\ v1 \in GP!AnyPanel /\ v2 \subseteq GP!AnyCall
      /\ v3 \in [Projects -> SUBSET GP!AnyCred]
      /\ c \in GP!AnyCall /\ c.project \in Projects /\ c.cred \in GP!AnyCred
  BY PanelParts
<1>2. CASE GP!ReadFails(c)
  <2>1. /\ UNCHANGED <<v1, v3, v4>> /\ v2' = v2 \ {c} /\ c.kind \in {"status", "log", "meta"}
        /\ v5' = (IF c.kind = "meta" /\ c.project = v1.project THEN v5 \cup {"linked"} ELSE v5)
    BY <1>2 DEF GP!ReadFails, GP!Of, GP!Loaded
  <2>2. GP!Shapes' /\ GP!ShowsProject'
    BY <1>1, <2>1 DEF GP!Shapes, GP!ShowsProject
  <2>3. CASE c.kind = "meta"
    <3>1. GP!LinkIsUnderWay' /\ GP!LinkedIsTrue'
      BY <1>1, <2>1, <2>3, LinkEnds DEF GP!Of
    <3> QED
      BY <2>1, <2>2, <2>3, <3>1, PanelLinks
  <2>4. CASE c.kind # "meta"
    BY <2>1, <2>2, <2>4, PanelKeeps
  <2> QED
    BY <2>3, <2>4
<1>3. CASE GP!MetadataIsRead(c)
  <2>1. PICK x \in GP!RowOf(c.project) : v2' = (v2 \ {c}) \cup {[c EXCEPT !.st = "read", !.cred = x]}
    BY <1>3 DEF GP!MetadataIsRead
  <2>2. UNCHANGED <<v1, v3, v4, v5>> /\ c.kind = "meta"
    BY <1>3 DEF GP!MetadataIsRead, GP!Of
  <2>3. x \in GP!AnyCred /\ x \in GP!RowOf(c.project)'
    BY <1>1, <2>2 DEF GP!RowOf, GP!AnyCred
  <2> DEFINE d == [c EXCEPT !.st = "read", !.cred = x]
  <2>4. /\ d \in GP!AnyCall /\ d.kind = c.kind /\ d.project = c.project /\ d.epoch = c.epoch
        /\ d.prev = c.prev /\ d.cred = x /\ d.st = "read"
    BY <1>1, <2>3 DEF GP!AnyCall
  <2>5. v2' = (v2 \ {c}) \cup {d}
    BY <2>1
  <2> HIDE DEF d
  <2>6. d.cred \in GP!RowOf(d.project)'
    BY <2>2, <2>3, <2>4 DEF GP!RowOf
  <2> QED
    BY <1>1, <2>2, <2>4, <2>5, <2>6, PanelLinkMoves
<1>4. CASE GP!MetadataArrives(c)
  <2>1. /\ UNCHANGED <<v3, v4, v5>> /\ v2' = v2 \ {c} /\ c.kind = "meta" /\ c.st = "read"
        /\ v1' = IF c.project = v1.project THEN [v1 EXCEPT !.linked = c.cred] ELSE v1
    BY <1>4 DEF GP!MetadataArrives, GP!Of
  <2>2. /\ v1' \in GP!AnyPanel /\ v1'.project = v1.project /\ v1'.epoch = v1.epoch
        /\ v1'.busy = v1.busy /\ v1'.dialog = v1.dialog
        /\ v1'.log = v1.log /\ v1'.status = v1.status /\ v1'.auth = v1.auth
        /\ v1'.linked = IF c.project = v1.project THEN c.cred ELSE v1.linked
    BY <1>1, <2>1 DEF GP!AnyPanel
  <2>3. GP!Shapes'
    BY <1>1, <2>1, <2>2 DEF GP!Shapes
  <2>4. c.project = v1.project /\ v1.project # None /\ "linked" \notin v5 =>
          c.cred \in GP!RowOf(c.project)
    BY <1>1, <2>1 DEF GP!LinkIsUnderWay, GP!Of
  <2>5. GP!LinkIsUnderWay' /\ GP!LinkedIsTrue'
    BY <1>1, <2>1, <2>2, <2>4, LinkEnds DEF GP!Of
  <2> QED
    BY <2>1, <2>2, <2>3, <2>5, PanelLinks
<1> QED
  BY <1>2, <1>3, <1>4

LEMMA PanelLinkRequests ==
  ASSUME GP!InductiveInv, NEW c \in v2,
         GP!LinkIsChecked(c) \/ GP!LinkUpdates(c) \/ GP!LinkInserts(c)
  PROVE  GP!InductiveInv'
<1>1. /\ v2 \subseteq GP!AnyCall /\ v3 \in [Projects -> SUBSET GP!AnyCred]
      /\ c \in GP!AnyCall /\ c.project \in Projects /\ c.cred \in GP!AnyCred
  BY PanelParts
<1>2. c.kind = "link" /\ c.st # "ok" /\ UNCHANGED <<v1, v4, v5>>
  BY DEF GP!LinkIsChecked, GP!LinkUpdates, GP!LinkInserts, GP!Of
<1>3. \A t \in {"checked", "insert", "ok", "refused"} :
        LET d == [c EXCEPT !.st = t]
        IN  /\ d \in GP!AnyCall /\ d.kind = c.kind /\ d.project = c.project
            /\ d.epoch = c.epoch /\ d.prev = c.prev /\ d.cred = c.cred /\ d.st = t
  BY <1>1 DEF GP!AnyCall
<1>4. ASSUME NEW t \in {"checked", "insert", "ok", "refused"}, GP!Moves(c, t),
             v3' \in [Projects -> SUBSET GP!AnyCred],
             \A q \in Projects : q # c.project => v3'[q] = v3[q],
             t = "ok" => c.cred \in v3'[c.project], t # "ok" => v3' = v3
      PROVE  GP!InductiveInv'
  <2> DEFINE d == [c EXCEPT !.st = t]
  <2>1. v2' = (v2 \ {c}) \cup {d}
    BY <1>4 DEF GP!Moves
  <2>2. /\ d \in GP!AnyCall /\ d.kind = c.kind /\ d.project = c.project
        /\ d.epoch = c.epoch /\ d.prev = c.prev /\ d.cred = c.cred /\ d.st = t
    BY <1>3
  <2> HIDE DEF d
  <2>3. t = "ok" => d.cred \in GP!RowOf(d.project)'
    BY <1>4, <2>2 DEF GP!RowOf
  <2> QED
    BY <1>2, <1>4, <2>1, <2>2, <2>3, PanelLinkMoves
<1>5. CASE GP!LinkIsChecked(c)
  <2>1. v3' = v3 /\ (GP!Moves(c, "checked") \/ GP!Moves(c, "refused"))
    BY <1>5 DEF GP!LinkIsChecked
  <2> QED
    BY <1>1, <1>4, <2>1
<1>6. CASE GP!LinkUpdates(c)
  <2>1. \/ v3' = v3 /\ (GP!Moves(c, "insert") \/ GP!Moves(c, "refused"))
        \/ GP!Moves(c, "ok") /\ v3' = [v3 EXCEPT ![c.project] = {c.cred}]
    BY <1>6 DEF GP!LinkUpdates
  <2> QED
    BY <1>1, <1>4, <2>1
<1>7. CASE GP!LinkInserts(c)
  <2>1. \/ v3' = v3 /\ GP!Moves(c, "refused")
        \/ GP!Moves(c, "ok") /\ v3' = [v3 EXCEPT ![c.project] = @ \cup {c.cred}]
    BY <1>7 DEF GP!LinkInserts
  <2> QED
    BY <1>1, <1>4, <2>1
<1> QED
  BY <1>5, <1>6, <1>7

\* The request of a change of the link.
LinkCall(cred) ==
  [GP!Call("link", v1.project) EXCEPT !.epoch = v1.epoch, !.cred = cred, !.prev = v1.linked]

LEMMA LinkRequest ==
  ASSUME GP!InductiveInv, v1.project # None, NEW cred \in GP!AnyCred
  PROVE  /\ GP!Linking(cred) = {LinkCall(cred)} /\ LinkCall(cred) \in GP!AnyCall
         /\ LinkCall(cred).kind = "link" /\ LinkCall(cred).project = v1.project
         /\ LinkCall(cred).epoch = v1.epoch /\ LinkCall(cred).cred = cred
         /\ LinkCall(cred).prev = v1.linked /\ LinkCall(cred).st = "sent"
<1>1. v1.project \in Projects /\ v1.epoch \in Nat /\ v1.linked \in GP!AnyCred
  BY PanelParts DEF GP!AnyProject
<1>2. GP!Linking(cred) = {LinkCall(cred)}
  BY DEF GP!Linking, LinkCall
<1> QED
  BY <1>1, <1>2 DEF LinkCall, GP!Call, GP!AnyCall, GP!AnyCred

LEMMA PanelLinkChanges ==
  ASSUME GP!InductiveInv,
         \/ \E cred \in Creds \cup {None} : GP!LinkCredential(cred)
         \/ \E cred \in Creds : GP!DeleteCredential(cred)
         \/ \E c \in v2 : GP!LinkSucceeds(c) \/ GP!LinkFails(c)
  PROVE  GP!InductiveInv'
<1>1. /\ GP!Shapes /\ GP!LinkIsUnderWay /\ GP!LinkedIsTrue /\ GP!EpochsAreOfProjects
      /\ v1 \in GP!AnyPanel /\ v2 \subseteq GP!AnyCall /\ v4 \subseteq Creds
      /\ v3 \in [Projects -> SUBSET GP!AnyCred]
      /\ \A c \in v2 : c \in GP!AnyCall /\ c.project \in Projects /\ c.prev \in GP!AnyCred
  BY PanelParts
<1>2. ASSUME NEW cred \in Creds \cup {None}, GP!LinkCredential(cred)
      PROVE  GP!InductiveInv'
  <2>1. /\ v1.project # None /\ v2' = v2 \cup GP!Linking(cred) /\ UNCHANGED <<v3, v4>>
        /\ v1' = [v1 EXCEPT !.linked = cred]
        /\ v5' = IF GP!Crossed(v1.project) THEN v5 \cup {"linked"} ELSE v5
    BY <1>2 DEF GP!LinkCredential, GP!Visible
  <2> DEFINE n == LinkCall(cred)
  <2>2. /\ n \in GP!AnyCall /\ n.kind = "link" /\ n.project = v1.project
        /\ n.epoch = v1.epoch /\ n.cred = cred /\ n.prev = v1.linked /\ n.st = "sent"
        /\ v2' = v2 \cup {n}
    BY <2>1, LinkRequest DEF GP!AnyCred
  <2> HIDE DEF n
  <2>3. /\ v1' \in GP!AnyPanel /\ v1'.project = v1.project /\ v1'.epoch = v1.epoch
        /\ v1'.busy = v1.busy /\ v1'.dialog = v1.dialog /\ v1'.linked = cred
        /\ v1'.log = v1.log /\ v1'.status = v1.status /\ v1'.auth = v1.auth
    BY <1>1, <2>1 DEF GP!AnyPanel, GP!AnyCred
  <2>4. GP!Shapes'
    BY <1>1, <2>1, <2>2, <2>3 DEF GP!Shapes
  <2>5. GP!LinkIsUnderWay' /\ GP!LinkedIsTrue'
    BY <1>1, <2>1, <2>2, <2>3, LinkStarts
  <2> QED
    BY <2>1, <2>2, <2>3, <2>4, <2>5, PanelLinks
<1>3. ASSUME NEW cred \in Creds, GP!DeleteCredential(cred)
      PROVE  GP!InductiveInv'
  <2>1. /\ UNCHANGED <<v1, v2>> /\ v4' \subseteq v4 /\ v5' = v5 \cup {"linked"}
        /\ v3' = [p \in Projects |-> {IF x = cred THEN None ELSE x : x \in v3[p]}]
    BY <1>3 DEF GP!DeleteCredential
  <2>2. v3' \in [Projects -> SUBSET GP!AnyCred]
    BY <1>1, <2>1 DEF GP!AnyCred
  <2>3. GP!Shapes'
    BY <1>1, <2>1, <2>2 DEF GP!Shapes
  <2>4. GP!LinkIsUnderWay' /\ GP!LinkedIsTrue'
    BY <2>1 DEF GP!LinkIsUnderWay, GP!LinkedIsTrue
  <2> QED
    BY <2>1, <2>3, <2>4, PanelLinks
<1>4. ASSUME NEW c \in v2, GP!LinkSucceeds(c)
      PROVE  GP!InductiveInv'
  <2>1. UNCHANGED <<v1, v3, v4, v5>> /\ v2' = v2 \ {c} /\ c.kind = "link" /\ c.st = "ok"
    BY <1>4 DEF GP!LinkSucceeds, GP!Of
  <2>2. GP!Shapes'
    BY <1>1, <2>1 DEF GP!Shapes
  <2>3. c \in GP!Of({"link", "meta"})
    BY <2>1 DEF GP!Of
  <2>4. c.project = v1.project /\ v1.project # None /\ "linked" \notin v5 =>
          v1.linked \in GP!RowOf(c.project)
    BY <1>1, <2>1, <2>3 DEF GP!LinkIsUnderWay
  <2>5. GP!LinkIsUnderWay' /\ GP!LinkedIsTrue'
    BY <1>1, <2>1, <2>3, <2>4, LinkEnds
  <2> QED
    BY <2>1, <2>2, <2>5, PanelLinks
<1>5. ASSUME NEW c \in v2, GP!LinkFails(c)
      PROVE  GP!InductiveInv'
  <2>1. /\ UNCHANGED <<v3, v4>> /\ v2' = v2 \ {c} /\ c.kind = "link"
        /\ v1' = [v1 EXCEPT !.linked = c.prev]
        /\ v5' = (IF c.st = "ok" \/ c.epoch # v1.epoch THEN v5 \cup {"linked"} ELSE v5)
    BY <1>5 DEF GP!LinkFails, GP!Of
  <2>2. /\ v1' \in GP!AnyPanel /\ v1'.project = v1.project /\ v1'.epoch = v1.epoch
        /\ v1'.busy = v1.busy /\ v1'.dialog = v1.dialog /\ v1'.linked = c.prev
        /\ v1'.log = v1.log /\ v1'.status = v1.status /\ v1'.auth = v1.auth
    BY <1>1, <2>1 DEF GP!AnyPanel
  <2>3. GP!Shapes'
    BY <1>1, <2>1, <2>2 DEF GP!Shapes
  <2>4. c \in GP!Of({"link", "meta"}) /\ c \in GP!Of({"command", "commit", "link"})
    BY <2>1 DEF GP!Of
  <2>5. "linked" \notin v5' => c.project = v1.project /\ c.st # "ok" /\ "linked" \notin v5
    BY <1>1, <2>1, <2>4 DEF GP!EpochsAreOfProjects
  <2>6. v1.project # None /\ "linked" \notin v5' => c.prev \in GP!RowOf(c.project)
    BY <1>1, <2>1, <2>4, <2>5 DEF GP!LinkIsUnderWay
  <2>7. "linked" \in v5 => "linked" \in v5'
    BY <2>1
  <2>8. GP!LinkIsUnderWay' /\ GP!LinkedIsTrue'
    BY <1>1, <2>1, <2>2, <2>4, <2>5, <2>6, <2>7, LinkEnds
  <2> QED
    BY <2>1, <2>2, <2>3, <2>8, PanelLinks
<1> QED
  BY <1>2, <1>3, <1>4, <1>5

(* A command starts while none of the panel's runs.                        *)
LEMMA PanelCommands ==
  ASSUME GP!InductiveInv, GP!Pull \/ GP!Checkout \/ GP!Retry \/ GP!CommitFiles
  PROVE  GP!InductiveInv'
<1>1. /\ GP!Shapes /\ GP!EpochsAreOfProjects /\ GP!BusyIsTrue /\ GP!ShowsProject
      /\ GP!LinkIsUnderWay /\ GP!LinkedIsTrue
      /\ v1 \in GP!AnyPanel /\ v2 \subseteq GP!AnyCall /\ v1.linked \in GP!AnyCred
      /\ v1.epoch \in Nat /\ v1.project \in GP!AnyProject
  BY PanelParts
<1>2. v1.busy = FALSE /\ v1.project \in Projects
  <2>1. ~v1.busy /\ v1.project \in Projects
    BY <1>1 DEF GP!Pull, GP!Checkout, GP!Retry, GP!CommitFiles, GP!Visible, GP!Shapes,
       GP!AnyProject
  <2>2. v1.busy \in BOOLEAN
    BY <1>1 DEF GP!AnyPanel
  <2> QED
    BY <2>1, <2>2
<1> DEFINE Starts(n) ==
             /\ n.kind \in {"command", "commit"} /\ n.epoch = v1.epoch /\ n.project = v1.project
             /\ v2' = v2 \cup {n}
             /\ v1' = [v1 EXCEPT !.busy = TRUE] \/ v1' = [v1 EXCEPT !.busy = TRUE, !.dialog = FALSE]
             /\ UNCHANGED <<v3, v4, v5>>
<1>3. \E n \in GP!AnyCall : Starts(n)
  <2>1. CASE GP!CommitFiles
    <3> DEFINE n == [GP!Call("commit", v1.project) EXCEPT !.epoch = v1.epoch]
    <3>1. n \in GP!AnyCall /\ n.kind = "commit" /\ n.epoch = v1.epoch /\ n.project = v1.project
      BY <1>1, <1>2 DEF GP!Call, GP!AnyCall, GP!AnyCred
    <3>2. v2' = v2 \cup {n} /\ v1' = [v1 EXCEPT !.busy = TRUE, !.dialog = FALSE]
          /\ UNCHANGED <<v3, v4, v5>>
      BY <2>1 DEF GP!CommitFiles
    <3> HIDE DEF n
    <3> QED
      BY <3>1, <3>2
  <2>2. ASSUME NEW remote \in BOOLEAN, NEW cred \in GP!AnyCred, GP!Execute(remote, cred)
        PROVE  \E n \in GP!AnyCall : Starts(n)
    <3> DEFINE n == [GP!Call("command", v1.project) EXCEPT
                       !.epoch = v1.epoch, !.remote = remote, !.cred = cred]
    <3>1. n \in GP!AnyCall /\ n.kind = "command" /\ n.epoch = v1.epoch /\ n.project = v1.project
      BY <1>1, <1>2 DEF GP!Call, GP!AnyCall, GP!AnyCred
    <3>2. v2' = v2 \cup {n} /\ v1' = [v1 EXCEPT !.busy = TRUE] /\ UNCHANGED <<v3, v4, v5>>
      BY <2>2 DEF GP!Execute
    <3> HIDE DEF n
    <3> QED
      BY <3>1, <3>2
  <2>3. None \in GP!AnyCred
    BY DEF GP!AnyCred
  <2> QED
    BY <1>1, <2>1, <2>2, <2>3 DEF GP!Pull, GP!Checkout, GP!Retry
<1>4. PICK n \in GP!AnyCall : Starts(n)
  BY <1>3
<1>5. /\ v1' \in GP!AnyPanel /\ v1'.project = v1.project /\ v1'.epoch = v1.epoch
      /\ v1'.busy = TRUE /\ v1'.linked = v1.linked /\ v1'.log = v1.log
      /\ v1'.status = v1.status /\ v1'.auth = v1.auth /\ (v1'.dialog => v1.dialog)
  BY <1>1, <1>4 DEF GP!AnyPanel
<1>6. GP!Shapes' /\ GP!ShowsProject'
  BY <1>1, <1>4, <1>5 DEF GP!Shapes, GP!ShowsProject
<1>7. GP!OneCommand' /\ GP!BusyIsTrue'
  <2>1. v1'.epoch = v1.epoch /\ v1'.busy = TRUE /\ v5' = v5 /\ v2' = v2 \cup {n}
    BY <1>4, <1>5
  <2>2. n.kind \in {"command", "commit"} /\ n.epoch = v1.epoch
    BY <1>4
  <2>3. GP!Of({"command", "commit"})' = GP!Of({"command", "commit"}) \cup {n}
    BY <2>1, <2>2 DEF GP!Of
  <2>4. "busy" \notin v5 => \A c \in GP!Of({"command", "commit"}) : c.epoch # v1.epoch
    BY <1>1, <1>2 DEF GP!BusyIsTrue
  <2> HIDE DEF Starts
  <2>5. GP!OneCommand'
    BY <2>1, <2>2, <2>3, <2>4 DEF GP!OneCommand
  <2>6. GP!BusyIsTrue'
    BY <2>1, <2>2, <2>3 DEF GP!BusyIsTrue
  <2> QED
    BY <2>5, <2>6
<1>8. GP!LinkIsUnderWay' /\ GP!LinkedIsTrue'
  BY <1>1, <1>4, <1>5, LinkKeeps
<1>9. GP!EpochsAreOfProjects'
  BY <1>1, <1>4, <1>5, EpochsKeep
<1> QED
  BY <1>6, <1>7, <1>8, <1>9 DEF GP!InductiveInv, GP!PanelIsOfProject

(* Its answer ends it; that of an earlier project's falls astray.          *)
LEMMA PanelCommandEnds ==
  ASSUME GP!InductiveInv, NEW c \in v2, c.kind \in {"command", "commit"},
         GP!Shapes', GP!ShowsProject', GP!LinkIsUnderWay' /\ GP!LinkedIsTrue',
         v1'.project = v1.project, v1'.epoch = v1.epoch, v1'.busy = FALSE,
         v5 \cup GP!LateBusy(c) \subseteq v5',
         \A d : d.kind \in {"command", "commit"} => (d \in v2' <=> d \in v2 /\ d # c),
         \A d \in v2' : d.kind = "link" =>
           \/ d.epoch = v1.epoch /\ d.project = v1.project
           \/ d \in v2
  PROVE  GP!InductiveInv'
<1>1. GP!Shapes /\ GP!EpochsAreOfProjects /\ GP!OneCommand
  BY PanelParts
<1>2. c \in GP!Of({"command", "commit"})
  BY DEF GP!Of
<1>3. GP!OneCommand' /\ GP!BusyIsTrue'
  BY <1>1, <1>2, CommandEnds
<1>4. GP!EpochsAreOfProjects'
  <2>1. \A d \in v2' : d.kind \in {"command", "commit"} => d \in v2
    OBVIOUS
  <2> QED
    BY <1>1, <2>1, EpochsKeep
<1> QED
  BY <1>3, <1>4 DEF GP!InductiveInv, GP!PanelIsOfProject

LEMMA PanelCommandRuns ==
  ASSUME GP!InductiveInv, NEW c \in v2, GP!CommandRuns(c)
  PROVE  GP!InductiveInv'
<1>1. /\ GP!Shapes /\ GP!EpochsAreOfProjects /\ GP!OneCommand /\ GP!BusyIsTrue
      /\ GP!ShowsProject /\ GP!LinkIsUnderWay /\ GP!LinkedIsTrue
      /\ v2 \subseteq GP!AnyCall /\ c \in GP!AnyCall
  BY PanelParts
<1>2. PICK o \in {"ok", "failed", "auth", "forbidden"} :
        v2' = (v2 \ {c}) \cup {[c EXCEPT !.st = o]}
  BY DEF GP!CommandRuns, GP!Outcomes, GP!Moves
<1>3. UNCHANGED <<v1, v3, v4, v5>> /\ c.kind = "command"
  BY DEF GP!CommandRuns, GP!Of
<1> DEFINE d == [c EXCEPT !.st = o]
<1>4. /\ d \in GP!AnyCall /\ d.kind = "command" /\ d.project = c.project /\ d.epoch = c.epoch
      /\ v2' = (v2 \ {c}) \cup {d}
  BY <1>1, <1>2, <1>3 DEF GP!AnyCall
<1> HIDE DEF d
<1>5. GP!Shapes' /\ GP!ShowsProject'
  BY <1>1, <1>3, <1>4 DEF GP!Shapes, GP!ShowsProject
<1>6. GP!LinkIsUnderWay' /\ GP!LinkedIsTrue'
  BY <1>1, <1>3, <1>4, LinkKeeps
<1>7. GP!EpochsAreOfProjects'
  BY <1>1, <1>3, <1>4, EpochsKeep
<1>8. GP!Of({"command", "commit"})' = (GP!Of({"command", "commit"}) \ {c}) \cup {d}
      /\ c \in GP!Of({"command", "commit"})
  BY <1>3, <1>4 DEF GP!Of
<1>9. GP!OneCommand' /\ GP!BusyIsTrue'
  <2>1. GP!OneCommand'
    BY <1>1, <1>3, <1>4, <1>8 DEF GP!OneCommand
  <2>2. GP!BusyIsTrue'
    BY <1>1, <1>3, <1>4, <1>8 DEF GP!BusyIsTrue
  <2> QED
    BY <2>1, <2>2
<1> QED
  BY <1>5, <1>6, <1>7, <1>9 DEF GP!InductiveInv, GP!PanelIsOfProject

LEMMA PanelAuth ==
  ASSUME GP!InductiveInv, NEW c \in v2, GP!AuthIsRequired(c) \/ GP!Committed(c)
  PROVE  GP!InductiveInv'
<1>1. /\ GP!Shapes /\ GP!EpochsAreOfProjects /\ GP!ShowsProject
      /\ GP!LinkIsUnderWay /\ GP!LinkedIsTrue /\ v1 \in GP!AnyPanel
      /\ v2 \subseteq GP!AnyCall /\ c.project \in Projects /\ v1.project \in GP!AnyProject
  BY PanelParts
<1> DEFINE reads == GP!Reads({"status", "log"}, v1.project)
<1>2. reads \subseteq GP!AnyCall /\ \A d \in reads : d.kind \in {"status", "log"}
  <2>1. {"status", "log"} \in SUBSET GP!Loaded
    BY DEF GP!Loaded
  <2> QED
    BY <1>1, <2>1, ReadsAreCalls
<1> HIDE DEF reads
<1>3. /\ v2' = v2 \ {c} \/ v2' = (v2 \ {c}) \cup reads
      /\ v5' = v5 \cup GP!LateBusy(c) /\ UNCHANGED <<v3, v4>>
      /\ c.kind \in {"command", "commit"}
      /\ \/ v1' = [v1 EXCEPT !.busy = FALSE]
         \/ v1' = [v1 EXCEPT !.busy = FALSE, !.auth = c.project]
  BY DEF GP!AuthIsRequired, GP!Committed, GP!Of, reads
<1>4. /\ v1' \in GP!AnyPanel /\ v1'.project = v1.project /\ v1'.epoch = v1.epoch
      /\ v1'.busy = FALSE /\ v1'.linked = v1.linked /\ v1'.log = v1.log
      /\ v1'.status = v1.status /\ v1'.auth \in {v1.auth, c.project} /\ v1'.dialog = v1.dialog
  BY <1>1, <1>3 DEF GP!AnyPanel, GP!AnyProject
<1>5. "auth" \notin v5' => c.project = v1.project
  BY <1>1, <1>3 DEF GP!LateBusy, GP!EpochsAreOfProjects, GP!Of
<1>6. "linked" \in v5' <=> "linked" \in v5
  BY <1>3 DEF GP!LateBusy
<1>7. "status" \in v5' <=> "status" \in v5
  BY <1>3 DEF GP!LateBusy
<1>8. GP!Shapes' /\ GP!ShowsProject'
  BY <1>1, <1>2, <1>3, <1>4, <1>5, <1>7 DEF GP!Shapes, GP!ShowsProject
<1>9. \A d : d.kind \in {"link", "meta"} => (d \in v2' <=> d \in v2)
  BY <1>2, <1>3
<1>10. GP!LinkIsUnderWay' /\ GP!LinkedIsTrue'
  BY <1>1, <1>3, <1>4, <1>6, <1>9, LinkKeeps
<1>11. \A d : d.kind \in {"command", "commit"} => (d \in v2' <=> d \in v2 /\ d # c)
  BY <1>2, <1>3
<1>12. v5 \cup GP!LateBusy(c) \subseteq v5'
  BY <1>3
<1>13. c.kind \in {"command", "commit"} /\ \A d \in v2' : d.kind = "link" => d \in v2
  BY <1>3, <1>9
<1>14. v1'.project = v1.project /\ v1'.epoch = v1.epoch /\ v1'.busy = FALSE
  BY <1>4
<1> QED
  BY <1>8, <1>10, <1>11, <1>12, <1>13, <1>14, PanelCommandEnds

LEMMA PanelAnswers ==
  ASSUME GP!InductiveInv, NEW c \in v2, GP!CommandAnswers(c)
  PROVE  GP!InductiveInv'
<1> DEFINE p == v1.project
           links == c.st = "ok" /\ c.remote /\ c.cred # None /\ p # None
           reads == GP!Reads({"status", "log"}, p)
           n == LinkCall(c.cred)
<1>1. /\ GP!Shapes /\ GP!EpochsAreOfProjects /\ GP!ShowsProject
      /\ GP!LinkIsUnderWay /\ GP!LinkedIsTrue /\ v1 \in GP!AnyPanel
      /\ v2 \subseteq GP!AnyCall /\ c.cred \in GP!AnyCred /\ p \in GP!AnyProject
      /\ v1.epoch \in Nat
  BY PanelParts
<1>2. reads \subseteq GP!AnyCall /\ \A d \in reads : d.kind \in {"status", "log"}
  <2>1. {"status", "log"} \in SUBSET GP!Loaded
    BY DEF GP!Loaded
  <2> QED
    BY <1>1, <2>1, ReadsAreCalls
<1> HIDE DEF reads
<1>3. c.kind = "command" /\ UNCHANGED <<v3, v4>>
  BY DEF GP!CommandAnswers, GP!Of
<1>4. /\ v1' \in GP!AnyPanel /\ v1'.project = p /\ v1'.epoch = v1.epoch
      /\ v1'.busy = FALSE /\ v1'.log = v1.log /\ v1'.status = v1.status
      /\ v1'.auth \in {v1.auth, None} /\ v1'.dialog = v1.dialog
      /\ v1'.linked = IF links THEN c.cred ELSE v1.linked
  <2> DEFINE auth == IF c.st = "ok" THEN None ELSE v1.auth
             linked == IF links THEN c.cred ELSE v1.linked
  <2>1. v1' = [v1 EXCEPT !.busy = FALSE, !.auth = auth, !.linked = linked]
    BY DEF GP!CommandAnswers
  <2>2. auth \in GP!AnyProject /\ auth \in {v1.auth, None} /\ linked \in GP!AnyCred
    BY <1>1 DEF GP!AnyPanel, GP!AnyProject
  <2>3. linked = IF links THEN c.cred ELSE v1.linked
    OBVIOUS
  <2> HIDE DEF auth, linked, links
  <2> QED
    BY <1>1, <2>1, <2>2, <2>3 DEF GP!AnyPanel
<1>5. /\ v5 \cup GP!LateBusy(c) \subseteq v5'
      /\ \A f \in v5' : f \in v5 \/ f \in {"busy", "auth"} \/ (f = "linked" /\ links /\ GP!Crossed(p))
      /\ links /\ GP!Crossed(p) => "linked" \in v5'
  BY DEF GP!CommandAnswers, GP!LateBusy
<1>6. GP!ShowsProject'
  BY <1>1, <1>4, <1>5 DEF GP!ShowsProject
<1>7. CASE links
  <2>1. /\ n \in GP!AnyCall /\ n.kind = "link" /\ n.project = p /\ n.epoch = v1.epoch
        /\ n.cred = c.cred /\ n.prev = v1.linked /\ n.st = "sent" /\ GP!Linking(c.cred) = {n}
    BY <1>1, <1>7, LinkRequest
  <2>2. v2' = (v2 \ {c}) \cup {n} \cup reads
    BY <1>7, <2>1 DEF GP!CommandAnswers, reads
  <2>3. v1'.linked = n.cred
    BY <1>4, <1>7, <2>1
  <2>4. (GP!Crossed(v1.project) => "linked" \in v5') /\ ("linked" \in v5 => "linked" \in v5')
    BY <1>5, <1>7
  <2> HIDE DEF n, links
  <2>5. GP!Shapes'
    BY <1>1, <1>2, <1>3, <1>4, <2>1, <2>2 DEF GP!Shapes
  <2>6. \A d : d.kind \in {"link", "meta"} => (d \in v2' <=> d \in v2 \cup {n})
    BY <1>2, <1>3, <2>2
  <2>7. GP!LinkIsUnderWay' /\ GP!LinkedIsTrue'
    BY <1>1, <1>3, <1>4, <2>1, <2>3, <2>4, <2>6, LinkStarts
  <2>8. \A d : d.kind \in {"command", "commit"} => (d \in v2' <=> d \in v2 /\ d # c)
    BY <1>2, <2>1, <2>2
  <2>9. \A d \in v2' : d.kind = "link" => d = n \/ d \in v2
    BY <1>2, <2>2
  <2> QED
    BY <1>3, <1>4, <1>5, <1>6, <2>1, <2>5, <2>7, <2>8, <2>9, PanelCommandEnds
<1>8. CASE ~links
  <2>1. v2' = (v2 \ {c}) \cup reads
    BY <1>8 DEF GP!CommandAnswers, reads
  <2>2. v1'.linked = v1.linked /\ ("linked" \in v5' <=> "linked" \in v5)
    BY <1>4, <1>5, <1>8
  <2> HIDE DEF n, links
  <2>3. GP!Shapes'
    BY <1>1, <1>2, <1>3, <1>4, <2>1 DEF GP!Shapes
  <2>4. \A d : d.kind \in {"link", "meta"} => (d \in v2' <=> d \in v2)
    BY <1>2, <1>3, <2>1
  <2>5. GP!LinkIsUnderWay' /\ GP!LinkedIsTrue'
    BY <1>1, <1>3, <1>4, <2>2, <2>4, LinkKeeps
  <2>6. \A d : d.kind \in {"command", "commit"} => (d \in v2' <=> d \in v2 /\ d # c)
    BY <1>2, <2>1
  <2>7. \A d \in v2' : d.kind = "link" => d \in v2
    BY <2>4
  <2>8. /\ v5 \cup GP!LateBusy(c) \subseteq v5' /\ c.kind \in {"command", "commit"}
        /\ v1'.project = v1.project /\ v1'.epoch = v1.epoch /\ v1'.busy = FALSE
    BY <1>3, <1>4, <1>5
  <2> QED
    BY <1>6, <2>3, <2>5, <2>6, <2>7, <2>8, PanelCommandEnds
<1> QED
  BY <1>7, <1>8

LEMMA PanelNext ==
  ASSUME GP!InductiveInv, GP!Next \/ UNCHANGED GP!panelVars
  PROVE  GP!InductiveInv'
<1>1. CASE GP!Next
  BY <1>1, PanelReads, PanelSwitches, PanelMetadata, PanelLinkRequests, PanelLinkChanges,
     PanelCommands, PanelCommandRuns, PanelAuth, PanelAnswers
  DEF GP!Next, GP!Switch, GP!Answer, GP!AnyProject
<1> QED
  BY <1>1, PanelStays

(* The git panel shows the project on the screen, is busy as long as a     *)
(* command of it runs and shows the credential the server will inject, but *)
(* for the answers that cross a switch or each other: PanelIsOfProject of  *)
(* GitPanel, lib/git-panel-store.ts.                                       *)
THEOREM PanelFollows == ASSUME PanelAssumptions PROVE Spec => []PanelIsOfProject
<1> DEFINE Inv == part = "panel" => GP!InductiveInv
<1>1. Init => Inv
  BY PanelStarts, PanelInit
<1>2. Inv /\ [Next]_vars => Inv'
  BY PanelSteps, PanelNext, PartStays
<1>3. Inv => PanelIsOfProject
  BY DEF PanelIsOfProject, GP!InductiveInv
<1> HIDE DEF Inv
<1> QED
  BY <1>1, <1>2, <1>3, PTL DEF Spec

-----------------------------------------------------------------------------
(* The composer: v1 settings, v2 defaults, v3 loading, v4 pending, v5      *)
(* puts, v6 offered, v7 ready, v8 key, v9 selected, v10 draft, v11 pinned, *)
(* v12 sent, v13 edits, v14 torn.                                          *)

ComposerAssumptions ==
  \A x \in CatalogPairs : x = [p |-> x.p, m |-> x.m] /\ x.p # None /\ x.m # None

LEMMA ComposerSteps ==
  ASSUME part = "comp", [Next]_vars
  PROVE  CO!Next \/ UNCHANGED CO!composerVars
  BY DEF Next, vars, CO!Next, CO!composerVars, CO!catalogVars, CO!composed, Puts

LEMMA ComposerStarts == Init /\ part = "comp" => CO!Init
  BY DEF Init

LEMMA PairFacts ==
  ASSUME ComposerAssumptions
  PROVE  /\ CO!Nothing \in CO!AnyPair /\ CO!Nothing.m = None /\ CO!Nothing.p = None
         /\ \A x \in CatalogPairs : /\ x \in CO!AnyPair /\ DOMAIN x = CO!Keys /\ x # CO!Nothing
                             /\ x["p"] # None /\ x["m"] # None
         /\ \A x \in CO!AnyPair : x = [p |-> x.p, m |-> x.m] /\ DOMAIN x = CO!Keys
<1>1. CO!Nothing \in CO!AnyPair /\ CO!Nothing.m = None /\ CO!Nothing.p = None
  BY DEF CO!Nothing, CO!AnyPair
<1>2. ASSUME NEW x \in CatalogPairs
      PROVE  /\ x \in CO!AnyPair /\ DOMAIN x = CO!Keys /\ x # CO!Nothing
             /\ x["p"] # None /\ x["m"] # None
  <2>1. x = [p |-> x.p, m |-> x.m] /\ x.p # None /\ x.m # None
    BY DEF ComposerAssumptions
  <2>2. x.p \in {y.p : y \in CatalogPairs} /\ x.m \in {y.m : y \in CatalogPairs}
    OBVIOUS
  <2>3. x \in CO!AnyPair
    BY <2>1, <2>2 DEF CO!AnyPair
  <2>4. DOMAIN x = CO!Keys
    BY <2>1 DEF CO!Keys
  <2> QED
    BY <1>1, <2>1, <2>3, <2>4
<1>3. \A x \in CO!AnyPair : x = [p |-> x.p, m |-> x.m] /\ DOMAIN x = CO!Keys
  BY DEF CO!AnyPair, CO!Keys
<1> QED
  BY <1>1, <1>2, <1>3

LEMMA ChangeFacts ==
  ASSUME ComposerAssumptions, NEW c \in CO!AnyChange
  PROVE  /\ "m" \in DOMAIN c /\ DOMAIN c \subseteq CO!Keys
         /\ c["m"] = None \/ c \in CatalogPairs
         /\ c["m"] \in {x.m : x \in CatalogPairs} \cup {None}
         /\ "p" \in DOMAIN c => DOMAIN c = CO!Keys /\ c["p"] \in {x.p : x \in CatalogPairs} /\ c["p"] # None
<1>1. CASE c = [k \in {"m"} |-> None]
  BY <1>1 DEF CO!Keys
<1>2. CASE c \in CatalogPairs
  BY <1>2, PairFacts DEF CO!Keys
<1>3. ASSUME NEW x \in CatalogPairs, c = [p |-> x.p, m |-> None]
      PROVE  /\ DOMAIN c = CO!Keys /\ c["m"] = None /\ c["p"] = x.p /\ x.p # None
  BY <1>3, PairFacts DEF CO!Keys
<1> QED
  BY <1>1, <1>2, <1>3 DEF CO!AnyChange, CO!Keys

\* The settings with a change made.
LEMMA WithFacts ==
  ASSUME ComposerAssumptions, NEW x \in CO!AnyPair, NEW c \in CO!AnyChange
  PROVE  CO!With(x, c) \in CO!AnyPair /\ CO!Picked(CO!With(x, c))
<1>1. x.p \in {y.p : y \in CatalogPairs} \cup {None} /\ x.m \in {y.m : y \in CatalogPairs} \cup {None}
  BY DEF CO!AnyPair
<1> DEFINE w == CO!With(x, c)
<1>2. w = [p |-> w["p"], m |-> w["m"]] /\ DOMAIN w = CO!Keys
      /\ w["m"] = c["m"] /\ w["p"] = IF "p" \in DOMAIN c THEN c["p"] ELSE x["p"]
  BY ChangeFacts DEF CO!With, CO!Keys
<1> HIDE DEF w
<1>3. w \in CO!AnyPair
  <2>1. w["p"] \in {y.p : y \in CatalogPairs} \cup {None} /\ w["m"] \in {y.m : y \in CatalogPairs} \cup {None}
    BY <1>1, <1>2, ChangeFacts
  <2> QED
    BY <1>2, <2>1 DEF CO!AnyPair
<1>4. CO!Picked(w)
  <2>1. CASE c["m"] = None
    BY <1>2, <2>1 DEF CO!Picked
  <2>2. CASE c \in CatalogPairs
    <3>1. w["p"] = c["p"]
      BY <1>2, <2>2, PairFacts DEF CO!Keys
    <3>2. c = [p |-> c["p"], m |-> c["m"]]
      BY <2>2, PairFacts
    <3> QED
      BY <1>2, <2>2, <3>1, <3>2 DEF CO!Picked
  <2> QED
    BY <2>1, <2>2, ChangeFacts
<1> QED
  BY <1>3, <1>4 DEF w

LEMMA ComposerInit == ASSUME ComposerAssumptions, CO!Init PROVE CO!InductiveInv
<1>1. /\ v1 \in CatalogPairs \cup {CO!Nothing} /\ v2 = CO!Nothing
      /\ v3 = [st |-> "idle", got |-> CO!Nothing] /\ v4 = <<>> /\ v5 = {} /\ v6 = {}
      /\ v9 = CO!Nothing /\ v10 = CO!Nothing /\ v11 \in [Sessions -> CatalogPairs \cup {CO!Nothing}]
      /\ v12.pair = CO!Nothing /\ v14 = FALSE
  BY DEF CO!Init
<1>2. CO!Shapes
  BY <1>1, PairFacts DEF CO!Shapes
<1>3. CO!Picked(v1) /\ CO!Picked(CO!Nothing) /\ CO!Whole(CO!Nothing)
  BY <1>1, PairFacts DEF CO!Picked, CO!Whole
<1>4. CO!StoredTogether
  BY <1>3 DEF CO!StoredTogether
<1>5. CO!ShownTogether
  BY <1>1, <1>3 DEF CO!ShownTogether, CO!Whole
<1>6. CO!HalfIsStored
  BY <1>1 DEF CO!HalfIsStored
<1>7. CO!Picked(v3.got)
  BY <1>1, <1>3
<1> QED
  BY <1>2, <1>4, <1>5, <1>6, <1>7 DEF CO!InductiveInv, CO!PairsStayTogether

(* Steps that write no setting, and leave saves half way as they are.      *)
LEMMA ComposerKeeps ==
  ASSUME CO!InductiveInv, CO!Shapes', v1' = v1, v14 => v14',
         ~v14' => CO!ShownTogether', ~v14' => CO!Picked(v3'.got),
         \A c : CO!HalfWritten(c) => (c \in v5' <=> c \in v5)
  PROVE  CO!InductiveInv'
<1>1. CO!HalfIsStored'
  BY DEF CO!InductiveInv, CO!HalfIsStored, CO!HalfWritten
<1>2. ~v14' => CO!StoredTogether'
  BY DEF CO!InductiveInv, CO!PairsStayTogether, CO!StoredTogether, CO!Picked, CO!HalfWritten
<1> QED
  BY <1>1, <1>2 DEF CO!InductiveInv, CO!PairsStayTogether, CO!Picked

LEMMA ComposerParts ==
  ASSUME CO!InductiveInv
  PROVE  /\ CO!Shapes /\ CO!HalfIsStored
         /\ ~v14 => CO!StoredTogether /\ CO!ShownTogether /\ CO!Picked(v3.got)
         /\ v1 \in CO!AnyPair /\ v2 \in CO!AnyPair /\ v10 \in CO!AnyPair
         /\ v3 \in [st : {"idle", "sent", "read", "done"}, got : CO!AnyPair]
         /\ v4 \in CO!AnyChange \cup {<<>>} /\ v6 \subseteq CatalogPairs
         /\ v9 \in CatalogPairs \cup {CO!Nothing} /\ v11 \in [Sessions -> CatalogPairs \cup {CO!Nothing}]
         /\ v14 \in BOOLEAN
         /\ \A c \in v5 : /\ c \in [changes : CO!AnyChange, todo : SUBSET CO!Keys]
                          /\ c.todo \subseteq DOMAIN c.changes
  BY DEF CO!InductiveInv, CO!PairsStayTogether, CO!Shapes

LEMMA ShownStays ==
  ASSUME CO!InductiveInv, ~v14, UNCHANGED <<v2, v9, v10, v11, v12>>
  PROVE  CO!ShownTogether'
  BY ComposerParts DEF CO!ShownTogether, CO!Picked, CO!Whole

(* Loading the defaults and the catalog, and the flush.                    *)
LEMMA ComposerLoads ==
  ASSUME CO!InductiveInv, ComposerAssumptions,
         CO!Load \/ CO!DefaultsAreRead \/ CO!CatalogLoads \/ CO!CatalogArrives \/ CO!Flush
  PROVE  CO!InductiveInv'
<1>1. UNCHANGED <<v1, v2, v9, v10, v11, v12>>
  BY DEF CO!Load, CO!DefaultsAreRead, CO!CatalogLoads, CO!CatalogArrives, CO!Flush,
     CO!composed
<1>2. CASE CO!Load \/ CO!CatalogLoads \/ CO!CatalogArrives
  <2>1. UNCHANGED <<v4, v5, v14>> /\ v6' \subseteq CatalogPairs
        /\ (v3' = v3 \/ v3' = [v3 EXCEPT !.st = "sent"])
    BY <1>2, ComposerParts DEF CO!Load, CO!CatalogLoads, CO!CatalogArrives, CO!catalogVars
  <2>2. v3' \in [st : {"idle", "sent", "read", "done"}, got : CO!AnyPair] /\ v3'.got = v3.got
    BY <2>1, ComposerParts
  <2>3. CO!Shapes'
    BY <1>1, <2>1, <2>2, ComposerParts DEF CO!Shapes
  <2>4. ~v14' => CO!ShownTogether' /\ CO!Picked(v3'.got)
    BY <1>1, <2>1, <2>2, ComposerParts, ShownStays
  <2> QED
    BY <1>1, <2>1, <2>3, <2>4, ComposerKeeps
<1>3. CASE CO!DefaultsAreRead
  <2>1. UNCHANGED <<v4, v5, v6>> /\ v3' = [st |-> "read", got |-> v1]
        /\ v14' = (v14 \/ \E c \in v5 : CO!HalfWritten(c))
    BY <1>3 DEF CO!DefaultsAreRead, CO!catalogVars
  <2>2. v14' \in BOOLEAN /\ (v14 => v14') /\ (~v14' => ~v14 /\ \A c \in v5 : ~CO!HalfWritten(c))
    BY <2>1, ComposerParts
  <2>3. v3' \in [st : {"idle", "sent", "read", "done"}, got : CO!AnyPair] /\ v3'.got = v1
    BY <2>1, ComposerParts
  <2>4. CO!Shapes'
    BY <1>1, <2>1, <2>2, <2>3, ComposerParts DEF CO!Shapes
  <2>5. ~v14' => CO!Picked(v3'.got)
    BY <2>2, <2>3, ComposerParts DEF CO!StoredTogether
  <2>6. ~v14' => CO!ShownTogether'
    BY <1>1, <2>2, ShownStays
  <2> QED
    BY <1>1, <2>1, <2>2, <2>4, <2>5, <2>6, ComposerKeeps
<1>4. CASE CO!Flush
  <2> DEFINE n == [changes |-> v4, todo |-> DOMAIN v4]
  <2>1. UNCHANGED <<v3, v6, v14>> /\ v4 # <<>> /\ v4' = <<>> /\ v5' = v5 \cup {n}
    BY <1>4 DEF CO!Flush, CO!catalogVars
  <2>2. n \in [changes : CO!AnyChange, todo : SUBSET CO!Keys] /\ n.todo \subseteq DOMAIN n.changes
        /\ ~CO!HalfWritten(n)
    BY <2>1, ComposerParts, ChangeFacts DEF CO!HalfWritten
  <2> HIDE DEF n
  <2>3. CO!Shapes'
    BY <1>1, <2>1, <2>2, ComposerParts DEF CO!Shapes
  <2>4. ~v14' => CO!ShownTogether' /\ CO!Picked(v3'.got)
    BY <1>1, <2>1, ComposerParts, ShownStays
  <2>5. \A c : CO!HalfWritten(c) => (c \in v5' <=> c \in v5)
    BY <2>1, <2>2
  <2> QED
    BY <1>1, <2>1, <2>3, <2>4, <2>5, ComposerKeeps
<1> QED
  BY <1>2, <1>3, <1>4

(* A save that is answered, lost, or sent again, was not half way.         *)
LEMMA ComposerPutEnds ==
  ASSUME CO!InductiveInv, ComposerAssumptions, NEW c \in v5, CO!PutEnds(c) \/ CO!Retry(c)
  PROVE  CO!InductiveInv'
<1>1. UNCHANGED <<v1, v2, v3, v4, v6, v9, v10, v11, v12, v14>>
  BY DEF CO!PutEnds, CO!Retry, CO!composed, CO!catalogVars
<1>2. ~CO!HalfWritten(c)
  BY DEF CO!PutEnds, CO!Retry, CO!HalfWritten
<1>3. c \in [changes : CO!AnyChange, todo : SUBSET CO!Keys]
  BY ComposerParts
<1> DEFINE n == [c EXCEPT !.todo = DOMAIN c.changes]
<1>4. n \in [changes : CO!AnyChange, todo : SUBSET CO!Keys] /\ n.todo \subseteq DOMAIN n.changes
      /\ ~CO!HalfWritten(n)
  BY <1>3, ChangeFacts DEF CO!HalfWritten
<1>5. v5' = v5 \ {c} \/ v5' = (v5 \ {c}) \cup {n}
  BY DEF CO!PutEnds, CO!Retry
<1> HIDE DEF n
<1>6. CO!Shapes'
  BY <1>1, <1>4, <1>5, ComposerParts DEF CO!Shapes
<1>7. \A d : CO!HalfWritten(d) => (d \in v5' <=> d \in v5)
  BY <1>2, <1>4, <1>5
<1>8. ~v14' => CO!ShownTogether' /\ CO!Picked(v3'.got)
  BY <1>1, ComposerParts, ShownStays
<1> QED
  BY <1>1, <1>6, <1>7, <1>8, ComposerKeeps

(* A choice waits for its flush as a change of the model.                  *)
LEMMA QueuedIsChange ==
  ASSUME ComposerAssumptions, CO!InductiveInv, NEW c \in CO!AnyChange,
         c \in CatalogPairs \/ c = [k \in {"m"} |-> None], CO!Queues(c)
  PROVE  v4' \in CO!AnyChange /\ v2' \in CO!AnyPair /\ CO!Picked(v2')
<1>1. v2' = CO!With(v2, c)
      /\ v4' = [k \in DOMAIN v4 \cup DOMAIN c |-> IF k \in DOMAIN c THEN c[k] ELSE v4[k]]
  BY DEF CO!Queues
<1>2. v4 \in CO!AnyChange \cup {<<>>} /\ v2 \in CO!AnyPair
  BY ComposerParts
<1>3. v2' \in CO!AnyPair /\ CO!Picked(v2')
  BY <1>1, <1>2, WithFacts DEF CO!Picked
<1>4. DOMAIN v4 \subseteq CO!Keys
  BY <1>2, ChangeFacts
<1>5. CASE c \in CatalogPairs
  <2>1. DOMAIN c = CO!Keys /\ c = [p |-> c.p, m |-> c.m]
    BY <1>5, PairFacts
  <2>2. v4' = [k \in CO!Keys |-> c[k]]
    BY <1>1, <1>4, <2>1
  <2>3. v4' = c
    BY <2>1, <2>2 DEF CO!Keys
  <2> QED
    BY <1>3, <2>3
<1>6. CASE c = [k \in {"m"} |-> None]
  <2>1. DOMAIN c = {"m"} /\ c["m"] = None
    BY <1>6
  <2>2. CASE "p" \notin DOMAIN v4
    <3>1. DOMAIN v4 \cup DOMAIN c = {"m"}
      BY <1>4, <2>1, <2>2 DEF CO!Keys
    <3>2. v4' = [k \in {"m"} |-> IF k \in DOMAIN c THEN c[k] ELSE v4[k]]
      BY <1>1, <3>1
    <3>3. v4' = c
      BY <1>6, <2>1, <3>2
    <3> QED
      BY <1>3, <3>3
  <2>3. CASE "p" \in DOMAIN v4
    <3>1. v4 \in CO!AnyChange
      BY <1>2, <2>3
    <3>2. PICK x \in CatalogPairs : v4["p"] = x.p /\ DOMAIN v4 = CO!Keys
      BY <2>3, <3>1, ChangeFacts
    <3>3. v4' = [k \in CO!Keys |-> IF k = "m" THEN None ELSE x.p]
      BY <1>1, <2>1, <3>2 DEF CO!Keys
    <3>4. v4' = [p |-> x.p, m |-> None]
      BY <3>3 DEF CO!Keys
    <3> QED
      BY <1>3, <3>4 DEF CO!AnyChange
  <2> QED
    BY <2>2, <2>3
<1> QED
  BY <1>5, <1>6

LEMMA ComposerChooses ==
  ASSUME ComposerAssumptions, CO!InductiveInv,
         CO!ResetModel \/ (\E x \in CatalogPairs : CO!SelectModel(x) \/ CO!SetDefault(x))
  PROVE  CO!InductiveInv'
<1>1. PICK c \in CO!AnyChange : CO!Queues(c) /\ (c \in CatalogPairs \/ c = [k \in {"m"} |-> None])
  <2>1. \A x \in v6 : x \in CatalogPairs /\ x \in CO!AnyChange
    BY ComposerParts DEF CO!AnyChange
  <2>2. [k \in {"m"} |-> None] \in CO!AnyChange
    BY DEF CO!AnyChange
  <2> QED
    BY <2>1, <2>2 DEF CO!ResetModel, CO!SelectModel, CO!SetDefault
<1>2. v4' \in CO!AnyChange /\ v2' \in CO!AnyPair /\ CO!Picked(v2')
  BY <1>1, QueuedIsChange
<1>3. UNCHANGED <<v1, v3, v5, v6, v10, v11, v12, v14>>
  BY DEF CO!ResetModel, CO!SelectModel, CO!SetDefault, CO!catalogVars, CO!composed
<1>4. v9' = v9 \/ v9' \in CatalogPairs
  BY DEF CO!ResetModel, CO!SelectModel, CO!SetDefault, CO!composed
<1>5. CO!Shapes'
  BY <1>2, <1>3, <1>4, ComposerParts DEF CO!Shapes
<1>6. ~v14' => CO!ShownTogether' /\ CO!Picked(v3'.got)
  BY <1>2, <1>3, <1>4, ComposerParts DEF CO!ShownTogether, CO!Picked, CO!Whole
<1> QED
  BY <1>3, <1>5, <1>6, ComposerKeeps

LEMMA ComposerSwitches ==
  ASSUME ComposerAssumptions, CO!InductiveInv,
         CO!DefaultsArrive \/ (\E k \in Sessions \cup {None} : CO!SwitchTo(k))
  PROVE  CO!InductiveInv'
<1>1. CASE CO!DefaultsArrive
  <2>1. /\ UNCHANGED <<v1, v4, v5, v6, v9, v10, v11, v12, v14>>
        /\ v2' = v3.got /\ v3' = [st |-> "done", got |-> CO!Nothing]
    BY <1>1 DEF CO!DefaultsArrive, CO!composed, CO!catalogVars
  <2>2. v2' \in CO!AnyPair /\ v3'.got = CO!Nothing
        /\ v3' \in [st : {"idle", "sent", "read", "done"}, got : CO!AnyPair]
    BY <2>1, ComposerParts, PairFacts
  <2>3. CO!Shapes'
    BY <2>1, <2>2, ComposerParts DEF CO!Shapes
  <2>4. ~v14' => CO!ShownTogether' /\ CO!Picked(v3'.got)
    BY <2>1, <2>2, ComposerParts, PairFacts DEF CO!ShownTogether, CO!Picked, CO!Whole
  <2> QED
    BY <2>1, <2>3, <2>4, ComposerKeeps
<1>2. ASSUME NEW k \in Sessions \cup {None}, CO!SwitchTo(k)
      PROVE  CO!InductiveInv'
  <2>1. /\ UNCHANGED <<v1, v2, v3, v4, v5, v6, v11, v12, v14>>
        /\ v9' = CO!Nothing /\ v10' = v2
    BY <1>2 DEF CO!SwitchTo, CO!catalogVars
  <2>2. CO!Shapes'
    BY <2>1, ComposerParts DEF CO!Shapes
  <2>3. ~v14' => CO!ShownTogether' /\ CO!Picked(v3'.got)
    BY <2>1, ComposerParts DEF CO!ShownTogether, CO!Picked, CO!Whole
  <2> QED
    BY <2>1, <2>2, <2>3, ComposerKeeps
<1> QED
  BY <1>1, <1>2

\* What a composer falls back to, key by key, is whole where the parts are.
LEMMA ElseIsWhole ==
  ASSUME ComposerAssumptions, NEW a \in CatalogPairs \cup {CO!Nothing}, NEW b \in CatalogPairs \cup {CO!Nothing}
  PROVE  CO!Else(a, b) \in CatalogPairs \cup {CO!Nothing}
<1>1. \A x \in CatalogPairs \cup {CO!Nothing} : x = [p |-> x.p, m |-> x.m]
  BY PairFacts
<1>2. CASE a \in CatalogPairs
  <2>1. CO!Else(a, b) = [k \in CO!Keys |-> a[k]]
    BY <1>2, PairFacts DEF CO!Else, CO!Keys
  <2>2. CO!Else(a, b) = [p |-> a.p, m |-> a.m]
    BY <2>1 DEF CO!Keys
  <2> QED
    BY <1>1, <2>2
<1>3. CASE a = CO!Nothing
  <2>1. CO!Else(a, b) = [k \in CO!Keys |-> b[k]]
    BY <1>3, PairFacts DEF CO!Else, CO!Keys
  <2>2. CO!Else(a, b) = [p |-> b.p, m |-> b.m]
    BY <2>1 DEF CO!Keys
  <2> QED
    BY <1>1, <2>2
<1> QED
  BY <1>2, <1>3

LEMMA ComposerSends ==
  ASSUME ComposerAssumptions, CO!InductiveInv, CO!SendMessage
  PROVE  CO!InductiveInv'
<1> DEFINE E == CO!Effective
<1>1. /\ UNCHANGED <<v1, v2, v3, v4, v5, v6, v9, v10, v14>>
      /\ v11' = IF v8 \in Sessions /\ E \in CatalogPairs THEN [v11 EXCEPT ![v8] = E] ELSE v11
      /\ v12' = [pair |-> E, seeded |-> CO!Whole(v10)]
  BY DEF CO!SendMessage, CO!catalogVars
<1>2. v11' \in [Sessions -> CatalogPairs \cup {CO!Nothing}]
  <2> HIDE DEF E
  <2> QED
    BY <1>1, ComposerParts
<1>3. v12'.seeded => CO!Whole(v12'.pair)
  <2>1. CO!Whole(v10) => E \in CatalogPairs \cup {CO!Nothing}
    <3> DEFINE own == IF v8 \in Sessions THEN v11[v8] ELSE CO!Nothing
    <3>1. own \in CatalogPairs \cup {CO!Nothing} /\ v9 \in CatalogPairs \cup {CO!Nothing}
      BY ComposerParts
    <3>2. E = CO!Else(v9, CO!Else(v10, own))
      BY DEF CO!Effective
    <3> HIDE DEF own, E
    <3>3. CASE CO!Whole(v10)
      <4>1. v10 \in CatalogPairs \cup {CO!Nothing}
        BY <3>3 DEF CO!Whole
      <4>2. CO!Else(v10, own) \in CatalogPairs \cup {CO!Nothing}
        BY <3>1, <4>1, ElseIsWhole
      <4> QED
        BY <3>1, <3>2, <4>2, ElseIsWhole
    <3> QED
      BY <3>3
  <2>2. PICK b \in BOOLEAN : b <=> CO!Whole(v10)
    OBVIOUS
  <2>3. v12' = [pair |-> E, seeded |-> b]
    BY <1>1, <2>2 DEF CO!Whole
  <2> HIDE DEF E
  <2>4. v12'.seeded = b /\ v12'.pair = E
    BY <2>3
  <2> QED
    BY <2>1, <2>2, <2>4 DEF CO!Whole
<1> HIDE DEF E
<1>4. CO!Shapes'
  BY <1>1, <1>2, ComposerParts DEF CO!Shapes
<1>5. ~v14' => CO!ShownTogether' /\ CO!Picked(v3'.got)
  BY <1>1, <1>2, <1>3, ComposerParts DEF CO!ShownTogether, CO!Picked, CO!Whole
<1> QED
  BY <1>1, <1>4, <1>5, ComposerKeeps

(* A statement of a save: with another save half way the history is torn,  *)
(* otherwise the settings are those of this save as far as it is written.  *)
LEMMA ComposerWrites ==
  ASSUME ComposerAssumptions, CO!InductiveInv, NEW c \in v5, CO!PutWrites(c)
  PROVE  CO!InductiveInv'
<1>1. PICK done \in {{k \in c.todo : c.changes[k] = None}, {k \in c.todo : c.changes[k] # None}} \ {{}} :
        /\ v1' = [k \in CO!Keys |-> IF k \in done THEN c.changes[k] ELSE v1[k]]
        /\ v5' = (v5 \ {c}) \cup {[c EXCEPT !.todo = @ \ done]}
  BY DEF CO!PutWrites
<1>2. /\ UNCHANGED <<v2, v3, v4, v6, v9, v10, v11, v12>>
      /\ v14' = (v14 \/ \E d \in v5 \ {c} : CO!HalfWritten(d))
  BY DEF CO!PutWrites, CO!catalogVars, CO!composed
<1>3. /\ c \in [changes : CO!AnyChange, todo : SUBSET CO!Keys] /\ c.todo \subseteq DOMAIN c.changes
      /\ c.changes \in CO!AnyChange /\ v1 \in CO!AnyPair
  BY ComposerParts
<1>4. /\ "m" \in DOMAIN c.changes /\ DOMAIN c.changes \subseteq CO!Keys
      /\ c.changes["m"] = None \/ c.changes \in CatalogPairs
      /\ c.changes["m"] \in {x.m : x \in CatalogPairs} \cup {None}
      /\ "p" \in DOMAIN c.changes => c.changes["p"] \in {x.p : x \in CatalogPairs}
  BY <1>3, ChangeFacts
<1>5. done \subseteq c.todo /\ done # {} /\ done \subseteq CO!Keys
  BY <1>1, <1>3
<1> DEFINE n == [c EXCEPT !.todo = @ \ done]
<1>6. /\ n \in [changes : CO!AnyChange, todo : SUBSET CO!Keys] /\ n.changes = c.changes
      /\ n.todo = c.todo \ done /\ v5' = (v5 \ {c}) \cup {n}
  BY <1>1, <1>3, <1>5
<1> HIDE DEF n
<1>7. v1' \in CO!AnyPair
  <2>1. v1 = [p |-> v1.p, m |-> v1.m] /\ v1.p \in {x.p : x \in CatalogPairs} \cup {None}
        /\ v1.m \in {x.m : x \in CatalogPairs} \cup {None}
    BY <1>3 DEF CO!AnyPair
  <2>2. v1' = [p |-> IF "p" \in done THEN c.changes["p"] ELSE v1.p,
               m |-> IF "m" \in done THEN c.changes["m"] ELSE v1.m]
    BY <1>1 DEF CO!Keys
  <2>3. (IF "p" \in done THEN c.changes["p"] ELSE v1.p) \in {x.p : x \in CatalogPairs} \cup {None}
    BY <1>3, <1>4, <1>5, <2>1
  <2>4. (IF "m" \in done THEN c.changes["m"] ELSE v1.m) \in {x.m : x \in CatalogPairs} \cup {None}
    BY <1>4, <2>1
  <2> QED
    BY <2>2, <2>3, <2>4 DEF CO!AnyPair
<1>8. CO!Shapes'
  <2>1. v14' \in BOOLEAN
    BY <1>2
  <2>2. \A d \in v5' : d \in [changes : CO!AnyChange, todo : SUBSET CO!Keys]
                       /\ d.todo \subseteq DOMAIN d.changes
    BY <1>3, <1>6, ComposerParts
  <2> QED
    BY <1>2, <1>7, <2>1, <2>2, ComposerParts DEF CO!Shapes
<1>9. ASSUME ~v14'
      PROVE  ~v14 /\ \A d \in v5 \ {c} : ~CO!HalfWritten(d)
  BY <1>2, <1>9, ComposerParts
<1>10. ASSUME ~v14'
       PROVE  \A k \in DOMAIN c.changes \ n.todo : v1'[k] = c.changes[k]
  <2> SUFFICES ASSUME NEW k \in DOMAIN c.changes \ n.todo
               PROVE  v1'[k] = c.changes[k]
    OBVIOUS
  <2>1. k \in CO!Keys /\ v1'[k] = IF k \in done THEN c.changes[k] ELSE v1[k]
    BY <1>1, <1>4
  <2>2. CASE k \in done
    BY <2>1, <2>2
  <2>3. CASE k \notin done
    <3>1. k \in DOMAIN c.changes \ c.todo
      BY <1>6, <2>3
    <3>2. CO!HalfWritten(c)
      BY <1>5, <3>1 DEF CO!HalfWritten
    <3>3. v1[k] = c.changes[k]
      BY <1>9, <1>10, <3>1, <3>2, ComposerParts DEF CO!HalfIsStored
    <3> QED
      BY <2>1, <2>3, <3>3
  <2> QED
    BY <2>2, <2>3
<1>11. CO!HalfIsStored'
  <2>1. ASSUME ~v14', NEW d \in v5', CO!HalfWritten(d)
        PROVE  d = n
    BY <1>6, <1>9, <2>1
  <2>2. ASSUME ~v14', NEW d \in v5', CO!HalfWritten(d)
        PROVE  /\ \A e \in v5' : CO!HalfWritten(e) => d = e
               /\ \A k \in DOMAIN d.changes \ d.todo : v1'[k] = d.changes[k]
    <3>1. d = n
      BY <2>1, <2>2
    <3>2. \A e \in v5' : CO!HalfWritten(e) => e = n
      BY <2>1, <2>2
    <3> QED
      BY <1>6, <1>10, <2>2, <3>1, <3>2
  <2> QED
    BY <2>2 DEF CO!HalfIsStored, CO!HalfWritten
<1>12. ASSUME ~v14', ~CO!HalfWritten(n)
       PROVE  CO!Picked(v1')
  <2>1. n.todo = {}
    BY <1>3, <1>5, <1>6, <1>12 DEF CO!HalfWritten
  <2>2. v1'["m"] = c.changes["m"] /\ ("p" \in DOMAIN c.changes => v1'["p"] = c.changes["p"])
    BY <1>4, <1>10, <1>12, <2>1
  <2>3. CASE c.changes["m"] = None
    BY <2>2, <2>3 DEF CO!Picked
  <2>4. CASE c.changes \in CatalogPairs
    <3>1. c.changes = [p |-> c.changes["p"], m |-> c.changes["m"]] /\ DOMAIN c.changes = CO!Keys
      BY <2>4, PairFacts
    <3>2. v1' = [p |-> v1'["p"], m |-> v1'["m"]]
      BY <1>7 DEF CO!AnyPair
    <3>3. v1' = c.changes
      BY <2>2, <3>1, <3>2 DEF CO!Keys
    <3> QED
      BY <2>4, <3>3 DEF CO!Picked
  <2> QED
    BY <1>4, <2>3, <2>4
<1>13. ~v14' => CO!StoredTogether'
  <2>1. ASSUME ~v14', \A d \in v5' : ~CO!HalfWritten(d)
        PROVE  CO!Picked(v1')
    BY <1>6, <1>12, <2>1
  <2> QED
    BY <2>1 DEF CO!StoredTogether, CO!Picked, CO!HalfWritten
<1>14. ~v14' => CO!ShownTogether'
  BY <1>2, <1>9, ShownStays
<1> QED
  BY <1>2, <1>8, <1>9, <1>11, <1>13, <1>14, ComposerParts
  DEF CO!InductiveInv, CO!PairsStayTogether, CO!Picked

LEMMA ComposerNext ==
  ASSUME ComposerAssumptions, CO!InductiveInv, CO!Next \/ UNCHANGED CO!composerVars
  PROVE  CO!InductiveInv'
<1>1. CASE CO!Next
  BY <1>1, ComposerLoads, ComposerPutEnds, ComposerChooses, ComposerSwitches, ComposerSends,
     ComposerWrites DEF CO!Next
<1>2. CASE UNCHANGED CO!composerVars
  <2>1. UNCHANGED <<v1, v2, v3, v4, v5, v6, v9, v10, v11, v12, v14>>
    BY <1>2 DEF CO!composerVars, CO!catalogVars, CO!composed
  <2>2. CO!Shapes'
    BY <2>1, ComposerParts DEF CO!Shapes
  <2>3. ~v14' => CO!ShownTogether' /\ CO!Picked(v3'.got)
    BY <2>1, ShownStays, ComposerParts
  <2> QED
    BY <2>1, <2>2, <2>3, ComposerKeeps
<1> QED
  BY <1>1, <1>2

-----------------------------------------------------------------------------
(* Slash commands: v1 catalog, v2 commands, v3 refreshes, v4 attached, v5  *)
(* building, v6 frames, v7 offered, v8 shown, v9 texts, v10 posts, v11     *)
(* ran, v12 swallowed, v13 latest, v14 moves.                              *)

SlashAssumptions ==
  /\ None \notin Chats
  /\ None \notin SUBSET (Passthrough \cup Dynamic)
  /\ Dynamic \cap (Passthrough \cup Blacklist) = {}

LEMMA SlashSteps ==
  ASSUME part = "slash", [Next]_vars
  PROVE  SC!Next \/ UNCHANGED SC!slashVars
<1>1. ASSUME NEW r, SC!Refreshed(r) PROVE SC!Next
  BY <1>1 DEF SC!Refreshed, SC!Next
<1>2. ASSUME NEW b, SC!BuiltSnapshot(b) PROVE SC!Next
  BY <1>2 DEF SC!BuiltSnapshot, SC!Next
<1> QED
  BY <1>1, <1>2 DEF Next, vars, SC!Next, SC!slashVars

LEMMA SlashStarts == Init /\ part = "slash" => SC!Init
  BY DEF Init

(* The last frame for a session in a queue of frames, or its offer.        *)
LastOf(q, s, names, offer) ==
  IF \E i \in DOMAIN q : q[i].of = s
  THEN \E i \in DOMAIN q : /\ q[i].of = s /\ q[i].names = names
                           /\ \A j \in DOMAIN q : j > i => q[j].of # s
  ELSE offer = names

LEMMA LastOfAppended ==
  ASSUME NEW S, NEW q \in Seq(S), NEW e \in S, NEW s, NEW names, NEW offer,
         IF e.of = s THEN e.names = names ELSE LastOf(q, s, names, offer)
  PROVE  LastOf(Append(q, e), s, names, offer)
<1> DEFINE Some == {f \in S : f.of = s}
           Good == {f \in S : f.names = names}
           a == Append(q, e)
<1>1. a \in Seq(S) /\ \A i \in DOMAIN q : q[i] \in S
  BY AppendProperties, SeqElements
<1>2. \A i \in DOMAIN a : a[i] \in S
  BY <1>1, SeqElements
<1> HIDE DEF a
<1>3. e \notin Some => EndsWith(q, Some, Good, offer = names)
  BY <1>1 DEF LastOf, EndsWith
<1>4. e \in Some => e \in Good
  OBVIOUS
<1>5. EndsWith(a, Some, Good, offer = names)
  <2> HIDE DEF Some, Good
  <2> QED
    BY <1>3, <1>4, EndsAppended DEF a
<1>6. LastOf(a, s, names, offer)
  BY <1>2, <1>5 DEF LastOf, EndsWith
<1> QED
  BY <1>6 DEF a

LEMMA LastOfTail ==
  ASSUME NEW S, NEW q \in Seq(S), q # <<>>, NEW s, NEW names, NEW offer,
         LastOf(q, s, names, offer)
  PROVE  LastOf(Tail(q), s, names, IF Head(q).of = s THEN Head(q).names ELSE offer)
<1> DEFINE Some == {f \in S : f.of = s}
           Good == {f \in S : f.names = names}
           h == Head(q)
           t == Tail(q)
<1>1. h \in S /\ t \in Seq(S) /\ \A i \in DOMAIN q : q[i] \in S
  BY HeadTailProperties, SeqElements
<1>2. \A i \in DOMAIN t : t[i] \in S
  BY <1>1, SeqElements
<1> HIDE DEF h, t
<1>3. EndsWith(q, Some, Good, offer = names)
  BY <1>1 DEF LastOf, EndsWith
<1>4. EndsWith(t, Some, Good, IF h \in Some THEN h \in Good ELSE offer = names)
  <2> HIDE DEF Some, Good
  <2> QED
    BY <1>3, EndsTail DEF h, t
<1>5. (IF h \in Some THEN h \in Good ELSE offer = names)
        <=> (IF h.of = s THEN h.names ELSE offer) = names
  BY <1>1
<1>6. LastOf(t, s, names, IF h.of = s THEN h.names ELSE offer)
  BY <1>2, <1>4, <1>5 DEF LastOf, EndsWith
<1> QED
  BY <1>6 DEF h, t

LEMMA LastOfNone ==
  ASSUME NEW s, NEW names, NEW offer, LastOf(<<>>, s, names, offer)
  PROVE  offer = names
  BY DEF LastOf

LEMMA SlashReports ==
  SC!LastIsReported <=> \A s \in v4 : v13 = s /\ (\A b \in v5 : b.of # s)
                                       => LastOf(v6, s, v1, v7[s])
  BY DEF SC!LastIsReported, SC!LastIs, LastOf

LEMMA SlashParts ==
  ASSUME SC!InductiveInv
  PROVE  /\ v1 \in (SUBSET Dynamic) \cup {None} /\ v2 \in [Chats -> (SUBSET Dynamic) \cup {None}]
         /\ \A r \in v3 : r.of \in Chats /\ SC!Built(r.names) \subseteq Dynamic
         /\ v4 \subseteq Chats /\ v5 \subseteq SC!AnyFrame /\ v6 \in Seq(SC!AnyFrame)
         /\ v7 \in [Chats -> SUBSET Dynamic] /\ v8 \in Chats
         /\ v13 = None \/ (v13 \in Chats /\ v1 # None)
         /\ SC!PostsAreSupported /\ v10 \in Seq([of : Chats, name : Passthrough \cup Dynamic])
         /\ SC!RanIsSupported
         /\ \A s \in v4 : v13 = s /\ (\A b \in v5 : b.of # s) => LastOf(v6, s, v1, v7[s])
  BY SlashReports DEF SC!InductiveInv, SC!Shapes, SC!PostsAreSupported

LEMMA SlashKnown == ASSUME SC!InductiveInv PROVE SC!Known(v1) \in SUBSET Dynamic
<1>1. v1 \in (SUBSET Dynamic) \cup {None}
  BY SlashParts
<1>2. CASE v1 = None
  BY <1>2 DEF SC!Known
<1>3. CASE v1 # None
  BY <1>1, <1>3 DEF SC!Known
<1> QED
  BY <1>2, <1>3

LEMMA SlashInit == ASSUME SlashAssumptions, SC!Init PROVE SC!InductiveInv
<1>1. /\ v1 = None /\ v2 = [s \in Chats |-> None] /\ v3 = {} /\ v4 = {} /\ v5 = {}
      /\ v6 = <<>> /\ v7 = [s \in Chats |-> {}] /\ v8 \in Chats /\ v10 = <<>> /\ v11 = {}
      /\ v13 = None
  BY DEF SC!Init
<1>2. SC!Shapes
  <2>1. v6 \in Seq(SC!AnyFrame)
    BY <1>1, EmptySeq
  <2>2. v2 \in [Chats -> (SUBSET Dynamic) \cup {None}]
    BY <1>1
  <2>3. v7 \in [Chats -> SUBSET Dynamic]
    BY <1>1
  <2> QED
    BY <1>1, <2>1, <2>2, <2>3 DEF SC!Shapes
<1>3. SC!PostsAreSupported
  BY <1>1, EmptySeq DEF SC!PostsAreSupported
<1>4. SC!RanIsSupported
  BY <1>1 DEF SC!RanIsSupported
<1>5. SC!LastIsReported
  BY <1>1 DEF SC!LastIsReported
<1> QED
  BY <1>2, <1>3, <1>4, <1>5 DEF SC!InductiveInv

(* Steps that leave the catalog and the frames alone, and attach nothing.  *)
LEMMA SlashKeeps ==
  ASSUME SC!InductiveInv, UNCHANGED <<v1, v2, v6, v7, v13>>,
         \A r \in v3' : r \in v3 \/ (r.of \in Chats /\ SC!Built(r.names) \subseteq Dynamic),
         v8' \in Chats, v10' \in Seq([of : Chats, name : Passthrough \cup Dynamic]),
         v11' \subseteq Passthrough \cup Dynamic, v4' = v4, v5' = v5
  PROVE  SC!InductiveInv'
<1>1. SC!Shapes'
  BY SlashParts DEF SC!Shapes
<1>2. SC!PostsAreSupported' /\ SC!RanIsSupported'
  BY DEF SC!PostsAreSupported, SC!RanIsSupported
<1>3. SC!LastIsReported'
  BY DEF SC!InductiveInv, SC!LastIsReported, SC!LastIs
<1> QED
  BY <1>1, <1>2, <1>3 DEF SC!InductiveInv

LEMMA SlashTalk ==
  ASSUME SlashAssumptions, SC!InductiveInv
  PROVE  /\ \A s \in Chats, D \in SUBSET Dynamic :
              SC!Reports(s, D \cup Passthrough \cup Blacklist) => SC!InductiveInv'
         /\ \A s \in Chats : SC!Show(s) => SC!InductiveInv'
         /\ \A open, n : SC!Type(open, n) \/ SC!SelectCommand(n) => SC!InductiveInv'
<1>1. /\ v8 \in Chats /\ v10 \in Seq([of : Chats, name : Passthrough \cup Dynamic])
      /\ v11 \subseteq Passthrough \cup Dynamic
  BY SlashParts DEF SC!RanIsSupported
<1>2. ASSUME NEW s \in Chats, NEW D \in SUBSET Dynamic,
             SC!Reports(s, D \cup Passthrough \cup Blacklist)
      PROVE  SC!InductiveInv'
  <2> DEFINE names == D \cup Passthrough \cup Blacklist
             report == [of |-> s, names |-> names, n |-> v14]
  <2>1. SC!Built(names) \subseteq Dynamic
    BY DEF SC!Built
  <2>2. v3' = v3 \cup {report} /\ UNCHANGED <<v1, v2, v6, v7, v13, v4, v5, v8, v10, v11>>
    BY <1>2 DEF SC!Reports, SC!tab, SC!history
  <2> HIDE DEF names
  <2>3. report.of = s /\ report.names = names
    OBVIOUS
  <2> HIDE DEF report
  <2>4. \A r \in v3' : r \in v3 \/ (r.of \in Chats /\ SC!Built(r.names) \subseteq Dynamic)
    BY <2>1, <2>2, <2>3
  <2> QED
    BY <1>1, <2>2, <2>4, SlashKeeps
<1>3. ASSUME NEW s \in Chats, SC!Show(s) PROVE SC!InductiveInv'
  <2>1. v8' = s /\ UNCHANGED <<v1, v2, v3, v6, v7, v13, v4, v5, v10, v11>>
    BY <1>3 DEF SC!Show, SC!server, SC!history
  <2> QED
    BY <1>1, <2>1, SlashKeeps
<1>4. ASSUME NEW open, NEW n, SC!Type(open, n) \/ SC!SelectCommand(n) PROVE SC!InductiveInv'
  <2>1. UNCHANGED <<v1, v2, v3, v6, v7, v13, v4, v5, v8, v10, v11>>
    BY <1>4 DEF SC!Type, SC!SelectCommand, SC!server, SC!history
  <2> QED
    BY <1>1, <2>1, SlashKeeps
<1> QED
  BY <1>2, <1>3, <1>4

(* What is sent has passed the tab's catalog, which knows no more than is  *)
(* supported.                                                              *)
LEMMA SlashSends ==
  ASSUME SlashAssumptions, SC!InductiveInv, NEW n, SC!SendMessage(n)
  PROVE  SC!InductiveInv'
<1>1. v7[v8] \in SUBSET Dynamic /\ v8 \in Chats
  BY SlashParts
<1>2. SC!Merged(v8) \in SUBSET (Passthrough \cup Dynamic)
  BY <1>1 DEF SC!Merged
<1>3. SC!Merged(v8) # None
  BY <1>2 DEF SlashAssumptions
<1>4. n \in Passthrough \cup Dynamic
  BY <1>2, <1>3 DEF SC!SendMessage, SC!Passes, SC!Known
<1>5. /\ v10' = v10 \/ v10' = Append(v10, [of |-> v8, name |-> n])
      /\ UNCHANGED <<v1, v2, v3, v6, v7, v13, v4, v5, v8, v11>>
  BY DEF SC!SendMessage, SC!Sends, SC!server, SC!history
<1> DEFINE M == [of : Chats, name : Passthrough \cup Dynamic]
<1>6. [of |-> v8, name |-> n] \in M
  BY <1>1, <1>4
<1>7. v10 \in Seq(M)
  BY SlashParts
<1> HIDE DEF M
<1>8. v10' \in Seq(M)
  BY <1>5, <1>6, <1>7, AppendProperties
<1> QED
  BY <1>1, <1>5, <1>8, SlashParts, SlashKeeps DEF M, SC!RanIsSupported

LEMMA SlashHandles ==
  ASSUME SlashAssumptions, SC!InductiveInv, SC!HandleSendMessage
  PROVE  SC!InductiveInv'
<1> DEFINE M == [of : Chats, name : Passthrough \cup Dynamic]
<1>1. v10 \in Seq(M) /\ v10 # <<>> /\ v10' = Tail(v10)
  BY SlashParts DEF SC!HandleSendMessage
<1> HIDE DEF M
<1>2. Head(v10) \in M /\ v10' \in Seq(M)
  BY <1>1, HeadTailProperties
<1>3. /\ v11' = v11 \/ v11' = v11 \cup {Head(v10).name}
      /\ UNCHANGED <<v1, v2, v3, v6, v7, v13, v4, v5, v8>>
  BY DEF SC!HandleSendMessage, SC!server, SC!tab
<1>4. v11' \subseteq Passthrough \cup Dynamic
  BY <1>2, <1>3, SlashParts DEF SC!RanIsSupported, M
<1> QED
  BY <1>2, <1>3, <1>4, SlashParts, SlashKeeps DEF M

(* Steps that change frames, what is built or who is attached, and post    *)
(* nothing.                                                                *)
LEMMA SlashFrames ==
  ASSUME SC!InductiveInv, SC!Shapes', SC!LastIsReported', v11' = v11,
         v10' \in {v10, <<>>}
  PROVE  SC!InductiveInv'
<1>1. SC!PostsAreSupported'
  BY SlashParts, EmptySeq DEF SC!PostsAreSupported
<1>2. SC!RanIsSupported'
  BY SlashParts DEF SC!RanIsSupported
<1> QED
  BY <1>1, <1>2 DEF SC!InductiveInv

LEMMA SlashReported ==
  (\A s \in v4' : v13' = s /\ (\A b \in v5' : b.of # s) => LastOf(v6', s, v1', v7'[s]))
    => SC!LastIsReported'
  BY DEF SC!LastIsReported, SC!LastIs, LastOf

LEMMA SlashRefreshed ==
  ASSUME SlashAssumptions, SC!InductiveInv, NEW r, SC!Refreshed(r)
  PROVE  SC!InductiveInv'
<1> DEFINE F == [of |-> r.of, names |-> SC!Built(r.names)]
<1>1. r \in v3 /\ r.of \in Chats /\ SC!Built(r.names) \in SUBSET Dynamic
  BY SlashParts DEF SC!Refreshed
<1>2. SC!Built(r.names) # None
  BY <1>1 DEF SlashAssumptions
<1>3. F \in SC!AnyFrame /\ F.of = r.of /\ F.names = SC!Built(r.names)
  BY <1>1 DEF SC!AnyFrame
<1>4. /\ v3' = v3 \ {r} /\ v1' = SC!Built(r.names) /\ v13' = r.of
      /\ v2' = [v2 EXCEPT ![r.of] = SC!Built(r.names)]
      /\ v6' = IF r.of \in v4 THEN Append(v6, F) ELSE v6
      /\ UNCHANGED <<v4, v5, v7, v8, v10, v11>>
  BY DEF SC!Refreshed, SC!tab, SC!history
<1> HIDE DEF F
<1>5. v6' \in Seq(SC!AnyFrame)
  BY <1>3, <1>4, AppendProperties, SlashParts
<1>6. v2' \in [Chats -> (SUBSET Dynamic) \cup {None}]
  BY <1>1, <1>4, SlashParts
<1>7. SC!Shapes'
  BY <1>1, <1>2, <1>4, <1>5, <1>6, SlashParts DEF SC!Shapes
<1>8. ASSUME NEW s \in v4', v13' = s PROVE LastOf(v6', s, v1', v7'[s])
  <2>1. v6 \in Seq(SC!AnyFrame)
    BY SlashParts
  <2>2. v6' = Append(v6, F) /\ F.of = s /\ F.names = v1'
    BY <1>3, <1>4, <1>8
  <2>3. LastOf(Append(v6, F), s, v1', v7'[s])
    BY <1>3, <2>1, <2>2, LastOfAppended
  <2> QED
    BY <2>2, <2>3
<1>9. SC!LastIsReported'
  BY <1>8, SlashReported
<1> QED
  BY <1>4, <1>7, <1>9, SlashFrames

LEMMA SlashResumes ==
  ASSUME SlashAssumptions, SC!InductiveInv, NEW s \in Chats, SC!Resume(s)
  PROVE  SC!InductiveInv'
<1> DEFINE b == [of |-> s, names |-> SC!Known(v1)]
<1>1. /\ v4' = v4 \cup {s} /\ v5' = v5 \cup {b}
      /\ UNCHANGED <<v1, v2, v3, v6, v7, v8, v10, v11, v13>>
  BY DEF SC!Resume, SC!tab, SC!history
<1>2. SC!Known(v1) \in SUBSET Dynamic
  BY SlashKnown
<1>3. b \in SC!AnyFrame /\ b.of = s
  BY <1>2 DEF SC!AnyFrame
<1> HIDE DEF b
<1>4. SC!Shapes'
  BY <1>1, <1>3, SlashParts DEF SC!Shapes
<1>5. SC!LastIsReported'
  <2>1. ASSUME NEW t \in v4', v13' = t, \A c \in v5' : c.of # t
        PROVE  LastOf(v6', t, v1', v7'[t])
    <3>1. t \in v4 /\ \A c \in v5 : c.of # t
      BY <1>1, <1>3, <2>1
    <3> QED
      BY <1>1, <2>1, <3>1, SlashParts
  <2> QED
    BY <2>1, SlashReported
<1> QED
  BY <1>1, <1>4, <1>5, SlashFrames

LEMMA SlashBuilds ==
  ASSUME SlashAssumptions, SC!InductiveInv, NEW b, SC!BuiltSnapshot(b)
  PROVE  SC!InductiveInv'
<1> DEFINE e == [b EXCEPT !.names = SC!Known(v1)]
<1>1. /\ b \in v5 /\ v5' = v5 \ {b} /\ v6' = Append(v6, e)
      /\ UNCHANGED <<v1, v2, v3, v4, v7, v8, v10, v11, v13>>
  BY DEF SC!BuiltSnapshot, SC!tab, SC!history
<1>2. SC!Known(v1) \in SUBSET Dynamic
  BY SlashKnown
<1>3. b \in SC!AnyFrame
  BY <1>1, SlashParts
<1>4. e \in SC!AnyFrame /\ e.of = b.of /\ e.names = SC!Known(v1)
  BY <1>2, <1>3 DEF SC!AnyFrame
<1> HIDE DEF e
<1>5. v6 \in Seq(SC!AnyFrame)
  BY SlashParts
<1>6. v6' \in Seq(SC!AnyFrame)
  BY <1>1, <1>4, <1>5, AppendProperties
<1>7. SC!Shapes'
  BY <1>1, <1>6, SlashParts DEF SC!Shapes
<1>8. ASSUME NEW s \in v4', v13' = s, \A c \in v5' : c.of # s
      PROVE  LastOf(v6', s, v1', v7'[s])
  <2>1. s \in v4 /\ v13 = s /\ s \in Chats
    BY <1>1, <1>8, SlashParts
  <2>2. v1 # None
    BY <2>1, SlashParts DEF SlashAssumptions
  <2>3. e.names = v1
    BY <1>4, <2>2 DEF SC!Known
  <2>4. b.of # s => LastOf(v6, s, v1, v7[s])
    BY <1>1, <1>8, <2>1, SlashParts
  <2>5. LastOf(Append(v6, e), s, v1, v7[s])
    BY <1>4, <1>5, <2>3, <2>4, LastOfAppended
  <2> QED
    BY <1>1, <2>5
<1>9. SC!LastIsReported'
  BY <1>8, SlashReported
<1> QED
  BY <1>1, <1>7, <1>9, SlashFrames

LEMMA SlashArrives ==
  ASSUME SlashAssumptions, SC!InductiveInv, SC!FrameArrives
  PROVE  SC!InductiveInv'
<1> DEFINE h == Head(v6)
<1>1. /\ v6 # <<>> /\ v6' = Tail(v6) /\ v7' = [v7 EXCEPT ![h.of] = h.names]
      /\ UNCHANGED <<v1, v2, v3, v4, v5, v8, v10, v11, v13>>
  BY DEF SC!FrameArrives, SC!server, SC!history
<1>2. v6 \in Seq(SC!AnyFrame) /\ v7 \in [Chats -> SUBSET Dynamic]
  BY SlashParts
<1>3. h \in SC!AnyFrame /\ v6' \in Seq(SC!AnyFrame)
  BY <1>1, <1>2, HeadTailProperties
<1>4. h.of \in Chats /\ h.names \in SUBSET Dynamic
  BY <1>3 DEF SC!AnyFrame
<1> HIDE DEF h
<1>5. v7' \in [Chats -> SUBSET Dynamic]
  BY <1>1, <1>2, <1>4
<1>6. SC!Shapes'
  BY <1>1, <1>3, <1>5, SlashParts DEF SC!Shapes
<1>7. ASSUME NEW s \in v4', v13' = s, \A c \in v5' : c.of # s
      PROVE  LastOf(v6', s, v1', v7'[s])
  <2>1. s \in Chats /\ LastOf(v6, s, v1, v7[s])
    BY <1>1, <1>7, SlashParts
  <2>2. v7'[s] = IF h.of = s THEN h.names ELSE v7[s]
    BY <1>1, <1>2, <2>1
  <2>3. LastOf(Tail(v6), s, v1, IF h.of = s THEN h.names ELSE v7[s])
    BY <1>1, <1>2, <2>1, LastOfTail DEF h
  <2> QED
    BY <1>1, <2>2, <2>3
<1>8. SC!LastIsReported'
  BY <1>7, SlashReported
<1> QED
  BY <1>1, <1>6, <1>8, SlashFrames

LEMMA SlashFails ==
  ASSUME SlashAssumptions, SC!InductiveInv, SC!SocketDrops \/ SC!ServerRestarts
  PROVE  SC!InductiveInv'
<1>1. /\ v4' = {} /\ v5' = {} /\ v6' = <<>> /\ v10' \in {v10, <<>>}
      /\ UNCHANGED <<v7, v8, v11>>
  BY DEF SC!SocketDrops, SC!ServerRestarts, SC!Disconnected, SC!tab, SC!history
<1>2. \/ UNCHANGED <<v1, v2, v3, v13>>
      \/ v1' = None /\ v2' = [s \in Chats |-> None] /\ v3' = {} /\ v13' = None
  BY DEF SC!SocketDrops, SC!ServerRestarts
<1>3. SC!Shapes'
  <2>1. v6' \in Seq(SC!AnyFrame)
    BY <1>1, EmptySeq
  <2>2. v2' \in [Chats -> (SUBSET Dynamic) \cup {None}]
    <3>1. CASE v2' = v2
      BY <3>1, SlashParts
    <3>2. CASE v2' = [s \in Chats |-> None]
      BY <3>2
    <3> QED
      BY <1>2, <3>1, <3>2
  <2>3. /\ v1' \in (SUBSET Dynamic) \cup {None} /\ (v13' = None \/ (v13' \in Chats /\ v1' # None))
        /\ \A r \in v3' : r.of \in Chats /\ SC!Built(r.names) \subseteq Dynamic
    BY <1>2, SlashParts
  <2> QED
    BY <1>1, <2>1, <2>2, <2>3, SlashParts DEF SC!Shapes
<1>4. SC!LastIsReported'
  BY <1>1 DEF SC!LastIsReported
<1> QED
  BY <1>1, <1>3, <1>4, SlashFrames

LEMMA SlashNext ==
  ASSUME SlashAssumptions, SC!InductiveInv, SC!Next \/ UNCHANGED SC!slashVars
  PROVE  SC!InductiveInv'
<1>1. CASE SC!Next
  BY <1>1, SlashTalk, SlashSends, SlashHandles, SlashRefreshed, SlashResumes, SlashBuilds,
     SlashArrives, SlashFails DEF SC!Next
<1>2. CASE UNCHANGED SC!slashVars
  <2>1. UNCHANGED <<v1, v2, v3, v4, v5, v6, v7, v8, v10, v11, v13>>
    BY <1>2 DEF SC!slashVars
  <2> QED
    BY <2>1, SlashParts, SlashKeeps DEF SC!RanIsSupported
<1> QED
  BY <1>1, <1>2

LEMMA SlashIsReported == SC!InductiveInv => SC!SlashIsTrue
<1> SUFFICES ASSUME SC!InductiveInv PROVE SC!SlashIsTrue
  OBVIOUS
<1>1. ASSUME NEW s \in v4, v13 = s, v6 = <<>>, \A b \in v5 : b.of # s
      PROVE  v7[s] = v1
  BY <1>1, SlashParts, LastOfNone
<1> QED
  BY <1>1, SlashParts DEF SC!SlashIsTrue, SC!OfferedIsReported

(* A model is stored, shown and sent with the provider it was picked with  *)
(* unless a save was torn; an attached tab offers what was reported last,  *)
(* and nothing runs that is not supported (chat-input.tsx,                 *)
(* session-defaults-store.ts, shared/commands.ts).                         *)
THEOREM ComposerTellsTheTruth ==
  ASSUME ComposerAssumptions, SlashAssumptions PROVE Spec => []ComposerIsTrue
<1> DEFINE Inv == /\ part = "comp" => CO!InductiveInv
                  /\ part = "slash" => SC!InductiveInv
<1>1. Init => Inv
  BY ComposerStarts, ComposerInit, SlashStarts, SlashInit
<1>2. Inv /\ [Next]_vars => Inv'
  <2> SUFFICES ASSUME Inv, [Next]_vars PROVE Inv'
    OBVIOUS
  <2>1. CASE part = "comp"
    BY <2>1, PartStays, ComposerSteps, ComposerNext
  <2>2. CASE part = "slash"
    BY <2>2, PartStays, SlashSteps, SlashNext
  <2> QED
    BY <2>1, <2>2, PartStays
<1>3. Inv => ComposerIsTrue
  BY SlashIsReported DEF ComposerIsTrue, CO!InductiveInv
<1> HIDE DEF Inv
<1> QED
  BY <1>1, <1>2, <1>3, PTL DEF Spec

-----------------------------------------------------------------------------
(* The folder listing: v1 project, v2 current, v3 state, v4 calls,         *)
(* v5 version, v6 asked, v7 moves.                                         *)

LEMMA BrowseSteps ==
  ASSUME part = "browse", [Next]_vars
  PROVE  FB!Next \/ UNCHANGED FB!browserVars
<1>1. ASSUME NEW c, FB!Arrives(c) \/ FB!List(c) \/ FB!ListFails(c) PROVE FB!Next
  <2>1. c \in v4
    BY <1>1 DEF FB!Arrives, FB!List, FB!ListFails
  <2> QED
    BY <1>1, <2>1 DEF FB!Next
<1> QED
  BY <1>1 DEF Next, vars, FB!Next, FB!browserVars

LEMMA BrowseStarts == Init /\ part = "browse" => FB!Init
  BY DEF Init

LEMMA BrowseParts ==
  ASSUME FB!InductiveInv
  PROVE  /\ FB!Shapes /\ v1 \in Projects
         /\ v2 \in {FB!Root(v1)} \cup {<<v1, d>> : d \in Subs} /\ v2 \in FB!Folders
         /\ v3 \in FB!AnyAnswer /\ v4 \subseteq FB!AnyCall
         /\ v5 \in [FB!Folders -> Nat] /\ v6 \in Nat /\ v7 \in Nat
         /\ v6 <= v5[v2]
         /\ \A c \in v4 : ~c.aborted =>
              /\ c.path = v2
              /\ c.answer.status = "ready" => c.answer.of = v2 /\ c.answer.v >= v6
         /\ v3.status = "ready" => v3.of = v2 /\ v3.v >= v6
         /\ v3 = FB!Loading => \E c \in v4 : ~c.aborted
<1>1. v1 \in Projects /\ v2 \in {FB!Root(v1)} \cup {<<v1, d>> : d \in Subs}
  BY DEF FB!InductiveInv, FB!Shapes
<1>2. v2 \in FB!Folders
  BY <1>1 DEF FB!Folders
<1> QED
  BY <1>1, <1>2 DEF FB!InductiveInv, FB!Shapes, FB!LiveAreOfFolder, FB!ListingIsOfFolder,
     FB!LoadingHasACall

LEMMA NewCall ==
  ASSUME NEW f \in FB!Folders, NEW b \in BOOLEAN, NEW n \in Nat
  PROVE  LET c == FB!Call(f, b, n) IN
         /\ c \in FB!AnyCall /\ c.path = f /\ c.signal = b /\ c.aborted = FALSE
         /\ c.answer = FB!Loading /\ c.answer.status = "loading"
         /\ FB!Loading \in FB!AnyAnswer /\ FB!Loading.status = "loading"
<1> DEFINE c == FB!Call(f, b, n)
<1>1. FB!Loading \in FB!AnyAnswer /\ FB!Loading.status = "loading"
  BY DEF FB!AnyAnswer, FB!Loading
<1>2. /\ c = [path |-> f, signal |-> b, aborted |-> FALSE, answer |-> FB!Loading, n |-> n]
      /\ c.path = f /\ c.signal = b /\ c.aborted = FALSE /\ c.answer = FB!Loading
  BY DEF FB!Call
<1>3. c \in FB!AnyCall
  BY <1>1, <1>2 DEF FB!AnyCall
<1> QED
  BY <1>1, <1>2, <1>3

LEMMA BrowseInit == ASSUME FB!Init PROVE FB!InductiveInv
<1>1. /\ v1 \in Projects /\ v2 = FB!Root(v1) /\ v3 = FB!Loading
      /\ v4 = {FB!Call(FB!Root(v1), TRUE, 0)} /\ v5 = [f \in FB!Folders |-> 0]
      /\ v6 = 0 /\ v7 = 0
  BY DEF FB!Init
<1>2. v2 \in FB!Folders
  BY <1>1 DEF FB!Folders
<1> DEFINE c == FB!Call(v2, TRUE, 0)
<1>3. /\ c \in FB!AnyCall /\ c.path = v2 /\ c.aborted = FALSE /\ c.answer.status = "loading"
      /\ FB!Loading \in FB!AnyAnswer /\ FB!Loading.status = "loading"
  <2>1. 0 \in Nat /\ TRUE \in BOOLEAN
    OBVIOUS
  <2> QED
    BY <1>2, <2>1, NewCall, Zenon
<1>4. v4 = {c} /\ v5[v2] = 0
  BY <1>1, <1>2
<1> HIDE DEF c
<1>5. FB!Shapes
  BY <1>1, <1>3, <1>4 DEF FB!Shapes
<1>6. FB!LiveAreOfFolder
  <2>1. \A x \in v4 : x.path = v2 /\ x.answer.status # "ready"
    BY <1>3, <1>4
  <2>2. v6 = 0 /\ v5[v2] = 0
    BY <1>1, <1>4
  <2>3. v6 <= v5[v2]
    BY <2>2
  <2> QED
    BY <2>1, <2>3 DEF FB!LiveAreOfFolder
<1>7. FB!ListingIsOfFolder
  BY <1>1, <1>3 DEF FB!ListingIsOfFolder
<1>8. FB!LoadingHasACall
  BY <1>3, <1>4 DEF FB!LoadingHasACall
<1> QED
  BY <1>5, <1>6, <1>7, <1>8 DEF FB!InductiveInv

(* A path of two.                                                          *)
LEMMA AppendToOne == ASSUME NEW p, NEW d PROVE Append(<<p>>, d) = <<p, d>>
<1>1. ASSUME NEW S, NEW one \in Seq(S), NEW e \in S, NEW two \in Seq(S),
             Len(one) = 1, Len(two) = 2, two[1] = one[1], two[2] = e
      PROVE  Append(one, e) = two
  <2>1. Append(one, e) \in Seq(S) /\ Len(Append(one, e)) = Len(one) + 1
    BY AppendProperties
  <2>2. Append(one, e)[Len(one) + 1] = e
    BY AppendProperties
  <2>3. \A i \in 1..Len(one) : Append(one, e)[i] = one[i]
    BY AppendProperties
  <2> DEFINE q == Append(one, e)
  <2> HIDE DEF q
  <2>4. q \in Seq(S) /\ Len(q) = 2 /\ q[1] = one[1] /\ q[2] = e
    BY <1>1, <2>1, <2>2, <2>3 DEF q
  <2>5. \A i \in 1..Len(q) : q[i] = two[i]
    BY <1>1, <2>4
  <2>6. q = two
    BY <1>1, <2>4, <2>5, SeqEqual
  <2> QED
    BY <2>6 DEF q
<1>2. /\ <<p>> \in Seq({p, d}) /\ Len(<<p>>) = 1 /\ d \in {p, d}
      /\ <<p, d>> \in Seq({p, d}) /\ Len(<<p, d>>) = 2
      /\ <<p, d>>[1] = <<p>>[1] /\ <<p, d>>[2] = d
  OBVIOUS
<1> QED
  BY <1>1, <1>2, Zenon

(* Moving to a folder aborts what was asked for, as no Refresh is under    *)
(* way.                                                                    *)
LEMMA BrowseMoves ==
  ASSUME FB!InductiveInv, FB!MayMove, NEW f, FB!MoveTo(f), v1' \in Projects,
         f \in {FB!Root(v1')} \cup {<<v1', d>> : d \in Subs}, v5' = v5
  PROVE  FB!InductiveInv'
<1> DEFINE old == {IF c.signal THEN [c EXCEPT !.aborted = TRUE] ELSE c : c \in v4}
           new == FB!Call(f, TRUE, v7')
<1>1. v7' \in Nat /\ \A c \in v4 : c.signal
  BY BrowseParts DEF FB!MayMove
<1>2. f \in FB!Folders
  BY DEF FB!Folders
<1>3. v2' = f /\ v3' = FB!Loading /\ v4' = old \cup {new} /\ v6' = FB!VersionOf(f)
  BY DEF FB!MoveTo
<1>4. v6' = v5[f] /\ v6' \in Nat
  BY <1>2, <1>3, BrowseParts DEF FB!VersionOf
<1>5. \A c \in old : c \in FB!AnyCall /\ c.aborted = TRUE
  <2>1. ASSUME NEW c \in v4 PROVE [c EXCEPT !.aborted = TRUE] \in FB!AnyCall
                                  /\ [c EXCEPT !.aborted = TRUE].aborted = TRUE
    <3>1. c \in FB!AnyCall
      BY BrowseParts
    <3> QED
      BY <3>1 DEF FB!AnyCall
  <2> QED
    BY <1>1, <2>1
<1>6. /\ new \in FB!AnyCall /\ new.path = f /\ new.aborted = FALSE
      /\ new.answer.status = "loading" /\ FB!Loading \in FB!AnyAnswer
      /\ FB!Loading.status = "loading"
  BY <1>1, <1>2, NewCall
<1> HIDE DEF old, new
<1>7. FB!Shapes'
  BY <1>1, <1>3, <1>4, <1>5, <1>6, BrowseParts DEF FB!Shapes
<1>8. FB!LiveAreOfFolder'
  BY <1>3, <1>4, <1>5, <1>6 DEF FB!LiveAreOfFolder
<1>9. FB!ListingIsOfFolder'
  BY <1>3, <1>6 DEF FB!ListingIsOfFolder
<1>10. FB!LoadingHasACall'
  BY <1>3, <1>6 DEF FB!LoadingHasACall
<1> QED
  BY <1>7, <1>8, <1>9, <1>10 DEF FB!InductiveInv

LEMMA BrowseWalks ==
  ASSUME FB!InductiveInv,
         \/ \E p \in Projects : FB!SwitchProject(p)
         \/ \E d \in Subs : FB!EnterDir(d)
         \/ FB!GoUp
  PROVE  FB!InductiveInv'
<1>1. ASSUME NEW p \in Projects, FB!SwitchProject(p) PROVE FB!InductiveInv'
  BY <1>1, BrowseMoves DEF FB!SwitchProject
<1>2. ASSUME NEW d \in Subs, FB!EnterDir(d) PROVE FB!InductiveInv'
  <2>1. Len(v2) = 1
    BY <1>2, BrowseParts DEF FB!EnterDir
  <2>2. v2 = <<v1>>
    <3>1. ASSUME NEW e \in Subs, v2 = <<v1, e>> PROVE FALSE
      BY <2>1, <3>1
    <3> QED
      BY <3>1, BrowseParts DEF FB!Root
  <2>3. Append(v2, d) = <<v1, d>>
    <3>1. Append(<<v1>>, d) = <<v1, d>>
      BY AppendToOne
    <3> QED
      BY <2>2, <3>1
  <2>4. /\ FB!MayMove /\ FB!MoveTo(<<v1, d>>) /\ v1' = v1 /\ v5' = v5
    BY <1>2, <2>3 DEF FB!EnterDir
  <2> QED
    BY <2>4, BrowseMoves, BrowseParts
<1>3. CASE FB!GoUp
  BY <1>3, BrowseMoves, BrowseParts DEF FB!GoUp
<1> QED
  BY <1>1, <1>2, <1>3

LEMMA BrowseRefreshes ==
  ASSUME FB!InductiveInv, FB!Refresh
  PROVE  FB!InductiveInv'
<1> DEFINE new == FB!Call(v2, FALSE, v7')
<1>1. /\ v7' \in Nat /\ \A c \in v4 : c.aborted
      /\ v3' = FB!Loading /\ v4' = v4 \cup {new} /\ v6' = FB!VersionOf(v2)
      /\ UNCHANGED <<v1, v2, v5>>
  BY BrowseParts DEF FB!Refresh, FB!MayMove
<1>2. v6' = v5[v2] /\ v6' \in Nat
  BY <1>1, BrowseParts DEF FB!VersionOf
<1>3. /\ new \in FB!AnyCall /\ new.path = v2 /\ new.aborted = FALSE
      /\ new.answer.status = "loading" /\ FB!Loading \in FB!AnyAnswer
      /\ FB!Loading.status = "loading"
  BY <1>1, NewCall, BrowseParts
<1> HIDE DEF new
<1>4. FB!Shapes'
  BY <1>1, <1>2, <1>3, BrowseParts DEF FB!Shapes
<1>5. FB!LiveAreOfFolder'
  BY <1>1, <1>2, <1>3 DEF FB!LiveAreOfFolder
<1>6. FB!ListingIsOfFolder'
  BY <1>1, <1>3 DEF FB!ListingIsOfFolder
<1>7. FB!LoadingHasACall'
  BY <1>1, <1>3 DEF FB!LoadingHasACall
<1> QED
  BY <1>4, <1>5, <1>6, <1>7 DEF FB!InductiveInv

LEMMA BrowseArrives ==
  ASSUME FB!InductiveInv, NEW c, FB!Arrives(c)
  PROVE  FB!InductiveInv'
<1>1. /\ c \in v4 /\ c \in FB!AnyCall /\ c.answer # FB!Loading /\ v4' = v4 \ {c}
      /\ v3' = (IF c.aborted THEN v3 ELSE c.answer) /\ UNCHANGED <<v1, v2, v5, v6, v7>>
  BY BrowseParts DEF FB!Arrives
<1>2. c.answer \in FB!AnyAnswer /\ c.aborted \in BOOLEAN
  BY <1>1 DEF FB!AnyCall
<1>3. FB!Shapes'
  BY <1>1, <1>2, BrowseParts DEF FB!Shapes
<1>4. FB!LiveAreOfFolder'
  BY <1>1, BrowseParts DEF FB!LiveAreOfFolder
<1>5. FB!ListingIsOfFolder'
  BY <1>1, <1>2, BrowseParts DEF FB!ListingIsOfFolder
<1>6. FB!LoadingHasACall'
  BY <1>1, <1>2, BrowseParts DEF FB!LoadingHasACall
<1> QED
  BY <1>3, <1>4, <1>5, <1>6 DEF FB!InductiveInv

LEMMA BrowseAnswers ==
  ASSUME FB!InductiveInv, NEW c, FB!List(c) \/ FB!ListFails(c)
  PROVE  FB!InductiveInv'
<1>1. PICK a \in {FB!Ready(c.path, v5[c.path]), FB!Failed} :
        v4' = (v4 \ {c}) \cup {[c EXCEPT !.answer = a]}
  BY DEF FB!List, FB!ListFails
<1>2. c \in v4 /\ c \in FB!AnyCall /\ UNCHANGED <<v1, v2, v3, v5, v6, v7>>
  BY BrowseParts DEF FB!List, FB!ListFails
<1>3. c.path \in FB!Folders /\ c.aborted \in BOOLEAN /\ v5[c.path] \in Nat
  BY <1>2, BrowseParts DEF FB!AnyCall
<1>4. /\ a \in FB!AnyAnswer
      /\ a.status = "ready" => a.of = c.path /\ a.v = v5[c.path]
  BY <1>1, <1>3 DEF FB!AnyAnswer, FB!Ready, FB!Failed
<1> DEFINE e == [c EXCEPT !.answer = a]
<1>5. e \in FB!AnyCall /\ e.path = c.path /\ e.aborted = c.aborted /\ e.answer = a
  BY <1>2, <1>4 DEF FB!AnyCall
<1>6. v4' = (v4 \ {c}) \cup {e}
  BY <1>1
<1> HIDE DEF e
<1>7. FB!Shapes'
  BY <1>2, <1>5, <1>6, BrowseParts DEF FB!Shapes
<1>8. FB!LiveAreOfFolder'
  BY <1>2, <1>4, <1>5, <1>6, BrowseParts DEF FB!LiveAreOfFolder
<1>9. FB!ListingIsOfFolder'
  BY <1>2, BrowseParts DEF FB!ListingIsOfFolder
<1>10. FB!LoadingHasACall'
  BY <1>2, <1>5, <1>6, BrowseParts DEF FB!LoadingHasACall
<1> QED
  BY <1>7, <1>8, <1>9, <1>10 DEF FB!InductiveInv

LEMMA BrowseChanges ==
  ASSUME FB!InductiveInv, NEW f \in FB!Folders, FB!Change(f)
  PROVE  FB!InductiveInv'
<1>1. /\ v5' = [v5 EXCEPT ![f] = @ + 1] /\ v7' = v7 + 1 /\ UNCHANGED <<v1, v2, v3, v4, v6>>
  BY DEF FB!Change
<1>2. v5' \in [FB!Folders -> Nat] /\ v7' \in Nat /\ v5'[v2] >= v5[v2]
  BY <1>1, BrowseParts
<1>3. FB!Shapes'
  BY <1>1, <1>2, BrowseParts DEF FB!Shapes
<1>4. v6 <= v5'[v2]
  BY <1>2, BrowseParts
<1>5. FB!LiveAreOfFolder'
  BY <1>1, <1>4, BrowseParts DEF FB!LiveAreOfFolder
<1>6. FB!ListingIsOfFolder' /\ FB!LoadingHasACall'
  BY <1>1, BrowseParts DEF FB!ListingIsOfFolder, FB!LoadingHasACall
<1> QED
  BY <1>3, <1>5, <1>6 DEF FB!InductiveInv

LEMMA BrowseNext ==
  ASSUME FB!InductiveInv, FB!Next \/ UNCHANGED FB!browserVars
  PROVE  FB!InductiveInv'
<1>1. CASE FB!Next
  BY <1>1, BrowseWalks, BrowseRefreshes, BrowseArrives, BrowseAnswers, BrowseChanges
  DEF FB!Next
<1>2. CASE UNCHANGED FB!browserVars
  <2>1. UNCHANGED <<v1, v2, v3, v4, v5, v6, v7>>
    BY <1>2 DEF FB!browserVars
  <2>2. FB!Shapes'
    BY <2>1, BrowseParts DEF FB!Shapes
  <2>3. FB!LiveAreOfFolder' /\ FB!ListingIsOfFolder' /\ FB!LoadingHasACall'
    BY <2>1, BrowseParts DEF FB!LiveAreOfFolder, FB!ListingIsOfFolder, FB!LoadingHasACall
  <2> QED
    BY <2>2, <2>3 DEF FB!InductiveInv
<1> QED
  BY <1>1, <1>2

-----------------------------------------------------------------------------
(* The sidebar's sessions: v1 rows, v2 list, v3 status, v4 attached, v5    *)
(* frames, v6 timer, v7 asked, v8 answers, v9 deleting, v10 untold,        *)
(* v11 missed.                                                             *)

ListAssumptions == MaxRevision \in Nat \ {0}

LEMMA ListSteps ==
  ASSUME part = "list", [Next]_vars
  PROVE  SL!AnswerArrives(1) \/ SL!Next \/ UNCHANGED SL!listVars
  BY DEF Next, vars, SL!Next, SL!listVars

LEMMA ListStarts == Init /\ part = "list" => SL!Init
  BY DEF Init

ListUnready == EndsWith(v8, SL!Ends, SL!AnyAnswer \ SL!Succeeds, v3 # "ready")
ListFresh(s) ==
  EndsWith(v8, SL!Touches(s), SL!Shows(s, SL!Listed[s]), v2[s] = SL!Listed[s])
ListComes(s) == SL!Refreshes(s) \/ ListUnready \/ ListFresh(s)

LEMMA ListEach == SL!EachComes <=> \A s \in Sids \ v11 : ListComes(s)
  BY DEF SL!EachComes, SL!EndsIn, EndsWith, ListComes, ListUnready, ListFresh

LEMMA ListEachNext == (\A s \in Sids \ v11' : ListComes(s)') => SL!EachComes'
  BY DEF SL!EachComes, SL!EndsIn, EndsWith, ListComes, ListUnready, ListFresh

LEMMA ListParts ==
  ASSUME SL!InductiveInv
  PROVE  /\ SL!Shapes /\ \A s \in Sids \ v11 : ListComes(s)
         /\ v1 \in SL!Views /\ v2 \in SL!Views
         /\ v3 \in {"loading", "ready", "error"}
         /\ v4 \subseteq Sids /\ v10 \subseteq Sids /\ v11 \subseteq Sids
         /\ v5 \in Seq(Sids) /\ v6 \in BOOLEAN /\ v7 \in Nat /\ v8 \in Seq(SL!AnyAnswer)
  BY ListEach DEF SL!InductiveInv, SL!Shapes

LEMMA ViewFacts ==
  ASSUME ListAssumptions, v1 \in SL!Views
  PROVE  /\ SL!Listed \in SL!Views
         /\ \A s \in Sids : SL!Listed[s] = IF SL!Exists(s) THEN v1[s] ELSE SL!NoRow
         /\ SL!NoRow \in SL!NoRow..SL!Gone /\ SL!Gone \in SL!NoRow..SL!Gone
         /\ 1 \in SL!NoRow..SL!Gone
<1>1. /\ SL!NoRow \in SL!NoRow..SL!Gone /\ SL!Gone \in SL!NoRow..SL!Gone
      /\ 1 \in SL!NoRow..SL!Gone
  BY DEF ListAssumptions, SL!NoRow, SL!Gone
<1>2. \A s \in Sids : v1[s] \in SL!NoRow..SL!Gone
  BY DEF SL!Views
<1>3. SL!Listed \in SL!Views
  BY <1>1, <1>2 DEF SL!Listed, SL!Views
<1> QED
  BY <1>1, <1>3 DEF SL!Listed

LEMMA ListInit == ASSUME ListAssumptions, SL!Init PROVE SL!InductiveInv
<1>1. /\ v1 \in [Sids -> {SL!NoRow, 1}] /\ v2 = [s \in Sids |-> SL!NoRow]
      /\ v3 = "loading" /\ v7 = 1 /\ v4 = {} /\ v5 = <<>> /\ v6 = FALSE /\ v8 = <<>>
      /\ v10 = {} /\ v11 = {}
  BY DEF SL!Init
<1>2. SL!NoRow \in SL!NoRow..SL!Gone /\ 1 \in SL!NoRow..SL!Gone
  BY DEF ListAssumptions, SL!NoRow, SL!Gone
<1>3. v1 \in SL!Views /\ v2 \in SL!Views
  BY <1>1, <1>2 DEF SL!Views
<1>4. v5 \in Seq(Sids) /\ v8 \in Seq(SL!AnyAnswer)
  BY <1>1, EmptySeq
<1>5. SL!Shapes
  BY <1>1, <1>3, <1>4 DEF SL!Shapes
<1>6. \A s : SL!Refreshes(s)
  BY <1>1 DEF SL!Refreshes
<1>7. SL!EachComes
  BY <1>6 DEF SL!EachComes
<1> QED
  BY <1>5, <1>7 DEF SL!InductiveInv

LEMMA ListConcludes ==
  ASSUME SL!Shapes', \A s \in Sids \ v11' : ListComes(s)'
  PROVE  SL!InductiveInv'
  BY ListEachNext DEF SL!InductiveInv

(* Steps that leave the answers and what they come to alone: whoever       *)
(* changed is to be refreshed or was missed.                               *)
LEMMA ListKeeps ==
  ASSUME SL!InductiveInv, SL!Shapes', UNCHANGED <<v2, v3, v8>>, v11 \subseteq v11',
         \A s \in Sids \ v11' : \/ SL!Refreshes(s)'
                                \/ ~SL!Refreshes(s) /\ SL!Listed'[s] = SL!Listed[s]
  PROVE  SL!InductiveInv'
<1>1. ASSUME NEW s \in Sids \ v11' PROVE ListComes(s)'
  <2>1. CASE SL!Refreshes(s)'
    BY <2>1 DEF ListComes
  <2>2. CASE ~SL!Refreshes(s) /\ SL!Listed'[s] = SL!Listed[s]
    <3>1. ListUnready \/ ListFresh(s)
      BY <2>2, ListParts DEF ListComes
    <3> QED
      BY <2>2, <3>1 DEF ListComes, ListUnready, ListFresh
  <2> QED
    BY <1>1, <2>1, <2>2
<1> QED
  BY <1>1, ListConcludes

LEMMA ListAsks ==
  ASSUME SL!InductiveInv,
         SL!Focus \/ SL!TimerFires \/ SL!FrameArrives \/ (\E s \in Sids : SL!Remove(s))
         \/ UNCHANGED SL!listVars
  PROVE  SL!InductiveInv'
<1>1. CASE SL!Focus \/ SL!TimerFires \/ SL!FrameArrives
  <2>1. /\ UNCHANGED <<v1, v2, v4, v8, v10, v11>>
        /\ v3' \in {v3, "loading"} /\ v7' \in {v7, v7 + 1} /\ v6' \in {v6, TRUE, FALSE}
        /\ v7' = v7 + 1 \/ v6' = TRUE
    BY <1>1 DEF SL!Focus, SL!TimerFires, SL!FrameArrives, SL!Fetch
  <2>2. v5' \in Seq(Sids)
    BY <1>1, ListParts, HeadTailProperties DEF SL!Focus, SL!TimerFires, SL!FrameArrives
  <2>3. v7' \in Nat /\ (v7' > 0 \/ v6' = TRUE)
    BY <2>1, ListParts
  <2>4. SL!Shapes'
    BY <2>1, <2>2, <2>3, ListParts DEF SL!Shapes
  <2>5. \A s : SL!Refreshes(s)'
    BY <2>3 DEF SL!Refreshes
  <2> QED
    BY <2>4, <2>5, ListConcludes DEF ListComes
<1>2. CASE (\E s \in Sids : SL!Remove(s)) \/ UNCHANGED SL!listVars
  <2>1. UNCHANGED <<v1, v2, v3, v4, v5, v6, v7, v8, v10, v11>>
    BY <1>2 DEF SL!Remove, SL!listVars
  <2>2. SL!Shapes'
    BY <2>1, ListParts DEF SL!Shapes
  <2>3. \A s : SL!Refreshes(s)' <=> SL!Refreshes(s)
    BY <2>1 DEF SL!Refreshes
  <2>4. SL!Listed' = SL!Listed
    BY <2>1 DEF SL!Listed, SL!Exists
  <2> QED
    BY <2>1, <2>2, <2>3, <2>4, ListKeeps
<1> QED
  BY <1>1, <1>2

(* A session that is told of, written or deleted.                          *)
LEMMA TellFacts ==
  ASSUME SL!InductiveInv, NEW s \in Sids, SL!Tell(s)
  PROVE  /\ v5' \in Seq(Sids) /\ \E i \in DOMAIN v5' : v5'[i] = s
         /\ \A t : (\E i \in DOMAIN v5 : v5[i] = t) => \E i \in DOMAIN v5' : v5'[i] = t
<1>1. v5 \in Seq(Sids) /\ v5' = Append(v5, s)
  BY ListParts DEF SL!Tell
<1>2. /\ v5' \in Seq(Sids) /\ Len(v5') = Len(v5) + 1 /\ v5'[Len(v5) + 1] = s
      /\ \A i \in 1..Len(v5) : v5'[i] = v5[i]
  BY <1>1, AppendProperties
<1>3. DOMAIN v5 = 1..Len(v5) /\ DOMAIN v5' = 1..Len(v5') /\ Len(v5) \in Nat
  BY <1>1, <1>2, SeqElements
<1>4. Len(v5) + 1 \in DOMAIN v5' /\ \A i \in DOMAIN v5 : i \in DOMAIN v5'
  BY <1>2, <1>3
<1> QED
  BY <1>2, <1>3, <1>4

(* A step at one session: the others are as they were, and it is told of   *)
(* or missed.                                                              *)
LEMMA ListTells ==
  ASSUME ListAssumptions, SL!InductiveInv, NEW s \in Sids,
         UNCHANGED <<v2, v3, v6, v7, v8>>, v4' \subseteq Sids, v10' \subseteq Sids,
         v11' \in {v11, v11 \cup {s}}, SL!Tell(s) \/ v5' = v5,
         v1' \in SL!Views, \A t \in Sids : t # s => v1'[t] = v1[t] /\ (t \in v10' <=> t \in v10),
         \/ SL!Tell(s) \/ s \in v11' \/ s \in v10'
  PROVE  SL!InductiveInv'
<1>1. v5' \in Seq(Sids)
  BY TellFacts, ListParts
<1>2. SL!Shapes'
  BY <1>1, ListParts DEF SL!Shapes
<1>3. \A t : (\E i \in DOMAIN v5 : v5[i] = t) => \E i \in DOMAIN v5' : v5'[i] = t
  BY TellFacts
<1>4. ASSUME NEW t \in Sids \ v11', t # s
      PROVE  SL!Refreshes(t)' \/ (~SL!Refreshes(t) /\ SL!Listed'[t] = SL!Listed[t])
  <2>1. SL!Refreshes(t) => SL!Refreshes(t)'
    BY <1>3, <1>4 DEF SL!Refreshes
  <2>2. SL!Listed'[t] = SL!Listed[t]
    BY <1>4 DEF SL!Listed, SL!Exists
  <2> QED
    BY <2>1, <2>2
<1>5. s \notin v11' => SL!Refreshes(s)'
  BY TellFacts DEF SL!Refreshes
<1> QED
  BY <1>2, <1>4, <1>5, ListKeeps

LEMMA ListChanges ==
  ASSUME ListAssumptions, SL!InductiveInv, NEW s \in Sids,
         \/ \E b \in BOOLEAN : SL!StartSession(s, b) \/ SL!Broadcast(s, b)
         \/ SL!Resume(s) \/ SL!RowIsWritten(s) \/ SL!DeletedElsewhere(s)
  PROVE  SL!InductiveInv'
<1>1. v1 \in [Sids -> SL!NoRow..SL!Gone] /\ v4 \subseteq Sids /\ v10 \subseteq Sids
  BY ListParts DEF SL!Views
<1>2. CASE \E b \in BOOLEAN : SL!StartSession(s, b)
  <2>1. /\ v1' = [v1 EXCEPT ![s] = 1] /\ UNCHANGED <<v2, v3, v6, v7, v8, v10>>
        /\ \/ v4' = v4 \cup {s} /\ SL!Tell(s) /\ v11' = v11
           \/ v11' = v11 \cup {s} /\ v4' = v4 /\ v5' = v5
    BY <1>2 DEF SL!StartSession
  <2>2. v1' \in SL!Views
    BY <1>1, <2>1, ViewFacts, ListParts DEF SL!Views
  <2>3. \A t \in Sids : t # s => v1'[t] = v1[t]
    BY <1>1, <2>1
  <2> QED
    BY <1>1, <2>1, <2>2, <2>3, ListTells
<1>3. CASE \E b \in BOOLEAN : SL!Broadcast(s, b)
  <2>1. /\ v10' = v10 \ {s} /\ UNCHANGED <<v1, v2, v3, v4, v6, v7, v8>>
        /\ \/ SL!Tell(s) /\ v11' = v11
           \/ v11' = v11 \cup {s} /\ v5' = v5
    BY <1>3 DEF SL!Broadcast
  <2> QED
    BY <1>1, <2>1, ListTells, ListParts
<1>4. CASE SL!Resume(s)
  <2>1. /\ v4' = v4 \cup {s} /\ SL!Tell(s) /\ UNCHANGED <<v1, v2, v3, v6, v7, v8, v10, v11>>
    BY <1>4 DEF SL!Resume
  <2> QED
    BY <1>1, <2>1, ListTells, ListParts
<1>5. CASE SL!RowIsWritten(s)
  <2>1. /\ SL!Exists(s) /\ v1[s] < MaxRevision /\ v1' = [v1 EXCEPT ![s] = @ + 1]
        /\ v10' = v10 \cup {s} /\ UNCHANGED <<v2, v3, v4, v5, v6, v7, v8, v11>>
    BY <1>5 DEF SL!RowIsWritten
  <2>2. v1[s] + 1 \in SL!NoRow..SL!Gone
    BY <1>1, <2>1 DEF ListAssumptions, SL!NoRow, SL!Gone
  <2>3. v1' \in SL!Views
    BY <1>1, <2>1, <2>2 DEF SL!Views
  <2>4. \A t \in Sids : t # s => v1'[t] = v1[t]
    BY <1>1, <2>1
  <2> QED
    BY <1>1, <2>1, <2>3, <2>4, ListTells
<1>6. CASE SL!DeletedElsewhere(s)
  <2>1. /\ v1' = [v1 EXCEPT ![s] = SL!Gone] /\ v11' = v11 \cup {s}
        /\ UNCHANGED <<v2, v3, v4, v5, v6, v7, v8, v10>>
    BY <1>6 DEF SL!DeletedElsewhere
  <2>2. v1' \in SL!Views
    BY <1>1, <2>1, ViewFacts, ListParts DEF SL!Views
  <2>3. \A t \in Sids : t # s => v1'[t] = v1[t]
    BY <1>1, <2>1
  <2> QED
    BY <1>1, <2>1, <2>2, <2>3, ListTells
<1> QED
  BY <1>2, <1>3, <1>4, <1>5, <1>6

LEMMA ListDrops ==
  ASSUME SL!InductiveInv, SL!SocketDrops
  PROVE  SL!InductiveInv'
<1>1. /\ v4' = {} /\ v5' = <<>> /\ v11' = v11 \cup {v5[i] : i \in DOMAIN v5}
      /\ UNCHANGED <<v1, v2, v3, v6, v7, v8, v10>>
  BY DEF SL!SocketDrops
<1>2. {v5[i] : i \in DOMAIN v5} \subseteq Sids
  BY ListParts, SeqElements
<1>3. v5' \in Seq(Sids)
  BY <1>1, EmptySeq
<1>4. SL!Shapes'
  BY <1>1, <1>2, <1>3, ListParts DEF SL!Shapes
<1>5. SL!Listed' = SL!Listed
  BY <1>1 DEF SL!Listed, SL!Exists
<1>6. \A t \in Sids \ v11' : SL!Refreshes(t) => SL!Refreshes(t)'
  BY <1>1 DEF SL!Refreshes
<1> QED
  BY <1>1, <1>4, <1>5, <1>6, ListKeeps

(* What an answer that joins the queue keeps.                              *)
LEMMA AnswerFacts ==
  ASSUME SL!InductiveInv, NEW a \in SL!AnyAnswer, SL!Answer(a)
  PROVE  /\ v8' \in Seq(SL!AnyAnswer)
         /\ a.kind = "project" => \E i \in DOMAIN v8' : v8'[i].kind = "project"
         /\ (\E i \in DOMAIN v8 : v8[i].kind = "project")
              => \E i \in DOMAIN v8' : v8'[i].kind = "project"
<1>1. v8 \in Seq(SL!AnyAnswer) /\ v8' = Append(v8, a)
  BY ListParts DEF SL!Answer
<1>2. /\ v8' \in Seq(SL!AnyAnswer) /\ Len(v8') = Len(v8) + 1 /\ v8'[Len(v8) + 1] = a
      /\ \A i \in 1..Len(v8) : v8'[i] = v8[i]
  BY <1>1, AppendProperties
<1>3. DOMAIN v8 = 1..Len(v8) /\ DOMAIN v8' = 1..Len(v8') /\ Len(v8) \in Nat
  BY <1>1, <1>2, SeqElements
<1>4. Len(v8) + 1 \in DOMAIN v8' /\ \A i \in DOMAIN v8 : i \in DOMAIN v8'
  BY <1>2, <1>3
<1> QED
  BY <1>2, <1>3, <1>4

LEMMA ListReads ==
  ASSUME ListAssumptions, SL!InductiveInv, NEW b \in BOOLEAN, SL!ListIsRead(b)
  PROVE  SL!InductiveInv'
<1>1. /\ v7 > 0 /\ v7' = v7 - 1 /\ UNCHANGED <<v1, v2, v3, v4, v5, v6, v9, v10>>
      /\ \/ SL!Answer([kind |-> "error"]) /\ v11' = v11
         \/ SL!Answer([kind |-> "list", rows |-> SL!Listed]) /\ v11' = {}
  BY DEF SL!ListIsRead
<1>2. v7' \in Nat /\ SL!Listed' = SL!Listed /\ SL!Listed \in SL!Views
  BY <1>1, ListParts, ViewFacts DEF SL!Listed, SL!Exists
<1>3. CASE SL!Answer([kind |-> "error"]) /\ v11' = v11
  <2> DEFINE a == [kind |-> "error"]
  <2>1. a \in SL!AnyAnswer /\ a \in SL!Ends /\ a \in SL!AnyAnswer \ SL!Succeeds
    BY DEF SL!AnyAnswer, SL!Ends, SL!Succeeds
  <2> HIDE DEF a
  <2>2. v8' \in Seq(SL!AnyAnswer) /\ v8' = Append(v8, a)
    BY <1>3, <2>1, AnswerFacts DEF SL!Answer, a
  <2>3. ListUnready'
    BY <1>1, <2>1, <2>2, EndsAppended, ListParts DEF ListUnready
  <2>4. SL!Shapes'
    BY <1>1, <1>2, <1>3, <2>2, ListParts DEF SL!Shapes
  <2> QED
    BY <2>3, <2>4, ListConcludes DEF ListComes
<1>4. CASE SL!Answer([kind |-> "list", rows |-> SL!Listed]) /\ v11' = {}
  <2> DEFINE a == [kind |-> "list", rows |-> SL!Listed]
  <2>1. a \in SL!AnyAnswer /\ a.kind = "list" /\ a.rows = SL!Listed
    BY <1>2 DEF SL!AnyAnswer
  <2> HIDE DEF a
  <2>2. v8' \in Seq(SL!AnyAnswer) /\ v8' = Append(v8, a)
    BY <1>4, <2>1, AnswerFacts DEF SL!Answer, a
  <2>3. ASSUME NEW s \in Sids PROVE ListFresh(s)'
    <3>1. a \in SL!Touches(s) /\ a \in SL!Shows(s, SL!Listed[s])
      BY <2>1 DEF SL!Touches, SL!Shows
    <3>2. EndsWith(v8', SL!Touches(s), SL!Shows(s, SL!Listed[s]), v2'[s] = SL!Listed[s])
      BY <2>1, <2>2, <3>1, EndsAppended, ListParts
    <3> QED
      BY <1>2, <3>2 DEF ListFresh
  <2>4. SL!Shapes'
    BY <1>1, <1>2, <1>4, <2>2, ListParts DEF SL!Shapes
  <2> QED
    BY <2>3, <2>4, ListConcludes DEF ListComes
<1> QED
  BY <1>1, <1>3, <1>4

LEMMA ListDeletes ==
  ASSUME ListAssumptions, SL!InductiveInv, NEW s \in Sids, NEW b \in BOOLEAN,
         SL!DeleteHandled(s, b)
  PROVE  SL!InductiveInv'
<1>1. UNCHANGED <<v2, v3, v4, v5, v6, v7, v10>>
  BY DEF SL!DeleteHandled
<1>2. CASE UNCHANGED <<v1, v8, v11>>
  <2>1. SL!Shapes'
    BY <1>1, <1>2, ListParts DEF SL!Shapes
  <2>2. \A t : SL!Refreshes(t)' <=> SL!Refreshes(t)
    BY <1>1, <1>2 DEF SL!Refreshes
  <2>3. SL!Listed' = SL!Listed
    BY <1>2 DEF SL!Listed, SL!Exists
  <2> QED
    BY <1>1, <1>2, <2>1, <2>2, <2>3, ListKeeps
<1>3. CASE /\ SL!Exists(s) /\ v1' = [v1 EXCEPT ![s] = SL!Gone]
           /\ v11' = v11 \cup {s} /\ v8' = v8
  <2>1. v1' \in SL!Views /\ \A t \in Sids : t # s => v1'[t] = v1[t]
    BY <1>3, ViewFacts, ListParts DEF SL!Views
  <2> QED
    BY <1>1, <1>3, <2>1, ListTells, ListParts
<1>4. CASE /\ SL!Exists(s) /\ v1' = [v1 EXCEPT ![s] = SL!Gone]
           /\ SL!Answer([kind |-> "deleted", sid |-> s]) /\ v11' = v11
  <2> DEFINE a == [kind |-> "deleted", sid |-> s]
  <2>1. a \in SL!AnyAnswer /\ a.kind = "deleted" /\ a.sid = s
    BY DEF SL!AnyAnswer
  <2> HIDE DEF a
  <2>2. /\ v8' \in Seq(SL!AnyAnswer) /\ v8' = Append(v8, a) /\ v8 \in Seq(SL!AnyAnswer)
        /\ (\E i \in DOMAIN v8 : v8[i].kind = "project")
             => \E i \in DOMAIN v8' : v8'[i].kind = "project"
    BY <1>4, <2>1, AnswerFacts, ListParts DEF SL!Answer, a
  <2>3. v1' \in SL!Views /\ v1'[s] = SL!Gone /\ \A t \in Sids : t # s => v1'[t] = v1[t]
    BY <1>4, ViewFacts, ListParts DEF SL!Views
  <2>4. SL!Listed'[s] = SL!NoRow
    BY <2>3 DEF SL!Listed, SL!Exists
  <2>5. \A t \in Sids : t # s => SL!Listed'[t] = SL!Listed[t]
    BY <2>3 DEF SL!Listed, SL!Exists
  <2>6. SL!Shapes'
    BY <1>1, <1>4, <2>2, <2>3, ListParts DEF SL!Shapes
  <2>7. ListFresh(s)'
    <3>1. a \in SL!Touches(s) /\ a \in SL!Shows(s, SL!NoRow)
      BY <2>1 DEF SL!Touches, SL!Shows
    <3>2. EndsWith(v8', SL!Touches(s), SL!Shows(s, SL!NoRow), v2'[s] = SL!NoRow)
      BY <2>1, <2>2, <3>1, EndsAppended
    <3> QED
      BY <2>4, <3>2 DEF ListFresh
  <2>8. ASSUME NEW t \in Sids \ v11', t # s PROVE ListComes(t)'
    <3>1. ListComes(t)
      BY <1>4, <2>8, ListParts
    <3>2. SL!Refreshes(t) => SL!Refreshes(t)'
      BY <1>1, <2>2 DEF SL!Refreshes
    <3>3. ListUnready => ListUnready'
      <4>1. a \notin SL!Ends
        BY <2>1 DEF SL!Ends
      <4> QED
        BY <1>1, <2>1, <2>2, <4>1, EndsAppended DEF ListUnready
    <3>4. ListFresh(t) => ListFresh(t)'
      <4>1. a \notin SL!Touches(t)
        BY <2>1, <2>8 DEF SL!Touches
      <4>2. SL!Listed'[t] = SL!Listed[t] /\ v2' = v2
        BY <1>1, <2>5, <2>8
      <4>3. ASSUME ListFresh(t)
            PROVE  EndsWith(v8', SL!Touches(t), SL!Shows(t, SL!Listed[t]), v2[t] = SL!Listed[t])
        BY <2>1, <2>2, <4>1, <4>3, EndsAppended DEF ListFresh
      <4> QED
        BY <4>2, <4>3 DEF ListFresh
    <3> QED
      BY <3>1, <3>2, <3>3, <3>4 DEF ListComes
  <2> QED
    BY <2>6, <2>7, <2>8, ListConcludes DEF ListComes
<1> QED
  BY <1>2, <1>3, <1>4 DEF SL!DeleteHandled

LEMMA ListProjectDeleted ==
  ASSUME ListAssumptions, SL!InductiveInv, SL!ProjectDeleted
  PROVE  SL!InductiveInv'
<1>1. /\ v1' = [s \in Sids |-> IF SL!Exists(s) THEN SL!Gone ELSE v1[s]]
      /\ SL!Answer([kind |-> "project"])
      /\ UNCHANGED <<v2, v3, v4, v5, v6, v7, v10, v11>>
  BY DEF SL!ProjectDeleted
<1> DEFINE a == [kind |-> "project"]
<1>2. a \in SL!AnyAnswer /\ a.kind = "project"
  BY DEF SL!AnyAnswer
<1> HIDE DEF a
<1>3. v8' \in Seq(SL!AnyAnswer) /\ \E i \in DOMAIN v8' : v8'[i].kind = "project"
  BY <1>1, <1>2, AnswerFacts DEF a
<1>4. v1' \in SL!Views
  BY <1>1, ViewFacts, ListParts DEF SL!Views
<1>5. SL!Shapes'
  BY <1>1, <1>3, <1>4, ListParts DEF SL!Shapes
<1>6. \A s : SL!Refreshes(s)'
  BY <1>3 DEF SL!Refreshes
<1> QED
  BY <1>5, <1>6, ListConcludes DEF ListComes

LEMMA ListArrives ==
  ASSUME ListAssumptions, SL!InductiveInv, NEW i \in Nat \ {0}, SL!AnswerArrives(i)
  PROVE  SL!InductiveInv'
<1> DEFINE h == Head(v8)
<1>1. i = 1 /\ v8 # <<>> /\ v8 \in Seq(SL!AnyAnswer)
  <2>1. i = 1 /\ i \in DOMAIN v8
    BY DEF SL!AnswerArrives
  <2> QED
    BY <2>1, ListParts, EmptySeq, SeqElements
<1>2. /\ h \in SL!AnyAnswer /\ h = v8[1] /\ Tail(v8) \in Seq(SL!AnyAnswer)
      /\ Len(Tail(v8)) = Len(v8) - 1
      /\ \A j \in 1..Len(Tail(v8)) : Tail(v8)[j] = v8[j + 1]
  BY <1>1, HeadTailProperties
<1>3. v8' = Tail(v8)
  <2>1. v8' = [j \in 1..(Len(v8) - 1) |-> v8[IF j < i THEN j ELSE j + 1]]
    BY DEF SL!AnswerArrives
  <2>2. Len(v8) \in Nat \ {0} /\ DOMAIN Tail(v8) = 1..(Len(v8) - 1)
    BY <1>1, <1>2, SeqElements, EmptySeq
  <2>3. \A j \in 1..(Len(v8) - 1) : (IF j < i THEN j ELSE j + 1) = j + 1
    BY <1>1, <2>2
  <2>4. v8' = [j \in 1..(Len(v8) - 1) |-> v8[j + 1]]
    BY <2>1, <2>3
  <2>5. \A j \in 1..(Len(v8) - 1) : Tail(v8)[j] = v8[j + 1]
    BY <1>2
  <2>6. Len(v8) - 1 \in Nat /\ Len(Tail(v8)) = Len(v8) - 1
    BY <1>2, <2>2
  <2>7. \A j \in 1..(Len(v8) - 1) : v8[j + 1] \in SL!AnyAnswer
    BY <1>1, <2>2, SeqElements
  <2>8. v8' \in Seq(SL!AnyAnswer) /\ Len(v8') = Len(v8) - 1
        /\ \A j \in 1..(Len(v8) - 1) : v8'[j] = v8[j + 1]
    BY <2>4, <2>6, <2>7
  <2> QED
    BY <1>2, <2>5, <2>6, <2>8, SeqEqual
<1>4. UNCHANGED <<v1, v4, v5, v6, v10, v11>>
  BY DEF SL!AnswerArrives
<1>5. \/ h.kind = "list" /\ v2' = h.rows /\ v3' = "ready" /\ v7' = v7
      \/ h.kind = "error" /\ v3' = "error" /\ v2' = v2 /\ v7' = v7
      \/ h.kind = "deleted" /\ v2' = [v2 EXCEPT ![h.sid] = SL!NoRow] /\ v3' = v3 /\ v7' = v7
      \/ h.kind = "project" /\ v7' = v7 + 1 /\ v3' = "loading" /\ v2' = v2
  BY <1>1, <1>2 DEF SL!AnswerArrives, SL!Fetch
<1>6. /\ h.kind = "list" => h.rows \in SL!Views
      /\ h.kind = "deleted" => h.sid \in Sids
  BY <1>2 DEF SL!AnyAnswer
<1> HIDE DEF h
<1>7. v2' \in SL!Views
  <2>1. h.kind = "deleted" => [v2 EXCEPT ![h.sid] = SL!NoRow] \in SL!Views
    BY ViewFacts, ListParts DEF SL!Views
  <2> QED
    BY <1>5, <1>6, <2>1, ListParts
<1>8. v7' \in Nat /\ v3' \in {"loading", "ready", "error"}
  BY <1>5, ListParts
<1>9. SL!Shapes'
  BY <1>2, <1>3, <1>4, <1>7, <1>8, ListParts DEF SL!Shapes
<1>10. SL!Listed' = SL!Listed
  BY <1>4 DEF SL!Listed, SL!Exists
<1>11. CASE h.kind = "project"
  <2>1. v7' > 0
    BY <1>5, <1>11, ListParts
  <2>2. \A s : SL!Refreshes(s)'
    BY <2>1 DEF SL!Refreshes
  <2> QED
    BY <1>9, <2>2, ListConcludes DEF ListComes
<1>12. CASE h.kind # "project"
  <2>1. (\E k \in DOMAIN v8 : v8[k].kind = "project")
          => \E k \in DOMAIN v8' : v8'[k].kind = "project"
    <3> SUFFICES ASSUME NEW k \in DOMAIN v8, v8[k].kind = "project"
                 PROVE  \E l \in DOMAIN v8' : v8'[l].kind = "project"
      OBVIOUS
    <3>1. k \in 1..Len(v8) /\ k # 1 /\ Len(v8) \in Nat
      BY <1>1, <1>2, <1>12, SeqElements
    <3>2. k - 1 \in 1..Len(Tail(v8)) /\ (k - 1) + 1 = k
      BY <1>2, <3>1
    <3>3. k - 1 \in DOMAIN v8' /\ v8'[k - 1] = v8[k]
      BY <1>2, <1>3, <3>2, SeqElements
    <3> QED
      BY <3>3
  <2>2. \A s : SL!Refreshes(s) => SL!Refreshes(s)'
    BY <1>4, <1>5, <1>12, <2>1 DEF SL!Refreshes
  <2>3. ListUnready => ListUnready'
    <3> SUFFICES ASSUME ListUnready PROVE ListUnready'
      OBVIOUS
    <3> DEFINE bad == SL!AnyAnswer \ SL!Succeeds
    <3>1. EndsWith(v8', SL!Ends, bad, IF h \in SL!Ends THEN h \in bad ELSE v3 # "ready")
      BY <1>1, <1>3, EndsTail DEF h, ListUnready
    <3>2. (IF h \in SL!Ends THEN h \in bad ELSE v3 # "ready") <=> v3' # "ready"
      BY <1>2, <1>5, <1>12 DEF SL!Ends, SL!Succeeds
    <3> QED
      BY <3>1, <3>2 DEF EndsWith, ListUnready
  <2>4. ASSUME NEW s \in Sids, ListFresh(s) PROVE ListFresh(s)'
    <3> DEFINE good == SL!Shows(s, SL!Listed[s])
               here == v2[s] = SL!Listed[s]
    <3>1. EndsWith(v8', SL!Touches(s), good, IF h \in SL!Touches(s) THEN h \in good ELSE here)
      <4>1. EndsWith(v8, SL!Touches(s), good, here)
        BY <2>4 DEF ListFresh
      <4> HIDE DEF good, here
      <4> QED
        BY <1>1, <1>3, <4>1, EndsTail DEF h
    <3>2. (IF h \in SL!Touches(s) THEN h \in good ELSE here) => v2'[s] = SL!Listed[s]
      <4>1. CASE h.kind = "list"
        BY <1>2, <1>5, <4>1 DEF SL!Touches, SL!Shows
      <4>2. CASE h.kind = "error"
        BY <1>2, <1>5, <4>2 DEF SL!Touches, SL!Shows
      <4>3. CASE h.kind = "deleted" /\ h.sid = s
        <5>1. v2'[s] = SL!NoRow
          BY <1>5, <4>3, ListParts DEF SL!Views
        <5> QED
          BY <1>2, <4>3, <5>1 DEF SL!Touches, SL!Shows
      <4>4. CASE h.kind = "deleted" /\ h.sid # s
        <5>1. v2'[s] = v2[s]
          BY <1>5, <1>6, <4>4, ListParts DEF SL!Views
        <5> QED
          BY <1>2, <4>4, <5>1 DEF SL!Touches, SL!Shows
      <4> QED
        BY <1>5, <1>12, <4>1, <4>2, <4>3, <4>4
    <3>3. EndsWith(v8', SL!Touches(s), good, v2'[s] = SL!Listed[s])
      <4> HIDE DEF good, here
      <4> QED
        BY <3>1, <3>2 DEF EndsWith
    <3> QED
      BY <1>10, <3>3 DEF ListFresh
  <2>5. \A s \in Sids \ v11' : ListComes(s)'
    BY <1>4, <2>2, <2>3, <2>4, ListParts DEF ListComes
  <2> QED
    BY <1>9, <2>5, ListConcludes
<1> QED
  BY <1>11, <1>12

LEMMA ListNext ==
  ASSUME ListAssumptions, SL!InductiveInv,
         SL!AnswerArrives(1) \/ SL!Next \/ UNCHANGED SL!listVars
  PROVE  SL!InductiveInv'
<1>1. CASE SL!Next
  <2>1. ASSUME NEW i \in 1..MaxCalls, SL!AnswerArrives(i) PROVE SL!InductiveInv'
    <3>1. i = 1
      BY <2>1 DEF SL!AnswerArrives
    <3> QED
      BY <2>1, <3>1, ListArrives
  <2> QED
    BY <1>1, <2>1, ListAsks, ListChanges, ListDrops, ListReads, ListDeletes,
       ListProjectDeleted DEF SL!Next
<1>2. CASE SL!AnswerArrives(1)
  BY <1>2, ListArrives
<1>3. CASE UNCHANGED SL!listVars
  BY <1>3, ListAsks
<1> QED
  BY <1>1, <1>2, <1>3

LEMMA ListIsSettled ==
  ASSUME SL!InductiveInv PROVE SL!SessionsAreTrue
<1> SUFFICES ASSUME SL!Settled, v3 = "ready", NEW s \in Sids \ v11
             PROVE  v2[s] = SL!Listed[s]
  BY DEF SL!SessionsAreTrue
<1>1. v5 = <<>> /\ v6 = FALSE /\ v7 = 0 /\ v8 = <<>> /\ v10 = {}
  BY ListParts DEF SL!Settled
<1>2. ~SL!Refreshes(s)
  BY <1>1 DEF SL!Refreshes
<1>3. ~ListUnready
  BY <1>1 DEF ListUnready, EndsWith
<1>4. ListFresh(s)
  BY <1>2, <1>3, ListParts DEF ListComes
<1> QED
  BY <1>1, <1>4 DEF ListFresh, EndsWith

-----------------------------------------------------------------------------
(* The lists of providers: v1 builtin, v2 rows, v3 list, v4 loading,       *)
(* v5 editing, v6 form, v7 saving, v8 requests, v9 answers, v10 unsure,    *)
(* v11 saves, v12 losses.                                                  *)

ModelAssumptions ==
  /\ Models # {} /\ "new" \notin Provs /\ None \notin Provs \cup {"new"}

LEMMA ModelsSteps ==
  ASSUME part = "models", [Next]_vars PROVE PL!Next \/ UNCHANGED PL!listVars
  BY DEF Next, Requests, vars, PL!Next, PL!listVars

LEMMA ModelsStarts == Init /\ part = "models" => PL!Init
  BY DEF Init

(* Drafts: what the form does to the models keeps one of them the default. *)
LEMMA DraftParts ==
  ASSUME NEW ms \in PL!Drafts
  PROVE  /\ ms \in Seq(PL!Entries) /\ PL!Distinct(ms) /\ PL!SoleDefault(ms)
         /\ DOMAIN ms = 1..Len(ms) /\ Len(ms) \in Nat
         /\ \A i \in DOMAIN ms : ms[i].id \in Models /\ ms[i].def \in BOOLEAN
         /\ \A i \in DOMAIN ms : ms[i] \in PL!Entries
<1>1. ms \in Seq(PL!Entries)
  BY DEF PL!Drafts
<1>2. \A i \in DOMAIN ms : ms[i] \in PL!Entries
  BY <1>1, SeqElements
<1> QED
  BY <1>1, <1>2, SeqElements DEF PL!Drafts, PL!Entries

LEMMA DraftMade ==
  ASSUME NEW n \in Nat, NEW ms, ms \in [1..n -> PL!Entries],
         \A i, j \in 1..n : ms[i].id = ms[j].id => i = j,
         n = 0 \/ \E d \in 1..n : \A i \in 1..n : ms[i].def <=> i = d
  PROVE  ms \in PL!Drafts
<1>1. ms \in Seq(PL!Entries) /\ Len(ms) = n /\ DOMAIN ms = 1..n
  BY SeqDef, SeqElements
<1>2. n = 0 => ms = <<>>
  BY <1>1, EmptySeq
<1> QED
  BY <1>1, <1>2 DEF PL!Drafts, PL!Distinct, PL!SoleDefault

LEMMA DraftEmpty ==
  <<>> \in PL!Drafts /\ PL!NoRow \in PL!AnyRow /\ PL!EmptyForm \in PL!AnyRow /\ PL!EmptyForm.is
  /\ PL!NoRow.is = FALSE
<1>1. <<>> \in PL!Drafts
  BY EmptySeq DEF PL!Drafts, PL!Distinct, PL!SoleDefault
<1> QED
  BY <1>1 DEF PL!AnyRow, PL!NoRow, PL!EmptyForm

LEMMA DraftDefault ==
  ASSUME NEW ms \in PL!Drafts, NEW m \in Models, PL!Has(ms, m)
  PROVE  PL!WithDefault(ms, m) \in PL!Drafts
<1> DEFINE w == [i \in 1..Len(ms) |-> [id |-> ms[i].id, def |-> ms[i].id = m]]
<1>1. PL!WithDefault(ms, m) = w
  BY DraftParts DEF PL!WithDefault, PL!Entry
<1>2. w \in [1..Len(ms) -> PL!Entries]
  BY DraftParts DEF PL!Entries
<1>3. \A i, j \in 1..Len(ms) : w[i].id = w[j].id => i = j
  BY DraftParts DEF PL!Distinct
<1>4. PICK d \in 1..Len(ms) : ms[d].id = m
  BY DraftParts DEF PL!Has
<1>5. \A i \in 1..Len(ms) : w[i].def <=> i = d
  BY <1>4, DraftParts DEF PL!Distinct
<1> HIDE DEF w
<1> QED
  BY <1>1, <1>2, <1>3, <1>5, DraftParts, DraftMade

LEMMA DraftAdded ==
  ASSUME NEW ms \in PL!Drafts, NEW m \in Models, ~PL!Has(ms, m)
  PROVE  Append(ms, PL!Entry(m, ms = <<>>)) \in PL!Drafts
<1> DEFINE e == [id |-> m, def |-> (ms = <<>>)]
           w == Append(ms, e)
           n == Len(ms)
<1>1. e \in PL!Entries /\ e.id = m /\ (e.def <=> ms = <<>>)
  BY DEF PL!Entries
<1>2. Append(ms, PL!Entry(m, ms = <<>>)) = w
  BY DEF PL!Entry
<1> HIDE DEF e
<1>3. w \in Seq(PL!Entries) /\ Len(w) = n + 1 /\ w[n + 1] = e /\ \A i \in 1..n : w[i] = ms[i]
  BY <1>1, DraftParts, AppendProperties
<1> HIDE DEF w
<1>4. n \in Nat /\ DOMAIN ms = 1..n
  BY DraftParts
<1> HIDE DEF n
<1>5. n + 1 \in Nat /\ w \in [1..(n + 1) -> PL!Entries]
  BY <1>3, <1>4, SeqDef, SeqElements
<1>6. \A i \in 1..(n + 1) : i \in 1..n \/ i = n + 1
  BY <1>4
<1>7. \A i, j \in 1..(n + 1) : w[i].id = w[j].id => i = j
  <2>1. \A i \in 1..n : w[i].id # m
    BY <1>3, <1>4 DEF PL!Has
  <2>2. \A i, j \in 1..n : w[i].id = w[j].id => i = j
    BY <1>3, <1>4, DraftParts DEF PL!Distinct
  <2> QED
    BY <1>1, <1>3, <1>6, <2>1, <2>2
<1>8. \E d \in 1..(n + 1) : \A i \in 1..(n + 1) : w[i].def <=> i = d
  <2>1. CASE ms = <<>>
    <3>1. n = 0
      BY <2>1, EmptySeq DEF n
    <3> QED
      BY <1>1, <1>3, <2>1, <3>1
  <2>2. CASE ms # <<>>
    <3>1. PICK d \in 1..n : \A i \in 1..n : ms[i].def <=> i = d
      <4>1. PICK x \in DOMAIN ms : \A i \in DOMAIN ms : ms[i].def <=> i = x
        BY <2>2, DraftParts DEF PL!SoleDefault
      <4>2. x \in 1..n /\ \A i \in 1..n : i \in DOMAIN ms
        BY <1>4
      <4>3. \A i \in 1..n : ms[i].def <=> i = x
        BY <4>1, <4>2
      <4> QED
        BY <4>2, <4>3
    <3>2. d \in 1..(n + 1) /\ d # n + 1
      BY <1>4, <3>1
    <3>3. \A i \in 1..(n + 1) : w[i].def <=> i = d
      BY <1>1, <1>3, <1>6, <2>2, <3>1, <3>2
    <3> QED
      BY <3>2, <3>3
  <2> QED
    BY <2>1, <2>2
<1> DEFINE c == n + 1
<1> HIDE DEF c
<1>9. c \in Nat /\ w \in [1..c -> PL!Entries]
  BY <1>5 DEF c
<1>10. \A i, j \in 1..c : w[i].id = w[j].id => i = j
  BY <1>7 DEF c
<1>11. \E d \in 1..c : \A i \in 1..c : w[i].def <=> i = d
  BY <1>8 DEF c
<1>12. w \in PL!Drafts
  BY <1>9, <1>10, <1>11, DraftMade
<1> QED
  BY <1>2, <1>12

LEMMA DraftWithout ==
  ASSUME NEW ms \in PL!Drafts, NEW m \in Models, PL!Has(ms, m)
  PROVE  PL!Toggled(ms, m) \in PL!Drafts
<1> DEFINE n == Len(ms)
           k == CHOOSE i \in DOMAIN ms : ms[i].id = m
           at(j) == IF j < k THEN j ELSE j + 1
           rest == [j \in 1..(n - 1) |-> ms[at(j)]]
<1>1. n \in Nat /\ DOMAIN ms = 1..n
  BY DraftParts
<1>2. k \in 1..n /\ ms[k].id = m
  BY <1>1 DEF PL!Has
<1>3. PL!Without(ms, m) = rest
  BY DEF PL!Without
<1> HIDE DEF k
<1>4. n - 1 \in Nat /\ DOMAIN rest = 1..(n - 1)
  BY <1>1, <1>2
<1>5. \A j \in 1..(n - 1) : at(j) \in 1..n /\ at(j) # k
  BY <1>1, <1>2
<1>6. \A i, j \in 1..(n - 1) : at(i) = at(j) => i = j
  BY <1>1, <1>2
<1>7. \A i \in 1..n : i # k => \E j \in 1..(n - 1) : at(j) = i
  <2>1. ASSUME NEW i \in 1..n, i # k PROVE \E j \in 1..(n - 1) : at(j) = i
    <3>1. CASE i < k
      <4>1. i \in 1..(n - 1) /\ at(i) = i
        BY <1>1, <1>2, <2>1, <3>1
      <4> QED
        BY <4>1
    <3>2. CASE i > k
      <4>1. i - 1 \in 1..(n - 1) /\ at(i - 1) = i
        BY <1>1, <1>2, <2>1, <3>2
      <4> QED
        BY <4>1
    <3> QED
      BY <1>1, <1>2, <2>1, <3>1, <3>2
  <2> QED
    BY <2>1
<1> HIDE DEF at, n
<1>8. rest \in [1..(n - 1) -> PL!Entries] /\ \A j \in 1..(n - 1) : rest[j] = ms[at(j)]
  BY <1>1, <1>5, DraftParts
<1> HIDE DEF rest
<1> DEFINE c == n - 1
<1>15. c \in Nat /\ rest \in [1..c -> PL!Entries]
  BY <1>4, <1>8 DEF c
<1> HIDE DEF c
<1>9. \A i, j \in 1..(n - 1) : rest[i].id = rest[j].id => i = j
  <2>1. \A i, j \in 1..n : ms[i].id = ms[j].id => i = j
    BY <1>1, DraftParts DEF PL!Distinct
  <2> QED
    BY <1>5, <1>6, <1>8, <2>1
<1>10. PICK d \in 1..n : \A i \in 1..n : ms[i].def <=> i = d
  BY <1>1, <1>2, DraftParts, EmptySeq DEF PL!SoleDefault
<1>11. rest = <<>> <=> n - 1 = 0
  <2>1. rest \in Seq(PL!Entries) /\ Len(rest) = n - 1
    BY <1>4, <1>8, SeqDef, SeqElements
  <2> QED
    BY <2>1, EmptySeq
<1>12. CASE n - 1 = 0
  <2>1. PL!Toggled(ms, m) = rest
    BY <1>3, <1>11, <1>12 DEF PL!Toggled
  <2> QED
    BY <1>4, <1>8, <1>9, <1>12, <2>1, DraftMade
<1>13. CASE d # k
  <2>1. PICK a \in 1..(n - 1) : at(a) = d
    BY <1>7, <1>13
  <2>2. \A j \in 1..(n - 1) : rest[j].def <=> j = a
    BY <1>5, <1>6, <1>8, <1>10, <2>1
  <2>3. rest[a].def /\ a \in DOMAIN rest
    BY <1>4, <2>2
  <2>4. PL!Toggled(ms, m) = rest
    BY <1>3, <2>3 DEF PL!Toggled
  <2>5. \A i, j \in 1..c : rest[i].id = rest[j].id => i = j
    BY <1>9 DEF c
  <2>6. \E e \in 1..c : \A j \in 1..c : rest[j].def <=> j = e
    BY <2>2 DEF c
  <2> QED
    BY <1>15, <2>4, <2>5, <2>6, DraftMade
<1>14. CASE d = k /\ n - 1 # 0
  <2>1. \A j \in 1..(n - 1) : ~rest[j].def
    BY <1>5, <1>8, <1>10, <1>14
  <2>2. 1 \in 1..(n - 1)
    BY <1>1, <1>4, <1>14
  <2> DEFINE t == [rest EXCEPT ![1].def = TRUE]
  <2>3. PL!Toggled(ms, m) = t
    BY <1>3, <1>4, <1>11, <1>14, <2>1 DEF PL!Toggled
  <2>4. rest[1] \in PL!Entries
    BY <1>8, <2>2
  <2>5. [rest[1] EXCEPT !.def = TRUE] \in PL!Entries
        /\ [rest[1] EXCEPT !.def = TRUE].id = rest[1].id /\ [rest[1] EXCEPT !.def = TRUE].def
    BY <2>4 DEF PL!Entries
  <2>6. /\ t \in [1..(n - 1) -> PL!Entries]
        /\ t[1].id = rest[1].id /\ t[1].def
        /\ \A j \in 1..(n - 1) : j # 1 => t[j] = rest[j]
    BY <1>8, <2>2, <2>5
  <2> HIDE DEF t
  <2>7. \A j \in 1..(n - 1) : (t[j].def <=> j = 1) /\ t[j].id = rest[j].id
    BY <2>1, <2>2, <2>6
  <2>8. \A i, j \in 1..(n - 1) : t[i].id = t[j].id => i = j
    BY <1>9, <2>7
  <2>9. t \in [1..c -> PL!Entries] /\ \A i, j \in 1..c : t[i].id = t[j].id => i = j
    BY <2>6, <2>8 DEF c
  <2>10. \E e \in 1..c : \A j \in 1..c : t[j].def <=> j = e
    BY <2>2, <2>7 DEF c
  <2> QED
    BY <1>15, <2>3, <2>9, <2>10, DraftMade
<1> QED
  BY <1>12, <1>13, <1>14

LEMMA DraftToggled ==
  ASSUME NEW ms \in PL!Drafts, NEW m \in Models PROVE PL!Toggled(ms, m) \in PL!Drafts
<1>1. CASE PL!Has(ms, m)
  BY <1>1, DraftWithout
<1>2. CASE ~PL!Has(ms, m)
  BY <1>2, DraftAdded DEF PL!Toggled
<1> QED
  BY <1>1, <1>2

LEMMA ModelsCardinality == ASSUME NEW S PROVE PL!Cardinality(S) = Cardinality(S)
  BY DEF PL!Cardinality, Cardinality

LEMMA DraftHasDefault == ASSUME NEW ms \in PL!Drafts PROVE PL!OneDefault(ms)
<1>1. CASE ms = <<>>
  BY <1>1 DEF PL!OneDefault
<1>2. CASE ms # <<>>
  <2>1. PICK d \in DOMAIN ms : \A i \in DOMAIN ms : ms[i].def <=> i = d
    BY <1>2, DraftParts DEF PL!SoleDefault
  <2> DEFINE D == {i \in DOMAIN ms : ms[i].def}
  <2>2. D = {d}
    BY <2>1
  <2> HIDE DEF D
  <2>3. Cardinality({d}) = 1
    BY FS_Singleton
  <2>4. Cardinality(D) = 1
    BY <2>2, <2>3
  <2> QED
    BY <2>4, ModelsCardinality DEF D, PL!OneDefault
<1> QED
  BY <1>1, <1>2

(* The parts of the invariant.                                             *)
ModelsComes(p) ==
  \/ PL!Refreshes
  \/ \E r \in v8 : PL!Toggling(r, p) /\ PL!RolledBack(p, r.prev)
  \/ /\ \A r \in v8 : ~PL!Toggling(r, p)
     /\ EndsWith(v9, PL!Touches(p), PL!Shows(p), v3[p] = v2[p])

LEMMA ModelsComing == \A p : PL!ComesTrue(p) <=> ModelsComes(p)
  BY DEF PL!ComesTrue, PL!AnswersCome, EndsWith, ModelsComes

LEMMA ModelsComingNext == \A p : PL!ComesTrue(p)' <=> ModelsComes(p)'
  BY DEF PL!ComesTrue, PL!AnswersCome, EndsWith, ModelsComes

LEMMA ModelsParts ==
  ASSUME PL!InductiveInv
  PROVE  /\ PL!Shapes /\ PL!Fits /\ PL!LoadsOnce /\ PL!Apart /\ PL!StaysListed
         /\ PL!MadeIsNew /\ \A p \in Provs \ v10 : ModelsComes(p)
         /\ v1 \in BOOLEAN /\ v4 \in BOOLEAN /\ v7 \in BOOLEAN
         /\ v2 \in [Provs -> PL!AnyRow] /\ v3 \in [Provs -> PL!AnyRow]
         /\ v5 \in Provs \cup {"new", None} /\ v6 \in PL!AnyRow /\ v6.is
         /\ v8 \subseteq PL!AnyRequest /\ v9 \in Seq(PL!AnyAnswer) /\ v10 \subseteq Provs
         /\ \A i \in DOMAIN v9 : v9[i] \in PL!AnyAnswer
<1>1. v9 \in Seq(PL!AnyAnswer)
  BY DEF PL!InductiveInv, PL!Shapes
<1>2. \A i \in DOMAIN v9 : v9[i] \in PL!AnyAnswer
  BY <1>1, SeqElements
<1> QED
  BY <1>2, ModelsComing DEF PL!InductiveInv, PL!Shapes

LEMMA ModelsConcludes ==
  ASSUME PL!Shapes', PL!Fits', PL!LoadsOnce', PL!Apart', PL!StaysListed',
         PL!MadeIsNew', \A p \in Provs \ v10' : ModelsComes(p)'
  PROVE  PL!InductiveInv'
  BY ModelsComingNext DEF PL!InductiveInv

LEMMA ModelsInit == ASSUME ModelAssumptions, PL!Init PROVE PL!InductiveInv
<1> DEFINE l == [kind |-> "list"]
           m == CHOOSE x \in Models : TRUE
           one == [PL!EmptyForm EXCEPT !.models = <<PL!Entry(m, TRUE)>>]
<1>1. /\ v1 \in BOOLEAN /\ v2 \in [Provs -> {PL!NoRow, one}]
      /\ v3 = [p \in Provs |-> PL!NoRow] /\ v4 = TRUE
      /\ v5 = None /\ v6 = PL!EmptyForm /\ v7 = FALSE
      /\ v8 = {l} /\ v9 = <<>> /\ v10 = {}
  BY DEF PL!Init
<1>2. one \in PL!AnyRow
  <2>1. m \in Models
    BY DEF ModelAssumptions
  <2> HIDE DEF m
  <2> DEFINE e == PL!Entry(m, TRUE)
             s == <<e>>
  <2>2. e \in PL!Entries /\ e.def
    BY <2>1 DEF PL!Entry, PL!Entries
  <2> HIDE DEF e
  <2>3. s \in [1..1 -> PL!Entries] /\ s[1] = e
    BY <2>2
  <2> HIDE DEF s
  <2>4. \A i \in 1..1 : i = 1
    OBVIOUS
  <2>5. s \in PL!Drafts
    <3>1. s \in Seq(PL!Entries) /\ DOMAIN s = 1..1
      BY <2>3, SeqDef
    <3>2. PL!Distinct(s)
      BY <2>4, <3>1 DEF PL!Distinct
    <3>3. PL!SoleDefault(s)
      BY <2>2, <2>3, <2>4, <3>1 DEF PL!SoleDefault
    <3> QED
      BY <3>1, <3>2, <3>3 DEF PL!Drafts
  <2> QED
    BY <2>5 DEF PL!AnyRow, PL!EmptyForm, PL!NoRow, s, e
<1> HIDE DEF one
<1>3. v2 \in [Provs -> PL!AnyRow] /\ v3 \in [Provs -> PL!AnyRow] /\ v6 \in PL!AnyRow /\ v6.is
  BY <1>1, <1>2, DraftEmpty
<1>4. l \in PL!AnyRequest /\ l.kind = "list"
  BY DEF PL!AnyRequest
<1>5. v9 \in Seq(PL!AnyAnswer) /\ DOMAIN v9 = {}
  BY <1>1, EmptySeq
<1>6. PL!Shapes
  BY <1>1, <1>3, <1>4, <1>5 DEF PL!Shapes
<1>7. PL!Fits
  BY <1>1, <1>4, <1>5 DEF PL!Fits, PL!RequestFits
<1>8. PL!LoadsOnce
  BY <1>1 DEF PL!LoadsOnce
<1>9. PL!Apart /\ PL!StaysListed /\ PL!MadeIsNew
  BY <1>1, <1>4, <1>5 DEF PL!Apart, PL!StaysListed, PL!MadeIsNew, PL!About
<1>10. PL!Refreshes
  BY <1>1 DEF PL!Refreshes
<1> QED
  BY <1>6, <1>7, <1>8, <1>9, <1>10 DEF PL!InductiveInv, PL!ComesTrue

(* Steps that leave the rows, what is shown and the calls alone.           *)
LEMMA ModelsKeeps ==
  ASSUME PL!InductiveInv, UNCHANGED <<v1, v2, v3, v4, v8, v9, v10>>, v7' \in BOOLEAN,
         v5' \in Provs \cup {"new", None}, v6' \in PL!AnyRow, v6'.is
  PROVE  PL!InductiveInv'
<1>1. PL!Shapes'
  BY ModelsParts DEF PL!Shapes
<1>2. PL!Fits' /\ PL!LoadsOnce' /\ PL!Apart'
  BY ModelsParts DEF PL!Fits, PL!RequestFits, PL!AnswerFits, PL!LoadsOnce, PL!UnderWay, PL!Apart, PL!About
<1>3. PL!StaysListed' /\ PL!MadeIsNew'
  BY ModelsParts DEF PL!StaysListed, PL!MadeIsNew, PL!About
<1>4. \A p : ModelsComes(p)' <=> ModelsComes(p)
  BY DEF ModelsComes, PL!Refreshes, PL!Toggling, PL!RolledBack, PL!Touches, PL!Shows
<1> QED
  BY <1>1, <1>2, <1>3, <1>4, ModelsParts, ModelsConcludes

LEMMA ModelsFills ==
  ASSUME ModelAssumptions, PL!InductiveInv,
         \/ \E m \in Models : PL!ToggleSelected(m) \/ PL!ToggleDefault(m)
         \/ PL!SetVisibility \/ PL!Cancel \/ UNCHANGED PL!listVars
         \/ \E e \in Provs \cup {"new"} : PL!Open(e)
  PROVE  PL!InductiveInv'
<1>1. v6 \in PL!AnyRow /\ v6.is /\ v6.models \in PL!Drafts
  BY ModelsParts DEF PL!AnyRow
<1>2. ASSUME NEW d \in PL!Drafts
      PROVE  [v6 EXCEPT !.models = d] \in PL!AnyRow /\ [v6 EXCEPT !.models = d].is
  BY <1>1, <1>2 DEF PL!AnyRow
<1>3. CASE \E m \in Models : PL!ToggleSelected(m) \/ PL!ToggleDefault(m)
  <2>1. PICK m \in Models : PL!ToggleSelected(m) \/ PL!ToggleDefault(m)
    BY <1>3
  <2>2. CASE PL!ToggleSelected(m)
    <3>1. PL!Toggled(v6.models, m) \in PL!Drafts
      BY <1>1, DraftToggled
    <3>2. v6' \in PL!AnyRow /\ v6'.is
      BY <1>2, <2>2, <3>1 DEF PL!ToggleSelected
    <3> QED
      BY <2>2, <3>2, ModelsParts, ModelsKeeps DEF PL!ToggleSelected, PL!FormOnly
  <2>3. CASE PL!ToggleDefault(m)
    <3>1. PL!WithDefault(v6.models, m) \in PL!Drafts
      BY <1>1, <2>3, DraftDefault DEF PL!ToggleDefault
    <3>2. v6' \in PL!AnyRow /\ v6'.is
      BY <1>2, <2>3, <3>1 DEF PL!ToggleDefault
    <3> QED
      BY <2>3, <3>2, ModelsParts, ModelsKeeps DEF PL!ToggleDefault, PL!FormOnly
  <2> QED
    BY <2>1, <2>2, <2>3
<1>4. CASE PL!SetVisibility
  <2>1. v6' = [v6 EXCEPT !.public = ~@]
    BY <1>4 DEF PL!SetVisibility
  <2>2. v6' \in PL!AnyRow /\ v6'.is
    BY <1>1, <2>1 DEF PL!AnyRow
  <2> QED
    BY <1>4, <2>2, ModelsParts, ModelsKeeps DEF PL!SetVisibility, PL!FormOnly
<1>5. CASE PL!Cancel
  BY <1>5, DraftEmpty, ModelsParts, ModelsKeeps DEF PL!Cancel
<1>6. CASE UNCHANGED PL!listVars
  BY <1>6, ModelsParts, ModelsKeeps DEF PL!listVars
<1>7. ASSUME NEW e \in Provs \cup {"new"}, PL!Open(e) PROVE PL!InductiveInv'
  <2>1. v6' \in PL!AnyRow /\ v6'.is
    <3>1. CASE e = "new"
      BY <1>7, <3>1, DraftEmpty DEF PL!Open
    <3>2. CASE e # "new"
      BY <1>7, <3>2, ModelsParts DEF PL!Open
    <3> QED
      BY <3>1, <3>2
  <2> QED
    BY <1>7, <2>1, ModelsParts, ModelsKeeps DEF PL!Open
<1> QED
  BY <1>3, <1>4, <1>5, <1>6, <1>7

(* A request is made: about a provider that no other is about; a toggle is *)
(* shown at once.                                                          *)
LEMMA RequestFacts ==
  ASSUME NEW r \in PL!AnyRequest
  PROVE  /\ r.kind \in {"list", "save", "toggle", "remove"}
         /\ r.kind = "list" => r = [kind |-> "list"]
         /\ r.kind = "save" => r.p \in Provs \cup {"new"} /\ r.body \in PL!AnyRow
         /\ r.kind = "toggle" => r.p \in Provs /\ r.prev \in BOOLEAN
         /\ r.kind = "remove" => r.p \in Provs
  BY DEF PL!AnyRequest

LEMMA AnswerParts ==
  ASSUME NEW a \in PL!AnyAnswer
  PROVE  /\ a.of \in PL!AnyRequest /\ a.ok \in BOOLEAN /\ a.p \in Provs \cup {None}
         /\ a.rows \in [Provs -> PL!AnyRow]
         /\ a.of.kind \in {"list", "save", "toggle", "remove"}
  BY RequestFacts DEF PL!AnyAnswer

(* A built-in provider that is listed, about which nothing is under way,   *)
(* is shown as it is.                                                      *)
LEMMA ModelsQuiet ==
  ASSUME ModelAssumptions, PL!InductiveInv, v1, ~v4, NEW p \in Provs \ v10, v3[p].is,
         \A r \in v8 : ~PL!About(r, p), \A i \in DOMAIN v9 : ~PL!About(v9[i].of, p)
  PROVE  /\ v3[p] = v2[p] /\ \A i \in DOMAIN v9 : v9[i] \notin PL!Touches(p)
         /\ \A i \in DOMAIN v9 : ~(v9[i].ok /\ PL!About(v9[i].of, "new") /\ v9[i].p = p)
<1>1. /\ \A r \in v8 : r.kind # "list"
      /\ \A i \in DOMAIN v9 : v9[i].of.kind # "list"
  BY ModelsParts DEF PL!LoadsOnce, PL!UnderWay
<1>2. \A i \in DOMAIN v9 : ~(v9[i].ok /\ PL!About(v9[i].of, "new") /\ v9[i].p = p)
  BY ModelsParts DEF PL!MadeIsNew
<1>3. ASSUME NEW i \in DOMAIN v9, v9[i] \in PL!Touches(p) PROVE FALSE
  <2>1. v9[i] \in PL!AnyAnswer /\ PL!AnswerFits(v9[i])
    BY ModelsParts DEF PL!Fits
  <2>2. v9[i].ok /\ v9[i].of.kind = "save" /\ v9[i].p = p
    BY <1>1, <1>3 DEF PL!Touches, PL!About
  <2>3. v9[i].of.p \in {"new", p}
    BY <2>1, <2>2 DEF PL!AnswerFits
  <2> QED
    BY <1>2, <2>2, <2>3 DEF PL!About
<1>4. ~PL!Refreshes
  BY <1>1 DEF PL!Refreshes
<1>5. \A r \in v8 : ~PL!Toggling(r, p)
  BY DEF PL!About, PL!Toggling
<1>6. EndsWith(v9, PL!Touches(p), PL!Shows(p), v3[p] = v2[p])
  BY <1>4, <1>5, ModelsParts DEF ModelsComes
<1> QED
  BY <1>2, <1>3, <1>6 DEF EndsWith

LEMMA ModelsAsk ==
  ASSUME ModelAssumptions, PL!InductiveInv, UNCHANGED <<v1, v2, v4, v9, v10>>, ~v4,
         NEW p \in Provs \cup {"new"}, NEW r \in PL!AnyRequest, PL!About(r, p),
         PL!Request(r), PL!RequestFits(r), p \in Provs => v3[p].is,
         v5' \in Provs \cup {"new", None}, v6' \in PL!AnyRow, v6'.is, v7' \in BOOLEAN,
         v3' \in [Provs -> PL!AnyRow],
         \A q \in Provs : v3'[q].is = v3[q].is,
         \A q \in Provs : ~PL!Toggling(r, q) => v3'[q] = v3[q],
         \A q \in Provs : PL!Toggling(r, q) /\ v3[q] = v2[q] =>
                            v2[q] = [v3'[q] EXCEPT !.public = r.prev]
  PROVE  PL!InductiveInv'
<1>1. /\ v8' = v8 \cup {r} /\ r.kind # "list" /\ r.p = p
      /\ \A q \in v8 : ~PL!About(q, p)
      /\ \A i \in DOMAIN v9 : ~PL!About(v9[i].of, p)
  BY DEF PL!Request, PL!UnderWay, PL!About
<1>2. PL!Shapes'
  BY <1>1, ModelsParts DEF PL!Shapes
<1>3. PL!Fits'
  <2>1. \A q \in v8' : PL!RequestFits(q)'
    BY <1>1, ModelsParts DEF PL!Fits, PL!RequestFits
  <2>2. \A i \in DOMAIN v9 : PL!AnswerFits(v9[i])'
    BY ModelsParts DEF PL!Fits, PL!AnswerFits, PL!RequestFits
  <2> QED
    BY <2>1, <2>2 DEF PL!Fits
<1>4. PL!LoadsOnce'
  BY <1>1, ModelsParts DEF PL!LoadsOnce, PL!UnderWay
<1>5. PL!Apart'
  <2>1. \A q : PL!About(r, q) => q = p
    BY <1>1 DEF PL!About
  <2> QED
    BY <1>1, <2>1, ModelsParts DEF PL!Apart
<1>6. PL!StaysListed'
  <2>1. ASSUME v1 PROVE \A q \in v8' : q.kind # "list" /\ q.p # "new" => v3'[q.p].is
    <3>1. ASSUME NEW q \in v8', q.kind # "list", q.p # "new" PROVE v3'[q.p].is
      <4>1. q \in PL!AnyRequest
        BY <1>1, ModelsParts
      <4>2. q.p \in Provs
        BY <3>1, <4>1, RequestFacts
      <4>3. v3[q.p].is
        BY <1>1, <2>1, <3>1, <4>2, ModelsParts DEF PL!StaysListed
      <4> QED
        BY <4>2, <4>3
    <3> QED
      BY <3>1
  <2>2. ASSUME v1, NEW i \in DOMAIN v9, v9[i].of.kind # "list", v9[i].of.p # "new",
               ~(v9[i].of.kind = "remove" /\ v9[i].ok)
        PROVE  v3'[v9[i].of.p].is
    <3>1. v9[i].of.p \in Provs
      BY <2>2, ModelsParts, AnswerParts, RequestFacts
    <3>2. v3[v9[i].of.p].is
      BY <2>2, ModelsParts DEF PL!StaysListed
    <3> QED
      BY <3>1, <3>2
  <2> QED
    BY <2>1, <2>2 DEF PL!StaysListed
<1>7. ASSUME v1, NEW q \in Provs \ v10, NEW i \in DOMAIN v9,
             v9[i].ok, PL!About(v9[i].of, "new"), v9[i].p = q
      PROVE  /\ \A x \in v8' : ~PL!About(x, q)
             /\ \A j \in DOMAIN v9 : PL!About(v9[j].of, q) =>
                  v9[j].of.kind = "remove" /\ v9[j].ok
             /\ v3'[q].is => \E j \in DOMAIN v9 : PL!About(v9[j].of, q)
  <2>1. /\ \A x \in v8 : ~PL!About(x, q)
        /\ \A j \in DOMAIN v9 : PL!About(v9[j].of, q) =>
             v9[j].of.kind = "remove" /\ v9[j].ok
        /\ v3[q].is => \E j \in DOMAIN v9 : PL!About(v9[j].of, q)
    BY <1>7, ModelsParts DEF PL!MadeIsNew
  <2>2. q # p
    BY <1>1, <2>1
  <2> QED
    BY <1>1, <2>1, <2>2 DEF PL!About
<1>8. PL!MadeIsNew'
  BY <1>7 DEF PL!MadeIsNew, PL!About
<1>9. PL!Refreshes => PL!Refreshes'
  BY <1>1 DEF PL!Refreshes
<1>10. ASSUME NEW q \in Provs \ v10, ~PL!Refreshes PROVE ModelsComes(q)'
  <2>1. CASE ~PL!Toggling(r, q)
    <3>1. v3'[q] = v3[q]
      BY <2>1
    <3>2. /\ PL!Touches(q)' = PL!Touches(q) /\ PL!Shows(q)' = PL!Shows(q)
          /\ \A x : PL!Toggling(x, q)' <=> PL!Toggling(x, q)
          /\ \A x : PL!RolledBack(q, x.prev)' <=> PL!RolledBack(q, x.prev)
      BY <3>1 DEF PL!Touches, PL!Shows, PL!RolledBack, PL!Toggling
    <3>3. ModelsComes(q)
      BY ModelsParts
    <3> QED
      BY <1>1, <1>10, <2>1, <3>1, <3>2, <3>3 DEF ModelsComes
  <2>2. CASE PL!Toggling(r, q)
    <3>1. q = p /\ v1
      BY <1>1, <2>2 DEF PL!Toggling, PL!RequestFits
    <3>2. v3[q] = v2[q]
      BY <1>1, <3>1, ModelsQuiet
    <3>3. PL!RolledBack(q, r.prev)'
      BY <2>2, <3>2 DEF PL!RolledBack
    <3>4. PL!Toggling(r, q)'
      BY <2>2 DEF PL!Toggling
    <3> QED
      BY <1>1, <3>3, <3>4 DEF ModelsComes
  <2> QED
    BY <2>1, <2>2
<1>11. \A q \in Provs \ v10' : ModelsComes(q)'
  BY <1>9, <1>10 DEF ModelsComes
<1> QED
  BY <1>2, <1>3, <1>4, <1>5, <1>6, <1>8, <1>11, ModelsConcludes

LEMMA ModelsAsks ==
  ASSUME ModelAssumptions, PL!InductiveInv,
         PL!Save \/ \E p \in Provs : PL!Remove(p) \/ PL!ToggleVisibility(p)
  PROVE  PL!InductiveInv'
<1>1. CASE PL!Save
  <2> DEFINE r == [kind |-> "save", p |-> v5, body |-> v6]
  <2>1. /\ PL!Request(r) /\ ~v4 /\ v7' = TRUE
        /\ UNCHANGED <<v1, v2, v3, v4, v5, v6, v9, v10>>
        /\ v5 = "new" \/ (v5 \in Provs /\ v3[v5].is)
    BY <1>1 DEF PL!Save, PL!FormIsOpen
  <2>2. r \in PL!AnyRequest /\ PL!About(r, v5) /\ PL!RequestFits(r) /\ r.kind = "save"
    BY <2>1, ModelsParts DEF PL!AnyRequest, PL!About, PL!RequestFits
  <2> HIDE DEF r
  <2>3. \A q : ~PL!Toggling(r, q)
    BY <2>2 DEF PL!Toggling
  <2>4. v5 \in Provs \cup {"new"} /\ (v5 \in Provs => v3[v5].is)
    BY <2>1 DEF ModelAssumptions
  <2>5. /\ v5' \in Provs \cup {"new", None} /\ v6' \in PL!AnyRow /\ v6'.is /\ v7' \in BOOLEAN
        /\ v3' \in [Provs -> PL!AnyRow]
    BY <2>1, ModelsParts
  <2>6. \A q \in Provs : v3'[q].is = v3[q].is /\ v3'[q] = v3[q]
    BY <2>1
  <2> QED
    BY <2>1, <2>2, <2>3, <2>4, <2>5, <2>6, ModelsAsk
<1>2. ASSUME NEW p \in Provs, PL!Remove(p) PROVE PL!InductiveInv'
  <2> DEFINE r == [kind |-> "remove", p |-> p]
  <2>1. /\ PL!Request(r) /\ ~v4 /\ v3[p].is
        /\ UNCHANGED <<v1, v2, v3, v4, v5, v6, v7, v9, v10>>
    BY <1>2 DEF PL!Remove, PL!RowIsShown
  <2>2. r \in PL!AnyRequest /\ PL!About(r, p) /\ PL!RequestFits(r) /\ r.kind = "remove"
    BY <1>2 DEF PL!AnyRequest, PL!About, PL!RequestFits
  <2> HIDE DEF r
  <2>3. \A q : ~PL!Toggling(r, q)
    BY <2>2 DEF PL!Toggling
  <2>5. /\ v5' \in Provs \cup {"new", None} /\ v6' \in PL!AnyRow /\ v6'.is /\ v7' \in BOOLEAN
        /\ v3' \in [Provs -> PL!AnyRow]
    BY <2>1, ModelsParts
  <2>6. \A q \in Provs : v3'[q].is = v3[q].is /\ v3'[q] = v3[q]
    BY <2>1
  <2> QED
    BY <1>2, <2>1, <2>2, <2>3, <2>5, <2>6, ModelsAsk
<1>3. ASSUME NEW p \in Provs, PL!ToggleVisibility(p) PROVE PL!InductiveInv'
  <2> DEFINE r == [kind |-> "toggle", p |-> p, prev |-> v3[p].public]
  <2>1. /\ PL!Request(r) /\ ~v4 /\ v3[p].is /\ v1
        /\ v3' = [v3 EXCEPT ![p].public = ~@]
        /\ UNCHANGED <<v1, v2, v4, v5, v6, v7, v9, v10>>
    BY <1>3 DEF PL!ToggleVisibility, PL!RowIsShown
  <2>2. v3 \in [Provs -> PL!AnyRow] /\ v3[p] \in PL!AnyRow
    BY ModelsParts
  <2>3. v3[p].public \in BOOLEAN
    BY <2>2 DEF PL!AnyRow
  <2>4. /\ r \in PL!AnyRequest /\ PL!About(r, p) /\ PL!RequestFits(r)
        /\ r.kind = "toggle" /\ r.prev = v3[p].public /\ r.p = p
    BY <1>3, <2>1, <2>3 DEF PL!AnyRequest, PL!About, PL!RequestFits
  <2> HIDE DEF r
  <2> DEFINE row == [v3[p] EXCEPT !.public = ~@]
  <2>5. row \in PL!AnyRow /\ row.is = v3[p].is /\ v3[p] = [row EXCEPT !.public = v3[p].public]
    BY <2>2, <2>3 DEF PL!AnyRow
  <2>6. v3' = [v3 EXCEPT ![p] = row]
    BY <2>1
  <2> HIDE DEF row
  <2>7. v3' \in [Provs -> PL!AnyRow] /\ v3'[p] = row /\ \A q \in Provs : q # p => v3'[q] = v3[q]
    BY <2>2, <2>5, <2>6
  <2>8. \A q \in Provs : v3'[q].is = v3[q].is
    BY <2>5, <2>7
  <2>9. \A q \in Provs : PL!Toggling(r, q) <=> q = p
    BY <2>4 DEF PL!Toggling
  <2>10. \A q \in Provs : PL!Toggling(r, q) /\ v3[q] = v2[q] =>
           v2[q] = [v3'[q] EXCEPT !.public = r.prev]
    BY <2>4, <2>5, <2>7, <2>9
  <2>11. v5' \in Provs \cup {"new", None} /\ v6' \in PL!AnyRow /\ v6'.is /\ v7' \in BOOLEAN
    BY <2>1, ModelsParts
  <2> QED
    BY <1>3, <2>1, <2>4, <2>7, <2>8, <2>9, <2>10, <2>11, ModelsAsk
<1> QED
  BY <1>1, <1>2, <1>3

(* A request is answered.                                                  *)
LEMMA ModelsAnswer ==
  ASSUME PL!InductiveInv, NEW r \in v8, NEW a \in PL!AnyAnswer, a.of = r,
         v8' = v8 \ {r}, v9' = Append(v9, a)
  PROVE  /\ DOMAIN v9' = 1..(Len(v9) + 1) /\ v9'[Len(v9) + 1] = a
         /\ Len(v9) \in Nat /\ Len(v9') = Len(v9) + 1 /\ DOMAIN v9 = 1..Len(v9)
         /\ \A i \in DOMAIN v9 : v9'[i] = v9[i] /\ i \in DOMAIN v9'
         /\ \A i \in DOMAIN v9' : i \in DOMAIN v9 \/ i = Len(v9) + 1
         /\ Len(v9) + 1 \in DOMAIN v9' /\ Len(v9) + 1 \notin DOMAIN v9
         /\ v9' \in Seq(PL!AnyAnswer) /\ v8' \subseteq PL!AnyRequest
<1>1. v9' \in Seq(PL!AnyAnswer) /\ Len(v9') = Len(v9) + 1
  BY ModelsParts, AppendProperties
<1>2. v9'[Len(v9) + 1] = a /\ \A i \in 1..Len(v9) : v9'[i] = v9[i]
  BY ModelsParts, AppendProperties
<1>3. DOMAIN v9' = 1..(Len(v9) + 1) /\ DOMAIN v9 = 1..Len(v9) /\ Len(v9) \in Nat
  BY <1>1, ModelsParts, SeqElements
<1> QED
  BY <1>1, <1>2, <1>3, ModelsParts

LEMMA ModelsAnswered ==
  ASSUME ModelAssumptions, PL!InductiveInv, NEW r \in v8, NEW a \in PL!AnyAnswer, a.of = r,
         PL!AnswerFits(a), v8' = v8 \ {r}, v9' = Append(v9, a), v2' \in [Provs -> PL!AnyRow],
         v10' \subseteq Provs, UNCHANGED <<v1, v3, v4, v5, v6, v7>>
  PROVE  PL!Shapes' /\ PL!Fits' /\ PL!LoadsOnce' /\ PL!Apart' /\ PL!StaysListed'
<1> USE ModelsAnswer
<1>1. PL!Shapes'
  BY ModelsParts DEF PL!Shapes
<1>2. PL!Fits'
  <2>1. \A q \in v8' : PL!RequestFits(q)
    BY ModelsParts DEF PL!Fits
  <2>2. \A i \in DOMAIN v9' : PL!AnswerFits(v9'[i])
    BY ModelsParts DEF PL!Fits
  <2>3. PL!Fits' <=> /\ \A q \in v8' : PL!RequestFits(q)
                    /\ \A i \in DOMAIN v9' : PL!AnswerFits(v9'[i])
    BY DEF PL!Fits, PL!AnswerFits, PL!RequestFits
  <2> QED
    BY <2>1, <2>2, <2>3
<1>3. PL!LoadsOnce'
  <2>1. CASE v1 /\ v4
    <3>1. v8 = {[kind |-> "list"]} /\ v9 = <<>>
      BY <2>1, ModelsParts DEF PL!LoadsOnce
    <3>2. v8' = {} /\ Len(v9) = 0 /\ r.kind = "list"
      BY <3>1, EmptySeq
    <3> QED
      BY <2>1, <3>2 DEF PL!LoadsOnce
  <2>2. CASE v1 /\ ~v4
    <3>1. \A q \in PL!UnderWay : q.kind # "list"
      BY <2>2, ModelsParts DEF PL!LoadsOnce
    <3>2. PL!UnderWay' \subseteq PL!UnderWay
      <4>1. ASSUME NEW x \in PL!UnderWay' PROVE x \in PL!UnderWay
        <5>1. x \in v8' \/ \E i \in DOMAIN v9' : x = v9'[i].of
          BY <4>1 DEF PL!UnderWay
        <5>2. CASE x \in v8'
          BY <5>2 DEF PL!UnderWay
        <5>3. ASSUME NEW i \in DOMAIN v9', x = v9'[i].of PROVE x \in PL!UnderWay
          BY <5>3 DEF PL!UnderWay
        <5> QED
          BY <5>1, <5>2, <5>3
      <4> QED
        BY <4>1
    <3> QED
      BY <2>2, <3>1, <3>2 DEF PL!LoadsOnce
  <2>3. CASE ~v1
    BY <2>3 DEF PL!LoadsOnce
  <2> QED
    BY <2>1, <2>2, <2>3, ModelsParts
<1>4. PL!Apart'
  <2>1. ASSUME NEW p \in Provs \cup {"new"}
        PROVE  /\ \A x, q \in v8' : PL!About(x, p) /\ PL!About(q, p) => x = q
               /\ \A x \in v8', i \in DOMAIN v9' : ~(PL!About(x, p) /\ PL!About(v9'[i].of, p))
               /\ \A i, j \in DOMAIN v9' : PL!About(v9'[i].of, p) /\ PL!About(v9'[j].of, p) => i = j
    <3>1. /\ \A x, q \in v8 : PL!About(x, p) /\ PL!About(q, p) => x = q
          /\ \A x \in v8, i \in DOMAIN v9 : ~(PL!About(x, p) /\ PL!About(v9[i].of, p))
          /\ \A i, j \in DOMAIN v9 : PL!About(v9[i].of, p) /\ PL!About(v9[j].of, p) => i = j
      BY ModelsParts DEF PL!Apart
    <3>2. \A x, q \in v8' : PL!About(x, p) /\ PL!About(q, p) => x = q
      BY <3>1
    <3>3. \A x \in v8', i \in DOMAIN v9' : ~(PL!About(x, p) /\ PL!About(v9'[i].of, p))
      BY <3>1
    <3>4. \A i, j \in DOMAIN v9' : PL!About(v9'[i].of, p) /\ PL!About(v9'[j].of, p) => i = j
      BY <3>1
    <3> QED
      BY <3>2, <3>3, <3>4
  <2> QED
    BY <2>1 DEF PL!Apart, PL!About
<1>5. PL!StaysListed'
  <2>1. ASSUME v1, NEW i \in DOMAIN v9', v9'[i].of.kind # "list", v9'[i].of.p # "new",
               ~(v9'[i].of.kind = "remove" /\ v9'[i].ok)
        PROVE  v3[v9'[i].of.p].is
    BY <2>1, ModelsParts DEF PL!StaysListed
  <2>2. ASSUME v1, NEW q \in v8', q.kind # "list", q.p # "new" PROVE v3[q.p].is
    BY <2>2, ModelsParts DEF PL!StaysListed
  <2> QED
    BY <2>1, <2>2 DEF PL!StaysListed
<1> QED
  BY <1>1, <1>2, <1>3, <1>4, <1>5

(* A provider that an answered request does not concern.                   *)
LEMMA ModelsElse ==
  ASSUME ModelAssumptions, PL!InductiveInv, NEW r \in v8, NEW a \in PL!AnyAnswer, a.of = r,
         v8' = v8 \ {r}, v9' = Append(v9, a), UNCHANGED <<v1, v3>>, r.kind # "list",
         NEW q \in Provs \ v10, v2'[q] = v2[q], ~PL!Toggling(r, q), a \notin PL!Touches(q)
  PROVE  ModelsComes(q)'
<1> USE ModelsAnswer
<1>1. CASE PL!Refreshes
  <2>1. PL!Refreshes'
    BY <1>1 DEF PL!Refreshes
  <2> QED
    BY <2>1 DEF ModelsComes
<1>2. /\ PL!Touches(q)' = PL!Touches(q) /\ PL!Shows(q)' = PL!Shows(q)
      /\ \A x : PL!Toggling(x, q)' <=> PL!Toggling(x, q)
      /\ \A x : PL!RolledBack(q, x.prev)' <=> PL!RolledBack(q, x.prev)
  BY DEF PL!Touches, PL!Shows, PL!RolledBack, PL!Toggling
<1>3. CASE \E x \in v8 : PL!Toggling(x, q) /\ PL!RolledBack(q, x.prev)
  BY <1>2, <1>3 DEF ModelsComes
<1>4. CASE /\ \A x \in v8 : ~PL!Toggling(x, q)
           /\ EndsWith(v9, PL!Touches(q), PL!Shows(q), v3[q] = v2[q])
  <2>1. EndsWith(v9', PL!Touches(q), PL!Shows(q), v3[q] = v2[q])
    BY <1>4, ModelsParts, EndsAppended
  <2> QED
    BY <1>2, <1>4, <2>1 DEF ModelsComes
<1> QED
  BY <1>1, <1>3, <1>4, ModelsParts DEF ModelsComes

(* The list is read: nothing is unsure of it, and its answer is the last.  *)
LEMMA ModelsListed ==
  ASSUME ModelAssumptions, PL!InductiveInv, NEW r \in v8, PL!Handle(r), r.kind = "list"
  PROVE  PL!InductiveInv'
<1>1. /\ v8' = v8 \ {r} /\ UNCHANGED <<v1, v2, v3, v4, v5, v6, v7>> /\ v10' = {}
      /\ PL!Answer(r, TRUE, None)
  BY DEF PL!Handle, PL!Stored
<1> DEFINE a == [of |-> r, ok |-> TRUE, p |-> None,
                 rows |-> [q \in Provs |-> IF TRUE /\ None \in {q, None} THEN v2'[q] ELSE PL!NoRow]]
<1>2. v9' = Append(v9, a)
  BY <1>1 DEF PL!Answer
<1>3. /\ a.of = r /\ a.ok = TRUE /\ a.p = None /\ \A q \in Provs : a.rows[q] = v2[q]
      /\ a.rows \in [Provs -> PL!AnyRow]
  BY <1>1, ModelsParts
<1>4. a \in PL!AnyAnswer
  BY <1>3, ModelsParts DEF PL!AnyAnswer
<1> HIDE DEF a
<1>5. PL!AnswerFits(a)
  BY <1>3, ModelsParts DEF PL!AnswerFits, PL!RequestFits
<1>6. PL!Shapes' /\ PL!Fits' /\ PL!LoadsOnce' /\ PL!Apart' /\ PL!StaysListed'
  BY <1>1, <1>2, <1>3, <1>4, <1>5, ModelsParts, ModelsAnswered
<1>7. v1 => v8 = {[kind |-> "list"]} /\ v9 = <<>>
  BY ModelsParts DEF PL!LoadsOnce, PL!UnderWay
<1>8. \A x \in v8' : x.kind # "toggle"
  <2>1. CASE v1
    <3>1. \A x \in v8 : x.kind # "toggle"
      BY <1>7, <2>1
    <3> QED
      BY <1>1, <3>1
  <2>2. CASE ~v1
    BY <1>1, <2>2, ModelsParts DEF PL!Fits, PL!RequestFits
  <2> QED
    BY <2>1, <2>2
<1>9. PL!MadeIsNew'
  <2>1. ASSUME v1, NEW i \in DOMAIN v9' PROVE v9'[i].of.kind = "list"
    <3>2. Len(v9) = 0
      BY <1>7, <2>1, EmptySeq
    <3>3. DOMAIN v9' = 1..1 /\ v9'[1] = a
      BY <1>1, <1>2, <1>3, <1>4, <3>2, ModelsAnswer
    <3>4. i = 1
      BY <2>1, <3>3
    <3> QED
      BY <1>3, <3>3, <3>4
  <2> QED
    BY <1>1, <2>1 DEF PL!MadeIsNew, PL!About
<1>10. ASSUME NEW q \in Provs PROVE ModelsComes(q)'
  <2>1. a \in PL!Touches(q) /\ a \in PL!Shows(q)
    BY <1>3, <1>4 DEF PL!Touches, PL!Shows
  <2>2. PL!Touches(q)' = PL!Touches(q) /\ PL!Shows(q)' = PL!Shows(q)
    BY <1>1 DEF PL!Touches, PL!Shows, PL!RolledBack
  <2>3. EndsWith(v9', PL!Touches(q), PL!Shows(q), v3[q] = v2[q])
    BY <1>2, <1>4, <2>1, ModelsParts, EndsAppended
  <2> QED
    BY <1>1, <1>8, <2>2, <2>3 DEF ModelsComes, PL!Toggling
<1> QED
  BY <1>6, <1>9, <1>10, ModelsConcludes

(* What is stored, and of whom.                                            *)
LEMMA StoredFacts ==
  ASSUME ModelAssumptions, PL!InductiveInv, NEW r \in v8, r.kind # "list", PL!Valid(r)
  PROVE  /\ PL!Target(r) \in Provs /\ PL!Stored(r) \in [Provs -> PL!AnyRow]
         /\ \A q \in Provs : q # PL!Target(r) => PL!Stored(r)[q] = v2[q]
         /\ r.kind = "remove" => PL!Stored(r)[PL!Target(r)] = PL!NoRow
         /\ r.kind # "remove" => PL!Stored(r)[PL!Target(r)].is
         /\ r.p = "new" => r.kind = "save" /\ ~v2[PL!Target(r)].is
         /\ r.p # "new" => PL!Target(r) = r.p /\ r.p \in Provs
<1> DEFINE t == PL!Target(r)
<1>1. r \in PL!AnyRequest /\ v2 \in [Provs -> PL!AnyRow] /\ PL!RequestFits(r)
  BY ModelsParts DEF PL!Fits
<1>2. r.p = "new" => r.kind = "save"
  BY <1>1, RequestFacts DEF ModelAssumptions
<1>3. t \in Provs /\ (r.p = "new" => ~v2[t].is) /\ (r.p # "new" => t = r.p /\ r.p \in Provs /\ v2[t].is)
  <2>1. CASE r.p = "new"
    <3>1. PL!Free # {}
      BY <1>2, <2>1 DEF PL!Valid
    <3>2. PL!Newest \in PL!Free
      BY <3>1 DEF PL!Newest
    <3> QED
      BY <2>1, <3>2 DEF PL!Target, PL!Free
  <2>2. CASE r.p # "new"
    <3>1. r.p \in Provs /\ v2[r.p].is
      BY <1>1, <2>2, RequestFacts DEF PL!Valid
    <3> QED
      BY <2>2, <3>1 DEF PL!Target
  <2> QED
    BY <2>1, <2>2
<1>4. CASE r.kind = "save"
  <2>1. PL!Stored(r) = [v2 EXCEPT ![t] = r.body] /\ r.body \in PL!AnyRow /\ r.body.is
    BY <1>1, <1>4, RequestFacts DEF PL!Stored, PL!RequestFits
  <2> HIDE DEF t
  <2> QED
    BY <1>1, <1>2, <1>3, <1>4, <2>1 DEF t
<1>5. CASE r.kind = "remove"
  <2>1. PL!Stored(r) = [v2 EXCEPT ![t] = PL!NoRow] /\ PL!NoRow \in PL!AnyRow
    BY <1>1, <1>2, <1>3, <1>5, DraftEmpty DEF PL!Stored
  <2> HIDE DEF t
  <2> QED
    BY <1>1, <1>2, <1>3, <1>5, <2>1 DEF t
<1>6. CASE r.kind = "toggle"
  <2>1. PL!Stored(r) = [v2 EXCEPT ![t].public = ~r.prev] /\ r.p # "new"
    BY <1>1, <1>2, <1>3, <1>6 DEF PL!Stored
  <2> HIDE DEF t
  <2> DEFINE row == [v2[t] EXCEPT !.public = ~r.prev]
  <2>2. row \in PL!AnyRow /\ row.is = v2[t].is
    BY <1>1, <1>3 DEF PL!AnyRow
  <2>3. PL!Stored(r) = [v2 EXCEPT ![t] = row]
    BY <2>1
  <2> HIDE DEF row
  <2>4. PL!Stored(r) \in [Provs -> PL!AnyRow] /\ PL!Stored(r)[t] = row
        /\ \A q \in Provs : q # t => PL!Stored(r)[q] = v2[q]
    BY <1>1, <1>3, <2>2, <2>3
  <2> QED
    BY <1>3, <1>6, <2>1, <2>2, <2>4 DEF t
<1> QED
  BY <1>1, <1>4, <1>5, <1>6, RequestFacts

(* A provider that is created in a built-in panel: nothing is under way    *)
(* about it but the removal of its predecessor.                            *)
LEMMA ModelsFree ==
  ASSUME ModelAssumptions, PL!InductiveInv, v1, ~v4, NEW p \in Provs \ v10, ~v2[p].is,
         \A i \in DOMAIN v9 : ~PL!About(v9[i].of, "new")
  PROVE  /\ \A x \in v8 : ~PL!About(x, p)
         /\ \A j \in DOMAIN v9 : PL!About(v9[j].of, p) => v9[j].of.kind = "remove" /\ v9[j].ok
         /\ v3[p].is => \E j \in DOMAIN v9 : PL!About(v9[j].of, p)
<1>1. /\ \A r \in v8 : r.kind # "list"
      /\ \A i \in DOMAIN v9 : v9[i].of.kind # "list"
  BY ModelsParts DEF PL!LoadsOnce, PL!UnderWay
<1>2. ~PL!Refreshes
  BY <1>1 DEF PL!Refreshes
<1>3. /\ v2 \in [Provs -> PL!AnyRow] /\ v3 \in [Provs -> PL!AnyRow]
      /\ v2[p] \in PL!AnyRow /\ v3[p] \in PL!AnyRow
  BY ModelsParts
<1>4. \A x : PL!RolledBack(p, x) => ~v3[p].is
  BY <1>3 DEF PL!RolledBack, PL!AnyRow
<1>5. ASSUME NEW i \in DOMAIN v9, v9[i] \in PL!Touches(p), v9[i] \in PL!Shows(p)
      PROVE  PL!About(v9[i].of, p) /\ (v9[i].of.kind = "remove" \/ ~v3[p].is)
  <2>1. v9[i] \in PL!AnyAnswer /\ PL!AnswerFits(v9[i])
    BY ModelsParts DEF PL!Fits
  <2>2. CASE v9[i].ok /\ v9[i].of.kind = "save" /\ v9[i].p = p
    <3>1. v9[i].of.p = p /\ v9[i].rows[p].is /\ v9[i].rows[p] = v2[p]
      BY <1>1, <1>5, <2>1, <2>2 DEF PL!AnswerFits, PL!About, PL!Shows
    <3> QED
      BY <3>1
  <2>3. CASE v9[i].ok /\ v9[i].of.kind = "remove" /\ v9[i].of.p = p
    BY <2>3 DEF PL!About
  <2>4. CASE v9[i].of.kind = "toggle" /\ v9[i].of.p = p
    <3>1. CASE v9[i].ok
      <4>1. v9[i].rows[p].is /\ v9[i].rows[p] = v2[p]
        BY <1>5, <2>1, <2>4, <3>1 DEF PL!AnswerFits, PL!Shows
      <4> QED
        BY <4>1
    <3>2. CASE ~v9[i].ok
      BY <1>4, <1>5, <2>4, <3>2 DEF PL!Shows, PL!About
    <3> QED
      BY <3>1, <3>2
  <2> QED
    BY <1>1, <1>5, <2>2, <2>3, <2>4 DEF PL!Touches
<1>6. ModelsComes(p)
  BY ModelsParts
<1>7. CASE ~v3[p].is
  <2>1. \A x \in v8 : ~PL!About(x, p)
    <3>1. ASSUME NEW x \in v8, PL!About(x, p) PROVE v3[p].is
      BY <3>1, ModelsParts DEF PL!About, PL!StaysListed, ModelAssumptions
    <3> QED
      BY <1>7, <3>1
  <2>2. ASSUME NEW j \in DOMAIN v9, PL!About(v9[j].of, p),
               ~(v9[j].of.kind = "remove" /\ v9[j].ok)
        PROVE  v3[p].is
    BY <2>2, ModelsParts DEF PL!About, PL!StaysListed, ModelAssumptions
  <2> QED
    BY <1>7, <2>1, <2>2
<1>8. CASE v3[p].is
  <2>1. EndsWith(v9, PL!Touches(p), PL!Shows(p), v3[p] = v2[p])
    BY <1>2, <1>4, <1>6, <1>8 DEF ModelsComes
  <2>2. PICK i \in DOMAIN v9 : v9[i] \in PL!Touches(p) /\ v9[i] \in PL!Shows(p)
    BY <1>8, <2>1 DEF EndsWith
  <2>3. PL!About(v9[i].of, p) /\ v9[i].of.kind = "remove"
    BY <1>5, <1>8, <2>2
  <2>4. v9[i].ok
    BY <2>2, <2>3 DEF PL!Touches
  <2>5. \A x \in v8 : ~PL!About(x, p)
    BY <2>3, ModelsParts DEF PL!Apart
  <2>6. \A j \in DOMAIN v9 : PL!About(v9[j].of, p) => j = i
    BY <2>3, ModelsParts DEF PL!Apart
  <2> QED
    BY <2>3, <2>4, <2>5, <2>6
<1> QED
  BY <1>7, <1>8

LEMMA ModelsHandled ==
  ASSUME ModelAssumptions, PL!InductiveInv, NEW r \in v8, PL!Handle(r), r.kind # "list"
  PROVE  PL!InductiveInv'
<1> DEFINE t == PL!Target(r)
           a == [of |-> r, ok |-> TRUE, p |-> t,
                 rows |-> [q \in Provs |-> IF TRUE /\ t \in {q, None} THEN v2'[q] ELSE PL!NoRow]]
<1>1. /\ v8' = v8 \ {r} /\ v2' = PL!Stored(r) /\ UNCHANGED <<v1, v3, v4, v5, v6, v7, v10>>
      /\ v9' = Append(v9, a) /\ PL!Valid(r)
  BY DEF PL!Handle, PL!Answer
<1>2. /\ t \in Provs /\ v2' \in [Provs -> PL!AnyRow] /\ t # None
      /\ \A q \in Provs : q # t => v2'[q] = v2[q]
      /\ r.kind = "remove" => v2'[t] = PL!NoRow
      /\ r.kind # "remove" => v2'[t].is
      /\ r.p = "new" => r.kind = "save" /\ ~v2[t].is
      /\ r.p # "new" => t = r.p /\ r.p \in Provs
  BY <1>1, StoredFacts DEF ModelAssumptions
<1> HIDE DEF t
<1>3. /\ a.of = r /\ a.ok = TRUE /\ a.p = t /\ a.rows[t] = v2'[t]
      /\ a.rows \in [Provs -> PL!AnyRow]
  BY <1>2, DraftEmpty
<1>4. a \in PL!AnyAnswer
  BY <1>2, <1>3, ModelsParts DEF PL!AnyAnswer
<1> HIDE DEF a
<1>5. PL!AnswerFits(a)
  BY <1>2, <1>3, ModelsParts DEF PL!AnswerFits, PL!Fits
<1>6. PL!Shapes' /\ PL!Fits' /\ PL!LoadsOnce' /\ PL!Apart' /\ PL!StaysListed'
  BY <1>1, <1>2, <1>3, <1>4, <1>5, ModelsParts, ModelsAnswered
<1>7. /\ v9'[Len(v9) + 1] = a /\ Len(v9) + 1 \in DOMAIN v9'
      /\ \A i \in DOMAIN v9 : v9'[i] = v9[i] /\ i \in DOMAIN v9'
      /\ \A i \in DOMAIN v9' : i \in DOMAIN v9 \/ i = Len(v9) + 1
  BY <1>1, <1>3, <1>4, ModelsAnswer
<1>8. v1 => ~v4
  <2>1. v1 /\ v4 => v8 = {[kind |-> "list"]} \/ v8 = {}
    BY ModelsParts DEF PL!LoadsOnce
  <2> QED
    BY <2>1
<1>9. ASSUME v1, NEW q \in Provs \ v10, NEW i \in DOMAIN v9',
             v9'[i].ok, PL!About(v9'[i].of, "new"), v9'[i].p = q
      PROVE  /\ \A x \in v8' : ~PL!About(x, q)
             /\ \A j \in DOMAIN v9' : PL!About(v9'[j].of, q) =>
                  v9'[j].of.kind = "remove" /\ v9'[j].ok
             /\ v3[q].is => \E j \in DOMAIN v9' : PL!About(v9'[j].of, q)
  <2>1. CASE i \in DOMAIN v9
    <3>1. v9[i].ok /\ PL!About(v9[i].of, "new") /\ v9[i].p = q
      BY <1>7, <1>9, <2>1
    <3>2. /\ \A x \in v8 : ~PL!About(x, q)
          /\ \A j \in DOMAIN v9 : PL!About(v9[j].of, q) =>
               v9[j].of.kind = "remove" /\ v9[j].ok
          /\ v3[q].is => \E j \in DOMAIN v9 : PL!About(v9[j].of, q)
      BY <1>9, <2>1, <3>1, ModelsParts DEF PL!MadeIsNew
    <3> QED
      BY <1>1, <1>3, <1>7, <3>2
  <2>2. CASE i \notin DOMAIN v9
    <3>1. r.p = "new" /\ q = t /\ PL!About(r, "new")
      BY <1>3, <1>7, <1>9, <2>2 DEF PL!About
    <3>2. \A j \in DOMAIN v9 : ~PL!About(v9[j].of, "new")
      BY <3>1, ModelsParts DEF PL!Apart
    <3>3. /\ \A x \in v8 : ~PL!About(x, q)
          /\ \A j \in DOMAIN v9 : PL!About(v9[j].of, q) => v9[j].of.kind = "remove" /\ v9[j].ok
          /\ v3[q].is => \E j \in DOMAIN v9 : PL!About(v9[j].of, q)
      BY <1>2, <1>8, <1>9, <3>1, <3>2, ModelsFree
    <3>4. ~PL!About(a.of, q)
      BY <1>3, <3>3
    <3> QED
      BY <1>1, <1>7, <3>3, <3>4
  <2> QED
    BY <2>1, <2>2
<1>10. PL!MadeIsNew'
  BY <1>1, <1>9 DEF PL!MadeIsNew, PL!About
<1>11. ASSUME NEW q \in Provs \ v10, q # t PROVE ModelsComes(q)'
  <2>1. ~PL!Toggling(r, q) /\ a \notin PL!Touches(q)
    BY <1>2, <1>3, <1>11 DEF PL!Toggling, PL!Touches
  <2>2. v2'[q] = v2[q]
    BY <1>2, <1>11
  <2> QED
    BY <1>1, <1>3, <1>4, <1>11, <2>1, <2>2, ModelsElse
<1>12. ASSUME NEW q \in Provs \ v10, q = t PROVE ModelsComes(q)'
  <2>1. CASE ~v1 /\ r.kind = "save"
    <3>1. PL!Refreshes'
      BY <1>1, <1>3, <1>7, <2>1 DEF PL!Refreshes
    <3> QED
      BY <3>1 DEF ModelsComes
  <2>2. CASE v1 \/ r.kind # "save"
    <3>1. \A x \in v8' : ~PL!Toggling(x, q)
      <4>1. CASE r.p # "new"
        <5>1. PL!About(r, q)
          BY <1>2, <1>12, <4>1 DEF PL!About
        <5>2. \A x \in v8 : PL!About(x, q) => x = r
          BY <1>2, <5>1, ModelsParts DEF PL!Apart
        <5> QED
          BY <1>1, <5>2 DEF PL!About, PL!Toggling
      <4>2. CASE r.p = "new"
        <5>1. v1 /\ PL!About(r, "new")
          BY <1>2, <2>2, <4>2 DEF PL!About
        <5>2. \A j \in DOMAIN v9 : ~PL!About(v9[j].of, "new")
          BY <5>1, ModelsParts DEF PL!Apart
        <5>3. \A x \in v8 : ~PL!About(x, q)
          BY <1>2, <1>8, <1>12, <4>2, <5>1, <5>2, ModelsFree
        <5> QED
          BY <1>1, <5>3 DEF PL!About, PL!Toggling
      <4> QED
        BY <4>1, <4>2
    <3>2. r.kind \in {"save", "toggle", "remove"}
      BY ModelsParts, RequestFacts
    <3>3. a \in PL!Touches(q)'
      <4>1. PL!Touches(q)' = PL!Touches(q)
        BY <1>1 DEF PL!Touches
      <4>2. a \in PL!Touches(q)
        BY <1>2, <1>3, <1>4, <1>12, <2>2, <3>2 DEF PL!Touches
      <4> QED
        BY <4>1, <4>2
    <3>4. a \in PL!Shows(q)'
      <4>1. PL!Shows(q)' = {x \in PL!AnyAnswer :
                              \/ x.ok /\ x.rows[q] = v2'[q]
                              \/ ~x.ok /\ x.of.kind = "toggle" /\ PL!RolledBack(q, x.of.prev)'}
        BY DEF PL!Shows
      <4> QED
        BY <1>3, <1>4, <1>12, <4>1
    <3>5. EndsWith(v9', PL!Touches(q)', PL!Shows(q)', v3'[q] = v2'[q])
      BY <1>1, <1>4, <3>3, <3>4, ModelsParts, EndsAppended
    <3> QED
      BY <3>1, <3>5 DEF ModelsComes, PL!Toggling
  <2> QED
    BY <2>1, <2>2
<1> QED
  BY <1>1, <1>6, <1>10, <1>11, <1>12, ModelsConcludes

LEMMA ModelsFails ==
  ASSUME ModelAssumptions, PL!InductiveInv, NEW r \in v8, NEW done \in BOOLEAN,
         PL!HandleFails(r, done)
  PROVE  PL!InductiveInv'
<1> DEFINE t == PL!Target(r)
           a == [of |-> r, ok |-> FALSE, p |-> None,
                 rows |-> [q \in Provs |-> IF FALSE /\ None \in {q, None} THEN v2'[q] ELSE PL!NoRow]]
<1>1. /\ v8' = v8 \ {r} /\ v2' = (IF done THEN PL!Stored(r) ELSE v2)
      /\ UNCHANGED <<v1, v3, v4, v5, v6, v7>>
      /\ v9' = Append(v9, a) /\ (done => PL!Valid(r))
      /\ v10' = (IF r.kind = "list" THEN Provs ELSE IF done THEN v10 \cup {t} ELSE v10)
  BY DEF PL!HandleFails, PL!Answer
<1>2. /\ v2' \in [Provs -> PL!AnyRow] /\ v10' \subseteq Provs
      /\ \A q \in Provs \ v10' : q \notin v10 /\ v2'[q] = v2[q]
  <2>1. CASE r.kind = "list"
    <3>1. v2' = v2
      BY <1>1, <2>1 DEF PL!Stored
    <3> QED
      BY <1>1, <2>1, <3>1, ModelsParts
  <2>2. CASE r.kind # "list" /\ done
    <3>1. /\ t \in Provs /\ v2' \in [Provs -> PL!AnyRow]
          /\ \A q \in Provs : q # t => v2'[q] = v2[q]
      BY <1>1, <2>2, StoredFacts
    <3> QED
      BY <1>1, <2>2, <3>1, ModelsParts
  <2>3. CASE r.kind # "list" /\ ~done
    BY <1>1, <2>3, ModelsParts
  <2> QED
    BY <2>1, <2>2, <2>3
<1> HIDE DEF t
<1>3. a.of = r /\ a.ok = FALSE /\ a.p = None /\ a.rows \in [Provs -> PL!AnyRow]
  BY DraftEmpty
<1>4. a \in PL!AnyAnswer
  BY <1>3, ModelsParts DEF PL!AnyAnswer
<1> HIDE DEF a
<1>5. PL!AnswerFits(a)
  BY <1>3, ModelsParts DEF PL!AnswerFits, PL!Fits
<1>6. PL!Shapes' /\ PL!Fits' /\ PL!LoadsOnce' /\ PL!Apart' /\ PL!StaysListed'
  BY <1>1, <1>2, <1>3, <1>4, <1>5, ModelsParts, ModelsAnswered
<1>7. /\ v9'[Len(v9) + 1] = a /\ Len(v9) + 1 \in DOMAIN v9'
      /\ \A i \in DOMAIN v9 : v9'[i] = v9[i] /\ i \in DOMAIN v9'
      /\ \A i \in DOMAIN v9' : i \in DOMAIN v9 \/ i = Len(v9) + 1
  BY <1>1, <1>3, <1>4, ModelsAnswer
<1>8. ASSUME v1, NEW q \in Provs \ v10', NEW i \in DOMAIN v9',
             v9'[i].ok, PL!About(v9'[i].of, "new"), v9'[i].p = q
      PROVE  /\ \A x \in v8' : ~PL!About(x, q)
             /\ \A j \in DOMAIN v9' : PL!About(v9'[j].of, q) =>
                  v9'[j].of.kind = "remove" /\ v9'[j].ok
             /\ v3[q].is => \E j \in DOMAIN v9' : PL!About(v9'[j].of, q)
  <2>1. i \in DOMAIN v9
    BY <1>3, <1>7, <1>8
  <2>2. v9[i].ok /\ PL!About(v9[i].of, "new") /\ v9[i].p = q /\ q \in Provs \ v10
    BY <1>2, <1>7, <1>8, <2>1
  <2>3. /\ \A x \in v8 : ~PL!About(x, q)
        /\ \A j \in DOMAIN v9 : PL!About(v9[j].of, q) =>
             v9[j].of.kind = "remove" /\ v9[j].ok
        /\ v3[q].is => \E j \in DOMAIN v9 : PL!About(v9[j].of, q)
    BY <1>8, <2>1, <2>2, ModelsParts DEF PL!MadeIsNew
  <2> QED
    BY <1>1, <1>3, <1>7, <2>3
<1>9. PL!MadeIsNew'
  BY <1>1, <1>8 DEF PL!MadeIsNew, PL!About
<1>10. ASSUME NEW q \in Provs \ v10' PROVE ModelsComes(q)'
  <2>1. q \in Provs \ v10 /\ v2'[q] = v2[q] /\ r.kind # "list"
    BY <1>1, <1>2, <1>10
  <2>2. CASE ~PL!Toggling(r, q)
    <3>1. a \notin PL!Touches(q)
      BY <1>3, <2>2 DEF PL!Toggling, PL!Touches
    <3> QED
      BY <1>1, <1>3, <1>4, <2>1, <2>2, <3>1, ModelsElse
  <2>3. CASE PL!Toggling(r, q) /\ PL!Refreshes
    <3>1. PL!Refreshes'
      BY <1>1, <1>7, <2>1, <2>3 DEF PL!Refreshes
    <3> QED
      BY <3>1 DEF ModelsComes
  <2>4. CASE PL!Toggling(r, q) /\ ~PL!Refreshes
    <3>1. \A x \in v8 : PL!Toggling(x, q) => x = r
      BY <2>4, ModelsParts DEF PL!Apart, PL!About, PL!Toggling
    <3>2. PL!RolledBack(q, r.prev)
      BY <2>1, <2>4, <3>1, ModelsParts DEF ModelsComes
    <3>3. a \in PL!Touches(q) /\ a \in PL!Shows(q)
      BY <1>3, <1>4, <2>4, <3>2 DEF PL!Touches, PL!Shows, PL!Toggling
    <3>4. EndsWith(v9', PL!Touches(q), PL!Shows(q), v3[q] = v2[q])
      BY <1>1, <1>4, <3>3, ModelsParts, EndsAppended
    <3>5. PL!Touches(q)' = PL!Touches(q) /\ PL!Shows(q)' = PL!Shows(q)
      BY <1>1, <2>1 DEF PL!Touches, PL!Shows, PL!RolledBack
    <3>6. \A x \in v8' : ~PL!Toggling(x, q)
      BY <1>1, <3>1
    <3> QED
      BY <1>1, <2>1, <3>4, <3>5, <3>6 DEF ModelsComes, PL!Toggling
  <2> QED
    BY <2>2, <2>3, <2>4
<1> QED
  BY <1>6, <1>9, <1>10, ModelsConcludes

(* An answer arrives: what it changes of what is shown.                    *)
LEMMA ModelsShown ==
  ASSUME ModelAssumptions, PL!InductiveInv, PL!AnswerArrives, NEW h \in PL!AnyAnswer,
         h = Head(v9), 1 \in DOMAIN v9, h = v9[1]
  PROVE  /\ v3' \in [Provs -> PL!AnyRow]
         /\ \A q \in Provs : h \notin PL!Touches(q) => v3'[q] = v3[q]
         /\ \A q \in Provs : h \in PL!Touches(q) /\ h \in PL!Shows(q) => v3'[q] = v2[q]
         /\ v1 /\ h.of.kind # "list" => \A q \in Provs :
              v3[q].is /\ ~(h.ok /\ h.of.kind = "remove" /\ h.of.p = q) => v3'[q].is
         /\ \A q \in Provs : h.ok /\ h.of.kind = "remove" /\ h.of.p = q => ~v3'[q].is
<1>1. /\ PL!AnswerFits(h) /\ v3 \in [Provs -> PL!AnyRow] /\ v2 \in [Provs -> PL!AnyRow]
      /\ h.rows \in [Provs -> PL!AnyRow] /\ h.of \in PL!AnyRequest /\ h.ok \in BOOLEAN
      /\ v1 => (h.of.kind # "list" /\ h.of.p # "new" /\ ~(h.of.kind = "remove" /\ h.ok)
                  => v3[h.of.p].is)
  BY ModelsParts, AnswerParts DEF PL!Fits, PL!StaysListed
<1>2. CASE h.of.kind = "list"
  <2>1. v3' = IF h.ok THEN h.rows ELSE v3
    BY <1>2 DEF PL!AnswerArrives
  <2>2. \A q : h \in PL!Touches(q) <=> h.ok
    BY <1>2 DEF PL!Touches
  <2>3. \A q : h.ok /\ h \in PL!Shows(q) => h.rows[q] = v2[q]
    BY DEF PL!Shows
  <2> QED
    BY <1>1, <1>2, <2>1, <2>2, <2>3
<1>3. CASE h.of.kind = "toggle"
  <2> DEFINE p == h.of.p
             row == IF h.ok THEN h.rows[p] ELSE [v3[p] EXCEPT !.public = h.of.prev]
  <2>1. p \in Provs /\ v1 /\ h.of.prev \in BOOLEAN
    BY <1>1, <1>3, RequestFacts DEF PL!AnswerFits, PL!RequestFits
  <2>2. v3[p].is
    BY <1>1, <1>3, <2>1 DEF ModelAssumptions
  <2>3. v3' = [v3 EXCEPT ![p] = row]
    BY <1>3, <2>2 DEF PL!AnswerArrives, PL!Toggles, PL!Shown
  <2>4. row \in PL!AnyRow /\ row.is
    <3>1. v3[p] \in PL!AnyRow /\ h.rows[p] \in PL!AnyRow /\ (h.ok => h.rows[p].is)
      BY <1>1, <1>3, <2>1 DEF PL!AnswerFits
    <3> QED
      BY <2>1, <2>2, <3>1 DEF PL!AnyRow
  <2>5. \A q : h \in PL!Touches(q) => q = p
    BY <1>3 DEF PL!Touches
  <2>6. h \in PL!Shows(p) => row = v2[p]
    BY DEF PL!Shows, PL!RolledBack
  <2>7. h \in PL!Touches(p)
    BY <1>3 DEF PL!Touches
  <2> HIDE DEF row, p
  <2>8. v3' \in [Provs -> PL!AnyRow] /\ v3'[p] = row /\ \A q \in Provs : q # p => v3'[q] = v3[q]
    BY <1>1, <2>1, <2>3, <2>4
  <2> QED
    BY <1>3, <2>4, <2>5, <2>6, <2>7, <2>8
<1>4. CASE h.of.kind = "save" /\ h.ok /\ v1
  <2> DEFINE p == h.p
             row == h.rows[p]
  <2>1. p \in Provs /\ h.of.p \in {"new", p} /\ row.is /\ row \in PL!AnyRow
    BY <1>1, <1>4 DEF PL!AnswerFits
  <2>2. h.of.p = "new" \/ v3[p].is
    BY <1>1, <1>4, <2>1
  <2>3. v3' = [v3 EXCEPT ![p] = row]
    BY <1>4, <2>2 DEF PL!AnswerArrives, PL!Saved, PL!Shown
  <2>5. \A q : h \in PL!Touches(q) <=> q = p
    BY <1>4 DEF PL!Touches
  <2>6. h \in PL!Shows(p) => row = v2[p]
    BY <1>4 DEF PL!Shows
  <2> HIDE DEF row, p
  <2>8. v3' \in [Provs -> PL!AnyRow] /\ v3'[p] = row /\ \A q \in Provs : q # p => v3'[q] = v3[q]
    BY <1>1, <2>1, <2>3
  <2> QED
    BY <1>4, <2>1, <2>5, <2>6, <2>8
<1>5. CASE h.of.kind = "save" /\ ~(h.ok /\ v1)
  <2>1. v3' = v3
    BY <1>1, <1>5 DEF PL!AnswerArrives, PL!Saved
  <2>2. \A q : h \notin PL!Touches(q)
    BY <1>5 DEF PL!Touches
  <2> QED
    BY <1>1, <1>5, <2>1, <2>2
<1>6. CASE h.of.kind = "remove"
  <2> DEFINE p == h.of.p
  <2>1. p \in Provs
    BY <1>1, <1>6, RequestFacts
  <2>2. v3' = IF h.ok THEN [v3 EXCEPT ![p] = PL!NoRow] ELSE v3
    BY <1>6 DEF PL!AnswerArrives
  <2>3. \A q : h \in PL!Touches(q) <=> h.ok /\ q = p
    BY <1>6 DEF PL!Touches
  <2>4. h.ok /\ h \in PL!Shows(p) => v2[p] = PL!NoRow
    BY <1>1, <1>6 DEF PL!Shows, PL!AnswerFits
  <2> HIDE DEF p
  <2>5. /\ v3' \in [Provs -> PL!AnyRow] /\ \A q \in Provs : q # p \/ ~h.ok => v3'[q] = v3[q]
        /\ h.ok => v3'[p] = PL!NoRow
    BY <1>1, <2>1, <2>2, DraftEmpty
  <2> QED
    BY <1>6, <2>1, <2>3, <2>4, <2>5, DraftEmpty DEF p
<1> QED
  BY <1>1, <1>2, <1>3, <1>4, <1>5, <1>6, RequestFacts

LEMMA ModelsArrives ==
  ASSUME ModelAssumptions, PL!InductiveInv, PL!AnswerArrives
  PROVE  PL!InductiveInv'
<1> DEFINE h == Head(v9)
           l == [kind |-> "list"]
<1>1. /\ v9' = Tail(v9) /\ v9 # <<>> /\ UNCHANGED <<v1, v2, v10>>
      /\ v9 \in Seq(PL!AnyAnswer)
  BY ModelsParts DEF PL!AnswerArrives
<1>2. /\ h = v9[1] /\ 1 \in DOMAIN v9 /\ h \in PL!AnyAnswer
      /\ v9' \in Seq(PL!AnyAnswer) /\ DOMAIN v9 = 1..Len(v9) /\ Len(v9) \in Nat
      /\ \A i \in DOMAIN v9' : v9'[i] = v9[i + 1] /\ i + 1 \in DOMAIN v9 /\ i + 1 # 1
  <2>1. /\ h \in PL!AnyAnswer /\ h = v9[1] /\ v9' \in Seq(PL!AnyAnswer)
        /\ Len(v9') = Len(v9) - 1 /\ \A i \in 1..Len(v9') : v9'[i] = v9[i + 1]
    BY <1>1, HeadTailProperties
  <2>2. DOMAIN v9' = 1..Len(v9') /\ DOMAIN v9 = 1..Len(v9) /\ Len(v9) \in Nat /\ Len(v9) # 0
    BY <1>1, <2>1, SeqElements, EmptySeq
  <2> QED
    BY <2>1, <2>2
<1>3. \A j \in DOMAIN v9 : j # 1 => j - 1 \in DOMAIN v9' /\ v9'[j - 1] = v9[j]
  <2>1. Len(v9') = Len(v9) - 1 /\ DOMAIN v9' = 1..Len(v9')
    BY <1>1, <1>2, HeadTailProperties, SeqElements
  <2>2. \A j \in DOMAIN v9 : j # 1 => j - 1 \in DOMAIN v9' /\ (j - 1) + 1 = j
    BY <1>2, <2>1
  <2> QED
    BY <1>2, <2>2
<1>4. /\ h.of \in PL!AnyRequest /\ h.ok \in BOOLEAN /\ h.rows \in [Provs -> PL!AnyRow]
      /\ PL!AnswerFits(h) /\ h.of.kind \in {"list", "save", "toggle", "remove"}
  BY <1>2, ModelsParts, AnswerParts DEF PL!Fits
<1>5. /\ v4' \in BOOLEAN /\ v5' \in {v5, None} /\ v6' \in {v6, PL!EmptyForm} /\ v7' \in BOOLEAN
      /\ v8' \in {v8, v8 \cup {l}}
      /\ v1 => v8' = v8 /\ (h.of.kind # "list" => v4' = v4)
      /\ h.of.kind = "list" => v4' = FALSE
      /\ ~v1 /\ h.ok /\ h.of.kind = "save" => v8' = v8 \cup {l}
  <2>1. CASE h.of.kind = "list"
    BY <2>1, ModelsParts DEF PL!AnswerArrives
  <2>2. CASE h.of.kind = "toggle"
    BY <2>2, ModelsParts DEF PL!AnswerArrives, PL!Toggles
  <2>3. CASE h.of.kind = "save" /\ h.ok
    BY <2>3, ModelsParts DEF PL!AnswerArrives, PL!Saved
  <2>4. CASE h.of.kind = "save" /\ ~h.ok
    BY <2>4, ModelsParts DEF PL!AnswerArrives
  <2>5. CASE h.of.kind = "remove"
    BY <2>5, ModelsParts DEF PL!AnswerArrives
  <2> QED
    BY <1>4, <2>1, <2>2, <2>3, <2>4, <2>5
<1>6. /\ v3' \in [Provs -> PL!AnyRow]
      /\ \A q \in Provs : h \notin PL!Touches(q) => v3'[q] = v3[q]
      /\ \A q \in Provs : h \in PL!Touches(q) /\ h \in PL!Shows(q) => v3'[q] = v2[q]
      /\ v1 /\ h.of.kind # "list" => \A q \in Provs :
           v3[q].is /\ ~(h.ok /\ h.of.kind = "remove" /\ h.of.p = q) => v3'[q].is
      /\ \A q \in Provs : h.ok /\ h.of.kind = "remove" /\ h.of.p = q => ~v3'[q].is
  BY <1>2, ModelsShown
<1> HIDE DEF h
<1>7. l \in PL!AnyRequest /\ l.kind = "list"
  BY DEF PL!AnyRequest
<1>8. PL!Shapes'
  <2>1. v5' \in Provs \cup {"new", None} /\ v6' \in PL!AnyRow /\ v6'.is /\ v8' \subseteq PL!AnyRequest
    BY <1>5, <1>7, ModelsParts, DraftEmpty
  <2> QED
    BY <1>1, <1>2, <1>5, <1>6, <2>1, ModelsParts DEF PL!Shapes
<1>9. PL!Fits'
  <2>1. \A q \in v8' : PL!RequestFits(q)
    BY <1>5, <1>7, ModelsParts DEF PL!Fits, PL!RequestFits
  <2>2. \A i \in DOMAIN v9' : PL!AnswerFits(v9'[i])
    BY <1>2, ModelsParts DEF PL!Fits
  <2>3. PL!Fits' <=> /\ \A q \in v8' : PL!RequestFits(q)
                    /\ \A i \in DOMAIN v9' : PL!AnswerFits(v9'[i])
    BY <1>1 DEF PL!Fits, PL!AnswerFits, PL!RequestFits
  <2> QED
    BY <2>1, <2>2, <2>3
<1>10. v1 => IF v4 THEN v8' = {} /\ DOMAIN v9' = {} /\ h.of.kind = "list"
             ELSE /\ \A q \in v8' : q.kind # "list"
                  /\ \A i \in DOMAIN v9 : v9[i].of.kind # "list"
                  /\ h.of.kind # "list" /\ v4' = FALSE
  <2>1. CASE v1 /\ v4
    <3>1. v8 = {} /\ Len(v9) = 1 /\ v9[1].of.kind = "list"
      BY <1>1, <2>1, ModelsParts DEF PL!LoadsOnce
    <3>2. DOMAIN v9' = {}
      BY <1>2, <3>1
    <3> QED
      BY <1>2, <1>5, <2>1, <3>1, <3>2
  <2>2. CASE v1 /\ ~v4
    <3>1. \A q \in PL!UnderWay : q.kind # "list"
      BY <2>2, ModelsParts DEF PL!LoadsOnce
    <3>2. /\ \A q \in v8 : q.kind # "list"
          /\ \A i \in DOMAIN v9 : v9[i].of.kind # "list"
      BY <3>1 DEF PL!UnderWay
    <3> QED
      BY <1>2, <1>5, <2>2, <3>2, ModelsParts
  <2> QED
    BY <2>1, <2>2, ModelsParts
<1>11. PL!LoadsOnce'
  <2>1. ASSUME v1 PROVE v4' = FALSE /\ \A q \in PL!UnderWay' : q.kind # "list"
    <3>1. v4' = FALSE
      BY <1>5, <1>10, <2>1
    <3>2. /\ \A q \in v8' : q.kind # "list"
          /\ \A i \in DOMAIN v9' : v9'[i].of.kind # "list"
      BY <1>2, <1>10, <2>1
    <3> QED
      BY <3>1, <3>2 DEF PL!UnderWay
  <2> QED
    BY <1>1, <2>1 DEF PL!LoadsOnce
<1>12. PL!Apart'
  <2>1. ASSUME NEW p \in Provs \cup {"new"}
        PROVE  /\ \A x, q \in v8' : PL!About(x, p) /\ PL!About(q, p) => x = q
               /\ \A x \in v8', i \in DOMAIN v9' : ~(PL!About(x, p) /\ PL!About(v9'[i].of, p))
               /\ \A i, j \in DOMAIN v9' : PL!About(v9'[i].of, p) /\ PL!About(v9'[j].of, p) => i = j
    <3>1. /\ \A x, q \in v8 : PL!About(x, p) /\ PL!About(q, p) => x = q
          /\ \A x \in v8, i \in DOMAIN v9 : ~(PL!About(x, p) /\ PL!About(v9[i].of, p))
          /\ \A i, j \in DOMAIN v9 : PL!About(v9[i].of, p) /\ PL!About(v9[j].of, p) => i = j
      BY ModelsParts DEF PL!Apart
    <3>2. ~PL!About(l, p)
      BY <1>7 DEF PL!About
    <3>3. \A x \in v8' : x \in v8 \/ x = l
      BY <1>5
    <3> HIDE DEF l
    <3>4. \A x, q \in v8' : PL!About(x, p) /\ PL!About(q, p) => x = q
      BY <3>1, <3>2, <3>3
    <3>5. \A x \in v8', i \in DOMAIN v9' : ~(PL!About(x, p) /\ PL!About(v9'[i].of, p))
      BY <1>2, <3>1, <3>2, <3>3
    <3>6. \A i, j \in DOMAIN v9' : PL!About(v9'[i].of, p) /\ PL!About(v9'[j].of, p) => i = j
      <4>1. ASSUME NEW i \in DOMAIN v9', NEW j \in DOMAIN v9',
                   PL!About(v9'[i].of, p), PL!About(v9'[j].of, p)
            PROVE  i = j
        <5>1. i + 1 = j + 1
          BY <1>2, <3>1, <4>1
        <5>2. i \in Nat /\ j \in Nat
          BY <1>2, <4>1, SeqElements
        <5> QED
          BY <5>1, <5>2
      <4> QED
        BY <4>1
    <3> QED
      BY <3>4, <3>5, <3>6
  <2> QED
    BY <2>1 DEF PL!Apart, PL!About
<1> HIDE DEF l
\* Nobody else asks about the provider of the answer.
<1>13. ASSUME NEW p \in Provs \cup {"new"}, PL!About(h.of, p)
       PROVE  /\ \A x \in v8 : ~PL!About(x, p)
              /\ \A i \in DOMAIN v9' : ~PL!About(v9'[i].of, p)
  <2>1. \A x \in v8 : ~PL!About(x, p)
    BY <1>2, <1>13, ModelsParts DEF PL!Apart
  <2>2. \A i \in DOMAIN v9 : PL!About(v9[i].of, p) => i = 1
    BY <1>2, <1>13, ModelsParts DEF PL!Apart
  <2> QED
    BY <1>2, <2>1, <2>2
<1>14. PL!StaysListed'
  <2>1. ASSUME v1, NEW q \in Provs, v3[q].is, h.of.kind # "list", ~v3'[q].is
        PROVE  PL!About(h.of, q) /\ h.of.kind = "remove"
    BY <1>6, <2>1 DEF PL!About
  <2>2. ASSUME v1, NEW x \in v8', x.kind # "list", x.p # "new" PROVE v3'[x.p].is
    <3>1. x \in v8 /\ x.p \in Provs /\ PL!About(x, x.p) /\ ~v4
      BY <1>5, <1>10, <2>2, ModelsParts, RequestFacts DEF PL!About
    <3>2. v3[x.p].is /\ h.of.kind # "list"
      BY <1>10, <2>2, <3>1, ModelsParts DEF PL!StaysListed
    <3> QED
      BY <1>13, <2>1, <2>2, <3>1, <3>2
  <2>3. ASSUME v1, NEW i \in DOMAIN v9', v9'[i].of.kind # "list", v9'[i].of.p # "new",
               ~(v9'[i].of.kind = "remove" /\ v9'[i].ok)
        PROVE  v3'[v9'[i].of.p].is
    <3> DEFINE p == v9'[i].of.p
    <3>1. p \in Provs /\ PL!About(v9'[i].of, p) /\ ~v4
      BY <1>2, <1>10, <2>3, ModelsParts, AnswerParts, RequestFacts DEF PL!About
    <3>2. v3[p].is /\ h.of.kind # "list"
      BY <1>2, <1>10, <2>3, <3>1, ModelsParts DEF PL!StaysListed
    <3> HIDE DEF p
    <3>3. v3'[p].is
      BY <1>13, <2>1, <2>3, <3>1, <3>2
    <3> QED
      BY <3>3 DEF p
  <2> QED
    BY <1>1, <2>2, <2>3 DEF PL!StaysListed
<1>15. ASSUME v1, NEW q \in Provs \ v10, NEW i \in DOMAIN v9',
             v9'[i].ok, PL!About(v9'[i].of, "new"), v9'[i].p = q
      PROVE  /\ \A x \in v8' : ~PL!About(x, q)
             /\ \A j \in DOMAIN v9' : PL!About(v9'[j].of, q) =>
                  v9'[j].of.kind = "remove" /\ v9'[j].ok
             /\ v3'[q].is => \E j \in DOMAIN v9' : PL!About(v9'[j].of, q)
  <2>1. /\ \A x \in v8 : ~PL!About(x, q)
        /\ \A j \in DOMAIN v9 : PL!About(v9[j].of, q) =>
             v9[j].of.kind = "remove" /\ v9[j].ok
        /\ v3[q].is => \E j \in DOMAIN v9 : PL!About(v9[j].of, q)
    BY <1>2, <1>15, ModelsParts DEF PL!MadeIsNew
  <2>2. v8' = v8 /\ ~v4 /\ h.of.kind # "list"
    BY <1>5, <1>10, <1>15
  <2>3. ~PL!About(h.of, "new")
    BY <1>13, <1>15
  <2>4. PL!About(h.of, q) => h.of.kind = "remove" /\ h.ok
    BY <1>2, <2>1
  <2>5. ASSUME v3'[q].is PROVE \E j \in DOMAIN v9' : PL!About(v9'[j].of, q)
    <3>1. ~PL!About(h.of, q)
      BY <1>6, <2>4, <2>5 DEF PL!About
    <3>2. h \notin PL!Touches(q)
      <4>1. CASE h.of.kind = "save" /\ h.ok
        BY <1>4, <2>3, <3>1, <4>1 DEF PL!AnswerFits, PL!About, PL!Touches
      <4>2. CASE ~(h.of.kind = "save" /\ h.ok)
        BY <2>2, <3>1, <4>2 DEF PL!About, PL!Touches
      <4> QED
        BY <4>1, <4>2
    <3>3. v3[q].is
      BY <1>6, <2>5, <3>2
    <3>4. PICK j \in DOMAIN v9 : PL!About(v9[j].of, q)
      BY <2>1, <3>3
    <3>5. j # 1
      BY <1>2, <3>1, <3>4
    <3> QED
      BY <1>3, <3>4, <3>5
  <2> QED
    BY <1>2, <2>1, <2>2, <2>5
<1>16. PL!MadeIsNew'
  BY <1>1, <1>15 DEF PL!MadeIsNew, PL!About
<1>17. PL!Refreshes => PL!Refreshes'
  <2>1. CASE l \in v8
    <3>1. l \in v8'
      BY <1>5, <2>1
    <3> QED
      BY <3>1 DEF PL!Refreshes, l
  <2>2. ASSUME ~v1, NEW i \in DOMAIN v9, v9[i].ok, v9[i].of.kind = "save"
        PROVE  PL!Refreshes'
    <3>1. CASE i = 1
      <4>1. l \in v8'
        BY <1>2, <1>5, <2>2, <3>1
      <4> QED
        BY <4>1 DEF PL!Refreshes, l
    <3>2. CASE i # 1
      BY <1>1, <1>3, <2>2, <3>2 DEF PL!Refreshes
    <3> QED
      BY <3>1, <3>2
  <2> QED
    BY <2>1, <2>2 DEF PL!Refreshes, l
<1>18. ASSUME NEW q \in Provs \ v10 PROVE ModelsComes(q)'
  <2>1. PL!Touches(q)' = PL!Touches(q)
    BY <1>1 DEF PL!Touches
  <2>2. \A x \in v8' : PL!Toggling(x, q) => x \in v8
    BY <1>5, <1>7 DEF PL!Toggling
  <2>3. CASE PL!Refreshes
    BY <1>17, <2>3 DEF ModelsComes
  <2>4. ASSUME NEW x \in v8, PL!Toggling(x, q), PL!RolledBack(q, x.prev)
        PROVE  ModelsComes(q)'
    <3>1. v1 /\ PL!About(x, q) /\ x \in v8'
      BY <1>5, <2>4, ModelsParts DEF PL!Fits, PL!RequestFits, PL!Toggling, PL!About
    <3>2. ~v4 /\ h.of.kind # "list"
      BY <1>5, <1>10, <3>1
    <3>3. ~PL!About(h.of, q)
      BY <1>13, <2>4, <3>1
    <3>4. h \notin PL!Touches(q)
      <4>1. CASE h.of.kind = "save" /\ h.ok /\ h.p = q
        <5>1. PL!About(h.of, "new")
          BY <1>4, <3>3, <4>1 DEF PL!AnswerFits, PL!About
        <5>2. \A y \in v8 : ~PL!About(y, q)
          BY <1>2, <3>1, <4>1, <5>1, ModelsParts DEF PL!MadeIsNew
        <5> QED
          BY <2>4, <3>1, <5>2
      <4>2. CASE ~(h.of.kind = "save" /\ h.ok /\ h.p = q)
        BY <3>2, <3>3, <4>2 DEF PL!Touches, PL!About
      <4> QED
        BY <4>1, <4>2
    <3>5. v3'[q] = v3[q]
      BY <1>6, <3>4
    <3> QED
      BY <1>1, <2>4, <3>1, <3>5 DEF ModelsComes, PL!Toggling, PL!RolledBack
  <2>5. CASE /\ \A x \in v8 : ~PL!Toggling(x, q)
             /\ EndsWith(v9, PL!Touches(q), PL!Shows(q), v3[q] = v2[q])
    <3> DEFINE here == IF h \in PL!Touches(q) THEN h \in PL!Shows(q) ELSE v3[q] = v2[q]
    <3>1. EndsWith(v9', PL!Touches(q), PL!Shows(q), here)
      BY <1>1, <2>5, EndsTail DEF h
    <3>2. here => v3'[q] = v2[q]
      BY <1>6
    <3> HIDE DEF here
    <3>3. ASSUME NEW i \in DOMAIN v9', v9'[i] \in PL!Touches(q) \cap PL!Shows(q)
          PROVE  v9'[i] \in PL!Shows(q)'
      <4> DEFINE b == v9'[i]
      <4>1. b \in PL!AnyAnswer /\ PL!AnswerFits(b) /\ b.ok \in BOOLEAN
        BY <1>2, ModelsParts, AnswerParts DEF PL!Fits
      <4>2. PL!Shows(q)' = {x \in PL!AnyAnswer :
                              \/ x.ok /\ x.rows[q] = v2[q]
                              \/ ~x.ok /\ x.of.kind = "toggle" /\ v2[q] = [v3'[q] EXCEPT !.public = x.of.prev]}
        BY <1>1 DEF PL!Shows, PL!RolledBack
      <4> HIDE DEF b
      <4>3. CASE b.ok
        <5>1. b.rows[q] = v2[q]
          BY <3>3, <4>3 DEF PL!Shows, b
        <5>2. b \in PL!Shows(q)'
          BY <4>1, <4>2, <4>3, <5>1
        <5> QED
          BY <5>2 DEF b
      <4>4. CASE ~b.ok
        <5>1. b.of.kind = "toggle" /\ b.of.p = q /\ PL!RolledBack(q, b.of.prev)
          BY <3>3, <4>4 DEF PL!Shows, PL!Touches, b
        <5>2. v1 /\ PL!About(b.of, q)
          BY <4>1, <5>1 DEF PL!AnswerFits, PL!RequestFits, PL!About
        <5>3. ~v4 /\ h.of.kind # "list"
          BY <1>10, <3>3, <5>2
        <5>4. ~PL!About(h.of, q)
          BY <1>13, <3>3, <5>2 DEF b
        <5>5. h \notin PL!Touches(q)
          <6>1. CASE h.of.kind = "save" /\ h.ok /\ h.p = q
            <7>1. PL!About(h.of, "new")
              BY <1>4, <5>4, <6>1 DEF PL!AnswerFits, PL!About
            <7>2. \A j \in DOMAIN v9 : PL!About(v9[j].of, q) => v9[j].of.kind = "remove"
              BY <1>2, <5>2, <6>1, <7>1, ModelsParts DEF PL!MadeIsNew
            <7>3. b = v9[i + 1] /\ i + 1 \in DOMAIN v9
              BY <1>2, <3>3 DEF b
            <7> QED
              BY <5>1, <5>2, <7>2, <7>3
          <6>2. CASE ~(h.of.kind = "save" /\ h.ok /\ h.p = q)
            BY <5>3, <5>4, <6>2 DEF PL!Touches, PL!About
          <6> QED
            BY <6>1, <6>2
        <5>6. v3'[q] = v3[q]
          BY <1>6, <5>5
        <5>7. b \in PL!Shows(q)'
          BY <4>1, <4>2, <4>4, <5>1, <5>6 DEF PL!RolledBack
        <5> QED
          BY <5>7 DEF b
      <4> QED
        BY <4>3, <4>4
    <3>4. EndsWith(v9', PL!Touches(q), PL!Shows(q)', v3'[q] = v2[q])
      <4> DEFINE some == PL!Touches(q)
                 good == PL!Shows(q)
                 fair == PL!Shows(q)'
                 there == v3'[q] = v2[q]
                 left == v9'
      <4>1. EndsWith(left, some, good, here)
        BY <3>1
      <4>2. here => there
        BY <3>2
      <4>3. \A i \in DOMAIN left : left[i] \in some \cap good => left[i] \in fair
        BY <3>3
      <4> HIDE DEF some, good, fair, there, left
      <4>4. EndsWith(left, some, fair, there)
        BY <4>1, <4>2, <4>3, EndsWeaken
      <4> QED
        BY <4>4 DEF some, fair, there, left
    <3> QED
      BY <1>1, <2>1, <2>2, <2>5, <3>4 DEF ModelsComes, PL!Toggling
  <2> QED
    BY <2>3, <2>4, <2>5, ModelsParts DEF ModelsComes
<1> QED
  BY <1>1, <1>8, <1>9, <1>11, <1>12, <1>14, <1>16, <1>18, ModelsConcludes

LEMMA ModelsNext ==
  ASSUME ModelAssumptions, PL!InductiveInv, PL!Next \/ UNCHANGED PL!listVars
  PROVE  PL!InductiveInv'
<1>1. ASSUME NEW r \in v8, PL!Handle(r) PROVE PL!InductiveInv'
  BY <1>1, ModelsListed, ModelsHandled
<1> QED
  BY <1>1, ModelsFills, ModelsAsks, ModelsFails, ModelsArrives DEF PL!Next

LEMMA ModelsAreTrue == ASSUME PL!InductiveInv PROVE PL!ProviderListIsTrue
<1>1. PL!EachHasADefault
  <2>1. ASSUME NEW p \in Provs PROVE PL!OneDefault(v2[p].models)
    <3>1. v2[p] \in PL!AnyRow
      BY ModelsParts
    <3>2. v2[p].models \in PL!Drafts
      BY <3>1 DEF PL!AnyRow
    <3> QED
      BY <3>2, DraftHasDefault
  <2> QED
    BY <2>1 DEF PL!EachHasADefault
<1>2. PL!ProvidersAreTrue
  <2>1. ASSUME v8 = {}, v9 = <<>>, NEW p \in Provs \ v10 PROVE v3[p] = v2[p]
    <3>1. ~PL!Refreshes
      BY <2>1 DEF PL!Refreshes
    <3>2. EndsWith(v9, PL!Touches(p), PL!Shows(p), v3[p] = v2[p])
      BY <2>1, <3>1, ModelsParts DEF ModelsComes
    <3> QED
      BY <2>1, <3>2, EndsNone
  <2> QED
    BY <2>1 DEF PL!ProvidersAreTrue
<1> QED
  BY <1>1, <1>2 DEF PL!ProviderListIsTrue

-----------------------------------------------------------------------------
(* The cache of git credentials: v1 page, v2 status, v3 list, v4 dialog,   *)
(* v5 picked, v6 rows, v7 made, v8 calls, v9 unsure, v10 opens, v11 losses.*)

CredentialAssumptions == MaxRows \in Nat \ {0}

LEMMA CredentialCounts == ASSUME NEW S PROVE CR!Cardinality(S) = Cardinality(S)
  BY DEF CR!Cardinality, Cardinality

LEMMA CacheParts ==
  ASSUME CR!CacheInv
  PROVE  /\ CR!RowsFit /\ CR!ListFits /\ CR!PageFits /\ CR!Cached
         /\ \A c \in v8 : CR!CallFits(c)
  BY DEF CR!CacheInv

(* An injection of a set into one of its size reaches all of it.           *)
LEMMA ReachesAll ==
  ASSUME NEW T, IsFiniteSet(T), NEW f \in [1..Cardinality(T) -> T],
         \A a, b \in DOMAIN f : f[a] = f[b] => a = b
  PROVE  \A x \in T : \E a \in DOMAIN f : f[a] = x
<1> DEFINE n == Cardinality(T)
           N == 1..n
<1>1. n \in Nat
  BY FS_CardinalityType
<1>2. IsFiniteSet(N) /\ Cardinality(N) = n
  BY <1>1, FS_Interval
<1>3. f \in Injection(N, T)
  BY DEF Injection, IsInjective
<1> HIDE DEF N
<1>4. Cardinality(N) = Cardinality(T) => f \in Surjection(N, T)
  BY <1>3, FS_Injection
<1>5. f \in Surjection(N, T)
  BY <1>2, <1>4
<1> QED
  BY <1>5 DEF Surjection, N

(* Without(i) is the list but for the entry that has the id, if one does.  *)
LEMMA WithoutOrder ==
  ASSUME NEW L \in Nat, NEW j \in Nat, NEW kept, kept = (1..L) \ {j}
  PROVE  /\ IsFiniteSet(kept)
         /\ \E f \in [1..Cardinality(kept) -> kept] :
              \A a, b \in DOMAIN f : a < b => f[a] < f[b]
<1>1. IsFiniteSet(1..L) /\ Cardinality(1..L) = L
  BY FS_Interval
<1>2. /\ IsFiniteSet(kept)
      /\ Cardinality(kept) = IF j \in 1..L THEN L - 1 ELSE L
  BY <1>1, FS_RemoveElement
<1>3. CASE j \in 1..L
  <2> DEFINE f == [k \in 1..(L - 1) |-> IF k < j THEN k ELSE k + 1]
  <2>1. f \in [1..(L - 1) -> kept]
    <3>1. ASSUME NEW k \in 1..(L - 1) PROVE (IF k < j THEN k ELSE k + 1) \in kept
      BY <1>3
    <3> QED
      BY <3>1
  <2>2. \A a, b \in DOMAIN f : a < b => f[a] < f[b]
    BY <1>3
  <2> HIDE DEF f
  <2> QED
    BY <1>2, <1>3, <2>1, <2>2
<1>4. CASE j \notin 1..L
  <2> DEFINE f == [k \in 1..L |-> k]
  <2>1. f \in [1..L -> kept]
    BY <1>4
  <2>2. \A a, b \in DOMAIN f : a < b => f[a] < f[b]
    OBVIOUS
  <2> HIDE DEF f
  <2> QED
    BY <1>2, <1>4, <2>1, <2>2
<1> QED
  BY <1>2, <1>3, <1>4

LEMMA WithoutIs ==
  ASSUME v3 \in Seq(CR!AnyEntry), CR!Once(v3), NEW i, NEW w, w = CR!Without(i)
  PROVE  /\ w \in Seq(CR!AnyEntry) /\ CR!Once(w)
         /\ \A k \in DOMAIN w : \E l \in DOMAIN v3 : w[k] = v3[l] /\ v3[l].id # i
         /\ \A l \in DOMAIN v3 : v3[l].id # i => \E k \in DOMAIN w : w[k] = v3[l]
<1> DEFINE kept == {k \in DOMAIN v3 : v3[k].id # i}
           n == CR!Cardinality(kept)
           Ordered(f) == \A a, b \in DOMAIN f : a < b => f[a] < f[b]
           f0 == CHOOSE f \in [1..n -> kept] : Ordered(f)
<1>0. n = Cardinality(kept)
  BY CredentialCounts
<1>1. DOMAIN v3 = 1..Len(v3) /\ Len(v3) \in Nat /\ \A k \in DOMAIN v3 : v3[k] \in CR!AnyEntry
  BY SeqElements
<1>2. \E j \in Nat : kept = (1..Len(v3)) \ {j}
  <2>1. CASE \E j \in DOMAIN v3 : v3[j].id = i
    <3>1. PICK j \in DOMAIN v3 : v3[j].id = i
      BY <2>1
    <3>2. \A k \in DOMAIN v3 : v3[k].id # i <=> k # j
      BY <3>1 DEF CR!Once
    <3> QED
      BY <1>1, <3>1, <3>2
  <2>2. CASE ~\E j \in DOMAIN v3 : v3[j].id = i
    BY <1>1, <2>2
  <2> QED
    BY <2>1, <2>2
<1>3. IsFiniteSet(kept) /\ \E f \in [1..n -> kept] : Ordered(f)
  BY <1>0, <1>1, <1>2, WithoutOrder
<1>4. f0 \in [1..n -> kept] /\ Ordered(f0)
  BY <1>3
<1>5. w = [k \in DOMAIN f0 |-> v3[f0[k]]]
  BY DEF CR!Without
<1>6. n \in Nat
  BY <1>0, <1>3, FS_CardinalityType
<1> HIDE DEF f0, n
<1>7. \A a, b \in DOMAIN f0 : f0[a] = f0[b] => a = b
  <2>1. ASSUME NEW a \in DOMAIN f0, NEW b \in DOMAIN f0, f0[a] = f0[b], a # b PROVE FALSE
    <3>1. a \in Nat /\ b \in Nat /\ f0[a] \in Nat
      BY <1>1, <1>4, <1>6
    <3>2. a < b \/ b < a
      BY <2>1, <3>1
    <3>3. f0[a] < f0[b] \/ f0[b] < f0[a]
      BY <1>4, <3>2
    <3> QED
      BY <2>1, <3>1, <3>3
  <2> QED
    BY <2>1
<1>8. \A x \in kept : \E a \in DOMAIN f0 : f0[a] = x
  BY <1>0, <1>3, <1>4, <1>7, ReachesAll
<1>9. w \in [1..n -> CR!AnyEntry]
  BY <1>1, <1>4, <1>5
<1>10. w \in Seq(CR!AnyEntry)
  BY <1>6, <1>9, SeqDef
<1>11. \A k \in DOMAIN w : f0[k] \in kept /\ w[k] = v3[f0[k]]
  BY <1>4, <1>5
<1>12. CR!Once(w)
  BY <1>5, <1>7, <1>11 DEF CR!Once
<1>13. \A l \in DOMAIN v3 : v3[l].id # i => \E k \in DOMAIN w : w[k] = v3[l]
  BY <1>5, <1>8
<1> QED
  BY <1>10, <1>11, <1>12, <1>13

(* The entries of the rows: finitely many, each of one id.                 *)
LEMMA EntryIs ==
  ASSUME CR!RowsFit
  PROVE  /\ \A i \in CR!Ids : v6[i] \in CR!AnyRow
         /\ \A i, r : CR!Entry(i, r).id = i
         /\ \A i \in CR!Ids : v6[i] # CR!NoRow => CR!Entry(i, v6[i]) \in CR!AnyEntry
         /\ \A e \in CR!Entries : /\ e.id \in CR!Ids /\ v6[e.id] # CR!NoRow
                                  /\ e = CR!Entry(e.id, v6[e.id]) /\ e \in CR!AnyEntry
         /\ \A i \in CR!Ids : v6[i] # CR!NoRow => CR!Entry(i, v6[i]) \in CR!Entries
<1>1. \A i \in CR!Ids : v6[i] \in CR!AnyRow
  BY DEF CR!RowsFit
<1>2. \A i, r : CR!Entry(i, r).id = i
  BY DEF CR!Entry
<1>3. ASSUME NEW i \in CR!Ids, v6[i] # CR!NoRow
      PROVE  CR!Entry(i, v6[i]) \in CR!AnyEntry
  <2>1. /\ v6[i].label \in Nat \ {0} /\ v6[i].token \in Nat
    BY <1>1, <1>3 DEF CR!RowsFit, CR!AnyRow, CR!Is
  <2> QED
    BY <2>1 DEF CR!Entry, CR!AnyEntry
<1>4. ASSUME NEW e \in CR!Entries
      PROVE  /\ e.id \in CR!Ids /\ v6[e.id] # CR!NoRow
             /\ e = CR!Entry(e.id, v6[e.id]) /\ e \in CR!AnyEntry
  <2>1. PICK i \in CR!Ids : v6[i] # CR!NoRow /\ e = CR!Entry(i, v6[i])
    BY <1>4 DEF CR!Entries, CR!Is
  <2> QED
    BY <1>2, <1>3, <2>1
<1>5. \A i \in CR!Ids : v6[i] # CR!NoRow => CR!Entry(i, v6[i]) \in CR!Entries
  BY DEF CR!Entries, CR!Is
<1> QED
  BY <1>1, <1>2, <1>3, <1>4, <1>5

LEMMA EntriesFinite ==
  ASSUME CredentialAssumptions, CR!RowsFit
  PROVE  IsFiniteSet(CR!Entries)
<1> DEFINE E == CR!Entries
           N == CR!Ids
           f == [e \in E |-> e.id]
<1>1. IsFiniteSet(N)
  BY FS_Interval DEF CR!Ids, CredentialAssumptions
<1>2. \A e \in E : e.id \in N /\ e = CR!Entry(e.id, v6[e.id])
  BY EntryIs
<1> HIDE DEF E, N
<1>3. f \in [E -> N] /\ \A a, b \in E : f[a] = f[b] => a = b
  BY <1>2
<1>4. f \in Injection(E, N)
  BY <1>3 DEF Injection, IsInjective
<1> HIDE DEF f
<1> QED
  BY <1>1, <1>4, FS_Injection DEF E

(* listForUser gives each of them once.                                    *)
LEMMA OrderIs ==
  ASSUME CredentialAssumptions, CR!RowsFit, NEW s, s = CR!SomeOrder(CR!Entries)
  PROVE  /\ s \in Seq(CR!AnyEntry) /\ CR!Once(s)
         /\ {s[k] : k \in DOMAIN s} = CR!Entries
<1> DEFINE E == CR!Entries
           n == CR!Cardinality(E)
           Apart(f) == \A i, j \in DOMAIN f : f[i] = f[j] => i = j
<1>1. n = Cardinality(E)
  BY CredentialCounts
<1>2. IsFiniteSet(E) /\ \A e \in E : e = CR!Entry(e.id, v6[e.id]) /\ e \in CR!AnyEntry
  BY EntriesFinite, EntryIs
<1>3. s = CHOOSE f \in [1..n -> E] : Apart(f)
  BY DEF CR!SomeOrder
<1> HIDE DEF E, n
<1>4. n \in Nat /\ ExistsBijection(1..n, E)
  BY <1>1, <1>2, FS_CardinalityType
<1>5. \E f \in [1..n -> E] : Apart(f)
  BY <1>4 DEF ExistsBijection, Bijection, Injection, IsInjective
<1>6. s \in [1..n -> E] /\ Apart(s)
  BY <1>3, <1>5
<1>7. \A x \in E : \E a \in DOMAIN s : s[a] = x
  <2>1. s \in [1..Cardinality(E) -> E] /\ IsFiniteSet(E)
    BY <1>1, <1>2, <1>6
  <2>2. \A a, b \in DOMAIN s : s[a] = s[b] => a = b
    BY <1>6
  <2> QED
    BY <2>1, <2>2, ReachesAll
<1>8. {s[k] : k \in DOMAIN s} = E
  BY <1>6, <1>7
<1>9. CR!Once(s)
  <2>1. \A k \in DOMAIN s : s[k] = CR!Entry(s[k].id, v6[s[k].id])
    BY <1>2, <1>6
  <2> QED
    BY <1>6, <2>1 DEF CR!Once
<1>10. s \in [1..n -> CR!AnyEntry]
  BY <1>2, <1>6
<1>11. s \in Seq(CR!AnyEntry)
  BY <1>4, <1>10, SeqDef
<1> QED
  BY <1>8, <1>9, <1>11 DEF E

(* A list of each of them once is as long as they are many.                *)
LEMMA CacheTrue ==
  ASSUME CredentialAssumptions, CR!CacheInv
  PROVE  CR!CredentialsAreTrue /\ CR!PickedIsListed
<1>1. CR!PickedIsListed
  BY CacheParts DEF CR!PageFits, CR!Known, CR!Lists, CR!PickedIsListed
<1>2. ASSUME v8 = {}, v2 = "ready", ~v9
      PROVE  {v3[k] : k \in DOMAIN v3} = CR!Entries /\ Len(v3) = CR!Cardinality(CR!Entries)
  <2>1. /\ \A k \in DOMAIN v3 : CR!Fixed(k)
        /\ \A i \in CR!Ids : CR!Is(i) => CR!Lists(i) \/ CR!Owed(i)
    BY <1>2, CacheParts DEF CR!Cached
  <2>2. DOMAIN v3 = 1..Len(v3) /\ Len(v3) \in Nat /\ \A k \in DOMAIN v3 : v3[k].id \in CR!Ids
    <3>1. v3 \in Seq(CR!AnyEntry)
      BY CacheParts DEF CR!ListFits
    <3>2. \A e \in CR!AnyEntry : e.id \in CR!Ids
      BY DEF CR!AnyEntry
    <3> QED
      BY <3>1, <3>2, SeqElements
  <2>3. \A k \in DOMAIN v3 : /\ v6[v3[k].id] # CR!NoRow
                             /\ v3[k] = CR!Entry(v3[k].id, v6[v3[k].id]) /\ v3[k] \in CR!Entries
    BY <1>2, <2>1, <2>2, CacheParts, EntryIs DEF CR!Fixed, CR!Is
  <2>4. ASSUME NEW e \in CR!Entries PROVE \E k \in DOMAIN v3 : v3[k] = e
    <3>1. e.id \in CR!Ids /\ CR!Is(e.id) /\ e = CR!Entry(e.id, v6[e.id])
      BY CacheParts, EntryIs DEF CR!Is
    <3>2. PICK k \in DOMAIN v3 : v3[k].id = e.id
      BY <1>2, <2>1, <3>1 DEF CR!Lists, CR!Owed
    <3> QED
      BY <2>3, <3>1, <3>2
  <2>5. {v3[k] : k \in DOMAIN v3} = CR!Entries
    BY <2>3, <2>4
  <2> DEFINE E == CR!Entries
             f == [k \in 1..Len(v3) |-> v3[k]]
  <2>6. \A i, j \in DOMAIN v3 : v3[i] = v3[j] => i = j
    BY CacheParts DEF CR!ListFits, CR!Once
  <2> HIDE DEF E
  <2>7. f \in [1..Len(v3) -> E] /\ (\A i, j \in 1..Len(v3) : f[i] = f[j] => i = j)
        /\ \A e \in E : \E k \in 1..Len(v3) : f[k] = e
    BY <2>2, <2>3, <2>4, <2>6 DEF E
  <2>8. f \in Bijection(1..Len(v3), E)
    BY <2>7 DEF Bijection, Injection, Surjection, IsInjective
  <2> HIDE DEF f
  <2>9. ExistsBijection(1..Len(v3), E)
    BY <2>8 DEF ExistsBijection
  <2>10. Cardinality(E) = Len(v3)
    BY <2>2, <2>9, FS_CountingElements
  <2> QED
    BY <2>5, <2>10, CredentialCounts DEF E
<1> QED
  BY <1>1, <1>2 DEF CR!CredentialsAreTrue

LEMMA CacheInit ==
  ASSUME CredentialAssumptions, CR!Init PROVE CR!CacheInv
<1>1. v3 = <<>> /\ v8 = {} /\ v5 = 0 /\ v4 = CR!Closed /\ v1 = "away" /\ v2 = "idle" /\ v10 = 2
  BY DEF CR!Init
<1>2. CR!ListFits
  BY <1>1, EmptySeq DEF CR!ListFits, CR!Once
<1>3. /\ CR!Closed \in CR!AnyDialog /\ CR!Closed.id = 0 /\ ~CR!Closed.open
  BY DEF CR!Closed, CR!AnyDialog
<1>4. CR!PageFits
  BY <1>1, <1>3 DEF CR!PageFits
<1>5. CR!RowsFit
  <2> DEFINE r == [label |-> 2, token |-> 1, by |-> 1]
  <2>1. /\ v7 \in {0, 1}
        /\ v6 = [i \in CR!Ids |-> IF i <= v7 THEN r ELSE CR!NoRow]
    BY DEF CR!Init
  <2>2. r \in CR!AnyRow /\ CR!NoRow \in CR!AnyRow /\ r.label # 0
    BY DEF CR!AnyRow, CR!NoRow
  <2> HIDE DEF r
  <2> QED
    BY <2>1, <2>2 DEF CR!RowsFit, CR!Is
<1> QED
  BY <1>1, <1>2, <1>4, <1>5 DEF CR!CacheInv, CR!Cached

(* What a request under way is.                                            *)
LEMMA CacheCall ==
  ASSUME CR!CacheInv, NEW c \in v8
  PROVE  /\ c \in CR!AnyCall /\ CR!AnswerFits(c)
         /\ c.kind \in {"load", "create", "update", "remove"} /\ c.id \in CR!Ids \cup {0}
         /\ c.answer \in CR!AnyAnswer /\ c.answer.ok \in BOOLEAN
         /\ c.answer.list \in Seq(CR!AnyEntry)
         /\ c.kind = "load" => v8 = {c}
         /\ (c.kind \in {"update", "remove"}) <=> c.id # 0
         /\ c.id # 0 => /\ c.id <= v7 /\ (v6[c.id] # CR!NoRow => CR!Lists(c.id))
                        /\ \A d \in v8 : d.id = c.id => d = c
         /\ c.kind \in {"create", "update"} => c.label # 0
         /\ c.from = "modal" => c.kind = "create"
<1>1. CR!CallFits(c)
  BY CacheParts
<1> QED
  BY <1>1 DEF CR!CallFits, CR!AnyCall, CR!AnyAnswer, CR!Changes, CR!Known, CR!Is

(* A step of the page leaves what the requests are about.                  *)
LEMMA CachePages ==
  ASSUME CR!CacheInv, UNCHANGED <<v2, v3, v6, v7, v8, v9>>, CR!PageFits'
  PROVE  CR!CacheInv'
<1>1. CR!RowsFit' /\ CR!ListFits'
  BY CacheParts DEF CR!RowsFit, CR!ListFits, CR!Is
<1>2. CR!Cached'
  BY CacheParts DEF CR!Cached, CR!Fixed, CR!Lists, CR!Is, CR!Owed, CR!MadeBy
<1>3. ASSUME NEW c \in v8 PROVE CR!CallFits(c)'
  <2>1. CR!CallFits(c)
    BY CacheParts
  <2>2. CR!AnswerFits(c)' <=> CR!AnswerFits(c)
    BY DEF CR!AnswerFits, CR!Is, CR!Lists, CR!MadeBy, CR!Entries
  <2> QED
    BY <2>1, <2>2 DEF CR!CallFits, CR!Changes, CR!Known, CR!Is, CR!Lists
<1> QED
  BY <1>1, <1>2, <1>3 DEF CR!CacheInv

(* A request is made: it is not answered yet.                              *)
LEMMA CacheAsked ==
  ASSUME CR!CacheInv, UNCHANGED <<v3, v6, v7, v9>>, CR!PageFits',
         v2' = v2 \/ v2' = "loading",
         NEW e \in CR!AnyCall, v8' = v8 \cup {e},
         ~e.answer.ok, e.read = CR!NoRow,
         e.kind = "load" => v8 = {},
         e.kind # "load" => \A d \in v8 : d.kind # "load" /\ (e.id # 0 => d.id # e.id),
         (e.kind \in {"update", "remove"}) <=> e.id # 0,
         e.id # 0 => CR!Known(e.id),
         e.kind \in {"create", "update"} => e.label # 0,
         e.from = "modal" => e.kind = "create"
  PROVE  CR!CacheInv'
<1>1. CR!RowsFit' /\ CR!ListFits'
  BY CacheParts DEF CR!RowsFit, CR!ListFits, CR!Is
<1>2. CR!Cached'
  <2>1. \A k \in DOMAIN v3 : CR!Fixed(k) => CR!Fixed(k)'
    BY DEF CR!Fixed, CR!Is
  <2>2. \A i \in CR!Ids : /\ CR!Owed(i) => CR!Owed(i)'
                          /\ CR!Lists(i)' = CR!Lists(i) /\ CR!Is(i)' = CR!Is(i)
    BY DEF CR!Owed, CR!MadeBy, CR!Lists, CR!Is
  <2>3. v2' = "ready" => v2 = "ready"
    OBVIOUS
  <2> QED
    BY <2>1, <2>2, <2>3, CacheParts DEF CR!Cached
<1>3. ASSUME NEW c \in v8 PROVE CR!CallFits(c)'
  <2>1. CR!CallFits(c) /\ c.kind \in {"load", "create", "update", "remove"}
    BY CacheParts, CacheCall
  <2>2. c.kind # "load" /\ (e.id # 0 => c.id # e.id)
    BY <2>1
  <2>3. CR!AnswerFits(c)'
    <3>1. \A i, d : CR!MadeBy(i, d)' = CR!MadeBy(i, d)
      BY DEF CR!MadeBy
    <3>2. \A i : ~CR!MadeBy(i, e)
      BY DEF CR!MadeBy
    <3> QED
      BY <2>1, <3>1, <3>2 DEF CR!CallFits, CR!AnswerFits, CR!Is, CR!Lists, CR!Entries
  <2>4. CR!Changes(c) => c.id # 0 /\ c.id # e.id
    BY <2>1, <2>2 DEF CR!CallFits
  <2> QED
    BY <2>1, <2>2, <2>3, <2>4 DEF CR!CallFits, CR!Changes, CR!Known, CR!Is, CR!Lists
<1>4. CR!CallFits(e)'
  <2>1. CR!AnswerFits(e)'
    BY DEF CR!AnswerFits, CR!AnyCall
  <2>2. CR!Known(e.id)' <=> CR!Known(e.id)
    BY DEF CR!Known, CR!Is, CR!Lists
  <2>3. e.kind = "load" => v8' = {e}
    OBVIOUS
  <2>4. e.id # 0 => \A d \in v8' : d.id = e.id => d = e
    OBVIOUS
  <2> QED
    BY <2>1, <2>2, <2>3, <2>4 DEF CR!CallFits, CR!Changes
<1> QED
  BY <1>1, <1>2, <1>3, <1>4 DEF CR!CacheInv

(* A request is handled or fails: t is the credential it writes, or 0.     *)
LEMMA CacheAnswered ==
  ASSUME CR!CacheInv, NEW c \in v8, NEW e \in CR!AnyCall, NEW t,
         UNCHANGED <<v1, v2, v3, v4, v5, v10>>, v8' = (v8 \ {c}) \cup {e},
         e.kind = c.kind, e.id = c.id, e.from = c.from, e.label = c.label,
         CR!RowsFit', v7 <= v7',
         t = c.id \/ (c.kind = "create" /\ t = v7 + 1),
         \A i \in CR!Ids : i # t => v6'[i] = v6[i],
         \A i \in CR!Ids : i <= v7 /\ v6'[i] # CR!NoRow => v6[i] # CR!NoRow,
         \A i \in CR!Ids : i > v7 /\ v6'[i] # CR!NoRow => CR!MadeBy(i, e)',
         (c.answer.ok /\ c.kind # "load") \/ v9 => v9',
         c.id \in CR!Ids => v6'[c.id] = v6[c.id] \/ e.answer.ok,
         e.kind = "create" /\ e.answer.ok =>
           t = v7 + 1 /\ e.answer.list = <<CR!Entry(t, v6'[t])>>,
         CR!AnswerFits(e)'
  PROVE  CR!CacheInv'
<1>1. v7 \in Nat /\ v7' \in Nat /\ CR!Ids \subseteq Nat /\ 0 \notin CR!Ids
      /\ \A i \in CR!Ids : v6[i] # CR!NoRow => i <= v7
  BY CacheParts DEF CR!RowsFit, CR!Ids, CR!Is
<1>0. /\ v3 \in Seq(CR!AnyEntry) /\ CR!Once(v3)
      /\ \A k \in DOMAIN v3 : v3[k].id \in CR!Ids /\ v3[k].id <= v7
  <2>1. v3 \in Seq(CR!AnyEntry) /\ CR!Once(v3) /\ \A k \in DOMAIN v3 : v3[k].id <= v7
    BY CacheParts DEF CR!ListFits
  <2>2. \A x \in CR!AnyEntry : x.id \in CR!Ids
    BY DEF CR!AnyEntry
  <2> QED
    BY <2>1, <2>2, SeqElements
<1>2. CR!ListFits'
  <2>1. ASSUME NEW k \in DOMAIN v3 PROVE v3[k].id <= v7'
    <3>1. v3[k].id \in Nat /\ v3[k].id <= v7
      BY <1>0, <1>1
    <3> QED
      BY <1>1, <3>1
  <2>2. v3' = v3 /\ CR!Once(v3)' /\ v3' \in Seq(CR!AnyEntry)
    BY <1>0 DEF CR!Once
  <2> QED
    BY <2>1, <2>2 DEF CR!ListFits
<1>3. \A i : CR!Lists(i)' <=> CR!Lists(i)
  BY DEF CR!Lists
<1>4. ASSUME NEW i \in CR!Ids, CR!Known(i) PROVE CR!Known(i)'
  <2>1. i \in Nat /\ i <= v7 /\ (v6[i] # CR!NoRow => CR!Lists(i))
    BY <1>1, <1>4 DEF CR!Known, CR!Is
  <2>2. i <= v7' /\ (v6'[i] # CR!NoRow => CR!Lists(i)')
    BY <1>1, <1>3, <2>1
  <2> QED
    BY <2>2 DEF CR!Known, CR!Is
<1>5. CR!PageFits'
  BY <1>4, CacheParts DEF CR!PageFits, CR!AnyDialog
<1>6. c.id \in CR!Ids => c.id <= v7 /\ (v6[c.id] # CR!NoRow => CR!Lists(c.id))
                         /\ \A d \in v8 : d.id = c.id => d = c
  BY <1>1, CacheCall
<1>7. c.kind = "create" => c.id = 0
  BY CacheCall
<1>8. \A i, d : CR!MadeBy(i, d)' <=>
        /\ d.kind = "create" /\ d.answer.ok
        /\ d.answer.list = <<CR!Entry(i, v6'[i])>>
  BY DEF CR!MadeBy, CR!Entry
<1>9. ASSUME NEW i \in CR!Ids, v6[i] # CR!NoRow, ~CR!Lists(i)
      PROVE  i # t /\ v6'[i] = v6[i]
  BY <1>1, <1>6, <1>9
<1>10. ASSUME NEW d \in v8, d # c
       PROVE  CR!CallFits(d)'
  <2>1. CR!CallFits(d) /\ d.kind # "load" /\ CR!AnswerFits(d) /\ d \in CR!AnyCall
    BY <1>10, CacheParts, CacheCall DEF CR!CallFits
  <2>2. d.id # 0 => d.id \in CR!Ids /\ d.id <= v7 /\ d.id # t /\ v6'[d.id] = v6[d.id]
    <3>1. d.id \in CR!Ids \cup {0} /\ (d.id # 0 => d.id <= v7 /\ (c.id = d.id => c = d))
      BY CacheCall
    <3> QED
      BY <1>1, <1>10, <3>1
  <2>3. CR!Changes(d) => CR!Known(d.id)' /\ \A x \in v8' : x.id = d.id => x = d
    BY <1>4, <1>10, <2>1, <2>2 DEF CR!CallFits
  <2>4. ASSUME d.kind = "create", d.answer.ok
        PROVE  \E i \in CR!Ids : CR!Is(i)' /\ ~CR!Lists(i)' /\ CR!MadeBy(i, d)'
                                 /\ \A x \in v8' : CR!MadeBy(i, x)' => x = d
    <3>1. PICK i \in CR!Ids : v6[i] # CR!NoRow /\ ~CR!Lists(i) /\ CR!MadeBy(i, d)
                              /\ \A x \in v8 : CR!MadeBy(i, x) => x = d
      BY <2>1, <2>4 DEF CR!AnswerFits, CR!Is
    <3>2. i # t /\ v6'[i] = v6[i] /\ \A x : CR!MadeBy(i, x)' <=> CR!MadeBy(i, x)
      BY <1>8, <1>9, <3>1 DEF CR!MadeBy
    <3>3. ~CR!MadeBy(i, e)'
      <4>1. ASSUME CR!MadeBy(i, e)' PROVE FALSE
        <5>1. <<CR!Entry(i, v6'[i])>> = <<CR!Entry(t, v6'[t])>>
          BY <1>8, <4>1
        <5>2. CR!Entry(i, v6'[i]) = CR!Entry(t, v6'[t])
          BY <5>1
        <5>3. \A j, r : CR!Entry(j, r).id = j
          BY DEF CR!Entry
        <5> QED
          BY <3>2, <5>2, <5>3
      <4> QED
        BY <4>1
    <3> QED
      BY <1>3, <3>1, <3>2, <3>3 DEF CR!Is
  <2>5. CR!AnswerFits(d)'
    <3>1. d.kind \in {"update", "remove"} => d.id # 0
      BY <2>1, CacheCall
    <3> QED
      BY <2>1, <2>2, <2>4, <3>1 DEF CR!AnswerFits, CR!Is
  <2> QED
    BY <2>1, <2>3, <2>5 DEF CR!CallFits, CR!Changes
<1>11. CR!CallFits(e)'
  <2>1. CR!CallFits(c)
    BY CacheParts
  <2>2. e.kind = "load" => v8' = {e}
    BY <2>1 DEF CR!CallFits
  <2>3. e.id # 0 => e.id \in CR!Ids /\ CR!Known(e.id)' /\ \A d \in v8' : d.id = e.id => d = e
    <3>1. c.id \in CR!Ids \cup {0} /\ (c.id # 0 => CR!Known(c.id))
      BY CacheCall DEF CR!Known, CR!Is
    <3> QED
      BY <1>4, <1>6, <3>1
  <2> QED
    BY <2>1, <2>2, <2>3 DEF CR!CallFits, CR!Changes
<1>12. CR!Cached'
  <2>1. ASSUME v2' = "ready", ~v9'
        PROVE  (\A k \in DOMAIN v3' : CR!Fixed(k)')
               /\ \A i \in CR!Ids : CR!Is(i)' => CR!Lists(i)' \/ CR!Owed(i)'
    <3>1. /\ \A k \in DOMAIN v3 : CR!Fixed(k)
          /\ \A i \in CR!Ids : CR!Is(i) => CR!Lists(i) \/ CR!Owed(i)
          /\ c.answer.ok => c.kind = "load"
      BY <2>1, CacheParts DEF CR!Cached
    <3>2. ASSUME NEW k \in DOMAIN v3 PROVE CR!Fixed(k)'
      <4> DEFINE i == v3[k].id
      <4>1. i \in CR!Ids /\ i <= v7
        BY <1>0
      <4>2. CR!Fixed(k)' <=> \/ v6'[i] # CR!NoRow /\ v3[k] = CR!Entry(i, v6'[i])
                             \/ \E x \in v8' : x.id = i /\ x.answer.ok
        BY DEF CR!Fixed, CR!Is, CR!Entry
      <4>3. \/ v6[i] # CR!NoRow /\ v3[k] = CR!Entry(i, v6[i])
            \/ \E x \in v8 : x.id = i /\ x.answer.ok
        BY <3>1 DEF CR!Fixed, CR!Is
      <4> HIDE DEF i
      <4>4. CASE v6'[i] = v6[i]
        <5>1. ASSUME NEW x \in v8, x.id = i, x.answer.ok PROVE x # c
          BY <1>1, <3>1, <4>1, <5>1, CacheCall
        <5> QED
          BY <4>2, <4>3, <4>4, <5>1
      <4>5. CASE v6'[i] # v6[i]
        <5>1. i = c.id /\ e.answer.ok
          BY <1>1, <4>1, <4>5
        <5> QED
          BY <4>2, <5>1
      <4> QED
        BY <4>4, <4>5
    <3>3. ASSUME NEW i \in CR!Ids, v6'[i] # CR!NoRow, ~CR!Lists(i)
          PROVE  \E x \in v8' : CR!MadeBy(i, x)'
      <4>1. CASE i > v7
        BY <3>3, <4>1
      <4>2. CASE i <= v7
        <5>1. v6[i] # CR!NoRow /\ v6'[i] = v6[i]
          BY <1>9, <3>3, <4>2
        <5>2. PICK x \in v8 : CR!MadeBy(i, x)
          BY <3>1, <3>3, <5>1 DEF CR!Owed, CR!Is
        <5>3. x # c
          BY <3>1, <5>2 DEF CR!MadeBy
        <5> QED
          BY <1>8, <5>1, <5>2, <5>3 DEF CR!MadeBy
      <4> QED
        BY <1>1, <4>1, <4>2
    <3> QED
      BY <1>3, <3>2, <3>3 DEF CR!Owed, CR!Is
  <2> QED
    BY <2>1 DEF CR!Cached
<1> QED
  BY <1>2, <1>5, <1>10, <1>11, <1>12 DEF CR!CacheInv

(* The steps of the page.                                                  *)
LEMMA CachePage ==
  ASSUME CR!CacheInv, UNCHANGED <<v3, v6, v7>>,
         v1' \in {"away", "panel", "modal"}, v10' \in Nat \ {0},
         v4' \in CR!AnyDialog, v4'.open => v4'.n # 0,
         v4'.id # 0 => CR!Known(v4'.id), v1' = "modal" => v4'.id = 0,
         v5' # 0 => v5' \in CR!Ids /\ CR!Known(v5')
  PROVE  CR!PageFits'
<1>1. \A i : CR!Known(i)' <=> CR!Known(i)
  BY DEF CR!Known, CR!Is, CR!Lists
<1> QED
  BY <1>1 DEF CR!PageFits, CR!AnyDialog

LEMMA CachePageParts ==
  ASSUME CR!CacheInv
  PROVE  /\ v1 \in {"away", "panel", "modal"} /\ v10 \in Nat \ {0}
         /\ v4 \in CR!AnyDialog /\ (v4.open => v4.n # 0)
         /\ v4.open \in BOOLEAN /\ v4.id \in CR!Ids \cup {0} /\ v4.label \in Nat \ {0}
         /\ v4.token \in Nat /\ v4.saving \in BOOLEAN /\ v4.n \in Nat
         /\ (v4.id # 0 => CR!Known(v4.id)) /\ (v1 = "modal" => v4.id = 0)
         /\ (v5 # 0 => v5 \in CR!Ids /\ CR!Known(v5))
         /\ v3 \in Seq(CR!AnyEntry)
         /\ \A k \in DOMAIN v3 : v3[k].id \in CR!Ids /\ v3[k].label \in Nat \ {0}
                                 /\ v3[k] \in CR!AnyEntry /\ CR!Known(v3[k].id)
<1>1. CR!PageFits /\ CR!ListFits
  BY CacheParts
<1>2. v3 \in Seq(CR!AnyEntry)
  BY <1>1 DEF CR!ListFits
<1>3. \A e \in CR!AnyEntry : e.id \in CR!Ids /\ e.label \in Nat \ {0}
  BY DEF CR!AnyEntry
<1>4. \A k \in DOMAIN v3 : v3[k] \in CR!AnyEntry
  BY <1>2, SeqElements
<1>5. \A k \in DOMAIN v3 : CR!Known(v3[k].id)
  BY <1>1 DEF CR!ListFits, CR!Known, CR!Lists
<1> QED
  BY <1>1, <1>2, <1>3, <1>4, <1>5 DEF CR!PageFits, CR!AnyDialog

LEMMA CallIs ==
  ASSUME NEW kind \in {"load", "create", "update", "remove"}, NEW i \in CR!Ids \cup {0},
         NEW from \in {"store", "away", "panel", "modal"}, v10 \in Nat,
         NEW c, c = CR!Call(kind, i, from)
  PROVE  /\ c \in CR!AnyCall /\ c.kind = kind /\ c.id = i /\ c.from = from
         /\ ~c.answer.ok /\ c.read = CR!NoRow
<1>1. CR!Waiting \in CR!AnyAnswer /\ ~CR!Waiting.ok
  BY EmptySeq DEF CR!Waiting, CR!AnyAnswer
<1>2. CR!NoRow \in CR!AnyRow
  BY DEF CR!NoRow, CR!AnyRow
<1> QED
  BY <1>1, <1>2 DEF CR!Call, CR!AnyCall

LEMMA CacheLoads ==
  ASSUME CR!CacheInv, CR!Load, UNCHANGED <<v3, v6, v7, v9>>, CR!PageFits'
  PROVE  CR!CacheInv'
<1>1. PICK e : e = CR!Call("load", 0, "store")
  OBVIOUS
<1>2. /\ e \in CR!AnyCall /\ e.kind = "load" /\ e.id = 0 /\ e.from = "store"
      /\ ~e.answer.ok /\ e.read = CR!NoRow
  BY <1>1, CachePageParts, CallIs
<1>3. v8 = {} /\ v2' = "loading" /\ v8' = v8 \cup {e}
  BY <1>1 DEF CR!Load, CR!HasRoom
<1> QED
  BY <1>2, <1>3, CacheAsked

LEMMA CacheVisits ==
  ASSUME CR!CacheInv, CR!OpenPanel \/ CR!OpenModal
  PROVE  CR!CacheInv'
<1>1. CR!Closed \in CR!AnyDialog /\ CR!Closed.id = 0 /\ ~CR!Closed.open
  BY DEF CR!Closed, CR!AnyDialog
<1>2. /\ v4' = CR!Closed /\ (v5' = v5 \/ v5' = 0) /\ v1' \in {"panel", "modal"}
      /\ UNCHANGED <<v3, v6, v7, v9, v10>> /\ (CR!Load \/ UNCHANGED <<v2, v8>>)
  BY DEF CR!OpenPanel, CR!OpenModal
<1>3. CR!PageFits'
  BY <1>1, <1>2, CachePageParts, CachePage
<1> QED
  BY <1>2, <1>3, CacheLoads, CachePages

(* Leaving the panel: what its requests are about stays.                   *)
LEMMA CacheLeaves ==
  ASSUME CR!CacheInv, CR!Leave
  PROVE  CR!CacheInv'
<1>1. /\ v1' = "away" /\ v5' = 0 /\ UNCHANGED <<v2, v3, v4, v6, v7, v9, v10>>
      /\ v8' = {IF c.from = "panel" THEN [c EXCEPT !.from = "store"] ELSE c : c \in v8}
  BY DEF CR!Leave
<1>2. CR!PageFits'
  BY <1>1, CachePageParts, CachePage
<1>3. ASSUME NEW c \in v8
      PROVE  \E d \in v8' : /\ d \in CR!AnyCall /\ d.kind = c.kind /\ d.id = c.id
                            /\ d.read = c.read /\ d.answer = c.answer
  <2>1. c \in CR!AnyCall
    BY CacheCall
  <2>2. [c EXCEPT !.from = "store"] \in CR!AnyCall
    BY <2>1 DEF CR!AnyCall
  <2> QED
    BY <1>1, <2>1, <2>2 DEF CR!AnyCall
<1>4. ASSUME NEW d \in v8'
      PROVE  \E c \in v8 : /\ d = (IF c.from = "panel" THEN [c EXCEPT !.from = "store"] ELSE c)
                           /\ d \in CR!AnyCall /\ d.kind = c.kind /\ d.id = c.id
                           /\ d.label = c.label /\ d.read = c.read /\ d.answer = c.answer
                           /\ (d.from = c.from \/ d.from = "store")
  <2>1. PICK c \in v8 : d = (IF c.from = "panel" THEN [c EXCEPT !.from = "store"] ELSE c)
    BY <1>1
  <2>2. c \in CR!AnyCall
    BY CacheCall
  <2>3. [c EXCEPT !.from = "store"] \in CR!AnyCall
    BY <2>2 DEF CR!AnyCall
  <2> QED
    BY <2>1, <2>2, <2>3 DEF CR!AnyCall
<1>5. CR!RowsFit' /\ CR!ListFits'
  BY <1>1, CacheParts DEF CR!RowsFit, CR!ListFits, CR!Is
<1>6. CR!Cached'
  <2>1. ASSUME NEW k \in DOMAIN v3, CR!Fixed(k) PROVE CR!Fixed(k)'
    <3>1. CASE \E c \in v8 : c.id = v3[k].id /\ c.answer.ok
      <4>1. PICK c \in v8 : c.id = v3[k].id /\ c.answer.ok
        BY <3>1
      <4>2. PICK d \in v8' : d.id = c.id /\ d.answer = c.answer
        BY <1>3
      <4> QED
        BY <1>1, <4>1, <4>2 DEF CR!Fixed
    <3> QED
      BY <1>1, <2>1, <3>1 DEF CR!Fixed, CR!Is
  <2>2. ASSUME NEW i \in CR!Ids, CR!Owed(i) PROVE CR!Owed(i)'
    <3>1. PICK c \in v8 : CR!MadeBy(i, c)
      BY <2>2 DEF CR!Owed
    <3>2. PICK d \in v8' : d.kind = c.kind /\ d.answer = c.answer
      BY <1>3
    <3>3. CR!MadeBy(i, d)'
      BY <1>1, <3>1, <3>2 DEF CR!MadeBy
    <3> QED
      BY <3>3 DEF CR!Owed
  <2>3. \A i \in CR!Ids : (CR!Lists(i)' <=> CR!Lists(i)) /\ (CR!Is(i)' <=> CR!Is(i))
    BY <1>1 DEF CR!Lists, CR!Is
  <2> QED
    BY <1>1, <2>1, <2>2, <2>3, CacheParts DEF CR!Cached
<1>7. ASSUME NEW d \in v8' PROVE CR!CallFits(d)'
  <2>1. PICK c \in v8 : /\ d = (IF c.from = "panel" THEN [c EXCEPT !.from = "store"] ELSE c)
                        /\ d \in CR!AnyCall /\ d.kind = c.kind /\ d.id = c.id
                        /\ d.label = c.label /\ d.read = c.read /\ d.answer = c.answer
                        /\ (d.from = c.from \/ d.from = "store")
    BY <1>4
  <2>2. ASSUME NEW x \in v8', NEW y \in v8, y = c,
               x = (IF y.from = "panel" THEN [y EXCEPT !.from = "store"] ELSE y)
        PROVE  x = d
    BY <2>1, <2>2
  <2>3. CR!CallFits(c) /\ CR!AnswerFits(c)
    BY CacheParts, CacheCall
  <2>4. d.kind = "load" => v8' = {d}
    BY <1>4, <2>1, <2>2, <2>3 DEF CR!CallFits
  <2>5. CR!Changes(d) => CR!Known(d.id)' /\ \A x \in v8' : x.id = d.id => x = d
    <3>1. CR!Known(d.id)' <=> CR!Known(c.id)
      BY <1>1, <2>1 DEF CR!Known, CR!Is, CR!Lists
    <3> QED
      BY <1>4, <2>1, <2>2, <2>3, <3>1 DEF CR!CallFits, CR!Changes
  <2>6. CR!AnswerFits(d)'
    <3>1. \A i, x, y : x.kind = y.kind /\ x.answer = y.answer =>
            (CR!MadeBy(i, x)' <=> CR!MadeBy(i, y))
      BY <1>1 DEF CR!MadeBy
    <3>2. ASSUME d.kind = "create", d.answer.ok
          PROVE  \E i \in CR!Ids : CR!Is(i)' /\ ~CR!Lists(i)' /\ CR!MadeBy(i, d)'
                                   /\ \A x \in v8' : CR!MadeBy(i, x)' => x = d
      <4>1. PICK i \in CR!Ids : CR!Is(i) /\ ~CR!Lists(i) /\ CR!MadeBy(i, c)
                                /\ \A x \in v8 : CR!MadeBy(i, x) => x = c
        BY <2>1, <2>3, <3>2 DEF CR!AnswerFits
      <4>2. ASSUME NEW x \in v8', CR!MadeBy(i, x)' PROVE x = d
        <5>1. PICK y \in v8 : /\ x = (IF y.from = "panel" THEN [y EXCEPT !.from = "store"] ELSE y)
                              /\ x.kind = y.kind /\ x.answer = y.answer
          BY <1>4
        <5>2. y = c
          BY <3>1, <4>1, <4>2, <5>1
        <5> QED
          BY <2>2, <5>1, <5>2
      <4>3. CR!MadeBy(i, d)' /\ CR!Is(i)' /\ ~CR!Lists(i)'
        BY <1>1, <2>1, <3>1, <4>1 DEF CR!Is, CR!Lists
      <4> QED
        BY <4>2, <4>3
    <3> QED
      BY <1>1, <2>1, <2>3, <3>2 DEF CR!AnswerFits, CR!Is, CR!Entries
  <2> QED
    BY <2>1, <2>3, <2>4, <2>5, <2>6 DEF CR!CallFits, CR!Changes
<1> QED
  BY <1>2, <1>5, <1>6, <1>7 DEF CR!CacheInv

LEMMA CacheDialogs ==
  ASSUME CR!CacheInv,
         \/ \E i \in CR!Ids : CR!Pick(i)
         \/ \E k \in {0} \cup CR!Ids : CR!Open(k)
         \/ \E f \in {"label", "token"} : CR!Type(f)
         \/ CR!Cancel
  PROVE  CR!CacheInv'
<1>1. ASSUME NEW i \in CR!Ids, CR!Pick(i) PROVE CR!CacheInv'
  <2>1. v5' = i /\ UNCHANGED <<v1, v2, v3, v4, v6, v7, v8, v9, v10>>
        /\ \E k \in DOMAIN v3 : v3[k].id = i
    BY <1>1 DEF CR!Pick
  <2>2. CR!PageFits'
    BY <2>1, CachePageParts, CachePage
  <2> QED
    BY <2>1, <2>2, CachePages
<1>2. ASSUME NEW k \in {0} \cup CR!Ids, CR!Open(k) PROVE CR!CacheInv'
  <2>1. /\ UNCHANGED <<v1, v2, v3, v5, v6, v7, v8, v9>> /\ v10' = v10 + 1
        /\ (v1 = "modal" => k = 0) /\ k \in {0} \cup DOMAIN v3
        /\ v4' = IF k = 0 THEN CR!Reset(TRUE, 0, 1) ELSE CR!Reset(TRUE, v3[k].id, v3[k].label)
    BY <1>2 DEF CR!Open
  <2>2. v10 \in Nat \ {0} /\ v10' \in Nat \ {0} /\ v10' # 0
    BY <2>1, CachePageParts
  <2>3. PICK d : d = v4'
    OBVIOUS
  <2>4. d \in CR!AnyDialog /\ d.id = (IF k = 0 THEN 0 ELSE v3[k].id) /\ d.n # 0
    <3>1. CASE k = 0
      <4>1. d = CR!Reset(TRUE, 0, 1)
        BY <2>1, <2>3, <3>1
      <4> QED
        BY <2>2, <3>1, <4>1 DEF CR!Reset, CR!AnyDialog
    <3>2. CASE k # 0
      <4>1. PICK i \in CR!Ids, label \in Nat \ {0} : i = v3[k].id /\ label = v3[k].label
        BY <2>1, <3>2, CachePageParts
      <4>2. d = CR!Reset(TRUE, i, label)
        BY <2>1, <2>3, <3>2, <4>1
      <4> QED
        BY <2>2, <3>2, <4>1, <4>2 DEF CR!Reset, CR!AnyDialog
    <3> QED
      BY <3>1, <3>2
  <2>5. CR!PageFits'
    BY <2>1, <2>2, <2>3, <2>4, CachePageParts, CachePage
  <2> QED
    BY <2>1, <2>5, CachePages
<1>3. ASSUME NEW f \in {"label", "token"}, CR!Type(f) PROVE CR!CacheInv'
  <2>1. /\ UNCHANGED <<v1, v2, v3, v5, v6, v7, v8, v9, v10>>
        /\ v4.open /\ v4' = [v4 EXCEPT ![f] = v4.n]
    BY <1>3 DEF CR!Type
  <2>2. v4 \in CR!AnyDialog /\ v4.n \in Nat \ {0}
    BY <2>1, CachePageParts
  <2>3. v4' \in CR!AnyDialog /\ v4'.id = v4.id /\ v4'.n = v4.n /\ v4'.open = v4.open
    BY <2>1, <2>2 DEF CR!AnyDialog
  <2>4. CR!PageFits'
    BY <2>1, <2>3, CachePageParts, CachePage
  <2> QED
    BY <2>1, <2>4, CachePages
<1>4. ASSUME CR!Cancel PROVE CR!CacheInv'
  <2>1. /\ UNCHANGED <<v1, v2, v3, v5, v6, v7, v8, v9, v10>>
        /\ v4' = CR!Reset(FALSE, v4.id, v4.label)
    BY <1>4 DEF CR!Cancel
  <2>2. PICK d : d = v4'
    OBVIOUS
  <2>3. d \in CR!AnyDialog /\ d.id = v4.id /\ ~d.open
    BY <2>1, <2>2, CachePageParts DEF CR!Reset, CR!AnyDialog
  <2>4. CR!PageFits'
    BY <2>1, <2>2, <2>3, CachePageParts, CachePage
  <2> QED
    BY <2>1, <2>4, CachePages
<1> QED
  BY <1>1, <1>2, <1>3, <1>4

LEMMA CacheRequests ==
  ASSUME CR!CacheInv, CR!Submit \/ \E k \in CR!Ids : CR!Remove(k)
  PROVE  CR!CacheInv'
<1>1. ASSUME CR!Submit PROVE CR!CacheInv'
  <2> DEFINE kind == IF v4.id = 0 THEN "create" ELSE "update"
  <2>1. PICK c : c = CR!Call(kind, v4.id, v1)
    OBVIOUS
  <2>2. PICK e : e = [c EXCEPT !.label = v4.label, !.token = v4.token, !.n = v4.n]
    OBVIOUS
  <2>3. /\ v8' = v8 \cup {e} /\ v4' = [v4 EXCEPT !.saving = TRUE] /\ CR!HasRoom(kind, v4.id)
        /\ UNCHANGED <<v1, v2, v3, v5, v6, v7, v9, v10>>
    BY <1>1, <2>1, <2>2 DEF CR!Submit
  <2>4. /\ c \in CR!AnyCall /\ c.kind = kind /\ c.id = v4.id /\ c.from = v1
        /\ ~c.answer.ok /\ c.read = CR!NoRow
    BY <2>1, CachePageParts, CallIs
  <2>5. /\ e \in CR!AnyCall /\ e.kind = kind /\ e.id = v4.id /\ e.from = v1
        /\ ~e.answer.ok /\ e.read = CR!NoRow /\ e.label = v4.label
    BY <2>2, <2>4, CachePageParts DEF CR!AnyCall
  <2>6. v4' \in CR!AnyDialog /\ v4'.id = v4.id /\ v4'.n = v4.n /\ v4'.open = v4.open
    BY <2>3, CachePageParts DEF CR!AnyDialog
  <2>7. CR!PageFits'
    BY <2>3, <2>6, CachePageParts, CachePage
  <2>8. \A d \in v8 : d.kind # "load" /\ (v4.id # 0 => d.id # v4.id)
    BY <2>3 DEF CR!HasRoom
  <2>9. (kind = "create" <=> v4.id = 0) /\ kind \in {"create", "update"}
    OBVIOUS
  <2>10. v4.label # 0 /\ (v4.id # 0 => CR!Known(v4.id)) /\ (v1 = "modal" => kind = "create")
    BY CachePageParts
  <2> HIDE DEF kind
  <2> QED
    BY <2>3, <2>5, <2>7, <2>8, <2>9, <2>10, CacheAsked
<1>2. ASSUME NEW k \in CR!Ids, CR!Remove(k) PROVE CR!CacheInv'
  <2>1. PICK e : e = CR!Call("remove", v3[k].id, v1)
    OBVIOUS
  <2>2. /\ v8' = v8 \cup {e} /\ v1 = "panel" /\ k \in DOMAIN v3
        /\ CR!HasRoom("remove", v3[k].id) /\ v10' = v10 + 1
        /\ UNCHANGED <<v1, v2, v3, v4, v5, v6, v7, v9>>
    BY <1>2, <2>1 DEF CR!Remove
  <2>3. v3[k].id \in CR!Ids /\ CR!Known(v3[k].id) /\ v3[k].id # 0
    BY <2>2, CachePageParts DEF CR!Ids
  <2>4. /\ e \in CR!AnyCall /\ e.kind = "remove" /\ e.id = v3[k].id /\ e.from = "panel"
        /\ ~e.answer.ok /\ e.read = CR!NoRow
    BY <2>1, <2>2, <2>3, CachePageParts, CallIs
  <2>5. CR!PageFits'
    BY <2>2, CachePageParts, CachePage
  <2>6. \A d \in v8 : d.kind # "load" /\ d.id # v3[k].id
    BY <2>2 DEF CR!HasRoom
  <2> QED
    BY <2>2, <2>3, <2>4, <2>5, <2>6, CacheAsked
<1> QED
  BY <1>1, <1>2

(* The steps of the server.                                                *)
LEMMA AnswerIs ==
  ASSUME NEW c \in CR!AnyCall, NEW a \in CR!AnyAnswer, NEW e, e = [c EXCEPT !.answer = a]
  PROVE  /\ e \in CR!AnyCall /\ e.kind = c.kind /\ e.id = c.id /\ e.from = c.from
         /\ e.label = c.label /\ e.read = c.read /\ e.answer = a
  BY DEF CR!AnyCall

LEMMA GivesIs ==
  /\ \A es \in Seq(CR!AnyEntry) : CR!Gives(es) \in CR!AnyAnswer
  /\ \A es : CR!Gives(es).ok /\ ~CR!Gives(es).due /\ CR!Gives(es).list = es
  /\ CR!Failed \in CR!AnyAnswer /\ ~CR!Failed.ok /\ ~CR!Failed.due
  /\ CR!Waiting.due /\ ~CR!Waiting.ok
  BY EmptySeq DEF CR!Gives, CR!Failed, CR!Waiting, CR!AnyAnswer

(* No row is written.                                                      *)
LEMMA CacheSettles ==
  ASSUME CR!CacheInv, NEW c \in v8, NEW e \in CR!AnyCall,
         UNCHANGED <<v1, v2, v3, v4, v5, v6, v7, v10>>, v8' = (v8 \ {c}) \cup {e},
         e.kind = c.kind, e.id = c.id, e.from = c.from, e.label = c.label,
         (c.answer.ok /\ c.kind # "load") \/ v9 => v9',
         e.kind = "create" => ~e.answer.ok,
         CR!AnswerFits(e)'
  PROVE  CR!CacheInv'
<1>1. CR!RowsFit'
  BY CacheParts DEF CR!RowsFit, CR!Is
<1>2. v7 <= v7' /\ \A i \in CR!Ids : i > v7 => v6[i] = CR!NoRow
  BY CacheParts DEF CR!RowsFit, CR!Is, CR!Ids
<1>3. PICK t : t = c.id
  OBVIOUS
<1> QED
  BY <1>1, <1>2, <1>3, CacheAnswered

LEMMA CacheFails ==
  ASSUME CR!CacheInv, NEW c \in v8, CR!Answers(c, CR!Failed),
         UNCHANGED <<v1, v2, v3, v4, v5, v6, v7, v10>>,
         (c.answer.ok /\ c.kind # "load") \/ v9 => v9'
  PROVE  CR!CacheInv'
<1>1. PICK e : e = [c EXCEPT !.answer = CR!Failed]
  OBVIOUS
<1>2. /\ e \in CR!AnyCall /\ e.kind = c.kind /\ e.id = c.id /\ e.from = c.from
      /\ e.label = c.label /\ e.read = c.read /\ e.answer = CR!Failed
  BY <1>1, CacheCall, GivesIs, AnswerIs
<1>3. v8' = (v8 \ {c}) \cup {e}
  BY <1>1 DEF CR!Answers
<1>4. CR!AnswerFits(c) /\ ~e.answer.ok /\ e.answer # CR!Waiting
  BY <1>2, CacheCall, GivesIs
<1>5. CR!AnswerFits(e)'
  BY <1>2, <1>4 DEF CR!AnswerFits
<1> QED
  BY <1>2, <1>3, <1>4, <1>5, CacheSettles

LEMMA CacheLists ==
  ASSUME CredentialAssumptions, CR!CacheInv, NEW c \in v8, CR!Handle(c), c.kind = "load"
  PROVE  CR!CacheInv'
<1>1. PICK s : s = CR!SomeOrder(CR!Entries)
  OBVIOUS
<1>2. PICK e : e = [c EXCEPT !.answer = CR!Gives(s)]
  OBVIOUS
<1>3. /\ UNCHANGED <<v1, v2, v3, v4, v5, v6, v7, v9, v10>> /\ v8' = (v8 \ {c}) \cup {e}
      /\ c.answer = CR!Waiting
  BY <1>1, <1>2 DEF CR!Handle, CR!Answers
<1>4. s \in Seq(CR!AnyEntry) /\ CR!Once(s) /\ {s[k] : k \in DOMAIN s} = CR!Entries
  BY <1>1, CacheParts, OrderIs
<1>5. /\ e \in CR!AnyCall /\ e.kind = c.kind /\ e.id = c.id /\ e.from = c.from
      /\ e.label = c.label /\ e.read = c.read /\ e.answer = CR!Gives(s)
  BY <1>2, <1>4, CacheCall, GivesIs, AnswerIs
<1>6. CR!AnswerFits(c) /\ ~e.answer.due /\ e.answer.list = s
  BY <1>5, CacheCall, GivesIs
<1>7. CR!Entries' = CR!Entries
  BY <1>3 DEF CR!Entries, CR!Is
<1>8. CR!AnswerFits(e)'
  BY <1>4, <1>5, <1>6, <1>7 DEF CR!AnswerFits, CR!Once
<1> QED
  BY <1>3, <1>5, <1>8, GivesIs, CacheSettles

LEMMA CacheMakes ==
  ASSUME CredentialAssumptions, CR!CacheInv, NEW c \in v8, CR!Handle(c), c.kind = "create"
  PROVE  CR!CacheInv'
<1>1. PICK t : t = v7 + 1
  OBVIOUS
<1>2. PICK r : r = [label |-> c.label, token |-> c.token, by |-> c.n]
  OBVIOUS
<1>3. PICK a : a = CR!Gives(<<CR!Entry(t, r)>>)
  OBVIOUS
<1>4. PICK e : e = [c EXCEPT !.answer = a]
  OBVIOUS
<1>5. v7 \in Nat /\ t \in Nat /\ t > v7 /\ t \in CR!Ids /\ CR!Ids \subseteq Nat
  BY <1>1, CacheParts DEF CR!Handle, CR!RowsFit, CR!Ids, CredentialAssumptions
<1>6. v6 \in [CR!Ids -> CR!AnyRow] /\ \A i \in CR!Ids : v6[i] # CR!NoRow => i <= v7 /\ v6[i].label # 0
  BY CacheParts DEF CR!RowsFit, CR!Is
<1>7. /\ UNCHANGED <<v1, v2, v3, v4, v5, v9, v10>> /\ v7' = t /\ v6' = [v6 EXCEPT ![t] = r]
      /\ c.answer = CR!Waiting
      /\ CR!Answers(c, CR!Gives(<<CR!Entry(v7', v6'[v7'])>>))
  BY <1>1, <1>2 DEF CR!Handle
<1>8. v6'[t] = r
  BY <1>5, <1>6, <1>7
<1>9. v8' = (v8 \ {c}) \cup {e}
  BY <1>3, <1>4, <1>7, <1>8 DEF CR!Answers
<1>10. r \in CR!AnyRow /\ r # CR!NoRow /\ r.label # 0 /\ r.label \in Nat
  <2>1. c.label \in Nat \ {0} /\ c.token \in Nat /\ c.n \in Nat
    BY CacheCall DEF CR!AnyCall
  <2> QED
    BY <1>2, <2>1 DEF CR!AnyRow, CR!NoRow
<1>11. CR!Entry(t, r) \in CR!AnyEntry /\ CR!Entry(t, r).id = t
  BY <1>5, <1>10 DEF CR!Entry, CR!AnyEntry, CR!AnyRow
<1>12. a \in CR!AnyAnswer /\ a.ok /\ ~a.due /\ a.list = <<CR!Entry(t, r)>>
  <2>1. <<CR!Entry(t, r)>> \in Seq(CR!AnyEntry)
    BY <1>11
  <2> QED
    BY <1>3, <2>1, GivesIs
<1>13. /\ e \in CR!AnyCall /\ e.kind = "create" /\ e.id = c.id /\ e.from = c.from
       /\ e.label = c.label /\ e.read = c.read /\ e.answer = a
  BY <1>4, <1>12, CacheCall, AnswerIs
<1>14. CR!RowsFit'
  BY <1>5, <1>6, <1>7, <1>10 DEF CR!RowsFit, CR!Is
<1>15. CR!MadeBy(t, e)'
  BY <1>8, <1>12, <1>13 DEF CR!MadeBy, CR!Entry
<1>16. ASSUME NEW d \in v8, CR!MadeBy(t, d)' PROVE FALSE
  <2>1. d.kind = "create" /\ d.answer.ok /\ d.answer.list = <<CR!Entry(t, r)>>
    BY <1>8, <1>16 DEF CR!MadeBy, CR!Entry
  <2>2. PICK i \in CR!Ids : v6[i] # CR!NoRow /\ d.answer.list = <<CR!Entry(i, v6[i])>>
    BY <2>1, CacheCall DEF CR!AnswerFits, CR!MadeBy, CR!Is
  <2>3. CR!Entry(t, r) = CR!Entry(i, v6[i])
    BY <2>1, <2>2
  <2>4. t = i
    BY <2>3 DEF CR!Entry
  <2> QED
    BY <1>5, <1>6, <2>2, <2>4
<1>17. ~CR!Lists(t)'
  BY <1>5, <1>7, CacheParts DEF CR!ListFits, CR!Lists
<1>18. CR!AnswerFits(e)'
  <2>1. \A d \in v8' : CR!MadeBy(t, d)' => d = e
    BY <1>9, <1>16
  <2>2. CR!Is(t)'
    BY <1>8, <1>10 DEF CR!Is
  <2>3. e.read # CR!NoRow => e.kind = "update"
    BY <1>13, CacheCall DEF CR!AnswerFits
  <2> QED
    BY <1>5, <1>12, <1>13, <1>15, <1>17, <2>1, <2>2, <2>3 DEF CR!AnswerFits
<1>19. /\ \A i \in CR!Ids : i # t => v6'[i] = v6[i]
       /\ \A i \in CR!Ids : i <= v7 /\ v6'[i] # CR!NoRow => v6[i] # CR!NoRow
       /\ \A i \in CR!Ids : i > v7 /\ v6'[i] # CR!NoRow => i = t
       /\ v7 <= v7' /\ c.id \notin CR!Ids
  <2>1. c.id = 0 /\ 0 \notin CR!Ids
    BY CacheCall DEF CR!Ids
  <2> QED
    BY <1>5, <1>6, <1>7, <2>1
<1>20. \A i \in CR!Ids : i > v7 /\ v6'[i] # CR!NoRow => CR!MadeBy(i, e)'
  BY <1>15, <1>19
<1>21. ~c.answer.ok
  BY <1>7, GivesIs
<1> QED
  BY <1>1, <1>7, <1>8, <1>9, <1>12, <1>13, <1>14, <1>18, <1>19, <1>20, <1>21, CacheAnswered

LEMMA CacheRemoves ==
  ASSUME CR!CacheInv, NEW c \in v8, CR!Handle(c), c.kind = "remove"
  PROVE  CR!CacheInv'
<1>1. PICK t \in CR!Ids : t = c.id
  BY CacheCall
<1>2. /\ UNCHANGED <<v1, v2, v3, v4, v5, v7, v9, v10>> /\ v6' = [v6 EXCEPT ![t] = CR!NoRow]
      /\ c.answer = CR!Waiting
      /\ CR!Answers(c, IF CR!Is(c.id) THEN CR!Gives(<<>>) ELSE CR!Failed)
  BY <1>1 DEF CR!Handle
<1>3. v6 \in [CR!Ids -> CR!AnyRow] /\ CR!Ids \subseteq Nat /\ v7 \in Nat
      /\ \A i \in CR!Ids : v6[i] # CR!NoRow => i <= v7 /\ v6[i].label # 0
  BY CacheParts DEF CR!RowsFit, CR!Is, CR!Ids
<1>4. CASE ~CR!Is(c.id)
  <2>1. v6' = v6 /\ CR!Answers(c, CR!Failed)
    BY <1>1, <1>2, <1>3, <1>4 DEF CR!Is
  <2> QED
    BY <1>2, <2>1, GivesIs, CacheFails
<1>5. CASE CR!Is(c.id)
  <2>1. PICK a : a = CR!Gives(<<>>)
    OBVIOUS
  <2>2. PICK e : e = [c EXCEPT !.answer = a]
    OBVIOUS
  <2>3. v8' = (v8 \ {c}) \cup {e}
    BY <1>2, <1>5, <2>1, <2>2 DEF CR!Answers
  <2>4. a \in CR!AnyAnswer /\ a.ok /\ ~a.due
    BY <2>1, GivesIs, EmptySeq
  <2>5. /\ e \in CR!AnyCall /\ e.kind = "remove" /\ e.id = t /\ e.from = c.from
        /\ e.label = c.label /\ e.read = c.read /\ e.answer = a
    BY <1>1, <2>2, <2>4, CacheCall, AnswerIs
  <2>6. CR!NoRow \in CR!AnyRow
    BY DEF CR!NoRow, CR!AnyRow
  <2>7. v6'[t] = CR!NoRow /\ \A i \in CR!Ids : i # t => v6'[i] = v6[i]
    BY <1>2, <1>3
  <2>8. CR!RowsFit'
    BY <1>2, <1>3, <2>6, <2>7 DEF CR!RowsFit, CR!Is
  <2>9. CR!AnswerFits(e)'
    <3>1. e.read # CR!NoRow => e.kind = "update"
      BY <2>5, CacheCall DEF CR!AnswerFits
    <3> QED
      BY <2>4, <2>5, <2>7, <3>1 DEF CR!AnswerFits, CR!Is
  <2>10. /\ \A i \in CR!Ids : i <= v7 /\ v6'[i] # CR!NoRow => v6[i] # CR!NoRow
         /\ \A i \in CR!Ids : i > v7 => v6'[i] = CR!NoRow
         /\ v7 <= v7'
    BY <1>2, <1>3, <2>7
  <2>11. ~c.answer.ok
    BY <1>2, GivesIs
  <2> QED
    BY <1>1, <1>2, <2>3, <2>4, <2>5, <2>7, <2>8, <2>9, <2>10, <2>11, CacheAnswered
<1> QED
  BY <1>4, <1>5

LEMMA CacheReads ==
  ASSUME CR!CacheInv, NEW c \in v8, CR!UpdateReads(c)
  PROVE  CR!CacheInv'
<1>1. /\ UNCHANGED <<v1, v2, v3, v4, v5, v6, v7, v9, v10>>
      /\ c.kind = "update" /\ c.answer = CR!Waiting
  BY DEF CR!UpdateReads
<1>2. CASE ~CR!Is(c.id)
  BY <1>1, <1>2, GivesIs, CacheFails DEF CR!UpdateReads
<1>3. CASE CR!Is(c.id)
  <2>1. PICK e : e = [c EXCEPT !.read = v6[c.id]]
    OBVIOUS
  <2>2. v8' = (v8 \ {c}) \cup {e}
    BY <1>3, <2>1 DEF CR!UpdateReads
  <2>3. c \in CR!AnyCall /\ v6[c.id] \in CR!AnyRow
    BY <1>1, CacheCall, CacheParts DEF CR!RowsFit
  <2>4. /\ e \in CR!AnyCall /\ e.kind = c.kind /\ e.id = c.id /\ e.from = c.from
        /\ e.label = c.label /\ e.read = v6[c.id] /\ e.answer = c.answer
    BY <2>1, <2>3 DEF CR!AnyCall
  <2>5. CR!AnswerFits(e)'
    BY <1>1, <2>4, GivesIs DEF CR!AnswerFits
  <2> QED
    BY <1>1, <2>2, <2>4, <2>5, GivesIs, CacheSettles
<1> QED
  BY <1>2, <1>3

LEMMA CacheWrites ==
  ASSUME CR!CacheInv, NEW c \in v8, CR!UpdateWrites(c)
  PROVE  CR!CacheInv'
<1>1. /\ UNCHANGED <<v1, v2, v3, v4, v5, v7, v9, v10>>
      /\ c.answer = CR!Waiting /\ c.read # CR!NoRow
      /\ v6' = IF CR!Is(c.id) THEN [v6 EXCEPT ![c.id] = CR!Set(v6[c.id], c)] ELSE v6
      /\ CR!Answers(c, CR!Gives(<<CR!Entry(c.id, CR!Set(c.read, c))>>))
  BY DEF CR!UpdateWrites
<1>2. c.kind = "update" /\ v6[c.id] = c.read
  BY <1>1, CacheCall DEF CR!AnswerFits
<1>3. PICK t \in CR!Ids : t = c.id
  BY <1>2, CacheCall
<1>4. PICK r : r = CR!Set(v6[t], c)
  OBVIOUS
<1>5. PICK a : a = CR!Gives(<<CR!Entry(t, r)>>)
  OBVIOUS
<1>6. PICK e : e = [c EXCEPT !.answer = a]
  OBVIOUS
<1>7. v6 \in [CR!Ids -> CR!AnyRow] /\ CR!Ids \subseteq Nat /\ v7 \in Nat /\ v6[t] # CR!NoRow
      /\ \A i \in CR!Ids : v6[i] # CR!NoRow => i <= v7 /\ v6[i].label # 0
  BY <1>1, <1>2, <1>3, CacheParts DEF CR!RowsFit, CR!Is, CR!Ids
<1>8. v6' = [v6 EXCEPT ![t] = r] /\ v8' = (v8 \ {c}) \cup {e}
  BY <1>1, <1>2, <1>3, <1>4, <1>5, <1>6, <1>7 DEF CR!Is, CR!Answers
<1>9. r \in CR!AnyRow /\ r # CR!NoRow /\ r.label \in Nat \ {0}
  <2>1. c.label \in Nat \ {0} /\ c.token \in Nat /\ c.n \in Nat
    BY <1>2, CacheCall DEF CR!AnyCall
  <2>2. v6[t] \in CR!AnyRow
    BY <1>7
  <2>3. r \in CR!AnyRow /\ r.label = c.label
    BY <1>4, <2>1, <2>2 DEF CR!Set, CR!AnyRow
  <2> QED
    BY <2>1, <2>3 DEF CR!NoRow
<1>10. CR!Entry(t, r) \in CR!AnyEntry
  BY <1>9 DEF CR!Entry, CR!AnyEntry, CR!AnyRow
<1>11. a \in CR!AnyAnswer /\ a.ok /\ ~a.due /\ a.list = <<CR!Entry(t, r)>>
  <2>1. <<CR!Entry(t, r)>> \in Seq(CR!AnyEntry)
    BY <1>10
  <2> QED
    BY <1>5, <2>1, GivesIs
<1>12. /\ e \in CR!AnyCall /\ e.kind = "update" /\ e.id = t /\ e.from = c.from
       /\ e.label = c.label /\ e.read = c.read /\ e.answer = a
  BY <1>2, <1>3, <1>6, <1>11, CacheCall, AnswerIs
<1>13. v6'[t] = r /\ \A i \in CR!Ids : i # t => v6'[i] = v6[i]
  BY <1>7, <1>8
<1>14. CR!RowsFit'
  BY <1>1, <1>7, <1>8, <1>9 DEF CR!RowsFit, CR!Is
<1>15. CR!AnswerFits(e)'
  <2>1. CR!Entry(e.id, v6[e.id])' = CR!Entry(t, r)
    BY <1>12, <1>13 DEF CR!Entry
  <2>2. a # CR!Waiting
    BY <1>11, GivesIs
  <2> QED
    BY <1>9, <1>11, <1>12, <1>13, <2>1, <2>2 DEF CR!AnswerFits, CR!Is
<1>16. /\ \A i \in CR!Ids : i <= v7 /\ v6'[i] # CR!NoRow => v6[i] # CR!NoRow
       /\ \A i \in CR!Ids : i > v7 => v6'[i] = CR!NoRow
       /\ v7 <= v7'
  BY <1>1, <1>7, <1>13
<1>17. ~c.answer.ok
  BY <1>1, GivesIs
<1> QED
  BY <1>1, <1>2, <1>3, <1>8, <1>11, <1>12, <1>13, <1>14, <1>15, <1>16, <1>17, CacheAnswered

(* An answer arrives: what the other requests are about stays.             *)
LEMMA CacheArrived ==
  ASSUME CR!CacheInv, NEW c \in v8, v8' = v8 \ {c}, UNCHANGED <<v6, v7>>,
         CR!ListFits', CR!PageFits', CR!Cached',
         \A i \in CR!Ids : v6[i] # CR!NoRow /\ CR!Lists(i) => CR!Lists(i)',
         \A i \in CR!Ids : CR!Lists(i)' => CR!Lists(i) \/ CR!MadeBy(i, c)
  PROVE  CR!CacheInv'
<1>1. CR!RowsFit'
  BY CacheParts DEF CR!RowsFit, CR!Is
<1>2. ASSUME NEW d \in v8' PROVE CR!CallFits(d)'
  <2>1. CR!CallFits(d) /\ CR!AnswerFits(d) /\ d \in v8 /\ d # c
    BY <1>2, CacheParts, CacheCall
  <2>2. CR!Changes(d) => CR!Known(d.id)' /\ \A x \in v8' : x.id = d.id => x = d
    <3>1. CR!Changes(d) => d.id \in CR!Ids /\ CR!Known(d.id)
      BY <2>1, CacheCall DEF CR!CallFits
    <3>2. CR!Known(d.id)' <=> d.id <= v7 /\ (v6[d.id] # CR!NoRow => CR!Lists(d.id)')
      BY DEF CR!Known, CR!Is, CR!Lists
    <3> QED
      BY <2>1, <3>1, <3>2 DEF CR!CallFits, CR!Known, CR!Is
  <2>3. \A i, x : CR!MadeBy(i, x)' <=> CR!MadeBy(i, x)
    BY DEF CR!MadeBy
  <2>4. ASSUME d.kind = "create", d.answer.ok
        PROVE  \E i \in CR!Ids : CR!Is(i)' /\ ~CR!Lists(i)' /\ CR!MadeBy(i, d)'
                                 /\ \A x \in v8' : CR!MadeBy(i, x)' => x = d
    <3>1. PICK i \in CR!Ids : CR!Is(i) /\ ~CR!Lists(i) /\ CR!MadeBy(i, d)
                              /\ \A x \in v8 : CR!MadeBy(i, x) => x = d
      BY <2>1, <2>4 DEF CR!AnswerFits
    <3>2. ~CR!MadeBy(i, c)
      BY <2>1, <3>1
    <3>3. ~CR!Lists(i)'
      BY <3>1, <3>2
    <3>4. CR!Is(i)'
      BY <3>1 DEF CR!Is
    <3> QED
      BY <2>3, <3>1, <3>3, <3>4
  <2>5. CR!AnswerFits(d)'
    BY <2>1, <2>4 DEF CR!AnswerFits, CR!Is, CR!Entries
  <2>6. d.kind = "load" => v8' = {d}
    BY <1>2, <2>1 DEF CR!CallFits
  <2> QED
    BY <2>1, <2>2, <2>5, <2>6 DEF CR!CallFits, CR!Changes
<1> QED
  BY <1>1, <1>2 DEF CR!CacheInv

(* The page, when an answer arrives.                                       *)
LEMMA CacheShows ==
  ASSUME CR!CacheInv, NEW c \in v8, CR!Arrives(c),
         \A i \in CR!Ids : v6[i] # CR!NoRow /\ CR!Lists(i) => CR!Lists(i)',
         c.kind = "create" /\ c.answer.ok =>
           \E i \in CR!Ids : c.answer.list[1].id = i /\ i <= v7 /\ CR!Lists(i)'
  PROVE  CR!PageFits'
<1> DEFINE K(i) == i <= v7 /\ (v6[i] # CR!NoRow => \E k \in DOMAIN v3' : v3'[k].id = i)
<1>1. /\ UNCHANGED <<v1, v6, v7, v10>>
      /\ v4' = v4 \/ v4' = [v4 EXCEPT !.saving = FALSE] \/ v4' = CR!Reset(FALSE, v4.id, v4.label)
      /\ v5' = v5 \/ (c.from = v1 /\ v1 = "modal" /\ c.answer.ok /\ v5' = c.answer.list[1].id)
  BY DEF CR!Arrives
<1>2. /\ \A i \in CR!Ids : CR!Known(i) => K(i)
      /\ \A i : CR!Lists(i)' <=> \E k \in DOMAIN v3' : v3'[k].id = i
  BY DEF CR!Known, CR!Is, CR!Lists
<1>3. v4' \in CR!AnyDialog /\ v4'.id = v4.id /\ (v4'.open => v4.open /\ v4'.n = v4.n)
  <2>1. CASE v4' = v4
    BY <2>1, CachePageParts
  <2>2. CASE v4' = [v4 EXCEPT !.saving = FALSE]
    BY <2>2, CachePageParts DEF CR!AnyDialog
  <2>3. CASE v4' = CR!Reset(FALSE, v4.id, v4.label)
    <3>1. v10' \in Nat
      BY <1>1, CachePageParts
    <3> QED
      BY <2>3, <3>1, CachePageParts DEF CR!AnyDialog, CR!Reset
  <2> QED
    BY <1>1, <2>1, <2>2, <2>3
<1>4. v5' # 0 => v5' \in CR!Ids /\ K(v5')
  <2>1. CASE v5' = v5
    BY <1>2, <2>1, CachePageParts
  <2>2. CASE c.from = v1 /\ v1 = "modal" /\ c.answer.ok /\ v5' = c.answer.list[1].id
    <3>1. c.kind = "create"
      BY <2>2, CacheCall
    <3> QED
      BY <1>1, <1>2, <2>2, <3>1
  <2> QED
    BY <1>1, <2>1, <2>2
<1>5. v4.id # 0 => K(v4.id)
  BY <1>2, CachePageParts
<1>6. CR!PageFits' <=>
        /\ v1' \in {"away", "panel", "modal"} /\ v10' \in Nat \ {0}
        /\ v4' \in CR!AnyDialog /\ (v4'.open => v4'.n # 0)
        /\ v4'.id # 0 => v4'.id <= v7' /\ (v6'[v4'.id] # CR!NoRow => \E k \in DOMAIN v3' : v3'[k].id = v4'.id)
        /\ v1' = "modal" => v4'.id = 0
        /\ v5' # 0 => /\ v5' \in CR!Ids /\ v5' <= v7'
                      /\ (v6'[v5'] # CR!NoRow => \E k \in DOMAIN v3' : v3'[k].id = v5')
  BY DEF CR!PageFits, CR!Known, CR!Is, CR!Lists
<1> QED
  BY <1>1, <1>3, <1>4, <1>5, <1>6, CachePageParts

(* An error arrives: the list stays.                                       *)
LEMMA CacheErrs ==
  ASSUME CR!CacheInv, NEW c \in v8, CR!Arrives(c), ~c.answer.ok
  PROVE  CR!CacheInv'
<1>1. /\ UNCHANGED <<v3, v6, v7>> /\ v8' = v8 \ {c} /\ (v2' = v2 \/ v2' = "error")
      /\ (v9' <=> v9)
  BY DEF CR!Arrives
<1>2. \A i : (CR!Lists(i)' <=> CR!Lists(i)) /\ (CR!Is(i)' <=> CR!Is(i))
  BY <1>1 DEF CR!Lists, CR!Is
<1>3. CR!ListFits'
  BY <1>1, CacheParts DEF CR!ListFits
<1>4. CR!PageFits'
  BY <1>2, CacheShows
<1>5. CR!Cached'
  <2>1. ASSUME NEW k \in DOMAIN v3, CR!Fixed(k) PROVE CR!Fixed(k)'
    BY <1>1, <2>1 DEF CR!Fixed, CR!Is
  <2>2. ASSUME NEW i \in CR!Ids, CR!Owed(i) PROVE CR!Owed(i)'
    <3>1. PICK d \in v8 : CR!MadeBy(i, d)
      BY <2>2 DEF CR!Owed
    <3>2. d \in v8' /\ CR!MadeBy(i, d)'
      BY <1>1, <3>1 DEF CR!MadeBy
    <3> QED
      BY <3>2 DEF CR!Owed
  <2> QED
    BY <1>1, <1>2, <2>1, <2>2, CacheParts DEF CR!Cached
<1> QED
  BY <1>1, <1>2, <1>3, <1>4, <1>5, CacheArrived

(* A load's answer is all there is: nothing else is under way.             *)
LEMMA CacheLoaded ==
  ASSUME CR!CacheInv, NEW c \in v8, CR!Arrives(c), c.answer.ok, c.kind = "load"
  PROVE  CR!CacheInv'
<1>1. /\ UNCHANGED <<v6, v7>> /\ v8' = v8 \ {c} /\ v3' = c.answer.list
  BY DEF CR!Arrives, CR!Listed
<1>2. v8' = {}
  BY <1>1, CacheCall
<1>3. v3' \in Seq(CR!AnyEntry) /\ CR!Once(v3') /\ {v3'[k] : k \in DOMAIN v3'} = CR!Entries
  BY <1>1, CacheCall DEF CR!AnswerFits
<1>4. \A k \in DOMAIN v3' : /\ v3'[k].id \in CR!Ids /\ v6[v3'[k].id] # CR!NoRow
                            /\ v3'[k] = CR!Entry(v3'[k].id, v6[v3'[k].id])
  BY <1>3, CacheParts, EntryIs
<1>5. \A i \in CR!Ids : v6[i] # CR!NoRow => \E k \in DOMAIN v3' : v3'[k].id = i
  <2>1. ASSUME NEW i \in CR!Ids, v6[i] # CR!NoRow PROVE \E k \in DOMAIN v3' : v3'[k].id = i
    <3>1. CR!Entry(i, v6[i]) \in CR!Entries /\ CR!Entry(i, v6[i]).id = i
      BY <2>1, CacheParts, EntryIs
    <3> QED
      BY <1>3, <3>1
  <2> QED
    BY <2>1
<1>6. \A i \in CR!Ids : v6[i] # CR!NoRow => CR!Lists(i)'
  BY <1>5 DEF CR!Lists
<1>7. CR!ListFits'
  <2>1. \A k \in DOMAIN v3' : v3'[k].id <= v7'
    BY <1>1, <1>4, CacheParts DEF CR!RowsFit, CR!Is
  <2> QED
    BY <1>3, <2>1 DEF CR!ListFits, CR!Once
<1>8. CR!Cached'
  BY <1>1, <1>4, <1>6 DEF CR!Cached, CR!Fixed, CR!Is, CR!Entry
<1>9. CR!PageFits'
  BY <1>6, CacheShows
<1>10. CR!RowsFit'
  BY <1>1, CacheParts DEF CR!RowsFit, CR!Is
<1> QED
  BY <1>2, <1>7, <1>8, <1>9, <1>10 DEF CR!CacheInv

(* What was made is listed after the rest.                                 *)
LEMMA CacheAdds ==
  ASSUME CR!CacheInv, NEW c \in v8, CR!Arrives(c), c.answer.ok, c.kind = "create"
  PROVE  CR!CacheInv'
<1>1. PICK t \in CR!Ids : v6[t] # CR!NoRow /\ ~CR!Lists(t) /\ CR!MadeBy(t, c)
  BY CacheCall DEF CR!AnswerFits, CR!Is
<1>2. PICK e : e = CR!Entry(t, v6[t])
  OBVIOUS
<1>3. e \in CR!AnyEntry /\ e.id = t /\ c.answer.list = <<e>>
  BY <1>1, <1>2, CacheParts, EntryIs DEF CR!MadeBy
<1>4. /\ UNCHANGED <<v2, v6, v7>> /\ v8' = v8 \ {c} /\ v3' = v3 \o <<e>> /\ (v9' <=> v9)
  BY <1>3 DEF CR!Arrives, CR!Listed
<1>0. v6' = v6 /\ v8' = v8 \ {c}
  BY <1>4
<1>5. /\ v3 \in Seq(CR!AnyEntry) /\ CR!Once(v3) /\ DOMAIN v3 = 1..Len(v3) /\ Len(v3) \in Nat
      /\ \A k \in DOMAIN v3 : v3[k].id <= v7 /\ v3[k].id \in CR!Ids
  BY CacheParts, CachePageParts, SeqElements DEF CR!ListFits
<1>6. /\ v3' \in Seq(CR!AnyEntry) /\ DOMAIN v3' = 1..(Len(v3) + 1) /\ v3'[Len(v3) + 1] = e
      /\ \A k \in DOMAIN v3 : v3'[k] = v3[k]
  <2>1. <<e>> \in Seq(CR!AnyEntry) /\ Len(<<e>>) = 1 /\ <<e>>[1] = e
    BY <1>3
  <2>2. PICK q \in Seq(CR!AnyEntry) : q = <<e>>
    BY <2>1
  <2>3. /\ v3 \o q \in Seq(CR!AnyEntry) /\ Len(v3 \o q) = Len(v3) + Len(q)
        /\ \A i \in 1..(Len(v3) + Len(q)) :
             (v3 \o q)[i] = IF i <= Len(v3) THEN v3[i] ELSE q[i - Len(v3)]
    BY <1>5, ConcatProperties
  <2>4. DOMAIN (v3 \o q) = 1..Len(v3 \o q)
    BY <2>3, SeqElements
  <2> QED
    BY <1>4, <1>5, <2>1, <2>2, <2>3, <2>4
<1>7. \A k \in DOMAIN v3' : k \in DOMAIN v3 \/ k = Len(v3) + 1
  BY <1>5, <1>6
<1>8. \A k \in DOMAIN v3 : k \in DOMAIN v3' /\ v3[k].id # t
  BY <1>1, <1>5, <1>6 DEF CR!Lists
<1>9. t <= v7
  BY <1>1, CacheParts DEF CR!RowsFit, CR!Is
<1>10. CR!ListFits'
  <2>1. \A k \in DOMAIN v3' : v3'[k].id <= v7'
    BY <1>3, <1>4, <1>5, <1>6, <1>7, <1>9
  <2>2. CR!Once(v3)'
    BY <1>3, <1>5, <1>6, <1>7, <1>8 DEF CR!Once
  <2> QED
    BY <1>6, <2>1, <2>2 DEF CR!ListFits
<1>11. CR!Lists(t)' /\ \A i : CR!Lists(i) => CR!Lists(i)'
  <2>1. Len(v3) + 1 \in DOMAIN v3'
    BY <1>5, <1>6
  <2> QED
    BY <1>3, <1>6, <1>8, <2>1 DEF CR!Lists
<1>12. \A i \in CR!Ids : CR!Lists(i)' => CR!Lists(i) \/ i = t
  BY <1>3, <1>6, <1>7 DEF CR!Lists
<1>13. CR!PageFits'
  BY <1>3, <1>9, <1>11, CacheShows
<1>14. CR!Cached'
  <2>1. ASSUME v2' = "ready", ~v9'
        PROVE  (\A k \in DOMAIN v3' : CR!Fixed(k)')
               /\ \A i \in CR!Ids : CR!Is(i)' => CR!Lists(i)' \/ CR!Owed(i)'
    <3>1. /\ \A k \in DOMAIN v3 : CR!Fixed(k)
          /\ \A i \in CR!Ids : CR!Is(i) => CR!Lists(i) \/ CR!Owed(i)
      BY <1>4, <2>1, CacheParts DEF CR!Cached
    <3>2. ASSUME NEW k \in DOMAIN v3 PROVE CR!Fixed(k)'
      <4>1. \A d \in v8 : d.id = v3[k].id => d # c
        <5>1. c.id = 0 /\ 0 \notin CR!Ids
          BY CacheCall DEF CR!Ids
        <5> QED
          BY <1>5, <5>1
      <4> QED
        <5>1. v3'[k] = v3[k] /\ v6' = v6
          BY <1>4, <1>6
        <5>2. \/ v6[v3[k].id] # CR!NoRow /\ v3[k] = CR!Entry(v3[k].id, v6[v3[k].id])
              \/ \E d \in v8' : d.id = v3[k].id /\ d.answer.ok
          BY <1>0, <3>1, <4>1 DEF CR!Fixed, CR!Is
        <5> QED
          BY <5>1, <5>2 DEF CR!Fixed, CR!Is, CR!Entry
    <3>3. ASSUME NEW k, k = Len(v3) + 1 PROVE CR!Fixed(k)'
      <4>1. v3'[k] = CR!Entry(t, v6'[t]) /\ v3'[k].id = t /\ v6'[t] # CR!NoRow
        BY <1>0, <1>1, <1>2, <1>3, <1>6, <3>3
      <4> QED
        BY <4>1 DEF CR!Fixed, CR!Is, CR!Entry
    <3>4. ASSUME NEW i \in CR!Ids, v6[i] # CR!NoRow PROVE CR!Lists(i)' \/ CR!Owed(i)'
      <4>1. CASE i = t \/ CR!Lists(i)
        BY <1>11, <4>1
      <4>2. CASE i # t /\ ~CR!Lists(i)
        <5>1. PICK d \in v8 : CR!MadeBy(i, d)
          BY <3>1, <3>4, <4>2 DEF CR!Owed, CR!Is
        <5>2. d # c
          <6>1. CR!Entry(i, v6[i]).id = i /\ CR!Entry(t, v6[t]).id = t
            BY DEF CR!Entry
          <6>2. d.answer.list[1] = CR!Entry(i, v6[i]) /\ c.answer.list[1] = CR!Entry(t, v6[t])
            BY <1>1, <5>1 DEF CR!MadeBy
          <6> QED
            BY <4>2, <6>1, <6>2
        <5>3. d \in v8'
          BY <1>4, <5>2
        <5>4. CR!MadeBy(i, d)'
          <6>1. v6' = v6
            BY <1>4
          <6> QED
            BY <5>1, <6>1 DEF CR!MadeBy
        <5> QED
          BY <5>3, <5>4 DEF CR!Owed
      <4> QED
        BY <4>1, <4>2
    <3>5. \A k \in DOMAIN v3' : CR!Fixed(k)'
      BY <1>7, <3>2, <3>3
    <3> QED
      BY <1>4, <3>4, <3>5 DEF CR!Is
  <2> QED
    BY <2>1 DEF CR!Cached
<1> QED
  BY <1>1, <1>4, <1>10, <1>11, <1>12, <1>13, <1>14, CacheArrived

(* The entry of what was edited is replaced.                               *)
LEMMA CacheEdits ==
  ASSUME CR!CacheInv, NEW c \in v8, CR!Arrives(c), c.answer.ok, c.kind = "update"
  PROVE  CR!CacheInv'
<1>1. PICK t \in CR!Ids : t = c.id
  BY CacheCall
<1>2. PICK e : e = CR!Entry(t, v6[t])
  OBVIOUS
<1>3. v6[t] # CR!NoRow /\ c.answer.list = <<e>>
  BY <1>1, <1>2, CacheCall DEF CR!AnswerFits, CR!Is
<1>4. e \in CR!AnyEntry /\ e.id = t
  BY <1>2, <1>3, CacheParts, EntryIs
<1>5. /\ UNCHANGED <<v2, v6, v7>> /\ v8' = v8 \ {c} /\ (v9' <=> v9)
      /\ v3' = [k \in DOMAIN v3 |-> IF v3[k].id = t THEN e ELSE v3[k]]
  <2>1. c.answer.list[1] = e
    BY <1>3
  <2>2. CR!Listed(c) = [k \in DOMAIN v3 |-> IF v3[k].id = t THEN e ELSE v3[k]]
    BY <1>1, <2>1 DEF CR!Listed
  <2> QED
    BY <2>2 DEF CR!Arrives
<1>6. /\ v3 \in Seq(CR!AnyEntry) /\ CR!Once(v3) /\ DOMAIN v3 = 1..Len(v3) /\ Len(v3) \in Nat
      /\ \A k \in DOMAIN v3 : /\ v3[k].id <= v7 /\ v3[k].id \in CR!Ids
                              /\ v3[k] \in CR!AnyEntry
  BY CacheParts, CachePageParts, SeqElements DEF CR!ListFits
<1>7. /\ v3' \in [1..Len(v3) -> CR!AnyEntry] /\ DOMAIN v3' = DOMAIN v3
      /\ \A k \in DOMAIN v3 : /\ v3'[k].id = v3[k].id
                              /\ v3'[k] = IF v3[k].id = t THEN e ELSE v3[k]
  BY <1>4, <1>5, <1>6
<1>8. CR!ListFits'
  <2>1. v3' \in Seq(CR!AnyEntry)
    BY <1>6, <1>7, SeqDef
  <2>2. CR!Once(v3)'
    BY <1>6, <1>7 DEF CR!Once
  <2> QED
    BY <1>5, <1>6, <1>7, <2>1, <2>2 DEF CR!ListFits
<1>9. \A i : CR!Lists(i)' <=> CR!Lists(i)
  BY <1>7 DEF CR!Lists
<1>10. CR!PageFits'
  BY <1>9, CacheShows
<1>11. CR!Cached'
  <2>1. ASSUME v2' = "ready", ~v9'
        PROVE  (\A k \in DOMAIN v3' : CR!Fixed(k)')
               /\ \A i \in CR!Ids : CR!Is(i)' => CR!Lists(i)' \/ CR!Owed(i)'
    <3>1. /\ \A k \in DOMAIN v3 : CR!Fixed(k)
          /\ \A i \in CR!Ids : CR!Is(i) => CR!Lists(i) \/ CR!Owed(i)
      BY <1>5, <2>1, CacheParts DEF CR!Cached
    <3>2. ASSUME NEW k \in DOMAIN v3 PROVE CR!Fixed(k)'
      <4>1. CR!Fixed(k)' <=> \/ v6[v3[k].id] # CR!NoRow /\ v3'[k] = CR!Entry(v3[k].id, v6[v3[k].id])
                             \/ \E d \in v8' : d.id = v3[k].id /\ d.answer.ok
        <5>1. v6' = v6 /\ v3'[k].id = v3[k].id
          BY <1>5, <1>7
        <5> QED
          BY <5>1 DEF CR!Fixed, CR!Is, CR!Entry
      <4>2. CASE v3[k].id = t
        BY <1>2, <1>3, <1>7, <4>1, <4>2
      <4>3. CASE v3[k].id # t
        <5>1. v3'[k] = v3[k]
          BY <1>7, <4>3
        <5>2. \/ v6[v3[k].id] # CR!NoRow /\ v3[k] = CR!Entry(v3[k].id, v6[v3[k].id])
              \/ \E d \in v8 : d.id = v3[k].id /\ d.answer.ok
          BY <3>1 DEF CR!Fixed, CR!Is
        <5> QED
          BY <1>1, <1>5, <4>1, <4>3, <5>1, <5>2
      <4> QED
        BY <4>2, <4>3
    <3>3. ASSUME NEW i \in CR!Ids, CR!Owed(i) PROVE CR!Owed(i)'
      <4>1. PICK d \in v8 : CR!MadeBy(i, d)
        BY <3>3 DEF CR!Owed
      <4>2. d \in v8' /\ v6' = v6
        BY <1>5, <4>1 DEF CR!MadeBy
      <4>3. CR!MadeBy(i, d)'
        BY <4>1, <4>2 DEF CR!MadeBy
      <4> QED
        BY <4>2, <4>3 DEF CR!Owed
    <3> QED
      BY <1>5, <1>7, <1>9, <3>1, <3>2, <3>3 DEF CR!Is
  <2> QED
    BY <2>1 DEF CR!Cached
<1> QED
  BY <1>5, <1>8, <1>9, <1>10, <1>11, CacheArrived

(* The entry of what was removed goes.                                     *)
LEMMA CacheDrops ==
  ASSUME CR!CacheInv, NEW c \in v8, CR!Arrives(c), c.answer.ok, c.kind = "remove"
  PROVE  CR!CacheInv'
<1>1. PICK t \in CR!Ids : t = c.id
  BY CacheCall
<1>2. v6[t] = CR!NoRow
  BY <1>1, CacheCall DEF CR!AnswerFits, CR!Is
<1>3. PICK w : w = CR!Without(t)
  OBVIOUS
<1>4. /\ UNCHANGED <<v2, v6, v7>> /\ v8' = v8 \ {c} /\ (v9' <=> v9) /\ v3' = w
  BY <1>1, <1>3 DEF CR!Arrives, CR!Listed
<1>5. /\ v3 \in Seq(CR!AnyEntry) /\ CR!Once(v3)
      /\ \A k \in DOMAIN v3 : v3[k].id <= v7
  BY CacheParts DEF CR!ListFits
<1>6. /\ w \in Seq(CR!AnyEntry) /\ CR!Once(w)
      /\ \A k \in DOMAIN w : \E l \in DOMAIN v3 : w[k] = v3[l] /\ v3[l].id # t
      /\ \A l \in DOMAIN v3 : v3[l].id # t => \E k \in DOMAIN w : w[k] = v3[l]
  BY <1>3, <1>5, WithoutIs
<1>7. CR!ListFits'
  <2>1. v3' \in Seq(CR!AnyEntry) /\ CR!Once(v3)'
    BY <1>4, <1>6 DEF CR!Once
  <2> QED
    BY <1>4, <1>5, <1>6, <2>1 DEF CR!ListFits
<1>8. \A i : CR!Lists(i)' <=> CR!Lists(i) /\ i # t
  BY <1>4, <1>6 DEF CR!Lists
<1>9. \A i \in CR!Ids : v6[i] # CR!NoRow /\ CR!Lists(i) => CR!Lists(i)'
  BY <1>2, <1>8
<1>10. CR!PageFits'
  BY <1>9, CacheShows
<1>11. CR!Cached'
  <2>1. ASSUME v2' = "ready", ~v9'
        PROVE  (\A k \in DOMAIN v3' : CR!Fixed(k)')
               /\ \A i \in CR!Ids : CR!Is(i)' => CR!Lists(i)' \/ CR!Owed(i)'
    <3>1. /\ \A k \in DOMAIN v3 : CR!Fixed(k)
          /\ \A i \in CR!Ids : CR!Is(i) => CR!Lists(i) \/ CR!Owed(i)
      BY <1>4, <2>1, CacheParts DEF CR!Cached
    <3>2. ASSUME NEW k \in DOMAIN w PROVE CR!Fixed(k)'
      <4>1. PICK l \in DOMAIN v3 : w[k] = v3[l] /\ v3[l].id # t
        BY <1>6
      <4>2. \/ v6[v3[l].id] # CR!NoRow /\ v3[l] = CR!Entry(v3[l].id, v6[v3[l].id])
            \/ \E d \in v8 : d.id = v3[l].id /\ d.answer.ok
        BY <3>1 DEF CR!Fixed, CR!Is
      <4>3. \/ v6[v3[l].id] # CR!NoRow /\ v3[l] = CR!Entry(v3[l].id, v6[v3[l].id])
            \/ \E d \in v8' : d.id = v3[l].id /\ d.answer.ok
        BY <1>1, <1>4, <4>1, <4>2
      <4>4. v6' = v6 /\ v3'[k] = v3[l]
        BY <1>4, <4>1
      <4> QED
        BY <4>3, <4>4 DEF CR!Fixed, CR!Is, CR!Entry
    <3>3. ASSUME NEW i \in CR!Ids, CR!Owed(i) PROVE CR!Owed(i)'
      <4>1. PICK d \in v8 : CR!MadeBy(i, d)
        BY <3>3 DEF CR!Owed
      <4>2. d \in v8' /\ v6' = v6
        BY <1>4, <4>1 DEF CR!MadeBy
      <4>3. CR!MadeBy(i, d)'
        BY <4>1, <4>2 DEF CR!MadeBy
      <4> QED
        BY <4>2, <4>3 DEF CR!Owed
    <3> QED
      BY <1>2, <1>4, <1>8, <3>1, <3>2, <3>3 DEF CR!Is
  <2> QED
    BY <2>1 DEF CR!Cached
<1> QED
  BY <1>4, <1>7, <1>8, <1>9, <1>10, <1>11, CacheArrived

LEMMA CacheNext ==
  ASSUME CredentialAssumptions, CR!CacheInv, CR!Next \/ UNCHANGED CR!credentialVars
  PROVE  CR!CacheInv'
<1>1. ASSUME UNCHANGED CR!credentialVars PROVE CR!CacheInv'
  <2>1. UNCHANGED <<v1, v2, v3, v4, v5, v6, v7, v8, v9, v10>>
    BY <1>1 DEF CR!credentialVars
  <2>2. CR!PageFits'
    BY <2>1, CachePageParts, CachePage
  <2> QED
    BY <2>1, <2>2, CachePages
<1>2. ASSUME NEW c \in v8, CR!Handle(c) PROVE CR!CacheInv'
  BY <1>2, CacheLists, CacheMakes, CacheRemoves DEF CR!Handle
<1>3. ASSUME NEW c \in v8, CR!CallFails(c) PROVE CR!CacheInv'
  <2>1. c.answer.ok => c.answer # CR!Waiting
    BY GivesIs
  <2> QED
    BY <1>3, <2>1, CacheFails DEF CR!CallFails
<1>4. ASSUME NEW c \in v8, CR!Arrives(c) PROVE CR!CacheInv'
  <2>1. c.kind \in {"load", "create", "update", "remove"}
    BY CacheCall
  <2> QED
    BY <1>4, <2>1, CacheErrs, CacheLoaded, CacheAdds, CacheEdits, CacheDrops
<1> QED
  BY <1>1, <1>2, <1>3, <1>4, CacheVisits, CacheLeaves, CacheDialogs, CacheRequests,
     CacheReads, CacheWrites DEF CR!Next

-----------------------------------------------------------------------------
(* Once nothing is under way the lists are what is stored, a provider with *)
(* models has one default, the credential picked is offered, and a listing *)
(* is of the folder it is shown under, however requests and answers        *)
(* interleave and whichever are lost (sessions-store.ts,                   *)
(* provider-panel.tsx, git-credentials-store.ts,                           *)
(* file-management-view.tsx).                                              *)
THEOREM ListsTellTheTruth ==
  ASSUME ListAssumptions, ModelAssumptions, CredentialAssumptions
  PROVE  Spec => []ListsAreTrue
<1> DEFINE Inv == /\ part = "list" => SL!InductiveInv
                  /\ part = "models" => PL!InductiveInv
                  /\ part = "creds" => CR!CacheInv
                  /\ part = "browse" => FB!InductiveInv
<1>1. Init => Inv
  <2>1. Init /\ part = "creds" => CR!Init
    BY DEF Init
  <2> QED
    BY <2>1, ListStarts, ListInit, ModelsStarts, ModelsInit, CacheInit, BrowseStarts, BrowseInit
<1>2. Inv /\ [Next]_vars => Inv'
  <2> SUFFICES ASSUME Inv, [Next]_vars PROVE Inv'
    OBVIOUS
  <2>1. CASE part = "list"
    BY <2>1, PartStays, ListSteps, ListNext
  <2>2. CASE part = "models"
    BY <2>2, PartStays, ModelsSteps, ModelsNext
  <2>3. CASE part = "creds"
    BY <2>3, PartStays, CredentialSteps, CacheNext
  <2>4. CASE part = "browse"
    BY <2>4, PartStays, BrowseSteps, BrowseNext
  <2> QED
    BY <2>1, <2>2, <2>3, <2>4, PartStays
<1>3. Inv => ListsAreTrue
  BY ListIsSettled, ModelsAreTrue, CacheTrue DEF ListsAreTrue, FB!InductiveInv
<1> HIDE DEF Inv
<1> QED
  BY <1>1, <1>2, <1>3, PTL DEF Spec

-----------------------------------------------------------------------------
(* The timeline: v1 blocks.                                                *)

RailAssumptions == None \notin Calls

LEMMA RailSteps ==
  ASSUME part = "rail", [Next]_vars
  PROVE  TI!Next \/ UNCHANGED v1
  BY DEF Next, vars, TI!Next

(* What a block may be.                                                    *)
BlockSet == [kind : TI!Kinds, call : Calls \cup {None}]

LEMMA BlockTypes ==
  ASSUME TI!Shapes
  PROVE  /\ v1 \in Seq(BlockSet) /\ DOMAIN v1 = 1..Len(v1) /\ Len(v1) \in Nat
         /\ \A i \in DOMAIN v1 :
              /\ i \in Nat /\ v1[i] \in BlockSet
              /\ v1[i].kind \in TI!Kinds /\ v1[i].call \in Calls \cup {None}
              /\ v1[i] = TI!Block(v1[i].kind, v1[i].call)
<1>1. v1 \in Seq(BlockSet)
  BY DEF TI!Shapes, BlockSet
<1>2. /\ \A i \in DOMAIN v1 : v1[i] \in BlockSet
      /\ DOMAIN v1 = 1..Len(v1) /\ Len(v1) \in Nat /\ DOMAIN v1 \subseteq Nat
  BY <1>1, SeqElements
<1>3. \A x \in BlockSet : x.kind \in TI!Kinds /\ x.call \in Calls \cup {None}
                          /\ x = TI!Block(x.kind, x.call)
  BY DEF BlockSet, TI!Block
<1> QED
  BY <1>1, <1>2, <1>3

(* The parts of a block.                                                   *)
LEMMA KindOfBlock ==
  ASSUME NEW kind, NEW c
  PROVE  TI!Block(kind, c).kind = kind /\ TI!Block(kind, c).call = c
  BY DEF TI!Block

(* A block behind place p, what was behind it moves on: at the end, or     *)
(* right behind the call.                                                  *)
LEMMA BlockAdded ==
  ASSUME TI!InductiveInv, NEW p \in 0..Len(v1), NEW b \in BlockSet,
         b.call = None <=> b.kind \in {"text", "thinking"},
         \A j \in DOMAIN v1 : b.call # None /\ v1[j].call = b.call =>
                                TI!Role(v1[j].kind) # TI!Role(b.kind),
         \/ b.call = None
         \/ b.kind = "call"
         \/ \E j \in DOMAIN v1 : j <= p /\ v1[j] = TI!Block("call", b.call),
         v1' \in Seq(BlockSet), Len(v1') = Len(v1) + 1,
         \A k \in 1..(Len(v1) + 1) :
           v1'[k] = IF k <= p THEN v1[k] ELSE IF k = p + 1 THEN b ELSE v1[k - 1]
  PROVE  TI!InductiveInv'
<1>0. /\ v1 \in Seq(BlockSet) /\ DOMAIN v1 = 1..Len(v1) /\ Len(v1) \in Nat /\ p \in Nat
      /\ TI!Shapes /\ TI!Once /\ TI!CallFirst
  BY BlockTypes DEF TI!InductiveInv
<1>1. DOMAIN v1' = 1..(Len(v1) + 1)
  BY SeqElements
<1> DEFINE Old(k) == IF k <= p THEN k ELSE k - 1
           New(j) == IF j <= p THEN j ELSE j + 1
<1>2. ASSUME NEW k \in DOMAIN v1', k # p + 1
      PROVE  Old(k) \in DOMAIN v1 /\ v1'[k] = v1[Old(k)] /\ k = New(Old(k))
  BY <1>0, <1>1, <1>2
<1>3. p + 1 \in DOMAIN v1' /\ v1'[p + 1] = b
  BY <1>0, <1>1
<1>4. ASSUME NEW j \in DOMAIN v1
      PROVE  /\ New(j) \in DOMAIN v1' /\ v1'[New(j)] = v1[j] /\ New(j) # p + 1
             /\ (j <= p => New(j) <= p) /\ Old(New(j)) = j
  BY <1>0, <1>1
<1>5. \A i, j \in DOMAIN v1 : i <= j => New(i) <= New(j)
  BY <1>0
<1> HIDE DEF Old, New
<1>6. TI!Shapes'
  <2>1. \A k \in DOMAIN v1' : v1'[k].call = None <=> v1'[k].kind \in {"text", "thinking"}
    BY <1>0, <1>2, <1>3 DEF TI!Shapes
  <2> QED
    BY <2>1 DEF TI!Shapes, BlockSet, TI!Kinds
<1>7. TI!Once'
  <2>1. ASSUME NEW i \in DOMAIN v1', NEW j \in DOMAIN v1', v1'[i].call # None,
               v1'[i].call = v1'[j].call, TI!Role(v1'[i].kind) = TI!Role(v1'[j].kind)
        PROVE  i = j
    <3>1. CASE i # p + 1 /\ j # p + 1
      BY <1>0, <1>2, <2>1, <3>1 DEF TI!Once
    <3>2. CASE i = p + 1 \/ j = p + 1
      BY <1>2, <1>3, <2>1, <3>2
    <3> QED
      BY <3>1, <3>2
  <2> QED
    BY <2>1 DEF TI!Once, TI!Role
<1>8. TI!CallFirst'
  <2>1. ASSUME NEW i \in DOMAIN v1', v1'[i].call # None
        PROVE  \E j \in DOMAIN v1' : j <= i /\ v1'[j] = TI!Block("call", v1'[i].call)
    <3>1. CASE i # p + 1
      <4>1. PICK j \in DOMAIN v1 : j <= Old(i) /\ v1[j] = TI!Block("call", v1'[i].call)
        BY <1>0, <1>2, <2>1, <3>1 DEF TI!CallFirst
      <4>2. New(j) <= i
        BY <1>2, <1>5, <3>1, <4>1
      <4> QED
        BY <1>4, <4>1, <4>2
    <3>2. CASE i = p + 1
      <4>1. CASE b.kind = "call"
        <5>1. b = TI!Block("call", b.call)
          BY <4>1 DEF BlockSet, TI!Block
        <5>2. i <= i
          BY <1>0, <3>2
        <5> QED
          BY <1>3, <3>2, <5>1, <5>2
      <4>2. CASE \E j \in DOMAIN v1 : j <= p /\ v1[j] = TI!Block("call", b.call)
        <5>1. PICK j \in DOMAIN v1 : j <= p /\ v1[j] = TI!Block("call", b.call)
          BY <4>2
        <5>2. New(j) \in DOMAIN v1' /\ v1'[New(j)] = v1[j] /\ New(j) <= p
          BY <1>4, <5>1
        <5>3. New(j) <= i
          BY <1>0, <1>1, <3>2, <5>2
        <5> QED
          BY <1>3, <3>2, <5>1, <5>2, <5>3
      <4> QED
        BY <1>3, <2>1, <3>2, <4>1, <4>2
    <3> QED
      BY <3>1, <3>2
  <2> QED
    BY <2>1 DEF TI!CallFirst, TI!Block
<1> QED
  BY <1>6, <1>7, <1>8 DEF TI!InductiveInv

(* A list with e behind place p.                                           *)
LEMMA Inserted ==
  ASSUME NEW S, NEW q \in Seq(S), NEW e \in S, NEW p \in 0..Len(q)
  PROVE  /\ TI!InsertAt(q, p + 1, e) \in Seq(S)
         /\ Len(TI!InsertAt(q, p + 1, e)) = Len(q) + 1
         /\ \A k \in 1..(Len(q) + 1) :
              TI!InsertAt(q, p + 1, e)[k] =
                IF k <= p THEN q[k] ELSE IF k = p + 1 THEN e ELSE q[k - 1]
<1> DEFINE head == SubSeq(q, 1, p)
           tail == SubSeq(q, p + 1, Len(q))
<1>0. Len(q) \in Nat /\ p \in Nat
  BY LenProperties
<1>1. head \in Seq(S) /\ Len(head) = p /\ \A k \in 1..p : head[k] = q[k]
  <2>1. \A k \in 1..p : q[k] \in S
    BY <1>0, SeqElements
  <2> QED
    BY <1>0, <2>1, SubSeqProperties
<1>2. /\ tail \in Seq(S) /\ Len(tail) = Len(q) - p
      /\ \A k \in 1..(Len(q) - p) : tail[k] = q[p + k]
  <2>1. /\ tail \in Seq(S)
        /\ Len(tail) = IF p + 1 <= Len(q) THEN Len(q) - (p + 1) + 1 ELSE 0
        /\ \A k \in 1..(Len(q) - (p + 1) + 1) : tail[k] = q[(p + 1) + k - 1]
    BY <1>0, SubSeqProperties, SeqElements
  <2> QED
    BY <1>0, <2>1
<1> DEFINE one == <<e>>
<1>3. TI!InsertAt(q, p + 1, e) = (head \o one) \o tail
  <2>1. (p + 1) - 1 = p
    BY <1>0
  <2> HIDE DEF one
  <2> QED
    BY <2>1 DEF TI!InsertAt, one
<1>4. one \in Seq(S) /\ Len(one) = 1 /\ one[1] = e
  OBVIOUS
<1> HIDE DEF head, tail, one
<1> DEFINE front == head \o one
<1>5. /\ front \in Seq(S) /\ Len(front) = p + 1
      /\ \A k \in 1..(p + 1) : front[k] = IF k <= p THEN q[k] ELSE e
  <2>1. /\ front \in Seq(S) /\ Len(front) = Len(head) + Len(one)
        /\ \A k \in 1..(Len(head) + Len(one)) :
             front[k] = IF k <= Len(head) THEN head[k] ELSE one[k - Len(head)]
    BY <1>1, <1>4, ConcatProperties
  <2> HIDE DEF front
  <2> QED
    BY <1>0, <1>1, <1>4, <2>1
<1> HIDE DEF front
<1>6. /\ front \o tail \in Seq(S) /\ Len(front \o tail) = Len(front) + Len(tail)
      /\ \A k \in 1..(Len(front) + Len(tail)) :
           (front \o tail)[k] = IF k <= Len(front) THEN front[k] ELSE tail[k - Len(front)]
  BY <1>2, <1>5, ConcatProperties
<1> DEFINE all == front \o tail
<1>7. TI!InsertAt(q, p + 1, e) = all
  BY <1>3 DEF front
<1>8. /\ all \in Seq(S) /\ Len(all) = Len(q) + 1
      /\ \A k \in 1..(Len(q) + 1) :
           all[k] = IF k <= p + 1 THEN front[k] ELSE tail[k - (p + 1)]
  BY <1>0, <1>2, <1>5, <1>6
<1> HIDE DEF all
<1>9. ASSUME NEW k \in 1..(Len(q) + 1)
      PROVE  all[k] = IF k <= p THEN q[k] ELSE IF k = p + 1 THEN e ELSE q[k - 1]
  <2>1. CASE k <= p + 1
    BY <1>0, <1>5, <1>8, <2>1
  <2>2. CASE ~(k <= p + 1)
    <3>1. k - (p + 1) \in 1..(Len(q) - p) /\ p + (k - (p + 1)) = k - 1
      BY <1>0, <2>2
    <3>2. tail[k - (p + 1)] = q[p + (k - (p + 1))]
      BY <1>2, <3>1
    <3>3. all[k] = tail[k - (p + 1)] /\ ~(k <= p) /\ k # p + 1
      BY <1>0, <1>8, <2>2
    <3> QED
      BY <3>1, <3>2, <3>3
  <2> QED
    BY <2>1, <2>2
<1> QED
  BY <1>7, <1>8, <1>9

(* The events keep it so.                                                  *)
LEMMA RailStarts ==
  ASSUME TI!Init
  PROVE  TI!InductiveInv
<1>1. v1 \in Seq(BlockSet) /\ DOMAIN v1 = {}
  BY EmptySeq DEF TI!Init
<1> QED
  BY <1>1 DEF TI!InductiveInv, TI!Shapes, TI!Once, TI!CallFirst, BlockSet

LEMMA HasPlace ==
  ASSUME NEW kind, NEW c, TI!Has(kind, c)
  PROVE  TI!IndexOf(kind, c) \in DOMAIN v1 /\ v1[TI!IndexOf(kind, c)] = TI!Block(kind, c)
  BY DEF TI!Has, TI!IndexOf

(* A block at the end.                                                     *)
LEMMA BlockAtEnd ==
  ASSUME TI!InductiveInv, NEW b \in BlockSet,
         b.call = None <=> b.kind \in {"text", "thinking"},
         \A j \in DOMAIN v1 : b.call # None /\ v1[j].call = b.call =>
                                TI!Role(v1[j].kind) # TI!Role(b.kind),
         b.call = None \/ b.kind = "call" \/ TI!Has("call", b.call),
         v1' = Append(v1, b)
  PROVE  TI!InductiveInv'
<1>0. v1 \in Seq(BlockSet) /\ DOMAIN v1 = 1..Len(v1) /\ Len(v1) \in Nat
  BY BlockTypes DEF TI!InductiveInv
<1> DEFINE p == Len(v1)
<1>1. p \in 0..Len(v1)
  BY <1>0
<1>2. /\ v1' \in Seq(BlockSet) /\ Len(v1') = p + 1 /\ v1'[p + 1] = b
      /\ \A k \in 1..p : v1'[k] = v1[k]
  BY <1>0, AppendProperties
<1>3. \A k \in 1..(p + 1) : v1'[k] = IF k <= p THEN v1[k] ELSE IF k = p + 1 THEN b ELSE v1[k - 1]
  BY <1>0, <1>2
<1>4. \/ b.call = None
      \/ b.kind = "call"
      \/ \E j \in DOMAIN v1 : j <= p /\ v1[j] = TI!Block("call", b.call)
  BY <1>0 DEF TI!Has
<1> HIDE DEF p
<1>5. Len(v1') = Len(v1) + 1 /\ p = Len(v1)
  BY <1>2 DEF p
<1> QED
  BY <1>1, <1>2, <1>3, <1>4, <1>5, BlockAdded

(* A block of kind about the call c that has none such yet.                *)
LEMMA NoneSuch ==
  ASSUME TI!InductiveInv, NEW kind \in TI!Kinds, NEW c, ~TI!Has(kind, c),
         kind = "approval" => ~TI!Has("resolved", c), kind # "resolved",
         NEW j \in DOMAIN v1, v1[j].call = c
  PROVE  TI!Role(v1[j].kind) # TI!Role(kind)
<1>1. v1[j] = TI!Block(v1[j].kind, c) /\ v1[j].kind \in TI!Kinds
  BY BlockTypes DEF TI!InductiveInv
<1> QED
  BY <1>1 DEF TI!Has, TI!Role

LEMMA HasIsCall ==
  ASSUME TI!InductiveInv, NEW kind \in TI!Kinds \ {"text", "thinking"}, NEW c, TI!Has(kind, c)
  PROVE  c \in Calls /\ c # None
<1>1. PICK i \in DOMAIN v1 : v1[i] = TI!Block(kind, c)
  BY DEF TI!Has
<1>2. v1[i].kind = kind /\ v1[i].call = c
  BY <1>1, KindOfBlock
<1> QED
  BY <1>2, BlockTypes DEF TI!InductiveInv, TI!Shapes

LEMMA RailKeeps ==
  ASSUME RailAssumptions, TI!InductiveInv, TI!Next \/ UNCHANGED v1
  PROVE  TI!InductiveInv'
<1>0. /\ v1 \in Seq(BlockSet) /\ DOMAIN v1 = 1..Len(v1) /\ Len(v1) \in Nat
      /\ TI!Shapes /\ TI!Once /\ TI!CallFirst
  BY BlockTypes DEF TI!InductiveInv
<1>1. ASSUME NEW kind \in TI!Kinds \ {"text", "thinking", "resolved"}, NEW c,
             c \in Calls /\ c # None, ~TI!Has(kind, c),
             kind = "approval" => ~TI!Has("resolved", c),
             kind = "call" \/ TI!Has("call", c), v1' = Append(v1, TI!Block(kind, c))
      PROVE  TI!InductiveInv'
  <2> DEFINE b == TI!Block(kind, c)
  <2>1. b \in BlockSet /\ b.kind = kind /\ b.call = c
    BY <1>1 DEF TI!Block, BlockSet
  <2>2. \A j \in DOMAIN v1 : v1[j].call = c => TI!Role(v1[j].kind) # TI!Role(kind)
    BY <1>1, NoneSuch
  <2>3. v1' = Append(v1, b)
    BY <1>1
  <2> HIDE DEF b
  <2> QED
    BY <1>1, <2>1, <2>2, <2>3, BlockAtEnd
<1>2. CASE TI!Says
  <2>1. PICK kind \in {"text", "thinking"} : v1' = Append(v1, TI!Block(kind, None))
    BY <1>2 DEF TI!Says
  <2> DEFINE b == TI!Block(kind, None)
  <2>2. b \in BlockSet /\ b.kind = kind /\ b.call = None
    BY DEF TI!Block, BlockSet, TI!Kinds
  <2>3. v1' = Append(v1, b)
    BY <2>1
  <2> HIDE DEF b
  <2> QED
    BY <2>2, <2>3, BlockAtEnd
<1>3. ASSUME NEW c \in Calls, TI!ToolCall(c)
      PROVE  TI!InductiveInv'
  BY <1>1, <1>3 DEF TI!ToolCall, TI!Kinds, RailAssumptions
<1>4. ASSUME NEW c, TI!ApprovalRequest(c)
      PROVE  TI!InductiveInv'
  <2>1. c \in Calls /\ c # None
    BY <1>4, HasIsCall DEF TI!ApprovalRequest, TI!Kinds
  <2> QED
    BY <1>1, <1>4, <2>1 DEF TI!ApprovalRequest, TI!Kinds
<1>5. ASSUME NEW c, TI!QuestionRequest(c)
      PROVE  TI!InductiveInv'
  <2>1. c \in Calls /\ c # None
    BY <1>5, HasIsCall DEF TI!QuestionRequest, TI!Kinds
  <2> QED
    BY <1>1, <1>5, <2>1 DEF TI!QuestionRequest, TI!Kinds
<1>6. ASSUME NEW c, TI!ToolResult(c)
      PROVE  TI!InductiveInv'
  <2>1. c \in Calls /\ c # None
    BY <1>6, HasIsCall DEF TI!ToolResult, TI!Kinds
  <2> QED
    BY <1>1, <1>6, <2>1 DEF TI!ToolResult, TI!Kinds
<1>7. ASSUME NEW c, TI!SubagentEvent(c)
      PROVE  TI!InductiveInv'
  <2> DEFINE p == TI!IndexOf("call", c)
             b == TI!Block("subagent", c)
  <2>1. /\ TI!Has("call", c) /\ ~TI!Has("subagent", c)
        /\ v1' = TI!InsertAt(v1, p + 1, b)
    BY <1>7 DEF TI!SubagentEvent
  <2>2. c \in Calls /\ c # None
    BY <2>1, HasIsCall DEF TI!Kinds
  <2>3. b \in BlockSet /\ b.kind = "subagent" /\ b.call = c
    BY <2>2 DEF TI!Block, BlockSet, TI!Kinds
  <2>4. p \in DOMAIN v1 /\ v1[p] = TI!Block("call", c)
    BY <2>1, HasPlace
  <2>5. \A j \in DOMAIN v1 : v1[j].call = c => TI!Role(v1[j].kind) # TI!Role("subagent")
    BY <2>1, NoneSuch DEF TI!Kinds
  <2> HIDE DEF p, b
  <2>6. p \in 0..Len(v1) /\ p <= p
    BY <1>0, <2>4
  <2>7. /\ v1' \in Seq(BlockSet) /\ Len(v1') = Len(v1) + 1
        /\ \A k \in 1..(Len(v1) + 1) :
             v1'[k] = IF k <= p THEN v1[k] ELSE IF k = p + 1 THEN b ELSE v1[k - 1]
    <3> DEFINE S == BlockSet
               w == TI!InsertAt(v1, p + 1, b)
    <3>1. v1 \in Seq(S) /\ b \in S
      BY <1>0, <2>3
    <3> HIDE DEF S
    <3>2. /\ w \in Seq(S) /\ Len(w) = Len(v1) + 1
          /\ \A k \in 1..(Len(v1) + 1) :
               w[k] = IF k <= p THEN v1[k] ELSE IF k = p + 1 THEN b ELSE v1[k - 1]
      <4>1. p \in 0..Len(v1) /\ v1 \in Seq(S) /\ b \in S
        BY <2>6, <3>1
      <4>2. w \in Seq(S)
        BY <4>1, Inserted
      <4>3. Len(w) = Len(v1) + 1
        BY <4>1, Inserted
      <4>4. \A k \in 1..(Len(v1) + 1) :
               w[k] = IF k <= p THEN v1[k] ELSE IF k = p + 1 THEN b ELSE v1[k - 1]
        BY <4>1, Inserted
      <4> QED
        BY <4>2, <4>3, <4>4
    <3>3. v1' = w
      BY <2>1
    <3> HIDE DEF w
    <3> QED
      BY <3>2, <3>3 DEF S
  <2> QED
    BY <2>2, <2>3, <2>4, <2>5, <2>6, <2>7, BlockAdded
<1>8. ASSUME NEW c, TI!ApprovalResponse(c)
      PROVE  TI!InductiveInv'
  <2> DEFINE p == TI!IndexOf("approval", c)
             b == TI!Block("resolved", c)
  <2>1. TI!Has("approval", c) /\ v1' = [v1 EXCEPT ![p] = b]
    BY <1>8 DEF TI!ApprovalResponse
  <2>2. c \in Calls /\ c # None
    BY <2>1, HasIsCall DEF TI!Kinds
  <2>3. b \in BlockSet /\ b.kind = "resolved" /\ b.call = c
    BY <2>2 DEF TI!Block, BlockSet, TI!Kinds
  <2>4. p \in DOMAIN v1 /\ v1[p] = TI!Block("approval", c)
    BY <2>1, HasPlace
  <2>5. v1[p].kind = "approval" /\ v1[p].call = c
    BY <2>4, KindOfBlock
  <2> HIDE DEF p, b
  <2>6. /\ v1' \in Seq(BlockSet) /\ DOMAIN v1' = DOMAIN v1 /\ v1'[p] = b
        /\ \A k \in DOMAIN v1 : k # p => v1'[k] = v1[k]
    BY <1>0, <2>1, <2>3, <2>4, ExceptSeq
  <2>7. \A k \in DOMAIN v1 : /\ v1'[k].call = v1[k].call
                             /\ TI!Role(v1'[k].kind) = TI!Role(v1[k].kind)
                             /\ (k # p => v1'[k].kind = v1[k].kind)
    BY <2>3, <2>5, <2>6 DEF TI!Role
  <2>8. TI!Shapes'
    <3>1. \A k \in DOMAIN v1' : v1'[k].call = None <=> v1'[k].kind \in {"text", "thinking"}
      BY <1>0, <2>2, <2>3, <2>6 DEF TI!Shapes
    <3> QED
      BY <2>6, <3>1 DEF TI!Shapes, BlockSet, TI!Kinds
  <2>9. TI!Once'
    <3>1. \A i, j \in DOMAIN v1' :
            /\ v1'[i].call # None /\ v1'[i].call = v1'[j].call
            /\ TI!Role(v1'[i].kind) = TI!Role(v1'[j].kind)
            => i = j
      BY <1>0, <2>6, <2>7 DEF TI!Once
    <3> QED
      BY <3>1 DEF TI!Once, TI!Role
  <2>10. TI!CallFirst'
    <3>1. ASSUME NEW i \in DOMAIN v1', v1'[i].call # None
          PROVE  \E j \in DOMAIN v1' : j <= i /\ v1'[j] = TI!Block("call", v1'[i].call)
      <4>1. PICK j \in DOMAIN v1 : j <= i /\ v1[j] = TI!Block("call", v1[i].call)
        BY <1>0, <2>6, <2>7, <3>1 DEF TI!CallFirst
      <4>2. j # p
        BY <2>5, <4>1, KindOfBlock
      <4> QED
        BY <2>6, <2>7, <4>1, <4>2
    <3> QED
      BY <3>1 DEF TI!CallFirst, TI!Block
  <2> QED
    BY <2>8, <2>9, <2>10 DEF TI!InductiveInv
<1>9. CASE UNCHANGED v1
  BY <1>9 DEF TI!InductiveInv, TI!Shapes, TI!Once, TI!CallFirst, TI!Kinds, TI!Block, TI!Role
<1> QED
  BY <1>2, <1>3, <1>4, <1>5, <1>6, <1>7, <1>8, <1>9 DEF TI!Next

(* The places of the rail that goes on at place n.                         *)
Run(n) ==
  {j \in TI!Items \ TI!Alone : j <= n /\ \A k \in TI!Alone : ~(j <= k /\ k <= n)}

LEMMA PlacesAreNumbers ==
  ASSUME TI!Shapes
  PROVE  /\ TI!Alone \subseteq TI!Items /\ TI!Items \subseteq DOMAIN v1
         /\ DOMAIN v1 = 1..Len(v1) /\ Len(v1) \in Nat /\ DOMAIN v1 \subseteq Nat
         /\ \A i \in TI!Items \ TI!Alone : TI!OnRail(i)
         /\ \A i \in TI!Alone : ~TI!OnRail(i)
  BY BlockTypes DEF TI!Alone, TI!Items

LEMMA RunGoesOn ==
  ASSUME TI!Shapes, NEW n \in 0..Len(v1)
  PROVE  Run(n) = IF n = 0 \/ n \in TI!Alone THEN {}
                  ELSE IF n \in TI!Items THEN Run(n - 1) \cup {n} ELSE Run(n - 1)
<1>0. /\ TI!Alone \subseteq TI!Items /\ TI!Items \subseteq 1..Len(v1) /\ Len(v1) \in Nat
      /\ n \in Nat
  BY PlacesAreNumbers
<1>1. CASE n = 0
  <2>1. \A j \in TI!Items : ~(j <= n)
    BY <1>0, <1>1
  <2>2. Run(n) = {}
    BY <2>1 DEF Run
  <2> QED
    BY <1>1, <2>2
<1>2. CASE n # 0 /\ n \in TI!Alone
  <2>1. \A j \in TI!Items : j <= n => j <= n /\ n <= n
    BY <1>0
  <2>2. Run(n) = {}
    BY <1>2, <2>1 DEF Run
  <2> QED
    BY <1>2, <2>2
<1>3. CASE n # 0 /\ n \notin TI!Alone
  <2>1. ASSUME NEW j \in TI!Items \ TI!Alone, j <= n - 1
        PROVE  j \in Run(n) <=> j \in Run(n - 1)
    <3>1. \A k \in TI!Alone : j <= k /\ k <= n <=> j <= k /\ k <= n - 1
      BY <1>0, <1>3
    <3>2. j <= n
      BY <1>0, <2>1
    <3> QED
      BY <2>1, <3>1, <3>2 DEF Run
  <2>2. ASSUME n \in TI!Items PROVE n \in Run(n) /\ n \notin Run(n - 1)
    BY <1>0, <1>3, <2>2 DEF Run
  <2>3. \A j : j \in Run(n) => j \in TI!Items \ TI!Alone /\ (j = n \/ j <= n - 1)
    BY <1>0 DEF Run
  <2>4. \A j : j \in Run(n - 1) => j \in TI!Items \ TI!Alone /\ j <= n - 1
    BY DEF Run
  <2>5. CASE n \in TI!Items
    BY <1>3, <2>1, <2>2, <2>3, <2>4, <2>5
  <2>6. CASE n \notin TI!Items
    BY <1>3, <2>1, <2>3, <2>4, <2>6
  <2> QED
    BY <2>5, <2>6
<1> QED
  BY <1>1, <1>2, <1>3

(* What the buffer holds behind place n.                                   *)
LEMMA BufferIsRun ==
  ASSUME TI!Shapes
  PROVE  \A n \in 0..Len(v1) : TI!Buffer[n] = Run(n)
<1> DEFINE Fits(f) == f = [n \in 0..Len(v1) |->
                             IF n = 0 \/ n \in TI!Alone THEN {}
                             ELSE IF n \in TI!Items THEN f[n - 1] \cup {n} ELSE f[n - 1]]
           Walk == CHOOSE f : Fits(f)
           Bad == {n \in Nat : n <= Len(v1) /\ Walk[n] # Run(n)}
<1>0. Len(v1) \in Nat
  BY BlockTypes
<1>1. TI!Buffer = Walk
  BY DEF TI!Buffer
<1>2. Fits([n \in 0..Len(v1) |-> Run(n)])
  <2> DEFINE g == [n \in 0..Len(v1) |-> Run(n)]
  <2>1. ASSUME NEW n \in 0..Len(v1)
        PROVE  g[n] = IF n = 0 \/ n \in TI!Alone THEN {}
                      ELSE IF n \in TI!Items THEN g[n - 1] \cup {n} ELSE g[n - 1]
    <3>1. g[n] = Run(n) /\ (n # 0 => g[n - 1] = Run(n - 1))
      BY <1>0
    <3> QED
      BY <3>1, RunGoesOn
  <2> QED
    BY <2>1
<1> HIDE DEF Fits
<1>3. Fits(Walk)
  BY <1>2
<1> HIDE DEF Walk
<1>4. ASSUME NEW n \in Bad, \A j \in Bad : n <= j
      PROVE  FALSE
  <2>1. n \in 0..Len(v1) /\ n \in Nat /\ Walk[n] # Run(n)
    BY <1>0, <1>4
  <2>2. Walk[n] = IF n = 0 \/ n \in TI!Alone THEN {}
                  ELSE IF n \in TI!Items THEN Walk[n - 1] \cup {n} ELSE Walk[n - 1]
    BY <1>3, <2>1 DEF Fits
  <2>3. n # 0 => Walk[n - 1] = Run(n - 1)
    BY <1>0, <1>4, <2>1
  <2> QED
    BY <2>1, <2>2, <2>3, RunGoesOn
<1>5. Bad = {}
  <2>1. Bad \in SUBSET Nat
    OBVIOUS
  <2> HIDE DEF Bad
  <2> QED
    BY <1>4, <2>1, HasLeast
<1> QED
  BY <1>0, <1>1, <1>5

(* i and j are for the rail, and nothing stands alone between them.        *)
SameRun(i, j) ==
  /\ i \in TI!Items \ TI!Alone /\ j \in TI!Items \ TI!Alone
  /\ \A k \in TI!Alone : ~(i < k /\ k < j) /\ ~(j < k /\ k < i)

LEMMA RailIsRun ==
  ASSUME TI!Shapes, NEW rail \in TI!GroupRail
  PROVE  \E n \in 0..Len(v1) : rail = Run(n) /\ (n = Len(v1) \/ n + 1 \in TI!Alone)
<1>0. TI!Alone \subseteq 1..Len(v1) /\ Len(v1) \in Nat
  BY PlacesAreNumbers
<1>1. CASE rail \in TI!Flush(Len(v1))
  BY <1>0, <1>1, BufferIsRun DEF TI!Flush
<1>2. CASE rail \in TI!Unflushed
  <2>1. PICK i \in TI!Alone : rail \in TI!Flush(i - 1)
    BY <1>2 DEF TI!Unflushed
  <2>2. i - 1 \in 0..Len(v1) /\ (i - 1) + 1 = i /\ rail = TI!Buffer[i - 1]
    BY <1>0, <2>1 DEF TI!Flush
  <2> QED
    BY <2>2, BufferIsRun
<1> QED
  BY <1>1, <1>2 DEF TI!GroupRail

(* Two places are on one rail when nothing stands alone between them.      *)
LEMMA RailMembers ==
  ASSUME TI!Shapes, NEW rail \in TI!GroupRail, NEW i \in rail
  PROVE  \A j : j \in rail <=> SameRun(i, j)
<1>0. /\ TI!Alone \subseteq TI!Items /\ TI!Items \subseteq 1..Len(v1) /\ Len(v1) \in Nat
  BY PlacesAreNumbers
<1>1. PICK n \in 0..Len(v1) : rail = Run(n) /\ (n = Len(v1) \/ n + 1 \in TI!Alone)
  BY RailIsRun
<1>2. ASSUME NEW j \in rail PROVE SameRun(i, j)
  BY <1>0, <1>1 DEF Run, SameRun
<1>3. ASSUME NEW j, SameRun(i, j) PROVE j \in rail
  <2>1. /\ i \in TI!Items \ TI!Alone /\ j \in TI!Items \ TI!Alone /\ i <= n
        /\ i \in Nat /\ j \in Nat /\ j <= Len(v1)
    BY <1>0, <1>1, <1>3 DEF Run, SameRun
  <2>2. j <= n
    BY <1>0, <1>1, <1>3, <2>1 DEF SameRun
  <2>3. ASSUME NEW k \in TI!Alone, j <= k, k <= n PROVE FALSE
    <3>1. k \in Nat /\ k # i /\ k # j
      BY <1>0, <2>1
    <3>2. k < i
      BY <1>1, <2>1, <2>3, <3>1 DEF Run
    <3> QED
      BY <1>3, <2>1, <2>3, <3>1, <3>2 DEF SameRun
  <2> QED
    BY <1>1, <2>1, <2>2, <2>3 DEF Run
<1> QED
  BY <1>2, <1>3

(* Whatever is for the rail is on one.                                     *)
LEMMA RailCovers ==
  ASSUME TI!Shapes, NEW i \in TI!Items \ TI!Alone
  PROVE  \E rail \in TI!GroupRail : i \in rail
<1>0. /\ TI!Alone \subseteq TI!Items /\ TI!Items \subseteq 1..Len(v1) /\ Len(v1) \in Nat
  BY PlacesAreNumbers
<1> DEFINE After == {k \in TI!Alone : i < k}
<1>1. CASE After = {}
  <2>1. i \in Run(Len(v1))
    BY <1>0, <1>1 DEF Run
  <2>2. TI!Buffer[Len(v1)] = Run(Len(v1))
    BY <1>0, BufferIsRun
  <2>3. Run(Len(v1)) \in TI!Flush(Len(v1))
    BY <2>1, <2>2 DEF TI!Flush
  <2> QED
    BY <2>1, <2>3 DEF TI!GroupRail
<1>2. CASE After # {}
  <2>1. PICK a \in After : \A k \in After : a <= k
    <3>1. \A k \in TI!Alone : k \in Nat
      BY <1>0
    <3>2. After \in SUBSET Nat
      BY <3>1
    <3> HIDE DEF After
    <3> QED
      BY <1>2, <3>2, HasLeast
  <2>2. /\ a \in TI!Alone /\ a - 1 \in 0..Len(v1) /\ i <= a - 1
        /\ \A k \in TI!Alone : ~(i <= k /\ k <= a - 1)
    BY <1>0, <2>1
  <2>3. i \in Run(a - 1)
    BY <2>2 DEF Run
  <2>4. Run(a - 1) \in TI!Flush(a - 1)
    BY <2>2, <2>3, BufferIsRun DEF TI!Flush
  <2> QED
    BY <2>2, <2>3, <2>4 DEF TI!GroupRail, TI!Unflushed
<1> QED
  BY <1>1, <1>2

(* What is on a rail: no bundle, and no block of one.                      *)
LEMMA OnRails ==
  ASSUME TI!Shapes, NEW rail \in TI!GroupRail, NEW i \in rail
  PROVE  /\ i \in DOMAIN v1 /\ i \in TI!Items /\ i \notin TI!Alone /\ i \in Nat
         /\ TI!OnRail(i) /\ ~TI!Bundles(i) /\ ~TI!Consumed(i)
         /\ v1[i].kind \in {"thinking", "call", "result", "approval", "resolved"}
<1>1. i \in TI!Items \ TI!Alone
  BY RailMembers DEF SameRun
<1> QED
  BY <1>1, PlacesAreNumbers DEF TI!Items, TI!OnRail

(* A place is on one rail.                                                 *)
LEMMA OneRail ==
  ASSUME TI!Shapes, NEW r \in TI!GroupRail, NEW s \in TI!GroupRail, NEW i, i \in r, i \in s
  PROVE  r = s
  BY RailMembers

(* What a row of a rail shows, and whose it is.                            *)
LEMMA RowShows ==
  ASSUME TI!Shapes, NEW rail \in TI!GroupRail, NEW h \in rail, NEW j \in TI!Shows(rail, h)
  PROVE  /\ j \in rail
         /\ \/ j = h
            \/ /\ v1[j].call = v1[h].call /\ v1[h].call # None
               /\ \/ v1[h].kind = "call" /\ v1[j].kind \in {"result", "approval", "resolved"}
                  \/ v1[h].kind = "result" /\ v1[j].kind = "resolved"
<1>1. CASE j = h
  BY <1>1
<1>2. CASE j # h
  <2>1. PICK k \in {"result", "approval", "resolved"} :
          /\ j \in TI!Mates(rail, h, k)
          /\ v1[h].kind = "call" \/ (v1[h].kind = "result" /\ k = "resolved")
    BY <1>2 DEF TI!Shows
  <2>2. j \in rail /\ v1[j] = TI!Block(k, v1[h].call)
    BY <2>1 DEF TI!Mates
  <2>3. v1[j].kind = k /\ v1[j].call = v1[h].call
    BY <2>2, KindOfBlock
  <2>4. v1[h].call # None
    BY <2>1, OnRails DEF TI!Shapes
  <2> QED
    BY <2>1, <2>2, <2>3, <2>4
<1> QED
  BY <1>1, <1>2

LEMMA ShowsMate ==
  ASSUME TI!Shapes, NEW rail \in TI!GroupRail, NEW h \in rail, NEW j \in rail,
         v1[j].call = v1[h].call,
         \/ v1[h].kind = "call" /\ v1[j].kind \in {"result", "approval", "resolved"}
         \/ v1[h].kind = "result" /\ v1[j].kind = "resolved"
  PROVE  j \in TI!Shows(rail, h)
<1>1. v1[j] = TI!Block(v1[j].kind, v1[h].call)
  BY OnRails, BlockTypes
<1>2. j \in TI!Mates(rail, h, v1[j].kind)
  BY <1>1 DEF TI!Mates
<1> QED
  BY <1>2 DEF TI!Shows

(* There are two kinds of rows.                                            *)
LEMMA RowKinds ==
  ASSUME NEW r \in TI!Rows
  PROVE  \/ \E rail \in TI!GroupRail :
              /\ r.at \in rail /\ TI!HasRow(rail, r.at)
              /\ r.shows = TI!Shows(rail, r.at)
         \/ r.at \in TI!Alone /\ r.shows = TI!BundleOf(r.at)
<1>1. CASE \E i \in TI!Alone : r = [at |-> i, shows |-> TI!BundleOf(i)]
  BY <1>1
<1>2. CASE \E rail \in TI!GroupRail : r \in TI!BuildRows(rail)
  <2>1. PICK rail \in TI!GroupRail : r \in TI!BuildRows(rail)
    BY <1>2
  <2>2. PICK i \in rail : TI!HasRow(rail, i) /\ r = [at |-> i, shows |-> TI!Shows(rail, i)]
    BY <2>1 DEF TI!BuildRows
  <2>3. r.at = i /\ r.shows = TI!Shows(rail, i)
    BY <2>2
  <2> QED
    BY <2>2, <2>3
<1> QED
  BY <1>1, <1>2 DEF TI!Rows

LEMMA RowsEqual ==
  ASSUME NEW r \in TI!Rows, NEW s \in TI!Rows, r.at = s.at, r.shows = s.shows
  PROVE  r = s
<1>1. \A q \in TI!Rows : \E i, S : q = [at |-> i, shows |-> S]
  BY DEF TI!Rows, TI!BuildRows
<1>2. PICK i, S : r = [at |-> i, shows |-> S]
  BY <1>1
<1>3. PICK j, T : s = [at |-> j, shows |-> T]
  BY <1>1
<1> QED
  BY <1>2, <1>3

LEMMA RailRow ==
  ASSUME NEW rail \in TI!GroupRail, NEW i \in rail, TI!HasRow(rail, i)
  PROVE  [at |-> i, shows |-> TI!Shows(rail, i)] \in TI!Rows
  BY DEF TI!Rows, TI!BuildRows

LEMMA AloneRow ==
  ASSUME NEW i \in TI!Alone
  PROVE  [at |-> i, shows |-> TI!BundleOf(i)] \in TI!Rows
  BY DEF TI!Rows

(* Rows of one place are one row.                                          *)
LEMMA RowsDiffer ==
  ASSUME TI!Shapes, NEW r \in TI!Rows, NEW s \in TI!Rows, r.at = s.at
  PROVE  r = s
<1>1. CASE r.at \in TI!Alone
  <2>1. \A rail \in TI!GroupRail : r.at \notin rail
    BY <1>1, OnRails
  <2>2. r.shows = TI!BundleOf(r.at)
    BY <2>1, RowKinds
  <2>3. s.shows = TI!BundleOf(s.at)
    BY <2>1, RowKinds
  <2> QED
    BY <2>2, <2>3, RowsEqual
<1>2. CASE r.at \notin TI!Alone
  <2>1. PICK a \in TI!GroupRail : r.at \in a /\ r.shows = TI!Shows(a, r.at)
    BY <1>2, RowKinds
  <2>2. PICK b \in TI!GroupRail : s.at \in b /\ s.shows = TI!Shows(b, s.at)
    BY <1>2, RowKinds
  <2>3. a = b
    BY <2>1, <2>2, OneRail
  <2> QED
    BY <2>1, <2>2, <2>3, RowsEqual
<1> QED
  BY <1>1, <1>2

(* The call a block is about is shown, and it is one.                      *)
LEMMA CallOfBlock ==
  ASSUME TI!InductiveInv, NEW i \in DOMAIN v1, v1[i].call # None
  PROVE  \E c \in DOMAIN v1 : /\ c <= i /\ v1[c] = TI!Block("call", v1[i].call)
                              /\ v1[c].kind = "call" /\ v1[c].call = v1[i].call
<1>1. PICK c \in DOMAIN v1 : c <= i /\ v1[c] = TI!Block("call", v1[i].call)
  BY DEF TI!InductiveInv, TI!CallFirst
<1> QED
  BY <1>1, KindOfBlock

LEMMA OneOfKind ==
  ASSUME TI!InductiveInv, NEW i \in DOMAIN v1, NEW j \in DOMAIN v1,
         v1[i].call = v1[j].call, v1[i].kind = v1[j].kind, v1[i].kind # "thinking",
         v1[i].kind # "text"
  PROVE  i = j
<1>1. v1[i].call # None
  BY DEF TI!InductiveInv, TI!Shapes
<1> QED
  BY <1>1 DEF TI!InductiveInv, TI!Once

(* What the row of a block that stands alone shows.                        *)
LEMMA BundleShows ==
  ASSUME NEW h \in TI!Alone, NEW j \in TI!BundleOf(h)
  PROVE  \/ j = h
         \/ /\ j \in DOMAIN v1 /\ v1[h].kind = "call" /\ v1[j].call = v1[h].call
            /\ TI!Consumed(j)
  BY DEF TI!BundleOf, TI!Bundles

(* A block shown by a rail's row is on that rail.                          *)
LEMMA RowOnRail ==
  ASSUME TI!Shapes, NEW rail \in TI!GroupRail, NEW i \in rail,
         NEW r \in TI!Rows, i \in r.shows
  PROVE  /\ r.at \in rail /\ TI!HasRow(rail, r.at) /\ i \in TI!Shows(rail, r.at)
         /\ r = [at |-> r.at, shows |-> TI!Shows(rail, r.at)]
<1>1. i \notin TI!Alone /\ ~TI!Consumed(i)
  BY OnRails
<1>2. ~(r.at \in TI!Alone /\ r.shows = TI!BundleOf(r.at))
  BY <1>1, BundleShows
<1>3. PICK s \in TI!GroupRail :
        r.at \in s /\ TI!HasRow(s, r.at) /\ r.shows = TI!Shows(s, r.at)
  BY <1>2, RowKinds
<1>4. i \in s
  BY <1>3, RowShows
<1>5. s = rail
  BY <1>4, OneRail
<1>6. [at |-> r.at, shows |-> TI!Shows(rail, r.at)] \in TI!Rows
  BY <1>3, <1>5, RailRow
<1> QED
  BY <1>3, <1>5, <1>6, RowsEqual

(* The rows that show place i.                                             *)
RowsOf(i) == {r \in TI!Rows : i \in r.shows}

(* A subagent's block and its result are in the row of their call.         *)
LEMMA ConsumedOnce ==
  ASSUME TI!InductiveInv, NEW i \in DOMAIN v1, TI!Consumed(i)
  PROVE  \E r \in RowsOf(i) : RowsOf(i) = {r}
<1>0. TI!Shapes /\ i \notin TI!Items
  BY DEF TI!InductiveInv, TI!Items
<1>1. v1[i].call # None
  BY <1>0 DEF TI!Consumed, TI!Shapes
<1>2. PICK c \in DOMAIN v1 : v1[c].kind = "call" /\ v1[c].call = v1[i].call
  BY <1>1, CallOfBlock
<1>3. TI!Bundles(c)
  BY <1>2 DEF TI!Consumed, TI!Bundles, TI!Bundled
<1>4. c \in TI!Alone
  BY <1>2, <1>3 DEF TI!Alone, TI!Items, TI!OnRail, TI!Consumed
<1> DEFINE row == [at |-> c, shows |-> TI!BundleOf(c)]
<1>5. row \in TI!Rows /\ row.at = c
  BY <1>4, AloneRow
<1>6. i \in row.shows
  BY <1>2, <1>3 DEF TI!BundleOf
<1> HIDE DEF row
<1>7. ASSUME NEW r \in TI!Rows, i \in r.shows PROVE r = row
  <2>1. ASSUME NEW rail \in TI!GroupRail, r.at \in rail, r.shows = TI!Shows(rail, r.at)
        PROVE  FALSE
    <3>1. i \in rail
      BY <1>0, <1>7, <2>1, RowShows
    <3> QED
      BY <1>0, <3>1, OnRails
  <2>2. r.at \in TI!Alone /\ r.shows = TI!BundleOf(r.at)
    BY <2>1, RowKinds
  <2>3. r.at # i /\ r.at \in DOMAIN v1
    BY <1>0, <2>2, PlacesAreNumbers
  <2>4. v1[r.at].kind = "call" /\ v1[i].call = v1[r.at].call
    BY <1>7, <2>2, <2>3, BundleShows
  <2>5. r.at = c
    BY <1>2, <2>3, <2>4, OneOfKind
  <2> QED
    BY <1>0, <1>5, <2>5, RowsDiffer
<1> QED
  BY <1>5, <1>6, <1>7 DEF RowsOf

(* What stands alone is a row.                                             *)
LEMMA AloneOnce ==
  ASSUME TI!InductiveInv, NEW i \in TI!Alone
  PROVE  \E r \in RowsOf(i) : RowsOf(i) = {r}
<1>0. TI!Shapes
  BY DEF TI!InductiveInv
<1>1. ~TI!Consumed(i)
  BY DEF TI!Alone, TI!Items
<1> DEFINE row == [at |-> i, shows |-> TI!BundleOf(i)]
<1>2. row \in TI!Rows /\ row.at = i /\ i \in row.shows
  BY AloneRow DEF TI!BundleOf
<1> HIDE DEF row
<1>3. ASSUME NEW r \in TI!Rows, i \in r.shows PROVE r = row
  <2>1. ASSUME NEW rail \in TI!GroupRail, r.at \in rail, r.shows = TI!Shows(rail, r.at)
        PROVE  FALSE
    <3>1. i \in rail
      BY <1>0, <1>3, <2>1, RowShows
    <3> QED
      BY <1>0, <3>1, OnRails
  <2>2. r.at \in TI!Alone /\ r.shows = TI!BundleOf(r.at)
    BY <2>1, RowKinds
  <2>3. r.at = i
    BY <1>1, <1>3, <2>2, BundleShows
  <2> QED
    BY <1>0, <1>2, <2>3, RowsDiffer
<1> QED
  BY <1>2, <1>3 DEF RowsOf

(* On a rail a block is in the row of its call, of a lone result, or in    *)
(* its own.                                                                *)
LEMMA OnRailOnce ==
  ASSUME TI!InductiveInv, NEW rail \in TI!GroupRail, NEW i \in rail
  PROVE  \/ \E r \in RowsOf(i) : RowsOf(i) = {r}
         \/ RowsOf(i) = {} /\ v1[i].kind = "resolved"
<1>0. TI!Shapes
  BY DEF TI!InductiveInv
<1>1. \A j \in rail :
        /\ j \in DOMAIN v1 /\ v1[j] = TI!Block(v1[j].kind, v1[j].call)
        /\ v1[j].kind \in {"thinking", "call", "result", "approval", "resolved"}
  BY <1>0, OnRails, BlockTypes
<1> DEFINE Row(h) == [at |-> h, shows |-> TI!Shows(rail, h)]
           Of(h) == /\ v1[h].call = v1[i].call
                    /\ \/ v1[h].kind = "call" /\ v1[i].kind \in {"result", "approval", "resolved"}
                       \/ v1[h].kind = "result" /\ v1[i].kind = "resolved"
<1>2. ASSUME NEW h \in rail, TI!HasRow(rail, h), i \in TI!Shows(rail, h),
             \A g \in rail : TI!HasRow(rail, g) /\ (g = i \/ Of(g)) => g = h
      PROVE  \E r \in RowsOf(i) : RowsOf(i) = {r}
  <2>1. Row(h) \in TI!Rows /\ i \in Row(h).shows
    BY <1>2, RailRow
  <2>2. ASSUME NEW r \in TI!Rows, i \in r.shows PROVE r = Row(h)
    <3>1. /\ r.at \in rail /\ TI!HasRow(rail, r.at) /\ i \in TI!Shows(rail, r.at)
          /\ r = Row(r.at)
      BY <1>0, <2>2, RowOnRail
    <3>2. r.at = i \/ Of(r.at)
      BY <1>0, <3>1, RowShows
    <3>3. r.at = h
      BY <1>2, <3>1, <3>2
    <3> QED
      BY <3>1, <3>3
  <2> HIDE DEF Row
  <2> QED
    BY <2>1, <2>2 DEF RowsOf
<1>3. CASE \E c \in rail : Of(c) /\ v1[c].kind = "call"
  <2>1. PICK c \in rail : Of(c) /\ v1[c].kind = "call"
    BY <1>3
  <2>2. TI!HasRow(rail, c)
    BY <2>1 DEF TI!HasRow
  <2>3. i \in TI!Shows(rail, c)
    BY <1>0, <2>1, ShowsMate
  <2>4. c \in TI!Mates(rail, i, "call")
    BY <1>1, <2>1 DEF TI!Mates
  <2>5. ~TI!HasRow(rail, i)
    BY <2>1, <2>4 DEF TI!HasRow
  <2>6. ASSUME NEW g \in rail, TI!HasRow(rail, g), Of(g) PROVE g = c
    <3>1. CASE v1[g].kind = "call"
      BY <1>1, <2>1, <2>6, <3>1, OneOfKind
    <3>2. CASE v1[g].kind = "result"
      <4>1. c \in TI!Mates(rail, g, "call")
        BY <1>1, <2>1, <2>6 DEF TI!Mates
      <4> QED
        BY <2>6, <3>2, <4>1 DEF TI!HasRow
    <3> QED
      BY <2>6, <3>1, <3>2
  <2> QED
    BY <1>2, <2>2, <2>3, <2>5, <2>6
<1>4. CASE ~\E c \in rail : Of(c) /\ v1[c].kind = "call"
  <2>1. CASE v1[i].kind # "resolved"
    <3>1. TI!HasRow(rail, i)
      <4>1. CASE v1[i].kind \in {"result", "approval"}
        <5>1. TI!Mates(rail, i, "call") = {}
          BY <1>4, <4>1, KindOfBlock DEF TI!Mates
        <5> QED
          BY <4>1, <5>1 DEF TI!HasRow
      <4>2. CASE v1[i].kind \notin {"result", "approval"}
        BY <2>1, <4>2 DEF TI!HasRow
      <4> QED
        BY <4>1, <4>2
    <3>2. i \in TI!Shows(rail, i)
      BY DEF TI!Shows
    <3>3. \A g \in rail : Of(g) => FALSE
      BY <1>4, <2>1
    <3> QED
      BY <1>2, <3>1, <3>2, <3>3
  <2>2. CASE v1[i].kind = "resolved" /\ \E h \in rail : Of(h)
    <3>1. PICK h \in rail : Of(h)
      BY <2>2
    <3>2. v1[h].kind = "result" /\ v1[h].call = v1[i].call
      BY <1>4, <3>1
    <3>3. TI!Mates(rail, h, "call") = {}
      BY <1>4, <2>2, <3>2, KindOfBlock DEF TI!Mates
    <3>4. TI!HasRow(rail, h)
      BY <3>2, <3>3 DEF TI!HasRow
    <3>5. i \in TI!Shows(rail, h)
      BY <1>0, <3>1, ShowsMate
    <3>6. ~TI!HasRow(rail, i)
      BY <2>2 DEF TI!HasRow
    <3>7. ASSUME NEW g \in rail, Of(g) PROVE g = h
      <4>1. v1[g].kind = "result" /\ v1[g].call = v1[i].call
        BY <1>4, <3>7
      <4> QED
        BY <1>1, <3>2, <4>1, OneOfKind
    <3> QED
      BY <1>2, <3>4, <3>5, <3>6, <3>7
  <2>3. CASE v1[i].kind = "resolved" /\ ~\E h \in rail : Of(h)
    <3>1. ~TI!HasRow(rail, i)
      BY <2>3 DEF TI!HasRow
    <3>2. ASSUME NEW r \in TI!Rows, i \in r.shows PROVE FALSE
      <4>1. r.at \in rail /\ TI!HasRow(rail, r.at) /\ i \in TI!Shows(rail, r.at)
        BY <1>0, <3>2, RowOnRail
      <4>2. r.at = i \/ Of(r.at)
        BY <1>0, <4>1, RowShows
      <4> QED
        BY <2>3, <3>1, <4>1, <4>2
    <3> QED
      BY <2>3, <3>2 DEF RowsOf
  <2> QED
    BY <2>1, <2>2, <2>3
<1> QED
  BY <1>3, <1>4

(* A row is where its first block is; only a decision may be before it.    *)
LEMMA RowHasFirst ==
  ASSUME TI!Shapes, NEW r \in TI!Rows
  PROVE  r.at \in DOMAIN v1 /\ r.at \in r.shows /\ r.shows \subseteq DOMAIN v1
<1>1. ASSUME NEW rail \in TI!GroupRail, r.at \in rail, r.shows = TI!Shows(rail, r.at)
      PROVE  r.at \in DOMAIN v1 /\ r.at \in r.shows /\ r.shows \subseteq DOMAIN v1
  <2>1. r.shows \subseteq rail
    BY <1>1, RowShows
  <2>2. rail \subseteq DOMAIN v1
    BY OnRails
  <2>3. r.at \in r.shows
    BY <1>1 DEF TI!Shows
  <2> QED
    BY <2>1, <2>2, <2>3
<1>2. ASSUME r.at \in TI!Alone, r.shows = TI!BundleOf(r.at)
      PROVE  r.at \in DOMAIN v1 /\ r.at \in r.shows /\ r.shows \subseteq DOMAIN v1
  BY <1>2, PlacesAreNumbers DEF TI!BundleOf
<1> QED
  BY <1>1, <1>2, RowKinds

LEMMA RowIsFirst ==
  ASSUME TI!InductiveInv, NEW r \in TI!Rows, NEW j \in r.shows
  PROVE  r.at <= j \/ v1[j].kind = "resolved"
<1>0. TI!Shapes
  BY DEF TI!InductiveInv
<1>1. r.at \in DOMAIN v1 /\ j \in DOMAIN v1 /\ r.at \in Nat /\ r.at <= r.at
  BY <1>0, RowHasFirst, PlacesAreNumbers
<1>2. ASSUME v1[r.at].kind = "call", v1[j].call = v1[r.at].call
      PROVE  r.at <= j
  <2>1. v1[j].call # None
    BY <1>0, <1>1, <1>2 DEF TI!Shapes
  <2>2. PICK c \in DOMAIN v1 : c <= j /\ v1[c].kind = "call" /\ v1[c].call = v1[j].call
    BY <1>1, <2>1, CallOfBlock
  <2>3. c = r.at
    BY <1>1, <1>2, <2>2, OneOfKind
  <2> QED
    BY <2>2, <2>3
<1>3. ASSUME NEW rail \in TI!GroupRail, r.at \in rail, r.shows = TI!Shows(rail, r.at)
      PROVE  r.at <= j \/ v1[j].kind = "resolved"
  <2>1. \/ j = r.at
        \/ v1[j].kind = "resolved"
        \/ v1[r.at].kind = "call" /\ v1[j].call = v1[r.at].call
    BY <1>0, <1>3, RowShows
  <2> QED
    BY <1>1, <1>2, <2>1
<1>4. ASSUME r.at \in TI!Alone, r.shows = TI!BundleOf(r.at)
      PROVE  r.at <= j
  <2>1. j = r.at \/ (v1[r.at].kind = "call" /\ v1[j].call = v1[r.at].call)
    BY <1>4, BundleShows
  <2> QED
    BY <1>1, <1>2, <2>1
<1> QED
  BY <1>3, <1>4, RowKinds

LEMMA ShownOnce ==
  ASSUME TI!InductiveInv
  PROVE  TI!EachShownOnce
<1>0. TI!Shapes
  BY DEF TI!InductiveInv
<1>1. ASSUME NEW i \in DOMAIN v1
      PROVE  \/ \E r \in RowsOf(i) : RowsOf(i) = {r}
             \/ RowsOf(i) = {} /\ v1[i].kind = "resolved"
  <2>1. CASE i \notin TI!Items
    <3>1. TI!Consumed(i)
      BY <2>1 DEF TI!Items
    <3> QED
      BY <3>1, ConsumedOnce
  <2>2. CASE i \in TI!Alone
    BY <2>2, AloneOnce
  <2>3. CASE i \in TI!Items \ TI!Alone
    <3>1. PICK rail \in TI!GroupRail : i \in rail
      BY <1>0, <2>3, RailCovers
    <3> QED
      BY <3>1, OnRailOnce
  <2> QED
    BY <2>1, <2>2, <2>3
<1>2. ASSUME NEW r \in TI!Rows, NEW s \in TI!Rows, r.at < s.at
      PROVE  \E i \in r.shows : \A j \in s.shows : i < j \/ v1[j].kind = "resolved"
  <2>1. r.at \in r.shows /\ r.at \in Nat
    BY <1>0, RowHasFirst, PlacesAreNumbers
  <2>2. ASSUME NEW j \in s.shows PROVE r.at < j \/ v1[j].kind = "resolved"
    <3>1. s.at \in Nat /\ j \in Nat /\ (s.at <= j \/ v1[j].kind = "resolved")
      BY <1>0, RowIsFirst, RowHasFirst, PlacesAreNumbers
    <3> QED
      BY <1>2, <2>1, <3>1
  <2> QED
    BY <2>1, <2>2
<1>3. \A r, s \in TI!Rows : r.at = s.at => r = s
  BY <1>0, RowsDiffer
<1> QED
  BY <1>1, <1>2, <1>3 DEF TI!EachShownOnce, RowsOf

(* A row that spins is a call's on a rail; its result is not on that rail. *)
LEMMA SpinsWhenSplit ==
  ASSUME TI!InductiveInv
  PROVE  TI!SpinsOnlyWhenSplit
<1>0. TI!Shapes
  BY DEF TI!InductiveInv
<1> SUFFICES ASSUME NEW r \in TI!Rows, TI!Running(r), NEW i \in r.shows,
                    NEW j \in DOMAIN v1,
                    v1[i].kind = "call", v1[j] = TI!Block("result", v1[i].call)
             PROVE  \E k \in TI!Alone : i < k /\ k < j
  BY DEF TI!SpinsOnlyWhenSplit
<1>1. PICK c \in r.shows : v1[c].kind = "call" /\ ~TI!Bundles(c)
  BY DEF TI!Running
<1>2. PICK rail \in TI!GroupRail :
        r.at \in rail /\ TI!HasRow(rail, r.at) /\ r.shows = TI!Shows(rail, r.at)
  <2>1. ASSUME r.at \in TI!Alone, r.shows = TI!BundleOf(r.at) PROVE FALSE
    <3>1. c = r.at
      BY <1>1, <2>1, BundleShows DEF TI!Consumed
    <3>2. TI!OnRail(c)
      BY <1>1 DEF TI!OnRail
    <3> QED
      BY <2>1, <3>1, <3>2 DEF TI!Alone
  <2> QED
    BY <2>1, RowKinds
<1>3. i = r.at /\ i \in rail
  BY <1>0, <1>2, RowShows
<1>4. i \in DOMAIN v1 /\ i \in TI!Items \ TI!Alone /\ i \in Nat /\ ~TI!Bundles(i)
  BY <1>0, <1>2, <1>3, OnRails
<1>5. v1[j].kind = "result" /\ v1[j].call = v1[i].call
  BY KindOfBlock
<1>6. i < j /\ j \in Nat
  <2>1. v1[j].call # None
    BY <1>0, <1>5 DEF TI!Shapes
  <2>2. PICK d \in DOMAIN v1 : d <= j /\ v1[d].kind = "call" /\ v1[d].call = v1[j].call
    BY <2>1, CallOfBlock
  <2>3. d = i
    BY <1>4, <1>5, <2>2, OneOfKind
  <2>4. i # j
    BY <1>5
  <2> QED
    BY <1>0, <1>4, <2>2, <2>3, <2>4, PlacesAreNumbers
<1>7. j \in TI!Items \ TI!Alone
  <2>1. ~TI!Consumed(j)
    BY <1>4, <1>5 DEF TI!Consumed, TI!Bundles, TI!Bundled
  <2>2. TI!OnRail(j)
    BY <1>5 DEF TI!OnRail, TI!Bundles
  <2> QED
    BY <2>1, <2>2 DEF TI!Items, TI!Alone
<1>8. SUFFICES ASSUME ~\E k \in TI!Alone : i < k /\ k < j
               PROVE  FALSE
  OBVIOUS
<1>9. SameRun(i, j)
  <2>1. \A k \in TI!Alone : ~(j < k /\ k < i)
    BY <1>0, <1>4, <1>6, PlacesAreNumbers
  <2> QED
    BY <1>4, <1>7, <1>8, <2>1 DEF SameRun
<1>10. j \in rail
  BY <1>0, <1>3, <1>9, RailMembers
<1>11. j \in r.shows
  BY <1>0, <1>2, <1>3, <1>5, <1>10, ShowsMate
<1> QED
  BY <1>5, <1>11 DEF TI!Running

(* transcript.tsx, group-rail-segments.ts, activity-timeline.tsx: in       *)
(* whatever order events follow their call, each block of the transcript   *)
(* is in one row (a decision that was taken may be in none), the rows are  *)
(* in the order of their first blocks, and a call spins on after its       *)
(* result only when a block that stands alone is between them.             *)
THEOREM TimelineStaysTrue ==
  ASSUME RailAssumptions
  PROVE  Spec => []TimelineIsTrue
<1> DEFINE Inv == part = "rail" => TI!InductiveInv
<1>1. Init => Inv
  BY RailStarts DEF Init
<1>2. Inv /\ [Next]_vars => Inv'
  BY PartStays, RailSteps, RailKeeps
<1>3. Inv => TimelineIsTrue
  BY ShownOnce, SpinsWhenSplit DEF TimelineIsTrue, TI!TimelineIsTrue
<1> QED
  BY <1>1, <1>2, <1>3, PTL DEF Spec

=============================================================================
