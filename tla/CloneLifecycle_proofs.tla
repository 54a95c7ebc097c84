------------------------- MODULE CloneLifecycle_proofs -------------------------
(* Theorems about CloneLifecycle, for every number of names, clones,       *)
(* requests and restarts, and about ProjectList, for every number of those *)
(* but restarts, of listings in flight and of drops of the socket.         *)
EXTENDS ProjectList, SequenceTheorems, TLAPS

-----------------------------------------------------------------------------
DiskType == disk \in [Names -> [by : Tasks \cup {Local, NoOne}, full : BOOLEAN]]

TaskType == task \in [Tasks -> [st : Stages, name : Names, aborted : BOOLEAN,
                                again : BOOLEAN, marked : BOOLEAN, dead : BOOLEAN]]

RestType == /\ marker \subseteq Names
            /\ clones \in Seq(Tasks)
            /\ deleting \in [Names -> {"no", "folder", "metadata"}]
            /\ up \in BOOLEAN

TypeOK == DiskType /\ TaskType /\ RestType

Working == {"claimed", "running", "cloned", "rollback"}

(* A server that is down runs no clone; one that is up lists those that    *)
(* work.                                                                   *)
Registered == /\ up \/ \A t \in Tasks : ~Alive(t)
          /\ \A t \in Tasks : Alive(t) /\ task[t].st \in Working => t \in Entries

(* What a folder that a clone made says of that clone.                     *)
Owned ==
  \A n \in Names :
    /\ disk[n].by = NoOne => ~disk[n].full
    /\ disk[n].by \in Tasks =>
         LET t == disk[n].by IN
         /\ task[t].name = n /\ task[t].st \notin {"new", "emptying"}
         /\ disk[n].full => task[t].st \notin {"claimed", "running"}
         /\ disk[n].full \/ task[t].dead \/ task[t].st \in Working \ {"cloned"}

(* A clone at work has its folder, or lost it to a removal.                *)
Holds == \A t \in Tasks :
           Alive(t) /\ task[t].st \in Working => disk[task[t].name].by = t \/ t \in disturbed

(* A marker is that of a clone that is past its start, and the folder is   *)
(* half of it until git has finished.                                      *)
Marked ==
  /\ \A t \in Tasks : task[t].st \in {"new", "emptying", "claimed"} => ~task[t].marked
  /\ \A n \in marker : \E t \in Tasks :
       /\ task[t].name = n /\ (up => ~task[t].dead)
       /\ \/ task[t].st \in {"cloned", "rollback", "unmarking"}
          \/ /\ task[t].st = "running"
             /\ t \in disturbed \/ (disk[n].by = t /\ ~disk[n].full)

(* Half a folder whose clone wrote a marker has it still, or an earlier    *)
(* clone of that name took it away.                                        *)
Flagged ==
  \A n \in Names :
    LET t == disk[n].by IN
    t \in Tasks /\ ~disk[n].full /\ task[t].marked =>
      \/ n \in marker /\ (up => ~task[t].dead)
      \/ \E u \in Tasks \ {t} : task[u].name = n /\ task[u].st = "done"

IInv == TypeOK /\ Registered /\ Owned /\ Holds /\ Marked /\ Flagged

LEMMA InitInv == Init => IInv
<1> SUFFICES ASSUME Init PROVE IInv
  OBVIOUS
<1>1. TypeOK
  <2>1. 1 \in Names
    BY BoundAssumption DEF Names
  <2>2. clones \in Seq(Tasks)
    BY EmptySeq DEF Init
  <2> QED
    BY <2>1, <2>2 DEF Init, TypeOK, DiskType, TaskType, RestType, Absent, Stages
<1>2. Registered /\ Owned /\ Holds /\ Marked /\ Flagged
  BY WhoAssumption DEF Init, Registered, Owned, Holds, Marked, Flagged, Alive, Absent
<1> QED
  BY <1>1, <1>2 DEF IInv

(* What registering a clone and taking one out does to the others.         *)
LEMMA RegisterKeeps ==
  ASSUME NEW t \in Tasks, clones \in Seq(Tasks), Register(t)
  PROVE  clones' \in Seq(Tasks) /\ t \in Entries' /\ Entries \subseteq Entries'
<1>1. /\ clones' \in Seq(Tasks) /\ Len(clones') = Len(clones) + 1 /\ Len(clones) \in Nat
      /\ clones'[Len(clones) + 1] = t /\ \A i \in 1..Len(clones) : clones'[i] = clones[i]
      /\ DOMAIN clones = 1..Len(clones) /\ DOMAIN clones' = 1..Len(clones')
  BY AppendProperties DEF Register
<1> QED
  BY <1>1 DEF Entries

LEMMA UnregisterEffect ==
  ASSUME NEW t \in Tasks, clones \in Seq(Tasks), Unregister(t)
  PROVE  /\ clones' \in Seq(Tasks) /\ Len(clones) \in Nat
         /\ \E i \in 1..Len(clones) :
              /\ clones[i] = t /\ Len(clones') = Len(clones) - 1
              /\ \A j \in 1..(Len(clones) - 1) :
                   clones'[j] = IF j < i THEN clones[j] ELSE clones[j + 1]
<1>0. DOMAIN clones = 1..Len(clones) /\ Len(clones) \in Nat
  BY LenProperties
<1>1. PICK i \in 1..Len(clones) :
        /\ clones[i] = t
        /\ clones' = SubSeq(clones, 1, i - 1) \o SubSeq(clones, i + 1, Len(clones))
  BY <1>0 DEF Unregister
<1> DEFINE p == SubSeq(clones, 1, i - 1)
           q == SubSeq(clones, i + 1, Len(clones))
<1>2. Len(clones) \in Nat /\ \A j \in 1..Len(clones) : clones[j] \in Tasks
  OBVIOUS
<1>3. /\ p \in Seq(Tasks) /\ Len(p) = i - 1
      /\ \A j \in 1..(i - 1) : p[j] = clones[j]
  BY <1>2, SubSeqProperties
<1>4. /\ q \in Seq(Tasks) /\ Len(q) = Len(clones) - i
      /\ \A j \in 1..(Len(clones) - i) : q[j] = clones[i + j]
  <2>1. /\ q \in Seq(Tasks)
        /\ Len(q) = IF i + 1 <= Len(clones) THEN Len(clones) - (i + 1) + 1 ELSE 0
        /\ \A j \in 1..(Len(clones) - (i + 1) + 1) : q[j] = clones[(i + 1) + j - 1]
    BY <1>2, SubSeqProperties
  <2> QED
    BY <1>2, <2>1
<1> HIDE DEF p, q
<1>5. /\ p \o q \in Seq(Tasks) /\ Len(p \o q) = Len(clones) - 1
      /\ \A j \in 1..(Len(clones) - 1) :
           (p \o q)[j] = IF j <= i - 1 THEN p[j] ELSE q[j - (i - 1)]
  <2>1. /\ p \o q \in Seq(Tasks) /\ Len(p \o q) = Len(p) + Len(q)
        /\ \A j \in 1..(Len(p) + Len(q)) :
             (p \o q)[j] = IF j <= Len(p) THEN p[j] ELSE q[j - Len(p)]
    BY <1>3, <1>4, ConcatProperties
  <2>2. Len(p) + Len(q) = Len(clones) - 1
    BY <1>0, <1>3, <1>4
  <2> QED
    BY <1>3, <2>1, <2>2
<1>6. clones' = p \o q
  BY <1>1 DEF p, q
<1>7. ASSUME NEW j \in 1..(Len(clones) - 1)
      PROVE  clones'[j] = IF j < i THEN clones[j] ELSE clones[j + 1]
  <2>1. CASE j < i
    <3>1. j \in 1..(i - 1) /\ j <= i - 1
      BY <1>2, <2>1
    <3> QED
      BY <1>3, <1>5, <1>6, <2>1, <3>1
  <2>2. CASE ~(j < i)
    <3>1. /\ ~(j <= i - 1) /\ j - (i - 1) \in 1..(Len(clones) - i)
          /\ i + (j - (i - 1)) = j + 1
      BY <1>2, <2>2
    <3> QED
      BY <1>4, <1>5, <1>6, <2>2, <3>1
  <2> QED
    BY <2>1, <2>2
<1> QED
  BY <1>1, <1>2, <1>5, <1>6, <1>7

LEMMA UnregisterKeeps ==
  ASSUME NEW t \in Tasks, clones \in Seq(Tasks), Unregister(t)
  PROVE  clones' \in Seq(Tasks) /\ Entries \ {t} \subseteq Entries'
<1>1. PICK i \in 1..Len(clones) :
        /\ clones[i] = t /\ Len(clones') = Len(clones) - 1
        /\ \A j \in 1..(Len(clones) - 1) :
             clones'[j] = IF j < i THEN clones[j] ELSE clones[j + 1]
  BY UnregisterEffect
<1>2. /\ clones' \in Seq(Tasks) /\ Len(clones) \in Nat
      /\ DOMAIN clones = 1..Len(clones) /\ DOMAIN clones' = 1..Len(clones')
  BY UnregisterEffect, LenProperties
<1>3. ASSUME NEW k \in 1..Len(clones), clones[k] # t
      PROVE  \E j \in 1..Len(clones') : clones'[j] = clones[k]
  <2>1. CASE k < i
    BY <1>1, <1>2, <2>1
  <2>2. CASE k > i
    <3>1. k - 1 \in 1..(Len(clones) - 1) /\ ~(k - 1 < i) /\ (k - 1) + 1 = k
      BY <1>2, <2>2
    <3> QED
      BY <1>1, <3>1
  <2>3. k < i \/ k > i
    BY <1>1, <1>2, <1>3
  <2> QED
    BY <2>1, <2>2, <2>3
<1> QED
  BY <1>2, <1>3 DEF Entries

-----------------------------------------------------------------------------
(* What a step changes of one task: where it stands, and nothing else.     *)
LEMMA StepEffect ==
  ASSUME TaskType, NEW t \in Tasks, NEW s \in Stages, Step(t, s)
  PROVE  /\ TaskType'
         /\ \A u \in Tasks : /\ u # t => task'[u] = task[u]
                             /\ task'[u].name = task[u].name
                             /\ task'[u].marked = task[u].marked
                             /\ task'[u].dead = task[u].dead
         /\ task'[t].st = s
BY DEF TaskType, Step

(* What putting something in a folder, or emptying it, changes of the disk.*)
LEMMA DiskEffect ==
  ASSUME DiskType, NEW n \in Names, NEW by \in Tasks \cup {Local, NoOne},
         NEW full \in BOOLEAN,
         disk' = [disk EXCEPT ![n] = [by |-> by, full |-> full]]
  PROVE  /\ DiskType'
         /\ \A m \in Names \ {n} : disk'[m] = disk[m]
         /\ disk'[n].by = by /\ disk'[n].full = full
BY DEF DiskType

(* A folder is empty or holds what somebody put there.                     *)
LEMMA EmptyEffect ==
  ASSUME DiskType, NEW n \in Names, disk' = [disk EXCEPT ![n] = Absent]
  PROVE  /\ DiskType'
         /\ \A m \in Names \ {n} : disk'[m] = disk[m]
         /\ disk'[n].by = NoOne /\ disk'[n].full = FALSE
BY DEF DiskType, Absent

LEMMA PostInv ==
  ASSUME IInv, NEW t \in Tasks, Post(t)
  PROVE  IInv'
<1> USE DEF IInv, TypeOK
<1>1. PICK n \in Names :
        /\ Claims(n)
        /\ disk' = [disk EXCEPT ![n] = [by |-> t, full |-> FALSE]]
        /\ task' = [task EXCEPT ![t].st = "claimed", ![t].name = n]
  BY DEF Post
<1>2. disk[n].by = NoOne
  BY <1>1 DEF Claims, Free
<1>3. /\ DiskType' /\ disk'[n].by = t /\ disk'[n].full = FALSE
      /\ \A m \in Names \ {n} : disk'[m] = disk[m]
  BY <1>1, DiskEffect
<1>4. /\ TaskType' /\ task'[t].st = "claimed" /\ task'[t].name = n
      /\ task'[t].dead = task[t].dead /\ task'[t].marked = task[t].marked
      /\ \A u \in Tasks \ {t} : task'[u] = task[u]
  BY <1>1 DEF TaskType, Stages
<1>5. /\ up /\ up' /\ task[t].st = "new" /\ ~task[t].marked
      /\ marker' = marker /\ disturbed' = disturbed
  BY DEF Post, Ask, Marked
<1>6. clones' \in Seq(Tasks) /\ t \in Entries' /\ Entries \subseteq Entries'
  BY RegisterKeeps DEF Post, RestType
<1>7. TypeOK'
  BY <1>3, <1>4, <1>5, <1>6 DEF Post, RestType
<1>8. Registered'
  BY <1>4, <1>5, <1>6 DEF Registered, Alive
<1>9. Owned'
  BY <1>3, <1>4, <1>5, WhoAssumption DEF Owned, Working
<1>10. Holds'
  BY <1>2, <1>3, <1>4, <1>5, WhoAssumption DEF Holds, Alive, TaskType
<1>11. Marked'
  BY <1>2, <1>3, <1>4, <1>5, WhoAssumption DEF Marked, RestType
<1>12. Flagged'
  BY <1>3, <1>4, <1>5, WhoAssumption DEF Flagged, Owned
<1> QED
  BY <1>7, <1>8, <1>9, <1>10, <1>11, <1>12

LEMMA CreateBlankInv ==
  ASSUME IInv, CreateBlank
  PROVE  IInv'
<1> USE DEF IInv, TypeOK
<1>1. PICK n \in Names :
        Claims(n) /\ disk' = [disk EXCEPT ![n] = [by |-> Local, full |-> TRUE]]
  BY DEF CreateBlank
<1>2. disk[n].by = NoOne
  BY <1>1 DEF Claims, Free
<1>3. /\ DiskType' /\ disk'[n].by = Local /\ disk'[n].full = TRUE
      /\ \A m \in Names \ {n} : disk'[m] = disk[m]
  BY <1>1, DiskEffect
<1>4. /\ task' = task /\ clones' = clones /\ marker' = marker
      /\ disturbed' = disturbed /\ up' = up /\ deleting' = deleting
  BY DEF CreateBlank
<1>5. TypeOK' /\ Registered'
  BY <1>3, <1>4 DEF RestType, TaskType, Registered, Alive, Entries
<1>6. Owned'
  BY <1>3, <1>4, WhoAssumption DEF Owned
<1>7. Holds' /\ Marked'
  BY <1>2, <1>3, <1>4, WhoAssumption DEF Holds, Marked, Alive, TaskType, RestType
<1>8. Flagged'
  BY <1>3, <1>4, WhoAssumption DEF Flagged
<1> QED
  BY <1>5, <1>6, <1>7, <1>8

LEMMA WriteMarkerInv ==
  ASSUME IInv, NEW t \in Tasks, WriteMarker(t)
  PROVE  IInv'
<1> USE DEF IInv, TypeOK
<1>1. PICK wrote \in BOOLEAN :
        /\ marker' = IF wrote THEN marker \cup {task[t].name} ELSE marker
        /\ task' = [task EXCEPT ![t].st = "running", ![t].marked = wrote]
  BY DEF WriteMarker
<1>2. /\ TaskType' /\ task'[t].st = "running" /\ task'[t].marked = wrote
      /\ task'[t].name = task[t].name /\ task'[t].dead = task[t].dead
      /\ \A u \in Tasks \ {t} : task'[u] = task[u]
  BY <1>1 DEF TaskType, Stages
<1>3. /\ task[t].st = "claimed" /\ Alive(t) /\ ~task[t].dead /\ task[t].name \in Names
      /\ disk' = disk /\ clones' = clones /\ disturbed' = disturbed /\ up' = up
      /\ deleting' = deleting
  BY DEF WriteMarker, Alive, TaskType
<1>4. TypeOK'
  BY <1>1, <1>2, <1>3 DEF DiskType, RestType
<1>5. Registered'
  BY <1>2, <1>3 DEF Registered, Alive, Entries, Working
<1>6. Owned'
  BY <1>2, <1>3 DEF Owned, Working
<1>7. Holds'
  BY <1>2, <1>3 DEF Holds, Alive, Working
<1>8. (disk[task[t].name].by = t /\ ~disk[task[t].name].full) \/ t \in disturbed
  BY <1>3 DEF Holds, Owned, Working
<1>a. /\ marker \subseteq marker' /\ marker' \subseteq marker \cup {task[t].name}
      /\ task'[t].marked => task[t].name \in marker'
  <2>1. CASE wrote = TRUE
    BY <1>1, <2>1
  <2>2. CASE wrote = FALSE
    BY <1>1, <1>2, <2>2
  <2> QED
    BY <2>1, <2>2
<1>9. Marked'
  <2>1. \A u \in Tasks :
          task'[u].st \in {"new", "emptying", "claimed"} => ~task'[u].marked
    BY <1>2 DEF Marked
  <2>2. \A n \in marker : n # task[t].name =>
          \E u \in Tasks \ {t} :
            /\ task[u].name = n /\ (up => ~task[u].dead)
            /\ \/ task[u].st \in {"cloned", "rollback", "unmarking"}
               \/ /\ task[u].st = "running"
                  /\ u \in disturbed \/ (disk[n].by = u /\ ~disk[n].full)
    BY <1>3 DEF Marked
  <2>3. \A n \in marker' : n = task[t].name \/ n \in marker
    BY <1>a
  <2> QED
    BY <1>2, <1>3, <1>8, <2>1, <2>2, <2>3 DEF Marked
<1>10. Flagged'
  <2> SUFFICES ASSUME NEW n \in Names, disk[n].by \in Tasks, ~disk[n].full,
                      task'[disk[n].by].marked
               PROVE  \/ n \in marker' /\ (up => ~task'[disk[n].by].dead)
                      \/ \E u \in Tasks \ {disk[n].by} :
                           task'[u].name = n /\ task'[u].st = "done"
    BY <1>3 DEF Flagged
  <2>1. CASE disk[n].by = t
    BY <1>a, <1>2, <1>3, <2>1 DEF Owned
  <2>2. CASE disk[n].by # t
    BY <1>a, <1>2, <1>3, <2>2 DEF Flagged
  <2> QED
    BY <2>1, <2>2
<1> QED
  BY <1>4, <1>5, <1>6, <1>7, <1>9, <1>10

LEMMA RecloneInv ==
  ASSUME IInv, NEW t \in Tasks, NEW n \in Names, Reclone(t, n)
  PROVE  IInv'
<1> USE DEF IInv, TypeOK
<1>1. /\ DiskType' /\ disk'[n].by = NoOne /\ disk'[n].full = FALSE
      /\ \A m \in Names \ {n} : disk'[m] = disk[m]
  BY EmptyEffect DEF Reclone
<1>2. /\ TaskType' /\ task'[t].st = "emptying"
      /\ task'[t].dead = task[t].dead /\ task'[t].marked = task[t].marked
      /\ \A u \in Tasks \ {t} : task'[u] = task[u]
  BY DEF TaskType, Stages, Reclone
<1>3. /\ up /\ up' /\ task[t].st = "new" /\ ~task[t].marked
      /\ marker' = marker /\ clones' = clones /\ deleting' = deleting
  BY DEF Reclone, Ask, Marked
<1>4. /\ disturbed \subseteq disturbed'
      /\ \A u \in Tasks : Alive(u) /\ task[u].name = n => u \in disturbed'
  BY DEF Reclone, Disturb
<1>5. TypeOK' /\ Registered'
  BY <1>1, <1>2, <1>3 DEF RestType, Registered, Alive, Entries, Working
<1>6. Owned'
  BY <1>1, <1>2, <1>3, WhoAssumption DEF Owned
<1>7. Holds'
  BY <1>1, <1>2, <1>3, <1>4 DEF Holds, Alive, Working, TaskType
<1>8. Marked'
  BY <1>1, <1>2, <1>3, <1>4 DEF Marked, Alive, RestType
<1>9. Flagged'
  BY <1>1, <1>2, <1>3, WhoAssumption DEF Flagged, Owned
<1> QED
  BY <1>5, <1>6, <1>7, <1>8, <1>9

LEMMA RecloneClaimInv ==
  ASSUME IInv, NEW t \in Tasks, RecloneClaim(t)
  PROVE  IInv'
<1> USE DEF IInv, TypeOK
<1> DEFINE n == task[t].name
<1>1. /\ n \in Names /\ Alive(t) /\ ~task[t].dead
      /\ task[t].st = "emptying" /\ ~task[t].marked
      /\ marker' = marker /\ disturbed' = disturbed /\ up' = up
      /\ deleting' = deleting
  BY DEF RecloneClaim, Alive, TaskType, Marked
<1>2. CASE disk[n].by = NoOne
  <2>1. /\ disk' = [disk EXCEPT ![n] = [by |-> t, full |-> FALSE]]
        /\ Step(t, "claimed") /\ Register(t)
    BY <1>2 DEF RecloneClaim
  <2>2. /\ DiskType' /\ disk'[n].by = t /\ disk'[n].full = FALSE
        /\ \A m \in Names \ {n} : disk'[m] = disk[m]
    BY <1>1, <2>1, DiskEffect
  <2>3. /\ TaskType' /\ task'[t].st = "claimed"
        /\ \A u \in Tasks : /\ u # t => task'[u] = task[u]
                            /\ task'[u].name = task[u].name
                            /\ task'[u].marked = task[u].marked
                            /\ task'[u].dead = task[u].dead
    BY <2>1, StepEffect DEF Stages
  <2>4. clones' \in Seq(Tasks) /\ t \in Entries' /\ Entries \subseteq Entries'
    BY <2>1, RegisterKeeps DEF RestType
  <2>5. TypeOK' /\ Registered'
    BY <1>1, <2>2, <2>3, <2>4 DEF RestType, Registered, Alive
  <2>6. Owned'
    BY <1>1, <2>2, <2>3, WhoAssumption DEF Owned, Working
  <2>7. Holds'
    BY <1>1, <1>2, <2>2, <2>3, WhoAssumption DEF Holds, Alive, TaskType
  <2>8. Marked'
    BY <1>1, <1>2, <2>2, <2>3, WhoAssumption DEF Marked, RestType
  <2>9. Flagged'
    BY <1>1, <2>2, <2>3 DEF Flagged, Owned
  <2> QED
    BY <2>5, <2>6, <2>7, <2>8, <2>9
<1>3. CASE disk[n].by # NoOne
  <2>1. Step(t, "done") /\ disk' = disk /\ clones' = clones
    BY <1>3 DEF RecloneClaim
  <2>2. /\ TaskType' /\ task'[t].st = "done"
        /\ \A u \in Tasks : /\ u # t => task'[u] = task[u]
                            /\ task'[u].name = task[u].name
                            /\ task'[u].marked = task[u].marked
                            /\ task'[u].dead = task[u].dead
    BY <2>1, StepEffect DEF Stages
  <2>3. TypeOK' /\ Registered'
    BY <1>1, <2>1, <2>2 DEF RestType, DiskType, Registered, Alive, Entries, Working
  <2>4. Owned'
    BY <1>1, <2>1, <2>2 DEF Owned
  <2>5. Holds' /\ Marked'
    BY <1>1, <2>1, <2>2 DEF Holds, Marked, Alive, Working
  <2>6. Flagged'
    BY <1>1, <2>1, <2>2 DEF Flagged
  <2> QED
    BY <2>3, <2>4, <2>5, <2>6
<1> QED
  BY <1>2, <1>3

LEMMA GitSucceedsInv ==
  ASSUME IInv, NEW t \in Tasks, GitSucceeds(t)
  PROVE  IInv'
<1> USE DEF IInv, TypeOK
<1>1. /\ Alive(t) /\ ~task[t].dead /\ task[t].st = "running"
      /\ task[t].name \in Names /\ marker' = marker /\ clones' = clones
      /\ disturbed' = disturbed /\ up' = up /\ deleting' = deleting
  BY DEF GitSucceeds, Alive, TaskType
<1>2. /\ TaskType' /\ task'[t].st = "cloned"
      /\ \A u \in Tasks : /\ u # t => task'[u] = task[u]
                          /\ task'[u].name = task[u].name
                          /\ task'[u].marked = task[u].marked
                          /\ task'[u].dead = task[u].dead
  BY StepEffect DEF GitSucceeds, Stages
<1>3. /\ DiskType'
      /\ \A n \in Names : /\ disk'[n].by = disk[n].by
                          /\ disk[n].by # t => disk'[n].full = disk[n].full
                          /\ disk[n].by = t => disk'[n].full
  <2>1. \A n \in Names : disk[n].by = t => n = task[t].name
    BY DEF Owned
  <2>2. CASE disk[task[t].name].by = t
    <3>1. disk' = [disk EXCEPT ![task[t].name].full = TRUE]
      BY <2>2 DEF GitSucceeds
    <3> QED
      BY <1>1, <2>1, <2>2, <3>1 DEF DiskType
  <2>3. CASE disk[task[t].name].by # t
    <3>1. disk' = disk
      BY <2>3 DEF GitSucceeds
    <3> QED
      BY <2>1, <2>3, <3>1 DEF DiskType
  <2> QED
    BY <2>2, <2>3
<1>4. TypeOK' /\ Registered'
  BY <1>1, <1>2, <1>3 DEF RestType, Registered, Alive, Entries, Working
<1>5. Owned'
  BY <1>1, <1>2, <1>3, WhoAssumption DEF Owned
<1>6. Holds'
  BY <1>1, <1>2, <1>3 DEF Holds, Alive, Working, TaskType
<1>7. Marked'
  BY <1>1, <1>2, <1>3 DEF Marked, RestType
<1>8. Flagged'
  BY <1>1, <1>2, <1>3 DEF Flagged
<1> QED
  BY <1>4, <1>5, <1>6, <1>7, <1>8

(* git or the metadata write failing leaves everything to the rollback.    *)
LEMMA ToRollbackInv ==
  ASSUME IInv, NEW t \in Tasks, GitFails(t) \/ MetadataFails(t)
  PROVE  IInv'
<1> USE DEF IInv, TypeOK
<1>1. /\ Alive(t) /\ ~task[t].dead /\ task[t].st \in {"running", "cloned"}
      /\ disk' = disk /\ marker' = marker /\ clones' = clones
      /\ disturbed' = disturbed /\ up' = up /\ deleting' = deleting
  BY DEF GitFails, MetadataFails, Alive
<1>2. /\ TaskType' /\ task'[t].st = "rollback"
      /\ \A u \in Tasks : /\ u # t => task'[u] = task[u]
                          /\ task'[u].name = task[u].name
                          /\ task'[u].marked = task[u].marked
                          /\ task'[u].dead = task[u].dead
  BY StepEffect DEF GitFails, MetadataFails, Stages
<1>3. TypeOK' /\ Registered'
  BY <1>1, <1>2 DEF RestType, DiskType, Registered, Alive, Entries, Working
<1>4. Owned'
  BY <1>1, <1>2 DEF Owned, Working
<1>5. Holds' /\ Marked'
  BY <1>1, <1>2 DEF Holds, Marked, Alive, Working
<1>6. Flagged'
  BY <1>1, <1>2 DEF Flagged
<1> QED
  BY <1>3, <1>4, <1>5, <1>6

LEMMA CompleteInv ==
  ASSUME IInv, NEW t \in Tasks, Complete(t)
  PROVE  IInv'
<1> USE DEF IInv, TypeOK
<1>1. /\ Alive(t) /\ ~task[t].dead /\ task[t].st = "cloned"
      /\ disk' = disk /\ marker' = marker
      /\ disturbed' = disturbed /\ up' = up /\ deleting' = deleting
  BY DEF Complete, Alive
<1>2. /\ TaskType' /\ task'[t].st = "unmarking"
      /\ \A u \in Tasks : /\ u # t => task'[u] = task[u]
                          /\ task'[u].name = task[u].name
                          /\ task'[u].marked = task[u].marked
                          /\ task'[u].dead = task[u].dead
  BY StepEffect DEF Complete, Stages
<1>3. clones' \in Seq(Tasks) /\ Entries \ {t} \subseteq Entries'
  BY UnregisterKeeps DEF Complete, RestType
<1>4. TypeOK' /\ Registered'
  BY <1>1, <1>2, <1>3 DEF RestType, DiskType, Registered, Alive, Working
<1>5. Owned'
  BY <1>1, <1>2 DEF Owned, Working
<1>6. Holds' /\ Marked'
  BY <1>1, <1>2 DEF Holds, Marked, Alive, Working
<1>7. Flagged'
  BY <1>1, <1>2 DEF Flagged
<1> QED
  BY <1>4, <1>5, <1>6, <1>7

LEMMA FailCloneInv ==
  ASSUME IInv, NEW t \in Tasks, FailClone(t)
  PROVE  IInv'
<1> USE DEF IInv, TypeOK
<1> DEFINE n == task[t].name
<1>1. /\ n \in Names /\ Alive(t) /\ ~task[t].dead /\ task[t].st = "rollback"
      /\ marker' = marker /\ up' = up /\ deleting' = deleting
  BY DEF FailClone, Alive, TaskType
<1>2. up
  BY <1>1 DEF Registered
<1>3. /\ TaskType' /\ task'[t].st = "unmarking"
      /\ \A u \in Tasks : /\ u # t => task'[u] = task[u]
                          /\ task'[u].name = task[u].name
                          /\ task'[u].marked = task[u].marked
                          /\ task'[u].dead = task[u].dead
  BY StepEffect DEF FailClone, Stages
<1>4. /\ DiskType' /\ disk'[n].by = NoOne /\ disk'[n].full = FALSE
      /\ \A m \in Names \ {n} : disk'[m] = disk[m]
  BY <1>1, EmptyEffect DEF FailClone
<1>5. clones' \in Seq(Tasks) /\ Entries \ {t} \subseteq Entries'
  BY UnregisterKeeps DEF FailClone, RestType
<1>6. /\ disturbed \subseteq disturbed'
      /\ \A u \in Tasks \ {t} : Alive(u) /\ task[u].name = n => u \in disturbed'
  BY DEF FailClone, Disturb
<1>7. TypeOK' /\ Registered'
  BY <1>1, <1>3, <1>4, <1>5 DEF RestType, Registered, Alive, Working
<1>8. Owned'
  BY <1>1, <1>3, <1>4, WhoAssumption DEF Owned
<1>9. Holds'
  BY <1>1, <1>3, <1>4, <1>6 DEF Holds, Alive, Working, TaskType
<1>10. Marked'
  BY <1>1, <1>2, <1>3, <1>4, <1>6 DEF Marked, Alive, RestType
<1>11. Flagged'
  BY <1>1, <1>3, <1>4, WhoAssumption DEF Flagged, Owned
<1> QED
  BY <1>7, <1>8, <1>9, <1>10, <1>11

LEMMA RemoveMarkerInv ==
  ASSUME IInv, NEW t \in Tasks, RemoveMarker(t)
  PROVE  IInv'
<1> USE DEF IInv, TypeOK
<1>1. /\ Alive(t) /\ ~task[t].dead /\ task[t].st = "unmarking"
      /\ disk' = disk /\ marker' = marker \ {task[t].name} /\ clones' = clones
      /\ disturbed' = disturbed /\ up' = up /\ deleting' = deleting
  BY DEF RemoveMarker, Alive
<1>2. /\ TaskType' /\ task'[t].st = "done"
      /\ \A u \in Tasks : /\ u # t => task'[u] = task[u]
                          /\ task'[u].name = task[u].name
                          /\ task'[u].marked = task[u].marked
                          /\ task'[u].dead = task[u].dead
  BY StepEffect DEF RemoveMarker, Stages
<1>3. TypeOK' /\ Registered'
  BY <1>1, <1>2 DEF RestType, DiskType, Registered, Alive, Entries, Working
<1>4. Owned'
  BY <1>1, <1>2 DEF Owned, Working
<1>5. Holds' /\ Marked'
  BY <1>1, <1>2 DEF Holds, Marked, Alive, Working
<1>6. Flagged'
  BY <1>1, <1>2 DEF Flagged, Owned, Working
<1> QED
  BY <1>3, <1>4, <1>5, <1>6

LEMMA CancelCloneInv ==
  ASSUME IInv, NEW n \in Names, CancelClone(n)
  PROVE  IInv'
<1> USE DEF IInv, TypeOK
<1>1. PICK x : task' = [task EXCEPT ![x].aborted = TRUE]
  BY DEF CancelClone
<1>2. /\ TaskType'
      /\ \A u \in Tasks : /\ task'[u].st = task[u].st
                          /\ task'[u].name = task[u].name
                          /\ task'[u].marked = task[u].marked
                          /\ task'[u].dead = task[u].dead
  BY <1>1 DEF TaskType
<1>3. /\ disk' = disk /\ marker' = marker /\ clones' = clones
      /\ disturbed' = disturbed /\ up' = up /\ deleting' = deleting
  BY DEF CancelClone
<1>4. TypeOK' /\ Registered'
  BY <1>2, <1>3 DEF RestType, DiskType, Registered, Alive, Entries
<1>5. Owned'
  BY <1>2, <1>3 DEF Owned
<1>6. Holds' /\ Marked'
  BY <1>2, <1>3 DEF Holds, Marked, Alive
<1>7. Flagged'
  BY <1>2, <1>3 DEF Flagged
<1> QED
  BY <1>4, <1>5, <1>6, <1>7

LEMMA AdoptProjectInv ==
  ASSUME IInv, NEW n \in Names, AdoptProject(n)
  PROVE  IInv'
<1> USE DEF IInv, TypeOK
<1>1. /\ task' = task /\ clones' = clones /\ marker' = marker
      /\ disturbed' = disturbed /\ up' = up /\ deleting' = deleting
  BY DEF AdoptProject
<1>2. /\ DiskType'
      /\ \A m \in Names : \/ disk'[m] = disk[m]
                          \/ disk[m].by = NoOne /\ disk'[m].by = Local
  <2>1. CASE disk[n].by = NoOne
    <3>1. disk' = [disk EXCEPT ![n] = [by |-> Local, full |-> TRUE]]
      BY <2>1 DEF AdoptProject, DiskType
    <3> QED
      BY <2>1, <3>1, DiskEffect
  <2>2. CASE disk[n].by # NoOne
    BY <2>2 DEF AdoptProject, DiskType
  <2> QED
    BY <2>1, <2>2
<1>3. TypeOK' /\ Registered'
  BY <1>1, <1>2 DEF RestType, TaskType, Registered, Alive, Entries
<1>4. Owned'
  BY <1>1, <1>2, WhoAssumption DEF Owned
<1>5. Holds' /\ Marked'
  BY <1>1, <1>2, WhoAssumption DEF Holds, Marked, Alive, TaskType, RestType
<1>6. Flagged'
  BY <1>1, <1>2, WhoAssumption DEF Flagged
<1> QED
  BY <1>3, <1>4, <1>5, <1>6

LEMMA DeleteFolderInv ==
  ASSUME IInv, NEW n \in Names, DeleteFolder(n)
  PROVE  IInv'
<1> USE DEF IInv, TypeOK
<1>1. /\ DiskType' /\ disk'[n].by = NoOne /\ disk'[n].full = FALSE
      /\ \A m \in Names \ {n} : disk'[m] = disk[m]
  BY EmptyEffect DEF DeleteFolder
<1>2. /\ up /\ up' = up /\ task' = task /\ marker' = marker /\ clones' = clones
      /\ deleting' \in [Names -> {"no", "folder", "metadata"}]
  BY DEF DeleteFolder, RestType
<1>3. /\ disturbed \subseteq disturbed'
      /\ \A u \in Tasks : Alive(u) /\ task[u].name = n => u \in disturbed'
  BY DEF DeleteFolder, Disturb
<1>4. TypeOK' /\ Registered'
  BY <1>1, <1>2 DEF RestType, TaskType, Registered, Alive, Entries
<1>5. Owned'
  BY <1>1, <1>2, WhoAssumption DEF Owned
<1>6. Holds'
  BY <1>1, <1>2, <1>3 DEF Holds, Alive, Working, TaskType
<1>7. Marked'
  BY <1>1, <1>2, <1>3 DEF Marked, Alive, RestType
<1>8. Flagged'
  BY <1>1, <1>2, WhoAssumption DEF Flagged
<1> QED
  BY <1>4, <1>5, <1>6, <1>7, <1>8

(* A delete's database writes touch nothing the invariant speaks of.       *)
LEMMA DeleteWritesInv ==
  ASSUME IInv, NEW n \in Names, DeleteRows(n) \/ DeleteMetadata(n)
  PROVE  IInv'
<1>1. /\ disk' = disk /\ task' = task /\ marker' = marker /\ clones' = clones
      /\ disturbed' = disturbed /\ up' = up
      /\ deleting' \in [Names -> {"no", "folder", "metadata"}]
  BY DEF DeleteRows, DeleteMetadata, IInv, TypeOK, RestType
<1> QED
  BY <1>1 DEF IInv, TypeOK, DiskType, TaskType, RestType, Registered, Owned, Holds,
              Marked, Flagged, Alive, Entries

LEMMA CrashInv ==
  ASSUME IInv, Crash
  PROVE  IInv'
<1> USE DEF IInv, TypeOK
<1>1. /\ up' = FALSE /\ clones' = <<>> /\ disk' = disk /\ marker' = marker
      /\ disturbed' = disturbed
      /\ deleting' \in [Names -> {"no", "folder", "metadata"}]
  BY DEF Crash
<1>2. /\ TaskType'
      /\ \A u \in Tasks : /\ task'[u].st = task[u].st
                          /\ task'[u].name = task[u].name
                          /\ task'[u].marked = task[u].marked
                          /\ Alive(u) \/ task[u].dead => task'[u].dead
                          /\ ~Alive(u)'
  <2>1. task' = [t \in Tasks |-> [task[t] EXCEPT !.dead = Alive(t) \/ @]]
    BY DEF Crash
  <2>2. ASSUME NEW u \in Tasks
        PROVE  /\ task'[u] \in [st : Stages, name : Names, aborted : BOOLEAN,
                                again : BOOLEAN, marked : BOOLEAN, dead : BOOLEAN]
               /\ task'[u].st = task[u].st /\ task'[u].name = task[u].name
               /\ task'[u].marked = task[u].marked
               /\ task'[u].dead = (Alive(u) \/ task[u].dead)
    BY <2>1 DEF TaskType, Alive
  <2>3. task' \in [Tasks -> [st : Stages, name : Names, aborted : BOOLEAN,
                             again : BOOLEAN, marked : BOOLEAN, dead : BOOLEAN]]
    BY <2>1, <2>2
  <2> QED
    BY <2>2, <2>3 DEF TaskType, Alive
<1>3. TypeOK' /\ Registered'
  BY <1>1, <1>2, EmptySeq DEF RestType, DiskType, Registered
<1>4. Owned'
  BY <1>1, <1>2 DEF Owned, Alive
<1>5. Holds' /\ Marked'
  BY <1>1, <1>2 DEF Holds, Marked
<1>6. Flagged'
  BY <1>1, <1>2 DEF Flagged
<1> QED
  BY <1>3, <1>4, <1>5, <1>6

LEMMA CleanInterruptedInv ==
  ASSUME IInv, NEW n \in Names, CleanInterrupted(n)
  PROVE  IInv'
<1> USE DEF IInv, TypeOK
<1>1. /\ DiskType' /\ disk'[n].by = NoOne /\ disk'[n].full = FALSE
      /\ \A m \in Names \ {n} : disk'[m] = disk[m]
  BY EmptyEffect DEF CleanInterrupted
<1>2. /\ ~up /\ up' = up /\ task' = task /\ marker' = marker \ {n}
      /\ clones' = clones /\ disturbed' = disturbed /\ deleting' = deleting
  BY DEF CleanInterrupted
<1>3. TypeOK' /\ Registered'
  BY <1>1, <1>2 DEF RestType, TaskType, Registered, Alive, Entries
<1>4. Owned'
  BY <1>1, <1>2, WhoAssumption DEF Owned
<1>5. Holds'
  BY <1>2 DEF Holds, Alive, Registered
<1>6. Marked'
  BY <1>1, <1>2 DEF Marked, RestType
<1>7. Flagged'
  BY <1>1, <1>2, WhoAssumption DEF Flagged
<1> QED
  BY <1>3, <1>4, <1>5, <1>6, <1>7

LEMMA ServeInv ==
  ASSUME IInv, Serve
  PROVE  IInv'
<1> USE DEF IInv, TypeOK
<1>1. /\ ~up /\ up' = TRUE /\ marker = {} /\ marker' = {} /\ disk' = disk
      /\ task' = task /\ clones' = clones /\ disturbed' = disturbed
      /\ deleting' = deleting
  BY DEF Serve
<1>2. TypeOK' /\ Registered'
  BY <1>1 DEF RestType, DiskType, TaskType, Registered, Alive, Entries
<1>3. Owned' /\ Holds' /\ Marked'
  BY <1>1 DEF Owned, Holds, Marked, Alive
<1>4. Flagged'
  BY <1>1 DEF Flagged
<1> QED
  BY <1>2, <1>3, <1>4

LEMMA NextInv ==
  ASSUME IInv, [Next]_vars
  PROVE  IInv'
<1>1. CASE Request
  BY <1>1, PostInv, RecloneInv, CreateBlankInv, CancelCloneInv, AdoptProjectInv,
     DeleteWritesInv DEF Request
<1>2. CASE \E t \in Tasks : TaskStep(t)
  BY <1>2, WriteMarkerInv, RecloneClaimInv, GitSucceedsInv, ToRollbackInv,
     CompleteInv, FailCloneInv, RemoveMarkerInv DEF TaskStep
<1>3. CASE \E n \in Names : DeleteStep(n)
  BY <1>3, DeleteFolderInv, DeleteWritesInv DEF DeleteStep
<1>4. CASE Crash
  BY <1>4, CrashInv
<1>5. CASE BootStep
  BY <1>5, CleanInterruptedInv, ServeInv DEF BootStep
<1>6. CASE UNCHANGED vars
  BY <1>6 DEF vars, IInv, TypeOK, DiskType, TaskType, RestType, Registered, Owned,
              Holds, Marked, Flagged, Alive, Entries
<1> QED
  BY <1>1, <1>2, <1>3, <1>4, <1>5, <1>6 DEF Next

(* Every state of the folders, the clones and the markers the program can  *)
(* reach is one the invariant describes.                                   *)
THEOREM Invariant == Spec => []IInv
<1>1. Init => IInv
  BY InitInv
<1>2. IInv /\ [Next]_vars => IInv'
  BY NextInv
<1> QED
  BY <1>1, <1>2, PTL DEF Spec

(* A folder that is only half there is flagged as cloning, or a restart    *)
(* left it: routes/projects.ts lists it from the registry.                 *)
THEOREM HalfFoldersAreFlagged == Spec => []HalfIsFlagged
<1>1. IInv => HalfIsFlagged
  <2> SUFFICES ASSUME IInv, NEW n \in Names, up, disk[n].by \in Tasks,
                      ~disk[n].full
               PROVE  LET t == disk[n].by IN
                      \/ n \in CloningNames
                      \/ task[t].dead /\ ~task[t].marked
                      \/ task[t].dead /\ \E u \in Tasks \ {t} :
                                           /\ task[u].name = n
                                           /\ task[u].st = "done"
    BY DEF HalfIsFlagged
  <2> DEFINE t == disk[n].by
  <2>1. /\ t \in Tasks /\ task[t].name = n
        /\ task[t].dead \/ task[t].st \in Working
    BY DEF IInv, Owned, Working
  <2>2. CASE task[t].dead
    BY <2>1, <2>2 DEF IInv, Flagged
  <2>3. CASE ~task[t].dead
    <3>1. t \in Entries
      BY <2>1, <2>3 DEF IInv, Registered, Alive, Working
    <3> QED
      BY <2>1, <3>1 DEF CloningNames
  <2> QED
    BY <2>2, <2>3
<1> QED
  BY <1>1, Invariant, PTL

(* A finished folder goes away only for a reason the user, a rollback or a *)
(* restart can give.                                                       *)
THEOREM FinishedFoldersSurvive == Spec => FinishedSurvives
<1> DEFINE Away(n) == disk[n].full /\ ~disk'[n].full
           Reason(n) ==
             \/ deleting[n] = "folder" /\ deleting'[n] = "metadata"
             \/ \E t \in Tasks : task[t].st = "new" /\ task'[t].st = "emptying"
             \/ \E t \in Tasks : /\ task[t].name = n
                                 /\ task[t].st = "rollback"
                                 /\ task'[t].st = "unmarking"
                                 /\ disk[n].by = t \/ t \in disturbed
             \/ /\ ~up
                /\ \E t \in Tasks : /\ task[t].dead /\ task[t].name = n
                                    /\ \/ t \in disturbed
                                       \/ task[t].st \in {"cloned", "rollback",
                                                         "unmarking"}
<1>1. ASSUME IInv, [Next]_vars, NEW n \in Names, Away(n)
      PROVE  Reason(n)
  <2>0. DiskType /\ TaskType
    BY <1>1 DEF IInv, TypeOK
  <2>1. CASE UNCHANGED disk
    BY <1>1, <2>1
  <2>2. ASSUME NEW t \in Tasks, NEW m \in Names, Reclone(t, m)
        PROVE  Reason(n)
    BY <2>0, <2>2 DEF Reclone, TaskType
  <2>3. ASSUME NEW m \in Names, NEW b \in Tasks \cup {Local}, NEW f \in BOOLEAN,
               disk[m].by = NoOne,
               disk' = [disk EXCEPT ![m] = [by |-> b, full |-> f]]
        PROVE  FALSE
    <3>1. n = m
      BY <1>1, <2>0, <2>3, DiskEffect
    <3> QED
      BY <1>1, <2>3, <3>1 DEF IInv, Owned
  <2>4. ASSUME NEW t \in Tasks, GitSucceeds(t)
        PROVE  FALSE
    BY <1>1, <2>0, <2>4 DEF GitSucceeds, DiskType, TaskType
  <2>5. ASSUME NEW t \in Tasks, FailClone(t)
        PROVE  Reason(n)
    <3>1. n = task[t].name
      BY <1>1, <2>0, <2>5, EmptyEffect DEF FailClone, TaskType
    <3>2. disk[n].by = t \/ t \in disturbed
      BY <1>1, <2>5, <3>1 DEF IInv, Holds, Working, FailClone
    <3>3. task[t].st = "rollback" /\ task'[t].st = "unmarking"
      BY <2>0, <2>5 DEF FailClone, Step, TaskType
    <3> QED
      BY <3>1, <3>2, <3>3
  <2>6. ASSUME NEW m \in Names, DeleteFolder(m)
        PROVE  Reason(n)
    <3>1. n = m
      BY <1>1, <2>0, <2>6, EmptyEffect DEF DeleteFolder
    <3> QED
      BY <1>1, <2>6, <3>1 DEF DeleteFolder, IInv, TypeOK, RestType
  <2>7. ASSUME NEW m \in Names, CleanInterrupted(m)
        PROVE  Reason(n)
    <3>1. n = m /\ ~up /\ n \in marker
      BY <1>1, <2>0, <2>7, EmptyEffect DEF CleanInterrupted
    <3>2. PICK t \in Tasks :
            /\ task[t].name = n
            /\ \/ task[t].st \in {"cloned", "rollback", "unmarking"}
               \/ /\ task[t].st = "running"
                  /\ t \in disturbed \/ (disk[n].by = t /\ ~disk[n].full)
      BY <1>1, <3>1 DEF IInv, Marked
    <3>3. task[t].dead
      BY <1>1, <3>1, <3>2 DEF IInv, Registered, Alive
    <3> QED
      BY <1>1, <3>1, <3>2, <3>3
  <2>8. CASE Request
    <3>1. CASE \E t \in Tasks : Post(t)
      BY <2>3, <3>1 DEF Post, Claims, Free
    <3>2. CASE CreateBlank
      BY <2>3, <3>2 DEF CreateBlank, Claims, Free
    <3>3. CASE \E m \in Names : AdoptProject(m)
      <4>1. PICK m \in Names : AdoptProject(m)
        BY <3>3
      <4>2. CASE disk[m].by = NoOne
        BY <2>0, <2>3, <4>1, <4>2 DEF AdoptProject, DiskType
      <4>3. CASE disk[m].by # NoOne
        BY <2>0, <2>1, <4>1, <4>3 DEF AdoptProject, DiskType
      <4> QED
        BY <4>2, <4>3
    <3>4. CASE \E t \in Tasks, m \in Names : Reclone(t, m)
      BY <2>2, <3>4
    <3>5. CASE \E m \in Names : CancelClone(m) \/ DeleteRows(m)
      BY <2>1, <3>5 DEF CancelClone, DeleteRows
    <3> QED
      BY <2>8, <3>1, <3>2, <3>3, <3>4, <3>5 DEF Request
  <2>9. CASE \E t \in Tasks : TaskStep(t)
    <3>1. PICK t \in Tasks : TaskStep(t)
      BY <2>9
    <3>2. CASE RecloneClaim(t)
      <4>1. CASE disk[task[t].name].by = NoOne
        BY <2>0, <2>3, <3>2, <4>1 DEF RecloneClaim, TaskType
      <4>2. CASE disk[task[t].name].by # NoOne
        BY <2>1, <3>2, <4>2 DEF RecloneClaim
      <4> QED
        BY <4>1, <4>2
    <3>3. CASE \/ WriteMarker(t) \/ GitFails(t) \/ Complete(t) \/ MetadataFails(t)
               \/ RemoveMarker(t)
      BY <2>1, <3>3 DEF WriteMarker, GitFails, Complete, MetadataFails, RemoveMarker
    <3> QED
      BY <2>4, <2>5, <3>1, <3>2, <3>3 DEF TaskStep
  <2>10. CASE \E m \in Names : DeleteStep(m)
    BY <2>1, <2>6, <2>10 DEF DeleteStep, DeleteMetadata
  <2>11. CASE Crash \/ Serve \/ UNCHANGED vars
    BY <2>1, <2>11 DEF Crash, Serve, vars
  <2> QED
    BY <1>1, <2>7, <2>8, <2>9, <2>10, <2>11 DEF Next, BootStep
<1>2. IInv /\ [Next]_vars => [\A n \in Names : Away(n) => Reason(n)]_vars
  BY <1>1
<1> QED
  BY <1>2, Invariant, PTL DEF Spec, FinishedSurvives

-----------------------------------------------------------------------------
(* Theorems about ProjectList: one tab's list and dialog, whatever         *)
(* overtakes what on the way to it.  The server here does not crash.       *)

AtWork(t) == Alive(t) /\ task[t].st \in Working
Ended(t) == task[t].st \in {"unmarking", "done"}
InFlight == {frames[i] : i \in DOMAIN frames}

(* The registry lists each clone once, and only while it works.            *)
Registry ==
  /\ \A t \in Tasks : ~task[t].dead
  /\ \A t \in Entries : AtWork(t)
  /\ \A i, j \in DOMAIN clones : clones[i] = clones[j] => i = j

Ends == {"completed", "failed", "canceled"}
ServerInv == /\ IInv /\ Registry
             /\ told \in [Tasks -> Seq(Ends)]
             /\ rows \subseteq Names

TabType ==
  /\ list \in [Names -> Shown] /\ modal \in Tasks \cup {NoOne}
  /\ frames \in Seq([id : Tasks, status : Ends, truth : Shown])
  /\ removal \in [Names -> {"no", "asked", "under way", "answered"}]
  /\ fetch \in [Fetches -> [st : {"no", "read", "flagged"}, dirs : SUBSET Names,
                            own : SUBSET Names, flagged : SUBSET Names, stale : SUBSET Names]]

Removals == \A n \in Names : deleting[n] # "no" <=> removal[n] = "under way"

(* What is on its way to the tab says what was true when it left.          *)
AnswersTrue == \A t \in answers : t \in Tasks /\ (AtWork(t) \/ Ended(t))

FramesTrue ==
  \A f \in InFlight :
    /\ Ended(f.id)
    /\ IF f.status = "completed" THEN f.truth \in {"ready", "cloning"} \/ f.id \in disturbed
                                 ELSE f.truth \in {"none", "foreign"}

FetchTrue ==
  \A f \in Fetches, n \in Names :
    LET g == fetch[f] IN
    n \notin g.stale =>
      /\ g.st = "read" => /\ n \in g.dirs <=> n \in Folders
                          /\ n \notin g.dirs => (n \in g.own <=> n \in rows)
      /\ g.st = "flagged" => Listed(g.dirs, g.own, g.flagged)[n] = Truth[n]

(* A row that is wrong has its correction on the way.                      *)
WorkedOn(n) == \E t \in Tasks : AtWork(t) /\ task[t].name = n
Pending(n) ==
  \/ ~online \/ dirty
  \/ \E f \in Fetches : fetch[f].st # "no"
  \/ WorkedOn(n)
  \/ \E f \in InFlight : task[f.id].name = n
  \/ removal[n] \in {"under way", "answered"}

ListComes == \A n \in Names : list[n] = Truth[n] \/ n \in excuse \/ Pending(n)
ModalComes ==
  modal # NoOne => \/ modal \in unheard \/ AtWork(modal)
                   \/ \E f \in InFlight : f.id = modal

TabInv == /\ TabType /\ Removals /\ AnswersTrue /\ FramesTrue /\ FetchTrue
          /\ ListComes /\ ModalComes

-----------------------------------------------------------------------------
(* The rows of a listing, one by one.                                      *)
LEMMA RowOf ==
  \A n \in Names :
    Truth[n] = IF n \in Folders THEN IF n \in CloningNames THEN "cloning" ELSE "ready"
               ELSE IF n \in rows THEN "foreign" ELSE "none"
BY DEF Truth, Listed

LEMMA RowOfPrime ==
  \A n \in Names :
    Truth'[n] = IF n \in Folders' THEN IF n \in CloningNames' THEN "cloning" ELSE "ready"
                ELSE IF n \in rows' THEN "foreign" ELSE "none"
BY DEF Truth, Listed

LEMMA ListedAt ==
  ASSUME NEW dirs, NEW own, NEW flagged, NEW n \in Names
  PROVE  Listed(dirs, own, flagged)[n] =
           IF n \in dirs THEN IF n \in flagged THEN "cloning" ELSE "ready"
           ELSE IF n \in own THEN "foreign" ELSE "none"
BY DEF Listed

LEMMA TruthShown == Truth \in [Names -> Shown] /\ Truth' \in [Names -> Shown]
BY DEF Truth, Listed, Shown

(* Frames sent and frames taken.                                           *)
LEMMA AppendFrame ==
  ASSUME NEW S, frames \in Seq(S), NEW r \in S, frames' = Append(frames, r)
  PROVE  frames' \in Seq(S) /\ InFlight' = InFlight \cup {r}
<1>1. /\ frames' \in Seq(S) /\ Len(frames') = Len(frames) + 1 /\ Len(frames) \in Nat
      /\ frames'[Len(frames) + 1] = r /\ \A i \in 1..Len(frames) : frames'[i] = frames[i]
      /\ DOMAIN frames = 1..Len(frames) /\ DOMAIN frames' = 1..Len(frames')
  BY AppendProperties
<1> QED
  BY <1>1 DEF InFlight

LEMMA TailFrame ==
  ASSUME NEW S, frames \in Seq(S), frames # <<>>, frames' = Tail(frames)
  PROVE  /\ frames' \in Seq(S) /\ Head(frames) \in S
         /\ InFlight = InFlight' \cup {Head(frames)}
<1>1. /\ frames' \in Seq(S) /\ Len(frames') = Len(frames) - 1 /\ Len(frames) \in Nat
      /\ Len(frames) # 0
      /\ \A i \in 1..Len(frames') : frames'[i] = frames[i + 1]
      /\ DOMAIN frames = 1..Len(frames) /\ DOMAIN frames' = 1..Len(frames')
      /\ Head(frames) = frames[1] /\ Head(frames) \in S
  BY HeadTailProperties, LenProperties, EmptySeq
<1>2. InFlight' \subseteq InFlight
  BY <1>1 DEF InFlight
<1>3. Head(frames) \in InFlight
  BY <1>1 DEF InFlight
<1>4. \A i \in DOMAIN frames : i = 1 \/ (i - 1 \in 1..Len(frames') /\ frames'[i - 1] = frames[i])
  BY <1>1
<1>5. InFlight \subseteq InFlight' \cup {Head(frames)}
  BY <1>1, <1>4 DEF InFlight
<1> QED
  BY <1>1, <1>2, <1>3, <1>5

LEMMA FramesShape ==
  ASSUME TabType
  PROVE  \A f \in InFlight : /\ f \in [id : Tasks, status : Ends, truth : Shown]
                             /\ f.id \in Tasks
<1> DEFINE S == [id : Tasks, status : Ends, truth : Shown]
<1>1. frames \in Seq(S)
  BY DEF TabType
<1>2. \A f \in S : f.id \in Tasks
  OBVIOUS
<1> HIDE DEF S
<1>3. \A i \in DOMAIN frames : frames[i] \in S
  BY <1>1
<1>4. \A f \in InFlight : f \in S
  BY <1>3 DEF InFlight
<1> QED
  BY <1>2, <1>4 DEF S

LEMMA NoFrames ==
  ASSUME NEW S, frames' = <<>>
  PROVE  frames' \in Seq(S) /\ InFlight' = {}
BY EmptySeq DEF InFlight

-----------------------------------------------------------------------------
(* The registry.                                                           *)
LEMMA RegisterOnce ==
  ASSUME NEW t \in Tasks, clones \in Seq(Tasks), Register(t), t \notin Entries,
         \A i, j \in DOMAIN clones : clones[i] = clones[j] => i = j
  PROVE  /\ Entries' = Entries \cup {t}
         /\ \A i, j \in DOMAIN clones' : clones'[i] = clones'[j] => i = j
<1>1. /\ clones' \in Seq(Tasks) /\ Len(clones') = Len(clones) + 1 /\ Len(clones) \in Nat
      /\ clones'[Len(clones) + 1] = t /\ \A i \in 1..Len(clones) : clones'[i] = clones[i]
      /\ DOMAIN clones = 1..Len(clones) /\ DOMAIN clones' = 1..Len(clones')
  BY AppendProperties DEF Register
<1>2. Entries' = Entries \cup {t}
  BY <1>1 DEF Entries
<1>3. \A i \in 1..Len(clones) : clones'[i] # t
  BY <1>1 DEF Entries
<1>4. \A i \in DOMAIN clones' : i = Len(clones) + 1 \/ i \in 1..Len(clones)
  BY <1>1
<1> QED
  BY <1>1, <1>2, <1>3, <1>4

LEMMA UnregisterOnce ==
  ASSUME NEW t \in Tasks, clones \in Seq(Tasks), Unregister(t),
         \A i, j \in DOMAIN clones : clones[i] = clones[j] => i = j
  PROVE  /\ Entries' = Entries \ {t} /\ t \in Entries
         /\ \A i, j \in DOMAIN clones' : clones'[i] = clones'[j] => i = j
<1>1. PICK i \in 1..Len(clones) :
        /\ clones[i] = t /\ Len(clones') = Len(clones) - 1
        /\ \A j \in 1..(Len(clones) - 1) :
             clones'[j] = IF j < i THEN clones[j] ELSE clones[j + 1]
  BY UnregisterEffect
<1>2. /\ clones' \in Seq(Tasks) /\ Len(clones) \in Nat
      /\ DOMAIN clones = 1..Len(clones) /\ DOMAIN clones' = 1..(Len(clones) - 1)
  BY <1>1, UnregisterEffect, LenProperties
<1>3. Entries \ {t} \subseteq Entries' /\ t \in Entries
  BY <1>1, <1>2, UnregisterKeeps DEF Entries
<1>4. \A j \in DOMAIN clones' : /\ clones'[j] \in Entries /\ clones'[j] # t
  <2> SUFFICES ASSUME NEW j \in DOMAIN clones'
               PROVE  clones'[j] \in Entries /\ clones'[j] # t
    OBVIOUS
  <2>1. PICK k \in DOMAIN clones : clones'[j] = clones[k] /\ k # i
    BY <1>1, <1>2
  <2> QED
    BY <1>1, <1>2, <2>1 DEF Entries
<1>5. \A j, k \in DOMAIN clones' : clones'[j] = clones'[k] => j = k
  <2> SUFFICES ASSUME NEW j \in DOMAIN clones', NEW k \in DOMAIN clones', clones'[j] = clones'[k]
               PROVE  j = k
    OBVIOUS
  <2> DEFINE at(m) == IF m < i THEN m ELSE m + 1
  <2>1. at(j) \in DOMAIN clones /\ at(k) \in DOMAIN clones
    BY <1>1, <1>2
  <2>2. clones'[j] = clones[at(j)] /\ clones'[k] = clones[at(k)]
    BY <1>1, <1>2
  <2>3. at(j) = at(k)
    BY <2>1, <2>2
  <2> QED
    BY <1>1, <1>2, <2>3
<1> QED
  BY <1>3, <1>4, <1>5 DEF Entries

LEMMA EntriesTasks == ASSUME ServerInv PROVE Entries \subseteq Tasks
BY DEF ServerInv, IInv, TypeOK, RestType, Entries

(* A step that leaves the registry alone and ends nobody in it.            *)
LEMMA RegistryStays ==
  ASSUME ServerInv, \A u \in Tasks : ~task'[u].dead /\ (AtWork(u) => AtWork(u)'),
         UNCHANGED clones
  PROVE  Registry'
<1>1. \A u \in Entries : AtWork(u)'
  BY EntriesTasks DEF ServerInv, Registry
<1> QED
  BY <1>1 DEF ServerInv, Registry, Entries

(* What the steps of the server do to it.                                  *)
LEMMA WorkEffect ==
  ASSUME ServerInv, NEW t \in Tasks,
         WriteMarker(t) \/ GitSucceeds(t) \/ GitFails(t) \/ MetadataFails(t)
  PROVE  /\ ServerInv' /\ AtWork(t) /\ AtWork(t)' /\ task'[t].name = task[t].name
         /\ \A u \in Tasks \ {t} : task'[u] = task[u]
         /\ UNCHANGED <<clones, told, rows, deleting, disturbed>>
         /\ Folders' = Folders
<1>1. /\ AtWork(t) /\ AtWork(t)' /\ task'[t].name = task[t].name
      /\ ~task'[t].dead
      /\ \A u \in Tasks \ {t} : task'[u] = task[u]
  BY DEF WriteMarker, GitSucceeds, GitFails, MetadataFails, Step, AtWork, Alive, Working,
         ServerInv, IInv, TypeOK, TaskType
<1>2. UNCHANGED <<clones, told, rows, deleting, disturbed>>
  BY DEF WriteMarker, GitSucceeds, GitFails, MetadataFails
<1>3. Folders' = Folders
  BY DEF WriteMarker, GitSucceeds, GitFails, MetadataFails, Folders, ServerInv, IInv, TypeOK,
         DiskType, TaskType
<1>4. IInv'
  BY NextInv DEF Next, TaskStep, ServerInv
<1>5. Registry'
  BY <1>1, <1>2, RegistryStays DEF ServerInv, Registry, AtWork, Alive
<1> QED
  BY <1>1, <1>2, <1>3, <1>4, <1>5 DEF ServerInv

LEMMA UnmarkEffect ==
  ASSUME ServerInv, NEW t \in Tasks, RemoveMarker(t)
  PROVE  /\ ServerInv' /\ Ended(t) /\ Ended(t)' /\ ~AtWork(t) /\ ~AtWork(t)'
         /\ task'[t].name = task[t].name
         /\ \A u \in Tasks \ {t} : task'[u] = task[u]
         /\ UNCHANGED <<disk, clones, told, rows, deleting, disturbed>>
<1>1. /\ Ended(t) /\ Ended(t)' /\ ~AtWork(t) /\ ~AtWork(t)' /\ task'[t].name = task[t].name
      /\ ~task'[t].dead
      /\ \A u \in Tasks \ {t} : task'[u] = task[u]
  BY DEF RemoveMarker, Step, AtWork, Alive, Working, Ended, ServerInv, IInv, TypeOK, TaskType
<1>2. UNCHANGED <<disk, clones, told, rows, deleting, disturbed>>
  BY DEF RemoveMarker
<1>3. IInv'
  BY NextInv DEF Next, TaskStep, ServerInv
<1>4. Registry'
  BY <1>1, <1>2, RegistryStays DEF ServerInv, Registry, AtWork, Alive
<1> QED
  BY <1>1, <1>2, <1>3, <1>4 DEF ServerInv

LEMMA ClaimEffect ==
  ASSUME ServerInv, NEW t \in Tasks, RecloneClaim(t)
  PROVE  /\ ServerInv' /\ ~AtWork(t) /\ ~Ended(t) /\ task'[t].name = task[t].name
         /\ \A u \in Tasks \ {t} : task'[u] = task[u]
         /\ UNCHANGED <<told, rows, deleting, disturbed>>
         /\ \/ /\ AtWork(t)' /\ Entries' = Entries \cup {t}
               /\ \A n \in Names : n # task[t].name => disk'[n] = disk[n]
            \/ UNCHANGED <<disk, clones>> /\ Ended(t)'
<1>1. /\ ~AtWork(t) /\ ~Ended(t) /\ task'[t].name = task[t].name /\ ~task'[t].dead
      /\ \A u \in Tasks \ {t} : task'[u] = task[u]
  BY DEF RecloneClaim, Step, AtWork, Alive, Working, Ended, ServerInv, IInv, TypeOK, TaskType
<1>2. UNCHANGED <<told, rows, deleting, disturbed>>
  BY DEF RecloneClaim
<1>3. IInv'
  BY NextInv DEF Next, TaskStep, ServerInv
<1>4. t \notin Entries /\ clones \in Seq(Tasks)
  BY <1>1 DEF ServerInv, Registry, IInv, TypeOK, RestType
<1>5. CASE disk[task[t].name].by = NoOne
  <2>1. Step(t, "claimed") /\ Register(t)
    BY <1>5 DEF RecloneClaim
  <2>2. AtWork(t)'
    BY <1>1, <2>1 DEF AtWork, Alive, Working, Step, ServerInv, IInv, TypeOK, TaskType
  <2>3. /\ Entries' = Entries \cup {t}
        /\ \A i, j \in DOMAIN clones' : clones'[i] = clones'[j] => i = j
    BY <1>4, <2>1, RegisterOnce DEF ServerInv, Registry
  <2>a. \A u \in Entries' : u = t \/ (u \in Tasks \ {t} /\ AtWork(u))
    BY <1>4, <2>3, EntriesTasks DEF ServerInv, Registry
  <2>b. \A u \in Entries' : AtWork(u)'
    BY <1>1, <2>2, <2>a DEF AtWork, Alive
  <2>4. Registry'
    BY <1>1, <2>3, <2>b DEF ServerInv, Registry
  <2>5. \A n \in Names : n # task[t].name => disk'[n] = disk[n]
    BY <1>5 DEF RecloneClaim, ServerInv, IInv, TypeOK, DiskType
  <2> QED
    BY <1>1, <1>2, <1>3, <2>2, <2>3, <2>4, <2>5 DEF ServerInv
<1>6. CASE disk[task[t].name].by # NoOne
  <2>1. Step(t, "done") /\ UNCHANGED <<disk, clones>>
    BY <1>6 DEF RecloneClaim
  <2>2. Ended(t)'
    BY <2>1 DEF Ended, Step, ServerInv, IInv, TypeOK, TaskType
  <2>3. Registry'
    BY <1>1, <2>1, RegistryStays DEF ServerInv, Registry, AtWork, Alive
  <2> QED
    BY <1>1, <1>2, <1>3, <2>1, <2>2, <2>3 DEF ServerInv
<1> QED
  BY <1>5, <1>6

(* The end of a clone, either way, tells it and takes it off the registry. *)
LEMMA EndEffect ==
  ASSUME ServerInv, NEW t \in Tasks, Complete(t) \/ FailClone(t)
  PROVE  /\ ServerInv' /\ AtWork(t) /\ Ended(t)' /\ ~AtWork(t)'
         /\ task'[t].name = task[t].name
         /\ \A u \in Tasks \ {t} : task'[u] = task[u]
         /\ UNCHANGED <<rows, deleting>> /\ disturbed \subseteq disturbed'
         /\ Entries' = Entries \ {t}
         /\ \A n \in Names : n # task[t].name => disk'[n] = disk[n]
         /\ \E end \in Ends :
              /\ told' = [told EXCEPT ![t] = Append(@, end)]
              /\ IF end = "completed"
                   THEN disk'[task[t].name].by # NoOne \/ t \in disturbed'
                   ELSE disk'[task[t].name].by = NoOne
<1>1. /\ AtWork(t) /\ Ended(t)' /\ ~AtWork(t)' /\ task'[t].name = task[t].name /\ ~task'[t].dead
      /\ \A u \in Tasks \ {t} : task'[u] = task[u]
  BY DEF Complete, FailClone, Step, AtWork, Alive, Working, Ended, ServerInv, IInv, TypeOK, TaskType
<1>2. UNCHANGED <<rows, deleting>> /\ disturbed \subseteq disturbed'
  BY DEF Complete, FailClone, Disturb
<1>3. IInv'
  BY NextInv DEF Next, TaskStep, ServerInv
<1>4. /\ Entries' = Entries \ {t} /\ clones \in Seq(Tasks)
      /\ \A i, j \in DOMAIN clones' : clones'[i] = clones'[j] => i = j
  BY UnregisterOnce DEF Complete, FailClone, ServerInv, Registry, IInv, TypeOK, RestType
<1>5. Registry'
  <2>1. \A u \in Tasks : ~task'[u].dead
    BY <1>1 DEF ServerInv, Registry
  <2>2. \A u \in Entries' : u \in Tasks \ {t} /\ AtWork(u)
    BY <1>4, EntriesTasks DEF ServerInv, Registry
  <2>3. \A u \in Entries' : AtWork(u)'
    BY <1>1, <2>2 DEF AtWork, Alive
  <2> QED
    BY <1>4, <2>1, <2>3 DEF Registry
<1>6. \A n \in Names : n # task[t].name => disk'[n] = disk[n]
  BY DEF Complete, FailClone, ServerInv, IInv, TypeOK, DiskType
<1>7. task[t].name \in Names
  BY DEF ServerInv, IInv, TypeOK, TaskType
<1>8. \E end \in Ends :
        /\ told' = [told EXCEPT ![t] = Append(@, end)]
        /\ IF end = "completed" THEN disk'[task[t].name].by # NoOne \/ t \in disturbed'
                                ELSE disk'[task[t].name].by = NoOne
  <2>1. CASE Complete(t)
    <3>1. told' = [told EXCEPT ![t] = Append(@, "completed")]
      BY <2>1 DEF Complete, Tell
    <3>2. disk'[task[t].name].by # NoOne \/ t \in disturbed'
      BY <1>1, <1>2, <2>1, WhoAssumption DEF Complete, ServerInv, IInv, Holds, AtWork
    <3> QED
      BY <3>1, <3>2 DEF Ends
  <2>2. CASE FailClone(t)
    <3>1. told' = [told EXCEPT ![t] = Append(@, IF task[t].aborted THEN "canceled" ELSE "failed")]
      BY <2>2 DEF FailClone, Tell
    <3>2. disk'[task[t].name].by = NoOne
      BY <1>7, <2>2, EmptyEffect DEF FailClone, ServerInv, IInv, TypeOK
    <3>3. CASE task[t].aborted = TRUE
      BY <3>1, <3>2, <3>3 DEF Ends
    <3>4. CASE task[t].aborted = FALSE
      BY <3>1, <3>2, <3>4 DEF Ends
    <3> QED
      BY <3>3, <3>4 DEF ServerInv, IInv, TypeOK, TaskType
  <2> QED
    BY <2>1, <2>2
<1>9. told' \in [Tasks -> Seq(Ends)]
  <2>1. PICK end \in Ends : told' = [told EXCEPT ![t] = Append(@, end)]
    BY <1>8
  <2>2. Append(told[t], end) \in Seq(Ends)
    BY AppendProperties DEF ServerInv
  <2> QED
    BY <2>1, <2>2 DEF ServerInv
<1> QED
  BY <1>1, <1>2, <1>3, <1>4, <1>5, <1>6, <1>8, <1>9 DEF ServerInv

(* The requests.                                                           *)
LEMMA PostEffect ==
  ASSUME ServerInv, NEW t \in Tasks, Post(t)
  PROVE  /\ ServerInv' /\ ~AtWork(t) /\ ~Ended(t) /\ AtWork(t)'
         /\ \A u \in Tasks \ {t} : task'[u] = task[u]
         /\ UNCHANGED <<told, rows, deleting, disturbed>>
         /\ Entries' = Entries \cup {t}
         /\ \A n \in Names : n # task'[t].name => disk'[n] = disk[n]
<1>1. PICK n \in Names :
        /\ disk' = [disk EXCEPT ![n] = [by |-> t, full |-> FALSE]]
        /\ task' = [task EXCEPT ![t].st = "claimed", ![t].name = n]
  BY DEF Post
<1>2. /\ ~AtWork(t) /\ ~Ended(t) /\ AtWork(t)' /\ task'[t].name = n /\ ~task'[t].dead
      /\ \A u \in Tasks \ {t} : task'[u] = task[u]
  BY <1>1 DEF Post, AtWork, Alive, Working, Ended, ServerInv, IInv, TypeOK, TaskType, Registry
<1>3. UNCHANGED <<told, rows, deleting, disturbed>>
  BY DEF Post
<1>4. IInv'
  BY NextInv DEF Next, Request, ServerInv
<1>5. t \notin Entries /\ clones \in Seq(Tasks)
  BY <1>2 DEF ServerInv, Registry, IInv, TypeOK, RestType
<1>6. /\ Entries' = Entries \cup {t}
      /\ \A i, j \in DOMAIN clones' : clones'[i] = clones'[j] => i = j
  BY <1>5, RegisterOnce DEF Post, ServerInv, Registry
<1>7. \A u \in Entries' : u = t \/ (u \in Tasks \ {t} /\ AtWork(u))
  BY <1>5, <1>6, EntriesTasks DEF ServerInv, Registry
<1>8. \A u \in Entries' : AtWork(u)'
  BY <1>2, <1>7 DEF AtWork, Alive
<1>9. Registry'
  BY <1>2, <1>6, <1>8 DEF ServerInv, Registry
<1>10. \A m \in Names : m # n => disk'[m] = disk[m]
  BY <1>1 DEF ServerInv, IInv, TypeOK, DiskType
<1> QED
  BY <1>2, <1>3, <1>4, <1>6, <1>9, <1>10 DEF ServerInv

LEMMA RecloneEffect ==
  ASSUME ServerInv, NEW t \in Tasks, NEW n \in Names, Reclone(t, n)
  PROVE  /\ ServerInv' /\ ~AtWork(t) /\ ~Ended(t) /\ ~AtWork(t)'
         /\ \A u \in Tasks \ {t} : task'[u] = task[u]
         /\ UNCHANGED <<told, rows, deleting, clones>> /\ disturbed \subseteq disturbed'
         /\ disk'[n].by = NoOne
         /\ \A m \in Names : m # n => disk'[m] = disk[m]
<1>1. /\ ~AtWork(t) /\ ~Ended(t) /\ ~AtWork(t)' /\ ~task'[t].dead
      /\ \A u \in Tasks \ {t} : task'[u] = task[u]
  BY DEF Reclone, AtWork, Alive, Working, Ended, ServerInv, IInv, TypeOK, TaskType, Registry
<1>2. UNCHANGED <<told, rows, deleting, clones>> /\ disturbed \subseteq disturbed'
  BY DEF Reclone, Disturb
<1>3. IInv'
  BY NextInv DEF Next, Request, ServerInv
<1>4. Registry'
  BY <1>1, <1>2, RegistryStays DEF ServerInv, Registry, AtWork, Alive
<1>5. /\ disk'[n].by = NoOne
      /\ \A m \in Names : m # n => disk'[m] = disk[m]
  BY EmptyEffect DEF Reclone, ServerInv, IInv, TypeOK
<1> QED
  BY <1>1, <1>2, <1>3, <1>4, <1>5 DEF ServerInv

(* Requests that start and end no clone.                                   *)
LEMMA OtherEffect ==
  ASSUME ServerInv, NEW n \in Names,
         CancelClone(n) \/ AdoptProject(n) \/ DeleteRows(n) \/ DeleteStep(n)
  PROVE  /\ ServerInv'
         /\ \A u \in Tasks : /\ task'[u].st = task[u].st /\ task'[u].name = task[u].name
                             /\ task'[u].dead = task[u].dead
         /\ UNCHANGED <<told, clones>> /\ disturbed \subseteq disturbed'
         /\ \A m \in Names : m # n => disk'[m] = disk[m] /\ (m \in rows' <=> m \in rows)
<1>1. \A u \in Tasks : /\ task'[u].st = task[u].st /\ task'[u].name = task[u].name
                       /\ task'[u].dead = task[u].dead
  <2>1. CASE CancelClone(n)
    <3>1. PICK x : task' = [task EXCEPT ![x].aborted = TRUE]
      BY <2>1 DEF CancelClone
    <3> QED
      BY <3>1 DEF ServerInv, IInv, TypeOK, TaskType
  <2>2. CASE AdoptProject(n) \/ DeleteRows(n) \/ DeleteStep(n)
    BY <2>2 DEF AdoptProject, DeleteRows, DeleteStep, DeleteFolder, DeleteMetadata
  <2> QED
    BY <2>1, <2>2
<1>2. UNCHANGED <<told, clones>> /\ disturbed \subseteq disturbed' /\ rows' \subseteq rows
  BY DEF CancelClone, AdoptProject, DeleteRows, DeleteStep, DeleteFolder, DeleteMetadata, Disturb
<1>3. IInv'
  BY NextInv DEF Next, Request, ServerInv
<1>4. Registry'
  BY <1>1, <1>2, RegistryStays DEF ServerInv, Registry, AtWork, Alive
<1>5. \A m \in Names : m # n => disk'[m] = disk[m] /\ (m \in rows' <=> m \in rows)
  BY DEF CancelClone, AdoptProject, DeleteRows, DeleteStep, DeleteFolder, DeleteMetadata,
         ServerInv, IInv, TypeOK, DiskType
<1> QED
  BY <1>1, <1>2, <1>3, <1>4, <1>5 DEF ServerInv

-----------------------------------------------------------------------------
(* A listing in flight grows stale in what changes behind it.              *)
LEMMA FetchAges ==
  ASSUME TabType, FetchTrue, fetch' = Aged
  PROVE  /\ fetch' \in [Fetches -> [st : {"no", "read", "flagged"}, dirs : SUBSET Names,
                            own : SUBSET Names, flagged : SUBSET Names, stale : SUBSET Names]]
         /\ FetchTrue'
         /\ \A f \in Fetches : fetch'[f].st = fetch[f].st
<1> DEFINE FT == [st : {"no", "read", "flagged"}, dirs : SUBSET Names,
                  own : SUBSET Names, flagged : SUBSET Names, stale : SUBSET Names]
           Moved == {n \in Names : Truth'[n] # Truth[n]}
<1>1. ASSUME NEW f \in Fetches
      PROVE  /\ fetch'[f] \in FT
             /\ fetch'[f].st = fetch[f].st /\ fetch'[f].dirs = fetch[f].dirs
             /\ fetch'[f].own = fetch[f].own /\ fetch'[f].flagged = fetch[f].flagged
             /\ fetch'[f].st # "no" => fetch'[f].stale = fetch[f].stale \cup Moved
  <2>1. fetch[f] \in FT
    BY DEF TabType
  <2>2. fetch'[f] = IF fetch[f].st \in {"read", "flagged"}
                      THEN [fetch[f] EXCEPT !.stale = @ \cup Moved]
                      ELSE fetch[f]
    BY DEF Aged
  <2> HIDE DEF Moved
  <2>3. Moved \subseteq Names
    BY DEF Moved
  <2> QED
    BY <2>1, <2>2, <2>3
<1>2. fetch' \in [Fetches -> FT]
  BY <1>1 DEF Aged
<1>3. FetchTrue'
  <2> SUFFICES ASSUME NEW f \in Fetches, NEW n \in Names, n \notin fetch'[f].stale
               PROVE  /\ fetch'[f].st = "read" =>
                           /\ n \in fetch'[f].dirs <=> n \in Folders'
                           /\ n \notin fetch'[f].dirs => (n \in fetch'[f].own <=> n \in rows')
                      /\ fetch'[f].st = "flagged" =>
                           Listed(fetch'[f].dirs, fetch'[f].own, fetch'[f].flagged)[n] = Truth'[n]
    BY DEF FetchTrue
  <2>1. CASE fetch'[f].st = "no"
    BY <2>1
  <2>2. CASE fetch'[f].st # "no"
    <3>1. n \notin fetch[f].stale /\ Truth'[n] = Truth[n]
      BY <1>1, <2>2
    <3>2. n \in Folders <=> n \in Folders'
      BY <3>1, RowOf, RowOfPrime
    <3>3. n \notin Folders => (n \in rows <=> n \in rows')
      BY <3>1, <3>2, RowOf, RowOfPrime
    <3>4. fetch[f].st = "read" => /\ n \in fetch[f].dirs <=> n \in Folders
                                  /\ n \notin fetch[f].dirs => (n \in fetch[f].own <=> n \in rows)
      BY <3>1 DEF FetchTrue
    <3>5. fetch[f].st = "flagged" =>
            Listed(fetch[f].dirs, fetch[f].own, fetch[f].flagged)[n] = Truth[n]
      BY <3>1 DEF FetchTrue
    <3> QED
      BY <1>1, <3>1, <3>2, <3>3, <3>4, <3>5
  <2> QED
    BY <2>1, <2>2
<1> QED
  BY <1>1, <1>2, <1>3

(* What the server's step sends.                                           *)
LEMMA NothingSent ==
  ASSUME told' = told, ServerMoves
  PROVE  Told = {} /\ frames' = frames /\ unheard \subseteq unheard'
<1>1. Told = {}
  BY DEF Told
<1> QED
  BY <1>1 DEF ServerMoves, Sent

LEMMA EndSent ==
  ASSUME TabType, ServerMoves, NEW t \in Tasks, NEW end \in Ends,
         task[t].name \in Names,
         told \in [Tasks -> Seq(Ends)], told' = [told EXCEPT ![t] = Append(@, end)]
  PROVE  /\ Told = {t}
         /\ ~online => frames' = frames /\ unheard' = unheard \cup {t}
         /\ online => /\ frames' = Append(frames, [id |-> t, status |-> end,
                                                   truth |-> Truth'[task[t].name]])
                      /\ unheard' = unheard
<1>1. /\ Append(told[t], end) \in Seq(Ends) /\ Len(Append(told[t], end)) = Len(told[t]) + 1
      /\ Append(told[t], end)[Len(told[t]) + 1] = end /\ Len(told[t]) \in Nat
  BY AppendProperties
<1>2. told'[t] # told[t]
  BY <1>1
<1>3. Told = {t}
  BY <1>2 DEF Told
<1>4. (CHOOSE u \in Told : TRUE) = t
  BY <1>3
<1>5. told'[t][Len(told'[t])] = end
  BY <1>1
<1> QED
  BY <1>3, <1>4, <1>5 DEF ServerMoves, Sent

-----------------------------------------------------------------------------
(* A step of the server that tells nothing: what was on its way stays      *)
(* true, and the rows it changes have something on the way.                      *)
LEMMA QuietServerKeeps ==
  ASSUME ServerInv, TabInv, ServerMoves, told' = told,
         UNCHANGED <<list, modal, online, excuse>>, dirty => dirty',
         \A u \in Tasks : Ended(u) => Ended(u)' /\ task'[u].name = task[u].name,
         \A u \in Tasks : AtWork(u) => AtWork(u)' /\ task'[u].name = task[u].name,
         disturbed \subseteq disturbed',
         \A u \in answers' : u \in answers \/ (u \in Tasks /\ AtWork(u)'),
         removal' \in [Names -> {"no", "asked", "under way", "answered"}], Removals',
         \A n \in Names : removal[n] \in {"under way", "answered"} =>
                            removal'[n] \in {"under way", "answered"},
         \A n \in Names : list[n] = Truth[n] => list[n] = Truth'[n] \/ Pending(n)'
  PROVE  TabInv'
<1>1. frames' = frames /\ InFlight' = InFlight /\ unheard \subseteq unheard'
  BY NothingSent DEF InFlight
<1>2. \A f \in InFlight : f.id \in Tasks
  BY FramesShape DEF TabInv
<1>3. /\ fetch' \in [Fetches -> [st : {"no", "read", "flagged"}, dirs : SUBSET Names,
                            own : SUBSET Names, flagged : SUBSET Names, stale : SUBSET Names]]
      /\ FetchTrue' /\ \A f \in Fetches : fetch'[f].st = fetch[f].st
  BY FetchAges DEF ServerMoves, TabInv
<1>4. TabType'
  BY <1>1, <1>3 DEF TabInv, TabType
<1>5. AnswersTrue'
  BY DEF TabInv, AnswersTrue
<1>6. FramesTrue'
  BY <1>1, <1>2 DEF TabInv, FramesTrue
<1>7. \A n \in Names : Pending(n) => Pending(n)'
  <2> SUFFICES ASSUME NEW n \in Names, Pending(n) PROVE Pending(n)'
    OBVIOUS
  <2>1. WorkedOn(n) => WorkedOn(n)'
    BY DEF WorkedOn
  <2>2. (\E f \in InFlight : task[f.id].name = n) => \E f \in InFlight' : task'[f.id].name = n
    BY <1>1, <1>2 DEF TabInv, FramesTrue
  <2>3. (\E f \in Fetches : fetch[f].st # "no") => \E f \in Fetches : fetch'[f].st # "no"
    BY <1>3
  <2> QED
    BY <2>1, <2>2, <2>3 DEF Pending
<1>8. ListComes'
  BY <1>7 DEF TabInv, ListComes
<1>9. ModalComes'
  BY <1>1 DEF TabInv, TabType, ModalComes
<1> QED
  BY <1>3, <1>4, <1>5, <1>6, <1>8, <1>9 DEF TabInv

(* The end of a clone goes out as a frame, or to nobody.                   *)
LEMMA EndKeepsTab ==
  ASSUME ServerInv, TabInv, NEW t \in Tasks, Complete(t) \/ FailClone(t), TaskMoves(t)
  PROVE  TabInv'
<1>0. /\ ServerMoves /\ UNCHANGED <<list, modal, online, excuse, dirty, removal>>
      /\ answers' \subseteq answers
  BY DEF TaskMoves, Complete, FailClone
<1>1. /\ ServerInv' /\ AtWork(t) /\ Ended(t)' /\ ~AtWork(t)'
      /\ task'[t].name = task[t].name
      /\ \A u \in Tasks \ {t} : task'[u] = task[u]
      /\ UNCHANGED <<rows, deleting>> /\ disturbed \subseteq disturbed'
      /\ Entries' = Entries \ {t}
      /\ \A n \in Names : n # task[t].name => disk'[n] = disk[n]
  BY EndEffect
<1>2. PICK end \in Ends :
        /\ told' = [told EXCEPT ![t] = Append(@, end)]
        /\ IF end = "completed" THEN disk'[task[t].name].by # NoOne \/ t \in disturbed'
                                ELSE disk'[task[t].name].by = NoOne
  BY EndEffect
<1>3. task[t].name \in Names
  BY DEF ServerInv, IInv, TypeOK, TaskType
<1> DEFINE f0 == [id |-> t, status |-> end, truth |-> Truth'[task[t].name]]
<1>4. /\ ~online => frames' = frames /\ unheard' = unheard \cup {t}
      /\ online => frames' = Append(frames, f0) /\ unheard' = unheard
  BY <1>0, <1>2, <1>3, EndSent DEF TabInv, ServerInv
<1>5. f0 \in [id : Tasks, status : Ends, truth : Shown]
  BY <1>3, TruthShown
<1>6. /\ frames' \in Seq([id : Tasks, status : Ends, truth : Shown])
      /\ InFlight' = IF online THEN InFlight \cup {f0} ELSE InFlight
  <2>1. CASE online
    BY <1>4, <1>5, <2>1, AppendFrame DEF TabInv, TabType
  <2>2. CASE ~online
    BY <1>4, <2>2 DEF TabInv, TabType, InFlight
  <2> QED
    BY <2>1, <2>2
<1>7. /\ f0.id = t /\ f0.status = end
      /\ IF end = "completed" THEN f0.truth \in {"ready", "cloning"} \/ t \in disturbed'
                              ELSE f0.truth \in {"none", "foreign"}
  BY <1>2, <1>3, RowOfPrime DEF Folders
<1> HIDE DEF f0
<1>8. /\ fetch' \in [Fetches -> [st : {"no", "read", "flagged"}, dirs : SUBSET Names,
                            own : SUBSET Names, flagged : SUBSET Names, stale : SUBSET Names]]
      /\ FetchTrue' /\ \A f \in Fetches : fetch'[f].st = fetch[f].st
  BY <1>0, FetchAges DEF ServerMoves, TabInv
<1>9. TabType' /\ Removals'
  BY <1>0, <1>1, <1>6, <1>8 DEF TabInv, TabType, Removals
<1>10. \A u \in Tasks : /\ Ended(u) => Ended(u)'
                        /\ AtWork(u) => u = t \/ AtWork(u)'
                        /\ task'[u].name = task[u].name
  BY <1>1 DEF Ended, AtWork, Alive
<1>11. AnswersTrue'
  BY <1>0, <1>1, <1>10 DEF TabInv, AnswersTrue
<1>12. \A f \in InFlight : f.id \in Tasks
  BY FramesShape DEF TabInv
<1>13. FramesTrue'
  BY <1>1, <1>6, <1>7, <1>10, <1>12 DEF TabInv, FramesTrue
<1>14. ~online \/ f0 \in InFlight'
  BY <1>6
<1>15. ModalComes'
  BY <1>0, <1>4, <1>6, <1>7, <1>10 DEF TabInv, TabType, ModalComes
<1>16. ASSUME NEW n \in Names PROVE list'[n] = Truth'[n] \/ n \in excuse' \/ Pending(n)'
  <2>1. CASE n = task[t].name
    BY <1>0, <1>1, <1>7, <1>14, <2>1 DEF Pending
  <2>2. CASE n # task[t].name
    <3>1. Truth'[n] = Truth[n]
      <4>1. n \in Folders' <=> n \in Folders
        BY <1>1, <2>2 DEF Folders
      <4>2. n \in CloningNames' <=> n \in CloningNames
        BY <1>1, <1>10, <2>2, EntriesTasks DEF CloningNames
      <4> QED
        BY <1>1, <4>1, <4>2, RowOf, RowOfPrime
    <3>2. Pending(n) => Pending(n)'
      <4>1. WorkedOn(n) => WorkedOn(n)'
        BY <1>10, <2>2 DEF WorkedOn
      <4>2. (\E f \in InFlight : task[f.id].name = n) => \E f \in InFlight' : task'[f.id].name = n
        BY <1>6, <1>10, <1>12
      <4>3. (\E f \in Fetches : fetch[f].st # "no") => \E f \in Fetches : fetch'[f].st # "no"
        BY <1>8
      <4> QED
        BY <1>0, <4>1, <4>2, <4>3 DEF Pending
    <3> QED
      BY <1>0, <3>1, <3>2 DEF TabInv, ListComes
  <2> QED
    BY <2>1, <2>2
<1> QED
  BY <1>8, <1>9, <1>11, <1>13, <1>15, <1>16 DEF TabInv, ListComes

-----------------------------------------------------------------------------
(* A row whose folder, rows and clones stay stays true.                    *)
LEMMA RowStays ==
  ASSUME NEW n \in Names, disk'[n].by = NoOne <=> disk[n].by = NoOne,
         n \in rows' <=> n \in rows, n \in CloningNames' <=> n \in CloningNames
  PROVE  Truth'[n] = Truth[n]
BY RowOf, RowOfPrime DEF Folders

(* What the steps that move one clone leave of the others.                 *)
LEMMA OthersStay ==
  ASSUME ServerInv, NEW t \in Tasks, \A u \in Tasks \ {t} : task'[u] = task[u],
         Ended(t) => Ended(t)' /\ task'[t].name = task[t].name,
         AtWork(t) => AtWork(t)' /\ task'[t].name = task[t].name
  PROVE  /\ \A u \in Tasks : Ended(u) => Ended(u)' /\ task'[u].name = task[u].name
         /\ \A u \in Tasks : AtWork(u) => AtWork(u)' /\ task'[u].name = task[u].name
BY DEF Ended, AtWork, Alive

LEMMA PostKeeps ==
  ASSUME ServerInv, TabInv, NEW t \in Tasks, UserPosts(t)
  PROVE  ServerInv' /\ TabInv'
<1>0. Post(t) /\ ServerMoves /\ UNCHANGED <<list, modal, online, excuse, dirty, removal, answers>>
  BY DEF UserPosts
<1>1. /\ ServerInv' /\ ~AtWork(t) /\ ~Ended(t) /\ AtWork(t)'
      /\ \A u \in Tasks \ {t} : task'[u] = task[u]
      /\ UNCHANGED <<told, rows, deleting, disturbed>>
      /\ Entries' = Entries \cup {t}
      /\ \A n \in Names : n # task'[t].name => disk'[n] = disk[n]
  BY <1>0, PostEffect
<1>2. /\ \A u \in Tasks : Ended(u) => Ended(u)' /\ task'[u].name = task[u].name
      /\ \A u \in Tasks : AtWork(u) => AtWork(u)' /\ task'[u].name = task[u].name
  BY <1>1, OthersStay
<1>3. ASSUME NEW n \in Names PROVE Truth'[n] = Truth[n] \/ Pending(n)'
  <2>1. CASE n = task'[t].name
    BY <1>1, <2>1 DEF Pending, WorkedOn
  <2>2. CASE n # task'[t].name
    <3>1. n \in CloningNames' <=> n \in CloningNames
      <4>1. t \notin Entries
        BY <1>1 DEF ServerInv, Registry
      <4> QED
        BY <1>1, <2>2, <4>1, EntriesTasks DEF CloningNames
    <3> QED
      BY <1>1, <2>2, <3>1, RowStays
  <2> QED
    BY <2>1, <2>2
<1>4. Removals' /\ removal' \in [Names -> {"no", "asked", "under way", "answered"}]
  BY <1>0, <1>1 DEF TabInv, TabType, Removals
<1>5. TabInv'
  BY <1>0, <1>1, <1>2, <1>3, <1>4, QuietServerKeeps
<1> QED
  BY <1>1, <1>5

LEMMA RecloneKeeps ==
  ASSUME ServerInv, TabInv, NEW t \in Tasks, NEW n \in Names, UserReclones(t, n)
  PROVE  ServerInv' /\ TabInv'
<1>0. /\ list[n] = "foreign" /\ Reclone(t, n) /\ ServerMoves
      /\ UNCHANGED <<list, modal, online, excuse, dirty, removal, answers>>
  BY DEF UserReclones
<1>1. /\ ServerInv' /\ ~AtWork(t) /\ ~Ended(t) /\ ~AtWork(t)'
      /\ \A u \in Tasks \ {t} : task'[u] = task[u]
      /\ UNCHANGED <<told, rows, deleting, clones>> /\ disturbed \subseteq disturbed'
      /\ disk'[n].by = NoOne
      /\ \A m \in Names : m # n => disk'[m] = disk[m]
  BY <1>0, RecloneEffect
<1>2. /\ \A u \in Tasks : Ended(u) => Ended(u)' /\ task'[u].name = task[u].name
      /\ \A u \in Tasks : AtWork(u) => AtWork(u)' /\ task'[u].name = task[u].name
  BY <1>1, OthersStay
<1>3. ASSUME NEW m \in Names, list[m] = Truth[m] PROVE list[m] = Truth'[m]
  <2>1. m \in CloningNames' <=> m \in CloningNames
    <3>1. t \notin Entries /\ Entries' = Entries
      BY <1>1 DEF ServerInv, Registry, Entries
    <3> QED
      BY <1>1, <3>1, EntriesTasks DEF CloningNames
  <2>2. CASE m # n
    BY <1>1, <1>3, <2>1, <2>2, RowStays
  <2>3. CASE m = n
    BY <1>0, <1>1, <1>3, <2>3, RowOf, RowOfPrime DEF Folders
  <2> QED
    BY <2>2, <2>3
<1>4. Removals' /\ removal' \in [Names -> {"no", "asked", "under way", "answered"}]
  BY <1>0, <1>1 DEF TabInv, TabType, Removals
<1>5. TabInv'
  BY <1>0, <1>1, <1>2, <1>3, <1>4, QuietServerKeeps
<1> QED
  BY <1>1, <1>5

(* A clone that starts, goes on or takes its marker away.                  *)
LEMMA TaskKeeps ==
  ASSUME ServerInv, TabInv, NEW t \in Tasks, TaskMoves(t)
  PROVE  ServerInv' /\ TabInv'
<1>0. /\ TaskStep(t) /\ ServerMoves /\ UNCHANGED <<list, modal, online, excuse, dirty, removal>>
      /\ answers' = IF task[t].st = "claimed" /\ ~task[t].again THEN answers \cup {t} ELSE answers
  BY DEF TaskMoves
<1>1. CASE Complete(t) \/ FailClone(t)
  BY <1>1, EndKeepsTab, EndEffect
<1>2. CASE WriteMarker(t) \/ GitSucceeds(t) \/ GitFails(t) \/ MetadataFails(t)
  <2>1. /\ ServerInv' /\ AtWork(t) /\ AtWork(t)' /\ task'[t].name = task[t].name
        /\ \A u \in Tasks \ {t} : task'[u] = task[u]
        /\ UNCHANGED <<clones, told, rows, deleting, disturbed>>
        /\ Folders' = Folders
    BY <1>2, WorkEffect
  <2>2. ~Ended(t)
    BY <2>1 DEF AtWork, Working, Ended
  <2>3. /\ \A u \in Tasks : Ended(u) => Ended(u)' /\ task'[u].name = task[u].name
        /\ \A u \in Tasks : AtWork(u) => AtWork(u)' /\ task'[u].name = task[u].name
    BY <2>1, <2>2, OthersStay
  <2>4. ASSUME NEW n \in Names PROVE Truth'[n] = Truth[n]
    <3>1. n \in CloningNames' <=> n \in CloningNames
      <4>1. Entries' = Entries
        BY <2>1 DEF Entries
      <4>2. \A u \in Entries : task'[u].name = task[u].name
        BY <2>1, EntriesTasks
      <4> QED
        BY <4>1, <4>2 DEF CloningNames
    <3> QED
      BY <2>1, <3>1, RowOf, RowOfPrime
  <2>5. Removals' /\ removal' \in [Names -> {"no", "asked", "under way", "answered"}]
    BY <1>0, <2>1 DEF TabInv, TabType, Removals
  <2>6. \A u \in answers' : u \in answers \/ (u \in Tasks /\ AtWork(u)')
    BY <1>0, <2>1
  <2>7. TabInv'
    BY <1>0, <2>1, <2>3, <2>4, <2>5, <2>6, QuietServerKeeps
  <2> QED
    BY <2>1, <2>7
<1>3. CASE RemoveMarker(t)
  <2>1. /\ ServerInv' /\ Ended(t) /\ Ended(t)' /\ ~AtWork(t) /\ ~AtWork(t)'
        /\ task'[t].name = task[t].name
        /\ \A u \in Tasks \ {t} : task'[u] = task[u]
        /\ UNCHANGED <<disk, clones, told, rows, deleting, disturbed>>
    BY <1>3, UnmarkEffect
  <2>2. /\ \A u \in Tasks : Ended(u) => Ended(u)' /\ task'[u].name = task[u].name
        /\ \A u \in Tasks : AtWork(u) => AtWork(u)' /\ task'[u].name = task[u].name
    BY <2>1, OthersStay
  <2>3. ASSUME NEW n \in Names PROVE Truth'[n] = Truth[n]
    <3>1. n \in CloningNames' <=> n \in CloningNames
      <4>1. Entries' = Entries
        BY <2>1 DEF Entries
      <4>2. \A u \in Entries : task'[u].name = task[u].name
        BY <2>1, EntriesTasks
      <4> QED
        BY <4>1, <4>2 DEF CloningNames
    <3> QED
      BY <2>1, <3>1, RowStays
  <2>4. Removals' /\ removal' \in [Names -> {"no", "asked", "under way", "answered"}]
    BY <1>0, <2>1 DEF TabInv, TabType, Removals
  <2>5. answers' = answers
    BY <1>0, <1>3 DEF RemoveMarker
  <2>6. TabInv'
    BY <1>0, <2>1, <2>2, <2>3, <2>4, <2>5, QuietServerKeeps
  <2> QED
    BY <2>1, <2>6
<1>4. CASE RecloneClaim(t)
  <2>1. /\ ServerInv' /\ ~AtWork(t) /\ ~Ended(t) /\ task'[t].name = task[t].name
        /\ \A u \in Tasks \ {t} : task'[u] = task[u]
        /\ UNCHANGED <<told, rows, deleting, disturbed>>
        /\ \/ /\ AtWork(t)' /\ Entries' = Entries \cup {t}
              /\ \A n \in Names : n # task[t].name => disk'[n] = disk[n]
           \/ UNCHANGED <<disk, clones>> /\ Ended(t)'
    BY <1>4, ClaimEffect
  <2>2. /\ \A u \in Tasks : Ended(u) => Ended(u)' /\ task'[u].name = task[u].name
        /\ \A u \in Tasks : AtWork(u) => AtWork(u)' /\ task'[u].name = task[u].name
    BY <2>1, OthersStay
  <2>a. \A u \in Entries : u \in Tasks \ {t} /\ task'[u].name = task[u].name
    BY <2>1, EntriesTasks DEF ServerInv, Registry
  <2>3. ASSUME NEW n \in Names PROVE Truth'[n] = Truth[n] \/ Pending(n)'
    <3>1. CASE AtWork(t)' /\ n = task[t].name
      BY <2>1, <3>1 DEF Pending, WorkedOn
    <3>2. CASE /\ AtWork(t)' /\ Entries' = Entries \cup {t} /\ n # task[t].name
               /\ disk'[n] = disk[n]
      <4>1. n \in CloningNames' <=> n \in CloningNames
        BY <2>1, <2>a, <3>2 DEF CloningNames
      <4> QED
        BY <2>1, <3>2, <4>1, RowStays
    <3>3. CASE UNCHANGED <<disk, clones>>
      <4>1. Entries' = Entries
        BY <3>3 DEF Entries
      <4>2. n \in CloningNames' <=> n \in CloningNames
        BY <2>a, <4>1 DEF CloningNames
      <4> QED
        BY <2>1, <3>3, <4>2, RowStays
    <3> QED
      BY <2>1, <3>1, <3>2, <3>3
  <2>4. Removals' /\ removal' \in [Names -> {"no", "asked", "under way", "answered"}]
    BY <1>0, <2>1 DEF TabInv, TabType, Removals
  <2>5. answers' = answers
    BY <1>0, <1>4 DEF RecloneClaim
  <2>6. TabInv'
    BY <1>0, <2>1, <2>2, <2>3, <2>4, <2>5, QuietServerKeeps
  <2> QED
    BY <2>1, <2>6
<1> QED
  BY <1>0, <1>1, <1>2, <1>3, <1>4 DEF TaskStep

(* A step that leaves every clone where it stands changes no clone's row.  *)
LEMMA ClonesStay ==
  ASSUME ServerInv, UNCHANGED clones,
         \A u \in Tasks : /\ task'[u].st = task[u].st /\ task'[u].name = task[u].name
                          /\ task'[u].dead = task[u].dead
  PROVE  /\ \A u \in Tasks : Ended(u)' <=> Ended(u)
         /\ \A u \in Tasks : AtWork(u)' <=> AtWork(u)
         /\ CloningNames' = CloningNames
<1>1. Entries' = Entries
  BY DEF Entries
<1>2. CloningNames' = CloningNames
  BY <1>1, EntriesTasks DEF CloningNames
<1> QED
  BY <1>2 DEF Ended, AtWork, Alive

LEMMA AdoptKeeps ==
  ASSUME ServerInv, TabInv, NEW n \in Names, UserAdopts(n)
  PROVE  ServerInv' /\ TabInv'
<1>0. /\ AdoptProject(n) /\ ServerMoves /\ dirty' = TRUE
      /\ UNCHANGED <<list, modal, online, excuse, removal, answers>>
  BY DEF UserAdopts
<1>1. /\ ServerInv'
      /\ \A u \in Tasks : /\ task'[u].st = task[u].st /\ task'[u].name = task[u].name
                          /\ task'[u].dead = task[u].dead
      /\ UNCHANGED <<told, clones>> /\ disturbed \subseteq disturbed'
  BY <1>0, OtherEffect
<1>2. /\ \A u \in Tasks : Ended(u)' <=> Ended(u)
      /\ \A u \in Tasks : AtWork(u)' <=> AtWork(u)
  BY <1>1, ClonesStay
<1>3. \A m \in Names : Pending(m)'
  BY <1>0 DEF Pending
<1>4. Removals' /\ removal' \in [Names -> {"no", "asked", "under way", "answered"}]
  BY <1>0 DEF TabInv, TabType, Removals, AdoptProject
<1>5. TabInv'
  BY <1>0, <1>1, <1>2, <1>3, <1>4, QuietServerKeeps
<1> QED
  BY <1>1, <1>5

LEMMA VarsStay ==
  ASSUME ServerInv, UNCHANGED vars
  PROVE  /\ ServerInv' /\ Truth' = Truth /\ Folders' = Folders /\ CloningNames' = CloningNames
         /\ \A u \in Tasks : Ended(u)' <=> Ended(u)
         /\ \A u \in Tasks : AtWork(u)' <=> AtWork(u)
         /\ UNCHANGED <<task, clones, told, rows, deleting, disturbed, disk>>
<1>1. UNCHANGED <<task, clones, told, rows, deleting, disturbed, disk>>
  BY DEF vars
<1>2. IInv'
  BY NextInv DEF ServerInv
<1>3. /\ \A u \in Tasks : Ended(u)' <=> Ended(u)
      /\ \A u \in Tasks : AtWork(u)' <=> AtWork(u)
      /\ CloningNames' = CloningNames
  BY <1>1, ClonesStay
<1>4. Registry'
  BY <1>1, <1>3, RegistryStays DEF ServerInv, Registry
<1>5. Folders' = Folders
  BY <1>1 DEF Folders
<1>6. Truth' = Truth
  BY <1>1, <1>3, <1>5 DEF Truth, Listed
<1> QED
  BY <1>1, <1>2, <1>3, <1>4, <1>5, <1>6 DEF ServerInv

LEMMA CancelKeeps ==
  ASSUME ServerInv, TabInv, NEW n \in Names, CancelArrives(n)
  PROVE  ServerInv' /\ TabInv'
<1>0. /\ CancelClone(n) \/ UNCHANGED vars
      /\ ServerMoves
      /\ UNCHANGED <<list, modal, online, excuse, dirty, removal, answers>>
  BY DEF CancelArrives
<1>1. /\ ServerInv'
      /\ \A u \in Tasks : /\ task'[u].st = task[u].st /\ task'[u].name = task[u].name
                          /\ task'[u].dead = task[u].dead
      /\ UNCHANGED <<told, clones, disk, rows, deleting>> /\ disturbed \subseteq disturbed'
  <2>1. CASE CancelClone(n)
    BY <2>1, OtherEffect DEF CancelClone
  <2>2. CASE UNCHANGED vars
    BY <2>2, VarsStay
  <2> QED
    BY <1>0, <2>1, <2>2
<1>2. /\ \A u \in Tasks : Ended(u)' <=> Ended(u)
      /\ \A u \in Tasks : AtWork(u)' <=> AtWork(u)
      /\ CloningNames' = CloningNames
  BY <1>1, ClonesStay
<1>3. \A m \in Names : Truth'[m] = Truth[m]
  BY <1>1, <1>2, RowStays
<1>4. Removals' /\ removal' \in [Names -> {"no", "asked", "under way", "answered"}]
  BY <1>0, <1>1 DEF TabInv, TabType, Removals
<1>5. TabInv'
  BY <1>0, <1>1, <1>2, <1>3, <1>4, QuietServerKeeps
<1> QED
  BY <1>1, <1>5

LEMMA RemovalKeeps ==
  ASSUME ServerInv, TabInv, NEW n \in Names, RemovalArrives(n) \/ RemovalMoves(n)
  PROVE  ServerInv' /\ TabInv'
<1>0. ServerMoves /\ UNCHANGED <<list, modal, online, excuse, dirty, answers>>
  BY DEF RemovalArrives, RemovalMoves
<1>1. CASE UNCHANGED vars /\ removal[n] = "asked" /\ removal' = [removal EXCEPT ![n] = "no"]
  <2>1. /\ ServerInv' /\ Truth' = Truth
        /\ \A u \in Tasks : Ended(u)' <=> Ended(u)
        /\ \A u \in Tasks : AtWork(u)' <=> AtWork(u)
        /\ UNCHANGED <<task, clones, told, rows, deleting, disturbed, disk>>
    BY <1>1, VarsStay
  <2>2. Removals' /\ removal' \in [Names -> {"no", "asked", "under way", "answered"}]
    BY <1>1, <2>1 DEF TabInv, TabType, Removals
  <2>3. \A m \in Names : removal[m] \in {"under way", "answered"} =>
                           removal'[m] \in {"under way", "answered"}
    BY <1>1 DEF TabInv, TabType
  <2>4. TabInv'
    BY <1>0, <2>1, <2>2, <2>3, QuietServerKeeps
  <2> QED
    BY <2>1, <2>4
<1>2. CASE /\ DeleteRows(n) \/ DeleteStep(n)
           /\ removal' = [removal EXCEPT ![n] = IF deleting'[n] = "no" THEN "answered" ELSE "under way"]
  <2>1. /\ ServerInv'
        /\ \A u \in Tasks : /\ task'[u].st = task[u].st /\ task'[u].name = task[u].name
                            /\ task'[u].dead = task[u].dead
        /\ UNCHANGED <<told, clones>> /\ disturbed \subseteq disturbed'
        /\ \A m \in Names : m # n => disk'[m] = disk[m] /\ (m \in rows' <=> m \in rows)
    BY <1>2, OtherEffect
  <2>2. /\ \A u \in Tasks : Ended(u)' <=> Ended(u)
        /\ \A u \in Tasks : AtWork(u)' <=> AtWork(u)
        /\ CloningNames' = CloningNames
    BY <2>1, ClonesStay
  <2>3. removal'[n] \in {"under way", "answered"}
    BY <1>2 DEF TabInv, TabType
  <2>4. \A m \in Names : m # n => removal'[m] = removal[m] /\ deleting'[m] = deleting[m]
    BY <1>2 DEF TabInv, TabType, DeleteRows, DeleteStep, DeleteFolder, DeleteMetadata,
                ServerInv, IInv, TypeOK, RestType
  <2>5. Removals'
    BY <1>2, <2>4 DEF TabInv, TabType, Removals
  <2>6. removal' \in [Names -> {"no", "asked", "under way", "answered"}]
    BY <1>2 DEF TabInv, TabType
  <2>7. ASSUME NEW m \in Names PROVE Truth'[m] = Truth[m] \/ Pending(m)'
    <3>1. CASE m = n
      BY <2>3, <3>1 DEF Pending
    <3>2. CASE m # n
      BY <2>1, <2>2, <3>2, RowStays
    <3> QED
      BY <3>1, <3>2
  <2>8. TabInv'
    BY <1>0, <2>1, <2>2, <2>3, <2>4, <2>5, <2>6, <2>7, QuietServerKeeps
  <2> QED
    BY <2>1, <2>8
<1>3. CASE RemovalArrives(n)
  <2>1. DeleteRows(n) => deleting'[n] = "folder"
    BY DEF DeleteRows, ServerInv, IInv, TypeOK, RestType
  <2> QED
    BY <1>1, <1>2, <1>3, <2>1 DEF RemovalArrives
<1>4. CASE RemovalMoves(n)
  <2>1. DeleteStep(n) /\ deleting[n] # "no"
    BY <1>4 DEF RemovalMoves, DeleteStep, DeleteFolder, DeleteMetadata
  <2>2. removal[n] = "under way"
    BY <2>1 DEF TabInv, Removals
  <2>3. removal' = [removal EXCEPT ![n] = IF deleting'[n] = "no" THEN "answered" ELSE "under way"]
    BY <1>4, <2>2 DEF RemovalMoves, TabInv, TabType
  <2> QED
    BY <1>2, <2>1, <2>3
<1> QED
  BY <1>3, <1>4

-----------------------------------------------------------------------------
(* The tab: the server stays, so what is on its way stays true.            *)
LEMMA TabStays ==
  ASSUME ServerInv, TabInv, UNCHANGED vars
  PROVE  /\ UNCHANGED answers => AnswersTrue'
         /\ InFlight' \subseteq InFlight => FramesTrue'
         /\ UNCHANGED removal => Removals'
         /\ UNCHANGED fetch => FetchTrue'
         /\ \A n \in Names : WorkedOn(n)' <=> WorkedOn(n)
         /\ modal' \in {NoOne, modal} /\ unheard \subseteq unheard' /\ InFlight' = InFlight
              => ModalComes'
<1>1. /\ Truth' = Truth /\ Folders' = Folders
      /\ \A u \in Tasks : Ended(u)' <=> Ended(u)
      /\ \A u \in Tasks : AtWork(u)' <=> AtWork(u)
      /\ UNCHANGED <<task, rows, deleting, disturbed>>
  BY VarsStay
<1>2. UNCHANGED answers => AnswersTrue'
  BY <1>1 DEF TabInv, AnswersTrue
<1>3. InFlight' \subseteq InFlight => FramesTrue'
  BY <1>1, FramesShape DEF TabInv, FramesTrue
<1>4. UNCHANGED removal => Removals'
  BY <1>1 DEF TabInv, Removals
<1>5. UNCHANGED fetch => FetchTrue'
  BY <1>1 DEF TabInv, FetchTrue
<1>6. \A n \in Names : WorkedOn(n)' <=> WorkedOn(n)
  BY <1>1 DEF WorkedOn
<1>7. modal' \in {NoOne, modal} /\ unheard \subseteq unheard' /\ InFlight' = InFlight => ModalComes'
  BY <1>1 DEF TabInv, TabType, ModalComes
<1> QED
  BY <1>2, <1>3, <1>4, <1>5, <1>6, <1>7

LEMMA UserKeeps ==
  ASSUME ServerInv, TabInv, UNCHANGED vars,
         UNCHANGED <<list, frames, answers, fetch, dirty, online, unheard, excuse>>,
         modal' \in {NoOne, modal},
         \/ UNCHANGED removal
         \/ \E n \in Names : removal[n] = "no" /\ removal' = [removal EXCEPT ![n] = "asked"]
  PROVE  TabInv'
<1>1. /\ Truth' = Truth /\ UNCHANGED <<task, deleting>>
  BY VarsStay
<1>2. InFlight' = InFlight
  BY DEF InFlight
<1>3. /\ AnswersTrue' /\ FramesTrue' /\ FetchTrue' /\ ModalComes'
      /\ \A n \in Names : WorkedOn(n)' <=> WorkedOn(n)
  BY <1>2, TabStays
<1>a. removal \in [Names -> {"no", "asked", "under way", "answered"}]
  BY DEF TabInv, TabType
<1>b. /\ removal' \in [Names -> {"no", "asked", "under way", "answered"}]
      /\ \A n \in Names : \/ removal'[n] = removal[n]
                          \/ removal[n] = "no" /\ removal'[n] = "asked"
  BY <1>a
<1>c. TabType'
  BY <1>b DEF TabInv, TabType
<1>4. TabType' /\ Removals'
  BY <1>1, <1>b, <1>c DEF TabInv, Removals
<1>5. \A n \in Names : removal[n] \in {"under way", "answered"} => removal'[n] = removal[n]
  BY <1>b
<1>6. ListComes'
  <2> SUFFICES ASSUME NEW n \in Names PROVE list'[n] = Truth'[n] \/ n \in excuse' \/ Pending(n)'
    BY DEF ListComes
  <2>1. Pending(n) => Pending(n)'
    BY <1>1, <1>2, <1>3, <1>5 DEF Pending
  <2> QED
    BY <1>1, <2>1 DEF TabInv, ListComes
<1> QED
  BY <1>3, <1>4, <1>6 DEF TabInv

(* A row that appears is that of a clone at work, or comes too late.       *)
LEMMA ProgressKeeps ==
  ASSUME ServerInv, TabInv, NEW t \in Tasks, ProgressArrives(t)
  PROVE  ServerInv' /\ TabInv'
<1>0. /\ UNCHANGED vars /\ AtWork(t) /\ list' = Upsert(task[t].name)
      /\ UNCHANGED <<modal, frames, answers, fetch, dirty, removal, online, unheard, excuse>>
  BY DEF ProgressArrives, AtWork, Working
<1>1. ServerInv' /\ Truth' = Truth /\ UNCHANGED task
  BY <1>0, VarsStay
<1>2. InFlight' = InFlight
  BY <1>0 DEF InFlight
<1>3. /\ AnswersTrue' /\ FramesTrue' /\ FetchTrue' /\ ModalComes' /\ Removals'
      /\ \A n \in Names : WorkedOn(n)' <=> WorkedOn(n)
  BY <1>0, <1>2, TabStays
<1>4. /\ list' \in [Names -> Shown]
      /\ \A n \in Names : n # task[t].name => list'[n] = list[n]
  BY <1>0 DEF Upsert, TabInv, TabType, Shown
<1>5. TabType'
  BY <1>0, <1>4 DEF TabInv, TabType
<1>6. ListComes'
  <2> SUFFICES ASSUME NEW n \in Names PROVE list'[n] = Truth'[n] \/ n \in excuse' \/ Pending(n)'
    BY DEF ListComes
  <2>1. Pending(n) => Pending(n)'
    BY <1>0, <1>1, <1>2, <1>3 DEF Pending
  <2>2. n = task[t].name => Pending(n)'
    BY <1>0, <1>3 DEF Pending, WorkedOn
  <2> QED
    BY <1>0, <1>1, <1>4, <2>1, <2>2 DEF TabInv, ListComes
<1> QED
  BY <1>1, <1>3, <1>5, <1>6 DEF TabInv

LEMMA AnswerKeeps ==
  ASSUME ServerInv, TabInv, NEW t \in Tasks, AnswerArrives(t)
  PROVE  ServerInv' /\ TabInv'
<1>0. /\ t \in answers /\ answers' = answers \ {t} /\ list' = Upsert(task[t].name)
      /\ modal' \in {t, modal}
      /\ excuse' = IF Ended(t) THEN Excuse({task[t].name}) ELSE excuse
      /\ unheard' = IF Ended(t) THEN unheard \cup {t} ELSE unheard
      /\ UNCHANGED vars /\ UNCHANGED <<frames, fetch, dirty, removal, online>>
  BY DEF AnswerArrives, Ended
<1>1. /\ ServerInv' /\ Truth' = Truth /\ UNCHANGED task
      /\ \A u \in Tasks : Ended(u)' <=> Ended(u)
      /\ \A u \in Tasks : AtWork(u)' <=> AtWork(u)
  BY <1>0, VarsStay
<1>2. InFlight' = InFlight
  BY <1>0 DEF InFlight
<1>3. /\ FramesTrue' /\ FetchTrue' /\ Removals'
      /\ \A n \in Names : WorkedOn(n)' <=> WorkedOn(n)
  BY <1>0, <1>2, TabStays
<1>4. AtWork(t) \/ Ended(t)
  BY <1>0 DEF TabInv, AnswersTrue
<1>5. AnswersTrue'
  BY <1>0, <1>1 DEF TabInv, AnswersTrue
<1>6. /\ list' \in [Names -> Shown]
      /\ \A n \in Names : n # task[t].name => list'[n] = list[n]
  BY <1>0 DEF Upsert, TabInv, TabType, Shown
<1>7. TabType'
  BY <1>0, <1>6 DEF TabInv, TabType
<1>8. ModalComes'
  BY <1>0, <1>1, <1>2, <1>4 DEF TabInv, TabType, ModalComes
<1>9. ListComes'
  <2> SUFFICES ASSUME NEW n \in Names PROVE list'[n] = Truth'[n] \/ n \in excuse' \/ Pending(n)'
    BY DEF ListComes
  <2>1. Pending(n) => Pending(n)'
    BY <1>0, <1>1, <1>2, <1>3 DEF Pending
  <2>2. n = task[t].name => n \in excuse' \/ Pending(n)'
    BY <1>0, <1>3, <1>4 DEF Pending, WorkedOn, Excuse
  <2>3. excuse \subseteq excuse'
    BY <1>0 DEF Excuse
  <2> QED
    BY <1>1, <1>6, <2>1, <2>2, <2>3 DEF TabInv, ListComes
<1> QED
  BY <1>1, <1>3, <1>5, <1>7, <1>8, <1>9 DEF TabInv

(* A frame that says what is still true corrects the row, or a clone that  *)
(* is at work will; the dialog closes on the end of what it shows.         *)
LEMMA FrameKeeps ==
  ASSUME ServerInv, TabInv, FrameArrives
  PROVE  ServerInv' /\ TabInv'
<1> DEFINE f == Head(frames)
           n == task[f.id].name
<1>0. /\ frames # <<>> /\ frames' = Tail(frames)
      /\ UNCHANGED vars /\ UNCHANGED <<answers, fetch, dirty, removal, online, unheard>>
      /\ list' = IF f.status = "completed" THEN [list EXCEPT ![n] = "ready"] ELSE Drop(n)
      /\ IF modal = f.id THEN modal' = NoOne ELSE modal' = modal
      /\ excuse' = IF \/ f.truth # Truth[n]
                      \/ list'[n] = "none" /\ n \in rows
                      \/ list'[n] = "ready" /\ f.id \in disturbed
                     THEN Excuse({n}) ELSE excuse
  BY DEF FrameArrives
<1>1. /\ ServerInv' /\ Truth' = Truth /\ UNCHANGED <<task, rows, disturbed>>
      /\ \A u \in Tasks : Ended(u)' <=> Ended(u)
      /\ \A u \in Tasks : AtWork(u)' <=> AtWork(u)
  BY <1>0, VarsStay
<1>2. /\ frames' \in Seq([id : Tasks, status : Ends, truth : Shown])
      /\ f \in [id : Tasks, status : Ends, truth : Shown]
      /\ InFlight = InFlight' \cup {f}
  BY <1>0, TailFrame DEF TabInv, TabType
<1>3. f.id \in Tasks /\ n \in Names
  BY <1>2 DEF ServerInv, IInv, TypeOK, TaskType
<1>4. /\ Ended(f.id)
      /\ IF f.status = "completed" THEN f.truth \in {"ready", "cloning"} \/ f.id \in disturbed
                                   ELSE f.truth \in {"none", "foreign"}
  BY <1>2 DEF TabInv, FramesTrue
<1>5. /\ list' \in [Names -> Shown]
      /\ list'[n] = IF f.status = "completed" THEN "ready" ELSE "none"
      /\ \A m \in Names : m # n => list'[m] = list[m]
  BY <1>0, <1>3 DEF Drop, TabInv, TabType, Shown
<1>a. n \in CloningNames => WorkedOn(n)
  BY <1>3, EntriesTasks DEF CloningNames, ServerInv, Registry, WorkedOn
<1> HIDE DEF n, f
<1>6. /\ AnswersTrue' /\ FramesTrue' /\ FetchTrue' /\ Removals'
      /\ \A m \in Names : WorkedOn(m)' <=> WorkedOn(m)
  BY <1>0, <1>2, TabStays
<1>7. TabType'
  <2>1. modal' \in Tasks \cup {NoOne}
    BY <1>0 DEF TabInv, TabType
  <2> QED
    BY <1>0, <1>2, <1>5, <2>1 DEF TabInv, TabType
<1>8. ModalComes'
  BY <1>0, <1>1, <1>2 DEF TabInv, TabType, ModalComes
<1>9. ASSUME NEW m \in Names PROVE list'[m] = Truth'[m] \/ m \in excuse' \/ Pending(m)'
  <2>1. excuse \subseteq excuse'
    BY <1>0 DEF Excuse
  <2>2. CASE m # n
    <3>1. (\E g \in InFlight : task[g.id].name = m) => \E g \in InFlight' : task'[g.id].name = m
      <4>1. task[f.id].name # m
        BY <2>2 DEF n
      <4> QED
        BY <1>1, <1>2, <4>1
    <3>2. Pending(m) => Pending(m)'
      BY <1>0, <1>6, <3>1 DEF Pending
    <3> QED
      BY <1>1, <1>5, <2>1, <2>2, <3>2 DEF TabInv, ListComes
  <2>3. CASE m = n
    <3>1. CASE n \in excuse'
      BY <2>3, <3>1
    <3>2. CASE n \notin excuse'
      <4>1. /\ f.truth = Truth[n]
            /\ list'[n] = "none" => n \notin rows
            /\ list'[n] = "ready" => f.id \notin disturbed
        BY <1>0, <3>2 DEF Excuse
      <4>2. CASE f.status = "completed"
        <5>1. Truth[n] \in {"ready", "cloning"} /\ list'[n] = "ready"
          BY <1>4, <1>5, <4>1, <4>2
        <5>2. Truth[n] = "cloning" => n \in CloningNames
          BY <1>3, RowOf
        <5>3. Truth[n] = "cloning" => WorkedOn(m)
          BY <1>a, <2>3, <5>2
        <5>4. Truth[n] = "cloning" => Pending(m)'
          BY <1>6, <5>3 DEF Pending
        <5> QED
          BY <1>1, <2>3, <5>1, <5>4
      <4>3. CASE f.status # "completed"
        BY <1>1, <1>3, <1>4, <1>5, <2>3, <4>1, <4>3, RowOf
      <4> QED
        BY <4>2, <4>3
    <3> QED
      BY <3>1, <3>2
  <2> QED
    BY <2>2, <2>3
<1> QED
  BY <1>1, <1>6, <1>7, <1>8, <1>9 DEF TabInv, ListComes

(* What an answer drops was cloning, or has its row told again.            *)
LEMMA CancelAnswerKeeps ==
  ASSUME ServerInv, TabInv, NEW n \in Names, CancelAnswered(n)
  PROVE  ServerInv' /\ TabInv'
<1>0. /\ list' = Drop(n) /\ excuse' = IF list[n] = "cloning" THEN excuse ELSE Excuse({n})
      /\ UNCHANGED vars
      /\ UNCHANGED <<modal, frames, answers, fetch, dirty, removal, online, unheard>>
  BY DEF CancelAnswered
<1>1. ServerInv' /\ Truth' = Truth /\ UNCHANGED task
  BY <1>0, VarsStay
<1>2. InFlight' = InFlight
  BY <1>0 DEF InFlight
<1>3. /\ AnswersTrue' /\ FramesTrue' /\ FetchTrue' /\ ModalComes' /\ Removals'
      /\ \A m \in Names : WorkedOn(m)' <=> WorkedOn(m)
  BY <1>0, <1>2, TabStays
<1>4. list' \in [Names -> Shown] /\ \A m \in Names : m # n => list'[m] = list[m]
  BY <1>0 DEF Drop, TabInv, TabType, Shown
<1>5. TabType'
  BY <1>0, <1>4 DEF TabInv, TabType
<1>6. ASSUME NEW m \in Names PROVE list'[m] = Truth'[m] \/ m \in excuse' \/ Pending(m)'
  <2>1. Pending(m) => Pending(m)'
    BY <1>0, <1>1, <1>2, <1>3 DEF Pending
  <2>2. excuse \subseteq excuse' /\ (n \in excuse' \/ list[n] = "cloning")
    BY <1>0 DEF Excuse
  <2>3. Truth[n] = "cloning" => WorkedOn(n)
    <3>1. Truth[n] = "cloning" => n \in CloningNames
      BY RowOf
    <3> QED
      BY <3>1, EntriesTasks DEF CloningNames, ServerInv, Registry, WorkedOn
  <2>4. WorkedOn(n) => Pending(n)
    BY DEF Pending
  <2> QED
    BY <1>1, <1>4, <2>1, <2>2, <2>3, <2>4 DEF TabInv, ListComes
<1> QED
  BY <1>1, <1>3, <1>5, <1>6 DEF TabInv, ListComes

LEMMA RemovalAnswerKeeps ==
  ASSUME ServerInv, TabInv, NEW n \in Names, RemovalAnswered(n)
  PROVE  ServerInv' /\ TabInv'
<1>0. /\ list' = Drop(n) /\ excuse' = IF Truth[n] = "none" THEN excuse ELSE Excuse({n})
      /\ removal[n] = "answered" /\ removal' = [removal EXCEPT ![n] = "no"]
      /\ UNCHANGED vars /\ UNCHANGED <<modal, frames, answers, fetch, dirty, online, unheard>>
  BY DEF RemovalAnswered
<1>1. ServerInv' /\ Truth' = Truth /\ UNCHANGED <<task, deleting>>
  BY <1>0, VarsStay
<1>2. InFlight' = InFlight
  BY <1>0 DEF InFlight
<1>3. /\ AnswersTrue' /\ FramesTrue' /\ FetchTrue' /\ ModalComes'
      /\ \A m \in Names : WorkedOn(m)' <=> WorkedOn(m)
  BY <1>0, <1>2, TabStays
<1>4. /\ list' \in [Names -> Shown] /\ list'[n] = "none"
      /\ \A m \in Names : m # n => list'[m] = list[m] /\ removal'[m] = removal[m]
      /\ removal' \in [Names -> {"no", "asked", "under way", "answered"}] /\ removal'[n] = "no"
  BY <1>0 DEF Drop, TabInv, TabType, Shown
<1>5. TabType' /\ Removals'
  BY <1>0, <1>1, <1>4 DEF TabInv, TabType, Removals
<1>6. ASSUME NEW m \in Names PROVE list'[m] = Truth'[m] \/ m \in excuse' \/ Pending(m)'
  <2>1. m # n => (Pending(m) => Pending(m)')
    BY <1>0, <1>1, <1>2, <1>3, <1>4 DEF Pending
  <2>2. excuse \subseteq excuse' /\ (n \in excuse' \/ Truth[n] = "none")
    BY <1>0 DEF Excuse
  <2> QED
    BY <1>1, <1>4, <2>1, <2>2 DEF TabInv, ListComes
<1> QED
  BY <1>1, <1>3, <1>5, <1>6 DEF TabInv, ListComes

(* A listing is on its way from where it is read to where it arrives.      *)
LEMMA FetchMoves ==
  ASSUME ServerInv, TabInv, UNCHANGED vars,
         UNCHANGED <<list, modal, frames, answers, removal, online, unheard, excuse>>,
         fetch' \in [Fetches -> [st : {"no", "read", "flagged"}, dirs : SUBSET Names,
                            own : SUBSET Names, flagged : SUBSET Names, stale : SUBSET Names]],
         \E f \in Fetches : fetch'[f].st # "no",
         FetchTrue'
  PROVE  ServerInv' /\ TabInv'
<1>1. ServerInv'
  BY VarsStay
<1>2. InFlight' = InFlight
  BY DEF InFlight
<1>3. AnswersTrue' /\ FramesTrue' /\ ModalComes' /\ Removals'
  BY <1>2, TabStays
<1>4. TabType'
  BY DEF TabInv, TabType
<1>5. ListComes'
  BY DEF ListComes, Pending
<1> QED
  BY <1>1, <1>3, <1>4, <1>5 DEF TabInv

LEMMA FetchStartKeeps ==
  ASSUME ServerInv, TabInv, NEW f \in Fetches, FetchStart(f)
  PROVE  ServerInv' /\ TabInv'
<1>0. /\ fetch[f].st = "no"
      /\ fetch' = [fetch EXCEPT ![f] = [NoFetch EXCEPT !.st = "read", !.dirs = Folders, !.own = rows]]
      /\ UNCHANGED vars
      /\ UNCHANGED <<list, modal, frames, answers, removal, online, unheard, excuse>>
  BY DEF FetchStart
<1>1. Folders' = Folders /\ Truth' = Truth /\ UNCHANGED rows
  BY <1>0, VarsStay
<1>2. Folders \subseteq Names /\ rows \subseteq Names
  BY DEF Folders, ServerInv
<1>3. /\ fetch'[f] = [st |-> "read", dirs |-> Folders, own |-> rows, flagged |-> {}, stale |-> {}]
      /\ \A g \in Fetches : g # f => fetch'[g] = fetch[g]
  BY <1>0 DEF NoFetch, TabInv, TabType
<1>4. fetch' \in [Fetches -> [st : {"no", "read", "flagged"}, dirs : SUBSET Names,
                            own : SUBSET Names, flagged : SUBSET Names, stale : SUBSET Names]]
  BY <1>0, <1>2 DEF NoFetch, TabInv, TabType
<1>5. FetchTrue'
  BY <1>1, <1>3 DEF TabInv, FetchTrue
<1>6. fetch'[f].st # "no"
  BY <1>3
<1> QED
  BY <1>0, <1>4, <1>5, <1>6, FetchMoves

LEMMA FetchFlagKeeps ==
  ASSUME ServerInv, TabInv, NEW f \in Fetches, FetchFlag(f)
  PROVE  ServerInv' /\ TabInv'
<1>0. /\ fetch[f].st = "read"
      /\ fetch' = [fetch EXCEPT ![f].st = "flagged", ![f].flagged = CloningNames]
      /\ UNCHANGED vars
      /\ UNCHANGED <<list, modal, frames, answers, removal, online, unheard, excuse>>
  BY DEF FetchFlag
<1>1. Folders' = Folders /\ Truth' = Truth /\ UNCHANGED rows
  BY <1>0, VarsStay
<1>2. CloningNames \subseteq Names
  BY EntriesTasks DEF CloningNames, ServerInv, IInv, TypeOK, TaskType
<1>3. /\ fetch' \in [Fetches -> [st : {"no", "read", "flagged"}, dirs : SUBSET Names,
                            own : SUBSET Names, flagged : SUBSET Names, stale : SUBSET Names]]
      /\ fetch'[f].st = "flagged" /\ fetch'[f].flagged = CloningNames
      /\ fetch'[f].dirs = fetch[f].dirs /\ fetch'[f].own = fetch[f].own
      /\ fetch'[f].stale = fetch[f].stale
      /\ \A g \in Fetches : g # f => fetch'[g] = fetch[g]
  BY <1>0, <1>2 DEF TabInv, TabType
<1>4. ASSUME NEW n \in Names, n \notin fetch[f].stale
      PROVE  Listed(fetch[f].dirs, fetch[f].own, CloningNames)[n] = Truth[n]
  <2>1. /\ n \in fetch[f].dirs <=> n \in Folders
        /\ n \notin fetch[f].dirs => (n \in fetch[f].own <=> n \in rows)
    BY <1>0, <1>4 DEF TabInv, FetchTrue
  <2> QED
    BY <2>1, ListedAt, RowOf
<1>5. FetchTrue'
  <2> SUFFICES ASSUME NEW g \in Fetches, NEW n \in Names, n \notin fetch'[g].stale
               PROVE  /\ fetch'[g].st = "read" =>
                           /\ n \in fetch'[g].dirs <=> n \in Folders'
                           /\ n \notin fetch'[g].dirs => (n \in fetch'[g].own <=> n \in rows')
                      /\ fetch'[g].st = "flagged" =>
                           Listed(fetch'[g].dirs, fetch'[g].own, fetch'[g].flagged)[n] = Truth'[n]
    BY DEF FetchTrue
  <2>1. CASE g = f
    BY <1>1, <1>3, <1>4, <2>1
  <2>2. CASE g # f
    BY <1>1, <1>3, <2>2 DEF TabInv, FetchTrue
  <2> QED
    BY <2>1, <2>2
<1> QED
  BY <1>0, <1>3, <1>5, FetchMoves

LEMMA FetchArrivesKeeps ==
  ASSUME ServerInv, TabInv, NEW f \in Fetches, FetchArrives(f)
  PROVE  ServerInv' /\ TabInv'
<1>0. /\ fetch[f].st = "flagged"
      /\ list' = Listed(fetch[f].dirs, fetch[f].own, fetch[f].flagged)
      /\ excuse' = fetch[f].stale /\ fetch' = [fetch EXCEPT ![f] = NoFetch]
      /\ UNCHANGED vars
      /\ UNCHANGED <<modal, frames, answers, dirty, removal, online, unheard>>
  BY DEF FetchArrives
<1>1. ServerInv' /\ Truth' = Truth /\ Folders' = Folders /\ UNCHANGED rows
  BY <1>0, VarsStay
<1>2. InFlight' = InFlight
  BY <1>0 DEF InFlight
<1>3. AnswersTrue' /\ FramesTrue' /\ ModalComes' /\ Removals'
  BY <1>0, <1>2, TabStays
<1>4. /\ fetch' \in [Fetches -> [st : {"no", "read", "flagged"}, dirs : SUBSET Names,
                            own : SUBSET Names, flagged : SUBSET Names, stale : SUBSET Names]]
      /\ fetch'[f].st = "no"
      /\ \A g \in Fetches : g # f => fetch'[g] = fetch[g]
  BY <1>0 DEF NoFetch, TabInv, TabType
<1>5. TabType'
  BY <1>0, <1>4 DEF TabInv, TabType, Listed, Shown
<1>6. FetchTrue'
  BY <1>1, <1>4 DEF TabInv, FetchTrue
<1>7. ListComes'
  BY <1>0, <1>1 DEF TabInv, FetchTrue, ListComes
<1> QED
  BY <1>1, <1>3, <1>5, <1>6, <1>7 DEF TabInv

(* A drop loses the frames; the opening asks for a listing.                *)
LEMMA DropKeeps ==
  ASSUME ServerInv, TabInv, SocketDrops
  PROVE  ServerInv' /\ TabInv'
<1>0. /\ online' = FALSE /\ frames' = <<>> /\ unheard' = unheard \cup {f.id : f \in InFlight}
      /\ UNCHANGED vars /\ UNCHANGED <<list, modal, answers, fetch, dirty, removal, excuse>>
  BY DEF SocketDrops, InFlight
<1>1. /\ ServerInv' /\ \A u \in Tasks : AtWork(u)' <=> AtWork(u)
  BY <1>0, VarsStay
<1>2. frames' \in Seq([id : Tasks, status : Ends, truth : Shown]) /\ InFlight' = {}
  BY <1>0, NoFrames
<1>3. AnswersTrue' /\ FramesTrue' /\ FetchTrue' /\ Removals'
  BY <1>0, <1>2, TabStays
<1>4. TabType'
  BY <1>0, <1>2 DEF TabInv, TabType
<1>5. ListComes'
  BY <1>0 DEF ListComes, Pending
<1>6. ModalComes'
  BY <1>0, <1>1 DEF TabInv, TabType, ModalComes
<1> QED
  BY <1>1, <1>3, <1>4, <1>5, <1>6 DEF TabInv

LEMMA SocketOpensKeeps ==
  ASSUME ServerInv, TabInv, SocketOpens
  PROVE  ServerInv' /\ TabInv'
<1>0. /\ dirty' = TRUE /\ UNCHANGED vars
      /\ UNCHANGED <<list, modal, frames, answers, fetch, removal, unheard, excuse>>
  BY DEF SocketOpens
<1>1. ServerInv'
  BY <1>0, VarsStay
<1>2. InFlight' = InFlight
  BY <1>0 DEF InFlight
<1>3. AnswersTrue' /\ FramesTrue' /\ FetchTrue' /\ Removals' /\ ModalComes'
  BY <1>0, <1>2, TabStays
<1>4. TabType' /\ ListComes'
  BY <1>0 DEF TabInv, TabType, ListComes, Pending
<1> QED
  BY <1>1, <1>3, <1>4 DEF TabInv

-----------------------------------------------------------------------------
LEMMA TabStarts == ASSUME PInit PROVE ServerInv /\ TabInv
<1>1. Init /\ rows = Foreign /\ clones = <<>>
  BY DEF PInit, Init
<1>2. IInv
  BY <1>1, InitInv
<1>3. /\ \A t \in Tasks : ~task[t].dead /\ task[t].st = "new" /\ ~AtWork(t)
      /\ \A n \in Names : disk[n].by = NoOne /\ deleting[n] = "no"
      /\ told = [t \in Tasks |-> <<>>]
  BY <1>1 DEF Init, AtWork, Alive, Absent
<1>4. DOMAIN clones = {} /\ Entries = {}
  BY <1>1 DEF Entries
<1>5. ServerInv
  BY <1>1, <1>2, <1>3, <1>4, EmptySeq, ForeignAssumption DEF ServerInv, Registry, Names
<1>6. frames \in Seq([id : Tasks, status : Ends, truth : Shown]) /\ InFlight = {}
  BY EmptySeq DEF PInit, InFlight
<1>7. TabType
  BY <1>6 DEF PInit, TabType, Listed, Shown, NoFetch
<1>8. /\ Removals /\ AnswersTrue /\ FramesTrue /\ FetchTrue /\ ModalComes
  BY <1>3, <1>6 DEF PInit, Removals, AnswersTrue, FramesTrue, FetchTrue, ModalComes, NoFetch
<1>9. ListComes
  <2>1. Folders = {} /\ CloningNames = {}
    BY <1>3, <1>4 DEF Folders, CloningNames
  <2>2. list = Listed({}, rows, {})
    BY DEF PInit
  <2> QED
    BY <2>1, <2>2 DEF ListComes, Truth
<1> QED
  BY <1>5, <1>7, <1>8, <1>9 DEF TabInv

LEMMA PNextKeeps ==
  ASSUME ServerInv, TabInv, [PNext]_pvars
  PROVE  ServerInv' /\ TabInv'
<1>1. CASE \E t \in Tasks : UserPosts(t) \/ \E n \in Names : UserReclones(t, n)
  BY <1>1, PostKeeps, RecloneKeeps
<1>2. CASE \E n \in Names : UserAdopts(n)
  BY <1>2, AdoptKeeps
<1>3. CASE \E n \in Names : UserCancels(n) \/ UserRemoves(n)
  <2>1. UNCHANGED vars /\ modal' \in {NoOne, modal}
    BY <1>3 DEF UserCancels, UserRemoves
  <2>2. TabInv'
    BY <1>3, <2>1, UserKeeps DEF UserCancels, UserRemoves
  <2> QED
    BY <2>1, <2>2, VarsStay
<1>4. CASE UserCloses
  <2>1. TabInv'
    BY <1>4, UserKeeps DEF UserCloses
  <2> QED
    BY <1>4, <2>1, VarsStay DEF UserCloses
<1>5. CASE \E t \in Tasks : TaskMoves(t) \/ ProgressArrives(t) \/ AnswerArrives(t)
  BY <1>5, TaskKeeps, ProgressKeeps, AnswerKeeps
<1>6. CASE FrameArrives \/ SocketDrops \/ SocketOpens
  BY <1>6, FrameKeeps, DropKeeps, SocketOpensKeeps
<1>7. CASE \E n \in Names : \/ CancelArrives(n) \/ CancelAnswered(n) \/ RemovalArrives(n)
                            \/ RemovalMoves(n) \/ RemovalAnswered(n)
  BY <1>7, CancelKeeps, CancelAnswerKeeps, RemovalKeeps, RemovalAnswerKeeps
<1>8. CASE \E f \in Fetches : FetchStart(f) \/ FetchFlag(f) \/ FetchArrives(f)
  BY <1>8, FetchStartKeeps, FetchFlagKeeps, FetchArrivesKeeps
<1>9. CASE UNCHANGED pvars
  <2>1. UNCHANGED vars /\ UNCHANGED cvars
    BY <1>9 DEF pvars
  <2>2. TabInv'
    BY <2>1, UserKeeps DEF cvars
  <2> QED
    BY <2>1, <2>2, VarsStay
<1> QED
  BY <1>1, <1>2, <1>3, <1>4, <1>5, <1>6, <1>7, <1>8, <1>9 DEF PNext, User, Work

(* All the tab has and all that is on its way to it fit the server's state. *)
THEOREM TabInvariant == PSpec => [](ServerInv /\ TabInv)
<1>1. PInit => ServerInv /\ TabInv
  BY TabStarts
<1>2. ServerInv /\ TabInv /\ [PNext]_pvars => (ServerInv /\ TabInv)'
  BY PNextKeeps
<1> QED
  BY <1>1, <1>2, PTL DEF PSpec

(* Once everything that was under way has arrived, the sidebar shows the   *)
(* projects there are, but for the rows the history marks: whatever order  *)
(* answers, frames and listings came in, and whatever the socket lost.     *)
THEOREM SettledListsAreTrue == PSpec => []SettledListIsTrue
<1>1. ServerInv /\ TabInv => SettledListIsTrue
  <2> SUFFICES ASSUME TabInv, Settled, NEW n \in Names
               PROVE  list[n] = Truth[n] \/ n \in excuse
    BY DEF SettledListIsTrue
  <2>1. ~WorkedOn(n)
    BY DEF WorkedOn, AtWork, Settled
  <2>2. InFlight = {}
    BY DEF InFlight, Settled
  <2>3. ~Pending(n)
    BY <2>1, <2>2 DEF Pending, Settled
  <2> QED
    BY <2>3 DEF TabInv, ListComes
<1> QED
  BY <1>1, TabInvariant, PTL

(* The new-project dialog stops showing a clone that ended, unless         *)
(* its end came while the 201 was on its way or the socket was down.       *)
THEOREM ModalsEnd == PSpec => []ModalEnds
<1>1. ServerInv /\ TabInv => ModalEnds
  <2> SUFFICES ASSUME TabInv, Settled, modal # NoOne
               PROVE  modal \in unheard
    BY DEF ModalEnds
  <2>1. InFlight = {}
    BY DEF InFlight, Settled
  <2>2. modal \in Tasks /\ ~AtWork(modal)
    BY DEF TabInv, TabType, Settled, AtWork
  <2> QED
    BY <2>1, <2>2 DEF TabInv, ModalComes
<1> QED
  BY <1>1, TabInvariant, PTL
=============================================================================
