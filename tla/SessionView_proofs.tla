------------------------- MODULE SessionView_proofs -------------------------
(* Theorems about SessionView, for every number of blocks, prompts, frames *)
(* under way and requests served at a time.  What a tab shows once all     *)
(* frames arrived is decided by the last frame that speaks of it.          *)
EXTENDS SessionView, SequenceTheorems, TLAPS

(* Of the frames q under way, those of the set yes make something hold of  *)
(* what the tab shows and those of the set no break it: it will hold when  *)
(* all were applied because of one of them, or if it holds now.            *)
Told(q, yes, no) ==
  \E k \in 1..Len(q) : q[k] \in yes /\ \A j \in (k + 1)..Len(q) : q[j] \notin no

Silent(q, no) == \A j \in 1..Len(q) : q[j] \notin no

(* Nothing under way says nothing.                                         *)
LEMMA EmptyWire ==
  ASSUME NEW yes, NEW no
  PROVE  Silent(<<>>, no) /\ ~Told(<<>>, yes, no)
  BY DEF Told, Silent

(* A frame that breaks nothing may be added; one that makes it hold may    *)
(* follow anything.                                                        *)
LEMMA OneMore ==
  ASSUME NEW S, NEW q \in Seq(S), NEW f \in S, NEW yes, NEW no, f \notin no
  PROVE  /\ f \in yes \/ Told(q, yes, no) => Told(Append(q, f), yes, no)
         /\ Silent(q, no) => Silent(Append(q, f), no)
<1> DEFINE r == Append(q, f)
<1>1. /\ Len(r) = Len(q) + 1 /\ Len(q) \in Nat /\ r[Len(q) + 1] = f
      /\ \A i \in 1..Len(q) : r[i] = q[i]
  BY AppendProperties
<1> HIDE DEF r
<1>2. f \in yes => Told(r, yes, no)
  <2>1. r[Len(r)] = f /\ Len(r) \in 1..Len(r) /\ (Len(r) + 1)..Len(r) = {}
    BY <1>1
  <2> QED
    BY <2>1 DEF Told
<1>3. ASSUME NEW k \in 1..Len(q), q[k] \in yes, \A j \in (k + 1)..Len(q) : q[j] \notin no
      PROVE  Told(r, yes, no)
  <2>1. k \in 1..Len(r) /\ r[k] \in yes
    BY <1>1, <1>3
  <2>2. \A j \in (k + 1)..Len(r) : r[j] \notin no
    BY <1>1, <1>3
  <2> QED
    BY <2>1, <2>2 DEF Told
<1>4. Silent(q, no) => Silent(r, no)
  BY <1>1 DEF Silent
<1> QED
  BY <1>2, <1>3, <1>4 DEF Told, r

(* When the first frame was applied, the rest says what it said, unless it *)
(* was the first that mattered.                                            *)
LEMMA OneLess ==
  ASSUME NEW S, NEW q \in Seq(S), q # <<>>, NEW yes, NEW no
  PROVE  /\ Told(q, yes, no) =>
              Told(Tail(q), yes, no) \/ (Head(q) \in yes /\ Silent(Tail(q), no))
         /\ Silent(q, no) => Silent(Tail(q), no) /\ Head(q) \notin no
<1> DEFINE r == Tail(q)
<1>1. /\ Len(r) = Len(q) - 1 /\ Len(q) \in Nat /\ Len(q) > 0 /\ Head(q) = q[1]
      /\ \A i \in 1..Len(r) : r[i] = q[i + 1]
  BY HeadTailProperties, EmptySeq
<1> HIDE DEF r
<1>2. ASSUME NEW k \in 1..Len(q), q[k] \in yes, \A j \in (k + 1)..Len(q) : q[j] \notin no
      PROVE  Told(r, yes, no) \/ (Head(q) \in yes /\ Silent(r, no))
  <2>1. CASE k = 1
    <3>1. Head(q) \in yes /\ \A j \in 1..Len(r) : r[j] \notin no
      BY <1>1, <1>2, <2>1
    <3> QED
      BY <3>1 DEF Silent
  <2>2. CASE k # 1
    <3>1. k - 1 \in 1..Len(r) /\ r[k - 1] \in yes
      BY <1>1, <1>2, <2>2
    <3>2. \A j \in ((k - 1) + 1)..Len(r) : r[j] \notin no
      BY <1>1, <1>2, <2>2
    <3> QED
      BY <3>1, <3>2 DEF Told
  <2> QED
    BY <2>1, <2>2
<1>3. Silent(q, no) => Silent(r, no) /\ Head(q) \notin no
  BY <1>1 DEF Silent
<1> QED
  BY <1>2, <1>3 DEF Told, r

-----------------------------------------------------------------------------
(* Types.                                                                  *)
Frames == [kind : {"begin", "delta", "commit", "end", "error", "prompt"}, item : Items]
          \cup [kind : {"snapshot"}, busy : BOOLEAN, items : SUBSET Items, prompts : SUBSET Items]

ServeType == /\ phase \in [Serves -> {"free", "row", "entries", "render"}]
             /\ gotBusy \in [Serves -> BOOLEAN]
             /\ gotItems \in [Serves -> SUBSET Items]

SessionType == /\ busy \in BOOLEAN /\ made \in 0..MaxItems /\ done \subseteq 1..made
               /\ stored \subseteq 1..made /\ parked \subseteq Items
               /\ busy => made \in Items

TabType == /\ link \in BOOLEAN /\ attached \in BOOLEAN
           /\ wire \in Seq(Frames) /\ answers \subseteq Items
           /\ view \in [Items -> {"absent", "partial", "full", "twice"}]
           /\ shownBusy \in BOOLEAN /\ shown \subseteq Items

TypeOK == ServeType /\ SessionType /\ TabType

(* A socket that is attached, or has a request at the server, is open; one *)
(* that is not open has nothing under way.                                 *)
Linked == /\ attached => link
          /\ \A s \in Serves : phase[s] # "free" => attached
          /\ ~link => wire = <<>> /\ answers = {}

LEMMA FrameIsFrame ==
  ASSUME NEW k \in {"begin", "delta", "commit", "end", "error", "prompt"}, NEW i \in Items
  PROVE  Frame(k, i) \in Frames
  BY DEF Frame, Frames

LEMMA SnapshotIsFrame ==
  ASSUME NEW b \in BOOLEAN, NEW I \in SUBSET Items, NEW P \in SUBSET Items
  PROVE  Snapshot(b, I, P) \in Frames
  BY DEF Snapshot, Frames

(* What is broadcast or sent arrives at the end of the wire, or nowhere.   *)
LEMMA Sent ==
  ASSUME wire \in Seq(Frames), NEW f \in Frames, Broadcast(f) \/ SendDirect(f)
  PROVE  /\ wire' \in Seq(Frames)
         /\ wire' = wire \/ wire' = Append(wire, f)
<1>1. wire' = wire \/ wire' = Append(wire, f)
  BY DEF Broadcast, SendDirect
<1>2. Append(wire, f) \in Seq(Frames)
  BY AppendProperties
<1> QED
  BY <1>1, <1>2

LEMMA InitType == Init => TypeOK /\ Linked
<1> SUFFICES ASSUME Init
             PROVE  TypeOK /\ Linked
  OBVIOUS
<1>1. ServeType
  BY DEF Init, ServeType
<1>2. SessionType
  <2>1. made \in 0..MaxItems
    BY ViewAssumption DEF Init
  <2> QED
    BY <2>1 DEF Init, SessionType
<1>3. <<>> \in Seq(Frames)
  BY EmptySeq
<1>4. TabType
  BY <1>3 DEF Init, TabType
<1>5. Linked
  BY DEF Init, Linked
<1> QED
  BY <1>1, <1>2, <1>4, <1>5 DEF TypeOK

(* Every block there is has a number; the ones that are done were made.    *)
LEMMA Numbers ==
  ASSUME TypeOK
  PROVE  /\ MaxItems \in Nat /\ made \in Nat /\ Items \subseteq Nat
         /\ 1..made \subseteq Items /\ done \subseteq Items /\ stored \subseteq Items
         /\ made \in done \/ busy => made \in Items
  BY ViewAssumption DEF TypeOK, SessionType, Items

LEMMA NextType == TypeOK /\ Linked /\ [Next]_vars => TypeOK' /\ Linked'
<1> SUFFICES ASSUME TypeOK, Linked, [Next]_vars
             PROVE  TypeOK' /\ Linked'
  OBVIOUS
<1> USE DEF turnVars, storeVars, serveVars, tabVars, historyVars
<1>0. /\ MaxItems \in Nat /\ made \in Nat /\ Items \subseteq Nat
      /\ 1..made \subseteq Items /\ done \subseteq Items /\ stored \subseteq Items
      /\ made \in done \/ busy => made \in Items
  BY Numbers
<1>1. CASE BeginTurn
  <2>1. made + 1 \in Items /\ Frame("begin", made + 1) \in Frames
    BY <1>0, <1>1, FrameIsFrame DEF BeginTurn, Items
  <2>2. wire' \in Seq(Frames) /\ (wire' = wire \/ attached)
    BY <1>1, <2>1, Sent DEF BeginTurn, TypeOK, TabType, Broadcast
  <2>3. SessionType'
    BY <1>0, <1>1, <2>1 DEF BeginTurn, TypeOK, SessionType, Items
  <2>4. TabType' /\ ServeType'
    BY <1>1, <2>2 DEF BeginTurn, TypeOK, TabType, ServeType
  <2>5. Linked'
    BY <1>1, <2>2 DEF BeginTurn, Linked
  <2> QED
    BY <2>3, <2>4, <2>5 DEF TypeOK
<1>2. CASE StartBlock
  <2>1. SessionType'
    BY <1>0, <1>2 DEF StartBlock, TypeOK, SessionType, Items
  <2> QED
    BY <1>2, <2>1 DEF StartBlock, TypeOK, ServeType, TabType, Linked
<1>3. ASSUME NEW f \in Frames, Broadcast(f) \/ SendDirect(f),
             UNCHANGED <<phase, gotBusy, gotItems, link, attached, view, shownBusy, shown>>,
             answers' \subseteq answers
      PROVE  ServeType' /\ TabType' /\ Linked'
  <2>1. wire' \in Seq(Frames) /\ (wire' = wire \/ link)
    BY <1>3, Sent DEF TypeOK, TabType, Broadcast, SendDirect, Linked
  <2>2. ServeType' /\ TabType'
    BY <1>3, <2>1 DEF TypeOK, ServeType, TabType
  <2>3. Linked'
    BY <1>3, <2>1 DEF Linked
  <2> QED
    BY <2>2, <2>3
<1>4. CASE Delta
  <2>1. Frame("delta", made) \in Frames
    BY <1>0, <1>4, FrameIsFrame DEF Delta
  <2>2. ServeType' /\ TabType' /\ Linked'
    BY <1>3, <1>4, <2>1 DEF Delta
  <2> QED
    BY <1>4, <2>2 DEF Delta, TypeOK, SessionType
<1>5. CASE Commit
  <2>1. Frame("commit", made) \in Frames
    BY <1>0, <1>5, FrameIsFrame DEF Commit
  <2>2. ServeType' /\ TabType' /\ Linked'
    BY <1>3, <1>5, <2>1 DEF Commit
  <2>3. SessionType'
    BY <1>0, <1>5 DEF Commit, TypeOK, SessionType, Items
  <2> QED
    BY <2>2, <2>3 DEF TypeOK
<1>6. CASE EndTurn
  <2>1. Frame("end", made) \in Frames
    BY <1>0, <1>6, FrameIsFrame DEF EndTurn
  <2>2. ServeType' /\ TabType' /\ Linked'
    BY <1>3, <1>6, <2>1 DEF EndTurn
  <2> QED
    BY <1>6, <2>2 DEF EndTurn, TypeOK, SessionType
<1>7. CASE ConsumerFails \/ ErrorInTurn
  <2>1. Frame("error", made) \in Frames
    BY <1>0, <1>7, FrameIsFrame DEF ConsumerFails, ErrorInTurn
  <2>2. ServeType' /\ TabType' /\ Linked'
    BY <1>3, <1>7, <2>1 DEF ConsumerFails, ErrorInTurn
  <2> QED
    BY <1>7, <2>2 DEF ConsumerFails, ErrorInTurn, TypeOK, SessionType
<1>8. CASE Park
  <2>1. Frame("prompt", made) \in Frames
    BY <1>0, <1>8, FrameIsFrame DEF Park
  <2>2. ServeType' /\ TabType' /\ Linked'
    BY <1>3, <1>8, <2>1 DEF Park
  <2>3. SessionType'
    BY <1>0, <1>8 DEF Park, TypeOK, SessionType
  <2> QED
    BY <2>2, <2>3 DEF TypeOK
<1>9. CASE Capture
  BY <1>9 DEF Capture, TypeOK, ServeType, SessionType, TabType, Linked
<1>10. ASSUME NEW i \in Items, SettledElsewhere(i)
       PROVE  TypeOK' /\ Linked'
  BY <1>10 DEF SettledElsewhere, TypeOK, ServeType, SessionType, TabType, Linked
<1>11. ASSUME NEW i \in Items, Mirror(i)
       PROVE  TypeOK' /\ Linked'
  BY <1>11 DEF Mirror, TypeOK, ServeType, SessionType, TabType, Linked
<1>12. ASSUME NEW i \in Items, AnswerArrives(i)
       PROVE  TypeOK' /\ Linked'
  <2>1. CASE i \in parked
    BY <1>12, <2>1 DEF AnswerArrives, TypeOK, ServeType, SessionType, TabType, Linked
  <2>2. CASE i \notin parked
    <3>1. Frame("error", i) \in Frames
      BY <1>0, FrameIsFrame
    <3>2. ServeType' /\ TabType' /\ Linked'
      BY <1>3, <1>12, <2>2, <3>1 DEF AnswerArrives
    <3> QED
      BY <1>12, <2>2, <3>2 DEF AnswerArrives, TypeOK, SessionType
  <2> QED
    BY <2>1, <2>2
<1>13. CASE Drop
  <2>1. ServeType' /\ SessionType'
    BY <1>13 DEF Drop, TypeOK, ServeType, SessionType
  <2>2. TabType'
    BY <1>13, EmptySeq DEF Drop, TypeOK, TabType
  <2>3. Linked'
    BY <1>13 DEF Drop, Linked
  <2> QED
    BY <2>1, <2>2, <2>3 DEF TypeOK
<1>14. CASE Reconnect
  BY <1>14 DEF Reconnect, TypeOK, ServeType, SessionType, TabType, Linked
<1>15. CASE Deliver
  <2> DEFINE f == Head(wire)
  <2>1. f \in Frames /\ Tail(wire) \in Seq(Frames)
    BY <1>15, HeadTailProperties DEF Deliver, TypeOK, TabType
  <2>2. shown' \subseteq Items
    BY <1>15, <2>1 DEF Deliver, Frames, TypeOK, TabType
  <2>3. shownBusy' \in BOOLEAN
    BY <1>15, <2>1 DEF Deliver, Frames, TypeOK, TabType
  <2>4. view' \in [Items -> {"absent", "partial", "full", "twice"}]
    BY <1>15, <2>1 DEF Deliver, Applied, Frames, TypeOK, TabType
  <2>5. SessionType' /\ ServeType' /\ TabType'
    BY <1>15, <2>1, <2>2, <2>3, <2>4
       DEF Deliver, TypeOK, SessionType, ServeType, TabType
  <2>6. Linked'
    BY <1>15 DEF Deliver, Linked
  <2> QED
    BY <2>5, <2>6 DEF TypeOK
<1>16. ASSUME NEW i \in Items, Answer(i)
       PROVE  TypeOK' /\ Linked'
  BY <1>16 DEF Answer, TypeOK, ServeType, SessionType, TabType, Linked
<1>17. ASSUME NEW s \in Serves, Resume(s)
       PROVE  TypeOK' /\ Linked'
  BY <1>17 DEF Resume, TypeOK, ServeType, SessionType, TabType, Linked
<1>18. ASSUME NEW s \in Serves, ReadRow(s)
       PROVE  TypeOK' /\ Linked'
  <2>1. ServeType'
    BY <1>18 DEF ReadRow, TypeOK, ServeType, SessionType
  <2> QED
    BY <1>18, <2>1 DEF ReadRow, TypeOK, ServeType, SessionType, TabType, Linked
<1>19. ASSUME NEW s \in Serves, ReadEntries(s)
       PROVE  TypeOK' /\ Linked'
  <2>1. ServeType'
    BY <1>0, <1>19 DEF ReadEntries, TypeOK, ServeType
  <2> QED
    BY <1>19, <2>1 DEF ReadEntries, TypeOK, ServeType, SessionType, TabType, Linked
<1>20. ASSUME NEW s \in Serves, SendSnapshot(s)
       PROVE  TypeOK' /\ Linked'
  <2>1. Snapshot(gotBusy[s], gotItems[s], parked) \in Frames
    BY SnapshotIsFrame DEF TypeOK, ServeType, SessionType
  <2>2. wire' \in Seq(Frames) /\ (wire' = wire \/ link)
    BY <1>20, <2>1, Sent DEF SendSnapshot, TypeOK, TabType, SendDirect
  <2>3. ServeType' /\ SessionType'
    BY <1>20 DEF SendSnapshot, TypeOK, ServeType, SessionType
  <2>4. TabType'
    BY <1>20, <2>2 DEF SendSnapshot, TypeOK, TabType
  <2>5. Linked'
    BY <1>20, <2>2 DEF SendSnapshot, TypeOK, ServeType, Linked
  <2> QED
    BY <2>3, <2>4, <2>5 DEF TypeOK
<1>21. CASE UNCHANGED vars
  BY <1>21 DEF vars, TypeOK, ServeType, SessionType, TabType, Linked
<1> QED
  BY <1>1, <1>2, <1>4, <1>5, <1>6, <1>7, <1>8, <1>9, <1>10, <1>11, <1>12, <1>13,
     <1>14, <1>15, <1>16, <1>17, <1>18, <1>19, <1>20, <1>21
     DEF Next, Session, Tab, Serve

THEOREM TypeCorrect == Spec => [](TypeOK /\ Linked)
<1>1. TypeOK /\ Linked /\ [Next]_vars => (TypeOK /\ Linked)'
  BY NextType
<1> QED
  BY InitType, <1>1, PTL DEF Spec

-----------------------------------------------------------------------------
(* No request of the tab is being served.                                  *)
Free == \A s \in Serves : phase[s] = "free"

(* The prompts: a frame shows prompt i, or a snapshot comes without it.    *)
Shows(i) == {f \in Frames : \/ f.kind = "prompt" /\ f.item = i
                            \/ f.kind = "snapshot" /\ i \in f.prompts}
Hides(i) == {f \in Frames : f.kind = "snapshot" /\ i \notin f.prompts}

(* Once the wire is empty a parked prompt is in the dock, or its answer is *)
(* on its way.                                                             *)
PromptComing == \A i \in parked :
  attached /\ Free => \/ Told(wire, Shows(i), Hides(i))
                      \/ i \in shown \cup answers /\ Silent(wire, Hides(i))

LEMMA InitPrompt == Init => PromptComing
  BY DEF Init, PromptComing

LEMMA PromptStep ==
  TypeOK /\ Linked /\ TypeOK' /\ PromptComing /\ [Next]_vars => PromptComing'
<1> SUFFICES ASSUME TypeOK, Linked, TypeOK', PromptComing, [Next]_vars,
                    NEW i \in parked', attached', Free'
             PROVE  \/ Told(wire', Shows(i), Hides(i))
                    \/ i \in shown' \cup answers' /\ Silent(wire', Hides(i))
  BY DEF PromptComing, Free
<1> DEFINE now == i \in shown \cup answers
           next == i \in shown' \cup answers'
           Goal == \/ Told(wire', Shows(i), Hides(i))
                   \/ next /\ Silent(wire', Hides(i))
<1> USE DEF turnVars, storeVars, serveVars, tabVars, historyVars
<1>0. wire \in Seq(Frames)
  BY DEF TypeOK, TabType
<1>1. i \in parked /\ attached /\ Free =>
        Told(wire, Shows(i), Hides(i)) \/ (now /\ Silent(wire, Hides(i)))
  BY DEF PromptComing
<1>2. ASSUME i \in parked, attached, Free, wire' = wire, now => next
      PROVE  Goal
  BY <1>1, <1>2
<1>3. ASSUME NEW f \in Frames, f.kind # "snapshot", Broadcast(f) \/ SendDirect(f),
             i \in parked, attached, Free, now => next
      PROVE  Goal
  <2>1. f \notin Hides(i)
    BY <1>3 DEF Hides
  <2>2. wire' = wire \/ wire' = Append(wire, f)
    BY <1>0, <1>3, Sent
  <2> HIDE DEF now, next
  <2> QED
    BY <1>0, <1>1, <1>3, <2>1, <2>2, OneMore
<1>4. CASE BeginTurn
  <2>1. Frame("begin", made + 1) \in Frames
    BY <1>4, Numbers, FrameIsFrame DEF BeginTurn, Items
  <2> QED
    BY <1>3, <1>4, <2>1 DEF BeginTurn, Frame, Free
<1>5. CASE StartBlock \/ Capture
  BY <1>2, <1>5 DEF StartBlock, Capture, Free
<1>6. CASE Delta \/ Commit \/ EndTurn \/ ErrorInTurn
  <2>1. /\ Frame("delta", made) \in Frames /\ Frame("commit", made) \in Frames
        /\ Frame("end", made) \in Frames /\ Frame("error", made) \in Frames
    BY <1>6, Numbers, FrameIsFrame DEF Delta, Commit, EndTurn, ErrorInTurn
  <2>2. /\ i \in parked /\ attached /\ (now => next)
        /\ Free
    BY <1>6 DEF Delta, Commit, EndTurn, ErrorInTurn, Free
  <2> QED
    BY <1>3, <1>6, <2>1, <2>2 DEF Delta, Commit, EndTurn, ErrorInTurn, Frame
<1>7. CASE ConsumerFails
  BY <1>7 DEF ConsumerFails
<1>8. CASE Park
  <2>1. Frame("prompt", made) \in Frames
    BY <1>8, Numbers, FrameIsFrame DEF Park
  <2>2. CASE i = made
    <3>1. Frame("prompt", made) \in Shows(i) /\ Frame("prompt", made) \notin Hides(i)
      BY <2>1, <2>2 DEF Shows, Hides, Frame
    <3>2. wire' = Append(wire, Frame("prompt", made))
      BY <1>8 DEF Park, Broadcast
    <3> QED
      BY <1>0, <2>1, <3>1, <3>2, OneMore
  <2>3. CASE i # made
    BY <1>3, <1>8, <2>1, <2>3 DEF Park, Frame, Free
  <2> QED
    BY <2>2, <2>3
<1>9. ASSUME NEW j \in Items, SettledElsewhere(j) \/ Mirror(j) \/ Answer(j)
      PROVE  Goal
  <2>1. attached /\ link
    BY <1>9 DEF SettledElsewhere, Mirror, Answer, Linked
  <2> QED
    BY <1>2, <1>9, <2>1 DEF SettledElsewhere, Mirror, Answer, Free
<1>10. ASSUME NEW j \in Items, AnswerArrives(j)
       PROVE  Goal
  <2>1. CASE j \in parked
    BY <1>2, <1>10, <2>1 DEF AnswerArrives, Free
  <2>2. CASE j \notin parked
    <3>1. Frame("error", j) \in Frames /\ Frame("error", j).kind # "snapshot"
      BY FrameIsFrame DEF Frame
    <3> QED
      BY <1>3, <1>10, <2>2, <3>1 DEF AnswerArrives, Free
  <2> QED
    BY <2>1, <2>2
<1>11. CASE Drop \/ Reconnect
  BY <1>11 DEF Drop, Reconnect, Linked
<1>12. CASE Deliver
  <2> DEFINE f == Head(wire)
  <2>1. f \in Frames /\ i \in parked /\ attached /\ Free
    BY <1>0, <1>12, HeadTailProperties DEF Deliver, Free
  <2>2. f \in Shows(i) => next
    BY <1>12 DEF Deliver, Shows
  <2>3. f \notin Hides(i) /\ now => next
    BY <1>12, <2>1 DEF Deliver, Hides
  <2>4. wire # <<>> /\ wire' = Tail(wire)
    BY <1>12 DEF Deliver
  <2>5. /\ Told(wire, Shows(i), Hides(i)) =>
             \/ Told(Tail(wire), Shows(i), Hides(i))
             \/ f \in Shows(i) /\ Silent(Tail(wire), Hides(i))
        /\ Silent(wire, Hides(i)) => Silent(Tail(wire), Hides(i)) /\ f \notin Hides(i)
    BY <1>0, <2>4, OneLess
  <2> HIDE DEF f, now, next
  <2>6. Told(Tail(wire), Shows(i), Hides(i)) \/ (next /\ Silent(Tail(wire), Hides(i)))
    BY <1>1, <2>1, <2>2, <2>3, <2>5
  <2> QED
    BY <2>4, <2>6 DEF next
<1>13. ASSUME NEW s \in Serves, Resume(s) \/ ReadRow(s) \/ ReadEntries(s)
       PROVE  Goal
  BY <1>13 DEF Resume, ReadRow, ReadEntries, TypeOK, ServeType, Free
<1>14. ASSUME NEW s \in Serves, SendSnapshot(s)
       PROVE  Goal
  <2> DEFINE f == Snapshot(gotBusy[s], gotItems[s], parked)
  <2>1. f \in Frames
    BY SnapshotIsFrame DEF TypeOK, ServeType, SessionType
  <2>2. i \in parked /\ f \in Shows(i) /\ f \notin Hides(i)
    BY <1>14, <2>1 DEF SendSnapshot, Snapshot, Shows, Hides
  <2>3. link
    BY <1>14 DEF SendSnapshot, Linked
  <2>4. wire' = Append(wire, f)
    BY <1>14, <2>3 DEF SendSnapshot, SendDirect
  <2> HIDE DEF f
  <2> QED
    BY <1>0, <2>1, <2>2, <2>4, OneMore
<1>15. CASE UNCHANGED vars
  BY <1>2, <1>15 DEF vars, Free
<1> QED
  BY <1>4, <1>5, <1>6, <1>7, <1>8, <1>9, <1>10, <1>11, <1>12, <1>13, <1>14, <1>15
     DEF Next, Session, Tab, Serve

(* PromptReachable, the property of the run `view`: whoever attaches while *)
(* a prompt is parked can answer it.                                       *)
THEOREM PromptsAreReachable == Spec => []PromptReachable
<1>1. TypeOK /\ Linked /\ PromptComing /\ [Next]_vars => (TypeOK /\ Linked /\ PromptComing)'
  BY NextType, PromptStep
<1>2. TypeOK /\ PromptComing => PromptReachable
  <2> SUFFICES ASSUME TypeOK, PromptComing, Settled, NEW i \in parked
               PROVE  i \in shown \cup answers
    BY DEF PromptReachable
  <2>1. wire = <<>> /\ attached /\ Free
    BY DEF Settled, Free
  <2> QED
    BY <2>1, EmptyWire DEF PromptComing
<1> QED
  BY InitType, InitPrompt, <1>1, <1>2, PTL DEF Spec

-----------------------------------------------------------------------------
(* The flag: a frame that leaves isTurnInProgress with the value b.        *)
Says(b) == {f \in Frames : \/ f.kind = "begin" /\ b
                           \/ f.kind \in {"end", "error"} /\ ~b
                           \/ f.kind = "snapshot" /\ f.busy = b}

(* Once the wire is empty the tab shows what the session's flag is.        *)
BusyComing ==
  attached /\ Free /\ ~stale /\ ~misled =>
    \/ Told(wire, Says(busy), Says(~busy))
    \/ shownBusy = busy /\ Silent(wire, Says(~busy))

HistoryType == stale \in BOOLEAN /\ misled \in BOOLEAN

LEMMA InitBusy == Init => BusyComing /\ HistoryType
<1> SUFFICES ASSUME Init PROVE BusyComing /\ HistoryType
  OBVIOUS
<1>1. HistoryType /\ wire = <<>> /\ shownBusy = busy
  BY DEF Init, HistoryType
<1> QED
  BY <1>1, EmptyWire DEF BusyComing

LEMMA HistoryTyped == TypeOK /\ HistoryType /\ [Next]_vars => HistoryType'
<1> SUFFICES ASSUME TypeOK, HistoryType, [Next]_vars
             PROVE  HistoryType'
  OBVIOUS
<1> USE DEF historyVars
<1>1. CASE Session
  BY <1>1 DEF Session, BeginTurn, StartBlock, Delta, Commit, EndTurn, ConsumerFails,
     ErrorInTurn, Park, Capture, SettledElsewhere, Mirror, AnswerArrives,
     TypeOK, TabType, SessionType, HistoryType
<1>2. CASE Tab
  BY <1>2 DEF Tab, Drop, Reconnect, Deliver, Answer, Resume, HistoryType
<1>3. ASSUME NEW s \in Serves, Serve(s)
      PROVE  HistoryType'
  BY <1>3 DEF Serve, ReadRow, ReadEntries, SendSnapshot, HistoryType
<1>4. CASE UNCHANGED vars
  BY <1>4 DEF vars, HistoryType
<1> QED
  BY <1>1, <1>2, <1>3, <1>4 DEF Next

LEMMA BusyStep ==
  TypeOK /\ Linked /\ TypeOK' /\ HistoryType /\ BusyComing /\ [Next]_vars => BusyComing'
<1> SUFFICES ASSUME TypeOK, Linked, TypeOK', HistoryType, BusyComing, [Next]_vars,
                    attached', Free', ~stale', ~misled'
             PROVE  \/ Told(wire', Says(busy'), Says(~busy'))
                    \/ shownBusy' = busy' /\ Silent(wire', Says(~busy'))
  BY DEF BusyComing, Free
<1> DEFINE Goal == \/ Told(wire', Says(busy'), Says(~busy'))
                   \/ shownBusy' = busy' /\ Silent(wire', Says(~busy'))
<1> USE DEF turnVars, storeVars, serveVars, tabVars, historyVars
<1>0. wire \in Seq(Frames)
  BY DEF TypeOK, TabType
<1>1. attached /\ Free /\ ~stale /\ ~misled =>
        \/ Told(wire, Says(busy), Says(~busy))
        \/ shownBusy = busy /\ Silent(wire, Says(~busy))
  BY DEF BusyComing
<1>2. ASSUME attached, Free, ~stale, ~misled, UNCHANGED <<wire, busy, shownBusy>>
      PROVE  Goal
  BY <1>1, <1>2
<1>3. ASSUME NEW f \in Frames, f \notin Says(~busy), Broadcast(f),
             attached, Free, ~stale, ~misled, UNCHANGED <<busy, shownBusy>>
      PROVE  Goal
  <2>1. wire' = Append(wire, f)
    BY <1>3 DEF Broadcast
  <2> QED
    BY <1>0, <1>1, <1>3, <2>1, OneMore
<1>4. ASSUME NEW f \in Frames, f \in Says(busy'), f \notin Says(~busy'),
             wire' = Append(wire, f)
      PROVE  Goal
  BY <1>0, <1>4, OneMore
<1>5. CASE BeginTurn
  <2>1. Frame("begin", made + 1) \in Frames
    BY <1>5, Numbers, FrameIsFrame DEF BeginTurn, Items
  <2>2. wire' = Append(wire, Frame("begin", made + 1)) /\ busy' = TRUE
    BY <1>5 DEF BeginTurn, Broadcast
  <2>3. Frame("begin", made + 1) \in Says(busy') /\ Frame("begin", made + 1) \notin Says(~busy')
    BY <2>1, <2>2 DEF Frame, Says
  <2> QED
    BY <1>4, <2>1, <2>2, <2>3
<1>6. CASE EndTurn \/ ConsumerFails
  <2>1. PICK k \in {"end", "error"} : Broadcast(Frame(k, made))
    BY <1>6 DEF EndTurn, ConsumerFails
  <2>2. Frame(k, made) \in Frames
    BY <1>6, Numbers, FrameIsFrame DEF EndTurn, ConsumerFails
  <2>3. wire' = Append(wire, Frame(k, made)) /\ busy' = FALSE
    BY <1>6, <2>1 DEF EndTurn, ConsumerFails, Broadcast
  <2>4. Frame(k, made) \in Says(busy') /\ Frame(k, made) \notin Says(~busy')
    BY <2>2, <2>3 DEF Frame, Says
  <2> QED
    BY <1>4, <2>2, <2>3, <2>4
<1>7. CASE Delta \/ Commit \/ Park
  <2>1. PICK k \in {"delta", "commit", "prompt"} : Broadcast(Frame(k, made))
    BY <1>7 DEF Delta, Commit, Park
  <2>2. Frame(k, made) \in Frames
    BY <1>7, Numbers, FrameIsFrame DEF Delta, Commit, Park
  <2>3. Frame(k, made) \notin Says(~busy)
    BY DEF Frame, Says
  <2>4. /\ attached /\ Free /\ ~stale /\ ~misled
        /\ UNCHANGED <<busy, shownBusy>>
    <3>1. attached /\ Free /\ UNCHANGED <<busy, shownBusy>>
      BY <1>7 DEF Delta, Commit, Park, Free
    <3>2. stale' = stale /\ misled' = misled
      BY <1>7 DEF Delta, Commit, Park
    <3> QED
      BY <3>1, <3>2
  <2> QED
    BY <1>3, <2>1, <2>2, <2>3, <2>4
<1>8. CASE ErrorInTurn
  BY <1>8 DEF ErrorInTurn
<1>9. CASE StartBlock \/ Capture
  BY <1>2, <1>9 DEF StartBlock, Capture, Free
<1>10. ASSUME NEW j \in Items, SettledElsewhere(j) \/ Mirror(j) \/ Answer(j)
       PROVE  Goal
  BY <1>2, <1>10 DEF SettledElsewhere, Mirror, Answer, Free
<1>11. ASSUME NEW j \in Items, AnswerArrives(j)
       PROVE  Goal
  <2>1. CASE j \in parked
    BY <1>2, <1>11, <2>1 DEF AnswerArrives, Free
  <2>2. CASE j \notin parked
    <3>1. Frame("error", j) \in Frames
      BY FrameIsFrame
    <3>2. link
      BY <1>11 DEF AnswerArrives, Linked
    <3>3. wire' = Append(wire, Frame("error", j)) /\ busy' = FALSE
      BY <1>11, <2>2, <3>2 DEF AnswerArrives, SendDirect, TypeOK, SessionType
    <3>4. Frame("error", j) \in Says(busy') /\ Frame("error", j) \notin Says(~busy')
      BY <3>1, <3>3 DEF Frame, Says
    <3> QED
      BY <1>4, <3>1, <3>3, <3>4
  <2> QED
    BY <2>1, <2>2
<1>12. CASE Drop \/ Reconnect
  BY <1>12 DEF Drop, Reconnect, Linked
<1>13. CASE Deliver
  <2> DEFINE f == Head(wire)
  <2>1. /\ f \in Frames /\ attached /\ Free /\ ~stale /\ ~misled
        /\ busy \in BOOLEAN /\ shownBusy \in BOOLEAN /\ busy' = busy
    BY <1>0, <1>13, HeadTailProperties DEF Deliver, Free, TypeOK, TabType, SessionType
  <2>2. f \in Says(busy) => shownBusy' = busy
    BY <1>13, <2>1 DEF Deliver, Says, Frames
  <2>3. f \notin Says(~busy) /\ shownBusy = busy => shownBusy' = busy
    BY <1>13, <2>1 DEF Deliver, Says, Frames
  <2>4. wire # <<>> /\ wire' = Tail(wire)
    BY <1>13 DEF Deliver
  <2>5. /\ Told(wire, Says(busy), Says(~busy)) =>
             \/ Told(Tail(wire), Says(busy), Says(~busy))
             \/ f \in Says(busy) /\ Silent(Tail(wire), Says(~busy))
        /\ Silent(wire, Says(~busy)) =>
             Silent(Tail(wire), Says(~busy)) /\ f \notin Says(~busy)
    BY <1>0, <2>4, OneLess
  <2> HIDE DEF f
  <2>6. \/ Told(Tail(wire), Says(busy), Says(~busy))
        \/ shownBusy' = busy /\ Silent(Tail(wire), Says(~busy))
    BY <1>1, <2>1, <2>2, <2>3, <2>5
  <2>7. Says(busy') = Says(busy) /\ Says(~busy') = Says(~busy)
    BY <2>1
  <2> QED
    BY <2>1, <2>4, <2>6, <2>7
<1>14. ASSUME NEW s \in Serves, Resume(s) \/ ReadRow(s) \/ ReadEntries(s)
       PROVE  Goal
  BY <1>14 DEF Resume, ReadRow, ReadEntries, TypeOK, ServeType, Free
<1>15. ASSUME NEW s \in Serves, SendSnapshot(s)
       PROVE  Goal
  <2> DEFINE f == Snapshot(gotBusy[s], gotItems[s], parked)
  <2>1. f \in Frames
    BY SnapshotIsFrame DEF TypeOK, ServeType, SessionType
  <2>2. gotBusy[s] = busy /\ busy' = busy /\ busy \in BOOLEAN
    BY <1>15 DEF SendSnapshot, TypeOK, SessionType
  <2>3. f \in Says(busy') /\ f \notin Says(~busy')
    BY <2>1, <2>2 DEF Snapshot, Says
  <2>4. wire' = Append(wire, f)
    BY <1>15 DEF SendSnapshot, SendDirect, Linked
  <2> HIDE DEF f
  <2> QED
    BY <1>4, <2>1, <2>3, <2>4
<1>16. CASE UNCHANGED vars
  BY <1>2, <1>16 DEF vars, Free
<1> QED
  BY <1>5, <1>6, <1>7, <1>8, <1>9, <1>10, <1>11, <1>12, <1>13, <1>14, <1>15, <1>16
     DEF Next, Session, Tab, Serve

(* BusyAgrees, the property of the run `view`: a settled tab shows a turn  *)
(* in progress when there is one.                                          *)
THEOREM BusyIsShown == Spec => []BusyAgrees
<1>1. /\ TypeOK /\ Linked /\ HistoryType /\ BusyComing /\ [Next]_vars
      => (TypeOK /\ Linked /\ HistoryType /\ BusyComing)'
  BY NextType, HistoryTyped, BusyStep
<1>2. TypeOK /\ BusyComing => BusyAgrees
  <2> SUFFICES ASSUME TypeOK, BusyComing, Settled, ~stale, ~misled
               PROVE  shownBusy = busy
    BY DEF BusyAgrees
  <2>1. wire = <<>> /\ attached /\ Free
    BY DEF Settled, Free
  <2> QED
    BY <2>1, EmptyWire DEF BusyComing
<1> QED
  BY InitType, InitBusy, <1>1, <1>2, PTL DEF Spec

-----------------------------------------------------------------------------
(* The blocks: a frame that makes block i whole, and one that leaves it    *)
(* without its end.                                                        *)
Makes(i) == {f \in Frames : \/ f.kind \in {"begin", "commit"} /\ f.item = i
                            \/ f.kind = "snapshot" /\ i \in f.items}
Breaks(i) == {f \in Frames : \/ f.kind = "delta" /\ f.item = i
                             \/ f.kind = "snapshot" /\ i \notin f.items}

Whole == {"full", "twice"}

(* Once the wire is empty the tab has every finished block that the last   *)
(* snapshot carried, or whose final frame came after it.                   *)
BlockComing == \A i \in done \ lost :
  attached /\ Free => \/ Told(wire, Makes(i), Breaks(i))
                      \/ view[i] \in Whole /\ Silent(wire, Breaks(i))

LEMMA InitBlock == Init => BlockComing
  BY DEF Init, BlockComing

LEMMA BlockStep ==
  TypeOK /\ Linked /\ TypeOK' /\ BlockComing /\ [Next]_vars => BlockComing'
<1> SUFFICES ASSUME TypeOK, Linked, TypeOK', BlockComing, [Next]_vars,
                    NEW i \in done' \ lost', attached', Free'
             PROVE  \/ Told(wire', Makes(i), Breaks(i))
                    \/ view'[i] \in Whole /\ Silent(wire', Breaks(i))
  BY DEF BlockComing, Free
<1> DEFINE Goal == \/ Told(wire', Makes(i), Breaks(i))
                   \/ view'[i] \in Whole /\ Silent(wire', Breaks(i))
<1> USE DEF turnVars, storeVars, serveVars, tabVars, historyVars
<1>0. wire \in Seq(Frames)
  BY DEF TypeOK, TabType
<1>1. i \in done \ lost /\ attached /\ Free =>
        \/ Told(wire, Makes(i), Breaks(i))
        \/ view[i] \in Whole /\ Silent(wire, Breaks(i))
  BY DEF BlockComing
<1>2. ASSUME i \in done \ lost, attached, Free, UNCHANGED <<wire, view>>
      PROVE  Goal
  BY <1>1, <1>2
<1>3. ASSUME NEW f \in Frames, f \notin Breaks(i), Broadcast(f) \/ SendDirect(f),
             i \in done \ lost, attached, Free, view' = view
      PROVE  Goal
  <2>1. wire' = wire \/ wire' = Append(wire, f)
    BY <1>0, <1>3, Sent
  <2> QED
    BY <1>0, <1>1, <1>3, <2>1, OneMore
<1>4. ASSUME NEW f \in Frames, f \in Makes(i), f \notin Breaks(i), wire' = Append(wire, f)
      PROVE  Goal
  BY <1>0, <1>4, OneMore
<1>5. CASE BeginTurn
  <2> DEFINE f == Frame("begin", made + 1)
  <2>1. f \in Frames
    BY <1>5, Numbers, FrameIsFrame DEF BeginTurn, Items
  <2>2. f \notin Breaks(i) /\ wire' = Append(wire, f)
    BY <1>5 DEF BeginTurn, Broadcast, Frame, Breaks
  <2>3. CASE i = made + 1
    <3>1. f \in Makes(i)
      BY <2>1, <2>3 DEF Frame, Makes
    <3> HIDE DEF f
    <3> QED
      BY <1>4, <2>1, <2>2, <3>1
  <2>4. CASE i # made + 1
    <3>1. i \in done \ lost /\ attached /\ Free /\ view' = view /\ Broadcast(f)
      BY <1>5, <2>4 DEF BeginTurn, Free
    <3> HIDE DEF f
    <3> QED
      BY <1>3, <2>1, <2>2, <3>1
  <2> QED
    BY <2>3, <2>4
<1>6. CASE Commit
  <2> DEFINE f == Frame("commit", made)
  <2>1. f \in Frames
    BY <1>6, Numbers, FrameIsFrame DEF Commit
  <2>2. f \notin Breaks(i) /\ wire' = Append(wire, f)
    BY <1>6 DEF Commit, Broadcast, Frame, Breaks
  <2>3. CASE i = made
    <3>1. f \in Makes(i)
      BY <2>1, <2>3 DEF Frame, Makes
    <3> HIDE DEF f
    <3> QED
      BY <1>4, <2>1, <2>2, <3>1
  <2>4. CASE i # made
    <3>1. i \in done \ lost /\ attached /\ Free /\ view' = view /\ Broadcast(f)
      BY <1>6, <2>4 DEF Commit, Free
    <3> HIDE DEF f
    <3> QED
      BY <1>3, <2>1, <2>2, <3>1
  <2> QED
    BY <2>3, <2>4
<1>7. CASE Delta
  <2>1. Frame("delta", made) \in Frames
    BY <1>7, Numbers, FrameIsFrame DEF Delta
  <2>2. i \in done \ lost /\ attached /\ Free /\ view' = view /\ i # made
    BY <1>7 DEF Delta, Free
  <2>3. Frame("delta", made) \notin Breaks(i)
    BY <2>2 DEF Frame, Breaks
  <2> QED
    BY <1>3, <1>7, <2>1, <2>2, <2>3 DEF Delta
<1>8. CASE EndTurn \/ ConsumerFails \/ ErrorInTurn \/ Park
  <2>1. PICK k \in {"end", "error", "prompt"} : Broadcast(Frame(k, made))
    BY <1>8 DEF EndTurn, ConsumerFails, ErrorInTurn, Park
  <2>2. Frame(k, made) \in Frames
    BY <1>8, Numbers, FrameIsFrame DEF EndTurn, ConsumerFails, ErrorInTurn, Park
  <2>3. Frame(k, made) \notin Breaks(i)
    BY DEF Frame, Breaks
  <2>4. i \in done \ lost /\ attached /\ Free /\ view' = view
    BY <1>8 DEF EndTurn, ConsumerFails, ErrorInTurn, Park, Free
  <2> QED
    BY <1>3, <2>1, <2>2, <2>3, <2>4
<1>9. CASE StartBlock \/ Capture
  BY <1>2, <1>9 DEF StartBlock, Capture, Free
<1>10. ASSUME NEW j \in Items, SettledElsewhere(j) \/ Mirror(j) \/ Answer(j)
       PROVE  Goal
  BY <1>2, <1>10 DEF SettledElsewhere, Mirror, Answer, Free
<1>11. ASSUME NEW j \in Items, AnswerArrives(j)
       PROVE  Goal
  <2>0. i \in done \ lost /\ attached /\ Free /\ view' = view
    BY <1>11 DEF AnswerArrives, Free
  <2>1. CASE j \in parked
    BY <1>2, <1>11, <2>0, <2>1 DEF AnswerArrives
  <2>2. CASE j \notin parked
    <3>1. Frame("error", j) \in Frames /\ Frame("error", j) \notin Breaks(i)
      BY FrameIsFrame DEF Frame, Breaks
    <3> QED
      BY <1>3, <1>11, <2>0, <2>2, <3>1 DEF AnswerArrives
  <2> QED
    BY <2>1, <2>2
<1>12. CASE Drop \/ Reconnect
  BY <1>12 DEF Drop, Reconnect, Linked
<1>13. CASE Deliver
  <2> DEFINE f == Head(wire)
  <2>1. /\ f \in Frames /\ i \in done \ lost /\ attached /\ Free
        /\ i \in Items /\ view \in [Items -> {"absent", "partial", "full", "twice"}]
        /\ view' = Applied(view, f)
    BY <1>0, <1>13, Numbers, HeadTailProperties DEF Deliver, Free, TypeOK, TabType
  <2> HIDE DEF f
  <2>2. f \in Makes(i) => view'[i] \in Whole
    BY <2>1 DEF Applied, Makes, Frames, Whole
  <2>3. f \notin Breaks(i) /\ view[i] \in Whole => view'[i] \in Whole
    BY <2>1 DEF Applied, Breaks, Frames, Whole
  <2>4. wire # <<>> /\ wire' = Tail(wire)
    BY <1>13 DEF Deliver
  <2>5. /\ Told(wire, Makes(i), Breaks(i)) =>
             \/ Told(Tail(wire), Makes(i), Breaks(i))
             \/ f \in Makes(i) /\ Silent(Tail(wire), Breaks(i))
        /\ Silent(wire, Breaks(i)) => Silent(Tail(wire), Breaks(i)) /\ f \notin Breaks(i)
    BY <1>0, <2>4, OneLess DEF f
  <2>6. \/ Told(Tail(wire), Makes(i), Breaks(i))
        \/ view'[i] \in Whole /\ Silent(Tail(wire), Breaks(i))
    BY <1>1, <2>1, <2>2, <2>3, <2>5
  <2> QED
    BY <2>4, <2>6
<1>14. ASSUME NEW s \in Serves, Resume(s) \/ ReadRow(s) \/ ReadEntries(s)
       PROVE  Goal
  BY <1>14 DEF Resume, ReadRow, ReadEntries, TypeOK, ServeType, Free
<1>15. ASSUME NEW s \in Serves, SendSnapshot(s)
       PROVE  Goal
  <2> DEFINE f == Snapshot(gotBusy[s], gotItems[s], parked)
  <2>1. f \in Frames
    BY SnapshotIsFrame DEF TypeOK, ServeType, SessionType
  <2>2. i \in gotItems[s]
    BY <1>15 DEF SendSnapshot
  <2>3. f \in Makes(i) /\ f \notin Breaks(i)
    BY <2>1, <2>2 DEF Snapshot, Makes, Breaks
  <2>4. wire' = Append(wire, f)
    BY <1>15 DEF SendSnapshot, SendDirect, Linked
  <2> HIDE DEF f
  <2> QED
    BY <1>4, <2>1, <2>3, <2>4
<1>16. CASE UNCHANGED vars
  BY <1>2, <1>16 DEF vars, Free
<1> QED
  BY <1>5, <1>6, <1>7, <1>8, <1>9, <1>10, <1>11, <1>12, <1>13, <1>14, <1>15, <1>16
     DEF Next, Session, Tab, Serve

(* A tool_result is appended without a look; one that the mirror had not   *)
(* before its frame was broadcast is whole nowhere until then, and once    *)
(* nothing that arrives before its frame has it.                           *)
Commits(i) == {f \in Frames : f.kind = "commit" /\ f.item = i}

Unsent(i) == /\ i \notin stored
             /\ \A s \in Serves : i \notin gotItems[s]
             /\ \A k \in 1..Len(wire) : wire[k] \notin Makes(i)
             /\ view[i] \notin Whole

FirstTime(i) == \A k \in 1..Len(wire) : wire[k] \in Commits(i) =>
                  view[i] \notin Whole /\ \A j \in 1..(k - 1) : wire[j] \notin Makes(i)

OnceComing == \A i \in Items :
  /\ view[i] = "twice" => i \in Results
  /\ i \in Results \ early => /\ i \notin done => Unsent(i)
                              /\ FirstTime(i)
                              /\ view[i] # "twice"

LEMMA InitOnce == Init => OnceComing
  BY DEF Init, OnceComing, Unsent, FirstTime, Whole

(* A frame that is no commit of the block may be added.                    *)
LEMMA AddedOnce ==
  ASSUME NEW i \in Items, wire \in Seq(Frames), NEW f \in Frames,
         wire' = wire \/ wire' = Append(wire, f), view' = view, FirstTime(i),
         f \in Commits(i) => view[i] \notin Whole
                             /\ \A k \in 1..Len(wire) : wire[k] \notin Makes(i)
  PROVE  FirstTime(i)'
<1>1. CASE wire' = wire
  BY <1>1 DEF FirstTime
<1>2. CASE wire' = Append(wire, f)
  <2>1. /\ Len(wire') = Len(wire) + 1 /\ Len(wire) \in Nat /\ wire'[Len(wire) + 1] = f
        /\ \A k \in 1..Len(wire) : wire'[k] = wire[k]
    BY <1>2, AppendProperties
  <2> SUFFICES ASSUME NEW k \in 1..Len(wire'), wire'[k] \in Commits(i)
               PROVE  view[i] \notin Whole /\ \A j \in 1..(k - 1) : wire'[j] \notin Makes(i)
    BY DEF FirstTime
  <2>2. CASE k = Len(wire) + 1
    BY <2>1, <2>2
  <2>3. CASE k # Len(wire) + 1
    <3>1. k \in 1..Len(wire) /\ wire[k] \in Commits(i)
      BY <2>1, <2>3
    <3>2. view[i] \notin Whole /\ \A j \in 1..(k - 1) : wire[j] \notin Makes(i)
      BY <3>1 DEF FirstTime
    <3> QED
      BY <2>1, <3>1, <3>2
  <2> QED
    BY <2>2, <2>3
<1> QED
  BY <1>1, <1>2

(* A frame that does not make a block that is not done leaves it unsent.   *)
LEMMA AddedUnsent ==
  ASSUME NEW i \in Items, wire \in Seq(Frames), NEW f \in Frames,
         wire' = wire \/ wire' = Append(wire, f), f \notin Makes(i),
         \A k \in 1..Len(wire) : wire[k] \notin Makes(i)
  PROVE  \A k \in 1..Len(wire') : wire'[k] \notin Makes(i)
<1>1. CASE wire' = Append(wire, f)
  <2>1. /\ Len(wire') = Len(wire) + 1 /\ Len(wire) \in Nat /\ wire'[Len(wire) + 1] = f
        /\ \A k \in 1..Len(wire) : wire'[k] = wire[k]
    BY <1>1, AppendProperties
  <2> QED
    BY <2>1
<1> QED
  BY <1>1

LEMMA OnceStep ==
  TypeOK /\ Linked /\ TypeOK' /\ OnceComing /\ [Next]_vars => OnceComing'
<1> SUFFICES ASSUME TypeOK, Linked, TypeOK', OnceComing, [Next]_vars, NEW i \in Items
             PROVE  /\ view'[i] = "twice" => i \in Results
                    /\ i \in Results \ early' => /\ i \notin done' => Unsent(i)'
                                                 /\ FirstTime(i)'
                                                 /\ view'[i] # "twice"
  BY DEF OnceComing
<1> DEFINE Goal == /\ view'[i] = "twice" => i \in Results
                   /\ i \in Results \ early' => /\ i \notin done' => Unsent(i)'
                                                /\ FirstTime(i)'
                                                /\ view'[i] # "twice"
<1> USE DEF turnVars, storeVars, serveVars, tabVars, historyVars
<1>0. wire \in Seq(Frames) /\ Len(wire) \in Nat
  BY DEF TypeOK, TabType
<1>1. /\ view[i] = "twice" => i \in Results
      /\ i \in Results \ early => /\ i \notin done => Unsent(i)
                                  /\ FirstTime(i)
                                  /\ view[i] # "twice"
  BY DEF OnceComing
<1>2. ASSUME UNCHANGED <<stored, gotItems, wire, view, early, done>>
      PROVE  Goal
  BY <1>1, <1>2 DEF Unsent, FirstTime
<1>3. ASSUME NEW f \in Frames, Broadcast(f) \/ SendDirect(f), f \notin Makes(i),
             UNCHANGED <<stored, gotItems, view, early>>, i \in done <=> i \in done'
      PROVE  Goal
  <2>1. (wire' = wire \/ wire' = Append(wire, f)) /\ f \notin Commits(i)
    BY <1>0, <1>3, Sent DEF Commits, Makes
  <2>2. FirstTime(i) => FirstTime(i)'
    BY <1>0, <1>3, <2>1, AddedOnce
  <2>3. Unsent(i) => Unsent(i)'
    BY <1>0, <1>3, <2>1, AddedUnsent DEF Unsent
  <2> QED
    BY <1>1, <1>3, <2>2, <2>3
<1>4. CASE BeginTurn
  <2> DEFINE f == Frame("begin", made + 1)
  <2>1. f \in Frames
    BY <1>4, Numbers, FrameIsFrame DEF BeginTurn, Items
  <2>2. CASE i = made + 1
    BY <1>1, <1>4, <2>2 DEF BeginTurn
  <2>3. CASE i # made + 1
    <3>1. /\ f \notin Makes(i) /\ Broadcast(f)
          /\ UNCHANGED <<stored, gotItems, view, early>> /\ (i \in done <=> i \in done')
      BY <1>4, <2>3 DEF BeginTurn, Frame, Makes
    <3> HIDE DEF f
    <3> QED
      BY <1>3, <2>1, <3>1
  <2> QED
    BY <2>2, <2>3
<1>5. CASE Commit
  <2> DEFINE f == Frame("commit", made)
  <2>1. f \in Frames
    BY <1>5, Numbers, FrameIsFrame DEF Commit
  <2>2. CASE i = made
    <3>1. /\ wire' = wire \/ wire' = Append(wire, f)
          /\ view' = view /\ early' = early /\ i \notin done /\ i \in done'
      BY <1>5, <2>2 DEF Commit, Broadcast
    <3> HIDE DEF f
    <3>2. i \in Results \ early => FirstTime(i)'
      BY <1>0, <1>1, <2>1, <3>1, AddedOnce DEF Unsent
    <3> QED
      BY <1>1, <3>1, <3>2
  <2>3. CASE i # made
    <3>1. /\ f \notin Makes(i) /\ Broadcast(f)
          /\ UNCHANGED <<stored, gotItems, view, early>> /\ (i \in done <=> i \in done')
      BY <1>5, <2>3 DEF Commit, Frame, Makes
    <3> HIDE DEF f
    <3> QED
      BY <1>3, <2>1, <3>1
  <2> QED
    BY <2>2, <2>3
<1>6. CASE Delta \/ EndTurn \/ ConsumerFails \/ ErrorInTurn \/ Park
  <2>1. PICK k \in {"delta", "end", "error", "prompt"} : Broadcast(Frame(k, made))
    BY <1>6 DEF Delta, EndTurn, ConsumerFails, ErrorInTurn, Park
  <2>2. Frame(k, made) \in Frames
    BY <1>6, Numbers, FrameIsFrame DEF Delta, EndTurn, ConsumerFails, ErrorInTurn, Park
  <2>3. Frame(k, made) \notin Makes(i)
    BY DEF Frame, Makes
  <2>4. UNCHANGED <<stored, gotItems, view, early, done>>
    BY <1>6 DEF Delta, EndTurn, ConsumerFails, ErrorInTurn, Park
  <2> QED
    BY <1>3, <2>1, <2>2, <2>3, <2>4
<1>7. CASE StartBlock \/ Capture \/ Reconnect
  BY <1>2, <1>7 DEF StartBlock, Capture, Reconnect
<1>8. ASSUME NEW j \in Items, SettledElsewhere(j) \/ Answer(j)
      PROVE  Goal
  BY <1>2, <1>8 DEF SettledElsewhere, Answer
<1>9. ASSUME NEW j \in Items, Mirror(j)
      PROVE  Goal
  <2>1. /\ UNCHANGED <<wire, view, gotItems, done>> /\ early \subseteq early'
        /\ stored' = stored \cup {j}
        /\ i = j /\ i \in Results \ early' => i \in done
    BY <1>9 DEF Mirror
  <2>2. FirstTime(i) => FirstTime(i)'
    BY <2>1 DEF FirstTime
  <2>3. Unsent(i) /\ i # j => Unsent(i)'
    BY <2>1 DEF Unsent
  <2> QED
    BY <1>1, <2>1, <2>2, <2>3
<1>10. ASSUME NEW j \in Items, AnswerArrives(j)
       PROVE  Goal
  <2>1. CASE j \in parked
    BY <1>2, <1>10, <2>1 DEF AnswerArrives
  <2>2. CASE j \notin parked
    <3>1. Frame("error", j) \in Frames /\ Frame("error", j) \notin Makes(i)
      BY FrameIsFrame DEF Frame, Makes
    <3> QED
      BY <1>3, <1>10, <2>2, <3>1 DEF AnswerArrives
  <2> QED
    BY <2>1, <2>2
<1>11. CASE Drop
  <2>1. FirstTime(i)'
    BY <1>11 DEF Drop, FirstTime
  <2>2. Unsent(i) => Unsent(i)'
    BY <1>11 DEF Drop, Unsent
  <2> QED
    BY <1>1, <1>11, <2>1, <2>2 DEF Drop
<1>12. CASE Deliver
  <2> DEFINE f == Head(wire)
             r == Tail(wire)
  <2>1. /\ Len(r) = Len(wire) - 1 /\ Len(wire) > 0 /\ f = wire[1] /\ f \in Frames
        /\ \A k \in 1..Len(r) : r[k] = wire[k + 1]
    BY <1>0, <1>12, HeadTailProperties, EmptySeq DEF Deliver
  <2>2. /\ view \in [Items -> {"absent", "partial", "full", "twice"}]
        /\ view' = Applied(view, f) /\ wire' = r
        /\ UNCHANGED <<stored, gotItems, early, done>>
    BY <1>12 DEF Deliver, TypeOK, TabType
  <2> HIDE DEF f, r
  <2>3. f \notin Makes(i) /\ view[i] \notin Whole => view'[i] \notin Whole
    BY <2>1, <2>2 DEF Applied, Makes, Frames, Whole
  <2>4. view'[i] = "twice" =>
          view[i] = "twice" \/ (f \in Commits(i) /\ view[i] \in Whole /\ i \in Results)
    BY <2>1, <2>2 DEF Applied, Commits, Frames, Whole
  <2>5. Unsent(i) => Unsent(i)'
    <3> SUFFICES ASSUME Unsent(i) PROVE Unsent(i)'
      OBVIOUS
    <3>1. f \notin Makes(i) /\ view[i] \notin Whole
      BY <1>0, <2>1 DEF Unsent
    <3>2. \A k \in 1..Len(r) : r[k] \notin Makes(i)
      BY <1>0, <2>1 DEF Unsent
    <3> QED
      BY <2>2, <2>3, <3>1, <3>2 DEF Unsent
  <2>6. ASSUME FirstTime(i)
        PROVE  FirstTime(i)' /\ (view[i] # "twice" => view'[i] # "twice")
    <3>1. ASSUME NEW k \in 1..Len(r), r[k] \in Commits(i)
          PROVE  view'[i] \notin Whole /\ \A j \in 1..(k - 1) : r[j] \notin Makes(i)
      <4>1. k + 1 \in 1..Len(wire) /\ wire[k + 1] \in Commits(i)
        BY <1>0, <2>1, <3>1
      <4>2. view[i] \notin Whole /\ \A j \in 1..((k + 1) - 1) : wire[j] \notin Makes(i)
        BY <2>6, <4>1 DEF FirstTime
      <4>3. f \notin Makes(i)
        BY <1>0, <2>1, <4>2
      <4>4. \A j \in 1..(k - 1) : r[j] \notin Makes(i)
        BY <1>0, <2>1, <4>2
      <4> QED
        BY <2>3, <4>2, <4>3, <4>4
    <3>2. f \in Commits(i) => view[i] \notin Whole
      BY <1>0, <2>1, <2>6 DEF FirstTime
    <3> QED
      BY <2>2, <2>4, <3>1, <3>2 DEF FirstTime
  <2> QED
    BY <1>1, <2>2, <2>4, <2>5, <2>6
<1>13. ASSUME NEW s \in Serves, Resume(s)
       PROVE  Goal
  BY <1>2, <1>13 DEF Resume
<1>14. ASSUME NEW s \in Serves, ReadRow(s) \/ ReadEntries(s)
       PROVE  Goal
  <2>1. /\ UNCHANGED <<wire, view, stored, early, done>>
        /\ \A q \in Serves : i \in gotItems'[q] => i \in gotItems[q] \cup stored
    BY <1>14 DEF ReadRow, ReadEntries, TypeOK, ServeType
  <2> QED
    BY <1>1, <2>1 DEF Unsent, FirstTime
<1>15. ASSUME NEW s \in Serves, SendSnapshot(s)
       PROVE  Goal
  <2> DEFINE f == Snapshot(gotBusy[s], gotItems[s], parked)
  <2>1. f \in Frames
    BY SnapshotIsFrame DEF TypeOK, ServeType, SessionType
  <2>2. /\ wire' = wire \/ wire' = Append(wire, f)
        /\ UNCHANGED <<view, stored, early, done>>
        /\ \A q \in Serves : i \in gotItems'[q] => i \in gotItems[q]
    BY <1>15 DEF SendSnapshot, SendDirect, TypeOK, ServeType
  <2>3. f \notin Commits(i) /\ (i \notin gotItems[s] => f \notin Makes(i))
    BY DEF Snapshot, Commits, Makes
  <2> HIDE DEF f
  <2>4. FirstTime(i) => FirstTime(i)'
    BY <1>0, <2>1, <2>2, <2>3, AddedOnce
  <2>5. Unsent(i) => Unsent(i)'
    BY <1>0, <2>1, <2>2, <2>3, AddedUnsent DEF Unsent
  <2> QED
    BY <1>1, <2>2, <2>4, <2>5
<1>16. CASE UNCHANGED vars
  BY <1>2, <1>16 DEF vars
<1> QED
  BY <1>4, <1>5, <1>6, <1>7, <1>8, <1>9, <1>10, <1>11, <1>12, <1>13, <1>14, <1>15, <1>16
     DEF Next, Session, Tab, Serve

(* ViewIsTrue, the property of the run `view`: a settled tab has each      *)
(* block once, but for what a snapshot left out after its frame, and a     *)
(* tool_result that a snapshot carried before its frame.                   *)
THEOREM ViewAddsUp == Spec => []ViewIsTrue
<1>1. /\ TypeOK /\ Linked /\ BlockComing /\ OnceComing /\ [Next]_vars
      => (TypeOK /\ Linked /\ BlockComing /\ OnceComing)'
  BY NextType, BlockStep, OnceStep
<1>2. TypeOK /\ BlockComing => ViewComplete
  <2> SUFFICES ASSUME TypeOK, BlockComing, Settled, NEW i \in done \ lost
               PROVE  view[i] \in {"full", "twice"}
    BY DEF ViewComplete
  <2>1. wire = <<>> /\ attached /\ Free
    BY DEF Settled, Free
  <2> QED
    BY <2>1, EmptyWire DEF BlockComing, Whole
<1>3. OnceComing => ShownOnce
  BY DEF OnceComing, ShownOnce
<1>4. TypeOK /\ BlockComing /\ OnceComing => ViewIsTrue
  BY <1>2, <1>3 DEF ViewIsTrue
<1> QED
  BY InitType, InitBlock, InitOnce, <1>1, <1>4, PTL DEF Spec

=============================================================================
