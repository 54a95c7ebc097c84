------------------------ MODULE MessageBridge_proofs ------------------------
(* Theorems about MessageBridge, for every set of prompts and every bound. *)
EXTENDS MessageBridge, SequenceTheorems, TLAPS

(* A handed-over value is pending only between the settling of the promise *)
(* and the continuation of next().                                         *)
HandedOnlyWhenResolved == handed # Null => reader = "resolved"

(* What next() returned is always an initial part of what was pushed.      *)
DeliveredIsPrefix ==
  /\ Len(delivered) <= Len(pushed)
  /\ \A i \in 1..Len(delivered) : delivered[i] = pushed[i]

(* The inductive invariant. *)
IInv == /\ TypeOK
        /\ HandedOnlyWhenResolved
        /\ WaitsOnlyWhenEmpty
        /\ NothingLost
        /\ DeliveredIsPrefix

-----------------------------------------------------------------------------
(* Appending to two sequences keeps one an initial part of the other.      *)
LEMMA PrefixOfAppend ==
  ASSUME NEW s \in Seq(Prompts), NEW t \in Seq(Prompts), NEW e \in Prompts,
         Len(s) <= Len(t), \A i \in 1..Len(s) : s[i] = t[i]
  PROVE  /\ Len(s) <= Len(Append(t, e))
         /\ \A i \in 1..Len(s) : s[i] = Append(t, e)[i]
  OBVIOUS

(* If s followed by the elements of u is t and u is not empty, then s and  *)
(* the first element of u are the next initial part of t.                  *)
LEMMA PrefixByHead ==
  ASSUME NEW s \in Seq(Prompts), NEW t \in Seq(Prompts), NEW u \in Seq(Prompts),
         u # <<>>, t = s \o u
  PROVE  /\ Len(s) < Len(t)
         /\ Head(u) = t[Len(s) + 1]
         /\ Append(s, Head(u)) \in Seq(Prompts)
         /\ t = Append(s, Head(u)) \o Tail(u)
         /\ Len(Append(s, Head(u))) <= Len(t)
         /\ \A i \in 1..Len(Append(s, Head(u))) : Append(s, Head(u))[i] = t[i]
<1>1. Head(u) \in Prompts /\ Tail(u) \in Seq(Prompts) /\ Len(u) > 0
      /\ Head(u) = u[1]
  OBVIOUS
<1>2. Len(t) = Len(s) + Len(u)
  OBVIOUS
<1>3. \A i \in 1..Len(s) : t[i] = s[i]
  OBVIOUS
<1>4. t[Len(s) + 1] = u[1]
  BY <1>1
<1>5. t = Append(s, Head(u)) \o Tail(u)
  BY <1>1
<1> QED
  BY <1>1, <1>2, <1>3, <1>4, <1>5

-----------------------------------------------------------------------------
LEMMA InitIInv == Init => IInv
<1> SUFFICES ASSUME Init
             PROVE  IInv
  OBVIOUS
<1>1. TypeOK
  <2>1. <<>> \in Seq(Prompts)
    OBVIOUS
  <2> QED
    BY <2>1 DEF Init, TypeOK
<1>4. HandedOnlyWhenResolved /\ WaitsOnlyWhenEmpty
  BY DEF Init, HandedOnlyWhenResolved, WaitsOnlyWhenEmpty
<1>2. NothingLost
  BY DEF Init, NothingLost, InFlight
<1>3. DeliveredIsPrefix
  BY DEF Init, DeliveredIsPrefix
<1> QED
  BY <1>1, <1>2, <1>3, <1>4 DEF IInv

LEMMA NextIInv == IInv /\ [Next]_vars => IInv'
<1> SUFFICES ASSUME IInv, [Next]_vars
             PROVE  IInv'
  OBVIOUS
<1> USE PromptsAssumption DEF IInv, HandedOnlyWhenResolved, InFlight
<1>1. CASE NextEnds
  BY <1>1 DEF NextEnds, TypeOK, WaitsOnlyWhenEmpty, NothingLost,
              DeliveredIsPrefix
<1>2. CASE NextShifts
  <2>1. handed = Null /\ InFlight = <<>>
    BY <1>2 DEF NextShifts
  <2>2. pushed = delivered \o queue
    BY <1>2, <2>1 DEF NextShifts, NothingLost, TypeOK
  <2>3. TypeOK'
    BY <1>2 DEF NextShifts, TypeOK
  <2>4. NothingLost' /\ DeliveredIsPrefix'
    BY <1>2, <2>1, <2>2, PrefixByHead DEF NextShifts, TypeOK, NothingLost,
       DeliveredIsPrefix
  <2>5. WaitsOnlyWhenEmpty' /\ HandedOnlyWhenResolved'
    BY <1>2, <2>1 DEF NextShifts, WaitsOnlyWhenEmpty
  <2> QED
    BY <2>3, <2>4, <2>5
<1>3. CASE NextWaits
  BY <1>3 DEF NextWaits, TypeOK, WaitsOnlyWhenEmpty, NothingLost,
              DeliveredIsPrefix
<1>4. CASE NextResumes
  <2>1. CASE done \/ handed = Null
    BY <1>4, <2>1 DEF NextResumes, TypeOK, WaitsOnlyWhenEmpty, NothingLost,
                      DeliveredIsPrefix
  <2>2. CASE ~done /\ handed # Null
    <3> DEFINE rest == <<handed>> \o queue
    <3>1. handed \in Prompts /\ rest \in Seq(Prompts) /\ rest # <<>>
          /\ Head(rest) = handed /\ Tail(rest) = queue
      BY <2>2 DEF TypeOK
    <3>2. pushed = delivered \o rest
      <4>1. <<handed>> \in Seq(Prompts) /\ delivered \in Seq(Prompts)
            /\ queue \in Seq(Prompts)
        BY <2>2 DEF TypeOK
      <4>2. pushed = (delivered \o <<handed>>) \o queue
        BY <2>2 DEF NothingLost
      <4> QED
        BY <4>1, <4>2, ConcatAssociative
    <3>3. TypeOK'
      BY <1>4, <2>2, <3>1 DEF NextResumes, TypeOK
    <3>4. NothingLost' /\ DeliveredIsPrefix'
      <4>1. /\ delivered' = Append(delivered, Head(rest))
            /\ queue' = Tail(rest)
            /\ InFlight' = <<>>
            /\ pushed' = pushed
            /\ delivered \in Seq(Prompts) /\ pushed \in Seq(Prompts)
        BY <1>4, <2>2, <3>1 DEF NextResumes, TypeOK
      <4> HIDE DEF rest
      <4>2. /\ pushed = Append(delivered, Head(rest)) \o Tail(rest)
            /\ Append(delivered, Head(rest)) \in Seq(Prompts)
            /\ Len(Append(delivered, Head(rest))) <= Len(pushed)
            /\ \A i \in 1..Len(Append(delivered, Head(rest))) :
                 Append(delivered, Head(rest))[i] = pushed[i]
        BY <3>1, <3>2, <4>1, PrefixByHead
      <4>3. delivered' \o <<>> = delivered'
        BY <4>1, <4>2, ConcatEmptySeq
      <4>4. NothingLost'
        BY <4>1, <4>2, <4>3 DEF NothingLost
      <4>5. DeliveredIsPrefix'
        BY <4>1, <4>2 DEF DeliveredIsPrefix
      <4> QED
        BY <4>4, <4>5
    <3>5. WaitsOnlyWhenEmpty' /\ HandedOnlyWhenResolved'
      BY <1>4, <2>2 DEF NextResumes, WaitsOnlyWhenEmpty
    <3> QED
      BY <3>3, <3>4, <3>5
  <2> QED
    BY <2>1, <2>2
<1>5. CASE Return
  BY <1>5 DEF Return, TypeOK, WaitsOnlyWhenEmpty, NothingLost,
              DeliveredIsPrefix
<1>6. CASE Close
  BY <1>6 DEF Close, TypeOK, WaitsOnlyWhenEmpty, NothingLost,
              DeliveredIsPrefix
<1>7. ASSUME NEW p \in Prompts, Push(p)
      PROVE  IInv'
  <2>1. TypeOK' /\ HandedOnlyWhenResolved'
    <3>1. pushed \in Seq(Prompts) /\ queue \in Seq(Prompts)
      BY DEF TypeOK
    <3>2. Append(pushed, p) \in Seq(Prompts) /\ Append(queue, p) \in Seq(Prompts)
      BY <3>1, AppendProperties
    <3>3. CASE reader = "waiting"
      BY <1>7, <3>2, <3>3 DEF Push, TypeOK
    <3>4. CASE reader # "waiting"
      BY <1>7, <3>2, <3>4 DEF Push, TypeOK
    <3> QED
      BY <3>3, <3>4
  <2>2. DeliveredIsPrefix'
    BY <1>7, PrefixOfAppend DEF Push, TypeOK, DeliveredIsPrefix
  <2>3. WaitsOnlyWhenEmpty'
    BY <1>7 DEF Push, WaitsOnlyWhenEmpty
  <2>4. NothingLost'
    <3>1. CASE reader = "waiting"
      BY <1>7, <3>1 DEF Push, TypeOK, NothingLost, WaitsOnlyWhenEmpty
    <3>2. CASE reader # "waiting"
      <4> SUFFICES ASSUME ~done
                   PROVE  pushed' = delivered \o InFlight \o queue'
        BY <1>7, <3>2 DEF Push, NothingLost
      <4>1. pushed = delivered \o InFlight \o queue
        BY DEF NothingLost
      <4>2. delivered \o InFlight \in Seq(Prompts)
        BY DEF TypeOK
      <4> QED
        <5> DEFINE before == delivered \o InFlight
        <5>1. queue \in Seq(Prompts) /\ pushed \in Seq(Prompts)
              /\ <<p>> \in Seq(Prompts) /\ before \in Seq(Prompts)
          BY <4>2, <1>7 DEF TypeOK
        <5>2. pushed' = pushed \o <<p>> /\ queue' = queue \o <<p>>
          BY <1>7, <3>2, <5>1, AppendIsConcat DEF Push
        <5>3. pushed = before \o queue /\ InFlight' = InFlight
          BY <4>1, <1>7, <3>2 DEF Push
        <5> HIDE DEF before
        <5>4. pushed' = before \o queue'
          BY <5>1, <5>2, <5>3, ConcatAssociative
        <5> QED
          BY <5>4, <5>3, <1>7 DEF Push, before
    <3> QED
      BY <3>1, <3>2
  <2> QED
    BY <2>1, <2>2, <2>3, <2>4
<1>8. CASE UNCHANGED vars
  BY <1>8 DEF vars, TypeOK, WaitsOnlyWhenEmpty, NothingLost,
              DeliveredIsPrefix
<1> QED
  BY <1>1, <1>2, <1>3, <1>4, <1>5, <1>6, <1>7, <1>8 DEF Next, Reader

(* The inductive invariant holds in every reachable state. *)
LEMMA Invariance == Spec => []IInv
  BY InitIInv, NextIInv, PTL DEF Spec

(* Every variable of the bridge always holds a value of its kind. *)
THEOREM TypeCorrect == Spec => []TypeOK
<1>1. IInv => TypeOK
  BY DEF IInv
<1> QED
  BY <1>1, Invariance, PTL

(* However many turns push and however the reader is scheduled, an open    *)
(* bridge loses, repeats and reorders nothing.                             *)
THEOREM NoPromptLost == Spec => []NothingLost
<1>1. IInv => NothingLost
  BY DEF IInv
<1> QED
  BY <1>1, Invariance, PTL

(* next() never sleeps on a non-empty buffer. *)
THEOREM NoLostWakeUp == Spec => []WaitsOnlyWhenEmpty
<1>1. IInv => WaitsOnlyWhenEmpty
  BY DEF IInv
<1> QED
  BY <1>1, Invariance, PTL

-----------------------------------------------------------------------------
(* Every step of the bridge is a step of the abstract stream, or none.     *)
LEMMA StepRefines == IInv /\ [Next]_vars => [Stream!PNext]_(Stream!pvars)
<1> SUFFICES ASSUME IInv, [Next]_vars
             PROVE  [Stream!PNext]_(Stream!pvars)
  OBVIOUS
<1> USE DEF Stream!pvars
<1>1. CASE NextEnds \/ NextWaits \/ UNCHANGED vars
  BY <1>1 DEF NextEnds, NextWaits, vars
<1>2. CASE NextShifts
  <2>1. pushed = delivered \o queue
    BY <1>2 DEF NextShifts, IInv, NothingLost, TypeOK, InFlight,
                HandedOnlyWhenResolved
  <2>2. Stream!Deliver
    BY <1>2, <2>1, PrefixByHead DEF NextShifts, IInv, TypeOK, Stream!Deliver
  <2> QED
    BY <2>2 DEF Stream!PNext
<1>3. CASE NextResumes
  <2>1. CASE done \/ handed = Null
    BY <1>3, <2>1 DEF NextResumes
  <2>2. CASE ~done /\ handed # Null
    <3> DEFINE rest == <<handed>> \o queue
    <3>1. rest \in Seq(Prompts) /\ rest # <<>> /\ Head(rest) = handed
      BY <2>2 DEF IInv, TypeOK
    <3>2. pushed = delivered \o rest
      <4>1. <<handed>> \in Seq(Prompts) /\ delivered \in Seq(Prompts)
            /\ queue \in Seq(Prompts)
        BY <2>2 DEF IInv, TypeOK
      <4>2. pushed = (delivered \o <<handed>>) \o queue
        BY <2>2 DEF IInv, NothingLost, InFlight
      <4> QED
        BY <4>1, <4>2, ConcatAssociative
    <3> HIDE DEF rest
    <3>3. Stream!Deliver
      BY <1>3, <2>2, <3>1, <3>2, PrefixByHead
         DEF NextResumes, IInv, TypeOK, Stream!Deliver
    <3> QED
      BY <3>3 DEF Stream!PNext
  <2> QED
    BY <2>1, <2>2
<1>4. CASE Return \/ Close
  BY <1>4 DEF Return, Close, Stream!Shut, Stream!PNext
<1>5. ASSUME NEW p \in Prompts, Push(p)
      PROVE  Stream!PNext
  BY <1>5 DEF Push, Stream!Offer, Stream!PNext
<1> QED
  BY <1>1, <1>2, <1>3, <1>4, <1>5 DEF Next, Reader

(* The bridge implements the FIFO prompt stream. *)
THEOREM BridgeIsAStream == Spec => ImplementsStream
<1>1. Init => Stream!PInit
  BY DEF Init, Stream!PInit
<1> QED
  BY <1>1, Invariance, StepRefines, PTL
     DEF Spec, ImplementsStream, Stream!PSpec
=============================================================================
