---------------------------- MODULE RtPendTqProof ----------------------------
(***************************************************************************)
(* Proofs about RtPendTq, for every size of the ring and every number of   *)
(* calls.                                                                  *)
(***************************************************************************)
EXTENDS RtPendTq, SequenceTheorems, TLAPS

\* The real-time side leaves at most as many calls behind as the ring has slots.
\* rt_pend_call does not see to it: while the handler is between the two stores of
\* INC_CIRCULAR_PTR it accepts more, and overwrites the oldest.
RingSuffices == MaxWaiting <= Size

Waiting == Len(accepted) - Len(ran)

\* The slot of the last call that is over, whatever the handler has done to
\* rt_pend_tail since.
Base ==
  IF handler = "wrap" THEN Size - 1
  ELSE IF handler = "run" THEN IF rt_pend_tail = 0 THEN Size - 1 ELSE rt_pend_tail - 1
  ELSE rt_pend_tail

\* The slot k places after the slot b.
Slot(b, k) == IF b + k < Size THEN b + k ELSE b + k - Size

TypeInv ==
  /\ rt_pend_tq \in [Slots -> Nat]
  /\ rt_pend_head \in Slots
  /\ IF handler = "wrap" THEN rt_pend_tail = Size ELSE rt_pend_tail \in Slots
  /\ handler \in {"idle", "loop", "inc", "wrap", "run"}
  /\ calls \in Nat
  /\ accepted \in Seq(Nat)
  /\ ran \in Seq(Nat)

\* The calls that wait are in the slots after Base up to rt_pend_head, in their
\* order.  While no call is being taken, not all slots can be filled.
RingInv ==
  /\ Waiting \in 0 .. Size
  /\ handler \in {"idle", "loop", "inc"} => Waiting < Size
  /\ handler \in {"inc", "wrap", "run"} => Waiting > 0
  /\ rt_pend_head = Slot(Base, Waiting)
  /\ \A k \in 1 .. Waiting : rt_pend_tq[Slot(Base, k)] = accepted[Len(ran) + k]
  /\ \A i \in 1 .. Len(ran) : ran[i] = accepted[i]

Inv == TypeInv /\ RingInv

-----------------------------------------------------------------------------
\* Where the last call was taken from.
LEMMA BaseIsSlot == TypeInv => Base \in Slots
  BY RtPendTqAssumption DEF TypeInv, Base, Slots

\* The places of a ring.
LEMMA Ring ==
  ASSUME NEW b \in Slots
  PROVE  /\ \A k \in 0 .. Size : Slot(b, k) \in Slots
         /\ \A k \in 0 .. (Size - 1) : IncCircularPtr(Slot(b, k)) = Slot(b, k + 1)
         /\ Slot(b, 0) = b /\ Slot(b, Size) = b
         /\ \A j, k \in 1 .. Size : Slot(b, j) = Slot(b, k) => j = k
         /\ \A k \in 0 .. (Size - 1) : Slot(Slot(b, 1), k) = Slot(b, k + 1)
  BY RtPendTqAssumption DEF Slots, Slot, IncCircularPtr

\* A call that is accepted gets the slot after the last one.
LEMMA CallStep ==
  ASSUME RingSuffices, Inv, RtPendCall
  PROVE  Inv'
<1> DEFINE w == Waiting
           b == Base
<1> USE RtPendTqAssumption DEF Inv, TypeInv
<1>1. /\ calls' = calls + 1 /\ calls' \in Nat
      /\ w < MaxWaiting
      /\ rt_pend_head' = IncCircularPtr(rt_pend_head) /\ rt_pend_head' # rt_pend_tail
      /\ rt_pend_tq' = [rt_pend_tq EXCEPT ![rt_pend_head'] = calls']
      /\ accepted' = Append(accepted, calls')
      /\ UNCHANGED <<rt_pend_tail, handler, ran>>
  BY DEF RtPendCall, Called, Waiting
<1>2. b \in Slots /\ w \in Nat /\ w < Size /\ Base' = b
  BY <1>1, BaseIsSlot DEF RingInv, RingSuffices, Base
<1>3. /\ accepted' \in Seq(Nat)
      /\ Len(accepted') = Len(accepted) + 1
      /\ \A i \in 1 .. Len(accepted) : accepted'[i] = accepted[i]
      /\ accepted'[Len(accepted) + 1] = calls'
  BY <1>1, AppendProperties
<1>4. Waiting' = w + 1 /\ Len(ran) \in Nat /\ Len(accepted) = Len(ran) + w
  BY <1>1, <1>3, LenProperties DEF Waiting
<1> HIDE DEF w, b
<1>5. rt_pend_head' = Slot(b, w + 1) /\ rt_pend_head' \in Slots
  <2>1. rt_pend_head = Slot(b, w)
    BY DEF RingInv, w, b
  <2> QED BY <1>1, <1>2, <2>1, Ring
<1>6. TypeInv'
  BY <1>1, <1>3, <1>5
<1>7. handler \in {"idle", "loop", "inc"} => w + 1 < Size
  <2>1. handler \in {"idle", "loop", "inc"} => b = rt_pend_tail
    BY DEF b, Base
  <2> QED BY <1>1, <1>2, <1>5, <2>1, Ring
<1>8. ASSUME NEW k \in 1 .. (w + 1)
      PROVE  rt_pend_tq'[Slot(b, k)] = accepted'[Len(ran) + k]
  <2>1. CASE k = w + 1
    <3>1. Len(ran) + k = Len(accepted) + 1
      BY <1>2, <1>4, <2>1
    <3> QED BY <1>1, <1>3, <1>5, <2>1, <3>1
  <2>2. CASE k # w + 1
    <3>1. k \in 1 .. w /\ Slot(b, k) # Slot(b, w + 1)
      BY <1>2, <2>2, Ring
    <3>2. rt_pend_tq'[Slot(b, k)] = rt_pend_tq[Slot(b, k)]
      BY <1>1, <1>2, <1>5, <3>1, Ring
    <3>3. rt_pend_tq[Slot(b, k)] = accepted[Len(ran) + k]
      BY <3>1 DEF RingInv, w, b
    <3>4. Len(ran) + k \in 1 .. Len(accepted)
      BY <1>2, <1>4, <3>1
    <3> QED BY <1>3, <3>2, <3>3, <3>4
  <2> QED BY <2>1, <2>2
<1>9. \A i \in 1 .. Len(ran) : ran[i] = accepted'[i]
  BY <1>2, <1>3, <1>4 DEF RingInv
<1>10. w + 1 \in 0 .. Size /\ (handler \in {"inc", "wrap", "run"} => w + 1 > 0)
  BY <1>2
<1>11. RingInv'
  BY <1>1, <1>2, <1>4, <1>5, <1>7, <1>8, <1>9, <1>10 DEF RingInv
<1> QED BY <1>6, <1>11

\* A call that is made is the oldest.
LEMMA RunStep ==
  ASSUME Inv, HandlerRun
  PROVE  Inv'
<1> DEFINE w == Waiting
           b == Base
<1> USE RtPendTqAssumption DEF Inv, TypeInv
<1>1. /\ ran' = Append(ran, rt_pend_tq[rt_pend_tail])
      /\ handler = "run" /\ handler' = "loop"
      /\ UNCHANGED <<rt_pend_tq, rt_pend_head, rt_pend_tail, calls, accepted>>
  BY DEF HandlerRun
<1>2. b \in Slots /\ w \in 1 .. Size /\ rt_pend_tail = Slot(b, 1) /\ Base' = Slot(b, 1)
  <2>1. b \in Slots /\ w \in 1 .. Size
    BY <1>1, BaseIsSlot DEF RingInv
  <2>2. Base' = rt_pend_tail
    BY <1>1 DEF Base
  <2>3. b = IF rt_pend_tail = 0 THEN Size - 1 ELSE rt_pend_tail - 1
    BY <1>1 DEF Base
  <2>4. rt_pend_tail \in 0 .. (Size - 1)
    BY <1>1 DEF Slots
  <2> QED BY <2>1, <2>2, <2>3, <2>4 DEF Slot
<1>3. /\ ran' \in Seq(Nat)
      /\ Len(ran') = Len(ran) + 1
      /\ \A i \in 1 .. Len(ran) : ran'[i] = ran[i]
      /\ ran'[Len(ran) + 1] = rt_pend_tq[rt_pend_tail]
  BY <1>1, AppendProperties
<1>4. Waiting' = w - 1 /\ Len(ran) \in Nat /\ Len(accepted) = Len(ran) + w
  BY <1>1, <1>3, LenProperties DEF Waiting
<1>5. \A k \in 1 .. w : rt_pend_tq[Slot(b, k)] = accepted[Len(ran) + k]
  BY DEF RingInv
<1>6. rt_pend_head = Slot(b, w)
  BY DEF RingInv
<1> HIDE DEF w, b
<1>7. TypeInv'
  BY <1>1, <1>3
<1>8. rt_pend_head' = Slot(Base', Waiting')
  BY <1>1, <1>2, <1>4, <1>6, w - 1 \in 0 .. (Size - 1), w - 1 + 1 = w, Ring
<1>9. ASSUME NEW k \in 1 .. (w - 1)
      PROVE  rt_pend_tq'[Slot(Base', k)] = accepted'[Len(ran') + k]
  <2>1. Slot(Base', k) = Slot(b, k + 1)
    BY <1>2, k \in 0 .. (Size - 1), Ring
  <2>2. k + 1 \in 1 .. w /\ Len(ran') + k = Len(ran) + (k + 1)
    BY <1>2, <1>3, <1>4
  <2> QED BY <1>1, <1>5, <2>1, <2>2
<1>10. \A i \in 1 .. Len(ran') : ran'[i] = accepted'[i]
  <2>1. ran'[Len(ran) + 1] = accepted[Len(ran) + 1]
    BY <1>2, <1>3, <1>5
  <2> QED BY <1>1, <1>3, <1>4, <2>1 DEF RingInv
<1>11. RingInv'
  BY <1>1, <1>2, <1>4, <1>8, <1>9, <1>10 DEF RingInv
<1> QED BY <1>7, <1>11

\* The other steps of the handler leave the calls where they are.
LEMMA HandlerStep ==
  ASSUME Inv, HandlerEnter \/ HandlerTest \/ HandlerInc \/ HandlerWrap
  PROVE  Inv'
<1> USE RtPendTqAssumption DEF Inv, TypeInv
<1>1. UNCHANGED <<rt_pend_tq, rt_pend_head, calls, accepted, ran>>
  BY DEF HandlerEnter, HandlerTest, HandlerInc, HandlerWrap
<1>2. handler' \in {"idle", "loop", "inc", "wrap", "run"}
  BY DEF HandlerEnter, HandlerTest, HandlerInc, HandlerWrap
<1>3. /\ IF handler' = "wrap" THEN rt_pend_tail' = Size ELSE rt_pend_tail' \in Slots
      /\ Base' = Base
  <2>1. CASE HandlerEnter \/ HandlerTest
    BY <2>1 DEF HandlerEnter, HandlerTest, Base
  <2>2. CASE HandlerInc
    <3>1. rt_pend_tail \in 0 .. (Size - 1) /\ rt_pend_tail' = rt_pend_tail + 1
      BY <2>2 DEF HandlerInc, Slots
    <3>2. CASE rt_pend_tail + 1 >= Size
      BY <2>2, <3>1, <3>2 DEF HandlerInc, Base
    <3>3. CASE ~(rt_pend_tail + 1 >= Size)
      BY <2>2, <3>1, <3>3 DEF HandlerInc, Base, Slots
    <3> QED BY <3>2, <3>3
  <2>3. CASE HandlerWrap
    BY <2>3 DEF HandlerWrap, Base, Slots
  <2> QED BY <2>1, <2>2, <2>3
<1>4. Waiting' = Waiting
  BY <1>1 DEF Waiting
<1>5. /\ handler' \in {"idle", "loop", "inc"} => Waiting < Size
      /\ handler' \in {"inc", "wrap", "run"} => Waiting > 0
  <2>1. CASE HandlerTest
    <3>1. Base = rt_pend_tail /\ Base \in Slots /\ Waiting < Size
      BY <2>1, BaseIsSlot DEF HandlerTest, Base, RingInv
    <3>2. Waiting = 0 => rt_pend_head = rt_pend_tail
      BY <3>1, Ring DEF RingInv
    <3> QED BY <2>1, <3>1, <3>2 DEF HandlerTest, RingInv
  <2>2. CASE ~HandlerTest
    BY <2>2 DEF HandlerEnter, HandlerInc, HandlerWrap, RingInv
  <2> QED BY <2>1, <2>2
<1>6. RingInv'
  BY <1>1, <1>3, <1>4, <1>5 DEF RingInv
<1> QED BY <1>1, <1>2, <1>3, <1>6

\* No step breaks the ring.
LEMMA RingStep ==
  ASSUME RingSuffices, Inv, [Next]_vars
  PROVE  Inv'
<1>1. CASE RtPendCall
  BY <1>1, CallStep
<1>2. CASE RtPendRefuse
  BY <1>2 DEF RtPendRefuse, Called, Inv, TypeInv, RingInv, Base, Waiting
<1>3. CASE Handler
  BY <1>3, RunStep, HandlerStep DEF Handler
<1>4. CASE UNCHANGED vars
  BY <1>4 DEF vars, Inv, TypeInv, RingInv, Base, Waiting
<1> QED BY <1>1, <1>2, <1>3, <1>4 DEF Next

LEMMA RingInit == Init => Inv
<1> SUFFICES ASSUME Init PROVE Inv
  OBVIOUS
<1>1. TypeInv
  BY RtPendTqAssumption, EmptySeq DEF Init, TypeInv, Slots
<1>2. Len(accepted) = 0 /\ Len(ran) = 0
  BY EmptySeq DEF Init
<1>3. Waiting = 0 /\ Base = 0
  BY <1>2 DEF Init, Waiting, Base
<1> QED BY <1>1, <1>2, <1>3, RtPendTqAssumption DEF Inv, RingInv, Init, Slot

\* RunsInOrder: wherever rt_pend_call preempts the handler, also between the two
\* stores of INC_CIRCULAR_PTR, the calls it accepts are made in their order, none
\* twice and none lost.
THEOREM CallsRunInOrder == RingSuffices => (Spec => []RunsInOrder)
<1> SUFFICES ASSUME RingSuffices PROVE Spec => []RunsInOrder
  OBVIOUS
<1>1. Inv /\ [Next]_vars => Inv'
  BY RingStep
<1>2. Inv => RunsInOrder
  <2> SUFFICES ASSUME Inv PROVE RunsInOrder
    OBVIOUS
  <2>1. /\ ran \in Seq(Nat) /\ Len(ran) \in Nat
        /\ accepted \in Seq(Nat) /\ Len(ran) <= Len(accepted)
    BY LenProperties, RtPendTqAssumption DEF Inv, TypeInv, RingInv, Waiting
  <2>2. \A i \in 1 .. Len(ran) : accepted[i] \in Nat
    BY <2>1, ElementOfSeq
  <2> DEFINE prefix == SubSeq(accepted, 1, Len(ran))
  <2>3. /\ prefix \in Seq(Nat)
        /\ Len(prefix) = Len(ran)
        /\ \A i \in 1 .. Len(ran) : prefix[i] = accepted[i]
    BY <2>1, <2>2, SubSeqProperties
  <2>4. \A i \in 1 .. Len(ran) : ran[i] = prefix[i]
    BY <2>3 DEF Inv, RingInv
  <2> HIDE DEF prefix
  <2>5. ran = prefix
    BY <2>1, <2>3, <2>4, SeqEqual
  <2> QED BY <2>1, <2>5 DEF RunsInOrder, prefix
<1> QED BY <1>1, <1>2, RingInit, PTL DEF Spec

=============================================================================
