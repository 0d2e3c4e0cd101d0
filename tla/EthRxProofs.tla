---------------------------- MODULE EthRxProofs ----------------------------
(***************************************************************************)
(* Proofs about the receive ring, for every number of descriptors, every   *)
(* number of frames and every mixture of the kinds of frame.               *)
(***************************************************************************)
EXTENDS EthRx, TLAPS

(* The invariant.                                                          *)

LEMMA OldestIdx == TypeOK => Oldest \in Idx
  BY NxtIdx DEF TypeOK, Oldest

(* What the invariant says of the descriptor the DMA stands on ...         *)
LEMMA DmaSide ==
  ASSUME Inv
  PROVE  /\ filled - taken \in 0 .. Num
         /\ rdes0[dma_cur].own => filled - taken = Dist(Oldest, dma_cur)
         /\ ~rdes0[dma_cur].own => filled - taken = Num
<1>1. dma_cur \in Idx /\ Oldest \in Idx /\ filled \in Nat /\ taken \in Nat
  BY OldestIdx DEF Inv, TypeOK
<1>2. Dist(Oldest, dma_cur) \in 0 .. Num - 1
  BY <1>1, DistBound
<1>3. ~rdes0[dma_cur].own <=> (Oldest = dma_cur /\ filled # taken)
  BY <1>1, <1>2 DEF Inv, RingInv, Closed, Stretch
<1>4. QED
  BY <1>1, <1>2, <1>3, DistBound, NumAssumption DEF Inv, RingInv

(* ... and of the one eth_receive has to look at.                          *)
LEMMA CpuSide ==
  ASSUME Inv, pc # "advance"
  PROVE  ~rdes0[rx_descriptor_ptr].own <=> filled # taken
<1>1. dma_cur \in Idx /\ Oldest \in Idx /\ filled \in Nat /\ taken \in Nat
      /\ Oldest = rx_descriptor_ptr
  BY OldestIdx DEF Inv, TypeOK, Oldest
<1>2. Dist(Oldest, Oldest) = 0
  BY <1>1, DistBound
<1>3. Dist(Oldest, dma_cur) \in 0 .. Num - 1 /\ (Dist(Oldest, dma_cur) = 0 <=> Oldest = dma_cur)
  BY <1>1, DistBound
<1>4. QED
  BY <1>1, <1>2, <1>3, NumAssumption DEF Inv, RingInv, Closed, Stretch

LEMMA InitInv == Init => Inv
<1> SUFFICES ASSUME Init PROVE Inv
  OBVIOUS
<1> USE NumAssumption, RxAssumption
<1>1. TypeOK
  BY DEF Init, TypeOK, Idx, OwnedByDma, Status, Frame, NoFrame
<1>2. Oldest = 0 /\ Closed = {} /\ 0 \in Idx
  BY DEF Init, Oldest, Closed, OwnedByDma, Idx
<1>4. RingInv
  BY <1>2 DEF Init, RingInv, Stretch, Dist, Idx
<1>5. FillingsInv
  BY <1>2 DEF Init, FillingsInv, NoFrame
<1>6. QED
  BY <1>1, <1>4, <1>5 DEF Inv

LEMMA TypeStep == TypeOK /\ [Next]_vars => TypeOK'
<1> SUFFICES ASSUME TypeOK, [Next]_vars PROVE TypeOK'
  OBVIOUS
<1> USE NumAssumption, RxAssumption, NxtIdx DEF TypeOK, cpuVars, dmaVars
<1>1. ASSUME NEW kind \in Kinds, Arrive(kind) PROVE TypeOK'
  BY <1>1 DEF Arrive, Frame, NoFrame
<1>2. CASE DmaWrite
  <2>1. rx_buff' \in [Idx -> Nat]
    BY <1>2 DEF DmaWrite
  <2>2. frame' \in Frame
    BY <1>2 DEF DmaWrite, Frame
  <2>3. QED
    BY <1>2, <2>1, <2>2 DEF DmaWrite
<1>3. CASE DmaClose
  <2>1. rdes0' \in [Idx -> Status]
    BY <1>3 DEF DmaClose, Status, Frame
  <2>2. frame' \in Frame
    BY <1>3 DEF DmaClose, Frame, NoFrame
  <2>3. QED
    BY <1>3, <2>1, <2>2 DEF DmaClose
<1>4. CASE DmaMiss
  BY <1>4 DEF DmaMiss, Frame, NoFrame
<1>5. CASE ReceiveTest
  BY <1>5 DEF ReceiveTest
<1>6. CASE ReceiveNothing
  BY <1>6 DEF ReceiveNothing
<1>7. CASE ReceiveCopy
  BY <1>7 DEF ReceiveCopy, Status
<1>8. CASE ReceiveRelease
  BY <1>8 DEF ReceiveRelease, OwnedByDma, Status
<1>9. CASE ReceiveAdvance
  BY <1>9 DEF ReceiveAdvance
<1>10. CASE UNCHANGED vars
  BY <1>10 DEF vars
<1>11. QED
  BY <1>1, <1>2, <1>3, <1>4, <1>5, <1>6, <1>7, <1>8, <1>9, <1>10
  DEF Next, Dma, Receive

(* What the DMA's steps do to the invariant.                               *)
LEMMA WriteStep ==
  ASSUME Inv, TypeOK', DmaWrite
  PROVE  RingInv' /\ FillingsInv'
<1> USE DEF DmaWrite, cpuVars
<1>1. UNCHANGED <<Oldest, Closed, dma_cur, filled, taken>>
  BY DEF Oldest, Closed
<1>2. RingInv'
  BY <1>1 DEF Inv, RingInv, Stretch
<1>3. dma_cur \notin Closed /\ dma_cur \in Idx /\ rx_buff \in [Idx -> Nat]
  BY DEF Closed, Inv, TypeOK
<1>4. \A i \in Closed : rx_buff'[i] = rx_buff[i]
  BY <1>3 DEF Closed
<1>5. rx_buff'[dma_cur] = filled + 1
  BY <1>3
<1>6. FillingsInv'
  BY <1>1, <1>4, <1>5 DEF Inv, FillingsInv
<1>7. QED
  BY <1>2, <1>6

LEMMA CloseStep ==
  ASSUME Inv, TypeOK', DmaClose
  PROVE  RingInv' /\ FillingsInv'
<1>1. /\ dma_cur \in Idx /\ Oldest \in Idx /\ filled \in Nat /\ taken \in Nat
      /\ rdes0 \in [Idx -> Status]
  BY OldestIdx DEF Inv, TypeOK
<1>2. /\ rdes0[dma_cur].own /\ rx_buff[dma_cur] = filled + 1
      /\ dma_cur \notin Closed
  BY DEF DmaClose, Inv, FillingsInv, Closed
<1>3. filled - taken = Dist(Oldest, dma_cur)
  BY <1>2, DmaSide
<1>4. ~(Oldest = dma_cur /\ filled # taken)
  BY <1>1, <1>3, DistBound
<1>5. /\ UNCHANGED <<Oldest, taken, rx_buff, pc, recv_data, rx_descriptor_ptr>>
      /\ dma_cur' = Nxt(dma_cur) /\ filled' = filled + 1 /\ ~frame'.written
  BY DEF DmaClose, cpuVars, Oldest, NoFrame
<1>6. Closed' = Closed \cup {dma_cur}
  BY <1>1 DEF DmaClose, Closed
<1>7. filled' # taken' /\ Dist(Oldest, dma_cur) \in 0 .. Num - 1
  BY <1>1, <1>3, <1>5, DistBound
<1>8. Closed' = Stretch(Oldest, dma_cur, filled # taken) \cup {dma_cur}
  BY <1>6 DEF Inv, RingInv
<1>9. Closed' = Stretch(Oldest, Nxt(dma_cur), TRUE)
  BY <1>1, <1>4, <1>8, StretchGrows
<1>10. filled' - taken' = IF Oldest = Nxt(dma_cur) THEN Num
                          ELSE Dist(Oldest, Nxt(dma_cur))
  BY <1>1, <1>3, <1>5, DistNxtEnd, NumAssumption
<1>11. RingInv'
  BY <1>5, <1>7, <1>9, <1>10 DEF RingInv, Stretch
<1>12. \A i \in Closed' : rx_buff'[i] = taken' + 1 + Dist(Oldest', i)
  BY <1>1, <1>2, <1>3, <1>5, <1>6 DEF Inv, FillingsInv
<1>13. \A i \in Idx : ~rdes0[i].own => ~rdes0'[i].own
  BY <1>1 DEF DmaClose
<1>14. FillingsInv'
  BY <1>5, <1>12, <1>13 DEF Inv, FillingsInv, TypeOK
<1>15. QED
  BY <1>11, <1>14

(* What eth_receive's steps do to it.                                      *)
LEMMA ReleaseStep ==
  ASSUME Inv, TypeOK', ReceiveRelease
  PROVE  RingInv' /\ FillingsInv'
<1> DEFINE ptr == rx_descriptor_ptr
<1>1. /\ dma_cur \in Idx /\ ptr \in Idx /\ filled \in Nat /\ taken \in Nat
      /\ rdes0 \in [Idx -> Status] /\ Nxt(ptr) \in Idx
  BY NxtIdx DEF Inv, TypeOK
<1>2. Oldest = ptr /\ Oldest' = Nxt(ptr) /\ pc = "release" /\ pc' = "advance"
  BY DEF ReceiveRelease, Oldest
<1>3. /\ UNCHANGED <<rx_buff, dma_cur, frame, filled, recv_data, rx_descriptor_ptr>>
      /\ taken' = taken + 1
  BY DEF ReceiveRelease, dmaVars
<1>4. ~rdes0[ptr].own /\ recv_data.num = taken + 1 /\ filled # taken
  BY <1>2, CpuSide DEF Inv, FillingsInv
<1>5. Closed' = Closed \ {ptr}
  BY <1>1 DEF ReceiveRelease, Closed, OwnedByDma
<1>6. filled - taken = IF ptr = dma_cur THEN Num ELSE Dist(ptr, dma_cur)
  BY <1>2, <1>4 DEF Inv, RingInv
<1>7. filled' - taken' = IF Nxt(ptr) = dma_cur THEN 0 ELSE Dist(Nxt(ptr), dma_cur)
  BY <1>1, <1>3, <1>6, DistNxtStart, DistBound, NumAssumption
<1>8. Closed' = Stretch(ptr, dma_cur, filled # taken) \ {ptr}
  BY <1>2, <1>5 DEF Inv, RingInv
<1>9. filled' # taken' => Nxt(ptr) # dma_cur
  BY <1>1, <1>3, <1>7
<1>10. Closed' = Stretch(Nxt(ptr), dma_cur, filled' # taken')
  BY <1>1, <1>4, <1>8, <1>9, StretchShrinks
<1>11. RingInv'
  BY <1>1, <1>2, <1>3, <1>7, <1>10 DEF RingInv
<1>12. \A i \in Closed' : rx_buff'[i] = taken' + 1 + Dist(Oldest', i)
  <2> SUFFICES ASSUME NEW i \in Closed'
               PROVE  rx_buff'[i] = taken' + 1 + Dist(Oldest', i)
    OBVIOUS
  <2>1. i \in Closed /\ i # ptr /\ i \in Idx
    BY <1>5 DEF Closed
  <2>2. rx_buff[i] = taken + 1 + Dist(ptr, i)
    BY <1>2, <2>1 DEF Inv, FillingsInv
  <2>3. Dist(Nxt(ptr), i) = Dist(ptr, i) - 1 /\ Dist(ptr, i) \in 0 .. Num - 1
    BY <1>1, <2>1, DistNxtStart, DistBound
  <2>4. QED
    BY <1>1, <1>2, <1>3, <2>2, <2>3
<1>13. frame'.written => rdes0'[dma_cur'].own /\ rx_buff'[dma_cur'] = filled' + 1
  BY <1>1, <1>3 DEF Inv, FillingsInv, ReceiveRelease, OwnedByDma
<1>14. FillingsInv'
  BY <1>2, <1>3, <1>4, <1>12, <1>13 DEF FillingsInv
<1>15. QED
  BY <1>11, <1>14

LEMMA InvStep == Inv /\ [Next]_vars => Inv'
<1> SUFFICES ASSUME Inv, [Next]_vars PROVE Inv'
  OBVIOUS
<1> SUFFICES RingInv' /\ FillingsInv'
  BY TypeStep DEF Inv
<1>a. TypeOK /\ RingInv /\ FillingsInv /\ TypeOK'
  BY TypeStep DEF Inv
<1> USE DEF cpuVars, dmaVars
<1>1. ASSUME NEW kind \in Kinds, Arrive(kind) PROVE RingInv' /\ FillingsInv'
  <2>1. UNCHANGED <<Oldest, Closed, rdes0, rx_buff, dma_cur, filled, taken>>
    BY <1>1 DEF Arrive, Oldest, Closed
  <2>2. UNCHANGED <<pc, recv_data, rx_descriptor_ptr>> /\ ~frame'.written
    BY <1>1 DEF Arrive, NoFrame
  <2>3. QED
    BY <1>a, <2>1, <2>2 DEF RingInv, FillingsInv, Stretch
<1>2. CASE DmaWrite
  BY <1>a, <1>2, WriteStep
<1>3. CASE DmaClose
  BY <1>a, <1>3, CloseStep
<1>4. CASE DmaMiss
  <2>1. UNCHANGED <<Oldest, Closed, rdes0, rx_buff, dma_cur, filled, taken>>
    BY <1>4 DEF DmaMiss, Oldest, Closed
  <2>2. UNCHANGED <<pc, recv_data, rx_descriptor_ptr>> /\ ~frame'.written
    BY <1>4 DEF DmaMiss, NoFrame
  <2>3. QED
    BY <1>a, <2>1, <2>2 DEF RingInv, FillingsInv, Stretch
<1>5. CASE ReceiveTest
  <2>1. UNCHANGED <<Oldest, Closed, rdes0, rx_buff, dma_cur, frame, filled,
                    taken, rx_descriptor_ptr>>
    BY <1>5 DEF ReceiveTest, Oldest, Closed
  <2>2. pc' = "copy" /\ ~rdes0[rx_descriptor_ptr].own
    BY <1>5 DEF ReceiveTest, Takeable
  <2>3. QED
    BY <1>a, <2>1, <2>2 DEF RingInv, FillingsInv, Stretch
<1>6. CASE ReceiveNothing
  <2>1. UNCHANGED <<Oldest, Closed, rdes0, rx_buff, dma_cur, frame, filled,
                    taken, rx_descriptor_ptr, pc, recv_data>>
    BY <1>6 DEF ReceiveNothing, Oldest, Closed
  <2>2. QED
    BY <1>a, <2>1 DEF RingInv, FillingsInv, Stretch
<1>7. CASE ReceiveCopy
  <2>1. UNCHANGED <<Oldest, Closed, rdes0, rx_buff, dma_cur, frame, filled,
                    taken, rx_descriptor_ptr>>
    BY <1>7 DEF ReceiveCopy, Oldest, Closed
  <2>2. /\ pc = "copy" /\ pc' = "release" /\ rx_descriptor_ptr \in Idx
        /\ taken \in Nat
    BY <1>a, <1>7 DEF ReceiveCopy, TypeOK
  <2>3. rx_descriptor_ptr \in Closed /\ Oldest = rx_descriptor_ptr
    BY <1>a, <2>2 DEF FillingsInv, Closed, Oldest
  <2>4. rx_buff[rx_descriptor_ptr] = taken + 1
    BY <1>a, <2>2, <2>3, DistBound DEF FillingsInv
  <2>5. recv_data'.num = taken + 1
    BY <1>7, <2>4 DEF ReceiveCopy
  <2>6. QED
    BY <1>a, <2>1, <2>2, <2>5 DEF RingInv, FillingsInv, Stretch
<1>8. CASE ReceiveRelease
  BY <1>a, <1>8, ReleaseStep
<1>9. CASE ReceiveAdvance
  <2>1. /\ UNCHANGED <<Closed, rdes0, rx_buff, dma_cur, frame, filled, taken>>
        /\ pc' = "test"
    BY <1>9 DEF ReceiveAdvance, Closed
  <2>2. UNCHANGED Oldest
    BY <1>9 DEF ReceiveAdvance, Oldest
  <2>3. QED
    BY <1>a, <2>1, <2>2 DEF RingInv, FillingsInv, Stretch
<1>10. CASE UNCHANGED vars
  <2>1. UNCHANGED <<Oldest, Closed>>
    BY <1>10 DEF vars, Oldest, Closed
  <2>2. QED
    BY <1>10, <1>a, <2>1 DEF vars, RingInv, FillingsInv, Stretch
<1>11. QED
  BY <1>1, <1>2, <1>3, <1>4, <1>5, <1>6, <1>7, <1>8, <1>9, <1>10
  DEF Next, Dma, Receive

-----------------------------------------------------------------------------
(* The theorems.                                                           *)

(* Every behaviour of the receive half keeps the types.                    *)
THEOREM RxTypeCorrect == Spec => []TypeOK
<1>1. Init => TypeOK
  BY InitInv DEF Inv
<1>2. QED
  BY <1>1, TypeStep, PTL DEF Spec

(* The inductive invariant holds: eth_receive and the DMA stay in step,    *)
(* each behind its own pointer, and every buffer that waits holds the      *)
(* filling its place calls for.                                            *)
THEOREM RxInvariant == Spec => []Inv
  BY InitInv, InvStep, PTL DEF Spec

(* The closed descriptors are one unbroken stretch between the two         *)
(* pointers.                                                               *)
THEOREM RxRing == Spec => []RingInv
<1>1. Inv => RingInv
  BY DEF Inv
<1>2. QED
  BY <1>1, RxInvariant, PTL

(* The buffers between the two pointers hold the fillings whose turn it is.*)
THEOREM RxFillings == Spec => []FillingsInv
<1>1. Inv => FillingsInv
  BY DEF Inv
<1>2. QED
  BY <1>1, RxInvariant, PTL

(* While eth_receive copies a buffer, the DMA leaves it alone.             *)
THEOREM RxCopyStable == Spec => CopyStable
<1> DEFINE Stable == (pc = "copy" \/ pc = "release") =>
                        rx_buff'[rx_descriptor_ptr] = rx_buff[rx_descriptor_ptr]
<1>1. ASSUME Inv, [Next]_vars PROVE [Stable]_vars
  <2>1. SUFFICES ASSUME Next, pc = "copy" \/ pc = "release"
                 PROVE  rx_buff'[rx_descriptor_ptr] = rx_buff[rx_descriptor_ptr]
    BY <1>1
  <2>2. ~rdes0[rx_descriptor_ptr].own
    BY <1>1, <2>1 DEF Inv, FillingsInv
  <2>3. CASE DmaWrite
    BY <1>1, <2>2, <2>3 DEF DmaWrite, Inv, TypeOK
  <2>4. CASE ~DmaWrite
    BY <2>1, <2>4 DEF Next, Dma, Receive, Arrive, DmaClose, DmaMiss, ReceiveTest,
       ReceiveNothing, ReceiveCopy, ReceiveRelease, ReceiveAdvance, dmaVars
  <2>5. QED
    BY <2>3, <2>4
<1>2. QED
  BY <1>1, RxInvariant, PTL DEF Spec, CopyStable

(* The n-th descriptor handed back held the n-th filling, and that is what *)
(* was copied.                                                             *)
THEOREM RxInOrder == Spec => InOrder
<1> DEFINE Ordered == taken' # taken => taken' = taken + 1 /\ recv_data.num = taken'
<1>1. ASSUME Inv, [Next]_vars PROVE [Ordered]_vars
  <2>1. SUFFICES ASSUME Next, taken' # taken
                 PROVE  taken' = taken + 1 /\ recv_data.num = taken'
    BY <1>1
  <2>2. ReceiveRelease
    BY <2>1 DEF Next, Dma, Receive, Arrive, DmaWrite, DmaClose, DmaMiss,
       ReceiveTest, ReceiveNothing, ReceiveCopy, ReceiveAdvance, cpuVars
  <2>3. QED
    BY <1>1, <2>2 DEF ReceiveRelease, Inv, FillingsInv
<1>2. QED
  BY <1>1, RxInvariant, PTL DEF Spec, InOrder

(* A frame is lost only when every buffer waits for eth_receive.           *)
THEOREM RxMissOnlyWhenFull == Spec => MissOnlyWhenFull
<1> DEFINE Full == missed' # missed => filled - taken = Num
<1>1. ASSUME Inv, [Next]_vars PROVE [Full]_vars
  <2>1. SUFFICES ASSUME Next, missed' # missed PROVE filled - taken = Num
    BY <1>1
  <2>2. DmaMiss
    BY <2>1 DEF Next, Dma, Receive, Arrive, DmaWrite, DmaClose, ReceiveTest,
       ReceiveNothing, ReceiveCopy, ReceiveRelease, ReceiveAdvance, cpuVars,
       dmaVars
  <2>3. QED
    BY <1>1, <2>2, DmaSide DEF DmaMiss
<1>2. QED
  BY <1>1, RxInvariant, PTL DEF Spec, MissOnlyWhenFull

(* Once eth_receive stands on a descriptor with the error bit, or on one   *)
(* in the middle of a frame, it stands there for good.                     *)
THEOREM RxWedgeIsPermanent == Spec => WedgeIsPermanent
<1>1. ASSUME Inv, [Next]_vars PROVE [Wedged => Wedged']_vars
  <2>1. SUFFICES ASSUME Next, Wedged PROVE Wedged'
    BY <1>1
  <2>2. /\ pc = "test" /\ rx_descriptor_ptr \in Idx /\ dma_cur \in Idx
        /\ rdes0 \in [Idx -> Status]
        /\ ~rdes0[rx_descriptor_ptr].own /\ ~Takeable(rdes0[rx_descriptor_ptr])
    BY <1>1, <2>1 DEF Wedged, Inv, TypeOK
  <2>3. UNCHANGED <<rx_descriptor_ptr, pc>>
    BY <2>1, <2>2 DEF Next, Dma, Receive, Arrive, DmaWrite, DmaClose, DmaMiss,
       ReceiveTest, ReceiveNothing, ReceiveCopy, ReceiveRelease,
       ReceiveAdvance, cpuVars
  <2>4. rdes0'[rx_descriptor_ptr] = rdes0[rx_descriptor_ptr]
    <3>1. CASE DmaClose
      <4>1. rdes0[dma_cur].own
        BY <1>1, <3>1 DEF DmaClose, Inv, FillingsInv
      <4>2. QED
        BY <2>2, <3>1, <4>1 DEF DmaClose
    <3>2. CASE ~DmaClose
      BY <2>1, <2>2, <3>2 DEF Next, Dma, Receive, Arrive, DmaWrite, DmaMiss,
         ReceiveTest, ReceiveNothing, ReceiveCopy, ReceiveRelease,
         ReceiveAdvance
    <3>3. QED
      BY <3>1, <3>2
  <2>5. QED
    BY <2>2, <2>3, <2>4 DEF Wedged, Takeable, LsBit
<1>2. QED
  BY <1>1, RxInvariant, PTL DEF Spec, WedgeIsPermanent

-----------------------------------------------------------------------------
(* The receive half implements the queue.                                  *)

(* The filling copied last, and how many wait.                             *)
LastCopied == taken + Copied
Remaining == filled - LastCopied

(* What waits in the ring is the run of fillings after the last one copied.*)
WaitingInv ==
  /\ LastCopied \in Nat
  /\ Remaining \in 0 .. Num
  /\ Waiting = Run(LastCopied, Remaining)

LEMMA WaitingIsRun == Inv => WaitingInv
<1> SUFFICES ASSUME Inv PROVE WaitingInv
  OBVIOUS
<1>1. /\ dma_cur \in Idx /\ Oldest \in Idx /\ filled \in Nat /\ taken \in Nat
      /\ filled - taken \in 0 .. Num
  BY OldestIdx, DmaSide DEF Inv, TypeOK
<1>2. Copied \in {0, 1} /\ (Copied = 1 => filled # taken)
  BY CpuSide DEF Copied, Inv, FillingsInv
<1>3. /\ LastCopied \in Nat /\ Remaining \in 0 .. Num
      /\ Remaining = filled - taken - Copied
  BY <1>1, <1>2, NumAssumption DEF LastCopied, Remaining
<1>4. ASSUME NEW k \in 1 .. filled - taken - Copied
      PROVE  rx_buff[At(Oldest, k - 1 + Copied)] = LastCopied + k
  <2> DEFINE d == k - 1 + Copied
             i == At(Oldest, d)
  <2>1. d \in 0 .. Num - 1 /\ d < filled - taken
    BY <1>1, <1>2, <1>4, NumAssumption
  <2>2. i \in Idx /\ Dist(Oldest, i) = d
    BY <1>1, <2>1, AtProperties
  <2> HIDE DEF i
  <2>3. i \in Stretch(Oldest, dma_cur, filled # taken)
    <3>1. filled # taken
      BY <1>1, <2>1
    <3>2. Oldest # dma_cur => filled - taken = Dist(Oldest, dma_cur)
      BY DEF Inv, RingInv
    <3>3. QED
      BY <2>1, <2>2, <3>1, <3>2 DEF Stretch
  <2>4. rx_buff[i] = taken + 1 + d
    BY <2>2, <2>3 DEF Inv, RingInv, FillingsInv
  <2>5. QED
    BY <1>1, <1>2, <2>4 DEF i, LastCopied
<1>5. Waiting = Run(LastCopied, Remaining)
  BY <1>3, <1>4 DEF Waiting, Run
<1>6. QED
  BY <1>3, <1>5 DEF WaitingInv

(* Each step of the receive half is a step of the queue or leaves it as it *)
(* is: DmaClose puts, ReceiveCopy gets.                                    *)
LEMMA FifoStep ==
  Inv /\ WaitingInv /\ WaitingInv' /\ [Next]_vars => [Fifo!Next]_(Fifo!fifoVars)
<1> SUFFICES ASSUME Inv, WaitingInv, WaitingInv', [Next]_vars
             PROVE  [Fifo!Next]_(Fifo!fifoVars)
  OBVIOUS
<1>1. /\ LastCopied \in Nat /\ Remaining \in 0 .. Num /\ Remaining \in Nat
      /\ Waiting = Run(LastCopied, Remaining)
      /\ filled \in Nat /\ taken \in Nat /\ Copied \in {0, 1}
      /\ LastCopied + Remaining = filled
  BY NumAssumption DEF WaitingInv, Inv, TypeOK, Copied, Remaining
<1>2. /\ LastCopied' \in Nat /\ Remaining' \in 0 .. Num
      /\ Waiting' = Run(LastCopied', Remaining')
      /\ Remaining' = filled' - LastCopied'
  BY DEF WaitingInv, Remaining
<1>3. CASE DmaClose
  <2>1. filled' = filled + 1 /\ UNCHANGED <<LastCopied, recv_data>>
    BY <1>3 DEF DmaClose, cpuVars, LastCopied, Copied
  <2>2. Remaining' = Remaining + 1
    BY <1>1, <1>2, <2>1
  <2>3. Append(Run(LastCopied, Remaining), LastCopied + Remaining + 1)
          = Run(LastCopied, Remaining + 1)
    BY <1>1, RunAppend
  <2>4. Waiting' = Append(Waiting, filled + 1)
    BY <1>1, <1>2, <2>1, <2>2, <2>3
  <2>5. Len(Waiting) < Num
    BY <1>1, <1>2, <2>2, RunSeq, NumAssumption
  <2>6. Fifo!Put
    BY <2>1, <2>4, <2>5 DEF Fifo!Put
  <2>7. QED
    BY <2>6 DEF Fifo!Next
<1>4. CASE ReceiveCopy
  <2>1. /\ UNCHANGED <<filled, taken>> /\ Copied = 0 /\ Copied' = 1
    BY <1>4 DEF ReceiveCopy, dmaVars, Copied
  <2>2. LastCopied' = LastCopied + 1 /\ LastCopied = taken
    BY <1>1, <2>1 DEF LastCopied
  <2>3. Remaining' = Remaining - 1 /\ Remaining \in Nat \ {0}
    BY <1>1, <1>2, <2>1, <2>2
  <2>4. /\ Waiting # << >> /\ Head(Waiting) = LastCopied + 1
        /\ Tail(Waiting) = Run(LastCopied + 1, Remaining - 1)
    BY <1>1, <2>3, RunTail
  <2>5. rx_descriptor_ptr \in Closed /\ Oldest = rx_descriptor_ptr
        /\ Oldest \in Idx
    BY <1>4, OldestIdx DEF ReceiveCopy, Inv, TypeOK, FillingsInv, Closed, Oldest
  <2>6. recv_data'.num = taken + 1
    BY <1>1, <1>4, <2>5, DistBound DEF ReceiveCopy, Inv, FillingsInv
  <2>7. Waiting' = Tail(Waiting) /\ recv_data'.num = Head(Waiting)
    BY <1>2, <2>2, <2>3, <2>4, <2>6
  <2>8. Fifo!Get
    BY <2>1, <2>4, <2>7 DEF Fifo!Get
  <2>9. QED
    BY <2>8 DEF Fifo!Next
<1>5. CASE ~DmaClose /\ ~ReceiveCopy
  <2>1. UNCHANGED <<filled, recv_data>>
    BY <1>5 DEF Next, Dma, Receive, Arrive, DmaWrite, DmaMiss, ReceiveTest,
       ReceiveNothing, ReceiveRelease, ReceiveAdvance, cpuVars, dmaVars, vars
  <2>2. taken' + Copied' = taken + Copied
    BY <1>1, <1>5 DEF Next, Dma, Receive, Arrive, DmaWrite, DmaMiss, ReceiveTest,
       ReceiveNothing, ReceiveRelease, ReceiveAdvance, cpuVars, dmaVars, vars,
       Copied
  <2>3. LastCopied' = LastCopied /\ Remaining' = Remaining
    BY <2>1, <2>2 DEF LastCopied, Remaining
  <2>4. UNCHANGED Fifo!fifoVars
    BY <1>1, <1>2, <2>1, <2>3 DEF Fifo!fifoVars
  <2>5. QED
    BY <2>4
<1>6. QED
  BY <1>3, <1>4, <1>5

(* The receive half implements the bounded first-in first-out queue of     *)
(* FrameFifo: no filling is lost, repeated or reordered.                   *)
THEOREM RxImplementsFifo == Spec => FifoSpec
<1>1. Init => Fifo!Init
  <2> SUFFICES ASSUME Init PROVE Fifo!Init
    OBVIOUS
  <2>1. filled - taken - Copied = 0 /\ filled = 0 /\ recv_data.num = 0
    BY DEF Init, Copied
  <2>2. Waiting = << >>
    BY <2>1 DEF Waiting
  <2>3. QED
    BY <2>1, <2>2 DEF Fifo!Init
<1>2. QED
  BY <1>1, WaitingIsRun, FifoStep, RxInvariant, PTL DEF Spec, FifoSpec, Fifo!Spec
=============================================================================
