---------------------------- MODULE EthTxProofs ----------------------------
(***************************************************************************)
(* Proofs about the transmit ring, for every number of descriptors and     *)
(* every number of calls.                                                  *)
(***************************************************************************)
EXTENDS EthTx, TLAPS

(* The inductive invariant.                                                *)
IInv == TypeOK /\ RingInv /\ FramesInv /\ NoLostWakeup

-----------------------------------------------------------------------------
(* The invariant.                                                          *)

LEMMA NewestIdx == TypeOK => Newest \in Idx
  BY NxtIdx DEF TypeOK, Newest

(* What the invariant says of the descriptor the DMA stands on ...         *)
LEMMA DmaSide ==
  ASSUME IInv
  PROVE  /\ given - sent \in 0 .. Num
         /\ own[dma_cur] <=> given # sent
<1>1. dma_cur \in Idx /\ Newest \in Idx /\ given \in Nat /\ sent \in Nat
  BY NewestIdx DEF IInv, TypeOK
<1>2. Dist(dma_cur, dma_cur) = 0 /\ Dist(dma_cur, Newest) \in 0 .. Num - 1
      /\ (Dist(dma_cur, Newest) = 0 <=> dma_cur = Newest)
  BY <1>1, DistBound
<1>3. QED
  BY <1>1, <1>2, NumAssumption DEF IInv, RingInv, Owned, Stretch

(* ... and of the one eth_transmit fills next.                             *)
LEMMA CpuSide ==
  ASSUME IInv
  PROVE  IF own[Newest] THEN given - sent = Num
                        ELSE given - sent = Dist(dma_cur, Newest)
<1>1. dma_cur \in Idx /\ Newest \in Idx /\ given \in Nat /\ sent \in Nat
  BY NewestIdx DEF IInv, TypeOK
<1>2. Dist(dma_cur, Newest) \in 0 .. Num - 1
      /\ (Dist(dma_cur, Newest) = 0 <=> dma_cur = Newest)
  BY <1>1, DistBound
<1>3. own[Newest] <=> (dma_cur = Newest /\ given # sent)
  BY <1>1, <1>2 DEF IInv, RingInv, Owned, Stretch
<1>4. QED
  BY <1>1, <1>2, <1>3 DEF IInv, RingInv

LEMMA InitIInv == Init => IInv
<1> SUFFICES ASSUME Init PROVE IInv
  OBVIOUS
<1> USE NumAssumption, TxAssumption
<1>1. TypeOK
  <2>1. own \in [Idx -> BOOLEAN]
    BY DEF Init
  <2>2. tdes1 \in [Idx -> Nat] /\ tx_buff \in [Idx -> Nat]
    BY DEF Init
  <2>3. fifo \in Frame /\ wire \in Frame
    BY DEF Init, Frame, NoFrame
  <2>4. 0 \in Idx /\ 0 \in 0 .. MaxCalls /\ 0 \in Nat
    BY DEF Idx
  <2>5. QED
    BY <2>1, <2>2, <2>3, <2>4 DEF Init, TypeOK
<1>2. Newest = 0 /\ Owned = {} /\ 0 \in Idx
  BY DEF Init, Newest, Owned, Idx
<1>3. RingInv
  BY <1>2 DEF Init, RingInv, Stretch, Dist, Idx
<1>4. FramesInv /\ NoLostWakeup
  BY <1>2 DEF Init, FramesInv, NoLostWakeup
<1>5. QED
  BY <1>1, <1>3, <1>4 DEF IInv

LEMMA TypeStep == TypeOK /\ [Next]_vars => TypeOK'
<1> SUFFICES ASSUME TypeOK, [Next]_vars PROVE TypeOK'
  OBVIOUS
<1> USE NumAssumption, TxAssumption, NxtIdx DEF TypeOK, cpuVars, dmaVars
<1>1. CASE TransmitBegin
  BY <1>1 DEF TransmitBegin
<1>2. CASE TransmitDrop
  BY <1>2 DEF TransmitDrop
<1>3. CASE TransmitCopy
  BY <1>3 DEF TransmitCopy
<1>4. CASE TransmitSize
  BY <1>4 DEF TransmitSize
<1>5. CASE TransmitGive
  BY <1>5 DEF TransmitGive
<1>6. CASE TransmitAck
  BY <1>6 DEF TransmitAck
<1>7. CASE TransmitPoll
  BY <1>7 DEF TransmitPoll
<1>8. CASE TransmitAdvance
  BY <1>8 DEF TransmitAdvance
<1>9. CASE DmaRead
  BY <1>9 DEF DmaRead, Frame
<1>10. CASE DmaClose
  BY <1>10 DEF DmaClose, Frame, NoFrame
<1>11. CASE DmaSuspend
  BY <1>11 DEF DmaSuspend
<1>12. CASE UNCHANGED vars
  BY <1>12 DEF vars
<1>13. QED
  BY <1>1, <1>2, <1>3, <1>4, <1>5, <1>6, <1>7, <1>8, <1>9, <1>10, <1>11, <1>12
  DEF Next, Call, Finish, Dma

(* A step that leaves the ring alone keeps its shape.                      *)
LEMMA RingKept ==
  ASSUME RingInv, UNCHANGED <<own, dma_cur, Newest, given, sent>>
  PROVE  RingInv'
<1>1. UNCHANGED Owned
  BY DEF Owned
<1>2. QED
  BY <1>1 DEF RingInv, Stretch

(* eth_transmit gives a descriptor to the DMA.                             *)
LEMMA GiveStep ==
  ASSUME IInv, TransmitGive
  PROVE  RingInv' /\ FramesInv' /\ NoLostWakeup'
<1> DEFINE ptr == tx_descriptor_ptr
<1>1. /\ dma_cur \in Idx /\ ptr \in Idx /\ given \in Nat /\ sent \in Nat
      /\ own \in [Idx -> BOOLEAN] /\ Nxt(ptr) \in Idx
  BY NxtIdx DEF IInv, TypeOK
<1>2. Newest = ptr /\ Newest' = Nxt(ptr) /\ pc' = "ack"
  BY DEF TransmitGive, Newest
<1>3. /\ UNCHANGED <<tdes1, tx_buff, tx_descriptor_ptr, dma, dma_cur, fifo, sent>>
      /\ given' = given + 1
  BY DEF TransmitGive, dmaVars
<1>4. /\ ~own[ptr] /\ tx_buff[ptr] = given + 1 /\ tdes1[ptr] = given + 1
      /\ ptr \notin Owned
  BY DEF TransmitGive, IInv, FramesInv, Owned
<1>5. given - sent = Dist(dma_cur, ptr)
  BY <1>2, <1>4, CpuSide
<1>6. ~(dma_cur = ptr /\ given # sent)
  BY <1>1, <1>5, DistBound
<1>7. Owned' = Owned \cup {ptr}
  BY <1>1 DEF TransmitGive, Owned
<1>8. Owned' = Stretch(dma_cur, ptr, given # sent) \cup {ptr}
  BY <1>2, <1>7 DEF IInv, RingInv
<1>9. Owned' = Stretch(dma_cur, Nxt(ptr), TRUE)
  BY <1>1, <1>6, <1>8, StretchGrows
<1>10. given' - sent' = IF dma_cur = Nxt(ptr) THEN Num
                        ELSE Dist(dma_cur, Nxt(ptr))
  BY <1>1, <1>3, <1>5, DistNxtEnd, NumAssumption
<1>11. given' # sent' /\ Dist(dma_cur, ptr) \in 0 .. Num - 1
  BY <1>1, <1>3, <1>5, DistBound
<1>12. RingInv'
  BY <1>2, <1>3, <1>9, <1>10, <1>11 DEF RingInv, Stretch
<1>13. \A i \in Owned' : /\ tx_buff'[i] = sent' + 1 + Dist(dma_cur', i)
                         /\ tdes1'[i] = tx_buff'[i]
  BY <1>1, <1>3, <1>4, <1>5, <1>7 DEF IInv, FramesInv
<1>14. own[dma_cur] => own'[dma_cur]
  BY <1>1 DEF TransmitGive
<1>15. FramesInv'
  BY <1>2, <1>3, <1>13, <1>14 DEF IInv, FramesInv, NoFrame
<1>16. NoLostWakeup'
  BY <1>2 DEF NoLostWakeup
<1>17. QED
  BY <1>12, <1>15, <1>16

(* The DMA closes the descriptor of the frame it has sent.                 *)
LEMMA CloseStep ==
  ASSUME IInv, DmaClose
  PROVE  RingInv' /\ FramesInv' /\ NoLostWakeup'
<1>1. /\ dma_cur \in Idx /\ Newest \in Idx /\ given \in Nat /\ sent \in Nat
      /\ own \in [Idx -> BOOLEAN] /\ Nxt(dma_cur) \in Idx
      /\ tx_descriptor_ptr \in Idx
  BY NewestIdx, NxtIdx DEF IInv, TypeOK
<1>2. /\ UNCHANGED <<tdes1, tx_buff, tx_descriptor_ptr, pc, given, dma, Newest>>
      /\ sent' = sent + 1 /\ dma_cur' = Nxt(dma_cur) /\ fifo' = NoFrame
  BY DEF DmaClose, cpuVars, Newest
<1>3. own[dma_cur] /\ given # sent
  BY DmaSide DEF DmaClose, IInv, FramesInv
<1>4. Owned' = Owned \ {dma_cur}
  BY <1>1 DEF DmaClose, Owned
<1>5. given - sent = IF dma_cur = Newest THEN Num ELSE Dist(dma_cur, Newest)
  BY <1>3 DEF IInv, RingInv
<1>6. given' - sent' = IF Nxt(dma_cur) = Newest THEN 0
                       ELSE Dist(Nxt(dma_cur), Newest)
  BY <1>1, <1>2, <1>5, DistNxtStart, DistBound, NumAssumption
<1>7. Owned' = Stretch(dma_cur, Newest, given # sent) \ {dma_cur}
  BY <1>4 DEF IInv, RingInv
<1>8. given' # sent' => Nxt(dma_cur) # Newest
  BY <1>1, <1>2, <1>6
<1>9. Owned' = Stretch(Nxt(dma_cur), Newest, given' # sent')
  BY <1>1, <1>3, <1>7, <1>8, StretchShrinks
<1>10. RingInv'
  BY <1>1, <1>2, <1>6, <1>9 DEF RingInv
<1>11. \A i \in Owned' : /\ tx_buff'[i] = sent' + 1 + Dist(dma_cur', i)
                         /\ tdes1'[i] = tx_buff'[i]
  <2> SUFFICES ASSUME NEW i \in Owned'
               PROVE  /\ tx_buff'[i] = sent' + 1 + Dist(dma_cur', i)
                      /\ tdes1'[i] = tx_buff'[i]
    OBVIOUS
  <2>1. i \in Owned /\ i # dma_cur /\ i \in Idx
    BY <1>4 DEF Owned
  <2>2. tx_buff[i] = sent + 1 + Dist(dma_cur, i) /\ tdes1[i] = tx_buff[i]
    BY <2>1 DEF IInv, FramesInv
  <2>3. Dist(Nxt(dma_cur), i) = Dist(dma_cur, i) - 1
        /\ Dist(dma_cur, i) \in 0 .. Num - 1
    BY <1>1, <2>1, DistNxtStart, DistBound
  <2>4. QED
    BY <1>1, <1>2, <2>2, <2>3
<1>12. ~own[tx_descriptor_ptr] => ~own'[tx_descriptor_ptr]
  BY <1>1 DEF DmaClose
<1>13. FramesInv'
  BY <1>2, <1>11, <1>12 DEF IInv, FramesInv
<1>14. dma = "running" \/ pc \in {"ack", "poll"}
  BY <1>3 DEF IInv, NoLostWakeup, TypeOK
<1>15. NoLostWakeup'
  BY <1>2, <1>14 DEF NoLostWakeup
<1>16. QED
  BY <1>10, <1>13, <1>15

LEMMA InvStep == IInv /\ [Next]_vars => IInv'
<1> SUFFICES ASSUME IInv, [Next]_vars PROVE IInv'
  OBVIOUS
<1>a. TypeOK /\ RingInv /\ FramesInv /\ NoLostWakeup /\ TypeOK'
  BY TypeStep DEF IInv
<1> SUFFICES RingInv' /\ FramesInv' /\ NoLostWakeup'
  BY <1>a DEF IInv
<1> USE DEF cpuVars, dmaVars
<1>1. CASE TransmitBegin
  <2>1. UNCHANGED <<own, dma_cur, Newest, given, sent, Owned, tx_buff, tdes1,
                    fifo, dma, tx_descriptor_ptr>>
        /\ pc = "idle" /\ pc' = "copy" /\ ~own[tx_descriptor_ptr]
    BY <1>1 DEF TransmitBegin, Newest, Owned
  <2>2. QED
    BY <1>a, <2>1, RingKept DEF FramesInv, NoLostWakeup, NoFrame
<1>2. CASE TransmitDrop
  <2>1. UNCHANGED <<own, dma_cur, Newest, given, sent, Owned, tx_buff, tdes1,
                    fifo, dma, tx_descriptor_ptr, pc>>
    BY <1>2 DEF TransmitDrop, Newest, Owned
  <2>2. QED
    BY <1>a, <2>1, RingKept DEF FramesInv, NoLostWakeup, NoFrame
<1>3. CASE TransmitCopy
  <2>1. UNCHANGED <<own, dma_cur, Newest, given, sent, Owned, tdes1, fifo, dma,
                    tx_descriptor_ptr>>
        /\ pc = "copy" /\ pc' = "size"
    BY <1>3 DEF TransmitCopy, Newest, Owned
  <2>2. ~own[tx_descriptor_ptr]
    BY <1>a, <2>1 DEF FramesInv
  <2>3. /\ tx_buff'[tx_descriptor_ptr] = given + 1
        /\ \A i \in Owned : tx_buff'[i] = tx_buff[i]
    BY <1>a, <1>3, <2>2 DEF TransmitCopy, TypeOK, Owned
  <2>4. QED
    BY <1>a, <2>1, <2>2, <2>3, RingKept DEF FramesInv, NoLostWakeup, NoFrame
<1>4. CASE TransmitSize
  <2>1. UNCHANGED <<own, dma_cur, Newest, given, sent, Owned, tx_buff, fifo, dma,
                    tx_descriptor_ptr>>
        /\ pc = "size" /\ pc' = "give"
    BY <1>4 DEF TransmitSize, Newest, Owned
  <2>2. ~own[tx_descriptor_ptr]
    BY <1>a, <2>1 DEF FramesInv
  <2>3. /\ tdes1'[tx_descriptor_ptr] = given + 1
        /\ \A i \in Owned : tdes1'[i] = tdes1[i]
    BY <1>a, <1>4, <2>2 DEF TransmitSize, TypeOK, Owned
  <2>4. QED
    BY <1>a, <2>1, <2>2, <2>3, RingKept DEF FramesInv, NoLostWakeup, NoFrame
<1>5. CASE TransmitGive
  BY <1>5, GiveStep
<1>6. CASE TransmitAck
  <2>1. UNCHANGED <<own, dma_cur, Newest, given, sent, Owned, tx_buff, tdes1,
                    fifo, dma, tx_descriptor_ptr>>
        /\ pc = "ack" /\ pc' = "poll"
    BY <1>6 DEF TransmitAck, Newest, Owned
  <2>2. QED
    BY <1>a, <2>1, RingKept DEF FramesInv, NoLostWakeup, NoFrame
<1>7. CASE TransmitPoll
  <2>1. UNCHANGED <<own, dma_cur, Newest, given, sent, Owned, tx_buff, tdes1,
                    fifo, tx_descriptor_ptr>>
        /\ pc = "poll" /\ pc' = "advance" /\ dma' = "running"
    BY <1>7 DEF TransmitPoll, Newest, Owned
  <2>2. QED
    BY <1>a, <2>1, RingKept DEF FramesInv, NoLostWakeup, NoFrame
<1>8. CASE TransmitAdvance
  <2>1. UNCHANGED <<own, dma_cur, Newest, given, sent, Owned, tx_buff, tdes1,
                    fifo, dma>>
        /\ pc = "advance" /\ pc' = "idle"
    BY <1>8 DEF TransmitAdvance, Newest, Owned
  <2>2. QED
    BY <1>a, <2>1, RingKept DEF FramesInv, NoLostWakeup, NoFrame
<1>9. CASE DmaRead
  <2>1. UNCHANGED <<own, dma_cur, Newest, given, sent, Owned, tx_buff, tdes1,
                    dma, tx_descriptor_ptr, pc>>
    BY <1>9 DEF DmaRead, Newest, Owned
  <2>2. own[dma_cur] /\ dma_cur \in Owned /\ dma_cur \in Idx /\ sent \in Nat
    BY <1>a, <1>9 DEF DmaRead, Owned, TypeOK
  <2>3. fifo' = [num |-> sent + 1, size |-> sent + 1]
    BY <1>a, <1>9, <2>2, DistBound DEF DmaRead, FramesInv
  <2>4. QED
    BY <1>a, <2>1, <2>2, <2>3, RingKept DEF FramesInv, NoLostWakeup
<1>10. CASE DmaClose
  BY <1>10, CloseStep
<1>11. CASE DmaSuspend
  <2>1. UNCHANGED <<own, dma_cur, Newest, given, sent, Owned, tx_buff, tdes1,
                    fifo, tx_descriptor_ptr, pc>>
    BY <1>11 DEF DmaSuspend, Newest, Owned
  <2>2. given = sent
    BY <1>11, DmaSide DEF DmaSuspend
  <2>3. QED
    BY <1>a, <2>1, <2>2, RingKept DEF FramesInv, NoLostWakeup, NoFrame
<1>12. CASE UNCHANGED vars
  <2>1. UNCHANGED <<Newest, Owned>>
    BY <1>12 DEF vars, Newest, Owned
  <2>2. QED
    BY <1>12, <1>a, <2>1, RingKept DEF vars, FramesInv, NoLostWakeup, NoFrame
<1>13. QED
  BY <1>1, <1>2, <1>3, <1>4, <1>5, <1>6, <1>7, <1>8, <1>9, <1>10, <1>11, <1>12
  DEF Next, Call, Finish, Dma

-----------------------------------------------------------------------------
(* The theorems.                                                           *)

(* Every behaviour of the transmit half keeps the types.                   *)
THEOREM TxTypeCorrect == Spec => []TypeOK
<1>1. Init => TypeOK
  BY InitIInv DEF IInv
<1>2. QED
  BY <1>1, TypeStep, PTL DEF Spec

(* The inductive invariant holds.                                          *)
THEOREM TxInvariant == Spec => []IInv
  BY InitIInv, InvStep, PTL DEF Spec

(* Its three first parts, which the run checks.                            *)
THEOREM TxInv == Spec => []Inv
<1>1. IInv => Inv
  BY DEF IInv, Inv
<1>2. QED
  BY <1>1, TxInvariant, PTL

(* The descriptors of the DMA are one unbroken stretch between the two     *)
(* pointers.                                                               *)
THEOREM TxRing == Spec => []RingInv
<1>1. IInv => RingInv
  BY DEF IInv
<1>2. QED
  BY <1>1, TxInvariant, PTL

(* They hold the frames whose turn it is, each with its own size.          *)
THEOREM TxFrames == Spec => []FramesInv
<1>1. IInv => FramesInv
  BY DEF IInv
<1>2. QED
  BY <1>1, TxInvariant, PTL

(* The DMA never sleeps on a frame without a poll demand on its way.       *)
THEOREM TxNoLostWakeup == Spec => []NoLostWakeup
<1>1. IInv => NoLostWakeup
  BY DEF IInv
<1>2. QED
  BY <1>1, TxInvariant, PTL

(* Frames leave in order, whole and with their own size.                   *)
THEOREM TxWireInOrder == Spec => WireInOrder
<1> DEFINE Ordered == sent' # sent => wire' = [num |-> sent + 1, size |-> sent + 1]
<1>1. ASSUME IInv, [Next]_vars PROVE [Ordered]_vars
  <2>1. SUFFICES ASSUME Next, sent' # sent
                 PROVE  wire' = [num |-> sent + 1, size |-> sent + 1]
    BY <1>1
  <2>2. DmaClose
    BY <2>1 DEF Next, Call, Finish, Dma, TransmitBegin, TransmitDrop,
       TransmitCopy, TransmitSize, TransmitGive, TransmitAck, TransmitPoll,
       TransmitAdvance, DmaRead, DmaSuspend, dmaVars
  <2>3. QED
    BY <1>1, <2>2 DEF DmaClose, IInv, FramesInv
<1>2. QED
  BY <1>1, TxInvariant, PTL DEF Spec, WireInOrder

(* eth_transmit leaves alone what the DMA has still to send.               *)
THEOREM TxOwnedUntouched == Spec => OwnedUntouched
<1>1. ASSUME IInv, [Next]_vars PROVE [LeavesOwned]_vars
  <2>1. SUFFICES ASSUME Next, NEW i \in Idx, own[i]
                 PROVE  tx_buff'[i] = tx_buff[i] /\ tdes1'[i] = tdes1[i]
    BY <1>1 DEF LeavesOwned
  <2>2. /\ pc \in {"copy", "size", "give"} => tx_descriptor_ptr # i
        /\ tx_buff \in [Idx -> Nat] /\ tdes1 \in [Idx -> Nat]
    BY <1>1, <2>1 DEF IInv, FramesInv, TypeOK
  <2>3. CASE TransmitCopy
    BY <2>1, <2>2, <2>3 DEF TransmitCopy
  <2>4. CASE TransmitSize
    BY <2>1, <2>2, <2>4 DEF TransmitSize
  <2>5. CASE ~TransmitCopy /\ ~TransmitSize
    BY <2>1, <2>5 DEF Next, Call, Finish, Dma, TransmitBegin, TransmitDrop,
       TransmitGive, TransmitAck, TransmitPoll, TransmitAdvance, DmaRead,
       DmaClose, DmaSuspend
  <2>6. QED
    BY <2>3, <2>4, <2>5
<1>2. QED
  BY <1>1, TxInvariant, PTL DEF Spec, OwnedUntouched

(* A frame is dropped only when every descriptor waits to be sent.         *)
THEOREM TxDropOnlyWhenFull == Spec => DropOnlyWhenFull
<1> DEFINE Full == dropped' # dropped => given - sent = Num
<1>1. ASSUME IInv, [Next]_vars PROVE [Full]_vars
  <2>1. SUFFICES ASSUME Next, dropped' # dropped PROVE given - sent = Num
    BY <1>1
  <2>2. TransmitDrop
    BY <2>1 DEF Next, Call, Finish, Dma, TransmitBegin, TransmitCopy,
       TransmitSize, TransmitGive, TransmitAck, TransmitPoll, TransmitAdvance,
       DmaRead, DmaClose, DmaSuspend, cpuVars
  <2>3. Newest = tx_descriptor_ptr /\ own[Newest]
    BY <2>2 DEF TransmitDrop, Newest
  <2>4. QED
    BY <1>1, <2>3, CpuSide
<1>2. QED
  BY <1>1, TxInvariant, PTL DEF Spec, DropOnlyWhenFull

-----------------------------------------------------------------------------
(* The transmit half implements the queue.                                 *)

(* What waits in the ring is the run of frames after the last one sent.    *)
UnsentInv ==
  /\ given - sent \in 0 .. Num
  /\ Unsent = Run(sent, given - sent)

LEMMA UnsentIsRun == IInv => UnsentInv
<1> SUFFICES ASSUME IInv PROVE UnsentInv
  OBVIOUS
<1>1. /\ dma_cur \in Idx /\ Newest \in Idx /\ given \in Nat /\ sent \in Nat
      /\ given - sent \in 0 .. Num
  BY NewestIdx, DmaSide DEF IInv, TypeOK
<1>2. ASSUME NEW k \in 1 .. given - sent
      PROVE  tx_buff[At(dma_cur, k - 1)] = sent + k
  <2> DEFINE i == At(dma_cur, k - 1)
  <2>1. k - 1 \in 0 .. Num - 1 /\ k - 1 < given - sent /\ given # sent
    BY <1>1, <1>2, NumAssumption
  <2>2. i \in Idx /\ Dist(dma_cur, i) = k - 1
    BY <1>1, <2>1, AtProperties
  <2> HIDE DEF i
  <2>3. dma_cur # Newest => given - sent = Dist(dma_cur, Newest)
    BY DEF IInv, RingInv
  <2>4. i \in Owned
    BY <2>1, <2>2, <2>3 DEF IInv, RingInv, Stretch
  <2>5. QED
    BY <1>1, <2>1, <2>2, <2>4 DEF i, IInv, FramesInv
<1>3. QED
  BY <1>1, <1>2 DEF UnsentInv, Unsent, Run

(* TransmitGive puts, DmaClose gets, every other step leaves the queue.    *)
LEMMA FifoStep ==
  IInv /\ UnsentInv /\ UnsentInv' /\ [Next]_vars => [Fifo!Next]_(Fifo!fifoVars)
<1> SUFFICES ASSUME IInv, UnsentInv, UnsentInv', [Next]_vars
             PROVE  [Fifo!Next]_(Fifo!fifoVars)
  OBVIOUS
<1>1. /\ given \in Nat /\ sent \in Nat /\ given - sent \in 0 .. Num
      /\ given - sent \in Nat /\ Unsent = Run(sent, given - sent)
  BY NumAssumption DEF UnsentInv, IInv, TypeOK
<1>2. given' - sent' \in 0 .. Num /\ Unsent' = Run(sent', given' - sent')
  BY DEF UnsentInv
<1>3. CASE TransmitGive
  <2>1. given' = given + 1 /\ UNCHANGED <<sent, wire>>
    BY <1>3 DEF TransmitGive, dmaVars
  <2>2. given' - sent' = (given - sent) + 1
    BY <1>1, <2>1
  <2>3. Append(Run(sent, given - sent), sent + (given - sent) + 1)
          = Run(sent, (given - sent) + 1)
    BY <1>1, RunAppend
  <2>4. Unsent' = Append(Unsent, given + 1)
    BY <1>1, <1>2, <2>1, <2>2, <2>3
  <2>5. Len(Unsent) < Num
    BY <1>1, <1>2, <2>2, RunSeq, NumAssumption
  <2>6. Fifo!Put
    BY <2>1, <2>4, <2>5 DEF Fifo!Put
  <2>7. QED
    BY <2>6 DEF Fifo!Next
<1>4. CASE DmaClose
  <2>1. sent' = sent + 1 /\ UNCHANGED given /\ wire'.num = sent + 1
    BY <1>4 DEF DmaClose, cpuVars, IInv, FramesInv
  <2>2. given' - sent' = (given - sent) - 1 /\ given - sent \in Nat \ {0}
    BY <1>1, <1>2, <2>1
  <2>3. /\ Unsent # << >> /\ Head(Unsent) = sent + 1
        /\ Tail(Unsent) = Run(sent + 1, (given - sent) - 1)
    BY <1>1, <2>2, RunTail
  <2>4. Unsent' = Tail(Unsent) /\ wire'.num = Head(Unsent)
    BY <1>2, <2>1, <2>2, <2>3
  <2>5. Fifo!Get
    BY <2>1, <2>3, <2>4 DEF Fifo!Get
  <2>6. QED
    BY <2>5 DEF Fifo!Next
<1>5. CASE ~TransmitGive /\ ~DmaClose
  <2>1. UNCHANGED <<given, sent, wire>>
    BY <1>5 DEF Next, Call, Finish, Dma, TransmitBegin, TransmitDrop,
       TransmitCopy, TransmitSize, TransmitAck, TransmitPoll, TransmitAdvance,
       DmaRead, DmaSuspend, cpuVars, dmaVars, vars
  <2>2. UNCHANGED Fifo!fifoVars
    BY <1>1, <1>2, <2>1 DEF Fifo!fifoVars
  <2>3. QED
    BY <2>2
<1>6. QED
  BY <1>3, <1>4, <1>5

(* The transmit half implements the bounded first-in first-out queue of    *)
(* FrameFifo: no frame that eth_transmit took is lost, repeated or         *)
(* reordered.                                                              *)
THEOREM TxImplementsFifo == Spec => FifoSpec
<1>1. Init => Fifo!Init
  <2> SUFFICES ASSUME Init PROVE Fifo!Init
    OBVIOUS
  <2>1. given = 0 /\ sent = 0 /\ wire.num = 0
    BY DEF Init, NoFrame
  <2>2. Unsent = << >>
    BY <2>1 DEF Unsent
  <2>3. QED
    BY <2>1, <2>2 DEF Fifo!Init
<1>2. QED
  BY <1>1, UnsentIsRun, FifoStep, TxInvariant, PTL DEF Spec, FifoSpec, Fifo!Spec
=============================================================================
