------------------------------- MODULE EthTx -------------------------------
(***************************************************************************)
(* The transmit half of perlib/eth.c: the descriptor ring shared by        *)
(* eth_transmit and by the transmit DMA of the Ethernet controller, which  *)
(* runs concurrently with it and goes to sleep when it finds nothing to    *)
(* send.                                                                   *)
(*                                                                         *)
(* Frames are numbered in the order in which eth_transmit gives them to    *)
(* the DMA.  A buffer (tx_buff) holds the number of the frame copied into  *)
(* it and a descriptor's size word (tdes1) the number of the frame whose   *)
(* size it is, so that a frame sent with another frame's size shows.       *)
(*                                                                         *)
(* eth_transmit is split where the DMA can come in between: each store to  *)
(* the descriptor or to a register of the controller is a step.            *)
(***************************************************************************)
EXTENDS EthRing, Sequences

CONSTANT MaxCalls     \* bound: how many times eth_transmit is called

ASSUME TxAssumption == MaxCalls \in Nat

VARIABLES
  own,                \* bit OWN of tdes0 of each descriptor
  tdes1,              \* size word of each descriptor: of which frame
  tx_buff,            \* what each transmit buffer holds: number of a frame
  tx_descriptor_ptr,  \* the descriptor eth_transmit fills next
  pc,                 \* where eth_transmit is
  calls,              \* calls so far
  given,              \* frames handed to the DMA so far
  dropped,            \* calls that found no descriptor and dropped the frame
  dma,                \* "running" or "suspended"
  dma_cur,            \* the descriptor the DMA sends next
  fifo,               \* the frame the DMA is sending
  tbus,               \* DMASR: transmit buffer unavailable
  wire,               \* the frame sent last
  sent                \* frames sent so far

cpuVars == <<tx_descriptor_ptr, pc, calls, given, dropped>>
dmaVars == <<dma_cur, fifo, wire, sent>>
vars == <<own, tdes1, tx_buff, tx_descriptor_ptr, pc, calls, given, dropped,
          dma, dma_cur, fifo, tbus, wire, sent>>

Frame == [num : Nat, size : Nat]

NoFrame == [num |-> 0, size |-> 0]

-----------------------------------------------------------------------------
(* eth_transmit.                                                           *)

(* Mistake: the test of OWN is missing.                                    *)
TransmitBeginBlind ==
  /\ pc = "idle"
  /\ calls < MaxCalls
  /\ calls' = calls + 1
  /\ pc' = "copy"
  /\ UNCHANGED <<own, tdes1, tx_buff, tx_descriptor_ptr, given, dropped, dma,
                 tbus, dmaVars>>

(* The descriptor is free.                                                 *)
TransmitBegin ==
  /\ pc = "idle"
  /\ calls < MaxCalls
  /\ ~own[tx_descriptor_ptr]
  /\ calls' = calls + 1
  /\ pc' = "copy"
  /\ UNCHANGED <<own, tdes1, tx_buff, tx_descriptor_ptr, given, dropped, dma,
                 tbus, dmaVars>>

(* It is not: the call returns and the frame is gone.                      *)
TransmitDrop ==
  /\ pc = "idle"
  /\ calls < MaxCalls
  /\ own[tx_descriptor_ptr]
  /\ calls' = calls + 1
  /\ dropped' = dropped + 1
  /\ UNCHANGED <<own, tdes1, tx_buff, tx_descriptor_ptr, pc, given, dma, tbus,
                 dmaVars>>

(* Mistake: OWN is set together with the copy, before the size.            *)
TransmitCopyGiving ==
  /\ pc = "copy"
  /\ tx_buff' = [tx_buff EXCEPT ![tx_descriptor_ptr] = given + 1]
  /\ own' = [own EXCEPT ![tx_descriptor_ptr] = TRUE]
  /\ pc' = "size"
  /\ UNCHANGED <<tdes1, tx_descriptor_ptr, calls, given, dropped, dma, tbus,
                 dmaVars>>

(* kememcpy from the caller's buffer to the descriptor's.                  *)
TransmitCopy ==
  /\ pc = "copy"
  /\ tx_buff' = [tx_buff EXCEPT ![tx_descriptor_ptr] = given + 1]
  /\ pc' = "size"
  /\ UNCHANGED <<own, tdes1, tx_descriptor_ptr, calls, given, dropped, dma,
                 tbus, dmaVars>>

(* tdes1 = size, tdes0 |= LS | FS.                                         *)
TransmitSize ==
  /\ pc = "size"
  /\ tdes1' = [tdes1 EXCEPT ![tx_descriptor_ptr] = given + 1]
  /\ pc' = "give"
  /\ UNCHANGED <<own, tx_buff, tx_descriptor_ptr, calls, given, dropped, dma,
                 tbus, dmaVars>>

(* tdes0 |= OWN: from now on the descriptor is the DMA's.                  *)
TransmitGive ==
  /\ pc = "give"
  /\ own' = [own EXCEPT ![tx_descriptor_ptr] = TRUE]
  /\ given' = given + 1
  /\ pc' = "ack"
  /\ UNCHANGED <<tdes1, tx_buff, tx_descriptor_ptr, calls, dropped, dma, tbus,
                 dmaVars>>

(* DMASR = TBUS: a write of one clears the flag.                           *)
TransmitAck ==
  /\ pc = "ack"
  /\ tbus' = FALSE
  /\ pc' = "poll"
  /\ UNCHANGED <<own, tdes1, tx_buff, tx_descriptor_ptr, calls, given, dropped,
                 dma, dmaVars>>

(* Mistake: no poll demand.                                                *)
TransmitPollNot ==
  /\ pc = "poll"
  /\ pc' = "advance"
  /\ UNCHANGED <<own, tdes1, tx_buff, tx_descriptor_ptr, calls, given, dropped,
                 dma, tbus, dmaVars>>

(* DMATPDR = 0: a poll demand wakes the DMA if it sleeps.                  *)
TransmitPoll ==
  /\ pc = "poll"
  /\ dma' = "running"
  /\ pc' = "advance"
  /\ UNCHANGED <<own, tdes1, tx_buff, tx_descriptor_ptr, calls, given, dropped,
                 tbus, dmaVars>>

(* Mistake: the pointer stays.                                             *)
TransmitAdvanceNot ==
  /\ pc = "advance"
  /\ pc' = "idle"
  /\ UNCHANGED <<own, tdes1, tx_buff, tx_descriptor_ptr, calls, given, dropped,
                 dma, tbus, dmaVars>>

(* The pointer follows tdes3.                                              *)
TransmitAdvance ==
  /\ pc = "advance"
  /\ tx_descriptor_ptr' = Nxt(tx_descriptor_ptr)
  /\ pc' = "idle"
  /\ UNCHANGED <<own, tdes1, tx_buff, calls, given, dropped, dma, tbus,
                 dmaVars>>

Call == TransmitBegin \/ TransmitDrop

Finish == \/ TransmitCopy \/ TransmitSize \/ TransmitGive \/ TransmitAck
          \/ TransmitPoll \/ TransmitAdvance

-----------------------------------------------------------------------------
(* The transmit DMA (hardware).                                            *)

(* It reads a descriptor of its own and the buffer: with TSF the whole     *)
(* frame goes into the FIFO first.                                         *)
DmaRead ==
  /\ dma = "running"
  /\ fifo = NoFrame
  /\ own[dma_cur]
  /\ fifo' = [num |-> tx_buff[dma_cur], size |-> tdes1[dma_cur]]
  /\ UNCHANGED <<own, tdes1, tx_buff, dma, dma_cur, tbus, wire, sent, cpuVars>>

(* The frame is on the wire: OWN is cleared and the DMA follows tdes3.     *)
DmaClose ==
  /\ fifo # NoFrame
  /\ own' = [own EXCEPT ![dma_cur] = FALSE]
  /\ wire' = fifo
  /\ fifo' = NoFrame
  /\ sent' = sent + 1
  /\ dma_cur' = Nxt(dma_cur)
  /\ UNCHANGED <<tdes1, tx_buff, dma, tbus, cpuVars>>

(* It meets a descriptor that is not its own, and sleeps.                  *)
DmaSuspend ==
  /\ dma = "running"
  /\ fifo = NoFrame
  /\ ~own[dma_cur]
  /\ dma' = "suspended"
  /\ tbus' = TRUE
  /\ UNCHANGED <<own, tdes1, tx_buff, dma_cur, fifo, wire, sent, cpuVars>>

Dma == DmaRead \/ DmaClose \/ DmaSuspend

-----------------------------------------------------------------------------
(* The state the first eth_init leaves: eth_dmatxdesc_init, DMASR cleared  *)
(* by eth_irq_init, the DMA started by eth_start.  eth_dmatxdesc_init ors  *)
(* into tdes0: it is the start-up code, clearing .bss, that makes OWN 0.   *)
Init ==
  /\ own = [i \in Idx |-> FALSE]
  /\ tdes1 = [i \in Idx |-> 0]
  /\ tx_buff = [i \in Idx |-> 0]
  /\ tx_descriptor_ptr = 0
  /\ pc = "idle"
  /\ calls = 0 /\ given = 0 /\ dropped = 0
  /\ dma = "running"
  /\ dma_cur = 0
  /\ fifo = NoFrame
  /\ tbus = FALSE
  /\ wire = NoFrame
  /\ sent = 0

Next == Call \/ Finish \/ Dma

Spec == Init /\ [][Next]_vars

(* A call that began runs to its end and the controller goes on sending;   *)
(* nobody has to call eth_transmit.                                        *)
Fairness == WF_vars(Finish) /\ WF_vars(Dma)

FairSpec == Spec /\ Fairness

-----------------------------------------------------------------------------
(* Types.                                                                  *)
TypeOK ==
  /\ own \in [Idx -> BOOLEAN]
  /\ tdes1 \in [Idx -> Nat]
  /\ tx_buff \in [Idx -> Nat]
  /\ tx_descriptor_ptr \in Idx
  /\ pc \in {"idle", "copy", "size", "give", "ack", "poll", "advance"}
  /\ calls \in 0 .. MaxCalls
  /\ given \in Nat /\ dropped \in Nat /\ sent \in Nat
  /\ dma \in {"running", "suspended"}
  /\ dma_cur \in Idx
  /\ fifo \in Frame /\ wire \in Frame
  /\ tbus \in BOOLEAN

(* The descriptor that the next frame given to the DMA goes to.            *)
Newest == IF pc \in {"ack", "poll", "advance"} THEN Nxt(tx_descriptor_ptr)
                                              ELSE tx_descriptor_ptr

Owned == {i \in Idx : own[i]}

(* The descriptors of the DMA are one unbroken stretch, from the one it    *)
(* stands on to the one eth_transmit fills next, as many of them as frames *)
(* were given and not sent.                                                *)
RingInv ==
  /\ Owned = Stretch(dma_cur, Newest, given # sent)
  /\ given - sent = IF dma_cur = Newest
                      THEN IF given = sent THEN 0 ELSE Num
                      ELSE Dist(dma_cur, Newest)

(* A descriptor of the DMA holds the frame its place in the stretch calls  *)
(* for, data and size, and the frame being sent is the one whose turn it   *)
(* is.                                                                     *)
FramesInv ==
  /\ \A i \in Owned : /\ tx_buff[i] = sent + 1 + Dist(dma_cur, i)
                      /\ tdes1[i] = tx_buff[i]
  /\ fifo # NoFrame => /\ own[dma_cur]
                       /\ fifo = [num |-> sent + 1, size |-> sent + 1]
  /\ pc \in {"copy", "size", "give"} => ~own[tx_descriptor_ptr]
  /\ pc \in {"size", "give"} => tx_buff[tx_descriptor_ptr] = given + 1
  /\ pc = "give" => tdes1[tx_descriptor_ptr] = given + 1

(* The three together are inductive.                                       *)
Inv == TypeOK /\ RingInv /\ FramesInv

(* The DMA sleeps on unsent frames only while eth_transmit is on its way   *)
(* to the poll demand that wakes it.                                       *)
NoLostWakeup ==
  dma = "suspended" /\ given # sent => pc \in {"ack", "poll"}

(* What is sent is, frame after frame, the next frame given, with its own  *)
(* size: none is skipped, repeated, overtaken or torn.                     *)
WireInOrder ==
  [][sent' # sent => wire' = [num |-> sent + 1, size |-> sent + 1]]_vars

(* eth_transmit does not touch the data or the size of a frame that the    *)
(* DMA has not sent yet.                                                   *)
LeavesOwned ==
  \A i \in Idx : own[i] => tx_buff'[i] = tx_buff[i] /\ tdes1'[i] = tdes1[i]

OwnedUntouched == [][LeavesOwned]_vars

(* eth_transmit drops a frame only when every descriptor is waiting to be  *)
(* sent.                                                                   *)
DropOnlyWhenFull ==
  [][dropped' # dropped => given - sent = Num]_vars

(* The promise kept: the ring is a bounded first-in first-out queue.       *)
Unsent == [k \in 1 .. given - sent |-> tx_buff[At(dma_cur, k - 1)]]

Fifo == INSTANCE FrameFifo WITH
          Capacity <- Num, queue <- Unsent, put <- given, got <- wire.num

FifoSpec == Fifo!Spec

(* Every frame that eth_transmit took is sent in the end.                  *)
AllSent == \A n \in 1 .. MaxCalls : given >= n ~> sent >= n
=============================================================================
