------------------------------- MODULE EthRx -------------------------------
(***************************************************************************)
(* The receive half of perlib/eth.c: the descriptor ring shared by         *)
(* eth_receive, which the main loop polls, and by the receive DMA of the   *)
(* Ethernet controller, which runs concurrently with it.                   *)
(*                                                                         *)
(* The data of a frame is abstracted to the number of the descriptor       *)
(* filling that stored it (1, 2, ...): what matters is which filling a     *)
(* buffer holds, not its bytes.  A frame takes one buffer, or two when it  *)
(* is longer than eth_rxbuff_size (1536) and still below the 2048 bytes    *)
(* that the MAC lets through.                                              *)
(*                                                                         *)
(* eth_receive is split where the DMA can come in between: the test of     *)
(* rdes0, the copy, the hand-over of the descriptor, and the step to the   *)
(* next one.                                                               *)
(***************************************************************************)
EXTENDS EthRing, Sequences

CONSTANTS
  Kinds,        \* the kinds of frame the wire brings, a subset of AllKinds
  MaxFrames     \* bound: how many frames the wire brings

AllKinds == {"good", "bad", "long"}

ASSUME RxAssumption == Kinds \subseteq AllKinds /\ MaxFrames \in Nat

VARIABLES
  rdes0,              \* status word of each descriptor
  rx_buff,            \* what each receive buffer holds: number of a filling
  rx_descriptor_ptr,  \* the descriptor eth_receive looks at
  pc,                 \* where eth_receive is
  recv_data,          \* the caller's buffer: filling copied, and its status
  ret,                \* what the last call returned: a filling, 0 for none
  dma_cur,            \* the descriptor the DMA fills next
  frame,              \* the frame the DMA is storing
  arrived,            \* frames the wire brought so far
  filled,             \* descriptors the DMA closed so far
  taken,              \* descriptors eth_receive handed back so far
  missed              \* frames the DMA had to throw away

cpuVars == <<rx_descriptor_ptr, pc, recv_data, ret, taken>>
dmaVars == <<rx_buff, dma_cur, frame, arrived, filled, missed>>
vars == <<rdes0, rx_buff, rx_descriptor_ptr, pc, recv_data, ret, dma_cur,
          frame, arrived, filled, taken, missed>>

Status == [own : BOOLEAN, es : BOOLEAN, fs : BOOLEAN, ls : BOOLEAN]

(* eth_dmarxdesc_own alone: what eth_dmarxdesc_init and eth_receive store. *)
OwnedByDma == [own |-> TRUE, es |-> FALSE, fs |-> FALSE, ls |-> FALSE]

(* The MAC_DMA operation mode as eth_dma_init and eth_start leave it.      *)
DMAOMR == ({"tsf", "fef", "fugf"} \ {"dtcefd"}) \cup {"st", "sr"}

(* The frame in the controller's FIFO: how many buffers it still takes, no  *)
(* descriptor closed for it yet, damaged, stored in the current buffer.    *)
Frame == [left : 0 .. 2, first : BOOLEAN, err : BOOLEAN, written : BOOLEAN]

NoFrame == [left |-> 0, first |-> TRUE, err |-> FALSE, written |-> FALSE]

-----------------------------------------------------------------------------
(* The receive DMA and the wire (hardware).                                *)

(* A frame passes the address filter.  One that is damaged reaches the     *)
(* DMA only when the MAC forwards error frames.                            *)
Arrive(kind) ==
  /\ frame = NoFrame
  /\ arrived < MaxFrames
  /\ arrived' = arrived + 1
  /\ frame' = IF kind = "bad" /\ "fef" \notin DMAOMR
                THEN NoFrame
                ELSE [left    |-> IF kind = "long" THEN 2 ELSE 1,
                      first   |-> TRUE,
                      err     |-> kind = "bad",
                      written |-> FALSE]
  /\ UNCHANGED <<rdes0, rx_buff, dma_cur, filled, missed, cpuVars>>

(* The DMA stores (a part of) the frame in the buffer of its descriptor.   *)
DmaWrite ==
  /\ frame.left > 0
  /\ ~frame.written
  /\ rdes0[dma_cur].own
  /\ rx_buff' = [rx_buff EXCEPT ![dma_cur] = filled + 1]
  /\ frame' = [frame EXCEPT !.written = TRUE]
  /\ UNCHANGED <<rdes0, dma_cur, arrived, filled, missed, cpuVars>>

(* It closes the descriptor: status bits set, OWN cleared.  When the frame *)
(* goes on but the next descriptor is not its own, the frame ends here     *)
(* with a descriptor error.                                                *)
DmaClose ==
  LET more      == frame.left > 1
      truncated == more /\ (Nxt(dma_cur) = dma_cur \/ ~rdes0[Nxt(dma_cur)].own)
      last      == ~more \/ truncated
  IN  /\ frame.written
      /\ rdes0' = [rdes0 EXCEPT ![dma_cur] =
                     [own |-> FALSE, es |-> last /\ (frame.err \/ truncated),
                      fs  |-> frame.first, ls |-> last]]
      /\ frame' = IF last THEN NoFrame
                  ELSE [left |-> frame.left - 1, first |-> FALSE,
                        err |-> frame.err, written |-> FALSE]
      /\ dma_cur' = Nxt(dma_cur)
      /\ filled' = filled + 1
      /\ UNCHANGED <<rx_buff, arrived, missed, cpuVars>>

(* No descriptor to store the frame in: it is lost.                        *)
DmaMiss ==
  /\ frame.left > 0
  /\ ~frame.written
  /\ ~rdes0[dma_cur].own
  /\ frame' = NoFrame
  /\ missed' = missed + 1
  /\ UNCHANGED <<rdes0, rx_buff, dma_cur, arrived, filled, cpuVars>>

Dma == DmaWrite \/ DmaClose \/ DmaMiss

-----------------------------------------------------------------------------
(* eth_receive.                                                            *)

(* rdes0 & eth_dmarxdesc_ls.  The enumeration gives LS the position of FS  *)
(* (9), so this reads the first-descriptor bit.                            *)
LsBit(d) == d.fs

(* The condition under which eth_receive takes a descriptor.               *)
Takeable(d) == ~d.own /\ ~d.es /\ LsBit(d) /\ d.fs

(* Mistake: the descriptor goes back before its buffer was copied.         *)
ReceiveTestReleasing ==
  /\ pc = "test"
  /\ Takeable(rdes0[rx_descriptor_ptr])
  /\ rdes0' = [rdes0 EXCEPT ![rx_descriptor_ptr].own = TRUE]
  /\ pc' = "copy"
  /\ UNCHANGED <<rx_descriptor_ptr, recv_data, ret, taken, dmaVars>>

(* The test of rdes0.                                                      *)
ReceiveTest ==
  /\ pc = "test"
  /\ Takeable(rdes0[rx_descriptor_ptr])
  /\ pc' = "copy"
  /\ UNCHANGED <<rdes0, rx_descriptor_ptr, recv_data, ret, taken, dmaVars>>

(* Mistake: what is not taken is handed back in place.                     *)
ReceiveNothingReleasing ==
  /\ pc = "test"
  /\ ~Takeable(rdes0[rx_descriptor_ptr])
  /\ rdes0' = [rdes0 EXCEPT ![rx_descriptor_ptr] = OwnedByDma]
  /\ ret' = 0
  /\ UNCHANGED <<rx_descriptor_ptr, pc, recv_data, taken, dmaVars>>

(* The test fails: the call returns 0 and leaves everything as it is.      *)
ReceiveNothing ==
  /\ pc = "test"
  /\ ~Takeable(rdes0[rx_descriptor_ptr])
  /\ ret' = 0
  /\ UNCHANGED <<rdes0, rx_descriptor_ptr, pc, recv_data, taken, dmaVars>>

(* kememcpy from the descriptor's buffer to the caller's.                  *)
ReceiveCopy ==
  /\ pc = "copy"
  /\ recv_data' = [num   |-> rx_buff[rx_descriptor_ptr],
                   whole |-> /\ rdes0[rx_descriptor_ptr].fs
                             /\ rdes0[rx_descriptor_ptr].ls]
  /\ pc' = "release"
  /\ UNCHANGED <<rdes0, rx_descriptor_ptr, ret, taken, dmaVars>>

(* Mistake: the descriptor is not handed back.                             *)
ReceiveReleaseLost ==
  /\ pc = "release"
  /\ taken' = taken + 1
  /\ pc' = "advance"
  /\ UNCHANGED <<rdes0, rx_descriptor_ptr, recv_data, ret, dmaVars>>

(* rdes0 = OWN: the descriptor goes back to the DMA.                       *)
ReceiveRelease ==
  /\ pc = "release"
  /\ rdes0' = [rdes0 EXCEPT ![rx_descriptor_ptr] = OwnedByDma]
  /\ taken' = taken + 1
  /\ pc' = "advance"
  /\ UNCHANGED <<rx_descriptor_ptr, recv_data, ret, dmaVars>>

(* Mistake: the pointer stays.                                             *)
ReceiveAdvanceNot ==
  /\ pc = "advance"
  /\ ret' = recv_data.num
  /\ pc' = "test"
  /\ UNCHANGED <<rdes0, rx_descriptor_ptr, recv_data, taken, dmaVars>>

(* The pointer follows rdes3 and the call returns the size.                *)
ReceiveAdvance ==
  /\ pc = "advance"
  /\ rx_descriptor_ptr' = Nxt(rx_descriptor_ptr)
  /\ ret' = recv_data.num
  /\ pc' = "test"
  /\ UNCHANGED <<rdes0, recv_data, taken, dmaVars>>

Receive == \/ ReceiveTest \/ ReceiveNothing \/ ReceiveCopy
           \/ ReceiveRelease \/ ReceiveAdvance

-----------------------------------------------------------------------------
(* The state eth_init leaves (eth_dmarxdesc_init).                         *)
Init ==
  /\ rdes0 = [i \in Idx |-> OwnedByDma]
  /\ rx_buff = [i \in Idx |-> 0]
  /\ rx_descriptor_ptr = 0
  /\ dma_cur = 0
  /\ pc = "test"
  /\ recv_data = [num |-> 0, whole |-> TRUE]
  /\ ret = 0
  /\ frame = NoFrame
  /\ arrived = 0 /\ filled = 0 /\ taken = 0 /\ missed = 0

Next == Dma \/ Receive \/ \E kind \in Kinds : Arrive(kind)

Spec == Init /\ [][Next]_vars

(* The main loop calls eth_receive again and again (while(1)               *)
(* brieip_process()), and the DMA finishes what it started.  The wire owes *)
(* nothing.                                                                *)
Fairness == WF_vars(Receive) /\ WF_vars(Dma)

FairSpec == Spec /\ Fairness

-----------------------------------------------------------------------------
(* Types.                                                                  *)
TypeOK ==
  /\ rdes0 \in [Idx -> Status]
  /\ rx_buff \in [Idx -> Nat]
  /\ rx_descriptor_ptr \in Idx
  /\ pc \in {"test", "copy", "release", "advance"}
  /\ recv_data \in [num : Nat, whole : BOOLEAN]
  /\ ret \in Nat
  /\ dma_cur \in Idx
  /\ frame \in Frame
  /\ arrived \in 0 .. MaxFrames
  /\ filled \in Nat /\ taken \in Nat /\ missed \in Nat

(* The descriptor eth_receive has to look at next.                         *)
Oldest == IF pc = "advance" THEN Nxt(rx_descriptor_ptr)
                            ELSE rx_descriptor_ptr

Closed == {i \in Idx : ~rdes0[i].own}

(* The closed descriptors are one unbroken stretch, from the one           *)
(* eth_receive stands on to the one the DMA stands on, and there are as    *)
(* many of them as were filled and not taken: eth_receive and the DMA      *)
(* never lose each other although each keeps its own pointer.              *)
RingInv ==
  /\ Closed = Stretch(Oldest, dma_cur, filled # taken)
  /\ filled - taken = IF Oldest = dma_cur
                        THEN IF filled = taken THEN 0 ELSE Num
                        ELSE Dist(Oldest, dma_cur)

(* A closed buffer holds the filling its place in the stretch calls for,   *)
(* and what eth_receive has copied is the one whose turn it is, so the     *)
(* order of the frames is the order of the ring whatever the two sides do  *)
(* meanwhile.                                                              *)
FillingsInv ==
  /\ \A i \in Closed : rx_buff[i] = taken + 1 + Dist(Oldest, i)
  /\ frame.written => rdes0[dma_cur].own /\ rx_buff[dma_cur] = filled + 1
  /\ pc \in {"copy", "release"} => ~rdes0[rx_descriptor_ptr].own
  /\ pc = "release" => recv_data.num = taken + 1
  /\ pc = "advance" => recv_data.num = taken

(* The three together are inductive.                                       *)
Inv == TypeOK /\ RingInv /\ FillingsInv

(* While eth_receive works on a buffer the DMA does not touch it.          *)
CopyStable ==
  [][(pc = "copy" \/ pc = "release") =>
       rx_buff'[rx_descriptor_ptr] = rx_buff[rx_descriptor_ptr]]_vars

(* The descriptor that eth_receive hands back n-th is the one the DMA      *)
(* filled n-th, and what it copied is what was stored there: no filling is *)
(* skipped, repeated, overtaken or overwritten before it was copied.       *)
InOrder ==
  [][taken' # taken => taken' = taken + 1 /\ recv_data.num = taken']_vars

(* The DMA throws a frame away only when all buffers are waiting for       *)
(* eth_receive.                                                            *)
MissOnlyWhenFull ==
  [][missed' # missed => filled - taken = Num]_vars

(* eth_receive stands on a closed descriptor it will not take: one with    *)
(* the error bit, or one that is not the first of its frame.               *)
Wedged ==
  /\ pc = "test"
  /\ ~rdes0[rx_descriptor_ptr].own
  /\ ~Takeable(rdes0[rx_descriptor_ptr])

(* eth_receive gives a descriptor back only after taking it, so nothing    *)
(* ever removes such a descriptor: reception is over until the next        *)
(* eth_init.                                                               *)
WedgeIsPermanent == [][Wedged => Wedged']_vars

(* That is the only thing that stops reception: every filling is taken in  *)
(* the end, or else the ring is wedged.                                    *)
TakenUnlessWedged ==
  \A n \in 1 .. 2 * MaxFrames : filled >= n ~> taken >= n \/ Wedged

(* The promise kept: the ring is a bounded first-in first-out queue.  An   *)
(* item leaves it when eth_receive has copied it.                          *)
Copied == IF pc = "release" THEN 1 ELSE 0

Waiting == [k \in 1 .. filled - taken - Copied |->
              rx_buff[At(Oldest, k - 1 + Copied)]]

Fifo == INSTANCE FrameFifo WITH
          Capacity <- Num, queue <- Waiting, put <- filled,
          got <- recv_data.num

FifoSpec == Fifo!Spec

(* perlib/eth.c:537 asks the controller to "discard error frames": then    *)
(* none is ever stored.                                                    *)
ErrorFramesDiscarded ==
  "long" \notin Kinds => \A i \in Idx : rdes0[i].own \/ ~rdes0[i].es

(* perlib/eth.c:374 tests "is last desc": what eth_receive hands over is   *)
(* a frame from its first to its last descriptor.                          *)
WholeFrames == pc = "test" /\ ret # 0 => recv_data.whole
=============================================================================
