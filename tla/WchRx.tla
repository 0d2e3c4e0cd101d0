------------------------------- MODULE WchRx --------------------------------
(***************************************************************************)
(* How the web example's driver turns reception off and on again: the      *)
(* interrupt handler turns it off when the ring of receive descriptors     *)
(* runs short (RecStopFlag) or has run out (RBUFlag), and the main loop    *)
(* turns it on when the library has taken everything, or sets the whole    *)
(* controller up anew.  Both change ETH->MACCR by reading and writing it;  *)
(* the handler may come between any two steps of the main loop, and not    *)
(* the other way round.                                                    *)
(***************************************************************************)
EXTENDS Naturals, FiniteSets

CONSTANTS
  N,            \* ETH_RXBUFNB
  Idle          \* IDLE_DES_NUM

WchRxAssumption == N \in Nat /\ Idle \in Nat /\ N > Idle

Ring == 0 .. N - 1

VARIABLES
  own,          \* the descriptors that are the controller's
  dma,          \* DMACHRDR: the one it uses next
  pDMARxSet,    \* the one the library takes next
  halted,       \* the controller found no descriptor and waits
  maccr,        \* MACCR: [re, dm], reception and full duplex
  flags,        \* DMASR: among "R", "RBU", "PHYLINK"
  taken,        \* int_sta, while the handler runs
  RBUFlag, RecStopFlag, DuplexMode,
  pc,           \* where WCHNET_RecProcess is
  copy,         \* MACCR as it was read there
  overlapped    \* the handler set the mode since, for the last time (of the history)

vars == <<own, dma, pDMARxSet, halted, maccr, flags, taken,
          RBUFlag, RecStopFlag, DuplexMode, pc, copy, overlapped>>

Next1(i) == (i + 1) % N

-----------------------------------------------------------------------------
(* ETH_Configuration, the rings and ETH_Start, after a first link.         *)
Init ==
  /\ own = Ring /\ dma = 0 /\ pDMARxSet = 0 /\ halted = FALSE
  /\ DuplexMode \in BOOLEAN
  /\ maccr = [re |-> TRUE, dm |-> DuplexMode] /\ copy = maccr
  /\ flags = {} /\ taken = {}
  /\ RBUFlag = FALSE /\ RecStopFlag = FALSE
  /\ pc = "idle" /\ overlapped = FALSE

(* The controller stores a frame, or has no descriptor for it.             *)
Frame ==
  /\ maccr.re /\ ~halted /\ pc \notin {"reset", "rings", "mode", "start"}
  /\ IF dma \in own
     THEN /\ own' = own \ {dma} /\ dma' = Next1(dma)
          /\ flags' = flags \cup {"R"} /\ UNCHANGED halted
     ELSE halted' = TRUE /\ flags' = flags \cup {"RBU"} /\ UNCHANGED <<own, dma>>
  /\ UNCHANGED <<pDMARxSet, maccr, taken, RBUFlag, RecStopFlag, DuplexMode, pc, copy, overlapped>>

(* The link comes up once more.                                            *)
LinkUp ==
  /\ flags' = flags \cup {"PHYLINK"}
  /\ UNCHANGED <<own, dma, pDMARxSet, halted, maccr, taken, RBUFlag, RecStopFlag,
                 DuplexMode, pc, copy, overlapped>>

(* WCHNET_NetInput: the library takes a frame and gives its descriptor     *)
(* back.                                                                   *)
NetInput ==
  /\ pc = "idle" /\ taken = {}
  /\ pDMARxSet \notin own
  /\ own' = own \cup {pDMARxSet}
  /\ pDMARxSet' = Next1(pDMARxSet)
  /\ UNCHANGED <<dma, halted, maccr, flags, taken, RBUFlag, RecStopFlag, DuplexMode,
                 pc, copy, overlapped>>

-----------------------------------------------------------------------------
(* WCHNET_ETHIsr: what DMASR says is handled ...                           *)
Short == \E n \in 0 .. Idle : (dma + n) % N \notin own

Isr ==
  LET run == "RBU" \in flags
      short == "R" \in flags /\ Short /\ ~RecStopFlag /\ ~RBUFlag /\ ~run
      up == "PHYLINK" \in flags
  IN  /\ taken = {} /\ flags # {}
      /\ taken' = flags
      /\ RBUFlag' = (RBUFlag \/ run)
      /\ RecStopFlag' = (RecStopFlag \/ short)
      /\ DuplexMode' \in (IF up THEN BOOLEAN ELSE {DuplexMode})
      /\ maccr' = [re |-> up \/ (maccr.re /\ ~run /\ ~short),
                   dm |-> IF up THEN DuplexMode' ELSE maccr.dm]
      /\ overlapped' = IF up THEN pc \in {"write", "start"} ELSE overlapped
      /\ UNCHANGED <<own, dma, pDMARxSet, halted, flags, pc, copy>>

(* ... and then cleared, with what was raised meanwhile.                   *)
IsrClear ==
  /\ taken # {}
  /\ flags' = flags \ taken
  /\ taken' = {}
  /\ UNCHANGED <<own, dma, pDMARxSet, halted, maccr, RBUFlag, RecStopFlag, DuplexMode,
                 pc, copy, overlapped>>

-----------------------------------------------------------------------------
(* WCHNET_RecProcess, between two runs of the handler.                     *)
Main(from, to) == taken = {} /\ pc = from /\ pc' = to

(* Without a descriptor left: ReInitMACReg.                                *)
TestRBU ==
  /\ IF RBUFlag THEN Main("idle", "suspend") ELSE Main("idle", "test")
  /\ RBUFlag' = FALSE
  /\ RecStopFlag' = (RecStopFlag /\ ~RBUFlag)
  /\ UNCHANGED <<own, dma, pDMARxSet, halted, maccr, flags, taken, DuplexMode, copy, overlapped>>

(* When transmission is suspended, the controller is reset.                *)
SoftwareReset ==
  /\ Main("suspend", "rings")
  /\ maccr' = [re |-> FALSE, dm |-> TRUE]
  /\ flags' = {} /\ halted' = FALSE
  /\ UNCHANGED <<own, dma, pDMARxSet, taken, RBUFlag, RecStopFlag, DuplexMode, copy, overlapped>>

RxDescChainInit ==
  /\ Main("rings", "mode")
  /\ own' = Ring /\ dma' = 0 /\ pDMARxSet' = 0
  /\ UNCHANGED <<halted, maccr, flags, taken, RBUFlag, RecStopFlag, DuplexMode, copy, overlapped>>

(* MACCR is cleared of the mode, which DuplexMode is to set; both are read *)
(* before they are written, ...                                            *)
ReadMode ==
  /\ Main("mode", "start")
  /\ copy' = [maccr EXCEPT !.dm = DuplexMode]
  /\ overlapped' = FALSE
  /\ UNCHANGED <<own, dma, pDMARxSet, halted, maccr, flags, taken, RBUFlag, RecStopFlag, DuplexMode>>

(* ... and ETH_Start.                                                      *)
Start ==
  /\ Main("start", "test")
  /\ maccr' = [copy EXCEPT !.re = TRUE]
  /\ UNCHANGED <<own, dma, pDMARxSet, halted, flags, taken, RBUFlag, RecStopFlag, DuplexMode,
                 copy, overlapped>>

(* Mistake: the flag is cleared before it is known that all was taken.     *)
TestStopEarly ==
  /\ IF RecStopFlag /\ pDMARxSet = dma /\ dma \in own
     THEN Main("test", "read") ELSE Main("test", "idle")
  /\ RecStopFlag' = FALSE
  /\ UNCHANGED <<own, dma, pDMARxSet, halted, maccr, flags, taken, RBUFlag, DuplexMode,
                 copy, overlapped>>

(* Everything was taken: the flag is cleared, and then reception enabled.  *)
TestStop ==
  /\ IF RecStopFlag /\ pDMARxSet = dma /\ dma \in own
     THEN Main("test", "read") ELSE Main("test", "idle")
  /\ RecStopFlag' = (RecStopFlag /\ ~(pDMARxSet = dma /\ dma \in own))
  /\ UNCHANGED <<own, dma, pDMARxSet, halted, maccr, flags, taken, RBUFlag, DuplexMode,
                 copy, overlapped>>

(* ETH_MACReceptionCmd(ENABLE).                                            *)
EnableRead ==
  /\ Main("read", "write")
  /\ copy' = maccr
  /\ UNCHANGED <<own, dma, pDMARxSet, halted, maccr, flags, taken, RBUFlag, RecStopFlag, DuplexMode,
                 overlapped>>

EnableWrite ==
  /\ Main("write", "idle")
  /\ maccr' = [copy EXCEPT !.re = TRUE]
  /\ UNCHANGED <<own, dma, pDMARxSet, halted, flags, taken, RBUFlag, RecStopFlag, DuplexMode,
                 copy, overlapped>>

RecProcess ==
  TestRBU \/ SoftwareReset \/ RxDescChainInit \/ ReadMode \/ Start
    \/ TestStop \/ EnableRead \/ EnableWrite
Handler == Isr \/ IsrClear

Next == Frame \/ LinkUp \/ NetInput \/ Handler \/ RecProcess

(* The handler runs when it is asked for, and the loop goes on, in which   *)
(* the library takes what there is, in spite of the interrupts.            *)
FairSpec ==
  /\ Init /\ [][Next]_vars
  /\ WF_vars(Handler) /\ SF_vars(NetInput) /\ SF_vars(RecProcess)

-----------------------------------------------------------------------------
(* Reception that is off is always on somebody's list: a flag is set for   *)
(* the main loop, or it is about to enable it.                             *)
NeverDeaf ==
  maccr.re \/ RBUFlag \/ RecStopFlag \/ pc \in {"suspend", "rings", "mode", "start", "read", "write"}

(* A controller that waits for a descriptor is set up anew.                *)
NeverHalted == halted => "RBU" \in flags \/ RBUFlag \/ pc = "suspend"

(* MACCR has the mode that was negotiated, unless the handler changed it   *)
(* while the main loop was about to write what it had read.                *)
ModeRight ==
  maccr.dm = DuplexMode \/ overlapped \/ pc \in {"suspend", "rings", "mode", "start"}

(* What the library has not taken lies between the two, in order.          *)
RingRight ==
  \E k \in 0 .. N : /\ Cardinality(Ring \ own) = k
                    /\ \A n \in 0 .. k - 1 : (pDMARxSet + n) % N \notin own
                    /\ (pDMARxSet + k) % N = dma

RxInv == NeverDeaf /\ NeverHalted /\ ModeRight /\ RingRight

(* Reception is turned on again.                                           *)
HearsAgain == ~maccr.re ~> maccr.re

-----------------------------------------------------------------------------
(* For every ring and every threshold, as MCPrograms proves.               *)
Spec == Init /\ [][Next]_vars

Mode == [re : BOOLEAN, dm : BOOLEAN]

(* What the three rest on: while the handler runs, it has told the main    *)
(* loop of the descriptor it found missing; what the loop is about to      *)
(* write has the negotiated mode.                                          *)
FlagsInv ==
  /\ maccr \in Mode /\ copy \in Mode
  /\ DuplexMode \in BOOLEAN
  /\ "RBU" \in taken => RBUFlag
  /\ pc \in {"start", "write"} => copy.dm = DuplexMode \/ overlapped
  /\ NeverDeaf /\ NeverHalted /\ ModeRight
=============================================================================
