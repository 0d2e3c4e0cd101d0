------------------------------ MODULE EthSetup ------------------------------
(***************************************************************************)
(* eth_init of perlib/eth.c up to the PHY: the registers of the Ethernet   *)
(* controller, one function of the source a step, and frames on the line   *)
(* meanwhile.  A register is the set of those of its bits that the source  *)
(* knows of and that are set.  Several of the functions only or bits in;   *)
(* what was there before (an earlier program, an earlier eth_init) is gone *)
(* only because of the reset of the controller, which takes its time.      *)
(***************************************************************************)

VARIABLES
  clocked,      \* the controller has its clocks
  resetting,    \* DMABMR: the software reset goes on
  maccr, macffr, macfcr, dmaomr, dmaier,  \* registers
  address,      \* MACA0HR and MACA0LR: "left", "own" or all ones ("reset")
  lists,        \* DMARDLAR and DMATDLAR point to the descriptors
  flushed,      \* the transmit FIFO is empty
  interrupts,   \* the interrupt is enabled in the interrupt controller
  doing,        \* where eth_init is
  received      \* history: what frames have come in since eth_reset

vars == <<clocked, resetting, maccr, macffr, macfcr, dmaomr, dmaier, address,
          lists, flushed, interrupts, doing, received>>

(* MACCR: watchdog off, jabber off, resistors of the PHY, duplex, IP       *)
(* checksums, loop, removal of the CRC, transmitter, receiver.             *)
ModeBits == {"wd", "jd", "pr", "dm", "ipco", "lm", "apcs", "te", "re"}

(* MACFFR: no filter, promiscuous, pause frames too, no broadcasts, ...    *)
FilterBits == {"ra", "pm", "pcf", "bfd", "daif", "saf", "hu", "hm"}

(* MACFCR.                                                                 *)
FlowBits == {"pt", "zqpd", "upfd", "rfce", "tfce"}

(* DMAIER.                                                                 *)
InterruptBits ==
  {"nise", "aise", "tuie", "tjtie", "tbuie", "tpsie", "tie", "ple", "rie", "rbuie"}

(* DMAOMR: frames whose checksum is wrong are kept, store and forward,     *)
(* frames with errors and short ones are kept, the two engines run.        *)
OperationBits == {"dtcefd", "tsf", "fef", "fugf", "st", "sr"}

-----------------------------------------------------------------------------
(* eth_rcc_init, and EXTEN_ETH_10M_EN.                                     *)
RccInit ==
  /\ doing = "out"
  /\ clocked' = TRUE
  /\ doing' = "reset"
  /\ UNCHANGED <<resetting, maccr, macffr, macfcr, dmaomr, dmaier, address, lists,
                 flushed, interrupts, received>>

(* eth_reset: softreset, ...                                               *)
Reset ==
  /\ doing = "reset"
  /\ resetting' = TRUE
  /\ doing' = "resetting"
  /\ UNCHANGED <<clocked, maccr, macffr, macfcr, dmaomr, dmaier, address, lists,
                 flushed, interrupts, received>>

(* Mistake: nobody waits.                                                  *)
ControlInitSoon ==
  /\ doing = "resetting"
  /\ maccr' = (maccr \cup {"pr", "dm", "ipco"}) \ {"wd", "jd", "lm", "apcs"}
  /\ macfcr' = (macfcr \cup {"pt", "zqpd"}) \ {"upfd", "rfce", "tfce"}
  /\ doing' = "filter"
  /\ UNCHANGED <<clocked, resetting, macffr, dmaomr, dmaier, address, lists, flushed,
                 interrupts, received>>

(* ... until it is over; eth_control_init with eth_flow_control_init.      *)
ControlInit ==
  /\ doing = "resetting" /\ ~resetting
  /\ maccr' = (maccr \cup {"pr", "dm", "ipco"}) \ {"wd", "jd", "lm", "apcs"}
  /\ macfcr' = (macfcr \cup {"pt", "zqpd"}) \ {"upfd", "rfce", "tfce"}
  /\ doing' = "filter"
  /\ UNCHANGED <<clocked, resetting, macffr, dmaomr, dmaier, address, lists, flushed,
                 interrupts, received>>

(* eth_filter_init: all it ors in is zero.                                 *)
FilterInit ==
  /\ doing = "filter"
  /\ macffr' = macffr \cup {}
  /\ doing' = "dma"
  /\ UNCHANGED <<clocked, resetting, maccr, macfcr, dmaomr, dmaier, address, lists,
                 flushed, interrupts, received>>

(* eth_dma_init.                                                           *)
DmaInit ==
  /\ doing = "dma"
  /\ dmaomr' = (dmaomr \cup {"tsf", "fef", "fugf"}) \ {"dtcefd"}
  /\ lists' = TRUE
  /\ doing' = "irq"
  /\ UNCHANGED <<clocked, resetting, maccr, macffr, macfcr, dmaier, address, flushed,
                 interrupts, received>>

(* eth_irq_init.                                                           *)
IrqInit ==
  /\ doing = "irq"
  /\ dmaier' = dmaier \cup
       {"nise", "aise", "tuie", "tjtie", "tbuie", "tpsie", "tie", "ple"}
  /\ interrupts' = TRUE
  /\ doing' = "mac"
  /\ UNCHANGED <<clocked, resetting, maccr, macffr, macfcr, dmaomr, address, lists,
                 flushed, received>>

(* eth_set_mac.                                                            *)
SetMac ==
  /\ doing = "mac"
  /\ address' = "own"
  /\ doing' = "start_te"
  /\ UNCHANGED <<clocked, resetting, maccr, macffr, macfcr, dmaomr, dmaier, lists,
                 flushed, interrupts, received>>

(* eth_start: one write after the other.                                   *)
StartTransmitter ==
  /\ doing = "start_te"
  /\ maccr' = maccr \cup {"te"}
  /\ doing' = "start_ftf"
  /\ UNCHANGED <<clocked, resetting, macffr, macfcr, dmaomr, dmaier, address, lists,
                 flushed, interrupts, received>>

StartFlush ==
  /\ doing = "start_ftf"
  /\ flushed' = TRUE
  /\ doing' = "start_re"
  /\ UNCHANGED <<clocked, resetting, maccr, macffr, macfcr, dmaomr, dmaier, address,
                 lists, interrupts, received>>

StartReceiver ==
  /\ doing = "start_re"
  /\ maccr' = maccr \cup {"re"}
  /\ doing' = "start_st"
  /\ UNCHANGED <<clocked, resetting, macffr, macfcr, dmaomr, dmaier, address, lists,
                 flushed, interrupts, received>>

StartEngines ==
  /\ \/ doing = "start_st" /\ dmaomr' = dmaomr \cup {"st"} /\ doing' = "start_sr"
     \/ doing = "start_sr" /\ dmaomr' = dmaomr \cup {"sr"} /\ doing' = "started"
  /\ UNCHANGED <<clocked, resetting, maccr, macffr, macfcr, dmaier, address, lists,
                 flushed, interrupts, received>>

Start == StartTransmitter \/ StartFlush \/ StartReceiver \/ StartEngines

-----------------------------------------------------------------------------
(* The reset comes to its end: every register has its reset value, what    *)
(* the driver has written meanwhile is gone.                               *)
ResetEnds ==
  /\ resetting /\ clocked
  /\ resetting' = FALSE
  /\ maccr' = {} /\ macffr' = {} /\ macfcr' = {} /\ dmaomr' = {} /\ dmaier' = {}
  /\ address' = "reset" /\ lists' = FALSE /\ flushed' = TRUE
  /\ UNCHANGED <<clocked, interrupts, doing, received>>

(* The filter passes a frame, as the registers are.                        *)
Passes(kind) ==
  \/ "ra" \in macffr \/ "pm" \in macffr
  \/ kind = "own" /\ address = "own"
  \/ kind = "former" /\ address = "left"
  \/ kind = "broadcast" /\ "bfd" \notin macffr
  \/ kind = "pause" /\ "pcf" \in macffr

(* A frame comes: to this host, to the one this controller was before, to  *)
(* all, to another one, or a pause frame.                                  *)
Frame(kind) ==
  /\ clocked /\ ~resetting
  /\ "re" \in maccr /\ "sr" \in dmaomr
  /\ Passes(kind)
  /\ received' = IF doing \in {"out", "reset", "resetting"} THEN received
                 ELSE received \cup {[kind |-> kind, lists |-> lists]}
  /\ UNCHANGED <<clocked, resetting, maccr, macffr, macfcr, dmaomr, dmaier, address,
                 lists, flushed, interrupts, doing>>

(* Behind a reset of the processor, or the controller as an earlier        *)
(* program may have left it, which also may have left it running.          *)
Init ==
  /\ \/ /\ clocked = FALSE /\ flushed = TRUE
        /\ maccr = {} /\ macffr = {} /\ macfcr = {} /\ dmaomr = {} /\ dmaier = {}
        /\ address = "reset"
     \/ /\ clocked \in BOOLEAN /\ flushed = FALSE
        /\ maccr \in {{"re", "te"}, {"lm", "apcs"}}
        /\ macffr \in {{"ra"}, {"pm"}, {"pcf"}, {"bfd"}}
        /\ macfcr = {"rfce", "tfce"}
        /\ dmaomr \in {{"dtcefd"}, {"st", "sr"}}
        /\ dmaier = {"rie", "nise"}
        /\ address = "left"
  /\ resetting = FALSE
  /\ lists = FALSE
  /\ interrupts = FALSE
  /\ doing = "out"
  /\ received = {}

Initialise ==
  \/ RccInit \/ Reset \/ ControlInit \/ FilterInit \/ DmaInit \/ IrqInit \/ SetMac
  \/ Start

Kinds == {"own", "former", "broadcast", "other", "pause"}

Next == Initialise \/ ResetEnds \/ \E kind \in Kinds : Frame(kind)

-----------------------------------------------------------------------------
(* Since the reset, what comes into the buffers is for this host or for    *)
(* all, whatever the filter was before; and the buffers are this driver's. *)
FilterRight ==
  \A f \in received : f.kind \in {"own", "broadcast"} /\ f.lists

(* What the comments of eth_control_init, eth_flow_control_init and        *)
(* eth_dma_init say holds of the controller that has been started: frames  *)
(* are limited, no loop, the CRC stays, pause frames are neither obeyed    *)
(* nor sent; and the flags that the handler goes through raise it.         *)
StartedRight ==
  doing = "started" =>
    /\ maccr = {"pr", "dm", "ipco", "te", "re"}
    /\ macffr = {} /\ macfcr = {"pt", "zqpd"}
    /\ dmaomr = {"tsf", "fef", "fugf", "st", "sr"}
    /\ dmaier = InterruptBits \ {"rie", "rbuie"}
    /\ address = "own" /\ lists /\ flushed /\ interrupts

(* The transmit engine never runs on what an earlier program had in the    *)
(* FIFO.                                                                   *)
NothingOld == doing \in {"start_st", "start_sr", "started"} => flushed /\ lists

TypeOK ==
  /\ maccr \subseteq ModeBits /\ macffr \subseteq FilterBits
  /\ macfcr \subseteq FlowBits /\ dmaomr \subseteq OperationBits
  /\ dmaier \subseteq InterruptBits

Inv == TypeOK /\ FilterRight /\ StartedRight /\ NothingOld
=============================================================================
