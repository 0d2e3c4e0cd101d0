------------------------------ MODULE WchSetup ------------------------------
(***************************************************************************)
(* How the web example sets its Ethernet controller up (ETH_LibInit) and   *)
(* sends through it (ETH_TxPktChainMode), for the internal 10 Mbit PHY.    *)
(* Some registers are written as a whole and some keep bits that they had; *)
(* the wait for the controller's reset is given up after a while, and a    *)
(* reset that ends later undoes what was written meanwhile; the link may   *)
(* come up at any time once the PHY has its clock, but transmission is     *)
(* started by the handler of that event only.                              *)
(***************************************************************************)
EXTENDS Naturals, Sequences

CONSTANTS
  N,            \* ETH_TXBUFNB
  Frames        \* frames are told apart by their number modulo Frames

WchSetupAssumption == N \in Nat \ {0} /\ Frames \in Nat /\ Frames > N

Ring == 0 .. N - 1

(* What ETH_Configuration writes, in its order, and ETH_Init behind it.    *)
RegOrder == <<"MACCR", "MACFFR", "MACFCR", "DMAOMR", "PHY", "MACA0", "MMC", "DMAIER">>
Registers == {"MACCR", "MACFFR", "MACFCR", "DMAOMR", "MACA0", "MMC", "DMAIER", "DMATDLAR"}
Kept == {"MACCR", "MACFCR", "DMAOMR", "DMAIER"}    \* those whose other bits are kept

VARIABLES
  doing,        \* where the program is: among the steps below, or a place of RegOrder
  regs,         \* per register: "reset", "own", or with bits of before ("left", "mixed")
  resetting,    \* DMABMR: the software reset goes on
  phy,          \* "dark", "on", "linked", or "stopped" by the handler
  linkFlag,     \* DMASR: ETH_DMA_IT_PHYLINK
  running,      \* ETH_Start was called: the engines run
  suspended,    \* the transmit engine found nothing to send
  enabled,      \* NVIC_EnableIRQ
  own, frame,   \* per descriptor: it is the controller's, and what it points to
  DMATxDescToSet, dma,  \* the next one for the program, and for the controller
  sending,      \* where ETH_TxPktChainMode is
  count,        \* history: the number of the next frame, ...
  accepted,     \* ... those accepted and not yet sent, ...
  sent,         \* ... and the last one sent, of the history, or Frames
  late          \* history: the wait for the reset was given up

ringVars == <<own, frame, DMATxDescToSet, dma, sending, count, accepted, sent>>
vars == <<doing, regs, resetting, phy, linkFlag, running, suspended, enabled, ringVars, late>>

NextIn(i) == (i + 1) % N

-----------------------------------------------------------------------------
Goto(from, to) == doing = from /\ doing' = to

(* ETH_LibInit: when WCHNET_ConfigLIB fails, ETH_Init is not called; when  *)
(* WCHNET_Init fails it is.  main says so, and goes on.                    *)
LibInit ==
  /\ Goto("lib", "clocks") \/ Goto("lib", "loop")
  /\ UNCHANGED <<regs, resetting, phy, linkFlag, running, suspended, enabled, ringVars, late>>

(* The clocks of the controller and, behind ETH_SetClock, of the PHY.      *)
EnablePhy ==
  /\ Goto("clocks", "deinit")
  /\ phy' = "on"
  /\ UNCHANGED <<regs, resetting, linkFlag, running, suspended, enabled, ringVars, late>>

(* ETH_DeInit: the controller is reset by its bus, at once.                *)
DeInit ==
  /\ Goto("deinit", "reset")
  /\ regs' = [r \in Registers |-> "reset"] /\ linkFlag' = FALSE /\ running' = FALSE
  /\ UNCHANGED <<resetting, phy, suspended, enabled, ringVars, late>>

SoftwareReset ==
  /\ Goto("reset", "wait")
  /\ resetting' = TRUE
  /\ UNCHANGED <<regs, phy, linkFlag, running, suspended, enabled, ringVars, late>>

(* Mistake: there is none.                                                 *)
WaitNot ==
  /\ Goto("wait", RegOrder[1])
  /\ UNCHANGED <<regs, resetting, phy, linkFlag, running, suspended, enabled, ringVars, late>>

(* The wait, of 10000 times 10 us at most.                                 *)
Wait ==
  /\ Goto("wait", RegOrder[1])
  /\ late' = resetting
  /\ UNCHANGED <<regs, resetting, phy, linkFlag, running, suspended, enabled, ringVars>>

Following(r) ==
  LET i == CHOOSE j \in DOMAIN RegOrder : RegOrder[j] = r
  IN  IF i = Len(RegOrder) THEN "rings" ELSE RegOrder[i + 1]

Written(r) == IF r \in Kept /\ regs[r] = "left" THEN "mixed" ELSE "own"

(* ETH_RegInit and the rest of ETH_Configuration, register by register.    *)
RegInit(r) ==
  /\ r \in Registers /\ Goto(r, Following(r))
  /\ regs' = [regs EXCEPT ![r] = Written(r)]
  /\ UNCHANGED <<resetting, phy, linkFlag, running, suspended, enabled, ringVars, late>>

(* Mistake: the PHY stays as it is.                                        *)
ResetPhyNot ==
  /\ Goto("PHY", "MACA0")
  /\ UNCHANGED <<regs, resetting, phy, linkFlag, running, suspended, enabled, ringVars, late>>

(* PHY_Reset: a link that is there is given up, to come up once more.      *)
ResetPhy ==
  /\ Goto("PHY", "MACA0")
  /\ phy' = "on"
  /\ UNCHANGED <<regs, resetting, linkFlag, running, suspended, enabled, ringVars, late>>

(* ETH_DMATxDescChainInit and ETH_DMARxDescChainInit.                      *)
ChainInit ==
  /\ Goto("rings", "irq")
  /\ own' = [i \in Ring |-> FALSE] /\ DMATxDescToSet' = 0
  /\ dma' = 0 /\ regs' = [regs EXCEPT !["DMATDLAR"] = "own"]
  /\ UNCHANGED <<resetting, phy, linkFlag, running, suspended, enabled, frame, sending,
                 count, accepted, sent, late>>

(* NVIC_EnableIRQ.                                                         *)
EnableIRQ ==
  /\ Goto("irq", "loop")
  /\ enabled' = TRUE
  /\ UNCHANGED <<regs, resetting, phy, linkFlag, running, suspended, ringVars, late>>

Main ==
  \/ LibInit \/ EnablePhy \/ DeInit \/ SoftwareReset \/ Wait \/ ResetPhy \/ ChainInit \/ EnableIRQ
  \/ \E r \in Registers : RegInit(r)

-----------------------------------------------------------------------------
(* WCHNET_ETHIsr and ETH_PHYLink: ETH_Start when the link is there and was *)
(* negotiated, otherwise the PHY loses its clock for a while.  The mode    *)
(* and the filter, which it changes, are not told apart here.              *)
Isr ==
  /\ enabled /\ linkFlag /\ regs["DMAIER"] # "reset"
  /\ linkFlag' = FALSE
  /\ \/ phy = "linked" /\ running' = TRUE /\ suspended' = FALSE /\ UNCHANGED phy
     \/ phy' = "stopped" /\ UNCHANGED <<running, suspended>>
  /\ UNCHANGED <<doing, regs, resetting, enabled, ringVars, late>>

(* WCHNET_HandlePhyNegotiation, when the time is over.                     *)
RestartPhy ==
  /\ doing = "loop" /\ phy = "stopped"
  /\ phy' = "on"
  /\ UNCHANGED <<doing, regs, resetting, linkFlag, running, suspended, enabled, ringVars, late>>

(* Mistake: the descriptor is the controller's at once.                    *)
SendFillOwned ==
  /\ doing = "loop" /\ enabled /\ sending = "no" /\ ~own[DMATxDescToSet]
  /\ own' = [own EXCEPT ![DMATxDescToSet] = TRUE]
  /\ sending' = "filled"
  /\ count' = (count + 1) % Frames /\ accepted' = Append(accepted, count)
  /\ UNCHANGED <<doing, regs, resetting, phy, linkFlag, running, suspended, enabled, frame,
                 DMATxDescToSet, dma, sent, late>>

(* ETH_TxPktChainMode, called by the library with the next frame: without  *)
(* a descriptor it fails; else the frame's address is written, ...         *)
SendFill ==
  /\ doing = "loop" /\ enabled /\ sending = "no" /\ ~own[DMATxDescToSet]
  /\ frame' = [frame EXCEPT ![DMATxDescToSet] = count]
  /\ sending' = "filled"
  /\ count' = (count + 1) % Frames /\ accepted' = Append(accepted, count)
  /\ UNCHANGED <<doing, regs, resetting, phy, linkFlag, running, suspended, enabled, own,
                 DMATxDescToSet, dma, sent, late>>

(* ... the descriptor given to the controller, ...                         *)
SendOwn ==
  /\ sending = "filled"
  /\ own' = [own EXCEPT ![DMATxDescToSet] = TRUE]
  /\ sending' = "owned"
  /\ UNCHANGED <<doing, regs, resetting, phy, linkFlag, running, suspended, enabled, frame,
                 DMATxDescToSet, dma, count, accepted, sent, late>>

(* ... which is told to look, and the next one is next.                    *)
SendPoll ==
  /\ sending = "owned"
  /\ suspended' = FALSE
  /\ DMATxDescToSet' = NextIn(DMATxDescToSet)
  /\ sending' = "no"
  /\ UNCHANGED <<doing, regs, resetting, phy, linkFlag, running, enabled, own, frame, dma,
                 count, accepted, sent, late>>

TxPktChainMode == SendFill \/ SendOwn \/ SendPoll

-----------------------------------------------------------------------------
(* The reset ends: what was written since it began is gone.                *)
ResetEnds ==
  /\ resetting
  /\ resetting' = FALSE
  /\ regs' = [r \in Registers |-> "reset"] /\ linkFlag' = FALSE /\ running' = FALSE
  /\ UNCHANGED <<doing, phy, suspended, enabled, ringVars, late>>

(* The link comes up or is lost.                                           *)
LinkChange ==
  /\ \/ phy = "on" /\ phy' = "linked"
     \/ phy = "linked" /\ phy' = "on"
  /\ linkFlag' = ~resetting
  /\ UNCHANGED <<doing, regs, resetting, running, suspended, enabled, ringVars, late>>

(* The transmit engine.                                                    *)
Transmit ==
  /\ running /\ ~suspended /\ doing = "loop"
  /\ IF own[dma]
     THEN /\ own' = [own EXCEPT ![dma] = FALSE] /\ dma' = NextIn(dma)
          /\ sent' = frame[dma]
          /\ accepted' = IF accepted # <<>> /\ Head(accepted) = frame[dma] THEN Tail(accepted)
                         ELSE accepted
          /\ UNCHANGED suspended
     ELSE suspended' = TRUE /\ UNCHANGED <<own, dma, sent, accepted>>
  /\ UNCHANGED <<doing, regs, resetting, phy, linkFlag, running, enabled, frame,
                 DMATxDescToSet, sending, count, late>>

(* Behind a reset of the processor, or as an earlier program left it.      *)
Init ==
  /\ doing = "lib" /\ resetting = FALSE /\ late = FALSE /\ enabled = FALSE
  /\ \E value \in {"reset", "left"} : regs = [r \in Registers |-> value]
  /\ phy = "dark" /\ linkFlag = FALSE /\ running = FALSE /\ suspended = FALSE
  /\ own = [i \in Ring |-> FALSE] /\ frame = [i \in Ring |-> 0]
  /\ DMATxDescToSet = 0 /\ dma = 0 /\ sending = "no"
  /\ count = 0 /\ accepted = <<>> /\ sent = Frames

Next ==
  Main \/ Isr \/ RestartPhy \/ TxPktChainMode \/ ResetEnds \/ LinkChange \/ Transmit

Spec == Init /\ [][Next]_vars

-----------------------------------------------------------------------------
(* When the handler may run, every register is as the program wants it,    *)
(* unless the reset took longer than the program waits.                    *)
SetRight == enabled /\ ~late => \A r \in Registers : regs[r] = "own"

(* A link that is up has been, or will be, noticed by the handler: one     *)
(* that came up during the resets is given up by that of the PHY.          *)
LinkNoticed == enabled /\ ~late /\ phy = "linked" => linkFlag \/ running

(* Even then the engines never run on descriptors that are not the         *)
(* program's own.                                                          *)
OwnRing == running => regs["DMATDLAR"] = "own"

(* Frames that were accepted lie in the ring in their order, from the one  *)
(* the controller is at to the one that is set next, and none of them is   *)
(* lost or sent twice; and the engine does not sleep on one, but while the *)
(* program is about to wake it.                                            *)
FramesRight ==
  LET given == IF sending = "filled" THEN Len(accepted) - 1 ELSE Len(accepted)
  IN  /\ given \in 0 .. N
      /\ \A n \in 1 .. given :
           own[(dma + n - 1) % N] /\ frame[(dma + n - 1) % N] = accepted[n]
      /\ \A n \in given .. N - 1 : ~own[(dma + n) % N]
      /\ suspended => given = 0 \/ sending = "owned"
      /\ sent = Frames \/ (sent + 1 + Len(accepted)) % Frames = count

SetupInv == SetRight /\ LinkNoticed /\ OwnRing /\ FramesRight
=============================================================================
