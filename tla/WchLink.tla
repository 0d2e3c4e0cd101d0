------------------------------ MODULE WchLink -------------------------------
(***************************************************************************)
(* How the web example's driver brings up the link of the internal 10 Mbit *)
(* PHY: the interrupt handler (ETH_PHYLink) takes a link that comes up, or *)
(* turns the PHY's clock off; the main loop turns it on again after a      *)
(* while, and looks for the way the wires are crossed and their polarity   *)
(* until the link is up (WCHNET_HandlePhyNegotiation, WCHNET_LinkProcess). *)
(* The handler may come between any two steps of the main loop.  What the  *)
(* loop reads of the PHY may be anything: the PHY changes by itself, and a *)
(* read that the handler comes into returns what the handler read last.    *)
(* Time is counted in PHY_LINK_TASK_PERIODs, up to the longest wait.       *)
(***************************************************************************)
EXTENDS Naturals

CONSTANTS
  ResetWait,    \* 10: the clock stays off for 500 ms
  ReInitWait,   \* 5
  TRTries,      \* 8: crossings tried
  SucTries,     \* 5: while a partner answers
  WaitTries,    \* 15: without an answer
  PTries,       \* 4: with the normal polarity
  LongTries,    \* 100: with the polarity left to the PHY
  Byte          \* the values of an uint8_t

WchLinkAssumption ==
  /\ {ResetWait, ReInitWait, TRTries, SucTries, WaitTries, PTries, LongTries, Byte} \subseteq Nat
  /\ TRTries > 1 /\ ReInitWait <= ResetWait /\ Byte > LongTries + 1

VARIABLES
  clock,            \* EXTEN_ETH_10M_EN
  linked,           \* the PHY has a link
  pending,          \* PHYLINK in DMASR
  reading,          \* the handler has read the PHY and not yet cleared the flag
  missed,           \* the link changed while it had (of the history)
  phyLinkReset, phyStatus, phyLinkStatus,
  phyPN,            \* "auto", "P" or "N"
  phyLinkCnt, phySucCnt, TRDetectStep, TRDetectCnt,
  LinkTaskPeriod,
  since,            \* LocalTime - phyLinkTime
  sinceUp,          \* LocalTime - LinkSuccTime
  ReInitMACFlag, PhyPolarityDetect,
  RBUFlag,          \* the receive ring ran out
  pc                \* where the main loop is

phyVars == <<clock, linked, pending, reading, missed>>
searchVars == <<phyLinkStatus, phyPN, phyLinkCnt, phySucCnt, TRDetectStep, TRDetectCnt>>
upVars == <<phyStatus, PhyPolarityDetect, sinceUp>>
vars == <<phyVars, searchVars, upVars, phyLinkReset, LinkTaskPeriod, since, ReInitMACFlag, RBUFlag, pc>>

Init ==
  /\ clock = TRUE /\ linked = FALSE /\ pending = FALSE /\ reading = FALSE /\ missed = FALSE
  /\ phyLinkReset = FALSE /\ phyStatus = FALSE /\ phyLinkStatus = "init"
  /\ phyPN = "auto" /\ phyLinkCnt = 0 /\ phySucCnt = 0 /\ TRDetectStep = 0 /\ TRDetectCnt = 0
  /\ LinkTaskPeriod = 1 /\ since = 0 /\ sinceUp = 0
  /\ ReInitMACFlag = FALSE /\ PhyPolarityDetect = FALSE /\ RBUFlag = FALSE
  /\ pc = "idle"

(* WCHNET_TimeIsr.                                                         *)
TimeIsr ==
  /\ ~reading
  /\ since < ResetWait \/ sinceUp < 2
  /\ since' = IF since < ResetWait THEN since + 1 ELSE since
  /\ sinceUp' = IF sinceUp < 2 THEN sinceUp + 1 ELSE sinceUp
  /\ UNCHANGED <<RBUFlag, phyVars, searchVars, phyStatus, PhyPolarityDetect, phyLinkReset,
                 LinkTaskPeriod, ReInitMACFlag, pc>>

(* The link comes up or goes down.                                         *)
LinkChange ==
  /\ clock
  /\ linked' = ~linked
  /\ pending' = TRUE
  /\ missed' = (missed \/ reading)
  /\ UNCHANGED <<RBUFlag, clock, reading, searchVars, upVars, phyLinkReset, LinkTaskPeriod, since,
                 ReInitMACFlag, pc>>

-----------------------------------------------------------------------------
(* ETH_PHYLink, in the handler: the link is up and negotiated, ...         *)
TakeLink ==
  /\ phyStatus' = TRUE /\ PhyPolarityDetect' = TRUE /\ sinceUp' = 0
  /\ UNCHANGED <<clock, linked, phyLinkReset, since>>

(* ... or everything begins anew.                                          *)
ClockOff ==
  /\ clock' = FALSE /\ linked' = FALSE
  /\ phyLinkReset' = TRUE /\ since' = 0
  /\ UNCHANGED upVars

PHYLink ==
  /\ pending /\ ~reading
  /\ reading' = TRUE
  /\ missed' = FALSE
  /\ (linked /\ TakeLink) \/ ClockOff
  /\ UNCHANGED <<RBUFlag, pending, searchVars, LinkTaskPeriod, ReInitMACFlag, pc>>

(* WCHNET_ETHIsr clears the flag, with what was raised meanwhile.          *)
ClearFlag ==
  /\ reading
  /\ reading' = FALSE /\ pending' = FALSE
  /\ UNCHANGED <<RBUFlag, clock, linked, missed, searchVars, upVars, phyLinkReset, LinkTaskPeriod,
                 since, ReInitMACFlag, pc>>

-----------------------------------------------------------------------------
Main(from, to) == ~reading /\ pc = from /\ pc' = to

(* WCHNET_HandlePhyNegotiation: the clock was off for long enough; the     *)
(* flag is cleared, ...                                                    *)
EndReset ==
  /\ phyLinkReset /\ since >= ResetWait
  /\ Main("idle", "clock")
  /\ phyLinkReset' = FALSE
  /\ UNCHANGED <<RBUFlag, phyVars, searchVars, upVars, LinkTaskPeriod, since, ReInitMACFlag>>

(* ... the clock turned on, ...                                            *)
ClockOn ==
  /\ Main("clock", "reset")
  /\ clock' = TRUE
  /\ UNCHANGED <<RBUFlag, linked, pending, reading, missed, searchVars, upVars, phyLinkReset,
                 LinkTaskPeriod, since, ReInitMACFlag>>

(* ... and the PHY reset: PHY_LINK_RESET, which ends a link, ...           *)
PhyReset ==
  /\ Main("reset", "params")
  /\ linked' = FALSE /\ pending' = (pending \/ linked)
  /\ UNCHANGED <<RBUFlag, clock, reading, missed, searchVars, upVars, phyLinkReset, LinkTaskPeriod,
                 since, ReInitMACFlag>>

(* Mistake: the flag is cleared once more.                                 *)
ParamInitClearing ==
  /\ Main("params", "idle")
  /\ phyStatus' = FALSE /\ PhyPolarityDetect' = FALSE /\ phyLinkReset' = FALSE
  /\ phySucCnt' = 0 /\ phyLinkCnt' = 0 /\ TRDetectStep' = 0
  /\ phyLinkStatus' = "init" /\ phyPN' = "auto"
  /\ UNCHANGED <<RBUFlag, phyVars, TRDetectCnt, sinceUp, LinkTaskPeriod, since, ReInitMACFlag>>

(* ... and PHY_NEGOTIATION_PARAM_INIT.                                     *)
ParamInit ==
  /\ Main("params", "idle")
  /\ phyStatus' = FALSE /\ PhyPolarityDetect' = FALSE
  /\ phySucCnt' = 0 /\ phyLinkCnt' = 0 /\ TRDetectStep' = 0
  /\ phyLinkStatus' = "init" /\ phyPN' = "auto"
  /\ UNCHANGED <<RBUFlag, phyVars, TRDetectCnt, sinceUp, phyLinkReset, LinkTaskPeriod, since, ReInitMACFlag>>

(* There is no link: ACCELERATE_LINK_PROCESS; when it is time,             *)
(* UPDATE_LINKTASKPERIOD, and WCHNET_LinkProcess follows.                  *)
LinkTask ==
  /\ ~phyLinkReset /\ ~phyStatus
  /\ \E period \in {LinkTaskPeriod} \cup (IF TRDetectStep < 2 THEN {0} ELSE {}) :
       IF since >= period
       THEN /\ Main("idle", "process")
            /\ since' = 0
            /\ LinkTaskPeriod' \in (IF TRDetectStep = 1 THEN {1, 2} ELSE {1})
       ELSE Main("idle", "idle") /\ LinkTaskPeriod' = period /\ UNCHANGED since
  /\ ReInitMACFlag' = FALSE
  /\ UNCHANGED <<RBUFlag, phyVars, searchVars, upVars, phyLinkReset>>

(* There is one; after a ReInitMACReg it is looked at once more.           *)
CheckLink ==
  /\ ~phyLinkReset /\ phyStatus /\ ReInitMACFlag /\ since >= ReInitWait
  /\ \E down \in BOOLEAN : Main("idle", IF down THEN "reset" ELSE "idle")
  /\ ReInitMACFlag' = FALSE
  /\ UNCHANGED <<RBUFlag, phyVars, searchVars, upVars, phyLinkReset, LinkTaskPeriod, since>>

(* WCHNET_PhyPNProcess: good frames end the detection.                     *)
PNProcess ==
  /\ PhyPolarityDetect
  /\ Main("idle", "idle")
  /\ ~phyLinkReset /\ phyStatus /\ sinceUp >= 2
  /\ sinceUp' = 0
  /\ PhyPolarityDetect' \in BOOLEAN
  /\ UNCHANGED <<RBUFlag, phyVars, searchVars, phyStatus, phyLinkReset, LinkTaskPeriod, since, ReInitMACFlag>>

(* WCHNET_RecProcess, with ReInitMACReg: as the handler has seen the       *)
(* receive ring run out.                                                   *)
RingEmpty ==
  /\ clock /\ ~reading /\ ~RBUFlag
  /\ RBUFlag' = TRUE
  /\ UNCHANGED <<phyVars, searchVars, upVars, phyLinkReset, LinkTaskPeriod, since,
                 ReInitMACFlag, pc>>

ReInitMACReg ==
  /\ RBUFlag
  /\ Main("idle", IF phyStatus THEN "idle" ELSE "reset")
  /\ RBUFlag' = FALSE
  /\ IF PhyPolarityDetect THEN sinceUp' = 0 /\ PhyPolarityDetect' \in BOOLEAN
     ELSE UNCHANGED <<sinceUp, PhyPolarityDetect>>
  /\ ReInitMACFlag' = TRUE /\ since' = 0
  /\ UNCHANGED <<phyVars, searchVars, phyStatus, phyLinkReset, LinkTaskPeriod>>

-----------------------------------------------------------------------------
(* WCHNET_LinkProcess.                                                     *)
Process == Main("process", "idle") /\ UNCHANGED <<RBUFlag, phyVars, upVars, phyLinkReset, since, ReInitMACFlag>>

(* A partner answers (PHY_ANLPAR): once, the wires are crossed the other   *)
(* way; ...                                                                *)
CrossOnce ==
  /\ TRDetectStep = 0
  /\ TRDetectStep' = 1 /\ TRDetectCnt' = 1
  /\ LinkTaskPeriod' \in {1, 2}
  /\ UNCHANGED <<phyLinkStatus, phyPN, phyLinkCnt, phySucCnt>>
  /\ Process

(* ... if it still does, the polarity is set to normal, ...                *)
Crossed ==
  /\ TRDetectStep > 0
  /\ TRDetectStep' = 2
  /\ TRDetectCnt' = IF TRDetectStep = 1 THEN 0 ELSE TRDetectCnt
  /\ phyLinkCnt' = 0
  /\ UNCHANGED LinkTaskPeriod
  /\ Process

SetPolarity ==
  /\ phyLinkStatus = "init"
  /\ IF phyPN = "auto" THEN phyPN' = "P" /\ UNCHANGED phyLinkStatus
     ELSE phyLinkStatus' = "wait" /\ UNCHANGED phyPN
  /\ UNCHANGED phySucCnt
  /\ Crossed

(* ... and changed after some tries without success.                       *)
AwaitSuccess(complete) ==
  /\ phyLinkStatus = "wait"
  /\ IF phySucCnt = SucTries /\ ~complete
     THEN phySucCnt' = 0 /\ phyPN' = IF phyPN = "N" THEN "P" ELSE "N"
     ELSE phySucCnt' = (phySucCnt + 1) % Byte /\ UNCHANGED phyPN
  /\ UNCHANGED phyLinkStatus
  /\ Crossed

(* Nobody answers: after each crossing another is tried, ...               *)
CrossAgain ==
  /\ TRDetectStep = 1
  /\ IF TRDetectCnt + 1 = TRTries THEN TRDetectCnt' = 0 /\ TRDetectStep' = 0
     ELSE TRDetectCnt' = TRDetectCnt + 1 /\ UNCHANGED TRDetectStep
  /\ UNCHANGED <<phyLinkStatus, phyPN, phyLinkCnt, phySucCnt, LinkTaskPeriod>>
  /\ Process

(* ... and the polarity: after some tries, normal gives way to reversed,   *)
(* and everything else to a search from the beginning.                     *)
Limit == IF phyLinkStatus = "wait" THEN WaitTries
         ELSE CASE phyPN = "P" -> PTries [] phyPN = "N" -> WaitTries [] phyPN = "auto" -> LongTries

CountSilence ==
  /\ TRDetectStep # 1 /\ phyLinkCnt # Limit
  /\ phyLinkCnt' = (phyLinkCnt + 1) % Byte
  /\ UNCHANGED <<phyLinkStatus, phyPN, phySucCnt, TRDetectStep, TRDetectCnt, LinkTaskPeriod>>
  /\ Process

ReversePolarity ==
  /\ TRDetectStep # 1 /\ phyLinkCnt = Limit
  /\ phyLinkStatus = "init" /\ phyPN = "P"
  /\ phyLinkCnt' = 0 /\ phyPN' = "N"
  /\ UNCHANGED <<phyLinkStatus, phySucCnt, TRDetectStep, TRDetectCnt, LinkTaskPeriod>>
  /\ Process

SearchAnew ==
  /\ TRDetectStep # 1 /\ phyLinkCnt = Limit
  /\ phyLinkStatus = "wait" \/ phyPN = "N"
  /\ phyLinkCnt' = 0 /\ phySucCnt' = 0 /\ TRDetectStep' = 0
  /\ phyLinkStatus' = "init" /\ phyPN' = "auto"
  /\ UNCHANGED <<TRDetectCnt, LinkTaskPeriod>>
  /\ Process

GiveUp ==
  /\ TRDetectStep # 1 /\ phyLinkCnt = Limit
  /\ phyLinkStatus = "init" /\ phyPN = "auto"
  /\ Main("process", "reset")
  /\ phyLinkCnt' = phyLinkCnt + 1
  /\ UNCHANGED <<RBUFlag, phyVars, upVars, phyLinkReset, since, ReInitMACFlag, phyLinkStatus, phyPN,
                 phySucCnt, TRDetectStep, TRDetectCnt, LinkTaskPeriod>>

LinkProcess ==
  \/ CrossOnce \/ SetPolarity \/ \E complete \in BOOLEAN : AwaitSuccess(complete)
  \/ CrossAgain \/ CountSilence \/ ReversePolarity \/ SearchAnew \/ GiveUp

Loop ==
  \/ EndReset \/ ClockOn \/ PhyReset \/ ParamInit
  \/ LinkTask \/ CheckLink \/ PNProcess \/ LinkProcess
Handler == PHYLink \/ ClearFlag
Next == TimeIsr \/ LinkChange \/ RingEmpty \/ Handler \/ Loop \/ ReInitMACReg

(* The handler runs when it is asked for, the loop in spite of it, and     *)
(* the timer runs.                                                         *)
FairSpec ==
  /\ Init /\ [][Next]_vars
  /\ WF_vars(Handler) /\ SF_vars(Loop) /\ SF_vars(EndReset) /\ SF_vars(TimeIsr)

-----------------------------------------------------------------------------
(* A clock that is off is turned on by somebody: the flag that says so is  *)
(* not cleared by one of the two while the other sets it.                  *)
ClockHeld == ~clock => phyLinkReset \/ pc = "clock"

(* A link that the program takes for up is up, unless it will hear of it,  *)
(* or the change came while the handler had read the PHY and not yet       *)
(* cleared the flag.                                                       *)
LinkSeen ==
  phyStatus /\ ~linked => \/ pending \/ missed \/ phyLinkReset
                          \/ pc \in {"clock", "reset", "params"}

(* The search keeps its order, and no count passes the value it is         *)
(* compared with, though it is compared for equality; phySucCnt may.       *)
SearchRight ==
  /\ TRDetectStep < 2 => phyPN = "auto" /\ phyLinkStatus = "init"
  /\ TRDetectStep = 1 => TRDetectCnt \in 1 .. TRTries - 1
  /\ pc \notin {"reset", "params"} => phyLinkCnt <= Limit
  /\ phyLinkStatus = "wait" => phyPN # "auto" /\ TRDetectStep = 2

LinkInv == ClockHeld /\ LinkSeen /\ SearchRight

(* The clock is turned on again.                                           *)
ClockBack == ~clock ~> clock

-----------------------------------------------------------------------------
(* For every wait, every number of tries and every width of the counts, as *)
(* MCPrograms proves.                                                      *)
Spec == Init /\ [][Next]_vars

(* What the two rest on: the handler that has seen a link and not yet      *)
(* cleared the flag either still sees it or has missed the change.         *)
PhyInv ==
  /\ ClockHeld /\ LinkSeen
  /\ reading /\ phyStatus /\ ~linked =>
       missed \/ phyLinkReset \/ pc \in {"clock", "reset", "params"}
=============================================================================
