-------------------------------- MODULE Rcc ---------------------------------
(***************************************************************************)
(* rcc_init and rcc_deinit of perlib/rcc.c: the processor is moved to the  *)
(* internal oscillator, everything else is switched off, and the way back  *)
(* goes over the external oscillator and the PLLs.  Each step waits for a  *)
(* flag of the clock controller, which takes its time.                     *)
(***************************************************************************)

VARIABLES
  crystal,      \* there is an external oscillator that starts
  on,           \* per source: HSION, HSEON, PLLON, pll3on
  ready,        \* per source: its ready flag
  sw, sws,      \* the source asked for, and the one in use
  pllsrc,       \* what the PLL multiplies
  step          \* where rcc_init is

vars == <<crystal, on, ready, sw, sws, pllsrc, step>>

Sources == {"hsi", "hse", "pll", "pll3"}

-----------------------------------------------------------------------------
(* rcc_deinit.                                                             *)
HsiOn ==
  /\ step = "start"
  /\ on' = [on EXCEPT !["hsi"] = TRUE]
  /\ step' = "hsi on"
  /\ UNCHANGED <<crystal, ready, sw, sws, pllsrc>>

(* CFGR2 = 0, CFGR0 = 0.                                                   *)
ToHsi ==
  /\ step = "hsi on" /\ ready["hsi"]
  /\ sw' = "hsi" /\ pllsrc' = "hsi"
  /\ step' = "to hsi"
  /\ UNCHANGED <<crystal, on, ready, sws>>

(* Mistake: without a look at SWS.                                         *)
PllOffSoon ==
  /\ step = "to hsi"
  /\ on' = [on EXCEPT !["pll"] = FALSE]
  /\ step' = "pll off"
  /\ UNCHANGED <<crystal, ready, sw, sws, pllsrc>>

PllOff ==
  /\ step = "to hsi" /\ sws = "hsi"
  /\ on' = [on EXCEPT !["pll"] = FALSE]
  /\ step' = "pll off"
  /\ UNCHANGED <<crystal, ready, sw, sws, pllsrc>>

HseOff ==
  /\ step = "pll off" /\ ~ready["pll"]
  /\ on' = [on EXCEPT !["hse"] = FALSE]
  /\ step' = "hse off"
  /\ UNCHANGED <<crystal, ready, sw, sws, pllsrc>>

(* rcc_init: HSEON, ...                                                    *)
HseOn ==
  /\ step = "hse off" /\ ~ready["hse"]
  /\ on' = [on EXCEPT !["hse"] = TRUE]
  /\ step' = "hse on"
  /\ UNCHANGED <<crystal, ready, sw, sws, pllsrc>>

(* ... CFGR2 and CFGR0, pll3on, ...                                        *)
Pll3On ==
  /\ step = "hse on" /\ ready["hse"]
  /\ pllsrc' = "hse"
  /\ on' = [on EXCEPT !["pll3"] = TRUE]
  /\ step' = "pll3 on"
  /\ UNCHANGED <<crystal, ready, sw, sws>>

(* ... PLLON, ...                                                          *)
PllOn ==
  /\ step = "pll3 on" /\ ready["pll3"]
  /\ on' = [on EXCEPT !["pll"] = TRUE]
  /\ step' = "pll on"
  /\ UNCHANGED <<crystal, ready, sw, sws, pllsrc>>

(* ... SW, and the wait for SWS.                                           *)
ToPll ==
  /\ step = "pll on" /\ ready["pll"]
  /\ sw' = "pll"
  /\ step' = "to pll"
  /\ UNCHANGED <<crystal, on, ready, sws, pllsrc>>

Finish ==
  /\ step = "to pll" /\ sws = "pll"
  /\ step' = "done"
  /\ UNCHANGED <<crystal, on, ready, sw, sws, pllsrc>>

Program ==
  \/ HsiOn \/ ToHsi \/ PllOff \/ HseOff \/ HseOn \/ Pll3On \/ PllOn \/ ToPll \/ Finish

-----------------------------------------------------------------------------
(* The clock controller.                                                   *)
Input(s) ==
  CASE s = "hsi" -> TRUE
    [] s = "hse" -> crystal
    [] s = "pll" -> ready[pllsrc]
    [] s = "pll3" -> ready["hse"]

Settle(s) ==
  /\ ready[s] # (on[s] /\ Input(s))
  /\ ready' = [ready EXCEPT ![s] = ~@]
  /\ UNCHANGED <<crystal, on, sw, sws, pllsrc, step>>

Select ==
  /\ sws # sw /\ ready[sw]
  /\ sws' = sw
  /\ UNCHANGED <<crystal, on, ready, sw, pllsrc, step>>

Controller == Select \/ \E s \in Sources : Settle(s)

(* After a reset, or behind SystemInit or an earlier rcc_init.             *)
Init ==
  /\ crystal \in BOOLEAN
  /\ \E fast \in {FALSE, crystal} :
       /\ on = [s \in Sources |-> s = "hsi" \/ fast]
       /\ ready = on
       /\ sw = IF fast THEN "pll" ELSE "hsi"
       /\ pllsrc = IF fast THEN "hse" ELSE "hsi"
  /\ sws = sw
  /\ step = "start"

Next == Program \/ Controller

-----------------------------------------------------------------------------
(* The processor always has a clock: the source in use is on and ready.    *)
ClockRuns == on[sws] /\ ready[sws]

(* What is said of the clock tree at the end is so; without an oscillator  *)
(* there is no end.                                                        *)
ClockRight ==
  step = "done" => sws = "pll" /\ pllsrc = "hse" /\ ready["hse"] /\ crystal

Inv == ClockRuns /\ ClockRight

(* rcc_init ends if there is an oscillator.                                *)
InitEnds == crystal => <>(step = "done")
=============================================================================
