------------------------------ MODULE TimSetup ------------------------------
(***************************************************************************)
(* tim_init of perlib/tim.c for a basic timer, tim_set_freq and the calls  *)
(* that stop and start the timer and its interrupt, with the handler of    *)
(* perlib/tim_hd.c that counts.  The timer's prescaler and period are      *)
(* written behind its back: what it counts with changes at an update, and  *)
(* SWEVGR = UG makes one (URS says whether that one raises the flag).      *)
(*                                                                         *)
(* tim_init is not interrupted for as long as a period; what the initial   *)
(* period of a timer is does therefore not matter.                         *)
(***************************************************************************)
EXTENDS Naturals

CONSTANT
  Ticks         \* the count goes modulo Ticks (2^32)

VARIABLES
  tim,          \* *tim_set: [freq, irq], the rate and the irq_state
  ctlr1,        \* the bits of CTLR1
  preload, shadow,  \* the rate that was written, and the one it counts with
  uie, uif,     \* the interrupt is enabled in the timer, and the update flag
  interrupts,   \* ... and in the controller
  tim6_ticks,   \* the count of tim_hd.c
  doing,        \* where tim_init is
  ended,        \* the rate of the period whose end raised the flag, or "mixed"
  changed,      \* history: tim_set_freq since tim_init, and no update since then
  switched,     \* history: tim_enable_irq was the last call for the interrupt
  odd           \* history: a tick was counted for a period of another rate

vars == <<tim, ctlr1, preload, shadow, uie, uif, interrupts, tim6_ticks, doing,
          ended, changed, switched, odd>>

-----------------------------------------------------------------------------
(* tim_init: CTLR1 &= UDIS clears all the other bits, CEN too, ...         *)
ControlInit ==
  /\ doing \in {"out", "ready"}
  /\ tim' \in [freq : {"slow", "fast"}, irq : BOOLEAN]
  /\ ctlr1' = (ctlr1 \cap {"UDIS"}) \cup {"ARPE", "URS"}
  /\ doing' = "irq"
  /\ changed' = FALSE /\ switched' = FALSE
  /\ UNCHANGED <<preload, shadow, uie, uif, interrupts, tim6_ticks, ended, odd>>

(* ... irq_init, ...                                                       *)
IrqInit ==
  /\ doing = "irq"
  /\ interrupts' = TRUE
  /\ uif' = FALSE
  /\ uie' = tim.irq
  /\ doing' = "freq"
  /\ UNCHANGED <<tim, ctlr1, preload, shadow, tim6_ticks, ended, changed, switched, odd>>

(* ... freq_init, ...                                                      *)
FreqInit ==
  /\ doing = "freq"
  /\ preload' = tim.freq
  /\ doing' = "enable"
  /\ UNCHANGED <<tim, ctlr1, shadow, uie, uif, interrupts, tim6_ticks, ended, changed,
                 switched, odd>>

(* ... tim_enable, ...                                                     *)
EnableInit ==
  /\ doing = "enable"
  /\ ctlr1' = ctlr1 \cup {"CEN"}
  /\ doing' = "update"
  /\ UNCHANGED <<tim, preload, shadow, uie, uif, interrupts, tim6_ticks, ended, changed,
                 switched, odd>>

(* Mistake: no update is made, ...                                         *)
UpdateInitNot ==
  /\ doing = "update"
  /\ doing' = "ready"
  /\ UNCHANGED <<tim, ctlr1, preload, shadow, uie, uif, interrupts, tim6_ticks, ended,
                 changed, switched, odd>>

(* ... SWEVGR = UG: an update that raises no flag.                         *)
UpdateInit ==
  /\ doing = "update"
  /\ shadow' = preload
  /\ uif' = (uif \/ "URS" \notin ctlr1)
  /\ doing' = "ready"
  /\ UNCHANGED <<tim, ctlr1, preload, uie, interrupts, tim6_ticks, ended, changed,
                 switched, odd>>

-----------------------------------------------------------------------------
(* tim_set_freq; it takes the rate from the settings.                      *)
SetFreq ==
  /\ doing = "ready"
  /\ \E freq \in {"slow", "fast"} : tim' = [tim EXCEPT !.freq = freq]
  /\ preload' = tim'.freq
  /\ changed' = TRUE
  /\ UNCHANGED <<ctlr1, shadow, uie, uif, interrupts, tim6_ticks, doing, ended,
                 switched, odd>>

EnableTim ==
  /\ doing = "ready"
  /\ ctlr1' = ctlr1 \cup {"CEN"}
  /\ UNCHANGED <<tim, preload, shadow, uie, uif, interrupts, tim6_ticks, doing, ended,
                 changed, switched, odd>>

DisableTim ==
  /\ doing = "ready"
  /\ ctlr1' = ctlr1 \ {"CEN"}
  /\ UNCHANGED <<tim, preload, shadow, uie, uif, interrupts, tim6_ticks, doing, ended,
                 changed, switched, odd>>

(* tim_enable_irq: it clears UIE, as tim_disable_irq does.                 *)
EnableIrq ==
  /\ doing = "ready"
  /\ tim' = [tim EXCEPT !.irq = TRUE]
  /\ uif' = FALSE /\ uie' = FALSE
  /\ switched' = TRUE
  /\ UNCHANGED <<ctlr1, preload, shadow, interrupts, tim6_ticks, doing, ended, changed, odd>>

DisableIrq ==
  /\ doing = "ready"
  /\ tim' = [tim EXCEPT !.irq = FALSE]
  /\ uie' = FALSE
  /\ switched' = FALSE
  /\ UNCHANGED <<ctlr1, preload, shadow, uif, interrupts, tim6_ticks, doing, ended,
                 changed, odd>>

(* tim_set_ticks(&tim6, 0) of the tim program.                             *)
SetTicks ==
  /\ doing = "ready"
  /\ tim6_ticks' = 0
  /\ UNCHANGED <<tim, ctlr1, preload, shadow, uie, uif, interrupts, doing, ended, changed,
                 switched, odd>>

-----------------------------------------------------------------------------
(* A period of the timer ends.                                             *)
Overflow ==
  /\ doing = "ready"
  /\ "CEN" \in ctlr1 /\ "UDIS" \notin ctlr1
  /\ shadow' = preload
  /\ uif' = TRUE
  /\ ended' = IF changed THEN "mixed" ELSE shadow
  /\ changed' = FALSE
  /\ UNCHANGED <<tim, ctlr1, preload, uie, interrupts, tim6_ticks, doing, switched, odd>>

(* TIM6_IRQHandler.                                                        *)
TimHandler ==
  /\ uif /\ uie /\ interrupts
  /\ uif' = FALSE
  /\ tim6_ticks' = (tim6_ticks + 1) % Ticks
  /\ odd' = (odd \/ (doing = "ready" /\ ~changed /\ ended \notin {tim.freq, "mixed"}))
  /\ UNCHANGED <<tim, ctlr1, preload, shadow, uie, interrupts, doing, ended, changed,
                 switched>>

(* Behind a reset.                                                         *)
Init ==
  /\ tim = [freq |-> "slow", irq |-> FALSE]
  /\ ctlr1 = {} /\ preload = "default" /\ shadow = "default"
  /\ uie = FALSE /\ uif = FALSE /\ interrupts = FALSE
  /\ tim6_ticks = 0
  /\ doing = "out"
  /\ ended = "default"
  /\ changed = FALSE /\ switched = FALSE /\ odd = FALSE

Next ==
  \/ ControlInit \/ IrqInit \/ FreqInit \/ EnableInit \/ UpdateInit
  \/ SetFreq \/ EnableTim \/ DisableTim \/ EnableIrq \/ DisableIrq \/ SetTicks
  \/ Overflow \/ TimHandler

-----------------------------------------------------------------------------
(* Every tick that is counted is a period of the rate asked for: the first *)
(* after tim_init is already, and what the timer did before is forgotten.  *)
(* Only the period in which tim_set_freq was called has the former rate.   *)
TicksRight == ~odd

(* The timer's interrupt is as the settings say, except behind             *)
(* tim_enable_irq: they say that it is on, and it is off until the next    *)
(* tim_init.                                                               *)
InterruptRight ==
  doing = "ready" => (uie <=> tim.irq /\ ~switched)

Inv == TicksRight /\ InterruptRight
=============================================================================
