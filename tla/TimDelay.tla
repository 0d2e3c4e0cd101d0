------------------------------ MODULE TimDelay ------------------------------
(***************************************************************************)
(* tim_delay_ms of perlib/tim.c on top of the tick count that the handler  *)
(* of timer 6 (perlib/tim_hd.c) keeps, and another handler of the same     *)
(* priority that keeps the processor busy (ETH_IRQHandler, which prints).  *)
(*                                                                         *)
(* Time is measured in periods of the timer.  The main loop polls many     *)
(* times in a period and the timer's handler is far shorter than one: that *)
(* is the guard of Update.  Only the other handler may last for periods.   *)
(***************************************************************************)
EXTENDS Naturals

CONSTANTS
  Ticks,        \* tim6_ticks counts modulo Ticks (2^32)
  MaxOther      \* bound: periods that other handlers take during one call

VARIABLES
  uif,          \* TIM6 INTFR: update interrupt flag
  tim6_ticks,   \* the count of tim_hd.c
  ms,           \* the argument of tim_delay_ms
  pc,           \* where tim_delay_ms is
  handler,      \* the handler that runs: "none", "count", "clear", "other"
  polled,       \* tim_delay_ms has polled since the last handler ended
  elapsed,      \* periods since tim6_set_ticks
  pending,      \* an update was already pending then
  lost,         \* updates since then that found the flag still set
  others        \* periods since then that ended in another handler

vars == <<uif, tim6_ticks, ms, pc, handler, polled, elapsed, pending, lost, others>>

(* Bound on a call: every miss costs a period and then a whole round of    *)
(* the count.  TypeOK says that none is that long.                         *)
MaxElapsed == (MaxOther + 1) * Ticks + MaxOther

-----------------------------------------------------------------------------
(* tim_delay_ms.  A handler that runs keeps it from going on.              *)

(* Mistake: the count goes on from where it was.                           *)
DelaySetNot ==
  /\ pc = "idle" /\ handler = "none"
  /\ ms' \in 0 .. Ticks - 1
  /\ pc' = IF ms' = 0 THEN "idle" ELSE "poll"
  /\ elapsed' = 0 /\ lost' = 0 /\ others' = 0
  /\ pending' = uif
  /\ polled' = FALSE
  /\ UNCHANGED <<uif, tim6_ticks, handler>>

(* tim6_set_ticks(0); the first test compares zero.                        *)
DelaySet ==
  /\ pc = "idle" /\ handler = "none"
  /\ ms' \in 0 .. Ticks - 1
  /\ tim6_ticks' = 0
  /\ pc' = IF ms' = 0 THEN "idle" ELSE "poll"
  /\ elapsed' = 0 /\ lost' = 0 /\ others' = 0
  /\ pending' = uif
  /\ polled' = FALSE
  /\ UNCHANGED <<uif, handler>>

(* time = tim6_get_ticks(), and again until time is equal to ms.           *)
DelayPoll ==
  /\ pc = "poll" /\ handler = "none"
  /\ pc' = IF tim6_ticks = ms THEN "idle" ELSE "poll"
  /\ polled' = TRUE
  /\ UNCHANGED <<uif, tim6_ticks, ms, handler, elapsed, pending, lost, others>>

-----------------------------------------------------------------------------
(* The handlers: one runs at a time, and to its end.                       *)

(* Mistake: the flag is cleared before it is tested.                       *)
TimEnterClearing ==
  /\ handler = "none" /\ uif
  /\ handler' = "count"
  /\ uif' = FALSE
  /\ UNCHANGED <<tim6_ticks, ms, pc, polled, elapsed, pending, lost, others>>

TimEnter ==
  /\ handler = "none" /\ uif
  /\ handler' = "count"
  /\ UNCHANGED <<uif, tim6_ticks, ms, pc, polled, elapsed, pending, lost, others>>

(* TIM6_IRQHandler: if(INTFR & UIF) one more tick, ...                     *)
TimCount ==
  /\ handler = "count"
  /\ tim6_ticks' = IF uif THEN (tim6_ticks + 1) % Ticks ELSE tim6_ticks
  /\ handler' = "clear"
  /\ UNCHANGED <<uif, ms, pc, polled, elapsed, pending, lost, others>>

(* ... and INTFR &= ~UIF, whatever the timer set meanwhile.                *)
TimClear ==
  /\ handler = "clear"
  /\ uif' = FALSE
  /\ handler' = "none"
  /\ polled' = FALSE
  /\ UNCHANGED <<tim6_ticks, ms, pc, elapsed, pending, lost, others>>

OtherEnter ==
  /\ handler = "none" /\ others < MaxOther
  /\ handler' = "other"
  /\ UNCHANGED <<uif, tim6_ticks, ms, pc, polled, elapsed, pending, lost, others>>

(* What was pending meanwhile runs first: tim_delay_ms has not polled.     *)
OtherLeave ==
  /\ handler = "other"
  /\ handler' = "none"
  /\ polled' = FALSE
  /\ UNCHANGED <<uif, tim6_ticks, ms, pc, elapsed, pending, lost, others>>

Handlers == TimEnter \/ TimCount \/ TimClear \/ OtherLeave

(* The timer: a period ends, which another handler may notice too late.    *)
Update ==
  /\ pc = "poll" /\ elapsed < MaxElapsed
  /\ \/ handler = "none" /\ ~uif /\ polled /\ UNCHANGED others
     \/ handler = "other" /\ others < MaxOther /\ others' = others + 1
  /\ uif' = TRUE
  /\ lost' = IF uif THEN lost + 1 ELSE lost
  /\ elapsed' = elapsed + 1
  /\ UNCHANGED <<tim6_ticks, ms, pc, handler, polled, pending>>

(* A period that ends while nobody waits.                                  *)
UpdateIdle ==
  /\ pc = "idle" /\ handler \in {"none", "other"}
  /\ uif' = TRUE
  /\ UNCHANGED <<tim6_ticks, ms, pc, handler, polled, elapsed, pending, lost, others>>

-----------------------------------------------------------------------------
(* After tim_hold_init.                                                    *)
Init ==
  /\ uif = FALSE /\ tim6_ticks = 0
  /\ ms = 0 /\ pc = "idle" /\ handler = "none" /\ polled = FALSE
  /\ elapsed = 0 /\ pending = FALSE /\ lost = 0 /\ others = 0

Next == \/ DelaySet \/ DelayPoll \/ Handlers \/ OtherEnter
        \/ Update \/ UpdateIdle

-----------------------------------------------------------------------------
(* Types.                                                                  *)
TypeOK ==
  /\ uif \in BOOLEAN /\ polled \in BOOLEAN /\ pending \in BOOLEAN
  /\ tim6_ticks \in 0 .. Ticks - 1 /\ ms \in 0 .. Ticks - 1
  /\ pc \in {"idle", "poll"}
  /\ handler \in {"none", "count", "clear", "other"}
  /\ elapsed \in 0 .. MaxElapsed - 1 /\ lost \in 0 .. MaxOther /\ others \in 0 .. MaxOther

(* The periods that have been counted so far in this call.                 *)
Counted ==
  elapsed - lost + (IF pending THEN 1 ELSE 0)
    - (IF uif /\ handler # "clear" THEN 1 ELSE 0)

(* The count is that of the periods, but for those that ended behind       *)
(* another handler while the one before was still unnoticed.               *)
CountRight ==
  pc = "poll" => tim6_ticks = Counted % Ticks /\ lost <= others

(* What every state satisfies.                                             *)
Inv == TypeOK /\ CountRight

(* tim_delay_ms waits for ms periods, of which the first may already be    *)
(* over.  It waits for longer only if a handler of the same priority kept  *)
(* it from seeing the right count; then it waits for the count to come     *)
(* round.                                                                  *)
WaitsMs ==
  [][pc = "poll" /\ pc' = "idle" =>
       /\ elapsed + 1 >= ms
       /\ others = 0 => elapsed <= ms
       /\ elapsed > ms + others => elapsed + 1 >= ms + Ticks]_vars

(* A delay ends.                                                           *)
DelayEnds == pc = "poll" ~> pc = "idle"

-----------------------------------------------------------------------------
(* What holds for every width of the count and every number of periods     *)
(* behind another handler, as MCDrivers proves.                            *)
Spec == Init /\ [][Next]_vars

(* Periods that ended behind another handler and were noticed: each of     *)
(* them may carry the count past ms, ...                                   *)
Slack == (others - lost) * Ticks

(* ... and nothing else does: a poll that failed is not followed by        *)
(* another period without the count having come nearer.                    *)
Longest == (MaxOther + 1) * Ticks

(* The count is that of Counted but for whole rounds of it.                *)
InStep == \E rounds \in Nat : Counted = tim6_ticks + rounds * Ticks

DelayFlags == uif \in BOOLEAN /\ polled \in BOOLEAN /\ pending \in BOOLEAN

DelayTypes ==
  /\ tim6_ticks \in 0 .. Ticks - 1 /\ ms \in 0 .. Ticks - 1
  /\ pc \in {"idle", "poll"} /\ handler \in {"none", "count", "clear", "other"}
  /\ elapsed \in Nat /\ lost \in Nat /\ others \in 0 .. MaxOther /\ lost <= others
  /\ elapsed < Longest
  /\ handler = "count" => uif

DelayCount ==
  pc = "poll" =>
    /\ InStep
    /\ polled /\ handler \in {"none", "other"} => tim6_ticks # ms
    /\ Counted <= ms + Slack
    /\ uif /\ handler # "clear" => Counted < ms + Slack

DelayInv == DelayFlags /\ DelayTypes /\ DelayCount
=============================================================================
