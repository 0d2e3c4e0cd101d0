------------------------------ MODULE Systick -------------------------------
(***************************************************************************)
(* perlib/systick.c: the tick count that SysTick_Handler keeps, and        *)
(* systick_delay_ms, which compares it with a deadline.  Both are uint32_t *)
(* and wrap.                                                               *)
(***************************************************************************)
EXTENDS Naturals

CONSTANTS
  Ticks,        \* ticks and end are counted modulo Ticks (2^32)
  Burst         \* how many ticks may come between two reads of the loop

VARIABLES
  ticks,        \* the count
  start, end,   \* locals of systick_delay_ms
  ms,           \* its argument
  pc,           \* "idle", "wrap" (the first loop), "wait" (the second)
  unread,       \* ticks since the loop read the count
  passed        \* ticks since the call, up to MaxPassed

vars == <<ticks, start, end, ms, pc, unread, passed>>

(* Bound: a delay that misses its deadline may last for ever.              *)
MaxPassed == 2 * Ticks

(* start = ticks, end = start + ms, if(end < start).                       *)
DelayBegin ==
  /\ pc = "idle"
  /\ ms' \in 0 .. Ticks - 1
  /\ start' = ticks
  /\ end' = (start' + ms') % Ticks
  /\ pc' = IF end' < start' THEN "wrap" ELSE "wait"
  /\ unread' = 0 /\ passed' = 0
  /\ UNCHANGED ticks

(* while(ticks > start).  Nothing says that it began to be so: before the  *)
(* first tick it ends at once.                                             *)
DelayWrap ==
  /\ pc = "wrap"
  /\ pc' = IF ticks > start THEN "wrap" ELSE "wait"
  /\ unread' = 0
  /\ UNCHANGED <<ticks, start, end, ms, passed>>

(* Mistake: one tick too few.                                              *)
DelayWaitShort ==
  /\ pc = "wait"
  /\ pc' = IF ticks + 1 < end THEN "wait" ELSE "idle"
  /\ unread' = 0
  /\ UNCHANGED <<ticks, start, end, ms, passed>>

(* while(ticks < end).                                                     *)
DelayWait ==
  /\ pc = "wait"
  /\ pc' = IF ticks < end THEN "wait" ELSE "idle"
  /\ unread' = 0
  /\ UNCHANGED <<ticks, start, end, ms, passed>>

(* SysTick_Handler.                                                        *)
Tick ==
  /\ pc # "idle" => unread < Burst
  /\ ticks' = (ticks + 1) % Ticks
  /\ unread' = IF pc = "idle" THEN 0 ELSE unread + 1
  /\ passed' = IF pc = "idle" \/ passed = MaxPassed THEN passed ELSE passed + 1
  /\ UNCHANGED <<start, end, ms, pc>>

Init ==
  /\ ticks = 0
  /\ start = 0 /\ end = 0 /\ ms = 0
  /\ pc = "idle" /\ unread = 0 /\ passed = 0

Loops == DelayWrap \/ DelayWait

Next == DelayBegin \/ Loops \/ Tick

-----------------------------------------------------------------------------
(* Types.                                                                  *)
TypeOK ==
  /\ ticks \in 0 .. Ticks - 1 /\ start \in 0 .. Ticks - 1
  /\ end \in 0 .. Ticks - 1 /\ ms \in 0 .. Ticks - 1
  /\ pc \in {"idle", "wrap", "wait"}
  /\ unread \in 0 .. Burst /\ passed \in 0 .. MaxPassed

(* The deadline lies behind the wrap of the count.                         *)
Wraps == start + ms >= Ticks

(* The loop may step over the last counts before the wrap.                 *)
MayMiss == end + Burst >= Ticks

(* Unless the deadline lies behind the wrap, the delay takes ms ticks and  *)
(* is noticed at the next read.  If it does lie behind the wrap, the delay *)
(* is either right or none at all: the first loop ended, and so did the    *)
(* second, before the count had passed the start.                          *)
WaitsMs ==
  [][pc = "wait" /\ pc' = "idle" =>
       /\ ~Wraps => passed >= ms
       /\ ~Wraps /\ ~MayMiss => passed <= ms + Burst
       /\ Wraps => passed >= ms \/ passed <= Burst]_vars

(* A delay ends, except when its deadline is so near the wrap that every   *)
(* read may miss it.                                                       *)
DelayEnds == pc # "idle" ~> pc = "idle" \/ MayMiss

-----------------------------------------------------------------------------
(* What holds for every width of the count and every number of ticks       *)
(* between two reads, as MCDrivers proves.                                 *)
Spec == Init /\ [][Next]_vars

(* A count of at most two rounds, less the rounds.                         *)
Wrapped(n) == IF n < Ticks THEN n ELSE n - Ticks

(* The count is where the ticks since the call have brought it, as long as *)
(* these are known; the first loop is only run across the wrap; and the    *)
(* second has not passed the deadline unread.                              *)
DelayInv ==
  /\ TypeOK
  /\ pc # "idle" /\ passed < MaxPassed =>
       ticks \in {start + passed, start + passed - Ticks, start + passed - 2 * Ticks}
  /\ pc # "idle" => end = Wrapped(start + ms)
  /\ pc = "wrap" => Wraps
  /\ pc = "wait" /\ ~Wraps /\ ~MayMiss => passed <= ms + unread
  /\ pc = "wait" /\ Wraps => start + passed >= Ticks \/ passed = unread
=============================================================================
