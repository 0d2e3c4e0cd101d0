------------------------------- MODULE Blink --------------------------------
(***************************************************************************)
(* snippets/freertos: two tasks of the same priority that toggle the same  *)
(* LED and sleep, the second for twice as long as the first.  gpio_tgl     *)
(* reads the output register, inverts the bit and writes it back.          *)
(***************************************************************************)
EXTENDS Kernel

CONSTANTS
  task1, task2,
  Delay         \* per task: vTaskDelay's ticks (250 and 500)

VARIABLES
  k,            \* the kernel
  led,          \* the bit in OUTDR
  at,           \* per task: "read", "write", "delay"
  was,          \* per task: the bit it has read
  toggles,      \* history: the calls of gpio_tgl that are over, modulo 2
  split         \* history: a tick came while a task had read and not written

vars == <<k, led, at, was, toggles, split>>

Runs(t) == k.current = t /\ ~k.swi

TglRead(t) ==
  /\ Runs(t) /\ at[t] = "read"
  /\ was' = [was EXCEPT ![t] = led]
  /\ at' = [at EXCEPT ![t] = "write"]
  /\ UNCHANGED <<k, led, toggles, split>>

TglWrite(t) ==
  /\ Runs(t) /\ at[t] = "write"
  /\ led' = 1 - was[t]
  /\ toggles' = (toggles + 1) % 2
  /\ at' = [at EXCEPT ![t] = "delay"]
  /\ UNCHANGED <<k, was, split>>

(* vTaskDelay.                                                             *)
Sleep(t) ==
  /\ Runs(t) /\ at[t] = "delay"
  /\ k' = Yield(AddCurrentToDelayed(k, Delay[t], FALSE))
  /\ at' = [at EXCEPT ![t] = "read"] /\ was' = [was EXCEPT ![t] = 0]
  /\ UNCHANGED <<led, toggles, split>>

(* SysTick_Handler, SW_Handler.                                            *)
Tick ==
  /\ k' = SysTick(k)
  /\ split' = (split \/ \E t \in Tasks : at[t] = "write")
  /\ UNCHANGED <<led, at, was, toggles>>

Switch ==
  /\ k.swi
  /\ k' = SwitchContext(k)
  /\ UNCHANGED <<led, at, was, toggles, split>>

(* main creates the second task first.                                     *)
Init ==
  /\ k = Started(<<task2, task1>>, [t \in All |-> IF t = Idle THEN 0 ELSE 1])
  /\ led = 0 /\ toggles = 0 /\ split = FALSE
  /\ at = [t \in Tasks |-> "read"] /\ was = [t \in Tasks |-> 0]

Next == Tick \/ Switch \/ \E t \in Tasks : TglRead(t) \/ TglWrite(t) \/ Sleep(t)

-----------------------------------------------------------------------------
(* No toggle is lost unless a tick comes in the middle of one: only a tick *)
(* makes a task give way to another one of its priority.                   *)
LedRight == split \/ led = toggles

(* The idle task runs only while both sleep.                               *)
BlinkInv == ListsRight(k, Idle) /\ HighestRuns(k) /\ LedRight
=============================================================================
