-------------------------------- MODULE Port --------------------------------
(***************************************************************************)
(* The processor's side of the kernel: port.c, portASM.s and portmacro.h   *)
(* of portable/GCC/RISC-V.  Tasks with critical sections and masked        *)
(* regions, the tick handler on its own stack, the software interrupt that *)
(* changes the task, and one more handler of a higher priority that calls  *)
(* the kernel.  SysTick and the software interrupt have the same priority, *)
(* so neither interrupts the other.                                        *)
(*                                                                         *)
(* A handler is entered with MIE in MPIE and left with MPIE in MIE.        *)
(* Whether MIE is cleared meanwhile depends on how the start-up code has   *)
(* set the processor; both are considered.  A pending bit goes when its    *)
(* handler is entered.  Bit 0x20 of CSR 0x804 keeps every other handler    *)
(* out until mret.                                                         *)
(***************************************************************************)
EXTENDS Naturals, Sequences, SequencesExt

CONSTANTS
  Task,         \* the tasks
  First,        \* the one that is started first, ...
  Late,         \* ... and those that are created by tasks
  Unstarted,    \* uxCriticalNesting before the start (0xaaaaaaaa)
  MaxOpen       \* bound: how many regions a task has open at a time

PortAssumption ==
  First \in Task /\ Late \subseteq Task \ {First} /\ Unstarted > MaxOpen /\ MaxOpen \in Nat

VARIABLES
  running,      \* what runs: "main" or a task, and the handlers above it
  handlerPc,    \* per handler: where it is
  pxCurrentTCB,
  sp,           \* the stack in use: "main", "interrupt" or a task's
  mscratch,     \* what it holds: a stack, or nothing yet
  mie, mpie,    \* the two bits of mstatus
  locked,       \* CSR 0x804: nothing else is let in
  pending,      \* the interrupts that ask for service
  uxCriticalNesting,
  regions,      \* per task, for main and for the handler: the regions it has open,
                \* each critical, or masked and with what mstatus was before it
  frame,        \* per task: what is saved on its stack, or NoFrame
  leaky         \* history: a critical section has ended inside a masked region

vars == <<running, handlerPc, pxCurrentTCB, sp, mscratch, mie, mpie, locked, pending,
          uxCriticalNesting, regions, frame, leaky>>

NoFrame == [saved |-> FALSE]

Critical == [masked |-> FALSE]
Masked == [masked |-> TRUE, mie |-> mie, mpie |-> mpie]

Now == Last(running)
InTask == Now \in Task

-----------------------------------------------------------------------------
(* pxPortInitialiseStack: MIE off, MPIE on, the task's entry.              *)
InitialFrame == [saved |-> TRUE, mie |-> FALSE, mpie |-> TRUE, of |-> "entry"]

(* vPortEnterCritical and vPortExitCritical, of main and of tasks.         *)
EnterCritical ==
  /\ InTask \/ Now = "main"
  /\ Len(regions[Now]) < MaxOpen
  /\ mie' = FALSE /\ mpie' = FALSE
  /\ uxCriticalNesting' = uxCriticalNesting + 1
  /\ regions' = [regions EXCEPT ![Now] = Append(@, Critical)]
  /\ UNCHANGED <<running, handlerPc, pxCurrentTCB, sp, mscratch, locked, pending, frame,
                 leaky>>

(* Mistake: interrupts are let in whatever is open around it.              *)
ExitCriticalSoon ==
  /\ regions[Now] # <<>> /\ Last(regions[Now]) = Critical
  /\ uxCriticalNesting' = uxCriticalNesting - 1
  /\ mie' = TRUE /\ mpie' = TRUE
  /\ regions' = [regions EXCEPT ![Now] = Front(@)]
  /\ UNCHANGED <<running, handlerPc, pxCurrentTCB, sp, mscratch, locked, pending, frame,
                 leaky>>

ExitCritical ==
  /\ regions[Now] # <<>> /\ Last(regions[Now]) = Critical
  /\ uxCriticalNesting' = uxCriticalNesting - 1
  /\ mie' = (mie \/ uxCriticalNesting' = 0) /\ mpie' = (mpie \/ uxCriticalNesting' = 0)
  /\ regions' = [regions EXCEPT ![Now] = Front(@)]
  /\ leaky' = (leaky \/ (uxCriticalNesting' = 0 /\ regions'[Now] # <<>>))
  /\ UNCHANGED <<running, handlerPc, pxCurrentTCB, sp, mscratch, locked, pending, frame>>

(* xPortSetInterruptMask and vPortClearInterruptMask, of tasks and of the  *)
(* handler.                                                                *)
SetMask ==
  /\ InTask \/ (Now = "device" /\ handlerPc["device"] = "work")
  /\ Len(regions[Now]) < MaxOpen
  /\ regions' = [regions EXCEPT ![Now] = Append(@, Masked)]
  /\ mie' = FALSE /\ mpie' = FALSE
  /\ UNCHANGED <<running, handlerPc, pxCurrentTCB, sp, mscratch, locked, pending,
                 uxCriticalNesting, frame, leaky>>

ClearMask ==
  /\ regions[Now] # <<>> /\ Last(regions[Now]) # Critical
  /\ mie' = Last(regions[Now]).mie /\ mpie' = Last(regions[Now]).mpie
  /\ regions' = [regions EXCEPT ![Now] = Front(@)]
  /\ UNCHANGED <<running, handlerPc, pxCurrentTCB, sp, mscratch, locked, pending,
                 uxCriticalNesting, frame, leaky>>

(* portYIELD, of a task or of the handler.                                 *)
Yield ==
  /\ InTask \/ (Now = "device" /\ handlerPc["device"] = "work")
  /\ pending' = pending \cup {"switch"}
  /\ UNCHANGED <<running, handlerPc, pxCurrentTCB, sp, mscratch, mie, mpie, locked,
                 uxCriticalNesting, regions, frame, leaky>>

(* A task creates another one.                                             *)
Create(t) ==
  /\ InTask /\ t \in Late /\ t # Now /\ ~frame[t].saved
  /\ frame' = [frame EXCEPT ![t] = InitialFrame]
  /\ UNCHANGED <<running, handlerPc, pxCurrentTCB, sp, mscratch, mie, mpie, locked, pending,
                 uxCriticalNesting, regions, leaky>>

-----------------------------------------------------------------------------
(* xPortStartScheduler and xPortStartFirstTask, called with interrupts off *)
(* (vTaskStartScheduler); the first task begins with MIE and MPIE on.      *)
Start ==
  /\ Now = "main" /\ regions["main"] = <<>>
  /\ uxCriticalNesting' = 0
  /\ mscratch' = "interrupt"
  /\ pxCurrentTCB' = First
  /\ sp' = First
  /\ running' = <<First>>
  /\ mie' = TRUE /\ mpie' = frame[First].mpie
  /\ frame' = [frame EXCEPT ![First] = NoFrame]
  /\ UNCHANGED <<handlerPc, locked, pending, regions, leaky>>

(* The timer and the device ask for service; the timer only runs behind    *)
(* vPortSetupTimerInterrupt, the device is another one's affair.           *)
Ask(h) ==
  /\ h \in {"tick", "device"} /\ Now # "main"
  /\ pending' = pending \cup {h}
  /\ UNCHANGED <<running, handlerPc, pxCurrentTCB, sp, mscratch, mie, mpie, locked,
                 uxCriticalNesting, regions, frame, leaky>>

(* An interrupt is taken.                                                  *)
Enter(h) ==
  /\ h \in pending /\ mie /\ ~locked
  /\ IF h = "device" THEN "device" \notin Range(running) ELSE InTask
  /\ pending' = pending \ {h}
  /\ running' = Append(running, h)
  /\ handlerPc' = [handlerPc EXCEPT ![h] = "entered"]
  /\ mpie' = mie
  /\ mie' \in {FALSE, mie}
  /\ UNCHANGED <<pxCurrentTCB, sp, mscratch, locked, uxCriticalNesting, regions, frame,
                 leaky>>

(* GET_INT_SP and FREE_INT_SP.                                             *)
SwapStack == sp' = mscratch /\ mscratch' = sp

Step(h, from, to) ==
  /\ Now = h /\ handlerPc[h] = from
  /\ handlerPc' = [handlerPc EXCEPT ![h] = to]

(* mret.                                                                   *)
Mret(h) ==
  /\ handlerPc' = [handlerPc EXCEPT ![h] = "out"]
  /\ mie' = mpie /\ mpie' = TRUE

-----------------------------------------------------------------------------
(* SysTick_Handler: GET_INT_SP and portDISABLE_INTERRUPTS, the tick, which *)
(* may ask for a switch, portENABLE_INTERRUPTS, FREE_INT_SP, mret.         *)
TickBegin ==
  /\ Step("tick", "entered", "off")
  /\ SwapStack
  /\ UNCHANGED <<running, pxCurrentTCB, mie, mpie, locked, pending, uxCriticalNesting,
                 regions, frame, leaky>>

TickOff ==
  /\ Step("tick", "off", "work")
  /\ mie' = FALSE /\ mpie' = FALSE
  /\ UNCHANGED <<running, pxCurrentTCB, sp, mscratch, locked, pending, uxCriticalNesting,
                 regions, frame, leaky>>

TickWork ==
  /\ Step("tick", "work", "enable")
  /\ pending' \in {pending, pending \cup {"switch"}}
  /\ UNCHANGED <<running, pxCurrentTCB, sp, mscratch, mie, mpie, locked,
                 uxCriticalNesting, regions, frame, leaky>>

TickEnable ==
  /\ Step("tick", "enable", "free")
  /\ mie' = TRUE /\ mpie' = TRUE
  /\ UNCHANGED <<running, pxCurrentTCB, sp, mscratch, locked, pending, uxCriticalNesting,
                 regions, frame, leaky>>

TickEnd ==
  /\ Now = "tick" /\ handlerPc["tick"] = "free"
  /\ SwapStack
  /\ handlerPc' = [handlerPc EXCEPT !["tick"] = "leave"]
  /\ UNCHANGED <<running, pxCurrentTCB, mie, mpie, locked, pending, uxCriticalNesting,
                 regions, frame, leaky>>

TickReturn ==
  /\ Now = "tick" /\ handlerPc["tick"] = "leave"
  /\ Mret("tick")
  /\ running' = Front(running)
  /\ UNCHANGED <<pxCurrentTCB, sp, mscratch, locked, pending, uxCriticalNesting, regions,
                 frame, leaky>>

-----------------------------------------------------------------------------
(* The device's handler, which takes the interrupt stack the same way.     *)
DeviceBegin ==
  /\ Step("device", "entered", "work")
  /\ SwapStack
  /\ UNCHANGED <<running, pxCurrentTCB, mie, mpie, locked, pending, uxCriticalNesting,
                 regions, frame, leaky>>

DeviceEnd ==
  /\ Step("device", "work", "leave")
  /\ regions["device"] = <<>>
  /\ SwapStack
  /\ UNCHANGED <<running, pxCurrentTCB, mie, mpie, locked, pending, uxCriticalNesting,
                 regions, frame, leaky>>

DeviceReturn ==
  /\ Now = "device" /\ handlerPc["device"] = "leave"
  /\ Mret("device")
  /\ running' = Front(running)
  /\ UNCHANGED <<pxCurrentTCB, sp, mscratch, locked, pending, uxCriticalNesting, regions,
                 frame, leaky>>

-----------------------------------------------------------------------------
(* SW_Handler: the registers and mstatus go onto the stack in use, and its *)
(* place into the TCB; then nothing else is let in, ...                    *)
SwitchSave ==
  /\ Step("switch", "entered", "switch")
  /\ frame' = [frame EXCEPT ![pxCurrentTCB] = [saved |-> TRUE, mie |-> mie, mpie |-> mpie, of |-> sp]]
  /\ locked' = TRUE
  /\ sp' = "interrupt"
  /\ UNCHANGED <<running, pxCurrentTCB, mscratch, mie, mpie, pending, uxCriticalNesting,
                 regions, leaky>>

(* ... vTaskSwitchContext, on the interrupt stack, ...                     *)
SwitchTask ==
  /\ Step("switch", "switch", "restore")
  /\ pxCurrentTCB' \in {t \in Task : frame[t].saved}
  /\ UNCHANGED <<running, sp, mscratch, mie, mpie, locked, pending, uxCriticalNesting,
                 regions, frame, leaky>>

(* Mistake: mstatus is left as it was.                                     *)
SwitchRestoreLess ==
  /\ Now = "switch" /\ handlerPc["switch"] = "restore"
  /\ sp' = pxCurrentTCB
  /\ handlerPc' = [handlerPc EXCEPT !["switch"] = "out"]
  /\ mie' = mie /\ mpie' = TRUE
  /\ locked' = FALSE
  /\ running' = <<pxCurrentTCB>>
  /\ frame' = [frame EXCEPT ![pxCurrentTCB] = NoFrame]
  /\ UNCHANGED <<pxCurrentTCB, mscratch, pending, uxCriticalNesting, regions, leaky>>

(* ... and back from the stack of what is the current task now.            *)
SwitchRestore ==
  /\ Now = "switch" /\ handlerPc["switch"] = "restore"
  /\ sp' = pxCurrentTCB
  /\ handlerPc' = [handlerPc EXCEPT !["switch"] = "out"]
  /\ mie' = frame[pxCurrentTCB].mpie /\ mpie' = TRUE
  /\ locked' = FALSE
  /\ running' = <<pxCurrentTCB>>
  /\ frame' = [frame EXCEPT ![pxCurrentTCB] = NoFrame]
  /\ UNCHANGED <<pxCurrentTCB, mscratch, pending, uxCriticalNesting, regions, leaky>>

-----------------------------------------------------------------------------
(* main, before the start; the first task and those that are not late      *)
(* have been created.                                                      *)
Init ==
  /\ running = <<"main">>
  /\ handlerPc = [h \in {"tick", "device", "switch"} |-> "out"]
  /\ pxCurrentTCB = First
  /\ sp = "main" /\ mscratch = "nothing"
  /\ mie = TRUE /\ mpie = TRUE
  /\ locked = FALSE
  /\ pending = {}
  /\ uxCriticalNesting = Unstarted
  /\ regions = [x \in Task \cup {"main", "device"} |-> <<>>]
  /\ frame = [t \in Task |-> IF t \in Late THEN NoFrame ELSE InitialFrame]
  /\ leaky = FALSE

Next ==
  \/ Start
  \/ Now \in DOMAIN regions /\
       (EnterCritical \/ ExitCritical \/ SetMask \/ ClearMask \/ Yield)
  \/ \E t \in Task : Create(t)
  \/ \E h \in {"tick", "device", "switch"} : Ask(h) \/ Enter(h)
  \/ TickBegin \/ TickOff \/ TickWork \/ TickEnable \/ TickEnd \/ TickReturn
  \/ DeviceBegin \/ DeviceEnd \/ DeviceReturn
  \/ SwitchSave \/ SwitchTask \/ SwitchRestore

-----------------------------------------------------------------------------
Swapped(h) ==
  CASE h = "tick" -> handlerPc[h] \in {"off", "work", "enable", "free"}
    [] h = "device" -> handlerPc[h] = "work"
    [] OTHER -> FALSE

(* Everyone is on the stack it is meant to be on: a task on its own, the   *)
(* tick handler's work and the switch on that of the interrupts.  A device *)
(* handler that interrupts one that is there already swaps back to the     *)
(* task's.  No stack is in use and in mscratch at a time.                  *)
StacksRight ==
  /\ InTask => sp = Now /\ Now = pxCurrentTCB /\ mscratch = "interrupt"
  /\ Now = "tick" => sp = IF Swapped("tick") THEN "interrupt" ELSE pxCurrentTCB
  /\ Now = "switch" /\ locked => sp = "interrupt"
  /\ Now = "device" =>
       sp = IF Swapped("tick") = Swapped("device") THEN pxCurrentTCB ELSE "interrupt"
  /\ Now # "main" /\ ~locked => {sp, mscratch} = {"interrupt", pxCurrentTCB}

(* What is saved on a task's stack is its own context, with interrupts on  *)
(* when it goes on, whatever was open when it was created.                 *)
FramesRight ==
  \A t \in Task :
    frame[t].saved => frame[t].mpie /\ frame[t].of \in {"entry", t}

(* Nobody comes between the steps of a region: interrupts are off in it,   *)
(* and no task change happens within.  The exception is a masked region in *)
(* which a critical section has been left: that turns interrupts on.       *)
RegionsClosed ==
  /\ ~leaky /\ Now \in DOMAIN regions /\ Now # "main" =>
       (regions[Now] # <<>> => ~mie)
  /\ ~leaky => \A t \in Task : regions[t] # <<>> => running = <<t>> /\ pxCurrentTCB = t

(* The count is that of the open critical sections; before the start it is *)
(* so large that none of them turns interrupts on.                         *)
NestingRight ==
  /\ Now = "main" => uxCriticalNesting >= Unstarted
  /\ Now # "main" /\ ~leaky =>
       uxCriticalNesting =
         Len(SelectSeq(regions[pxCurrentTCB], LAMBDA r : r = Critical))

(* A task with no region open has interrupts on.                           *)
InterruptsOn == InTask /\ regions[Now] = <<>> => mie

PortInv ==
  StacksRight /\ FramesRight /\ RegionsClosed /\ NestingRight /\ InterruptsOn
=============================================================================
