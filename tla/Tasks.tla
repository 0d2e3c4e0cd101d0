------------------------------- MODULE Tasks --------------------------------
(***************************************************************************)
(* Tasks that make the calls of tasks.c, in any order, against the tick,   *)
(* the software interrupt that switches between them, and handlers that    *)
(* notify and resume tasks.  A call is one action for every stretch in     *)
(* which nothing can come in between, that is one for each of its critical *)
(* sections; pc says between which two a task is.                          *)
(***************************************************************************)
EXTENDS Kernel

CONSTANTS
  Created,      \* the tasks created before the scheduler starts
  Controllers,  \* the tasks that make calls about other tasks
  Receivers,    \* the tasks that wait for notifications
  MaxNotify,    \* bound: the greatest notification value
  MaxNest,      \* bound: how deep vTaskSuspendAll is nested
  MaxPended,    \* bound: ticks while the scheduler is suspended
  Stray         \* vTaskResume is called for tasks that nobody suspended, too

ASSUME TasksAssumption ==
  /\ Created \subseteq Tasks /\ IsFiniteSet(Created) /\ EventLists = {}
  /\ Controllers \subseteq Tasks /\ Receivers \subseteq Tasks
  /\ MaxNotify \in Nat /\ MaxNest \in Nat \ {0} /\ MaxPended \in Nat
  /\ Stray \in BOOLEAN

VARIABLES
  k,            \* the kernel
  pc,           \* where each task is, see PCs
  handle,       \* pxTCB of an xTaskAbortDelay that goes on, or Idle
  pended,       \* what an xTaskCatchUpTicks that goes on has read, or 0
  made,         \* per task: pxNewTCB of an xTaskCreate that goes on, or Idle
                \* for none or one that was freed
  notifyState,  \* ucNotifyState of each task
  notifyValue,  \* ulNotifiedValue of each task
  left,         \* history: ticks until the wait of each task is over
  stopped       \* history: the tasks suspended and not resumed since

vars == <<k, pc, handle, pended, made, notifyState, notifyValue, left, stopped>>

PCs == {"app",          \* between two calls
        "held",         \* behind vTaskSuspendAll, the caller's or a call's own
        "yield",        \* ahead of portYIELD_WITHIN_API
        "take", "wait", \* ahead of the second part of a notification wait
        "suspend", "suspendSelf",  \* ahead of that of vTaskSuspend
        "abort",        \* in xTaskAbortDelay or xTaskCatchUpTicks, ahead of xTaskResumeAll
        "catch",        \* in xTaskCatchUpTicks, behind the read of xPendedTicks
        "added",        \* in xTaskCreate, behind its critical section
        "dying",        \* deleted itself, the idle task has not noticed
        "none"}         \* deleted, or not yet created

Live == {t \in Tasks : pc[t] \notin {"dying", "none"}}

(* The tasks that wait with a time-out.                                    *)
Timed(kk) == ToSet(kk.delayed) \cup ToSet(kk.overflow)

(* t has the processor, and is at p.                                       *)
At(t, p) == k.current = t /\ ~k.swi /\ pc[t] = p

Goto(t, p) == pc' = [pc EXCEPT ![t] = p]

(* The kernel's next state, without or with a task that begins to wait.    *)
Do(kk) ==
  /\ k' = kk
  /\ left' = [t \in Tasks |-> IF t \in Timed(kk) THEN left[t] ELSE 0]

DoBlock(kk, t, ticks) ==
  /\ k' = kk
  /\ left' = [u \in Tasks |-> IF u \notin Timed(kk) THEN 0
                              ELSE IF u = t THEN ticks - k.pendedTicks ELSE left[u]]

-----------------------------------------------------------------------------
(* vTaskSuspendAll, by the application or as the first step of vTaskDelay, *)
(* xTaskDelayUntil and xTaskAbortDelay.                                    *)
CallSuspendAll(t) ==
  /\ At(t, "app") \/ At(t, "held")
  /\ k.schedulerSuspended < MaxNest
  /\ Do(SuspendAll(k))
  /\ Goto(t, "held")
  /\ UNCHANGED <<pended, made, handle, notifyState, notifyValue, stopped>>

CallResumeAll(t) ==
  /\ At(t, "held") \/ At(t, "abort")
  /\ handle = Idle
  /\ Do(ResumeAll(k))
  /\ Goto(t, IF k.schedulerSuspended > 1 THEN "held" ELSE "app")
  /\ UNCHANGED <<pended, made, handle, notifyState, notifyValue, stopped>>

(* The end of vTaskDelay: xTaskResumeAll, and portYIELD_WITHIN_API unless  *)
(* that has yielded already.  What the current task's own lists look like  *)
(* in between concerns no handler.                                         *)
Delay(t, ticks) ==
  /\ At(t, "held") /\ k.schedulerSuspended = 1
  /\ DoBlock(ResumeAll(AddCurrentToDelayed(k, ticks, FALSE)), t, ticks)
  /\ Goto(t, IF k'.yieldPending THEN "app" ELSE "yield")
  /\ UNCHANGED <<pended, made, handle, notifyState, notifyValue, stopped>>

(* xTaskDelayUntil: whether to wait for previous + increment.              *)
ShouldDelay(previous, increment, tick) ==
  LET wake == (previous + increment) % Ticks
  IN  IF tick < previous
      THEN wake < previous /\ wake > tick
      ELSE wake < previous \/ wake > tick

(* pxPreviousWakeTime is any time: the application's own variable.         *)
DelayUntil(t, previous, increment) ==
  LET ticks == (previous + increment + Ticks - k.tick) % Ticks
  IN  /\ At(t, "held") /\ k.schedulerSuspended = 1
      /\ IF ShouldDelay(previous, increment, k.tick)
         THEN DoBlock(ResumeAll(AddCurrentToDelayed(k, ticks, FALSE)), t, ticks)
         ELSE Do(ResumeAll(k))
      /\ Goto(t, IF k'.yieldPending THEN "app" ELSE "yield")
      /\ UNCHANGED <<pended, made, handle, notifyState, notifyValue, stopped>>

(* portYIELD_WITHIN_API at the end of these, and taskYIELD.                *)
CallYield(t) ==
  /\ At(t, "yield") \/ At(t, "app")
  /\ Do(Yield(k))
  /\ Goto(t, "app")
  /\ UNCHANGED <<pended, made, handle, notifyState, notifyValue, stopped>>

-----------------------------------------------------------------------------
(* prvTaskIsTaskSuspended.                                                 *)
IsSuspended(u) ==
  u \in k.suspended /\ \A l \in DOMAIN k.events : u \notin ToSet(k.events[l])

(* eTaskGetState.  Who was woken while the scheduler is suspended, and is  *)
(* to be ready when it goes on, counts as blocked.                         *)
GetState(u) ==
  CASE u = k.current -> "running"
    [] u # k.current /\ u \in Timed(k) -> "blocked"
    [] u # k.current /\ u \in k.suspended ->
         IF IsSuspended(u) /\ notifyState[u] # "waiting" THEN "suspended" ELSE "blocked"
    [] u # k.current /\ InReady(k, u) -> "ready"
    [] OTHER -> "deleted"

(* vTaskGetInfo, with what uxTaskGetSystemState passes it for each list.   *)
GetInfo(u) ==
  CASE u = k.current -> "running"
    [] u # k.current /\ u \in Timed(k) -> "blocked"
    [] u # k.current /\ u \in k.suspended -> IF IsSuspended(u) THEN "suspended" ELSE "blocked"
    [] u # k.current /\ InReady(k, u) -> "ready"
    [] OTHER -> "deleted"

(* xTaskAbortDelay, up to where u is ready; with nothing to abort it is    *)
(* vTaskSuspendAll and xTaskResumeAll.                                     *)
AbortDelay(t, u) ==
  /\ At(t, "held") /\ k.schedulerSuspended = 1 /\ u \in Live \ {t}
  /\ GetState(u) = "blocked"
  /\ Do(Unlink(k, {u}))
  /\ Goto(t, "abort") /\ handle' = u
  /\ UNCHANGED <<pended, made, notifyState, notifyValue, stopped>>

AbortReady(t) ==
  /\ At(t, "abort") /\ handle # Idle
  /\ Do(AbortWait(k, handle))
  /\ handle' = Idle
  /\ UNCHANGED <<pended, made, pc, notifyState, notifyValue, stopped>>

(* xTaskCatchUpTicks: the scheduler is suspended, but ticks come all the   *)
(* same, and what is written to xPendedTicks is what was read and n more.  *)
CatchUpRead(t) ==
  /\ At(t, "held") /\ k.schedulerSuspended = 1 /\ k.pendedTicks < MaxPended
  /\ Goto(t, "catch") /\ pended' = k.pendedTicks
  /\ UNCHANGED <<k, made, handle, notifyState, notifyValue, left, stopped>>

(* Mistake: as if nothing came in between.                                 *)
CatchUpTicksWhole(t, n) ==
  /\ At(t, "catch") /\ pended + n <= MaxPended
  /\ k' = [k EXCEPT !.pendedTicks = pended + n] /\ pended' = 0
  /\ left' = [u \in Tasks |-> IF left[u] > n THEN left[u] - n ELSE 0]
  /\ Goto(t, "abort")
  /\ UNCHANGED <<made, handle, notifyState, notifyValue, stopped>>

(* Ticks that came in between are lost, and who waits does so for as many  *)
(* more.  (Bound: no more than n come.)                                    *)
CatchUpTicks(t, n) ==
  LET missing == k.pendedTicks - pended
  IN  /\ At(t, "catch") /\ missing <= n /\ pended + n <= MaxPended
      /\ k' = [k EXCEPT !.pendedTicks = pended + n] /\ pended' = 0
      /\ left' = [u \in Tasks |-> IF left[u] + missing > n THEN left[u] + missing - n ELSE 0]
      /\ Goto(t, "abort")
      /\ UNCHANGED <<made, handle, notifyState, notifyValue, stopped>>

-----------------------------------------------------------------------------
(* vTaskSuspend: two critical sections, and a switch if u is t itself.     *)
Suspend(t, u) ==
  LET k1 == Unwait(Unlink(k, {u}), {u})
  IN  /\ At(t, "app") /\ u \in Live
      /\ Do([k1 EXCEPT !.suspended = @ \cup {u}])
      /\ notifyState' = [notifyState EXCEPT ![u] = IF @ = "waiting" THEN "none" ELSE @]
      /\ stopped' = stopped \cup {u}
      /\ Goto(t, IF u = t THEN "suspendSelf" ELSE "suspend")
      /\ UNCHANGED <<pended, made, handle, notifyValue>>

SuspendEnd(t) ==
  /\ At(t, "suspend") \/ At(t, "suspendSelf")
  /\ Do(YieldIf(ResetNextUnblock(k), pc[t] = "suspendSelf"))
  /\ Goto(t, "app")
  /\ UNCHANGED <<pended, made, handle, notifyState, notifyValue, stopped>>

(* vTaskResume.                                                            *)
Resume(t, u) ==
  /\ At(t, "app") /\ u \in Live \ {t} /\ (Stray \/ u \in stopped)
  /\ IF IsSuspended(u)
     THEN Do(YieldIf(AddToReady(Unlink(k, {u}), <<u>>),
                     k.priority[u] >= k.priority[t]))
     ELSE Do(k)
  /\ stopped' = stopped \ {u}
  /\ UNCHANGED <<pended, made, pc, handle, notifyState, notifyValue>>

(* A handler that calls xTaskResumeFromISR and yields when it says so.     *)
ResumeFromISR(u) ==
  /\ u \in Live /\ (Stray \/ u \in stopped)
  /\ IF IsSuspended(u)
     THEN LET yes == k.schedulerSuspended = 0
                       /\ k.priority[u] >= k.priority[k.current]
          IN  Do(YieldIf([MakeReady(k, u) EXCEPT !.yieldPending = @ \/ yes], yes))
     ELSE Do(k)
  /\ stopped' = stopped \ {u}
  /\ UNCHANGED <<pended, made, pc, handle, notifyState, notifyValue>>

-----------------------------------------------------------------------------
(* vTaskPrioritySet.  Nobody inherits here: base is priority.              *)
PrioritySet(t, u, p) ==
  /\ At(t, "app") /\ u \in Live /\ p # k.base[u]
  /\ Do(YieldIf(SetPriority([k EXCEPT !.base[u] = p], u, p),
                IF u = t THEN p < k.base[u]
                         ELSE p > k.base[u] /\ p >= k.priority[t]))
  /\ UNCHANGED <<pended, made, pc, handle, notifyState, notifyValue, stopped>>

(* xTaskCreate: prvInitialiseNewTask, and the critical section of          *)
(* prvAddNewTaskToReadyList.                                               *)
Create(t, u, p) ==
  /\ At(t, "app") /\ u \in Tasks /\ pc[u] = "none"
  /\ Do(AddToReady(InitialiseNewTask(k, u, p), <<u>>))
  /\ pc' = [pc EXCEPT ![t] = "added", ![u] = "app"]
  /\ made' = [made EXCEPT ![t] = u]
  /\ notifyState' = [notifyState EXCEPT ![u] = "none"]
  /\ notifyValue' = [notifyValue EXCEPT ![u] = 0]
  /\ UNCHANGED <<pended, handle, stopped>>

(* Behind it, the switch to a task of higher priority.  What the TCB of a  *)
(* task that was deleted and freed by then says is anything.               *)
AddedYield(t) ==
  /\ At(t, "added")
  /\ \E higher \in IF made[t] = Idle THEN BOOLEAN ELSE {k.priority[t] < k.priority[made[t]]} :
       Do(YieldIf(k, higher))
  /\ Goto(t, "app") /\ made' = [made EXCEPT ![t] = Idle]
  /\ UNCHANGED <<pended, handle, notifyState, notifyValue, stopped>>

(* u is freed: pxNewTCB leads nowhere, nor does that of its own call.      *)
Forget(u) ==
  made' = [t \in Tasks |-> IF t = u \/ made[t] = u THEN Idle ELSE made[t]]

(* vTaskDelete: another task is freed at once, the caller when the idle    *)
(* task runs.                                                              *)
Delete(t, u) ==
  LET k1 == Unwait(Unlink(k, {u}), {u})
  IN  /\ At(t, "app") /\ u \in Live
      /\ IF u = t THEN Do([k1 EXCEPT !.terminated = Append(@, t)]) /\ UNCHANGED made
                  ELSE Do(ResetNextUnblock(k1)) /\ Forget(u)
      /\ Goto(u, IF u = t THEN "dying" ELSE "none")
      /\ stopped' = stopped \ {u}
      /\ UNCHANGED <<pended, handle, notifyState, notifyValue>>

(* portYIELD_WITHIN_API behind it, if the tick has not come first.         *)
DeleteYield(t) ==
  /\ At(t, "dying")
  /\ Do(Yield(k))
  /\ UNCHANGED <<pended, made, pc, handle, notifyState, notifyValue, stopped>>

(* The idle task: prvCheckTasksWaitingTermination.                         *)
IdleCleanUp ==
  /\ k.current = Idle /\ ~k.swi /\ k.terminated # << >>
  /\ Do([k EXCEPT !.terminated = Tail(@)])
  /\ Goto(Head(k.terminated), "none") /\ Forget(Head(k.terminated))
  /\ UNCHANGED <<pended, handle, notifyState, notifyValue, stopped>>

-----------------------------------------------------------------------------
(* ulTaskGenericNotifyTake and xTaskGenericNotifyWait, first part: ticks   *)
(* is the time to wait, cleared what Wait clears on entry.                 *)
NotifyBlock(t, ticks, how) ==
  LET blocks == IF how = "take" THEN notifyValue[t] = 0 ELSE notifyState[t] # "received"
  IN  /\ At(t, "app")
      /\ Goto(t, how)
      /\ notifyState' = [notifyState EXCEPT ![t] = IF blocks THEN "waiting" ELSE @]
      /\ \E v \in {0, notifyValue[t]} :
           /\ v = notifyValue[t] \/ (how = "wait" /\ blocks)
           /\ notifyValue' = [notifyValue EXCEPT ![t] = v]
      /\ IF blocks /\ ticks > 0
         THEN DoBlock(Yield(AddCurrentToDelayed(k, ticks, TRUE)), t, ticks)
         ELSE Do(k)
      /\ UNCHANGED <<pended, made, handle, stopped>>

(* Second part: the value is taken, one less or cleared.                   *)
NotifyEnd(t) ==
  /\ At(t, "take") \/ At(t, "wait")
  /\ Goto(t, "app")
  /\ notifyState' = [notifyState EXCEPT ![t] = "none"]
  /\ \E v \in 0 .. notifyValue[t] :
       /\ \/ v = 0 /\ (pc[t] = "take" \/ notifyState[t] = "received")
          \/ v = notifyValue[t] - 1 /\ pc[t] = "take"
          \/ v = notifyValue[t] /\ pc[t] = "wait"
       /\ notifyValue' = [notifyValue EXCEPT ![t] = v]
  /\ UNCHANGED <<pended, made, k, handle, left, stopped>>

(* xTaskGenericNotify: v is what its eAction makes of the value.           *)
Notify(t, u, v) ==
  /\ At(t, "app") /\ u \in Live
  /\ notifyState' = [notifyState EXCEPT ![u] = "received"]
  /\ notifyValue' = [notifyValue EXCEPT ![u] = v]
  /\ IF notifyState[u] = "waiting"
     THEN Do(YieldIf(AddToReady(Unlink(k, {u}), <<u>>), k.priority[u] > k.priority[t]))
     ELSE Do(k)
  /\ UNCHANGED <<pended, made, pc, handle, stopped>>

(* A handler that calls xTaskGenericNotifyFromISR or, with v one more,     *)
(* vTaskGenericNotifyGiveFromISR, and yields when told so.                 *)
NotifyFromISR(u, v) ==
  /\ u \in Live
  /\ notifyState' = [notifyState EXCEPT ![u] = "received"]
  /\ notifyValue' = [notifyValue EXCEPT ![u] = v]
  /\ IF notifyState[u] = "waiting"
     THEN LET yes == k.priority[u] > k.priority[k.current]
          IN  Do(YieldIf([MakeReady(k, u) EXCEPT !.yieldPending = @ \/ yes], yes))
     ELSE Do(k)
  /\ UNCHANGED <<pended, made, pc, handle, stopped>>

(* xTaskNotifyStateClear: a notification that came is no longer pending.   *)
NotifyStateClear(t, u) ==
  /\ At(t, "app") /\ u \in Live /\ notifyState[u] = "received"
  /\ notifyState' = [notifyState EXCEPT ![u] = "none"]
  /\ UNCHANGED <<k, pc, pended, made, handle, notifyValue, left, stopped>>

(* ulTaskNotifyValueClear, of all bits.                                    *)
NotifyValueClear(t, u) ==
  /\ At(t, "app") /\ u \in Live
  /\ notifyValue' = [notifyValue EXCEPT ![u] = 0]
  /\ UNCHANGED <<k, pc, pended, made, handle, notifyState, left, stopped>>

-----------------------------------------------------------------------------
(* SysTick_Handler, with the history of what is left to wait.              *)
Tick ==
  /\ k.schedulerSuspended # 0 => k.pendedTicks < MaxPended
  /\ k' = SysTick(k)
  /\ left' = [t \in Tasks |-> IF t \in Timed(k') /\ left[t] > 0 THEN left[t] - 1 ELSE 0]
  /\ UNCHANGED <<pended, made, pc, handle, notifyState, notifyValue, stopped>>

(* SW_Handler.                                                             *)
Switch ==
  /\ k.swi
  /\ Do(SwitchContext(k))
  /\ UNCHANGED <<pended, made, pc, handle, notifyState, notifyValue, stopped>>

(* The orders in which these can be created.                               *)
Orders == {s \in [1 .. Cardinality(Created) -> Created] : IsInjective(s)}

Init ==
  /\ \E first \in Orders, priority \in [All -> Priority] :
       /\ priority[Idle] = 0
       /\ k = Started(first, priority)
  /\ pc = [t \in All |-> IF t \in Created \cup {Idle} THEN "app" ELSE "none"]
  /\ handle = Idle /\ pended = 0 /\ made = [t \in Tasks |-> Idle]
  /\ notifyState = [t \in Tasks |-> "none"] /\ notifyValue = [t \in Tasks |-> 0]
  /\ left = [t \in Tasks |-> 0] /\ stopped = {}

(* What a task that is in a call does next.                                *)
Continue(t) ==
  \/ CallResumeAll(t) \/ AbortReady(t) \/ SuspendEnd(t) \/ NotifyEnd(t)
  \/ AddedYield(t) \/ DeleteYield(t)
  \/ pc[t] = "yield" /\ CallYield(t)
  \/ t \in Controllers /\ (CatchUpRead(t) \/ \E n \in 1 .. MaxPended : CatchUpTicks(t, n))
  \/ \E n \in 1 .. MaxDelay :
       \/ Delay(t, n)
       \/ \E previous \in 0 .. Ticks - 1 : DelayUntil(t, previous, n)
  \/ \E u \in Tasks : t \in Controllers /\ AbortDelay(t, u)

(* What the application may do: every task to itself, and those of         *)
(* Controllers to others.                                                  *)
Call(t) ==
  \/ CallSuspendAll(t) \/ CallYield(t)
  \/ t \in Receivers /\ \E n \in 0 .. MaxDelay, how \in {"take", "wait"} : NotifyBlock(t, n, how)
  \/ \E u \in IF t \in Controllers THEN Tasks ELSE {t} :
       \/ Suspend(t, u) \/ Resume(t, u) \/ Delete(t, u)
       \/ \E p \in Priority : PrioritySet(t, u, p) \/ Create(t, u, p)
       \/ u \in Receivers /\ (NotifyStateClear(t, u) \/ NotifyValueClear(t, u))
       \/ \E v \in 0 .. MaxNotify : u \in Receivers /\ Notify(t, u, v)

Handler ==
  \/ \E u \in Tasks : ResumeFromISR(u)
  \/ \E u \in Receivers, v \in 0 .. MaxNotify : NotifyFromISR(u, v)

Next ==
  \/ \E t \in Tasks : Continue(t) \/ Call(t)
  \/ IdleCleanUp \/ Handler \/ Tick \/ Switch

Spec == Init /\ [][Next]_vars

(* The software interrupt is taken, ticks come for ever, and a task that   *)
(* suspended the scheduler, or itself, or that created or deleted one,     *)
(* goes on with that.  (As formulas on states where they say what weak     *)
(* fairness of the action would.)                                          *)
FairSpec ==
  /\ Spec
  /\ WF_vars(Switch)
  /\ []<>(k.tick = 0) /\ []<>(k.tick # 0)
  /\ []<>(k.schedulerSuspended = 0)
  /\ \A t \in Tasks, p \in {"suspendSelf", "added", "dying"} : []<>(~At(t, p))

-----------------------------------------------------------------------------
TypeOK ==
  /\ k \in KernelState
  /\ pc \in [All -> PCs] /\ handle \in All /\ pended \in 0 .. MaxPended
  /\ made \in [Tasks -> All]
  /\ notifyState \in [Tasks -> {"none", "waiting", "received"}]
  /\ notifyValue \in [Tasks -> 0 .. MaxNotify]
  /\ left \in [Tasks -> 0 .. MaxDelay] /\ stopped \subseteq Tasks

(* Every task that exists is in a list, but for the one that               *)
(* xTaskAbortDelay is moving, and nobody else is.                          *)
OnePlace ==
  \A t \in All : Places(k, t) = {} <=> pc[t] = "none" \/ (t = handle /\ t # Idle)

(* A task that was suspended stays so until it is resumed.                 *)
StoppedStay == stopped \subseteq k.suspended

(* Both ways to ask for the state of a task tell the same, but for a task  *)
(* that waits for a notification without a time-out: vTaskGetInfo takes it *)
(* for suspended.                                                          *)
StatesAgree ==
  \A t \in Tasks : t # handle =>
    \/ GetInfo(t) = GetState(t)
    \/ GetInfo(t) = "suspended" /\ notifyState[t] = "waiting" /\ t \notin stopped

(* What every state satisfies.                                             *)
Inv == TypeOK /\ ListsRight(k, handle) /\ OnePlace /\ StoppedStay /\ StatesAgree

(* No ready task has a higher priority than the one that runs, except just *)
(* before a switch, or the one that it has just created.                   *)
HighestRunning ==
  \/ HighestRuns(k) \/ pc[k.current] \in {"yield", "suspendSelf", "dying"}
  \/ /\ pc[k.current] = "added" /\ InReady(k, k.current)
     /\ \A t \in All : InReady(k, t) /\ k.priority[t] > k.priority[k.current] => t = made[k.current]

(* A task that waits for n ticks waits for n ticks, wherever the count     *)
(* wraps and however many ticks come while the scheduler is suspended; but *)
(* for ticks that xTaskCatchUpTicks loses.                                 *)
DelaysRight ==
  \A t \in Timed(k) :
    LET d == (k.wake[t] + Ticks - k.tick) % Ticks
    IN  left[t] = IF d > k.pendedTicks THEN d - k.pendedTicks ELSE 0

(* A task that was notified does not wait: it is ready or about to be.  So *)
(* none waits for a value that is already there.                           *)
NotificationKept ==
  \A t \in Live :
    pc[t] \in {"take", "wait"} /\ ~InReady(k, t) /\ t # handle /\ t \notin stopped =>
      \/ t \in ToSet(k.events[Pending])
      \/ notifyState[t] = "waiting" /\ (pc[t] = "take" => notifyValue[t] = 0)

(* Only a suspended task is resumed (the text at tasks.c 1839-1840 asks    *)
(* whether the task is suspended or blocked with no timeout).              *)
ResumeOnlySuspended ==
  [][\A t, u \in Tasks : Resume(t, u) /\ ~InReady(k, u) /\ InReady(k', u) => u \in stopped]_vars

(* Of the ready tasks of the highest priority each gets its turn: the tick *)
(* shares the time between them (configUSE_TIME_SLICING).                  *)
TurnComes ==
  \A t \in Tasks :
    []<>(\/ k.current = t
         \/ ~InReady(k, t)
         \/ \E u \in All : InReady(k, u) /\ k.priority[u] > k.priority[t])
=============================================================================
