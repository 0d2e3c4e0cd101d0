------------------------------- MODULE Kernel -------------------------------
(***************************************************************************)
(* The FreeRTOS kernel of snippets/freertos (rtos_src/tasks.c, list.c and  *)
(* the RISC-V port) as operators on its state k, a record of the variables *)
(* of tasks.c and of the fields of every task control block.  Nothing here *)
(* takes time: each operator is what one critical section, one interrupt   *)
(* handler, or one stretch with the scheduler suspended does to k.  The    *)
(* modules that extend this one say when.                                  *)
(***************************************************************************)
EXTENDS Naturals, Sequences, FiniteSets, SequencesExt

CONSTANTS
  Tasks,        \* the tasks other than the idle task
  Idle,         \* the idle task
  MaxPriorities,\* configMAX_PRIORITIES
  Ticks,        \* TickType_t counts modulo Ticks (2^32)
  Overflows,    \* xNumOfOverflows counts modulo Overflows (2^32)
  EventLists    \* the lists of tasks that wait for something

ASSUME KernelAssumption ==
  /\ Idle \notin Tasks
  /\ MaxPriorities \in Nat \ {0} /\ Ticks \in Nat \ {0} /\ Overflows \in Nat \ {0}

All == Tasks \cup {Idle}
Priority == 0 .. MaxPriorities - 1
MaxDelay == Ticks - 1           \* portMAX_DELAY
Pending == <<"xPendingReadyList">>  \* a list of event items, like the others

-----------------------------------------------------------------------------
(* list.c.  Only the lists of ready tasks are walked by their pxIndex: they *)
(* are a sequence of tasks and the place of pxIndex in it, 0 for the end   *)
(* marker.  All other lists keep it there and are sequences.               *)

EmptyList == [items |-> << >>, index |-> 0]

(* vListInsertEnd for each of s: before pxIndex, so that it comes last.    *)
InsertEnd(l, s) ==
  IF l.index = 0
  THEN [l EXCEPT !.items = @ \o s]
  ELSE [items |-> SubSeq(l.items, 1, l.index - 1) \o s
                    \o SubSeq(l.items, l.index, Len(l.items)),
        index |-> l.index + Len(s)]

(* What the first n of s are without those of S.                           *)
Kept(s, S) ==
  LET kept[n \in 0 .. Len(s)] ==
        IF n = 0 THEN << >>
        ELSE IF s[n] \in S THEN kept[n - 1] ELSE Append(kept[n - 1], s[n])
  IN  kept

Without(s, S) == Kept(s, S)[Len(s)]

(* uxListRemove for each of S: a pxIndex that is removed steps back.       *)
RemoveItems(l, S) ==
  [items |-> Without(l.items, S), index |-> Len(Kept(l.items, S)[l.index])]

(* vListInsert: before the first item with a greater value.                *)
Insert(s, t, value) ==
  LET greater == {i \in 1 .. Len(s) : value[s[i]] > value[t]}
      at == CHOOSE i \in greater \cup {Len(s) + 1} : \A j \in greater : i <= j
  IN  SubSeq(s, 1, at - 1) \o <<t>> \o SubSeq(s, at, Len(s))

-----------------------------------------------------------------------------
(* tasks.c: where tasks are.                                               *)

InReady(k, t) == \E p \in Priority : t \in ToSet(k.ready[p].items)

(* prvAddTaskToReadyList for each of s.                                    *)
AddToReady(k, s) ==
  [k EXCEPT !.ready = [p \in Priority |->
                         InsertEnd(@[p], Without(s, {t \in All : k.priority[t] # p}))],
            !.top = CHOOSE p \in {@} \cup {k.priority[t] : t \in ToSet(s)} :
                      /\ p >= @
                      /\ \A t \in ToSet(s) : p >= k.priority[t]]

(* The state items of S out of whatever list they are in (the time to wake *)
(* means nothing outside the delayed lists), ...                           *)
Unlink(k, S) ==
  [k EXCEPT !.ready = [p \in Priority |-> RemoveItems(@[p], S)],
            !.delayed = Without(@, S),
            !.overflow = Without(@, S),
            !.suspended = @ \ S,
            !.terminated = Without(@, S),
            !.wake = [t \in All |-> IF t \in S THEN 0 ELSE @[t]]]

(* ... their event items likewise, ...                                     *)
Unwait(k, S) ==
  [k EXCEPT !.events = [l \in EventLists \cup {Pending} |-> Without(@[l], S)]]

(* ... and both, to become ready in the order of s.                        *)
Wake(k, s) == AddToReady(Unlink(Unwait(k, ToSet(s)), ToSet(s)), s)

(* prvInitialiseNewTask, with its priority at most the highest.            *)
InitialiseNewTask(k, u, p) ==
  [k EXCEPT !.priority[u] = p, !.base[u] = p, !.item[u] = MaxPriorities - p,
            !.aborted[u] = FALSE, !.wake[u] = 0]

(* prvResetNextTaskUnblockTime.                                            *)
NextWake(k) == IF k.delayed = << >> THEN MaxDelay ELSE k.wake[Head(k.delayed)]

ResetNextUnblock(k) == [k EXCEPT !.nextUnblock = NextWake(k)]

(* portYIELD: the software interrupt is pending.                           *)
Yield(k) == [k EXCEPT !.swi = TRUE]

YieldIf(k, yes) == IF yes THEN Yield(k) ELSE k

-----------------------------------------------------------------------------
(* The tick.                                                               *)

(* taskSWITCH_DELAYED_LISTS.                                               *)
SwitchDelayedLists(k) ==
  ResetNextUnblock([k EXCEPT !.delayed = k.overflow, !.overflow = k.delayed,
                             !.overflows = (@ + 1) % Overflows])

(* Mistake: the lists are not switched when the count wraps.               *)
CountTickFlat(k) == [k EXCEPT !.tick = (@ + 1) % Ticks]

CountTick(k) ==
  LET now == [k EXCEPT !.tick = (@ + 1) % Ticks]
  IN  IF now.tick = 0 THEN SwitchDelayedLists(now) ELSE now

(* xTaskIncrementTick: the new state, and whether it asks for a switch.    *)
IncrementTick(k) ==
  LET now  == CountTick(k)
      due  == IF now.tick >= now.nextUnblock
              THEN Without(now.delayed, {t \in All : now.wake[t] > now.tick})
              ELSE << >>
      woken == Wake(now, due)
  IN  IF k.schedulerSuspended # 0
      THEN <<[k EXCEPT !.pendedTicks = @ + 1], FALSE>>
      ELSE <<IF now.tick >= now.nextUnblock THEN ResetNextUnblock(woken) ELSE woken,
             \/ \E t \in ToSet(due) : k.priority[t] >= k.priority[k.current]
             \/ Len(woken.ready[k.priority[k.current]].items) > 1
             \/ k.yieldPending>>

(* SysTick_Handler.                                                        *)
SysTick(k) == YieldIf(IncrementTick(k)[1], IncrementTick(k)[2])

(* Mistake: always the first task of the list.                             *)
SwitchContextFirst(k) ==
  IF k.schedulerSuspended # 0
  THEN [k EXCEPT !.swi = FALSE, !.yieldPending = TRUE]
  ELSE LET p == CHOOSE q \in 0 .. k.top :
                  /\ k.ready[q].items # << >>
                  /\ \A r \in q + 1 .. k.top : k.ready[r].items = << >>
       IN  [k EXCEPT !.swi = FALSE, !.yieldPending = FALSE, !.top = p,
                     !.ready[p].index = 1, !.current = Head(k.ready[p].items)]

(* vTaskSwitchContext, in the software interrupt.                          *)
SwitchContext(k) ==
  IF k.schedulerSuspended # 0
  THEN [k EXCEPT !.swi = FALSE, !.yieldPending = TRUE]
  ELSE LET p == CHOOSE q \in 0 .. k.top :
                  /\ k.ready[q].items # << >>
                  /\ \A r \in q + 1 .. k.top : k.ready[r].items = << >>
           l == k.ready[p]
           i == IF l.index = Len(l.items) THEN 1 ELSE l.index + 1
       IN  [k EXCEPT !.swi = FALSE, !.yieldPending = FALSE,
                     !.top = p, !.ready[p].index = i, !.current = l.items[i]]

-----------------------------------------------------------------------------
(* The scheduler suspended.                                                *)

SuspendAll(k) == [k EXCEPT !.schedulerSuspended = @ + 1]

(* Mistake: whoever becomes ready, nobody yields.                          *)
MovePendingQuiet(k) ==
  IF k.events[Pending] = << >> THEN k ELSE ResetNextUnblock(Wake(k, k.events[Pending]))

(* The part of xTaskResumeAll that empties xPendingReadyList, ...          *)
MovePending(k) ==
  LET moved == k.events[Pending]
      k1 == Wake(k, moved)
  IN  IF moved = << >> THEN k
      ELSE ResetNextUnblock(
             [k1 EXCEPT !.yieldPending =
                @ \/ \E t \in ToSet(moved) : k.priority[t] >= k.priority[k.current]])

(* Mistake: those ticks are forgotten.                                     *)
ReplayTicksNot(k) == [k EXCEPT !.pendedTicks = 0]

(* ... the part that makes up for the ticks that came meanwhile, ...       *)
ReplayTicks(k) ==
  LET after[n \in 0 .. k.pendedTicks] ==
        IF n = 0 THEN k
        ELSE LET r == IncrementTick(after[n - 1])
             IN  [r[1] EXCEPT !.yieldPending = @ \/ r[2]]
  IN  [after[k.pendedTicks] EXCEPT !.pendedTicks = 0]

(* ... and all of it.  xAlreadyYielded is then the new yieldPending.       *)
ResumeAll(k) ==
  LET k1 == [k EXCEPT !.schedulerSuspended = @ - 1]
      k2 == ReplayTicks(MovePending(k1))
  IN  IF k1.schedulerSuspended # 0 THEN k1 ELSE YieldIf(k2, k2.yieldPending)

-----------------------------------------------------------------------------
(* Blocking and unblocking.                                                *)

(* prvAddCurrentTaskToDelayedList.                                         *)
AddCurrentToDelayed(k, ticks, canBlockIndefinitely) ==
  LET c == k.current
      k1 == [Unlink(k, {c}) EXCEPT !.aborted[c] = FALSE]
      at == (k.tick + ticks) % Ticks
      k2 == [k1 EXCEPT !.wake[c] = at]
  IN  IF ticks = MaxDelay /\ canBlockIndefinitely
      THEN [k1 EXCEPT !.suspended = @ \cup {c}]
      ELSE IF at < k.tick
      THEN [k2 EXCEPT !.overflow = Insert(@, c, k2.wake)]
      ELSE [k2 EXCEPT !.delayed = Insert(@, c, k2.wake),
                      !.nextUnblock = IF at < @ THEN at ELSE @]

(* vTaskPlaceOnEventList.                                                  *)
PlaceOnEventList(k, l, ticks) ==
  AddCurrentToDelayed([k EXCEPT !.events[l] = Insert(@, k.current, k.item)], ticks, TRUE)

(* vTaskPlaceOnEventListRestricted: only one task ever waits in l.         *)
PlaceOnEventListRestricted(k, l, ticks, indefinitely) ==
  AddCurrentToDelayed([k EXCEPT !.events[l] = Append(@, k.current)],
                      IF indefinitely THEN MaxDelay ELSE ticks, indefinitely)

(* Mistake: with the scheduler suspended the task is not noted.            *)
MakeReadyForgetful(k, t) ==
  IF k.schedulerSuspended = 0 THEN AddToReady(Unlink(k, {t}), <<t>>) ELSE k

(* A task that waits becomes ready, or is noted for when the scheduler     *)
(* goes on.                                                                *)
MakeReady(k, t) ==
  IF k.schedulerSuspended = 0
  THEN AddToReady(Unlink(k, {t}), <<t>>)
  ELSE [k EXCEPT !.events[Pending] = Append(@, t)]

(* xTaskRemoveFromEventList without its result, ...                        *)
RemoveFromEventList(k, l) ==
  LET t == Head(k.events[l])
  IN  [MakeReady(Unwait(k, {t}), t) EXCEPT !.yieldPending =
         @ \/ k.priority[t] > k.priority[k.current]]

(* Mistake: nobody asks for the switch.                                    *)
WakeWaiterQuiet(k, l) == IF k.events[l] = << >> THEN k ELSE RemoveFromEventList(k, l)

(* ... and with what its callers do: if someone waits in l, the first of   *)
(* them is woken, and the processor yields to one of a higher priority.    *)
WakeWaiter(k, l) ==
  IF k.events[l] = << >> THEN k
  ELSE YieldIf(RemoveFromEventList(k, l),
               k.priority[Head(k.events[l])] > k.priority[k.current])

(* vTaskMissedYield for each of the first n that wait in l, as             *)
(* prvUnlockQueue wakes them.                                              *)
WakeWaiters(k, l, n) ==
  LET woken[i \in 0 .. Len(k.events[l])] ==
        IF i = 0 THEN k ELSE RemoveFromEventList(woken[i - 1], l)
  IN  woken[IF n < Len(k.events[l]) THEN n ELSE Len(k.events[l])]

(* The part of xTaskAbortDelay behind the removal from the delayed list.   *)
AbortWait(k, t) ==
  LET waits == \E l \in DOMAIN k.events : t \in ToSet(k.events[l])
      k1 == [Unwait(k, {t}) EXCEPT !.aborted[t] = @ \/ waits]
  IN  [AddToReady(k1, <<t>>) EXCEPT !.yieldPending =
         @ \/ k.priority[t] > k.priority[k.current]]

-----------------------------------------------------------------------------
(* Time-outs: [overflows, tick] of vTaskInternalSetTimeOutState.           *)

Now(k) == [overflows |-> k.overflows, tick |-> k.tick]

Elapsed(k, since) == (k.tick + Ticks - since.tick) % Ticks

(* Mistake: every wrap of the count since then is taken for a round of it.  *)
TimedOutByWrap(k, since, ticks) ==
  /\ ticks # MaxDelay
  /\ k.overflows # since.overflows \/ Elapsed(k, since) >= ticks

(* What xTaskCheckForTimeOut answers for ticks from since on, when nobody  *)
(* aborted the wait.  If not, the time-out starts anew with what is left.  *)
TimedOut(k, since, ticks) ==
  /\ ticks # MaxDelay
  /\ \/ k.overflows # since.overflows /\ k.tick >= since.tick
     \/ Elapsed(k, since) >= ticks

-----------------------------------------------------------------------------
(* Mutexes: the holder runs at least as high as who waits for it.          *)

(* The new priority of t, ready or not; the value of its event item is the *)
(* new one too, wherever that is.                                          *)
SetPriority(k, t, p) ==
  LET k1 == [k EXCEPT !.priority[t] = p, !.item[t] = MaxPriorities - p]
  IN  IF InReady(k, t) THEN AddToReady(Unlink(k1, {t}), <<t>>) ELSE k1

(* xTaskPriorityInherit without its result, and that.                      *)
PriorityInherit(k, holder) ==
  IF k.priority[holder] < k.priority[k.current]
  THEN SetPriority(k, holder, k.priority[k.current]) ELSE k

Inherits(k, holder) == k.base[holder] < k.priority[k.current]

(* Mistake: the priority stays, or goes with the first mutex given back.   *)
DisinheritsNot(k, held) == FALSE
DisinheritsEarly(k, held) == k.priority[k.current] # k.base[k.current]

(* xTaskPriorityDisinherit by the current task, which goes on to hold held *)
(* mutexes, and its result.                                                *)
Disinherits(k, held) == held = 0 /\ k.priority[k.current] # k.base[k.current]

PriorityDisinherit(k, held) ==
  IF Disinherits(k, held) THEN SetPriority(k, k.current, k.base[k.current]) ELSE k

(* vTaskPriorityDisinheritAfterTimeout, with the highest priority of those *)
(* that still wait.                                                        *)
DisinheritAfterTimeout(k, holder, held, waiting) ==
  LET p == IF k.base[holder] < waiting THEN waiting ELSE k.base[holder]
  IN  IF k.priority[holder] # p /\ held = 1 THEN SetPriority(k, holder, p) ELSE k

-----------------------------------------------------------------------------
(* What the fields are, and what holds between any two critical sections.  *)

KernelState ==
  [current : All, swi : BOOLEAN, yieldPending : BOOLEAN,
   ready : [Priority -> [items : Seq(All), index : Nat]],
   top : Priority,
   delayed : Seq(All), overflow : Seq(All), suspended : SUBSET All,
   terminated : Seq(All),
   events : [EventLists \cup {Pending} -> Seq(All)],
   tick : 0 .. Ticks - 1, overflows : 0 .. Overflows - 1,
   nextUnblock : 0 .. Ticks - 1,
   schedulerSuspended : Nat, pendedTicks : Nat,
   priority : [All -> Priority], base : [All -> Priority],
   item : [All -> 0 .. MaxPriorities],
   wake : [All -> 0 .. Ticks - 1], aborted : [All -> BOOLEAN]]

(* The tasks of first were created in this order, and vTaskStartScheduler  *)
(* created the idle task: the last of the highest priority runs.           *)
Started(first, priority) ==
  LET created == Append(first, Idle)
      lower == {t \in All : \E u \in ToSet(created) : priority[u] > priority[t]}
      k0 == [current |-> Last(Without(created, lower)),
             swi |-> FALSE, yieldPending |-> FALSE,
             ready |-> [p \in Priority |-> EmptyList], top |-> 0,
             delayed |-> << >>, overflow |-> << >>, suspended |-> {},
             terminated |-> << >>,
             events |-> [l \in EventLists \cup {Pending} |-> << >>],
             tick |-> 0, overflows |-> 0, nextUnblock |-> MaxDelay,
             schedulerSuspended |-> 0, pendedTicks |-> 0,
             priority |-> priority, base |-> priority,
             item |-> [t \in All |-> MaxPriorities - priority[t]],
             wake |-> [t \in All |-> 0], aborted |-> [t \in All |-> FALSE]]
  IN  AddToReady(k0, created)

(* Who is in which list by his state item, and in which of them t is.      *)
Members(k) ==
  [ready |-> {t \in All : InReady(k, t)}, delayed |-> ToSet(k.delayed),
   overflow |-> ToSet(k.overflow), suspended |-> k.suspended,
   terminated |-> ToSet(k.terminated)]

Places(k, t) == LET in == Members(k) IN {l \in DOMAIN in : t \in in[l]}

(* Nobody is twice in a list, and in one list only.                        *)
NoRepeats(k) ==
  LET in == Members(k)
  IN  /\ \A p \in Priority : IsInjective(k.ready[p].items)
      /\ IsInjective(k.delayed) /\ IsInjective(k.overflow) /\ IsInjective(k.terminated)
      /\ \A l, m \in DOMAIN in : l # m => in[l] \cap in[m] = {}

(* Every ready task is in the list of its own priority, ...                *)
ReadyRight(k) ==
  \A p \in Priority :
    /\ \A i \in 1 .. Len(k.ready[p].items) : k.priority[k.ready[p].items[i]] = p
    /\ k.ready[p].index \in 0 .. Len(k.ready[p].items)
    /\ k.ready[p].items # << >> => p <= k.top

(* ... the delayed lists are in order and on the right side of the wrap,   *)
(* and the next time to look is not later than the first of them.          *)
DelayedRight(k) ==
  /\ \A s \in {k.delayed, k.overflow} :
       \A i, j \in 1 .. Len(s) : i < j => k.wake[s[i]] <= k.wake[s[j]]
  /\ \A t \in ToSet(k.delayed) : k.wake[t] > k.tick
  /\ \A t \in ToSet(k.overflow) : k.wake[t] < k.tick
  /\ k.nextUnblock <= NextWake(k)

(* ... no event item is in two places, and a task that waits in an event   *)
(* list is blocked, but for one that xTaskAbortDelay is moving.            *)
EventsRight(k, moving) ==
  /\ \A l \in EventLists \cup {Pending} : IsInjective(k.events[l])
  /\ \A l, m \in EventLists \cup {Pending} :
       l # m => ToSet(k.events[l]) \cap ToSet(k.events[m]) = {}
  /\ \A l \in EventLists : \A t \in ToSet(k.events[l]) \ {moving} :
       t \in ToSet(k.delayed) \cup ToSet(k.overflow) \cup k.suspended

(* ... and what is put off is put off only while the scheduler is          *)
(* suspended.                                                              *)
PutOff(k) ==
  k.schedulerSuspended = 0 => k.pendedTicks = 0 /\ k.events[Pending] = << >>

ListsRight(k, moving) ==
  NoRepeats(k) /\ ReadyRight(k) /\ DelayedRight(k) /\ EventsRight(k, moving) /\ PutOff(k)

(* No ready task has a higher priority than the one that runs, unless a    *)
(* switch is on its way.                                                   *)
HighestRuns(k) ==
  \/ k.swi \/ k.schedulerSuspended # 0
  \/ /\ InReady(k, k.current)
     /\ \A t \in All : InReady(k, t) => k.priority[t] <= k.priority[k.current]
=============================================================================
