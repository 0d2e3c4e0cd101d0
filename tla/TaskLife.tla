------------------------------ MODULE TaskLife ------------------------------
(***************************************************************************)
(* How tasks come and go (tasks.c): xTaskCreate and vTaskDelete with the   *)
(* memory they take and give back, the idle task that frees those who      *)
(* deleted themselves, and the calls that walk through all lists.  A task  *)
(* may be preempted between any two allocations, and deleted there.        *)
(***************************************************************************)
EXTENDS Kernel, FiniteSetsExt

CONSTANTS
  First,        \* the tasks created before the scheduler starts, in order
  Asked,        \* the priorities that xTaskCreate is called with
  Room,         \* the allocations that there is memory for
  Listers       \* the tasks that call vTaskList and xTaskGetHandle

TaskLifeAssumption ==
  /\ First \in Seq(Tasks) /\ EventLists = {} /\ Asked \subseteq Nat /\ Listers \subseteq Tasks
  /\ Room \in Nat /\ Room >= 2 * Len(First)

VARIABLES
  k,            \* the kernel
  count,        \* uxCurrentNumberOfTasks
  cleanUp,      \* uxDeletedTasksWaitingCleanUp
  stack, tcb,   \* the tasks whose stack and whose TCB are allocated
  pc,           \* where each task is, see PCs
  on,           \* the task that it creates or deletes there, or itself when
                \* there is none, or none any more
  array,        \* per task: uxArraySize, and how many entries the array of
                \* vTaskList has and got
  lost          \* history: memory left behind by a task deleted in a call

vars == <<k, count, cleanUp, stack, tcb, pc, on, array, lost>>

PCs == {"app",
        "stack",    \* in xTaskCreate, with the stack; ahead of the TCB
        "undo",     \* there, without a TCB; ahead of vPortFreeStack
        "tcb",      \* there, with both; ahead of prvAddNewTaskToReadyList
        "added",    \* in that, behind its critical section
        "freeStack", "freeTCB",  \* in prvDeleteTCB
        "gone",     \* deleted itself; ahead of portYIELD_WITHIN_API
        "size", "array",         \* in vTaskList
        "none"}

NoArray == [size |-> 0, length |-> 0, filled |-> 0]

At(t, p) == k.current = t /\ ~k.swi /\ pc[t] = p
Goto(t, p) == pc' = [pc EXCEPT ![t] = p]

Listed == {t \in All : Places(k, t) # {}}
Live == {t \in Tasks : pc[t] \notin {"gone", "none"}}
InCreation == {on[t] : t \in {u \in Tasks : pc[u] \in {"stack", "undo", "tcb"}}}

-----------------------------------------------------------------------------
(* xTaskCreate: the stack grows down, so it comes first.                   *)
AllocateStack(t, u) ==
  /\ At(t, "app") /\ u \in Tasks \ (stack \cup tcb \cup Listed \cup InCreation)
  /\ Cardinality(stack) + Cardinality(tcb) < Room
  /\ stack' = stack \cup {u}
  /\ on' = [on EXCEPT ![t] = u] /\ Goto(t, "stack")
  /\ UNCHANGED <<k, count, cleanUp, tcb, array, lost>>

AllocateTCB(t) ==
  /\ At(t, "stack")
  /\ IF Cardinality(stack) + Cardinality(tcb) < Room
     THEN tcb' = tcb \cup {on[t]} /\ Goto(t, "tcb")
     ELSE tcb' = tcb /\ Goto(t, "undo")
  /\ UNCHANGED <<k, count, cleanUp, stack, on, array, lost>>

UndoStack(t) ==
  /\ At(t, "undo")
  /\ stack' = stack \ {on[t]}
  /\ Goto(t, "app") /\ on' = [on EXCEPT ![t] = t]
  /\ UNCHANGED <<k, count, cleanUp, tcb, array, lost>>

(* prvInitialiseNewTask: a priority that is too high becomes the highest.  *)
Initialised(u, asked) ==
  InitialiseNewTask(k, u, IF asked >= MaxPriorities THEN MaxPriorities - 1 ELSE asked)

(* It, and the critical section of prvAddNewTaskToReadyList.               *)
AddNewTask(t, asked) ==
  LET u == on[t]
  IN  /\ At(t, "tcb")
      /\ k' = AddToReady(Initialised(u, asked), <<u>>)
      /\ count' = count + 1
      /\ pc' = [pc EXCEPT ![t] = "added", ![u] = "app"] /\ on' = [on EXCEPT ![u] = u]
      /\ UNCHANGED <<cleanUp, stack, tcb, array, lost>>

(* Behind it, the switch to a task of higher priority.  What the TCB of a  *)
(* task that was deleted and freed by then says is anything.               *)
AddedYield(t) ==
  /\ At(t, "added")
  /\ \E higher \in IF on[t] = t THEN BOOLEAN ELSE {k.priority[t] < k.priority[on[t]]} :
       k' = YieldIf(k, higher)
  /\ Goto(t, "app") /\ on' = [on EXCEPT ![t] = t]
  /\ UNCHANGED <<count, cleanUp, stack, tcb, array, lost>>

(* xTaskCreate.                                                            *)
Create(t) ==
  \/ \E u \in Tasks : AllocateStack(t, u)
  \/ AllocateTCB(t) \/ UndoStack(t)
  \/ AddedYield(t) \/ \E p \in Asked : AddNewTask(t, p)

(* What u holds is left behind when it is deleted in the middle of a call: *)
(* the memory of a task it was about to create or to free.                 *)
LeftBy(u) == IF pc[u] \in {"stack", "undo", "tcb", "freeStack", "freeTCB"} THEN {on[u]} ELSE {}

(* vTaskDelete, its critical section.                                      *)
Delete(t, u) ==
  LET k1 == Unwait(Unlink(k, {u}), {u})
  IN  /\ At(t, "app") /\ u \in Live
      /\ IF u = t
         THEN /\ k' = [k1 EXCEPT !.terminated = Append(@, t)]
              /\ cleanUp' = cleanUp + 1 /\ pc' = [pc EXCEPT ![t] = "gone"]
              /\ UNCHANGED <<count, on, lost>>
         ELSE /\ k' = ResetNextUnblock(k1)
              /\ count' = count - 1 /\ on' = [on EXCEPT ![t] = u]
              /\ pc' = [pc EXCEPT ![t] = "freeStack", ![u] = "none"]
              /\ lost' = lost \cup LeftBy(u) /\ UNCHANGED cleanUp
      /\ array' = [array EXCEPT ![u] = NoArray]
      /\ UNCHANGED <<stack, tcb>>

(* portYIELD_WITHIN_API behind it, if the tick has not come first.         *)
DeleteYield(t) ==
  /\ At(t, "gone") /\ k' = Yield(k)
  /\ UNCHANGED <<count, cleanUp, stack, tcb, pc, on, array, lost>>

(* prvDeleteTCB, by the task that called vTaskDelete or by the idle task.  *)
FreeStack(t) ==
  /\ At(t, "freeStack")
  /\ stack' = stack \ {on[t]} /\ Goto(t, "freeTCB")
  /\ UNCHANGED <<k, count, cleanUp, tcb, on, array, lost>>

FreeTCB(t) ==
  /\ At(t, "freeTCB")
  /\ tcb' = tcb \ {on[t]} /\ Goto(t, "app")
  /\ on' = [u \in All |-> IF u = t \/ (pc[u] = "added" /\ on[u] = on[t]) THEN u ELSE on[u]]
  /\ UNCHANGED <<k, count, cleanUp, stack, array, lost>>

(* prvCheckTasksWaitingTermination, its critical section.                  *)
IdleCleanUp ==
  LET t == Head(k.terminated)
  IN  /\ At(Idle, "app") /\ cleanUp > 0
      /\ k' = [k EXCEPT !.terminated = Tail(@)]
      /\ count' = count - 1 /\ cleanUp' = cleanUp - 1
      /\ on' = [on EXCEPT ![Idle] = t]
      /\ pc' = [pc EXCEPT ![Idle] = "freeStack", ![t] = "none"]
      /\ UNCHANGED <<stack, tcb, array, lost>>

(* prvIdleTask; it does not give way to others of its priority, whose turn *)
(* comes with the tick (configIDLE_SHOULD_YIELD is 0).                     *)
IdleTask == IdleCleanUp \/ FreeStack(Idle) \/ FreeTCB(Idle)

-----------------------------------------------------------------------------
(* listGET_OWNER_OF_NEXT_ENTRY until the first comes again, in each list   *)
(* of ready tasks: pxIndex ends one further than it was, and the next in   *)
(* turn is passed over.                                                    *)
Further(l) ==
  IF l.items = <<>> THEN l ELSE [l EXCEPT !.index = IF @ = Len(l.items) THEN 1 ELSE @ + 1]

(* prvSearchForNameWithinSingleList for u: pxIndex stays at it.            *)
Search(l, u) ==
  IF u \in ToSet(l.items) THEN [l EXCEPT !.index = CHOOSE i \in DOMAIN l.items : l.items[i] = u]
  ELSE Further(l)

(* xTaskGetHandle, from the list of the highest priority down to where u   *)
(* is found, or through all of them.                                       *)
GetHandle(t, u) ==
  /\ At(t, "app")
  /\ k' = [k EXCEPT !.ready = [p \in Priority |->
             IF \E r \in p + 1 .. MaxPriorities - 1 : u \in ToSet(@[r].items) THEN @[p]
             ELSE Search(@[p], u)]]
  /\ UNCHANGED <<count, cleanUp, stack, tcb, pc, on, array, lost>>

(* vTaskList: the number of tasks is read once ...                         *)
ReadSize(t) ==
  /\ At(t, "app")
  /\ array' = [array EXCEPT ![t].size = count] /\ Goto(t, "size")
  /\ UNCHANGED <<k, count, cleanUp, stack, tcb, on, lost>>

(* ... and once more for the array, for which there may be no memory.      *)
AllocateArray(t) ==
  /\ At(t, "size")
  /\ \/ array' = [array EXCEPT ![t].length = count] /\ Goto(t, "array")
     \/ array' = [array EXCEPT ![t] = NoArray] /\ Goto(t, "app")
  /\ UNCHANGED <<k, count, cleanUp, stack, tcb, on, lost>>

(* Mistake: the size of the array is not compared.                         *)
GetSystemStateBlind(t) ==
  /\ At(t, "array") /\ array[t].filled = 0
  /\ k' = [k EXCEPT !.ready = [p \in Priority |-> Further(@[p])]]
  /\ array' = [array EXCEPT ![t].filled = Cardinality(Listed)]
  /\ UNCHANGED <<count, cleanUp, stack, tcb, pc, on, lost>>

(* uxTaskGetSystemState: prvListTasksWithinSingleList for every list.      *)
GetSystemState(t) ==
  /\ At(t, "array") /\ array[t].filled = 0
  /\ IF array[t].size >= count
     THEN /\ k' = [k EXCEPT !.ready = [p \in Priority |-> Further(@[p])]]
          /\ array' = [array EXCEPT ![t].filled = Cardinality(Listed)]
          /\ UNCHANGED pc
     ELSE UNCHANGED k /\ array' = [array EXCEPT ![t] = NoArray] /\ Goto(t, "app")
  /\ UNCHANGED <<count, cleanUp, stack, tcb, on, lost>>

(* The table is written, and the array freed.                              *)
FreeArray(t) ==
  /\ At(t, "array") /\ array[t].filled > 0
  /\ array' = [array EXCEPT ![t] = NoArray] /\ Goto(t, "app")
  /\ UNCHANGED <<k, count, cleanUp, stack, tcb, on, lost>>

-----------------------------------------------------------------------------
(* SysTick_Handler and SW_Handler.                                         *)
Interrupt ==
  /\ k' = SysTick(k) \/ (k.swi /\ k' = SwitchContext(k))
  /\ UNCHANGED <<count, cleanUp, stack, tcb, pc, on, array, lost>>

Init ==
  /\ \E priority \in [All -> Priority] :
       priority[Idle] = 0 /\ k = Started(First, priority)
  /\ count = Len(First) + 1 /\ cleanUp = 0
  /\ stack = ToSet(First) /\ tcb = ToSet(First)
  /\ pc = [t \in All |-> IF t \in ToSet(First) \cup {Idle} THEN "app" ELSE "none"]
  /\ on = [t \in All |-> t]
  /\ array = [t \in Tasks |-> NoArray] /\ lost = {}

Next ==
  \/ \E t \in Tasks :
       \/ Create(t) \/ DeleteYield(t) \/ FreeStack(t) \/ FreeTCB(t)
       \/ \E u \in Tasks : Delete(t, u) \/ (t \in Listers /\ GetHandle(t, u))
       \/ (t \in Listers /\ ReadSize(t)) \/ AllocateArray(t) \/ GetSystemState(t) \/ FreeArray(t)
  \/ IdleTask \/ Interrupt

-----------------------------------------------------------------------------
(* The memory of a task that is in a list, or that still runs, is not      *)
(* freed under it; and what is allocated belongs to such a task or to one  *)
(* that is being created or deleted, unless the task that did so was       *)
(* deleted itself: nobody frees that.                                      *)
MemoryRight ==
  /\ \A t \in Tasks \cap (Listed \cup {k.current}) : t \in stack /\ t \in tcb
  /\ \A t \in (stack \cup tcb) \ (Listed \cup lost) :
       \E u \in All : u # t /\ on[u] = t /\ pc[u] \in PCs \ {"app", "added", "none"}

(* uxCurrentNumberOfTasks is the number of tasks in all lists, with those  *)
(* who deleted themselves, and each is in one list only.                   *)
CountRight ==
  /\ count = Cardinality(Listed) /\ cleanUp = Len(k.terminated)
  /\ ListsRight(k, Idle)

(* vTaskList gets as many entries as its array has, unless a task was      *)
(* deleted between its two looks at their number.                          *)
ArrayRight ==
  \A t \in Tasks : array[t].filled <= array[t].length \/ array[t].length < array[t].size

TaskLifeRight == MemoryRight /\ CountRight /\ ArrayRight
=============================================================================
