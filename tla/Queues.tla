------------------------------- MODULE Queues -------------------------------
(***************************************************************************)
(* queue.c: queues, semaphores (queues of items without content) and       *)
(* mutexes, used by tasks that wait for them with a time-out and by        *)
(* interrupt handlers that do not wait.  A call is one action for each     *)
(* stretch in which nothing comes in between that matters to it: its       *)
(* critical section at the start, and, when it has to wait, the locking of *)
(* the queue behind vTaskSuspendAll, the test, the two halves of           *)
(* prvUnlockQueue, and xTaskResumeAll.                                     *)
(***************************************************************************)
EXTENDS Kernel

CONSTANTS
  First,        \* the tasks, in the order of their creation
  Owns,         \* the priorities they may be created with
  Queues,       \* the queues
  Mutexes,      \* those of them that are mutexes, recursive ones
  Length,       \* uxLength of each
  Items,        \* what may be in a queue
  Uses,         \* the sets of calls, [by, do, on, item, pos, ticks], of which
                \* the application makes one
  Handlers,     \* what handlers do: [do, on, item, pos]
  Aborters,     \* the tasks that call xTaskAbortDelay
  MaxCount,     \* bound: how often a mutex is taken again by its holder
  MaxPended,    \* bound: ticks while the scheduler is suspended
  MaxWaited     \* bound: ticks for which a call with a time-out is not over

None == Idle    \* no task: a mutex that is free
Junk == 0       \* what new storage holds

ASSUME QueuesAssumption ==
  /\ First \in Seq(Tasks) /\ ToSet(First) = Tasks /\ IsInjective(First)
  /\ Owns \subseteq [Tasks -> Priority]
  /\ Mutexes \subseteq Queues /\ IsFiniteSet(Queues) /\ Junk \notin Items
  /\ Length \in [Queues -> Nat \ {0}] /\ \A q \in Mutexes : Length[q] = 1
  /\ EventLists = Queues \X {"send", "receive"}
  /\ \A c \in UNION Uses :
                      /\ c.by \in Tasks /\ c.on \in Queues /\ c.ticks \in 0 .. MaxDelay
                      /\ c.do \in {"send", "receive", "peek", "reset", "delay", "again"}
                      /\ c.item \in Items
                      /\ c.pos \in {"back", "front", "overwrite"}
                      /\ c.pos = "overwrite" => Length[c.on] = 1
                      /\ c.on \in Mutexes => c.do \notin {"peek", "reset"}
  /\ \A h \in Handlers : /\ h.on \in Queues \ Mutexes /\ h.do \in {"send", "receive"}
                         /\ h.item \in Items /\ h.pos \in {"back", "front", "overwrite"}
                         /\ h.pos = "overwrite" => Length[h.on] = 1
  /\ Aborters \subseteq Tasks /\ MaxCount \in Nat \ {0} /\ MaxPended \in Nat
  /\ MaxWaited \in Nat /\ (MaxWaited < Ticks \/ MaxWaited <= Ticks * (Overflows - 1))

VARIABLES
  use,          \* the calls the application makes
  k,            \* the kernel
  queue,        \* per queue: see QueueState
  held,         \* uxMutexesHeld of each task
  pc,           \* where each task is, see PCs
  call,         \* per task: the call it is in, with its locals
  handle,       \* pxTCB of an xTaskAbortDelay that goes on, or None
  waited,       \* history: ticks since the time-out of a call began
  cut           \* history: tasks aborted since their last call that failed

vars == <<use, k, queue, held, pc, call, handle, waited, cut>>

PCs == {"app",     \* between two calls
        "block",   \* ahead of vTaskSuspendAll
        "lock", "check", "unlockTx", "unlockRx", "resume",
        "yield",   \* ahead of portYIELD_WITHIN_API
        "try",     \* at the start of the loop again
        "empty",   \* timed out, ahead of prvIsQueueEmpty
        "disinherit",  \* ahead of vTaskPriorityDisinheritAfterTimeout
        "abort"}   \* in xTaskAbortDelay, behind the removal

QueueState(q) ==
  [store : [0 .. Length[q] - 1 -> Items \cup {Junk}], write : 0 .. Length[q] - 1,
   read : 0 .. Length[q] - 1,   \* pcReadFrom: the place before the first item
   waiting : 0 .. Length[q],    \* uxMessagesWaiting
   txLock : -1 .. Length[q], rxLock : -1 .. Length[q],
   holder : Tasks \cup {None}, count : 0 .. MaxCount]

(* A call's locals: what is left of ticks, the time it is counted from,    *)
(* xInheritanceOccurred, and why it unlocks the queue.                     *)
NoCall == [do |-> "none"]

Locals(c) == [do |-> c.do, on |-> c.on, item |-> c.item, pos |-> c.pos, asked |-> c.ticks,
              left |-> c.ticks, since |-> Now(k), inherited |-> FALSE, why |-> "none"]

SendList(q) == <<q, "send">>
ReceiveList(q) == <<q, "receive">>

WaitList(c) == IF c.do = "send" THEN SendList(c.on) ELSE ReceiveList(c.on)

(* Time passes for the histories: n ticks for a call with a time-out.      *)
Timing(t) == pc[t] \notin {"app", "abort"} /\ call[t].asked \in 1 .. MaxDelay - 1

(* t has the processor, and is at p.                                       *)
At(t, p) == k.current = t /\ ~k.swi /\ pc[t] = p

Goto(t, p) == pc' = [pc EXCEPT ![t] = p]

-----------------------------------------------------------------------------
(* The storage.                                                            *)

Locked(l) == l # -1

Full(q) == queue[q].waiting = Length[q]
Empty(q) == queue[q].waiting = 0

(* Mistake: in front, the place is looked for before the item is stored.   *)
CopyToBefore(q, item, pos) ==
  LET s == queue[q]
      before == IF s.read = 0 THEN Length[q] - 1 ELSE s.read - 1
  IN  IF pos = "back"
      THEN [s EXCEPT !.store[s.write] = item, !.write = (@ + 1) % Length[q], !.waiting = @ + 1]
      ELSE [s EXCEPT !.store[before] = item, !.read = before, !.waiting = @ + 1]

(* prvCopyDataToQueue for a queue that is not a mutex.                     *)
CopyTo(q, item, pos) ==
  LET s == queue[q]
      more == IF pos = "overwrite" /\ s.waiting > 0 THEN s.waiting ELSE s.waiting + 1
  IN  IF pos = "back"
      THEN [s EXCEPT !.store[s.write] = item, !.write = (@ + 1) % Length[q],
                     !.waiting = more]
      ELSE [s EXCEPT !.store[s.read] = item,
                     !.read = IF @ = 0 THEN Length[q] - 1 ELSE @ - 1,
                     !.waiting = more]

(* What xQueueGenericReset leaves.                                         *)
Fresh(q, s, n) ==
  [store |-> s, write |-> 0, read |-> Length[q] - 1, waiting |-> n,
   txLock |-> -1, rxLock |-> -1, holder |-> None, count |-> 0]

(* prvCopyDataFromQueue, and one item less: the item is store[read].       *)
CopyFrom(q) ==
  [queue[q] EXCEPT !.read = (@ + 1) % Length[q], !.waiting = @ - 1]

(* The items from the first to the last.                                   *)
Content(q) ==
  [i \in 1 .. queue[q].waiting |-> queue[q].store[(queue[q].read + i) % Length[q]]]

-----------------------------------------------------------------------------
(* The first critical section of a call that can go on, ...                *)

(* xQueueGenericSend: a waiting receiver is woken.                         *)
Send(t, c) ==
  /\ c.do = "send" /\ c.on \notin Mutexes
  /\ ~Full(c.on) \/ c.pos = "overwrite"
  /\ queue' = [queue EXCEPT ![c.on] = CopyTo(c.on, c.item, c.pos)]
  /\ k' = WakeWaiter(k, ReceiveList(c.on))
  /\ UNCHANGED held

(* Mistake: nobody is woken when an inherited priority ends.               *)
GiveQuiet(t, c) ==
  LET k1 == PriorityDisinherit(k, held[t] - 1)
  IN  /\ c.do = "send" /\ c.on \in Mutexes /\ Empty(c.on)
      /\ held' = [held EXCEPT ![t] = @ - 1]
      /\ queue' = [queue EXCEPT ![c.on].waiting = 1, ![c.on].holder = None,
                                ![c.on].count = 0]
      /\ k' = IF Disinherits(k, held[t] - 1) THEN Yield(k1)
              ELSE WakeWaiter(k1, ReceiveList(c.on))

(* The same for a mutex: the inherited priority ends with the last mutex.  *)
(* Only when nobody waits does the end of it make the task yield.          *)
Give(t, c) ==
  LET left == held[t] - 1
      k1 == PriorityDisinherit(k, left)
      l == ReceiveList(c.on)
  IN  /\ c.do = "send" /\ c.on \in Mutexes /\ Empty(c.on)
      /\ held' = [held EXCEPT ![t] = left]
      /\ queue' = [queue EXCEPT ![c.on].waiting = 1, ![c.on].holder = None,
                                ![c.on].count = 0]
      /\ k' = IF k1.events[l] # << >> THEN WakeWaiter(k1, l)
              ELSE YieldIf(k1, Disinherits(k, left))

(* xQueueReceive, xQueueSemaphoreTake: a waiting sender is woken.          *)
Receive(t, c) ==
  /\ c.do = "receive" /\ ~Empty(c.on)
  /\ IF c.on \in Mutexes
     THEN /\ queue' = [queue EXCEPT ![c.on].waiting = 0, ![c.on].holder = t,
                                    ![c.on].count = 1]
          /\ held' = [held EXCEPT ![t] = @ + 1]
     ELSE /\ queue' = [queue EXCEPT ![c.on] = CopyFrom(c.on)]
          /\ UNCHANGED held
  /\ k' = WakeWaiter(k, SendList(c.on))

(* xQueuePeek: the item stays, for another one who waits for it.           *)
Peek(t, c) ==
  /\ c.do = "peek" /\ ~Empty(c.on)
  /\ k' = WakeWaiter(k, ReceiveList(c.on))
  /\ UNCHANGED <<queue, held>>

(* xQueueReset: one waiting sender is woken.                               *)
Reset(t, c) ==
  /\ c.do = "reset"
  /\ queue' = [queue EXCEPT ![c.on] = Fresh(c.on, @.store, 0)]
  /\ k' = WakeWaiter(k, SendList(c.on))
  /\ UNCHANGED held

Succeed(t, c) == Reset(t, c) \/ Send(t, c) \/ Give(t, c) \/ Receive(t, c) \/ Peek(t, c)

Possible(c) ==
  CASE c.do = "reset" -> TRUE
    [] c.do = "send"  -> ~Full(c.on) \/ c.pos = "overwrite"
    [] OTHER          -> ~Empty(c.on)

(* ... and the call's begin, with the time-out set if it has to wait.      *)
Begin(t, c) ==
  /\ At(t, "app") /\ c.by = t /\ c.do \notin {"delay", "again"}
  /\ c.on \in Mutexes => IF c.do = "send" THEN queue[c.on].holder = t
                                          ELSE queue[c.on].holder # t
  /\ c.on \in Mutexes /\ c.do = "send" => queue[c.on].count = 1
  /\ IF Possible(c)
     THEN Succeed(t, c) /\ UNCHANGED <<pc, call, waited>>
     ELSE /\ c.ticks > 0
          /\ Goto(t, "block")
          /\ call' = [call EXCEPT ![t] = Locals(c)]
          /\ waited' = [waited EXCEPT ![t] = 0]
          /\ UNCHANGED <<k, queue, held>>
  /\ UNCHANGED <<use, handle, cut>>

(* vTaskDelay, which Tasks takes apart.                                    *)
Delay(t, c) ==
  /\ At(t, "app") /\ c.by = t /\ c.do = "delay"
  /\ k' = Yield(IF c.ticks = 0 THEN k ELSE AddCurrentToDelayed(k, c.ticks, FALSE))
  /\ UNCHANGED <<use, queue, held, pc, call, handle, waited, cut>>

(* xQueueTakeMutexRecursive and xQueueGiveMutexRecursive by the holder     *)
(* when all they do is count.                                              *)
Again(t, c) ==
  LET now == queue[c.on].count
  IN  /\ At(t, "app") /\ c.by = t /\ c.do = "again" /\ queue[c.on].holder = t
      /\ \E n \in {now - 1, now + 1} \cap 1 .. MaxCount :
           queue' = [queue EXCEPT ![c.on].count = n]
      /\ UNCHANGED <<use, k, held, pc, call, handle, waited, cut>>

(* The loop again.                                                         *)
Retry(t) ==
  /\ At(t, "try")
  /\ IF Possible(call[t])
     THEN /\ Succeed(t, call[t]) /\ Goto(t, "app")
          /\ call' = [call EXCEPT ![t] = NoCall]
          /\ waited' = [waited EXCEPT ![t] = 0]
     ELSE Goto(t, "block") /\ UNCHANGED <<k, queue, held, call, waited>>
  /\ UNCHANGED <<use, handle, cut>>

-----------------------------------------------------------------------------
(* The wait.                                                               *)

(* vTaskSuspendAll.                                                        *)
Block(t) ==
  /\ At(t, "block")
  /\ k' = SuspendAll(k)
  /\ Goto(t, "lock")
  /\ UNCHANGED <<use, queue, held, call, handle, waited, cut>>

(* prvLockQueue, and xTaskCheckForTimeOut: the count stands still.         *)
Lock(t) ==
  LET c == call[t]
      late == k.aborted[t] \/ TimedOut(k, c.since, c.left)
      again == ~late /\ c.left # MaxDelay
  IN  /\ At(t, "lock")
      /\ queue' = [queue EXCEPT ![c.on].txLock = IF @ = -1 THEN 0 ELSE @,
                                ![c.on].rxLock = IF @ = -1 THEN 0 ELSE @]
      /\ k' = [k EXCEPT !.aborted[t] = FALSE]
      /\ call' = [call EXCEPT
           ![t].left = IF again THEN @ - Elapsed(k, c.since) ELSE @,
           ![t].since = IF again THEN Now(k) ELSE @,
           ![t].why = IF late THEN "late" ELSE "none"]
      /\ Goto(t, IF late THEN "unlockTx" ELSE "check")
      /\ UNCHANGED <<use, held, handle, waited, cut>>

(* prvIsQueueFull or prvIsQueueEmpty, and vTaskPlaceOnEventList; ahead of  *)
(* that, xTaskPriorityInherit.  Handlers only count while it is locked.    *)
Check(t) ==
  LET c == call[t]
      waits == IF c.do = "send" THEN Full(c.on) ELSE Empty(c.on)
      mutex == c.on \in Mutexes /\ c.do = "receive" /\ queue[c.on].holder # None
      k1 == IF mutex THEN PriorityInherit(k, queue[c.on].holder) ELSE k
  IN  /\ At(t, "check")
      /\ k' = IF waits THEN PlaceOnEventList(k1, WaitList(c), c.left) ELSE k
      /\ call' = [call EXCEPT
           ![t].inherited = IF waits /\ mutex THEN Inherits(k, queue[c.on].holder) ELSE @,
           ![t].why = IF waits THEN "waits" ELSE "again"]
      /\ Goto(t, "unlockTx")
      /\ UNCHANGED <<use, queue, held, handle, waited, cut>>

(* Mistake: what handlers sent meanwhile wakes nobody.                     *)
UnlockTxQuiet(t) ==
  /\ At(t, "unlockTx")
  /\ queue' = [queue EXCEPT ![call[t].on].txLock = -1]
  /\ Goto(t, "unlockRx")
  /\ UNCHANGED <<use, k, held, call, handle, waited, cut>>

(* prvUnlockQueue: as many are woken as items came, or went.               *)
UnlockTx(t) ==
  LET q == call[t].on
  IN  /\ At(t, "unlockTx")
      /\ k' = WakeWaiters(k, ReceiveList(q), queue[q].txLock)
      /\ queue' = [queue EXCEPT ![q].txLock = -1]
      /\ Goto(t, "unlockRx")
      /\ UNCHANGED <<use, held, call, handle, waited, cut>>

UnlockRx(t) ==
  LET q == call[t].on
  IN  /\ At(t, "unlockRx")
      /\ k' = WakeWaiters(k, SendList(q), queue[q].rxLock)
      /\ queue' = [queue EXCEPT ![q].rxLock = -1]
      /\ Goto(t, "resume")
      /\ UNCHANGED <<use, held, call, handle, waited, cut>>

(* A call that fails.                                                      *)
Fail(t) ==
  /\ Goto(t, "app")
  /\ call' = [call EXCEPT ![t] = NoCall]
  /\ waited' = [waited EXCEPT ![t] = 0]
  /\ cut' = cut \ {t}

(* xTaskResumeAll, and what comes of it.  A sender that is late fails.     *)
Resume(t) ==
  LET c == call[t]
  IN  /\ At(t, "resume")
      /\ k' = ResumeAll(k)
      /\ \/ c.why = "late" /\ c.do = "send" /\ Fail(t)
         \/ /\ ~(c.why = "late" /\ c.do = "send")
            /\ Goto(t, CASE c.why = "late" -> "empty"
                         [] c.why = "waits" /\ ~k'.yieldPending -> "yield"
                         [] OTHER -> "try")
            /\ UNCHANGED <<call, waited, cut>>
      /\ UNCHANGED <<use, queue, held, handle>>

CallYield(t) ==
  /\ At(t, "yield")
  /\ k' = Yield(k)
  /\ Goto(t, "try")
  /\ UNCHANGED <<use, queue, held, call, handle, waited, cut>>

(* A receiver that is late fails if there is still nothing.                *)
Late(t) ==
  /\ At(t, "empty")
  /\ \/ ~Empty(call[t].on) /\ Goto(t, "try") /\ UNCHANGED <<call, waited, cut>>
     \/ /\ Empty(call[t].on) /\ call[t].inherited
        /\ Goto(t, "disinherit") /\ UNCHANGED <<call, waited, cut>>
     \/ Empty(call[t].on) /\ ~call[t].inherited /\ Fail(t)
  /\ UNCHANGED <<use, k, queue, held, handle>>

(* The holder's priority is that of who still waits, if that is known.     *)
LateDisinherit(t) ==
  LET q == call[t].on
      l == k.events[ReceiveList(q)]
      h == queue[q].holder
  IN  /\ At(t, "disinherit")
      /\ k' = IF h = None THEN k
              ELSE DisinheritAfterTimeout(k, h, held[h],
                     IF l = << >> THEN 0 ELSE MaxPriorities - k.item[Head(l)])
      /\ Fail(t)
      /\ UNCHANGED <<use, queue, held, handle>>

-----------------------------------------------------------------------------
(* xTaskAbortDelay for a task that waits, in two steps.                    *)
Abort(t, u) ==
  /\ At(t, "app") /\ u \in Tasks \ {t}
  /\ u \in ToSet(k.delayed) \cup ToSet(k.overflow) \cup k.suspended
  /\ k' = Unlink(SuspendAll(k), {u})
  /\ Goto(t, "abort") /\ handle' = u
  /\ UNCHANGED <<use, queue, held, call, waited, cut>>

AbortEnd(t) ==
  /\ At(t, "abort")
  /\ k' = ResumeAll(AbortWait(k, handle))
  /\ Goto(t, "app") /\ handle' = None
  /\ cut' = IF AbortWait(k, handle).aborted[handle] THEN cut \cup {handle} ELSE cut
  /\ UNCHANGED <<use, queue, held, call, waited>>

-----------------------------------------------------------------------------
(* Handlers: xQueueGenericSendFromISR, xQueueGiveFromISR and               *)
(* xQueueReceiveFromISR.  They yield when they are told that a task of a   *)
(* higher priority was woken.  (Bound: while a queue is locked, as many    *)
(* handlers use it as it has places.  The code counts on to 127.)          *)
SendFromISR(h) ==
  LET q == h.on
  IN  /\ h.do = "send" /\ (~Full(q) \/ h.pos = "overwrite")
      /\ Locked(queue[q].txLock) => queue[q].txLock < Length[q]
      /\ queue' = [queue EXCEPT ![q] = [CopyTo(q, h.item, h.pos) EXCEPT
                                          !.txLock = IF Locked(@) THEN @ + 1 ELSE @]]
      /\ k' = IF Locked(queue[q].txLock) THEN k ELSE WakeWaiter(k, ReceiveList(q))
      /\ UNCHANGED <<use, held, pc, call, handle, waited, cut>>

ReceiveFromISR(h) ==
  LET q == h.on
  IN  /\ h.do = "receive" /\ ~Empty(q)
      /\ Locked(queue[q].rxLock) => queue[q].rxLock < Length[q]
      /\ queue' = [queue EXCEPT ![q] = [CopyFrom(q) EXCEPT
                                          !.rxLock = IF Locked(@) THEN @ + 1 ELSE @]]
      /\ k' = IF Locked(queue[q].rxLock) THEN k ELSE WakeWaiter(k, SendList(q))
      /\ UNCHANGED <<use, held, pc, call, handle, waited, cut>>

(* SysTick_Handler.                                                        *)
Tick ==
  /\ k.schedulerSuspended # 0 => k.pendedTicks < MaxPended
  /\ \A t \in Tasks : Timing(t) => waited[t] < MaxWaited
  /\ k' = SysTick(k)
  /\ waited' = [t \in Tasks |-> IF Timing(t) THEN waited[t] + 1 ELSE waited[t]]
  /\ UNCHANGED <<use, queue, held, pc, call, handle, cut>>

(* SW_Handler.                                                             *)
Switch ==
  /\ k.swi
  /\ k' = SwitchContext(k)
  /\ UNCHANGED <<use, queue, held, pc, call, handle, waited, cut>>

Init ==
  /\ use \in Uses
  /\ \E own \in Owns : k = Started(First, [t \in All |-> IF t = Idle THEN 0 ELSE own[t]])
  /\ queue = [q \in Queues |->
       Fresh(q, [n \in 0 .. Length[q] - 1 |-> Junk], IF q \in Mutexes THEN 1 ELSE 0)]
  /\ held = [t \in Tasks |-> 0]
  /\ pc = [t \in All |-> "app"] /\ call = [t \in Tasks |-> NoCall]
  /\ handle = None /\ waited = [t \in Tasks |-> 0] /\ cut = {}

(* What a task that is in a call does next.                                *)
Continue(t) ==
  \/ Retry(t) \/ Block(t) \/ Lock(t) \/ Check(t) \/ UnlockTx(t) \/ UnlockRx(t)
  \/ Resume(t) \/ CallYield(t) \/ Late(t) \/ LateDisinherit(t) \/ AbortEnd(t)

(* What the application may do.                                            *)
Call(t) ==
  \/ \E c \in use : Begin(t, c) \/ Delay(t, c) \/ Again(t, c)
  \/ t \in Aborters /\ \E u \in Tasks : Abort(t, u)

Handler == \E h \in {g \in Handlers : \E c \in use : c.on = g.on} : SendFromISR(h) \/ ReceiveFromISR(h)

Next == \/ \E t \in Tasks : Continue(t) \/ Call(t)
        \/ Handler \/ Tick \/ Switch

Spec == Init /\ [][Next]_vars

(* xQueueGetMutexHolder, xQueueGetMutexHolderFromISR.                      *)
GetMutexHolder(q) == IF q \in Mutexes THEN queue[q].holder ELSE None

-----------------------------------------------------------------------------
TypeOK ==
  /\ k \in KernelState
  /\ \A q \in Queues : queue[q] \in QueueState(q)
  /\ held \in [Tasks -> 0 .. Cardinality(Mutexes)]
  /\ pc \in [All -> PCs] /\ handle \in All /\ cut \subseteq Tasks
  /\ waited \in [Tasks -> 0 .. MaxWaited]
  /\ \A t \in Tasks : call[t] = NoCall <=> pc[t] \in {"app", "abort"}

(* Every task is in a list, but for one that is being aborted.             *)
OnePlace == \A t \in All : Places(k, t) = {} <=> t = handle /\ t # Idle

(* A queue is locked only by the task that has suspended the scheduler.    *)
LockedBriefly ==
  \A q \in Queues : Locked(queue[q].txLock) \/ Locked(queue[q].rxLock) =>
    k.schedulerSuspended = 1 /\ pc[k.current] \in {"check", "unlockTx", "unlockRx"}

(* Time left in a wait is what the call asked for less what has passed     *)
(* since it began, however often the task was woken in between.            *)
WaitsRight ==
  \A t \in Tasks : pc[t] # "app" /\ t \in ToSet(k.delayed) \cup ToSet(k.overflow) =>
    LET d == (k.wake[t] + Ticks - k.tick) % Ticks
    IN  IF d > k.pendedTicks THEN waited[t] = call[t].asked - (d - k.pendedTicks)
                             ELSE waited[t] >= call[t].asked

(* A task's mutexes, those that it is told to be the holder of, are counted *)
(* right, and its priority is its own again when it holds none.            *)
HeldRight ==
  \A t \in Tasks :
    /\ held[t] = Cardinality({q \in Queues : GetMutexHolder(q) = t})
    /\ k.priority[t] >= k.base[t]
    /\ held[t] = 0 => k.priority[t] = k.base[t]

(* What every state satisfies.                                             *)
Inv == TypeOK /\ ListsRight(k, handle) /\ OnePlace /\ LockedBriefly /\ WaitsRight /\ HeldRight

(* Every queue is the bounded sequence that MessageQueues describes,       *)
(* whatever its pointers do.                                               *)
M == INSTANCE MessageQueues WITH
       Queues <- Queues \ Mutexes, content <- [q \in Queues \ Mutexes |-> Content(q)]

FifoSpec == M!Spec

(* Those that waited in l, do not any more, and have not looked yet why.   *)
Woken(l) ==
  {t \in Tasks : /\ pc[t] \in {"unlockTx", "unlockRx", "resume", "yield", "try"}
                 /\ WaitList(call[t]) = l /\ call[t].why = "waits"
                 /\ t \notin ToSet(k.events[l])}

(* No wake-up is lost: while tasks wait to receive there are no more items *)
(* than tasks on the way to them, and while tasks wait to send no more     *)
(* free places; what handlers did to a locked queue is made up for.        *)
NoLostWakeup ==
  \A q \in Queues :
    LET rx == ReceiveList(q)
        tx == SendList(q)
    IN  /\ k.events[rx] # << >> =>
             queue[q].waiting <= Cardinality(Woken(rx))
                                 + (IF Locked(queue[q].txLock) THEN queue[q].txLock ELSE 0)
        /\ k.events[tx] # << >> =>
             Length[q] - queue[q].waiting <= Cardinality(Woken(tx))
                                 + (IF Locked(queue[q].rxLock) THEN queue[q].rxLock ELSE 0)

(* A call fails only when its time is over, or because it was aborted.  (Or *)
(* the call before it was aborted, and found an item all the same: the note *)
(* of that is taken by the next call that has to wait.)                    *)
FailsInTime ==
  [][\A t \in Tasks :
       call[t] # NoCall /\ cut' = cut \ {t} /\ pc[t] \in {"resume", "empty", "disinherit"}
         /\ pc'[t] = "app"
       => t \in cut \/ (call[t].asked # MaxDelay /\ waited[t] >= call[t].asked)]_vars

(* No ready task has a higher priority than the one that runs (the text at *)
(* queue.c 921-924: giving mutexes back in another order than they were    *)
(* taken makes the task yield).                                            *)
HighestRunning == pc[k.current] # "yield" => HighestRuns(k)

(* The holder of a mutex runs at least as high as everyone who waits for   *)
(* it was created to: nobody in between holds them up.                     *)
Inherited ==
  \A q \in Mutexes : \A t \in ToSet(k.events[ReceiveList(q)]) :
    queue[q].holder # None => k.priority[queue[q].holder] >= k.base[t]
=============================================================================
