----------------------------- MODULE CoRoutines -----------------------------
(***************************************************************************)
(* croutine.c, the calls of queue.c for co-routines, and the macros of     *)
(* croutine.h: co-routines share one task, which calls vCoRoutineSchedule  *)
(* again and again; interrupt handlers come in wherever interrupts are     *)
(* enabled, use the queues, and touch only event lists and the list of the *)
(* pending ones.  A queue is the number of its items: how they are stored  *)
(* is the same as for tasks.                                               *)
(***************************************************************************)
EXTENDS Kernel

CONSTANTS
  First,        \* the co-routines, in the order of their creation
  Asked,        \* the priorities they are created with
  Queues,       \* the queues
  Length,       \* uxLength of each
  Uses,         \* sets of calls: the application makes those of one of them
  Handlers,     \* what a handler does, up to twice: [do, on]
  MaxLag        \* bound: ticks between two looks at the tick count

CoRoutinesAssumption ==
  /\ ToSet(First) = Tasks /\ Len(First) = Cardinality(Tasks) /\ MaxLag < Ticks
  /\ EventLists = Queues \X {"send", "receive"} /\ Asked \in [Tasks -> Nat]
  /\ \A u \in UNION Uses : u.by \in Tasks /\ u.ticks \in 0 .. MaxDelay
                           /\ u.do \in {"send", "receive", "delay"} /\ u.on \in Queues

VARIABLES
  use,          \* the calls the application makes
  s,            \* the lists of croutine.c, see Created
  waiting,      \* uxMessagesWaiting of each queue
  tick,         \* what xTaskGetTickCount returns
  passed,       \* xPassedTicks
  pc,           \* where the task is
  state,        \* per co-routine: where it goes on, see States
  spared,       \* history: event lists that a wake-up passed by, see Passes
  broken        \* a handler came into the middle of an insertion

vars == <<use, s, waiting, tick, passed, pc, state, spared, broken>>

Fresh == [do |-> "app"]                             \* corINITIAL_STATE, or behind a call
States == {Fresh} \cup [do : {"send", "receive"}, on : Queues]  \* to try once more
            \cup [do : {"send"}, on : Queues, ticks : 1 .. MaxDelay]  \* to go to sleep

(* xCoRoutineCreate: a priority that is too high becomes the highest.      *)
Own(t) == IF Asked[t] >= MaxPriorities THEN MaxPriorities - 1 ELSE Asked[t]
Item == [t \in Tasks |-> MaxPriorities - Own(t)]    \* the value of the event item

(* prvAddCoRoutineToReadyQueue.                                            *)
AddReady(x, t) ==
  [x EXCEPT !.ready[Own(t)] = InsertEnd(@, <<t>>), !.top = IF Own(t) > @ THEN Own(t) ELSE @]

(* prvInitialiseCoRoutineLists, and the creation of all.                   *)
Created ==
  LET none == [ready |-> [p \in Priority |-> EmptyList], top |-> 0, current |-> Head(First),
               delayed |-> <<>>, overflow |-> <<>>, count |-> 0, wake |-> [t \in Tasks |-> 0],
               events |-> [l \in EventLists \cup {Pending} |-> <<>>]]
  IN  FoldSeq(LAMBDA t, x : AddReady(x, t), none, Reverse(First))

(* vCoRoutineAddToDelayedList, for the current one; in list l, if any.     *)
AddToDelayed(ticks, l) ==
  LET c == s.current
      x == [s EXCEPT !.ready[Own(c)] = RemoveItems(@, {c}),
                     !.wake[c] = (s.count + ticks) % Ticks]
      y == IF x.wake[c] < s.count THEN [x EXCEPT !.overflow = Insert(@, c, x.wake)]
           ELSE [x EXCEPT !.delayed = Insert(@, c, x.wake)]
  IN  IF l = Pending THEN y ELSE [y EXCEPT !.events[l] = Insert(@, c, Item)]

(* xCoRoutineRemoveFromEventList, and its result.                          *)
RemoveFromEvents(x, l) ==
  LET t == Head(x.events[l])
  IN  [x EXCEPT !.events[l] = Tail(@), !.events[Pending] = Append(@, t)]

Yields(x, l) == Own(Head(x.events[l])) >= Own(x.current)

(* A wake-up passes by the lists L: that is over when nobody is left in it. *)
PassesBy(L) == spared' = {l \in spared \cup L : s'.events[l] # <<>>}

-----------------------------------------------------------------------------
(* vCoRoutineSchedule.                                                     *)

(* One round of prvCheckPendingReadyList.                                  *)
TakePending ==
  /\ pc = "pending" /\ s.events[Pending] # <<>>
  /\ LET t == Head(s.events[Pending])
     IN  s' = AddReady([s EXCEPT !.events[Pending] = Tail(@), !.delayed = Without(@, {t}),
                                 !.overflow = Without(@, {t})], t)
  /\ UNCHANGED <<use, waiting, tick, passed, pc, state, spared, broken>>

(* prvCheckDelayedList reads the count of ticks.  The last it read is      *)
(* xCoRoutineTickCount.                                                    *)
ReadTicks ==
  /\ pc = "pending" /\ s.events[Pending] = <<>>
  /\ passed' = (tick + Ticks - s.count) % Ticks
  /\ pc' = "ticks"
  /\ UNCHANGED <<use, s, waiting, tick, state, spared, broken>>

Due == s.delayed # <<>> /\ s.count >= s.wake[Head(s.delayed)]

(* One of the ticks that passed: the lists are swapped when the count      *)
(* wraps.                                                                  *)
PassTick ==
  /\ pc = "ticks" /\ ~Due /\ passed > 0
  /\ LET x == [s EXCEPT !.count = (@ + 1) % Ticks]
     IN  s' = IF x.count = 0 THEN [x EXCEPT !.delayed = s.overflow, !.overflow = s.delayed] ELSE x
  /\ passed' = passed - 1
  /\ UNCHANGED <<use, waiting, tick, pc, state, spared, broken>>

(* Mistake: the event item stays where it is.                              *)
TakeDueHalf ==
  /\ pc = "ticks" /\ Due
  /\ s' = AddReady([s EXCEPT !.delayed = Tail(@)], Head(s.delayed))
  /\ UNCHANGED <<use, waiting, tick, passed, pc, state, spared, broken>>

(* One whose time is over, out of its event list or, when a handler came   *)
(* first, out of the pending ones.                                         *)
TakeDue ==
  /\ pc = "ticks" /\ Due
  /\ LET t == Head(s.delayed)
     IN  s' = AddReady([s EXCEPT !.delayed = Tail(@),
                                 !.events = [l \in DOMAIN @ |-> Without(@[l], {t})]], t)
  /\ PassesBy({})
  /\ UNCHANGED <<use, waiting, tick, passed, pc, state, broken>>

(* The next one of the highest priority that has a ready one, if any.      *)
Pick ==
  /\ pc = "ticks" /\ ~Due /\ passed = 0
  /\ LET full == {p \in 0 .. s.top : s.ready[p].items # <<>>}
         p == CHOOSE q \in full : \A r \in full : q >= r
         l == s.ready[p]
         i == IF l.index = Len(l.items) THEN 1 ELSE l.index + 1
     IN  IF full = {} THEN s' = [s EXCEPT !.top = 0] /\ pc' = "pending"
         ELSE /\ s' = [s EXCEPT !.top = p, !.ready[p].index = i, !.current = l.items[i]]
              /\ pc' = "run"
  /\ UNCHANGED <<use, waiting, tick, passed, state, spared, broken>>

-----------------------------------------------------------------------------
(* The co-routine that runs.                                               *)

Return(st) == pc' = "pending" /\ state' = [state EXCEPT ![s.current] = st]

(* crDELAY.                                                                *)
Delay(u) ==
  /\ pc = "run" /\ state[s.current] = Fresh /\ u.by = s.current /\ u.do = "delay"
  /\ s' = IF u.ticks > 0 THEN AddToDelayed(u.ticks, Pending) ELSE s
  /\ Return(Fresh)
  /\ UNCHANGED <<use, waiting, tick, passed, spared, broken>>

Possible(do, q) == IF do = "send" THEN waiting[q] < Length[q] ELSE waiting[q] > 0

(* The first section of xQueueCRSend and xQueueCRReceive: wait, fail, or go *)
(* on.  Behind a wait it is called with no time to wait.  The section of   *)
(* xQueueCRSend ends with prvIsQueueFull, whose taskEXIT_CRITICAL turns    *)
(* the interrupts on again: handlers come in behind the test.              *)
Test(do, q, ticks) ==
  /\ \/ /\ Possible(do, q)
        /\ pc' = "second" /\ state' = [state EXCEPT ![s.current] = [do |-> do, on |-> q]]
        /\ s' = s
     \/ /\ ~Possible(do, q) /\ ticks = 0
        /\ s' = s /\ pc' = pc /\ state' = [state EXCEPT ![s.current] = Fresh]
     \/ /\ ~Possible(do, q) /\ ticks > 0 /\ do = "receive"
        /\ s' = AddToDelayed(ticks, <<q, do>>) /\ Return([do |-> do, on |-> q])
     \/ /\ ~Possible(do, q) /\ ticks > 0 /\ do = "send"
        /\ pc' = "full"
        /\ state' = [state EXCEPT ![s.current] = [do |-> do, on |-> q, ticks |-> ticks]]
        /\ s' = s
  /\ UNCHANGED <<use, waiting, tick, passed, spared, broken>>

(* The co-routine goes to sleep all the same when there is room by now,    *)
(* which the comment at queue.c 2475 says the section is there to prevent. *)
Block ==
  LET c == state[s.current]
  IN  /\ pc = "full"
      /\ s' = AddToDelayed(c.ticks, <<c.on, "send">>)
      /\ Return([do |-> "send", on |-> c.on])
      /\ PassesBy(IF Possible("send", c.on) THEN {<<c.on, "send">>} ELSE {})
      /\ UNCHANGED <<use, waiting, tick, passed, broken>>

Call(u) ==
  /\ pc = "run" /\ state[s.current] = Fresh /\ u.by = s.current /\ u.do # "delay"
  /\ Test(u.do, u.on, u.ticks)

Again ==
  /\ pc = "run" /\ state[s.current] # Fresh
  /\ Test(state[s.current].do, state[s.current].on, 0)

Other(do) == IF do = "send" THEN "receive" ELSE "send"
More(do, q) == [waiting EXCEPT ![q] = IF do = "send" THEN @ + 1 ELSE @ - 1]

(* The second one: the item, and who waits for it.  A handler may have     *)
(* come first: then the call fails, with time left to wait.  It gives way  *)
(* to a waiter of at least its own priority.                               *)
Second ==
  LET do == state[s.current].do
      q == state[s.current].on
      l == <<q, Other(do)>>
      woken == Possible(do, q) /\ s.events[l] # <<>>
  IN  /\ pc = "second"
      /\ waiting' = IF Possible(do, q) THEN More(do, q) ELSE waiting
      /\ s' = IF woken THEN RemoveFromEvents(s, l) ELSE s
      /\ IF woken /\ Yields(s, l) THEN Return(Fresh)
         ELSE pc' = "run" /\ state' = [state EXCEPT ![s.current] = Fresh]
      /\ PassesBy({})
      /\ UNCHANGED <<use, tick, passed, broken>>

-----------------------------------------------------------------------------
(* Interrupts.                                                             *)

(* Out of a list that somebody is being put into, a handler may take the   *)
(* neighbour of the new one, whose links then lead anywhere: nothing is    *)
(* known of the lists any more.                                            *)
Breaks(l) ==
  broken' \in IF pc = "full" /\ l = <<state[s.current].on, "send">> /\ s.events[l] # <<>>
             THEN BOOLEAN ELSE {FALSE}

(* xQueueCRSendFromISR or xQueueCRReceiveFromISR.                          *)
Handler(h) ==
  LET l == <<h.on, Other(h.do)>>
      woken == s.events[l] # <<>>
  IN  /\ Possible(h.do, h.on)
      /\ waiting' = More(h.do, h.on)
      /\ s' = IF woken THEN RemoveFromEvents(s, l) ELSE s
      /\ PassesBy({}) /\ Breaks(l)
      /\ UNCHANGED <<use, tick, passed, pc, state>>

(* A handler that does it twice, the result of one passed on to the other: *)
(* who was woken is not followed by another, but for one of a lower        *)
(* priority than the current one's.                                        *)
HandlerTwice(h) ==
  LET l == <<h.on, Other(h.do)>>
      some == s.events[l] # <<>>
      x == IF some THEN RemoveFromEvents(s, l) ELSE s
      told == some /\ Yields(s, l)
      twice == ~told /\ x.events[l] # <<>>
      n == IF h.do = "send" THEN waiting[h.on] + 2 ELSE waiting[h.on] - 2
  IN  /\ IF h.do = "send" THEN n <= Length[h.on] ELSE waiting[h.on] >= 2
      /\ waiting' = [waiting EXCEPT ![h.on] = n]
      /\ s' = IF twice THEN RemoveFromEvents(x, l) ELSE x
      /\ PassesBy(IF told THEN {l} ELSE {}) /\ Breaks(l)
      /\ UNCHANGED <<use, tick, passed, pc, state>>

Tick ==
  /\ (tick + Ticks - s.count) % Ticks < MaxLag
  /\ tick' = (tick + 1) % Ticks
  /\ UNCHANGED <<use, s, waiting, passed, pc, state, spared, broken>>

Init ==
  /\ use \in Uses /\ s = Created /\ waiting = [q \in Queues |-> 0] /\ tick = 0 /\ passed = 0
  /\ pc = "pending" /\ state = [t \in Tasks |-> Fresh]
  /\ spared = {} /\ broken = FALSE

Next ==
  /\ ~broken
  /\ \/ TakePending \/ ReadTicks \/ PassTick \/ TakeDue \/ Pick
     \/ \E u \in use : Delay(u) \/ Call(u)
     \/ Again \/ Block \/ Second \/ Tick
     \/ \E h \in Handlers : Handler(h) \/ HandlerTwice(h)

-----------------------------------------------------------------------------
Asleep == ToSet(s.delayed) \cup ToSet(s.overflow)
ReadyOnes(p) == ToSet(s.ready[p].items)

(* Every co-routine is ready in the list of its priority or in one delayed *)
(* list; those are in order, on the right side of the wrap, and nothing    *)
(* that is due is passed over.                                             *)
ListsOk ==
  /\ \A p \in Priority : /\ s.ready[p].items # <<>> => p <= s.top \/ pc # "run"
                         /\ \A t \in ReadyOnes(p) : Own(t) = p
  /\ \A t \in Tasks : (t \in ReadyOnes(Own(t))) # (t \in Asleep)
  /\ Len(s.delayed) + Len(s.overflow) = Cardinality(Asleep)
  /\ \A d \in {s.delayed, s.overflow} : \A i \in 2 .. Len(d) : s.wake[d[i - 1]] <= s.wake[d[i]]
  /\ \A t \in ToSet(s.delayed) : s.wake[t] > s.count \/ (pc = "ticks" /\ s.wake[t] = s.count)
  /\ \A t \in ToSet(s.overflow) : s.wake[t] < s.count

(* Who is in an event list or pending sleeps and will try again, and is in *)
(* one of them only.                                                       *)
EventsOk ==
  /\ \A l \in EventLists : \A t \in ToSet(s.events[l]) :
       t \in Asleep /\ state[t] = [do |-> l[2], on |-> l[1]]
  /\ \A t \in ToSet(s.events[Pending]) : t \in Asleep /\ state[t] # Fresh
  /\ \A t \in Tasks : Cardinality({l \in DOMAIN s.events : t \in ToSet(s.events[l])}) <= 1

(* Those on their way to do it in q, awake or pending.                     *)
Coming(do, q) ==
  {t \in Tasks : state[t] = [do |-> do, on |-> q] /\ t \notin ToSet(s.events[<<q, do>>])}

(* Nobody waits for an item that is there, or for room that is there,      *)
(* unless someone is on the way for each; but a handler that uses a queue  *)
(* twice, and room that was made while the sender was on its way to sleep, *)
(* may leave waiters out, until there are none.                            *)
NobodyForgotten ==
  \A q \in Queues :
    /\ s.events[<<q, "receive">>] # <<>> /\ <<q, "receive">> \notin spared
         => waiting[q] <= Cardinality(Coming("receive", q))
    /\ s.events[<<q, "send">>] # <<>> /\ <<q, "send">> \notin spared
         => Length[q] - waiting[q] <= Cardinality(Coming("send", q))

CoRoutinesRight == ~broken => ListsOk /\ EventsOk /\ NobodyForgotten
=============================================================================
