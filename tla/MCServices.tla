----------------------------- MODULE MCServices -----------------------------
(***************************************************************************)
(* What is built upon the kernel and does not interact, side by side, for  *)
(* behaviours each of which is one of a single part: the timers, an event  *)
(* group, a stream buffer, both heaps, co-routines, tasks and queues that  *)
(* come and go, a set of queues, and the example with its two tasks; and   *)
(* the port below the kernel.                                              *)
(***************************************************************************)
EXTENDS Naturals, Sequences, TLC

VARIABLES
  part,                                         \* what is looked at
  timersK, timers, messages, txLock, timersPc, calls, left,  \* the timers
  groupK, groupPc, bits, item, round, deleted, late,  \* the event group
  isMessages, length, trigger, cells, head, tail, waiting, notified, streamPc, limit,
  data, space, available, room, got, next, fifo, eased,   \* the stream buffer
  free2, used2, bytes2,                         \* heap_2.c
  ready, free, used, leaving, bytes, least, allocations, frees, stats,  \* heap_4.c
  use, lists, items, tick, passed, routinePc, state, spared, broken,  \* the co-routines
  lifeK, count, cleanUp, stack, tcb, lifePc, on, array, lost,  \* tasks that come and go
  blinkK, led, at, was, toggles, split,         \* the example
  running, handlerPc, pxCurrentTCB, sp, mscratch, mie, mpie, locked, pending,
  uxCriticalNesting, regions, frame, leaky,     \* the port
  queue, registry, adminPc, own, local, named, told, overlapped, \* queues that come and go
  uxMessagesWaiting, member, events, cTxLock, cRxLock, setsPc, target, asleep, suspender, torn  \* a queue set

timersVars == <<timersK, timers, messages, txLock, timersPc, calls, left>>
groupVars == <<groupK, groupPc, bits, item, round, deleted, late>>
streamVars == <<isMessages, length, trigger, cells, head, tail, waiting, notified,
                streamPc, limit, data, space, available, room, got, next, fifo, eased>>
heap2Vars == <<free2, used2, bytes2>>
heap4Vars == <<ready, free, used, leaving, bytes, least, allocations, frees, stats>>
routineVars == <<use, lists, items, tick, passed, routinePc, state, spared, broken>>
lifeVars == <<lifeK, count, cleanUp, stack, tcb, lifePc, on, array, lost>>
blinkVars == <<blinkK, led, at, was, toggles, split>>
portVars == <<running, handlerPc, pxCurrentTCB, sp, mscratch, mie, mpie, locked, pending,
              uxCriticalNesting, regions, frame, leaky>>
adminVars == <<queue, registry, adminPc, own, local, named, told, overlapped>>
setsVars == <<uxMessagesWaiting, member, events, cTxLock, cRxLock, setsPc, target, asleep, suspender, torn>>
servicesVars == <<part, timersVars, groupVars, streamVars, heap2Vars,
                  heap4Vars, routineVars, lifeVars, blinkVars, portVars, adminVars, setsVars>>

-----------------------------------------------------------------------------
CONSTANTS Idle, Daemon, again, once, ann, bob, cid, dan, belt

(* An auto-reload timer and one that expires once.                         *)
Command(id, t, p) == [id |-> id, timer |-> t, value |-> p]

MCCommands ==
  {Command("start", t, 2) : t \in {again, once}}
    \cup {Command("change period", again, 1), Command("stop", again, 2),
          Command("delete", once, 2), Command("call", once, 2)}

Timer == INSTANCE Timers
  WITH Tasks <- {Daemon}, EventLists <- {<<"xTimerQueue">>}, MaxPriorities <- 2,
       Ticks <- 4, Overflows <- 1, Timers <- {again, once}, Periods <- {1, 2},
       Period <- again :> 2 @@ once :> 2, AutoReload <- again :> TRUE @@ once :> FALSE,
       Changing <- {again}, QueueLength <- 1, Commands <- MCCommands, MaxLate <- 1, MaxPended <- 1,
       k <- timersK, pc <- timersPc

ASSUME Timer!TimersAssumption

(* Two tasks that meet, of different priorities, and two that set, clear   *)
(* and wait.                                                               *)
MCWait(set, all, clear) == [bits |-> set, all |-> all, clear |-> clear]

Group == INSTANCE EventGroups
  WITH Tasks <- {ann, bob, cid, dan}, EventLists <- {<<"xTasksWaitingForBits">>},
       MaxPriorities <- 3, Ticks <- 5, Overflows <- 1, MaxPended <- 1, First <- <<ann, bob, cid, dan>>,
       Priorities <- ann :> 2 @@ bob :> 1 @@ cid :> 1 @@ dan :> 2 @@ Idle :> 0,
       Bit <- ann :> 0 @@ bob :> 1, Sets <- {{2}}, WaitTicks <- {0, 1},
       Waits <- {MCWait({2}, FALSE, TRUE), MCWait({0, 1}, TRUE, FALSE)},
       k <- groupK, pc <- groupPc

(* Rings that hold two bytes, with two trigger levels, and one for messages *)
(* of one or two bytes, with their length.                                 *)
Stream == INSTANCE StreamBuffer
  WITH Buffers <- {[messages |-> FALSE, length |-> 3, trigger |-> n] : n \in {0, 2}}
                    \cup {[messages |-> TRUE, length |-> 4, trigger |-> 0]},
       MaxData <- 2, Bytes <- 3, pc <- streamPc

(* That of heap_4.c starts off the alignment and ends off it.              *)
Heap == INSTANCE Heaps
  WITH Adjusted <- 22, Start <- 1, Total <- 23, Align <- 2, Header <- 2, Word <- 64,
       Sizes <- {0, 1, 4, 5, 18, 31, 32, 62, 63}, MaxAllocations <- 4

(* Two co-routines that receive and one that sends, or the other way       *)
(* round, and each may be the one that only sleeps.                        *)
MCCall(t, do, n) == [by |-> t, do |-> do, on |-> belt, ticks |-> n]

MCUses ==
  {{MCCall(ann, "receive", 2), MCCall(bob, "receive", 2), MCCall(cid, "send", 1),
    MCCall(cid, "delay", 1), MCCall(ann, "delay", 0)},
   {MCCall(ann, "send", 1), MCCall(bob, "send", 2), MCCall(cid, "receive", 0),
    MCCall(cid, "delay", 1), MCCall(ann, "delay", 2)}}

Routine == INSTANCE CoRoutines
  WITH Tasks <- {ann, bob, cid}, EventLists <- {belt} \X {"send", "receive"}, MaxPriorities <- 2,
       Ticks <- 3, Overflows <- 1, MaxLag <- 1, Queues <- {belt}, Length <- belt :> 2,
       First <- <<ann, bob, cid>>, Asked <- ann :> 3 @@ bob :> 0 @@ cid :> 1,
       Uses <- MCUses,
       Handlers <- {[do |-> do, on |-> belt] : do \in {"send", "receive"}},
       s <- lists, waiting <- items, pc <- routinePc

ASSUME Routine!CoRoutinesAssumption

(* Memory for the three tasks there are at the start, and no more.         *)
Life == INSTANCE TaskLife
  WITH Tasks <- {ann, bob, cid}, EventLists <- {}, MaxPriorities <- 2, Ticks <- 2, Overflows <- 1,
       First <- <<ann, bob, cid>>, Asked <- {5}, Room <- 6, Listers <- {ann},
       k <- lifeK, pc <- lifePc

ASSUME Life!TaskLifeAssumption

(* One task sleeps for twice as long as the other.                         *)
Blink == INSTANCE Blink
  WITH Tasks <- {ann, bob}, EventLists <- {}, MaxPriorities <- 2, Ticks <- 7, Overflows <- 1,
       task1 <- ann, task2 <- bob, Delay <- ann :> 1 @@ bob :> 2, k <- blinkK

(* One task at the start, one that is created by it.                       *)
Processor == INSTANCE Port
  WITH Task <- {"ann", "bob"}, First <- "ann", Late <- {"bob"}, Unstarted <- 4, MaxOpen <- 2

ASSUME Processor!PortAssumption

(* Requests that are met and requests that are not.                        *)
MCRequest(kind, n, i, c) == [kind |-> kind, length |-> n, item |-> i, initial |-> c]

Admin == INSTANCE QueueAdmin
  WITH Task <- {"ann", "bob"}, Handle <- {"1", "2"}, Names <- {"x", "y"},
       Requests <- {MCRequest("queue", 2, 3, 0), MCRequest("queue", 2, 8, 0),
                    MCRequest("mutex", 1, 0, 0), MCRequest("semaphore", 1, 0, 2)},
       RegistrySize <- 2, Header <- 2, Word <- 16, None <- "none", pc <- adminPc

ASSUME Admin!QueueAdminAssumption

(* Two queues in a set, of different lengths.                              *)
Sets == INSTANCE QueueSets
  WITH Queue <- {"1", "2"}, Length <- "1" :> 2 @@ "2" :> 1, Sender <- {"ann", "bob"},
       Selector <- "cid", Set <- "set", SetLength <- 3, MaxSince <- 2, None <- "none",
       pc <- setsPc

ASSUME Sets!QueueSetsAssumption

-----------------------------------------------------------------------------
Others ==
  /\ UNCHANGED part
  /\ IF part = "timers" THEN TRUE ELSE UNCHANGED timersVars
  /\ IF part = "group" THEN TRUE ELSE UNCHANGED groupVars
  /\ IF part = "stream" THEN TRUE ELSE UNCHANGED streamVars
  /\ IF part = "heap2" THEN TRUE ELSE UNCHANGED heap2Vars
  /\ IF part = "heap4" THEN TRUE ELSE UNCHANGED heap4Vars
  /\ IF part = "routines" THEN TRUE ELSE UNCHANGED routineVars
  /\ IF part = "life" THEN TRUE ELSE UNCHANGED lifeVars
  /\ IF part = "blink" THEN TRUE ELSE UNCHANGED blinkVars
  /\ IF part = "port" THEN TRUE ELSE UNCHANGED portVars
  /\ IF part = "admin" THEN TRUE ELSE UNCHANGED adminVars
  /\ IF part = "sets" THEN TRUE ELSE UNCHANGED setsVars

ServicesInit ==
  /\ part \in {"timers", "group", "stream", "heap2", "heap4", "routines", "life", "blink",
              "port", "admin", "sets"}
  /\ Timer!Init /\ Group!Init /\ Heap!Init2 /\ Heap!Init /\ Blink!Init /\ Processor!Init
  /\ Admin!Init
  /\ Sets!Init
  /\ Stream!Init /\ (part # "stream" => trigger = 2)
  /\ Routine!Init /\ (part # "routines" => use = CHOOSE u \in MCUses : TRUE)
  /\ Life!Init /\ (part # "life" => \A t \in {ann, bob, cid} : lifeK.priority[t] = 0)

ServicesNext ==
  \/ part = "timers" /\ Timer!Next /\ Others
  \/ part = "group" /\ Group!Next /\ Others
  \/ part = "stream" /\ Stream!Next /\ Others
  \/ part = "heap2" /\ Heap!Next2 /\ Others
  \/ part = "heap4" /\ Heap!Next /\ Others
  \/ part = "routines" /\ Routine!Next /\ Others
  \/ part = "life" /\ Life!Next /\ Others
  \/ part = "blink" /\ Blink!Next /\ Others
  \/ part = "port" /\ Processor!Next /\ Others
  \/ part = "admin" /\ Admin!Next /\ Others
  \/ part = "sets" /\ Sets!Next /\ Others

ServicesSpec == ServicesInit /\ [][ServicesNext]_servicesVars

-----------------------------------------------------------------------------
(* The kernel's lists and the timers', the blocks of both heaps, the lists *)
(* of the co-routines, the memory and number of the tasks that come and    *)
(* go, the LED of the example, the stacks and critical sections of the     *)
(* port, the queues' memory and names, and what a set of queues names are  *)
(* right in every state.                                                   *)
PartsRight ==
  /\ part = "timers" => Timer!Inv
  /\ part = "heap2" => Heap!Heap2Right
  /\ part = "heap4" => Heap!Heap4Right
  /\ part = "routines" => Routine!CoRoutinesRight
  /\ part = "life" => Life!TaskLifeRight
  /\ part = "blink" => Blink!BlinkInv
  /\ part = "port" => Processor!PortInv
  /\ part = "admin" => Admin!QueueAdminRight
  /\ part = "sets" => Sets!QueueSetsRight

(* No callback of a timer comes before its time.                           *)
NeverEarly == part = "timers" => Timer!NeverEarly

(* The timer daemon never sleeps past the first timer that is due.         *)
SleepsRightly == part = "timers" => Timer!SleepsRightly

(* Nobody is left waiting for bits that are set, and those who meet in an  *)
(* event group wait for each other, and one that was deleted is let alone. *)
Meeting == part = "group" => Group!GroupInv

(* The stream buffer is a queue of bytes or messages, and nobody is left   *)
(* waiting for what is in it.                                              *)
Streaming == part = "stream" => Stream!StreamInv
=============================================================================
