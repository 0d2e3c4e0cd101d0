------------------------------ MODULE QueueSets ------------------------------
(***************************************************************************)
(* Queue sets (queue.c, configUSE_QUEUE_SETS): a task selects from a set   *)
(* the queue to read next, tasks send to its members and sleep while these *)
(* are full, and a handler sends, or selects and receives.  What is in the *)
(* queues does not matter, only how much.                                  *)
(*                                                                         *)
(* As its documentation demands, a member is only read when the set has    *)
(* named it, and the set is as long as all of its members together.        *)
(***************************************************************************)
EXTENDS Naturals, Sequences, SequencesExt, FiniteSetsExt, Functions

CONSTANTS
  Queue, Length,   \* the queues, and how long they are
  Sender,          \* the tasks that send, ...
  Selector,        \* ... and the one that selects
  Set, SetLength,
  MaxSince,        \* bound: how much a handler does to a queue that is locked
  None

QueueSetsAssumption ==
  /\ \A q \in Queue : Length[q] \in Nat \ {0}
  /\ SetLength >= FoldFunction(+, 0, Length)
  /\ Selector \notin Sender /\ Set \notin Queue

VARIABLES
  uxMessagesWaiting,    \* per queue
  member,               \* the queues whose pxQueueSetContainer is the set
  events,               \* what is in the set: queues, once for each message
  cTxLock, cRxLock,     \* per queue and of the set
  pc,                   \* per task: where it is
  target,               \* per task: the queue it sends to, reads or removes
  asleep,               \* the tasks that wait: for room in their target, or for the set
  suspender,            \* who has suspended the scheduler
  torn                  \* history: a queue was removed with messages in it

vars == <<uxMessagesWaiting, member, events, cTxLock, cRxLock, pc, target, asleep, suspender,
          torn>>

Task == Sender \cup {Selector}
Unlocked == 0           \* queueUNLOCKED; queueLOCKED_UNMODIFIED is 1
Since(lock) == IF lock = Unlocked THEN 0 ELSE lock - 1

Goto(t, from, to) ==
  /\ t \notin asleep /\ suspender \in {t, None} /\ pc[t] = from
  /\ pc' = [pc EXCEPT ![t] = to]

On(t) == IF t = Selector THEN Set ELSE target[t]

-----------------------------------------------------------------------------
(* prvNotifyQueueSetContainer, n times: the set gets the queue's handle    *)
(* unless it is full; who waits for it is woken, or the set's lock counts. *)
Room(n) == IF SetLength - Len(events) < n THEN SetLength - Len(events) ELSE n

Notify(q, n) ==
  /\ events' = events \o [i \in 1 .. Room(n) |-> q]
  /\ asleep' = IF Room(n) > 0 /\ cTxLock[Set] = Unlocked THEN asleep \ {Selector} ELSE asleep

(* What xQueueGenericSend, xQueueGenericSendFromISR and xQueueGiveFromISR  *)
(* do with a queue that is not full: a locked one only counts.             *)
Sent(q) ==
  /\ uxMessagesWaiting' = [uxMessagesWaiting EXCEPT ![q] = @ + 1]
  /\ IF cTxLock[q] # Unlocked
     THEN /\ cTxLock' = [cTxLock EXCEPT ![q] = @ + 1]
          /\ UNCHANGED <<events, asleep>>
     ELSE IF q \notin member
     THEN UNCHANGED <<events, asleep, cTxLock>>
     ELSE /\ Notify(q, 1)
          /\ cTxLock' = IF cTxLock[Set] = Unlocked THEN cTxLock
                        ELSE [cTxLock EXCEPT ![Set] = @ + Room(1)]

(* n of the tasks that wait for room in q are woken, or all there are.     *)
WakeSenders(q, n) ==
  LET waiting == {s \in Sender \cap asleep : target[s] = q}
      many == IF n < Cardinality(waiting) THEN n ELSE Cardinality(waiting)
  IN \E woken \in kSubset(many, waiting) : asleep' = asleep \ woken

(* One message is read, by a task or a handler.                            *)
Received(q) ==
  /\ uxMessagesWaiting' = [uxMessagesWaiting EXCEPT ![q] = @ - 1]
  /\ IF cRxLock[q] = Unlocked
     THEN WakeSenders(q, 1) /\ UNCHANGED cRxLock
     ELSE cRxLock' = [cRxLock EXCEPT ![q] = @ + 1] /\ UNCHANGED asleep

-----------------------------------------------------------------------------
(* xQueueGenericSend and xQueueReceive, with a wait: when the queue is     *)
(* full, or the set empty, the scheduler is suspended and the queue        *)
(* locked; it is looked at again, and only then the task goes onto the     *)
(* event list.                                                             *)
Available(t) ==
  IF t = Selector THEN events # <<>> ELSE uxMessagesWaiting[target[t]] < Length[target[t]]

SendBegin(s, q) ==
  /\ s \in Sender /\ Goto(s, "out", "try")
  /\ target' = [target EXCEPT ![s] = q]
  /\ UNCHANGED <<uxMessagesWaiting, member, events, cTxLock, cRxLock, asleep, suspender, torn>>

SendPost(s) ==
  /\ s \in Sender /\ Goto(s, "try", "out") /\ Available(s)
  /\ Sent(target[s])
  /\ target' = [target EXCEPT ![s] = None]
  /\ UNCHANGED <<member, cRxLock, suspender, torn>>

SelectBegin ==
  /\ Goto(Selector, "out", "try")
  /\ UNCHANGED <<uxMessagesWaiting, member, events, cTxLock, cRxLock, target, asleep,
                 suspender, torn>>

SelectTake ==
  /\ Goto(Selector, "try", "selected") /\ Available(Selector)
  /\ target' = [target EXCEPT ![Selector] = Head(events)]
  /\ events' = Tail(events)
  /\ UNCHANGED <<uxMessagesWaiting, member, cTxLock, cRxLock, asleep, suspender, torn>>

WaitLock(t) ==
  /\ Goto(t, "try", "locked") /\ ~Available(t)
  /\ suspender' = t
  /\ cTxLock' = [cTxLock EXCEPT ![On(t)] = IF @ = Unlocked THEN 1 ELSE @]
  /\ cRxLock' = [cRxLock EXCEPT ![On(t)] = IF @ = Unlocked THEN 1 ELSE @]
  /\ UNCHANGED <<uxMessagesWaiting, member, events, target, asleep, torn>>

(* prvIsQueueFull, prvIsQueueEmpty.                                        *)
WaitLook(t) ==
  /\ Goto(t, "locked", IF Available(t) THEN "unlock" ELSE "place")
  /\ UNCHANGED <<uxMessagesWaiting, member, events, cTxLock, cRxLock, target, asleep,
                 suspender, torn>>

WaitPlace(t) ==
  /\ Goto(t, "place", "unlock")
  /\ asleep' = asleep \cup {t}
  /\ UNCHANGED <<uxMessagesWaiting, member, events, cTxLock, cRxLock, target, suspender, torn>>

(* prvUnlockQueue: for every message that has come the set is notified, or *)
(* who waits for the set is woken, ...                                     *)
Unlocking(t, from, to) ==
  /\ suspender = t /\ pc[t] = from
  /\ pc' = [pc EXCEPT ![t] = to]

(* Mistake: one notification, however many messages have come.             *)
UnlockTxOnce(t) ==
  /\ Unlocking(t, "unlock", "unlock rx")
  /\ LET q == On(t)  n == Since(cTxLock[q])
     IN /\ cTxLock' = [cTxLock EXCEPT ![q] = Unlocked]
        /\ IF q \in member /\ n > 0 THEN Notify(q, 1)
           ELSE IF q = Set /\ n > 0 THEN asleep' = asleep \ {Selector} /\ UNCHANGED events
           ELSE UNCHANGED <<events, asleep>>
  /\ UNCHANGED <<uxMessagesWaiting, member, cRxLock, target, suspender, torn>>

UnlockTx(t) ==
  /\ Unlocking(t, "unlock", "unlock rx")
  /\ LET q == On(t)  n == Since(cTxLock[q])
     IN /\ cTxLock' = [cTxLock EXCEPT ![q] = Unlocked]
        /\ IF q \in member THEN Notify(q, n)
           ELSE IF q = Set /\ n > 0 THEN asleep' = asleep \ {Selector} /\ UNCHANGED events
           ELSE UNCHANGED <<events, asleep>>
  /\ UNCHANGED <<uxMessagesWaiting, member, cRxLock, target, suspender, torn>>

(* ... and for every message that has been read, who waits for room; then  *)
(* the scheduler goes on.                                                  *)
UnlockRx(t) ==
  /\ Unlocking(t, "unlock rx", "try")
  /\ WakeSenders(On(t), Since(cRxLock[On(t)]))
  /\ cRxLock' = [cRxLock EXCEPT ![On(t)] = Unlocked]
  /\ suspender' = None
  /\ UNCHANGED <<uxMessagesWaiting, member, events, cTxLock, target, torn>>

(* The time to wait is over; the task looks once more, and gives up.       *)
Expire(t) ==
  /\ t \in asleep /\ suspender = None
  /\ asleep' = asleep \ {t}
  /\ UNCHANGED <<uxMessagesWaiting, member, events, cTxLock, cRxLock, pc, target, suspender,
                 torn>>

GiveUp(t) ==
  /\ Goto(t, "try", "out") /\ ~Available(t)
  /\ target' = [target EXCEPT ![t] = None]
  /\ UNCHANGED <<uxMessagesWaiting, member, events, cTxLock, cRxLock, asleep, suspender, torn>>

(* xQueueReceive of the queue that xQueueSelectFromSet has named, or of a  *)
(* queue that is in no set and in which uxQueueMessagesWaiting has found   *)
(* something, without a wait.                                              *)
Receive(from) ==
  /\ Goto(Selector, from, "out")
  /\ IF uxMessagesWaiting[target[Selector]] > 0
     THEN Received(target[Selector])
     ELSE UNCHANGED <<uxMessagesWaiting, cRxLock, asleep>>
  /\ target' = [target EXCEPT ![Selector] = None]
  /\ UNCHANGED <<member, events, cTxLock, suspender, torn>>

MessagesWaiting(q) ==
  /\ Goto(Selector, "out", "counted")
  /\ q \notin member /\ uxMessagesWaiting[q] > 0
  /\ target' = [target EXCEPT ![Selector] = q]
  /\ UNCHANGED <<uxMessagesWaiting, member, events, cTxLock, cRxLock, asleep, suspender, torn>>

-----------------------------------------------------------------------------
(* A handler sends to a queue that has room, ...                           *)
SendFromISR(q) ==
  /\ uxMessagesWaiting[q] < Length[q]
  /\ \A x \in {q, Set} : Since(cTxLock[x]) < MaxSince
  /\ Sent(q)
  /\ UNCHANGED <<member, cRxLock, pc, target, suspender, torn>>

(* ... or selects and receives.                                            *)
SelectFromSetFromISR ==
  /\ events # <<>> /\ Since(cRxLock[Head(events)]) < MaxSince
  /\ events' = Tail(events)
  /\ IF uxMessagesWaiting[Head(events)] > 0
     THEN Received(Head(events))
     ELSE UNCHANGED <<uxMessagesWaiting, cRxLock, asleep>>
  /\ UNCHANGED <<member, cTxLock, pc, target, suspender, torn>>

-----------------------------------------------------------------------------
(* Mistake: a queue may have something in it.                              *)
AddToSetAnyway(q) ==
  /\ Goto(Selector, "out", "out")
  /\ q \notin member
  /\ member' = member \cup {q}
  /\ UNCHANGED <<uxMessagesWaiting, events, cTxLock, cRxLock, target, asleep, suspender, torn>>

(* xQueueAddToSet: a queue with something in it is refused.                *)
AddToSet(q) ==
  /\ Goto(Selector, "out", "out")
  /\ q \notin member /\ uxMessagesWaiting[q] = 0
  /\ member' = member \cup {q}
  /\ UNCHANGED <<uxMessagesWaiting, events, cTxLock, cRxLock, target, asleep, suspender, torn>>

(* xQueueRemoveFromSet: the same test, but outside the critical section.   *)
RemoveTest(q) ==
  /\ Goto(Selector, "out", "remove")
  /\ q \in member /\ uxMessagesWaiting[q] = 0
  /\ target' = [target EXCEPT ![Selector] = q]
  /\ UNCHANGED <<uxMessagesWaiting, member, events, cTxLock, cRxLock, asleep, suspender, torn>>

RemoveFromSet ==
  /\ Goto(Selector, "remove", "out")
  /\ member' = member \ {target[Selector]}
  /\ torn' = (torn \/ uxMessagesWaiting[target[Selector]] > 0)
  /\ target' = [target EXCEPT ![Selector] = None]
  /\ UNCHANGED <<uxMessagesWaiting, events, cTxLock, cRxLock, asleep, suspender>>

-----------------------------------------------------------------------------
Init ==
  /\ uxMessagesWaiting = [q \in Queue |-> 0]
  /\ member = {} /\ events = <<>>
  /\ cTxLock = [q \in Queue \cup {Set} |-> Unlocked]
  /\ cRxLock = [q \in Queue \cup {Set} |-> Unlocked]
  /\ pc = [t \in Task |-> "out"] /\ target = [t \in Task |-> None]
  /\ asleep = {} /\ suspender = None
  /\ torn = FALSE

Next ==
  \/ \E s \in Sender : (\E q \in Queue : SendBegin(s, q)) \/ SendPost(s)
  \/ SelectBegin \/ SelectTake \/ Receive("selected") \/ Receive("counted")
  \/ \E t \in Task :
       \/ WaitLock(t) \/ WaitLook(t) \/ WaitPlace(t) \/ UnlockTx(t) \/ UnlockRx(t)
       \/ Expire(t) \/ GiveUp(t)
  \/ \E q \in Queue : SendFromISR(q) \/ AddToSet(q) \/ RemoveTest(q) \/ MessagesWaiting(q)
  \/ SelectFromSetFromISR \/ RemoveFromSet

-----------------------------------------------------------------------------
Held(q) == IF pc[Selector] = "selected" /\ target[Selector] = q THEN 1 ELSE 0

Named(q) == Quantify(DOMAIN events, LAMBDA i : events[i] = q)

(* The set names a member once for each message in it, apart from what is  *)
(* still to be posted when the queue is unlocked and from the one that     *)
(* has been selected; it names no other queue.  So a queue that is named   *)
(* has a message when it is read, and so has one that was counted.  The    *)
(* exception is a queue that gets a message between the test and the end   *)
(* of xQueueRemoveFromSet.                                                 *)
NamesRight ==
  ~torn =>
    /\ \A q \in Queue :
         Named(q) + Held(q) =
           IF q \in member THEN uxMessagesWaiting[q] - Since(cTxLock[q]) ELSE 0
    /\ pc[Selector] = "counted" => uxMessagesWaiting[target[Selector]] > 0

(* Nobody sleeps on what is there: the selecting task while the set names  *)
(* a queue, a sender while its queue has room, unless one for each place   *)
(* is on its way or the queue is about to be unlocked.                     *)
NobodyLeft ==
  /\ Selector \in asleep /\ events # <<>> => Since(cTxLock[Set]) > 0
  /\ \A q \in Queue :
       (\E s \in Sender \cap asleep : target[s] = q) =>
         Length[q] - uxMessagesWaiting[q]
           <= Since(cRxLock[q]) + Cardinality({s \in Sender \ asleep : target[s] = q})

QueueSetsRight == NamesRight /\ NobodyLeft
=============================================================================
