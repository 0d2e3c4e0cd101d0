---------------------------- MODULE EventGroups ----------------------------
(***************************************************************************)
(* event_groups.c: tasks that set, clear and wait for the bits of one      *)
(* event group, and tasks that meet in it (xEventGroupSync).  No handler   *)
(* touches a group, so that what a call does between vTaskSuspendAll and   *)
(* xTaskResumeAll is one step; ticks may come ahead of it.  One that was   *)
(* deleted is not called any more, but by those who are in a call.         *)
(***************************************************************************)
EXTENDS Kernel

CONSTANTS
  First,        \* the tasks in the order of their creation
  Priorities,   \* per task: its priority, that of Idle included
  Bit,          \* per task that meets the others: its own bit
  Sets,         \* the bits that are set and cleared besides, ...
  Waits,        \* ... the calls of xEventGroupWaitBits, [bits, all, clear], ...
  WaitTicks,    \* ... and how long they wait
  MaxPended     \* bound: ticks while the scheduler is suspended

VARIABLES
  k,            \* the kernel
  pc,           \* per task: "app", "held" (behind vTaskSuspendAll), "set"
                \* (behind xTaskResumeAll in xEventGroupSetBits), "yield"
                \* (ahead of portYIELD_WITHIN_API), "woken" (behind it)
  bits,         \* uxEventBits
  item,         \* per task: its event item, [bits, all, clear, unblocked]
  round,        \* history, per task that meets others: how often it has,
                \* less how often the first of them has
  deleted,      \* vEventGroupDelete was called ...
  late          \* history: ... when these had yet to read it, see Late

vars == <<k, pc, bits, item, round, deleted, late>>

Group == <<"xTasksWaitingForBits">>
NoItem == [bits |-> {}, all |-> FALSE, clear |-> FALSE, unblocked |-> FALSE]

Meeting == DOMAIN Bit
Everybody == {Bit[t] : t \in Meeting}

At(t, p) == k.current = t /\ ~k.swi /\ pc[t] = p
Goto(t, p) == pc' = [pc EXCEPT ![t] = p]

(* prvTestWaitCondition.                                                   *)
Met(c, b) == IF c.all THEN c.bits \subseteq b ELSE c.bits \cap b # {}

-----------------------------------------------------------------------------
(* vTaskSuspendAll at the beginning of each of the calls.                  *)
Begin(t) ==
  /\ At(t, "app") /\ ~deleted
  /\ k' = SuspendAll(k)
  /\ Goto(t, "held")
  /\ UNCHANGED <<bits, item, round, deleted, late>>

(* Mistake: only the first of those whose condition holds.                 *)
MatchesFirst(b) ==
  LET all == SelectSeq(k.events[Group], LAMBDA u : Met(item[u], b))
  IN  IF all = << >> THEN all ELSE <<Head(all)>>

(* Who is woken when b is set, in the order of the list.                   *)
Matches(b) == SelectSeq(k.events[Group], LAMBDA u : Met(item[u], b))

(* vTaskRemoveFromUnorderedEventList for each of s: they become ready at   *)
(* once, although the scheduler is suspended.                              *)
WakeAll(s) ==
  [Wake(k, s) EXCEPT !.yieldPending =
     @ \/ \E u \in ToSet(s) : k.priority[u] > k.priority[k.current]]

Unblock(s, b) ==
  [u \in Tasks |-> IF u \in ToSet(s) THEN [item[u] EXCEPT !.bits = b, !.unblocked = TRUE]
                   ELSE item[u]]

(* What is cleared when they leave.                                        *)
Cleared(s) == UNION {item[u].bits : u \in {v \in ToSet(s) : item[v].clear}}

(* xEventGroupSetBits, to the end of xTaskResumeAll: whom it woke may run  *)
(* first.                                                                  *)
SetBits(t, set) ==
  LET b == bits \cup set
  IN  /\ At(t, "held")
      /\ k' = ResumeAll(WakeAll(Matches(b)))
      /\ item' = Unblock(Matches(b), b)
      /\ bits' = b \ Cleared(Matches(b))
      /\ Goto(t, "set")
      /\ UNCHANGED <<round, deleted, late>>

(* Its return reads the bits once more, of the group that there was.       *)
SetReturns(t) ==
  /\ At(t, "set")
  /\ Goto(t, "app")
  /\ UNCHANGED <<k, bits, item, round, deleted, late>>

(* vTaskPlaceOnUnorderedEventList, xTaskResumeAll and the yield.           *)
Block(kk, t, ticks) ==
  /\ k' = ResumeAll(AddCurrentToDelayed([kk EXCEPT !.events[Group] = Append(@, t)], ticks, TRUE))
  /\ Goto(t, IF k'.yieldPending THEN "woken" ELSE "yield")

(* xEventGroupWaitBits.                                                    *)
WaitBits(t, c, ticks) ==
  /\ At(t, "held")
  /\ UNCHANGED <<round, deleted, late>>
  /\ \/ /\ Met(c, bits)
        /\ bits' = IF c.clear THEN bits \ c.bits ELSE bits
        /\ k' = ResumeAll(k) /\ Goto(t, "app") /\ UNCHANGED item
     \/ /\ ~Met(c, bits) /\ ticks = 0
        /\ k' = ResumeAll(k) /\ Goto(t, "app") /\ UNCHANGED <<bits, item>>
     \/ /\ ~Met(c, bits) /\ ticks # 0
        /\ Block(k, t, ticks)
        /\ item' = [item EXCEPT ![t] = [bits |-> c.bits, all |-> c.all,
                                        clear |-> c.clear, unblocked |-> FALSE]]
        /\ UNCHANGED bits

(* One more meeting for t.                                                 *)
Meets(t) ==
  LET first == CHOOSE u \in Meeting : TRUE
  IN  round' = IF t = first
               THEN [u \in Meeting |-> IF u = first THEN 0 ELSE round[u] - 1]
               ELSE [round EXCEPT ![t] = @ + 1]

(* Whether everybody has come, by the bits as they were before.            *)
HasAll(t, before, after) == Everybody \subseteq before \cup {Bit[t]}

(* xEventGroupSync, which waits for as long as it takes.                   *)
Sync(t) ==
  LET b == bits \cup {Bit[t]}
      woken == Matches(b)
      after == b \ Cleared(woken)
  IN  /\ At(t, "held") /\ UNCHANGED <<deleted, late>>
      /\ IF HasAll(t, bits, after)
         THEN /\ bits' = after \ Everybody
              /\ k' = ResumeAll(WakeAll(woken)) /\ Goto(t, "app")
              /\ item' = Unblock(woken, b)
              /\ Meets(t)
         ELSE /\ bits' = after
              /\ Block(WakeAll(woken), t, MaxDelay)
              /\ item' = [Unblock(woken, b) EXCEPT ![t] =
                            [bits |-> Everybody, all |-> TRUE, clear |-> TRUE,
                             unblocked |-> FALSE]]
              /\ UNCHANGED round

CallYield(t) ==
  /\ At(t, "yield")
  /\ k' = Yield(k)
  /\ Goto(t, "woken")
  /\ UNCHANGED <<bits, item, round, deleted, late>>

(* The rest of both, behind the wait: uxTaskResetEventItemValue, and in a  *)
(* critical section, when the time is up, the test of the bits again, also *)
(* where the group is gone by then.                                        *)
Woken(t) ==
  /\ At(t, "woken")
  /\ bits' = IF ~deleted /\ ~item[t].unblocked /\ item[t].clear /\ Met(item[t], bits)
             THEN bits \ item[t].bits ELSE bits
  /\ item' = [item EXCEPT ![t] = NoItem]
  /\ IF t \in Meeting /\ ~deleted THEN Meets(t) ELSE UNCHANGED round
  /\ Goto(t, "app")
  /\ UNCHANGED <<k, deleted, late>>

(* xEventGroupClearBits.                                                   *)
ClearBits(t, clear) ==
  /\ At(t, "app") /\ ~deleted
  /\ bits' = bits \ clear
  /\ UNCHANGED <<k, pc, item, round, deleted, late>>

(* Who is in a call that is going to read the group: xEventGroupSetBits on *)
(* its way back, and a wait that nobody has ended by setting bits.         *)
WillRead(t) == pc[t] = "set" \/ (pc[t] \in {"yield", "woken"} /\ ~item[t].unblocked)

(* Those of them that vEventGroupDelete does not find in the list.         *)
Late == {t \in Tasks : WillRead(t) /\ t \notin ToSet(k.events[Group])}

(* Mistake: those who wait are left alone.                                 *)
DeleteQuiet(t) ==
  /\ At(t, "held")
  /\ k' = ResumeAll(k) /\ deleted' = TRUE /\ late' = Late
  /\ Goto(t, "app")
  /\ UNCHANGED <<bits, item, round>>

(* vEventGroupDelete: those who wait are woken, with no bits.              *)
Delete(t) ==
  LET waiting == k.events[Group]
  IN  /\ At(t, "held")
      /\ k' = ResumeAll(WakeAll(waiting))
      /\ item' = Unblock(waiting, {})
      /\ deleted' = TRUE /\ late' = Late
      /\ Goto(t, "app")
      /\ UNCHANGED <<bits, round>>

(* SysTick_Handler, SW_Handler.                                            *)
Tick ==
  /\ k.pendedTicks < MaxPended
  /\ k' = SysTick(k)
  /\ UNCHANGED <<pc, bits, item, round, deleted, late>>

Switch ==
  /\ k.swi
  /\ k' = SwitchContext(k)
  /\ UNCHANGED <<pc, bits, item, round, deleted, late>>

(* xEventGroupCreate, by somebody before.                                  *)
Init ==
  /\ k = Started(First, Priorities)
  /\ pc = [t \in Tasks |-> "app"]
  /\ bits = {} /\ item = [t \in Tasks |-> NoItem]
  /\ round = [t \in Meeting |-> 0]
  /\ deleted = FALSE /\ late = {}

Next ==
  \/ Tick \/ Switch
  \/ \E t \in Tasks :
       \/ Begin(t) \/ SetReturns(t) \/ CallYield(t) \/ Woken(t)
       \/ t \in Meeting /\ Sync(t)
       \/ t \notin Meeting /\ Delete(t)
       \/ \E b \in Sets : \/ t \notin Meeting /\ (SetBits(t, b) \/ ClearBits(t, b))
       \/ \E c \in Waits, n \in WaitTicks : t \notin Meeting /\ WaitBits(t, c, n)

-----------------------------------------------------------------------------
(* Nobody is left waiting for what is there.                               *)
NobodyForgotten == \A t \in ToSet(k.events[Group]) : ~Met(item[t], bits)

(* Those who meet wait for each other: nobody is ahead by more than one    *)
(* meeting of another one, and they do not all wait.                       *)
Rendezvous ==
  /\ \A t, u \in Meeting : round[t] <= round[u] + 1
  /\ ~(Meeting \subseteq ToSet(k.events[Group]))

(* A group that was deleted leaves nobody waiting, and nobody reads it any *)
(* more, but for those whom the deletion overtook: a wait whose time was   *)
(* over, or an xEventGroupSetBits that had resumed the scheduler, ahead of *)
(* their last look.                                                        *)
UsedNoMore ==
  deleted => k.events[Group] = << >> /\ \A t \in Tasks \ late : ~WillRead(t)

GroupInv ==
  /\ ListsRight(k, Idle) /\ (HighestRuns(k) \/ \E t \in Tasks : At(t, "yield"))
  /\ NobodyForgotten /\ Rendezvous /\ UsedNoMore
=============================================================================
