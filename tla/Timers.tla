------------------------------- MODULE Timers -------------------------------
(***************************************************************************)
(* timers.c: software timers, kept by the daemon task alone.  Everybody    *)
(* else sends it commands, each with the time at which it was sent.  The   *)
(* daemon keeps timers that expire before the tick count wraps in one list *)
(* and those that expire behind the wrap in another, and finds out that    *)
(* the count has wrapped when it reads a lower one than the time before.   *)
(*                                                                         *)
(* Nobody but the daemon looks at the lists.  A tick or a message that     *)
(* comes while it works on them makes no difference to it until it looks   *)
(* again, so that what it does with one reading of the tick count, the     *)
(* callbacks included, is one step.                                        *)
(***************************************************************************)
EXTENDS Kernel

CONSTANTS
  Daemon,       \* prvTimerTask
  Timers,
  Periods,      \* the periods that timers may have
  Period,       \* those they are created with
  AutoReload,   \* uxAutoReload of each timer, as it is created
  Changing,     \* those whose mode is changed
  QueueLength,  \* configTIMER_QUEUE_LENGTH
  Commands,     \* what is sent: [id, timer, value]
  MaxLate,      \* bound: ticks for which the daemon, or who starts a timer, is behind
  MaxPended     \* bound: ticks while the scheduler is suspended

TimerQueue == <<"xTimerQueue">>

(* What is assumed of the constants.                                      *)
TimersAssumption ==
  /\ Tasks = {Daemon} /\ EventLists = {TimerQueue}
  /\ MaxPended \in Nat /\ MaxLate \in Nat
  /\ \A p \in Periods : p > 0 /\ p + MaxLate < Ticks
  /\ Period \in [Timers -> Periods] /\ AutoReload \in [Timers -> BOOLEAN]
  /\ Changing \subseteq Timers /\ QueueLength \in Nat \ {0}
  /\ \A c \in Commands :
       /\ c.id \in {"start", "stop", "change period", "delete", "call"}
       /\ c.timer \in Timers /\ c.value \in Periods

VARIABLES
  k,            \* the kernel
  timers,       \* the daemon's lists and the timers: see TimersState
  messages,     \* what is in xTimerQueue
  txLock,       \* cTxLock of it, -1 when it is not locked
  pc,           \* where the daemon is
  calls,        \* history: per timer, the callbacks of the last step
  left          \* history: per timer, ticks until it is due, down to -MaxLate

vars == <<k, timers, messages, txLock, pc, calls, left>>

TimersState ==
  [current : Seq(Timers), overflow : Seq(Timers), last : 0 .. Ticks - 1,
   expiry : [Timers -> 0 .. Ticks - 1], period : [Timers -> Periods],
   active : [Timers -> BOOLEAN], auto : [Timers -> BOOLEAN], created : SUBSET Timers]

At(p) == k.current = Daemon /\ ~k.swi /\ pc = p

NoCalls == [t \in Timers |-> 0]

-----------------------------------------------------------------------------
(* The lists, as operators on <<s, n>>, the timers and the callbacks made. *)

(* prvInsertTimerInActiveList: whether the time to expire, counted from    *)
(* since, is over already, ...                                             *)
Over(s, t, expires, now, since) ==
  IF expires <= now THEN (now + Ticks - since) % Ticks >= s.period[t]
                    ELSE now < since /\ expires >= since

(* ... and if it is not, in which list it goes.                            *)
InsertTimer(s, t, expires, now) ==
  LET s1 == [s EXCEPT !.expiry[t] = expires]
  IN  IF expires <= now THEN [s1 EXCEPT !.overflow = Insert(@, t, s1.expiry)]
                        ELSE [s1 EXCEPT !.current = Insert(@, t, s1.expiry)]

(* How many expiries behind the one at expired are over too, and the time  *)
(* of the n-th behind it.                                                  *)
Behind(s, t, expired, n) == (expired + n * s.period[t]) % Ticks

Missed(s, t, expired, now) ==
  LET over(n) == Over(s, t, Behind(s, t, expired, n), now, Behind(s, t, expired, n - 1))
  IN  CHOOSE n \in 0 .. Ticks : ~over(n + 1) /\ \A m \in 1 .. n : over(m)

(* Mistake: they are left out.                                             *)
ReloadOnce(s, n, t, expired, now) ==
  LET i == Missed(s, t, expired, now)
  IN  <<InsertTimer(s, t, Behind(s, t, expired, i + 1), now), n>>

(* prvReloadTimer: they are made up for.                                   *)
Reload(s, n, t, expired, now) ==
  LET i == Missed(s, t, expired, now)
  IN  <<InsertTimer(s, t, Behind(s, t, expired, i + 1), now), [n EXCEPT ![t] = @ + i]>>

Called(n, t) == [n EXCEPT ![t] = @ + 1]

(* prvProcessExpiredTimer for the first of the current list.               *)
ProcessExpired(s, n, now) ==
  LET t == Head(s.current)
      s1 == [s EXCEPT !.current = Tail(@)]
  IN  IF s.auto[t] THEN Reload(s1, Called(n, t), t, s.expiry[t], now)
      ELSE <<[s1 EXCEPT !.active[t] = FALSE], Called(n, t)>>

(* prvSwitchTimerLists: what is left in the current list has expired.      *)
SwitchTimerLists(s) ==
  LET done[i \in 0 .. Len(s.current)] ==
        IF i = 0 THEN <<s, NoCalls>>
        ELSE ProcessExpired(done[i - 1][1], done[i - 1][2], MaxDelay)
      r == done[Len(s.current)]
  IN  <<[r[1] EXCEPT !.current = r[1].overflow, !.overflow = r[1].current], r[2]>>

(* prvSampleTimeNow.                                                       *)
Switched(s) == k.tick < s.last

Sample(s) ==
  LET r == IF Switched(s) THEN SwitchTimerLists(s) ELSE <<s, NoCalls>>
  IN  <<[r[1] EXCEPT !.last = k.tick], r[2]>>

(* prvProcessReceivedCommands for one message, behind the sample (s, n).   *)
Execute(s, n, m) ==
  LET t == m.timer
      expires == (m.sent + s.period[t]) % Ticks
      on == [s EXCEPT !.active[t] = TRUE]
      off == [s EXCEPT !.active[t] = FALSE]
      changed == [on EXCEPT !.period[t] = m.value]
  IN  CASE m.id = "start" /\ ~Over(s, t, expires, k.tick, m.sent) ->
             <<InsertTimer(on, t, expires, k.tick), n>>
        [] m.id = "start" /\ Over(s, t, expires, k.tick, m.sent) ->
             IF s.auto[t] THEN Reload(on, Called(n, t), t, expires, k.tick)
                              ELSE <<off, Called(n, t)>>
        [] m.id = "stop" -> <<off, n>>
        [] m.id = "change period" ->
             <<InsertTimer(changed, t, (k.tick + m.value) % Ticks, k.tick), n>>
        [] m.id = "delete" -> <<[off EXCEPT !.created = @ \ {t}], n>>
        [] OTHER -> <<s, n>>

-----------------------------------------------------------------------------
(* The histories.  A step that makes r[2] callbacks leaves r[1]; a timer   *)
(* that is set anew in it waits for since[t], the others for left[t].      *)
Did(r, since) ==
  /\ timers' = r[1] /\ calls' = r[2]
  /\ left' = [t \in Timers |->
       CASE r[1].active[t] /\ r[1].auto[t] -> since[t] + r[2][t] * r[1].period[t]
         [] r[1].active[t] \/ r[2][t] > 0 -> since[t]
         [] OTHER -> 0]

(* Time passes with the tick count.                                        *)
Passed == (k'.tick + Ticks - k.tick) % Ticks

Later(n) ==
  /\ left' = [t \in Timers |-> IF timers.active[t] THEN left[t] - n ELSE 0]
  /\ calls' = NoCalls
  /\ UNCHANGED timers

Time == Later(Passed)
NoTime == Later(0)

-----------------------------------------------------------------------------
(* prvTimerTask.                                                           *)

(* prvGetNextExpireTime, vTaskSuspendAll, prvSampleTimeNow.  When that     *)
(* switches the lists the callbacks run with the scheduler suspended.      *)
SwitchLists ==
  /\ At("look") /\ Switched(timers)
  /\ Did(Sample(timers), left)
  /\ k' = SuspendAll(k)
  /\ pc' = "resume"
  /\ UNCHANGED <<messages, txLock>>

(* Mistake: a tick too soon.                                               *)
DueSoon == timers.current # << >> /\ timers.expiry[Head(timers.current)] <= k.tick + 1

(* Whether the first timer of the current list has expired.               *)
Due == timers.current # << >> /\ timers.expiry[Head(timers.current)] <= k.tick

(* A timer is due: xTaskResumeAll at once, prvProcessExpiredTimer.         *)
ExpireTimer ==
  /\ At("look") /\ ~Switched(timers) /\ Due
  /\ Did(ProcessExpired(Sample(timers)[1], NoCalls, k.tick), left)
  /\ pc' = "receive"
  /\ UNCHANGED <<k, messages, txLock>>

(* Mistake: the other list is not looked at.                               *)
WaitForMessageOnly ==
  LET next == IF timers.current = << >> THEN 0 ELSE timers.expiry[Head(timers.current)]
  IN  /\ At("look") /\ ~Switched(timers) /\ ~Due
      /\ timers' = Sample(timers)[1] /\ UNCHANGED left /\ calls' = NoCalls
      /\ k' = IF messages # << >> THEN SuspendAll(k)
              ELSE PlaceOnEventListRestricted(SuspendAll(k), TimerQueue,
                     (next + Ticks - k.tick) % Ticks, timers.current = << >>)
      /\ txLock' = 0
      /\ pc' = "unlock"
      /\ UNCHANGED messages

(* None is: vQueueWaitForMessageRestricted locks the queue and, unless     *)
(* there is a message, the daemon is to wait for one, at most to the first *)
(* timer of the current list or, if there is none, to the wrap.            *)
WaitForMessage ==
  LET next == IF timers.current = << >> THEN 0 ELSE timers.expiry[Head(timers.current)]
      never == timers.current = << >> /\ timers.overflow = << >>
      k1 == SuspendAll(k)
  IN  /\ At("look") /\ ~Switched(timers) /\ ~Due
      /\ timers' = Sample(timers)[1] /\ UNCHANGED left /\ calls' = NoCalls
      /\ k' = IF messages # << >> THEN k1
              ELSE PlaceOnEventListRestricted(k1, TimerQueue,
                     (next + Ticks - k.tick) % Ticks, never)
      /\ txLock' = 0
      /\ pc' = "unlock"
      /\ UNCHANGED messages

(* prvUnlockQueue.                                                         *)
Unlock ==
  /\ At("unlock")
  /\ k' = WakeWaiters(k, TimerQueue, txLock)
  /\ txLock' = -1
  /\ pc' = "resumeYield"
  /\ NoTime /\ UNCHANGED messages

(* xTaskResumeAll, and portYIELD if that did not.                          *)
ResumeYield ==
  /\ At("resumeYield")
  /\ k' = ResumeAll(k)
  /\ pc' = IF k'.yieldPending THEN "receive" ELSE "yield"
  /\ Time /\ UNCHANGED <<messages, txLock>>

CallYield ==
  /\ At("yield")
  /\ k' = Yield(k)
  /\ pc' = "receive"
  /\ NoTime /\ UNCHANGED <<messages, txLock>>

(* xTaskResumeAll behind a switch of the lists.                            *)
Resume ==
  /\ At("resume")
  /\ k' = ResumeAll(k)
  /\ pc' = "receive"
  /\ Time /\ UNCHANGED <<messages, txLock>>

(* xQueueReceive; xTimerPendFunctionCall's function, or uxListRemove,      *)
(* prvSampleTimeNow and the command.                                       *)
ReceiveMessage ==
  LET m == Head(messages)
      t == m.timer
      out == [timers EXCEPT !.current = Without(@, {t}), !.overflow = Without(@, {t})]
      r == Sample(out)
      since == [u \in Timers |->
        CASE u # t -> left[u]
          [] m.id = "start" -> timers.period[t] - Elapsed(k, [tick |-> m.sent])
          [] m.id = "change period" -> m.value
          [] OTHER -> 0]
  IN  /\ At("receive") /\ messages # << >>
      /\ messages' = Tail(messages)
      /\ IF m.id = "call" THEN NoTime ELSE Did(Execute(r[1], r[2], m), since)
      /\ UNCHANGED <<k, txLock, pc>>

NoMessage ==
  /\ At("receive") /\ messages = << >>
  /\ pc' = "look"
  /\ NoTime /\ UNCHANGED <<k, messages, txLock>>

-----------------------------------------------------------------------------
(* A timer is not used behind its deletion.                                *)
Gone(t) ==
  \/ t \notin timers.created
  \/ \E m \in ToSet(messages) : m.id = "delete" /\ m.timer = t

(* xQueueSendToBack without a wait, by a task or by the daemon's own       *)
(* callbacks, and xQueueSendToBackFromISR, which may find the queue locked. *)
Post(m) ==
  /\ Len(messages) < QueueLength
  /\ messages' = Append(messages, m)
  /\ k' = IF txLock = -1 THEN WakeWaiter(k, TimerQueue) ELSE k
  /\ txLock' = IF txLock = -1 THEN -1 ELSE txLock + 1
  /\ NoTime /\ UNCHANGED pc

(* A message with the tick count that was read ago ticks before.           *)
Message(c, ago) ==
  [id |-> c.id, timer |-> c.timer, value |-> c.value, sent |-> (k.tick + Ticks - ago) % Ticks]

(* xTimerGenericCommand.  Who starts a timer reads the tick count ahead of *)
(* the call, and may be held up between them; to the others it is nothing. *)
Command(c) ==
  /\ c.id # "call" /\ ~Gone(c.timer)
  /\ \E ago \in IF c.id = "start" THEN 0 .. MaxLate ELSE {0} : Post(Message(c, ago))

(* xTimerPendFunctionCall, xTimerPendFunctionCallFromISR; the function is  *)
(* about a timer here that is there.                                       *)
PendFunctionCall(c) == c.id = "call" /\ ~Gone(c.timer) /\ Post(Message(c, 0))

(* prvInitialiseNewTimer; the place in a list is left by the deletion.     *)
InitialiseNewTimer(s, t) ==
  [s EXCEPT !.period[t] = Period[t], !.auto[t] = AutoReload[t]]

(* xTimerCreate, which finds memory here.                                  *)
Create(t) ==
  /\ t \notin timers.created /\ Gone(t)
  /\ timers' = [InitialiseNewTimer(timers, t) EXCEPT !.created = @ \cup {t}, !.active[t] = FALSE]
  /\ calls' = NoCalls
  /\ UNCHANGED <<k, messages, txLock, pc, left>>

(* vTimerSetReloadMode, not by way of the daemon: a task below it cannot   *)
(* come in between what the daemon does with one reading of the mode.      *)
SetReloadMode(t, auto) ==
  /\ ~Gone(t) /\ timers.auto[t] # auto
  /\ timers' = [timers EXCEPT !.auto[t] = auto]
  /\ calls' = NoCalls
  /\ UNCHANGED <<k, messages, txLock, pc, left>>

(* xTimerIsTimerActive: the commands on their way do not count.            *)
IsTimerActive(t) == timers.active[t]

(* SysTick_Handler.  The daemon, of the highest priority, is not behind    *)
(* by more than MaxLate.                                                   *)
Tick ==
  /\ k.schedulerSuspended # 0 => k.pendedTicks < MaxPended
  /\ \A t \in Timers : timers.active[t] => left[t] - k.pendedTicks > 0 - MaxLate
  /\ \A m \in ToSet(messages) :
       Elapsed(k, [tick |-> m.sent]) + k.pendedTicks < MaxLate
  /\ k' = SysTick(k)
  /\ Time /\ UNCHANGED <<messages, txLock, pc>>

(* SW_Handler.                                                             *)
Switch ==
  /\ k.swi
  /\ k' = SwitchContext(k)
  /\ NoTime /\ UNCHANGED <<messages, txLock, pc>>

Init ==
  /\ k = Started(<<Daemon>>, [t \in All |-> IF t = Idle THEN 0 ELSE MaxPriorities - 1])
  /\ timers = [current |-> << >>, overflow |-> << >>, last |-> 0,
               expiry |-> [t \in Timers |-> 0], period |-> Period,
               active |-> [t \in Timers |-> FALSE], auto |-> AutoReload, created |-> Timers]
  /\ messages = << >> /\ txLock = -1 /\ pc = "look"
  /\ calls = NoCalls /\ left = [t \in Timers |-> 0]

TimerTask ==
  \/ SwitchLists \/ ExpireTimer \/ WaitForMessage \/ Unlock
  \/ ResumeYield \/ CallYield \/ Resume \/ ReceiveMessage \/ NoMessage

Next ==
  \/ TimerTask \/ Tick \/ Switch
  \/ \E c \in Commands : Command(c) \/ PendFunctionCall(c)
  \/ \E t \in Timers : Create(t)
  \/ \E t \in Changing, auto \in BOOLEAN : SetReloadMode(t, auto)

-----------------------------------------------------------------------------
TypeOK ==
  /\ k \in KernelState /\ timers \in TimersState
  /\ Len(messages) <= QueueLength /\ txLock \in -1 .. QueueLength
  /\ pc \in {"look", "unlock", "resumeYield", "yield", "resume", "receive"}

(* A timer is in one list when it says it is active, and in none when not. *)
Active ==
  \A t \in Timers :
    Cardinality({i \in 1 .. Len(timers.current) : timers.current[i] = t})
      + Cardinality({i \in 1 .. Len(timers.overflow) : timers.overflow[i] = t})
        = IF IsTimerActive(t) THEN 1 ELSE 0

(* The lists are in order, and what a timer waits for is what its list and *)
(* its place in it say, counted from the time the daemon looked last.      *)
DueRight ==
  LET since == timers.last + ((k.tick + Ticks - timers.last) % Ticks)
  IN  /\ \A s \in {timers.current, timers.overflow} :
           \A i \in 2 .. Len(s) : timers.expiry[s[i - 1]] <= timers.expiry[s[i]]
      /\ \A t \in ToSet(timers.current) : timers.expiry[t] = since + left[t]
      /\ \A t \in ToSet(timers.overflow) : timers.expiry[t] + Ticks = since + left[t]

Inv == TypeOK /\ ListsRight(k, Idle) /\ Active /\ DueRight

(* No callback comes early, and none of an auto-reload timer is left out   *)
(* or made twice, also where the count wraps.                              *)
NeverEarly ==
  \A t \in Timers :
    /\ timers.active[t] => left[t] <= timers.period[t]
    /\ ~timers.active[t] /\ calls[t] > 0 => left[t] <= 0

(* The daemon sleeps only while no message is there and no timer is due.   *)
SleepsRightly ==
  ~InReady(k, Daemon) /\ k.schedulerSuspended = 0 =>
    /\ messages = << >>
    /\ \A t \in Timers : timers.active[t] => left[t] > 0
=============================================================================
