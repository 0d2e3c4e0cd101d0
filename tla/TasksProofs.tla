----------------------------- MODULE TasksProofs -----------------------------
EXTENDS Tasks, KernelProofs, FiniteSetTheorems
(***************************************************************************)
(* The scheduler of tasks.c as Tasks.tla has it keeps its lists, runs the  *)
(* highest ready task, ends delays on the tick and loses no notification,  *)
(* proved from one inductive invariant, a lemma per action.                *)
(***************************************************************************)

(* The tasks that xTaskResumeAll is to make ready.                         *)
Put(kk) == Ev(kk, Pending)

(* Where a task is in a call with the scheduler suspended, ...             *)
Holding == {"held", "catch", "abort"}
(* ... and where it has yet to let go of the processor.                    *)
Leaving == {"yield", "suspendSelf", "dying"}

(* The running task is of the highest priority among the ready.            *)
NoneAbove(kk) == \A t \in Rd(kk) : kk.priority[t] <= kk.priority[kk.current]

(* The same, but for the task that it has created and not yet given way to.*)
NoneButMade ==
  \A t \in Rd(k) : \/ k.priority[t] <= k.priority[k.current]
                   \/ pc[k.current] = "added" /\ t = made[k.current] /\ t # Idle

(* The parts of the inductive invariant. The type of every variable but the*)
(* kernel: it is in Sound.                                                 *)
Typed ==
  /\ pc \in [All -> PCs] /\ handle \in All /\ pended \in 0 .. MaxPended
  /\ notifyState \in [Tasks -> {"none", "waiting", "received"}]
  /\ notifyValue \in [Tasks -> 0 .. MaxNotify]
  /\ left \in [Tasks -> 0 .. MaxDelay] /\ stopped \subseteq Tasks
  /\ made \in [Tasks -> All]

(* The lists are sound and timely, no priority is inherited, and with the  *)
(* scheduler running nothing is put off.                                   *)
Kernels ==
  /\ Sound(k) /\ Timely(k) /\ k.base = k.priority
  /\ k.schedulerSuspended = 0 => k.pendedTicks = 0 /\ Put(k) = {}

(* The idle task is always ready; a task is in no list exactly when it does*)
(* not exist or xTaskAbortDelay has it in hand; those that await their     *)
(* clean-up are those that deleted themselves.                             *)
Everybody ==
  /\ Idle \in Rd(k) /\ pc[Idle] = "app"
  /\ \A t \in All : t \notin Listed(k) <=> pc[t] = "none" \/ (t = handle /\ t # Idle)
  /\ \A t \in All : t \in Gn(k) <=> pc[t] = "dying"

(* Only the running task holds the scheduler, it is held exactly while that*)
(* task is in such a call, only xTaskAbortDelay has another task in hand,  *)
(* and xTaskCatchUpTicks has read no more ticks than there are.            *)
Phases ==
  /\ \A t \in All : pc[t] \in Holding => t = k.current
  /\ k.schedulerSuspended # 0 <=> pc[k.current] \in Holding
  /\ handle # Idle => pc[k.current] = "abort" /\ handle # k.current /\ handle \in Live
  /\ pc[k.current] = "catch" => pended <= k.pendedTicks

(* The running task is ready and of the highest priority, or the switch has*)
(* been asked for, or is pending until the scheduler goes on, or the task  *)
(* is about to ask for it; above one that has just created another, that   *)
(* other may be.                                                           *)
Running ==
  /\ k.schedulerSuspended # 0 =>
       k.current \in Rd(k) /\ (k.swi \/ k.yieldPending \/ NoneAbove(k))
  /\ k.schedulerSuspended = 0 /\ ~k.swi /\ pc[k.current] \notin Leaving =>
       k.current \in Rd(k) /\ NoneButMade

(* A task stopped by vTaskSuspend is in the suspended list and is neither  *)
(* put off nor waits for a notification; what is put off lives and is not  *)
(* the running task; whoever waits for a notification is in that call.     *)
Stopping ==
  /\ stopped \subseteq k.suspended /\ stopped \cap Put(k) = {} /\ Put(k) \subseteq Live
  /\ k.current \notin Put(k)
  /\ \A t \in Live : notifyState[t] = "waiting" =>
       pc[t] \in {"take", "wait"} /\ t \notin stopped /\ t \notin Put(k)

(* A task that is in a wait for a notification and is not ready, not in    *)
(* hand and not stopped is about to be made ready, or waits still and there*)
(* is nothing to take.                                                     *)
Notified ==
  \A t \in Live :
    pc[t] \in {"take", "wait"} /\ t \notin Rd(k) /\ t # handle /\ t \notin stopped =>
      \/ t \in Put(k)
      \/ notifyState[t] = "waiting" /\ (pc[t] = "take" => notifyValue[t] = 0)

(* The ticks a task has to wait, counted by the model beside the kernel,   *)
(* are those its place in the delayed lists says, less the ticks put off.  *)
Delayed ==
  \A t \in Waiting(k) :
    left[t] = IF Dist(k, t) > k.pendedTicks THEN Dist(k, t) - k.pendedTicks ELSE 0

(* The inductive invariant of the scheduler.                               *)
IInv == Typed /\ Kernels /\ Everybody /\ Phases /\ Running /\ Stopping /\ Notified /\ Delayed

(* With the idle task ready only tasks wait, and the lists of a sound      *)
(* kernel have nobody in common.                                           *)
LEMMA WaitersAreTasks ==
  ASSUME NEW kk, Sound(kk), Idle \in Rd(kk)
  PROVE  /\ Waiting(kk) \subseteq Tasks /\ Waiting(kk) = Timed(kk)
         /\ Rd(kk) \cap Waiting(kk) = {} /\ Rd(kk) \cap kk.suspended = {}
         /\ Waiting(kk) \cap kk.suspended = {}
         /\ Gn(kk) \cap (Rd(kk) \cup Waiting(kk) \cup kk.suspended) = {}
         /\ Rd(kk) \subseteq All /\ kk.suspended \subseteq All
         /\ Listed(kk) = Rd(kk) \cup Waiting(kk) \cup kk.suspended \cup Gn(kk)
<1>1. kk \in KernelState /\ Apart(kk)
  BY DEF Sound
<1>2. Dl(kk) \subseteq All /\ Ov(kk) \subseteq All /\ kk.suspended \subseteq All
  BY <1>1, KernelTypes, InToSet DEF Dl, Ov
<1>3. Rd(kk) \subseteq All
  BY DEF Rd
<1>4. Rd(kk) \cap Waiting(kk) = {} /\ Waiting(kk) \subseteq All
  BY <1>1, <1>2 DEF Apart, Waiting
<1>5. /\ Rd(kk) \cap kk.suspended = {} /\ Waiting(kk) \cap kk.suspended = {}
      /\ Gn(kk) \cap (Rd(kk) \cup Waiting(kk) \cup kk.suspended) = {}
  BY <1>1 DEF Apart, Waiting
<1>6. Waiting(kk) \subseteq Tasks
  BY <1>4 DEF All
<1>7. /\ Listed(kk) = Rd(kk) \cup Waiting(kk) \cup kk.suspended \cup Gn(kk)
      /\ Waiting(kk) = Timed(kk)
  BY DEF Listed, Waiting, Timed, Dl, Ov
<1>8. QED
  BY <1>2, <1>3, <1>4, <1>5, <1>6, <1>7

(* An operation that only takes tasks out of the delayed lists keeps the   *)
(* ticks of the others right.                                              *)
LEMMA DelayedKept ==
  ASSUME Typed, Delayed, Sound(k), Idle \in Rd(k),
         NEW R, NEW W, NEW S, NEW G, NEW P, Become(k', k, R, W, S, G, P),
         W \subseteq Waiting(k), k'.pendedTicks = k.pendedTicks, Do(k')
  PROVE  Delayed' /\ left' \in [Tasks -> 0 .. MaxDelay]
<1>1. Waiting(k') = W /\ W \subseteq Tasks /\ Waiting(k') = Timed(k')
  BY WaitersAreTasks DEF Become, Timed, Waiting, Dl, Ov
<1>2. left' = [t \in Tasks |-> IF t \in Timed(k') THEN left[t] ELSE 0]
  BY DEF Do
<1>3. left \in [Tasks -> 0 .. MaxDelay] /\ MaxDelay \in Nat
  BY KernelAssumption DEF Typed, MaxDelay
<1>4. left' \in [Tasks -> 0 .. MaxDelay]
  BY <1>2, <1>3
<1>5. \A t \in W : left'[t] = left[t] /\ Dist(k', t) = Dist(k, t) /\ t \in Waiting(k)
  BY <1>1, <1>2 DEF Become
<1>6. \A t \in Waiting(k) : left[t] = IF Dist(k, t) > k.pendedTicks
                                      THEN Dist(k, t) - k.pendedTicks ELSE 0
  BY DEF Delayed
<1>7. \A t \in Waiting(k') : left'[t] = IF Dist(k', t) > k'.pendedTicks
                                        THEN Dist(k', t) - k'.pendedTicks ELSE 0
  BY <1>1, <1>5, <1>6
<1>8. QED
  BY <1>4, <1>7 DEF Delayed

(* The parts of the invariant and the types they give, to cite.            *)
LEMMA Facts ==
  ASSUME IInv
  PROVE  /\ Typed /\ Kernels /\ Everybody /\ Phases /\ Running /\ Stopping /\ Notified
         /\ Delayed
         /\ Sound(k) /\ Timely(k) /\ Idle \in Rd(k) /\ Idle \in All /\ Idle \notin Tasks
         /\ Tasks \subseteq All /\ All = Tasks \cup {Idle}
         /\ k \in KernelState /\ k.current \in All /\ k.swi \in BOOLEAN
         /\ k.yieldPending \in BOOLEAN
         /\ k.schedulerSuspended \in Nat /\ k.pendedTicks \in Nat
         /\ k.priority \in [All -> Priority] /\ Priority \subseteq Int
<1>1. /\ Sound(k) /\ Timely(k) /\ Idle \in Rd(k) /\ k \in KernelState
  BY DEF IInv, Kernels, Everybody, Sound
<1>2. Priority \subseteq Int
  BY KernelAssumption DEF Priority
<1>3. Idle \notin Tasks
  BY KernelAssumption
<1>4. QED
  BY <1>1, <1>2, <1>3, KernelTypes DEF IInv, All

(* Where the tasks are, in every state of the invariant.                   *)
LEMMA Where ==
  ASSUME IInv
  PROVE  /\ Waiting(k) \subseteq Tasks /\ Waiting(k) = Timed(k)
         /\ Rd(k) \cap Waiting(k) = {} /\ Rd(k) \cap k.suspended = {}
         /\ Waiting(k) \cap k.suspended = {}
         /\ Gn(k) \cap (Rd(k) \cup Waiting(k) \cup k.suspended) = {}
         /\ Rd(k) \subseteq All /\ k.suspended \subseteq All
         /\ Listed(k) = Rd(k) \cup Waiting(k) \cup k.suspended \cup Gn(k)
BY Facts, WaitersAreTasks

(* A task in a list that is not the one of the ended is alive.             *)
LEMMA ReadyLives ==
  ASSUME IInv, NEW t \in Tasks, t \in Listed(k) \ Gn(k)
  PROVE  t \in Live
<1>1. t \in All /\ pc[t] # "none" /\ pc[t] # "dying"
  BY Facts DEF Everybody
<1>2. QED
  BY <1>1 DEF Live

(* A task that runs outside the calls has the scheduler running, nothing   *)
(* put off, nobody in hand and nobody above it.                            *)
LEMMA AppFacts ==
  ASSUME IInv, NEW t \in Tasks, k.current = t, ~k.swi, pc[t] \notin Holding \cup Leaving \cup {"added"}
  PROVE  /\ k.schedulerSuspended = 0 /\ k.pendedTicks = 0 /\ Put(k) = {} /\ handle = Idle
         /\ t \in Rd(k) /\ NoneAbove(k) /\ t \in Live /\ t \notin stopped
         /\ \A x \in All : pc[x] \notin Holding
<1>1. k.schedulerSuspended = 0 /\ handle = Idle
  BY Facts DEF Phases, Holding
<1>2. k.pendedTicks = 0 /\ Put(k) = {}
  BY <1>1, Facts DEF Kernels
<1>3. t \in Rd(k) /\ NoneAbove(k)
  BY <1>1, Facts DEF Running, NoneButMade, NoneAbove
<1>4. t \in Live
  BY <1>3, Where, ReadyLives
<1>5. t \notin stopped
  BY <1>3, Where, Facts DEF Stopping
<1>6. \A x \in All : pc[x] \notin Holding
  BY Facts DEF Phases
<1>7. QED
  BY <1>1, <1>2, <1>3, <1>4, <1>5, <1>6

(* A task that runs inside a call that holds the scheduler is ready, and   *)
(* nobody is above it unless a yield is pending.                           *)
LEMMA HoldFacts ==
  ASSUME IInv, NEW t \in Tasks, k.current = t, ~k.swi, pc[t] \in Holding
  PROVE  /\ k.schedulerSuspended # 0 /\ t \in Rd(k) /\ (k.yieldPending \/ NoneAbove(k))
         /\ t \in Live /\ t \notin stopped
<1>1. k.schedulerSuspended # 0
  BY Facts DEF Phases
<1>2. t \in Rd(k) /\ (k.yieldPending \/ NoneAbove(k))
  BY <1>1, Facts DEF Running, NoneButMade, NoneAbove
<1>3. t \in Live
  BY <1>2, Where, ReadyLives
<1>4. t \notin stopped
  BY <1>2, Where, Facts DEF Stopping
<1>5. QED
  BY <1>1, <1>2, <1>3, <1>4

(* A step of one task changes where that task is and nothing of the others.*)
LEMMA GotoFacts ==
  ASSUME Typed, NEW t \in Live, NEW p \in PCs \ {"dying", "none"}, Goto(t, p)
  PROVE  /\ pc' \in [All -> PCs] /\ pc'[t] = p /\ \A x \in All \ {t} : pc'[x] = pc[x]
         /\ Live' = Live
<1>1. pc \in [All -> PCs] /\ t \in All /\ Tasks \subseteq All
  BY DEF Typed, Live, All
<1>2. pc' \in [All -> PCs] /\ pc'[t] = p /\ \A x \in All \ {t} : pc'[x] = pc[x]
  BY <1>1 DEF Goto
<1>3. Live' = Live
  BY <1>1, <1>2 DEF Live
<1>4. QED
  BY <1>2, <1>3

(* vTaskSuspendAll keeps the invariant.                                    *)
LEMMA CallSuspendAllKeeps ==
  ASSUME IInv, NEW t \in Tasks, CallSuspendAll(t)
  PROVE  IInv'
<1>1. /\ k.current = t /\ ~k.swi /\ pc[t] \in {"app", "held"}
      /\ Do(SuspendAll(k)) /\ Goto(t, "held")
      /\ UNCHANGED <<pended, made, handle, notifyState, notifyValue, stopped>>
  BY DEF CallSuspendAll, At
<1>2. t \in Live /\ t \in Rd(k) /\ (k.yieldPending \/ NoneAbove(k)) /\ handle = Idle
  BY <1>1, AppFacts, HoldFacts, Facts DEF Holding, Leaving, Phases
<1> DEFINE n == k.schedulerSuspended + 1
<1>3. n \in Nat /\ n # 0 /\ SuspendAll(k) = [k EXCEPT !.schedulerSuspended = n]
  BY Facts DEF SuspendAll
<1>4. k' = [k EXCEPT !.schedulerSuspended = n] /\ Do(k')
  BY <1>1, <1>3 DEF Do
<1> HIDE DEF n
<1>5. /\ Become(k', k, Rd(k), Waiting(k), k.suspended, Gn(k), Ev(k, Pending))
      /\ k'.current = k.current /\ k'.schedulerSuspended = n
      /\ k'.pendedTicks = k.pendedTicks /\ k'.tick = k.tick
      /\ k'.priority = k.priority /\ k'.base = k.base
      /\ k'.swi = k.swi /\ k'.yieldPending = k.yieldPending
  BY <1>3, <1>4, Facts, NestBecomes
<1>6. /\ Sound(k') /\ Timely(k') /\ Rd(k') = Rd(k) /\ Waiting(k') = Waiting(k)
      /\ k'.suspended = k.suspended /\ Gn(k') = Gn(k) /\ Put(k') = Put(k)
      /\ Listed(k') = Listed(k)
  BY <1>5, Facts, Where, WaitersAreTasks DEF Become, Put
<1>7. /\ pc' \in [All -> PCs] /\ pc'[t] = "held" /\ \A x \in All \ {t} : pc'[x] = pc[x]
      /\ Live' = Live
  BY <1>1, <1>2, Facts, GotoFacts DEF PCs
<1>8. Delayed' /\ left' \in [Tasks -> 0 .. MaxDelay]
  BY <1>4, <1>5, Facts, DelayedKept
<1>9. Typed'
  BY <1>1, <1>7, <1>8, Facts DEF Typed
<1>10. Kernels'
  BY <1>3, <1>5, <1>6, Facts DEF Kernels
<1>11. Everybody'
  BY <1>1, <1>2, <1>6, <1>7, Facts DEF Everybody, Live
<1>12. Phases'
  BY <1>1, <1>2, <1>3, <1>5, <1>7, Facts DEF Phases, Holding
<1>13. Running'
  BY <1>1, <1>2, <1>3, <1>5, <1>6, Facts DEF Running, NoneButMade, NoneAbove
<1>14. Stopping'
  BY <1>1, <1>5, <1>6, <1>7, Facts DEF Stopping, Live
<1>15. Notified'
  BY <1>1, <1>2, <1>6, <1>7, Facts DEF Notified, Live
<1>16. QED
  BY <1>8, <1>9, <1>10, <1>11, <1>12, <1>13, <1>14, <1>15 DEF IInv

(* What an operation made of the lists, said of the next state of the      *)
(* kernel.                                                                 *)
LEMMA BecomeMeans ==
  ASSUME IInv, NEW R, NEW W, NEW S, NEW G, NEW P, Become(k', k, R, W, S, G, P), Idle \in R
  PROVE  /\ Sound(k') /\ Timely(k') /\ Rd(k') = R /\ Waiting(k') = W
         /\ k'.suspended = S /\ Gn(k') = G /\ Put(k') = P
         /\ Listed(k') = R \cup W \cup S \cup G
         /\ W \subseteq Tasks /\ R \subseteq All /\ S \subseteq All
         /\ \A x \in W : Dist(k', x) = Dist(k, x)
<1>1. /\ Sound(k') /\ Timely(k') /\ Rd(k') = R /\ Waiting(k') = W
      /\ k'.suspended = S /\ Gn(k') = G /\ Put(k') = P
      /\ \A x \in W : Dist(k', x) = Dist(k, x)
  BY DEF Become, Put
<1>2. QED
  BY <1>1, WaitersAreTasks

(* A step that ends with xTaskResumeAll at its last level keeps the        *)
(* invariant: the switch is asked for, or nobody above the running task has*)
(* become ready.                                                           *)
LEMMA ResumeStep ==
  ASSUME IInv, NEW t \in Tasks, k.current = t, ~k.swi, pc[t] \in Holding, handle = Idle,
         k.schedulerSuspended = 1, k' = ResumeAll(k), Do(k'),
         NEW p \in {"app", "yield"}, Goto(t, p),
         UNCHANGED <<pended, made, handle, notifyState, notifyValue, stopped>>
  PROVE  IInv'
<1> DEFINE W == Revived(k)
<1>1. /\ t \in Rd(k) /\ (k.yieldPending \/ NoneAbove(k)) /\ t \in Live /\ t \notin stopped
  BY HoldFacts
<1>2. /\ Sound(k') /\ Timely(k')
      /\ Rd(k') = Rd(k) \cup W /\ Waiting(k') = Waiting(k) \ W
      /\ k'.suspended = k.suspended \ Put(k) /\ Gn(k') = Gn(k) \ Put(k)
      /\ \A l \in Events : Ev(k', l) = Ev(k, l) \ W
      /\ \A x \in Waiting(k') : Dist(k', x) = Dist(k, x) - k.pendedTicks
      /\ k'.current = k.current /\ k'.schedulerSuspended = 0 /\ k'.pendedTicks = 0
      /\ k'.priority = k.priority /\ k'.base = k.base
      /\ k'.swi = (k.swi \/ k'.yieldPending)
      /\ (\/ k.yieldPending
          \/ \E x \in W : k.priority[x] >= k.priority[k.current]) => k'.yieldPending
  BY Facts, ResumeAllRight DEF Put
<1>3. /\ Put(k) \subseteq W /\ W \subseteq Put(k) \cup Waiting(k)
      /\ \A x \in Waiting(k) \ W : ~ (Dist(k, x) <= k.pendedTicks)
  BY DEF Revived, Within, Put
<1> HIDE DEF W
<1>4. Put(k') = {}
  BY <1>2, <1>3 DEF Put, Events
<1>5. /\ pc' \in [All -> PCs] /\ pc'[t] = p /\ \A x \in All \ {t} : pc'[x] = pc[x]
      /\ Live' = Live
  BY <1>1, Facts, GotoFacts DEF PCs
<1>6. Put(k) \subseteq Live /\ stopped \subseteq k.suspended /\ stopped \cap Put(k) = {}
  BY Facts DEF Stopping
<1>7. Put(k) \cap Gn(k) = {} /\ Put(k) \subseteq Listed(k)
  BY <1>6, Facts DEF Everybody, Live
<1>8. Gn(k') = Gn(k) /\ Listed(k') = Listed(k)
  BY <1>2, <1>3, <1>7, Where, Facts, WaitersAreTasks, ZenonT(30)
<1>9. left \in [Tasks -> 0 .. MaxDelay] /\ 0 \in 0 .. MaxDelay
  BY Facts, KernelAssumption DEF Typed, MaxDelay
<1>10. /\ left' = [x \in Tasks |-> IF x \in Timed(k') THEN left[x] ELSE 0]
       /\ left' \in [Tasks -> 0 .. MaxDelay]
  BY <1>9 DEF Do
<1>11. Waiting(k') \subseteq Tasks /\ Waiting(k') = Timed(k')
  BY <1>2, Facts, WaitersAreTasks
<1>12. Delayed'
  <2>1. ASSUME NEW x \in Waiting(k')
        PROVE  left'[x] = IF Dist(k', x) > k'.pendedTicks
                          THEN Dist(k', x) - k'.pendedTicks ELSE 0
    <3>1. /\ left'[x] = left[x] /\ x \in Waiting(k) \ W
      BY <1>2, <1>10, <1>11
    <3>2. Dist(k, x) \in Nat /\ ~ (Dist(k, x) <= k.pendedTicks) /\ k.pendedTicks \in Nat
      BY <1>3, <3>1, Facts, DistRight
    <3>3. left[x] = Dist(k, x) - k.pendedTicks
      BY <3>1, <3>2, Facts DEF Delayed
    <3>4. Dist(k', x) = Dist(k, x) - k.pendedTicks /\ k'.pendedTicks = 0
      BY <1>2
    <3>5. QED
      BY <3>1, <3>2, <3>3, <3>4
  <2>2. QED
    BY <2>1 DEF Delayed
<1>13. Typed'
  BY <1>5, <1>10, Facts DEF Typed
<1>14. Kernels'
  BY <1>2, <1>4, Facts DEF Kernels
<1>15. Everybody'
  BY <1>1, <1>2, <1>5, <1>8, Facts DEF Everybody, Live
<1>16. Phases'
  BY <1>2, <1>5, Facts DEF Phases, Holding
<1>17. Running'
  <2>1. ASSUME ~k'.swi PROVE k'.current \in Rd(k') /\ NoneAbove(k')
    <3>1. ~k.yieldPending /\ NoneAbove(k) /\ \A x \in W : ~ (k.priority[x] >= k.priority[t])
      BY <1>1, <1>2, <2>1
    <3>2. \A x \in W : x \in All
      BY <1>3, <1>6, Where, Facts DEF Live
    <3>3. \A x \in W : k.priority[x] <= k.priority[t]
      <4>1. TAKE x \in W
      <4>2. k.priority[x] \in Int /\ k.priority[t] \in Int /\ ~ (k.priority[x] >= k.priority[t])
        BY <3>1, <3>2, Facts
      <4>3. QED
        BY <4>2
    <3>4. QED
      BY <3>1, <3>3, <1>1, <1>2 DEF NoneAbove
  <2>2. QED
    BY <1>2, <2>1 DEF Running, NoneButMade, NoneAbove
<1>18. Stopping'
  BY <1>2, <1>4, <1>5, <1>6, Facts DEF Stopping, Live, Holding
<1>19. Notified'
  BY <1>1, <1>2, <1>3, <1>5, Facts DEF Notified, Live
<1>20. QED
  BY <1>12, <1>13, <1>14, <1>15, <1>16, <1>17, <1>18, <1>19 DEF IInv

(* xTaskResumeAll called by the application keeps the invariant.           *)
LEMMA CallResumeAllKeeps ==
  ASSUME IInv, NEW t \in Tasks, CallResumeAll(t)
  PROVE  IInv'
<1>1. /\ k.current = t /\ ~k.swi /\ pc[t] \in {"held", "abort"} /\ handle = Idle
      /\ Do(ResumeAll(k)) /\ Goto(t, IF k.schedulerSuspended > 1 THEN "held" ELSE "app")
      /\ UNCHANGED <<pended, made, handle, notifyState, notifyValue, stopped>>
  BY DEF CallResumeAll, At
<1>2. /\ t \in Live /\ t \in Rd(k) /\ (k.yieldPending \/ NoneAbove(k))
      /\ k.schedulerSuspended \in Nat \ {0}
  BY <1>1, HoldFacts, Facts DEF Holding
<1>3. k' = ResumeAll(k) /\ Do(k')
  BY <1>1 DEF Do
<1>4. CASE k.schedulerSuspended = 1
  BY <1>1, <1>3, <1>4, ResumeStep DEF Holding
<1>5. CASE k.schedulerSuspended # 1
  <2> DEFINE n == k.schedulerSuspended - 1
             u == [k EXCEPT !.schedulerSuspended = n]
  <2>1. n \in Nat /\ n # 0 /\ k.schedulerSuspended > 1
    BY <1>2, <1>5
  <2>2. u.schedulerSuspended # 0 /\ u = [k EXCEPT !.schedulerSuspended = @ - 1]
    BY <2>1, Facts DEF KernelState
  <2>3. k' = u
    BY <1>3, <2>2 DEF ResumeAll
  <2> HIDE DEF n
  <2>4. /\ Become(k', k, Rd(k), Waiting(k), k.suspended, Gn(k), Ev(k, Pending))
        /\ k'.current = k.current /\ k'.schedulerSuspended = n
        /\ k'.pendedTicks = k.pendedTicks /\ k'.tick = k.tick
        /\ k'.priority = k.priority /\ k'.base = k.base
        /\ k'.swi = k.swi /\ k'.yieldPending = k.yieldPending
    BY <2>1, <2>3, Facts, NestBecomes
  <2>5. /\ Sound(k') /\ Timely(k') /\ Rd(k') = Rd(k) /\ Waiting(k') = Waiting(k)
        /\ k'.suspended = k.suspended /\ Gn(k') = Gn(k) /\ Put(k') = Put(k)
        /\ Listed(k') = Listed(k)
    BY <2>4, Facts, Where, BecomeMeans DEF Put
  <2>6. /\ pc' \in [All -> PCs] /\ pc'[t] = "held" /\ \A x \in All \ {t} : pc'[x] = pc[x]
        /\ Live' = Live
    BY <1>1, <1>2, <2>1, Facts, GotoFacts DEF PCs
  <2>7. Delayed' /\ left' \in [Tasks -> 0 .. MaxDelay]
    BY <1>3, <2>4, Facts, DelayedKept
  <2>8. Typed'
    BY <1>1, <2>6, <2>7, Facts DEF Typed
  <2>9. Kernels'
    BY <2>1, <2>4, <2>5, Facts DEF Kernels
  <2>10. Everybody'
    BY <1>1, <1>2, <2>5, <2>6, Facts DEF Everybody, Live
  <2>11. Phases'
    BY <1>1, <1>2, <2>1, <2>4, <2>6, Facts DEF Phases, Holding
  <2>12. Running'
    BY <1>1, <1>2, <2>1, <2>4, <2>5, Facts DEF Running, NoneButMade, NoneAbove
  <2>13. Stopping'
    BY <1>1, <2>4, <2>5, <2>6, Facts DEF Stopping, Live
  <2>14. Notified'
    BY <1>1, <1>2, <2>5, <2>6, Facts DEF Notified, Live
  <2>15. QED
    BY <2>7, <2>8, <2>9, <2>10, <2>11, <2>12, <2>13, <2>14 DEF IInv
<1>6. QED
  BY <1>4, <1>5

(* A count that has not wrapped is its own remainder, and so with one or   *)
(* two rounds added.                                                       *)
LEMMA LittleRest ==
  ASSUME NEW x \in 0 .. Ticks - 1
  PROVE  x % Ticks = x /\ (x + Ticks) % Ticks = x /\ (x + Ticks + Ticks) % Ticks = x
<1>1. Ticks \in Nat \ {0}
  BY KernelAssumption
<1>2. x % Ticks = x
  BY <1>1
<1>3. (x + Ticks) % Ticks = x
  BY <1>1
<1>4. (x + Ticks + Ticks) % Ticks = x
  BY <1>1
<1>5. QED
  BY <1>2, <1>3, <1>4

(* What is left of a sum of counts when whole rounds are taken away.       *)
LEMMA Remainder ==
  ASSUME NEW z \in 0 .. 3 * Ticks - 1
  PROVE  /\ z % Ticks \in 0 .. Ticks - 1
         /\ z = z % Ticks \/ z = (z % Ticks) + Ticks \/ z = (z % Ticks) + Ticks + Ticks
<1>1. Ticks \in Nat \ {0}
  BY KernelAssumption
<1>2. CASE z < Ticks
  <2>1. PICK x \in 0 .. Ticks - 1 : x = z
    BY <1>1, <1>2
  <2>2. QED
    BY <2>1, LittleRest
<1>3. CASE z >= Ticks /\ z < Ticks + Ticks
  <2>1. z - Ticks \in 0 .. Ticks - 1 /\ z = (z - Ticks) + Ticks
    BY <1>1, <1>3
  <2>2. PICK x \in 0 .. Ticks - 1 : z = x + Ticks
    BY <2>1
  <2>3. QED
    BY <2>2, LittleRest
<1>4. CASE z >= Ticks + Ticks
  <2>1. z - Ticks - Ticks \in 0 .. Ticks - 1 /\ z = (z - Ticks - Ticks) + Ticks + Ticks
    BY <1>1, <1>4
  <2>2. PICK x \in 0 .. Ticks - 1 : z = x + Ticks + Ticks
    BY <2>1
  <2>3. QED
    BY <2>2, LittleRest
<1>5. QED
  BY <1>1, <1>2, <1>3, <1>4

(* xTaskDelayUntil delays only when the time to wake, whichever way both   *)
(* counts have wrapped, is still to come: at least one tick and less than a*)
(* round away.                                                             *)
LEMMA ShouldDelayRight ==
  ASSUME NEW previous \in 0 .. Ticks - 1, NEW increment \in 1 .. MaxDelay,
         NEW tick \in 0 .. Ticks - 1, ShouldDelay(previous, increment, tick)
  PROVE  (previous + increment + Ticks - tick) % Ticks \in 1 .. Ticks - 1
<1> DEFINE wake == (previous + increment) % Ticks
           z == previous + increment + Ticks - tick
<1>1. Ticks \in Nat \ {0} /\ MaxDelay = Ticks - 1
  BY KernelAssumption DEF MaxDelay
<1>2. PICK s \in 0 .. 3 * Ticks - 1 : s = previous + increment
  BY <1>1
<1>3. /\ s % Ticks \in 0 .. Ticks - 1
      /\ s = s % Ticks \/ s = (s % Ticks) + Ticks \/ s = (s % Ticks) + Ticks + Ticks
  BY Remainder
<1>4. PICK w \in 0 .. Ticks - 1 : /\ w = wake
                                  /\ s = w \/ s = w + Ticks \/ s = w + Ticks + Ticks
  BY <1>2, <1>3
<1>5. PICK y \in 0 .. 3 * Ticks - 1 : y = z
  BY <1>1
<1>6. /\ y % Ticks \in 0 .. Ticks - 1
      /\ y = y % Ticks \/ y = (y % Ticks) + Ticks \/ y = (y % Ticks) + Ticks + Ticks
  BY Remainder
<1>7. PICK r \in 0 .. Ticks - 1 : /\ r = z % Ticks
                                  /\ y = r \/ y = r + Ticks \/ y = r + Ticks + Ticks
  BY <1>5, <1>6
<1>8. IF tick < previous THEN w < previous /\ w > tick ELSE w < previous \/ w > tick
  BY <1>4 DEF ShouldDelay
<1>9. y = s + Ticks - tick /\ s = previous + increment
  BY <1>2, <1>5
<1> HIDE DEF wake, z
<1>10. r # 0
  BY <1>1, <1>4, <1>7, <1>8, <1>9
<1>11. QED
  BY <1>1, <1>7, <1>10 DEF z

(* The running task delays itself and the scheduler goes on: the invariant *)
(* is kept.                                                                *)
LEMMA DelayStep ==
  ASSUME IInv, NEW t \in Tasks, k.current = t, ~k.swi, pc[t] = "held",
         k.schedulerSuspended = 1, NEW n \in 1 .. Ticks - 1,
         DoBlock(ResumeAll(AddCurrentToDelayed(k, n, FALSE)), t, n),
         Goto(t, IF k'.yieldPending THEN "app" ELSE "yield"),
         UNCHANGED <<pended, made, handle, notifyState, notifyValue, stopped>>
  PROVE  IInv'
<1>1. /\ t \in Rd(k) /\ t \in Live /\ t \notin stopped
  BY HoldFacts DEF Holding
<1>2. handle = Idle
  BY Facts DEF Phases
<1>3. /\ k' = ResumeAll(AddCurrentToDelayed(k, n, FALSE))
      /\ left' = [u \in Tasks |-> IF u \notin Timed(k') THEN 0
                                  ELSE IF u = t THEN n - k.pendedTicks ELSE left[u]]
  BY DEF DoBlock
<1>4. t \notin Put(k)
  BY Facts DEF Stopping
<1> DEFINE u == ResumeAll(AddCurrentToDelayed(k, n, FALSE))
<1>5. /\ Sound(u) /\ Timely(u)
      /\ Rd(u) \cup Waiting(u) = (Rd(k) \cup Waiting(k) \cup Put(k)) \cup {t}
      /\ Rd(k) \ {t} \subseteq Rd(u) /\ Put(k) \subseteq Rd(u)
      /\ Waiting(u) \subseteq (Waiting(k) \ Put(k)) \cup {t}
      /\ u.suspended = k.suspended \ (Put(k) \cup {t})
      /\ Gn(u) = Gn(k) \ (Put(k) \cup {t})
      /\ Ev(u, Pending) = {}
      /\ t \in Waiting(u) => Dist(u, t) = n - k.pendedTicks
      /\ \A x \in Waiting(u) : x # t => Dist(u, x) = Dist(k, x) - k.pendedTicks
      /\ u.current = t /\ u.schedulerSuspended = 0 /\ u.pendedTicks = 0
      /\ u.priority = k.priority /\ u.base = k.base
      /\ u.swi = (k.swi \/ u.yieldPending)
  <2>1. /\ Sound(k) /\ Timely(k) /\ k.schedulerSuspended = 1 /\ k.current = t
        /\ k.current \notin Ev(k, Pending)
    BY <1>4, Facts DEF Put
  <2> HIDE DEF u
  <2>2. u = ResumeAll(AddCurrentToDelayed(k, n, FALSE))
    BY DEF u
  <2>4. /\ Sound(u) /\ Timely(u)
        /\ Rd(u) \cup Waiting(u) = (Rd(k) \cup Waiting(k) \cup Ev(k, Pending)) \cup {k.current}
        /\ Rd(k) \ {k.current} \subseteq Rd(u) /\ Ev(k, Pending) \subseteq Rd(u)
        /\ Waiting(u) \subseteq (Waiting(k) \ Ev(k, Pending)) \cup {k.current}
        /\ u.suspended = k.suspended \ (Ev(k, Pending) \cup {k.current})
        /\ Gn(u) = Gn(k) \ (Ev(k, Pending) \cup {k.current})
        /\ Ev(u, Pending) = {}
        /\ k.current \in Waiting(u) => Dist(u, k.current) = n - k.pendedTicks
        /\ \A x \in Waiting(u) : x # k.current => Dist(u, x) = Dist(k, x) - k.pendedTicks
        /\ u.current = k.current /\ u.schedulerSuspended = 0 /\ u.pendedTicks = 0
        /\ u.priority = k.priority /\ u.base = k.base
        /\ u.swi = (k.swi \/ u.yieldPending)
    BY <2>1, <2>2, DelayBecomes
  <2>5. k.current = t /\ Ev(k, Pending) = Put(k)
    BY <2>1 DEF Put
  <2>6. QED
    BY <2>4, <2>5
<1>6. k' = u
  BY <1>3
<1> HIDE DEF u
<1>7. /\ Sound(k') /\ Timely(k') /\ Put(k') = {} /\ k'.pendedTicks = 0
      /\ k'.current = t /\ k'.schedulerSuspended = 0 /\ k'.base = k'.priority
      /\ (~k'.swi => ~k'.yieldPending)
  BY <1>5, <1>6, Facts DEF Kernels, Put
<1>8. /\ pc' \in [All -> PCs] /\ pc'[t] \in {"app", "yield"}
      /\ (~k'.yieldPending => pc'[t] = "yield")
      /\ \A x \in All \ {t} : pc'[x] = pc[x]
      /\ Live' = Live
  <2>1. PICK p \in {"app", "yield"} :
          Goto(t, p) /\ p = IF k'.yieldPending THEN "app" ELSE "yield"
    OBVIOUS
  <2>2. QED
    BY <1>1, <2>1, Facts, GotoFacts DEF PCs
<1>9. Put(k) \subseteq Live /\ stopped \subseteq k.suspended /\ stopped \cap Put(k) = {}
  BY Facts DEF Stopping
<1>10. Put(k) \cap Gn(k) = {} /\ Put(k) \subseteq Listed(k) /\ t \notin Gn(k)
  BY <1>1, <1>2, <1>9, Facts DEF Everybody, Live
<1>11. Gn(k') = Gn(k) /\ Idle \in Rd(k')
  BY <1>5, <1>6, <1>10, Facts, ZenonT(30)
<1>12. Waiting(k') \subseteq Tasks /\ Waiting(k') = Timed(k')
  BY <1>7, <1>11, WaitersAreTasks
<1>13. Listed(k') = Listed(k)
  <2>1. Listed(k') = (Rd(k') \cup Waiting(k')) \cup k'.suspended \cup Gn(k')
    BY <1>7, <1>11, WaitersAreTasks
  <2>2. Listed(k) = (Rd(k) \cup Waiting(k)) \cup k.suspended \cup Gn(k)
    BY Where
  <2>3. k'.suspended = k.suspended \ (Put(k) \cup {t})
    BY <1>5, <1>6
  <2>4. Rd(k') \cup Waiting(k') = (Rd(k) \cup Waiting(k) \cup Put(k)) \cup {t}
    BY <1>5, <1>6
  <2>5. QED
    BY <1>1, <1>10, <1>11, <2>1, <2>2, <2>3, <2>4
<1>14. left \in [Tasks -> 0 .. MaxDelay] /\ Ticks \in Nat \ {0} /\ MaxDelay = Ticks - 1
  BY Facts, KernelAssumption DEF Typed, MaxDelay
<1>15. \A x \in Waiting(k') : left'[x] = Dist(k', x) /\ left'[x] \in 1 .. MaxDelay
  <2>1. TAKE x \in Waiting(k')
  <2>2. Dist(k', x) \in 1 .. MaxDelay
    BY <1>7, <1>14, DistRight
  <2>3. CASE x = t
    BY <1>3, <1>5, <1>6, <1>12, <2>2, <2>3
  <2>4. CASE x # t
    <3>1. x \in Waiting(k) /\ left'[x] = left[x]
      <4>1. x \in Waiting(k)
        BY <1>5, <1>6, <2>4
      <4>2. x \in Tasks /\ x \in Timed(k')
        BY <1>12
      <4>3. QED
        BY <1>3, <2>4, <4>1, <4>2
    <3>2. Dist(k', x) = Dist(k, x) - k.pendedTicks
      BY <1>5, <1>6, <2>4
    <3>3. Dist(k, x) \in Nat /\ k.pendedTicks \in Nat
      BY <3>1, Facts, DistRight
    <3>4. left[x] = IF Dist(k, x) > k.pendedTicks THEN Dist(k, x) - k.pendedTicks ELSE 0
      BY <3>1, Facts DEF Delayed
    <3>5. QED
      BY <1>14, <2>2, <3>1, <3>2, <3>3, <3>4
  <2>5. QED
    BY <2>3, <2>4
<1>16. Delayed'
  <2>1. ASSUME NEW x \in Waiting(k')
        PROVE  left'[x] = IF Dist(k', x) > k'.pendedTicks
                          THEN Dist(k', x) - k'.pendedTicks ELSE 0
    <3>1. left'[x] = Dist(k', x) /\ left'[x] \in 1 .. MaxDelay /\ k'.pendedTicks = 0
      BY <1>7, <1>15
    <3>2. QED
      BY <1>14, <3>1
  <2>2. QED
    BY <2>1 DEF Delayed
<1>17. left' \in [Tasks -> 0 .. MaxDelay]
  <2>1. left' = [x \in Tasks |-> left'[x]]
    BY <1>3
  <2>2. \A x \in Tasks : left'[x] \in 0 .. MaxDelay
    <3>1. TAKE x \in Tasks
    <3>2. CASE x \in Timed(k')
      BY <1>12, <1>15, <3>2
    <3>3. CASE x \notin Timed(k')
      BY <1>3, <1>14, <3>3
    <3>4. QED
      BY <3>2, <3>3
  <2>3. QED
    BY <2>1, <2>2
<1>18. Typed'
  BY <1>8, <1>17, Facts DEF Typed
<1>19. Kernels'
  BY <1>7, Facts DEF Kernels
<1>20. Everybody'
  BY <1>1, <1>8, <1>11, <1>13, Facts DEF Everybody, Live
<1>21. Phases'
  BY <1>2, <1>7, <1>8, Facts DEF Phases, Holding
<1>22. Running'
  BY <1>7, <1>8 DEF Running, NoneButMade, NoneAbove, Leaving
<1>23. Stopping'
  BY <1>1, <1>5, <1>6, <1>7, <1>8, <1>9, Facts DEF Stopping, Live
<1>24. Notified'
  BY <1>1, <1>5, <1>6, <1>8, Facts DEF Notified, Live
<1>25. QED
  BY <1>16, <1>18, <1>19, <1>20, <1>21, <1>22, <1>23, <1>24 DEF IInv

(* vTaskDelay keeps the invariant.                                         *)
LEMMA DelayKeeps ==
  ASSUME IInv, NEW t \in Tasks, NEW n \in 1 .. MaxDelay, Delay(t, n)
  PROVE  IInv'
<1>1. n \in 1 .. Ticks - 1
  BY DEF MaxDelay
<1>2. QED
  BY <1>1, DelayStep DEF Delay, At

(* xTaskDelayUntil keeps the invariant.                                    *)
LEMMA DelayUntilKeeps ==
  ASSUME IInv, NEW t \in Tasks, NEW n \in 1 .. MaxDelay, NEW previous \in 0 .. Ticks - 1,
         DelayUntil(t, previous, n)
  PROVE  IInv'
<1> DEFINE ticks == (previous + n + Ticks - k.tick) % Ticks
           next == IF k'.yieldPending THEN "app" ELSE "yield"
<1>1. /\ k.current = t /\ ~k.swi /\ pc[t] = "held" /\ k.schedulerSuspended = 1
      /\ IF ShouldDelay(previous, n, k.tick)
         THEN DoBlock(ResumeAll(AddCurrentToDelayed(k, ticks, FALSE)), t, ticks)
         ELSE Do(ResumeAll(k))
      /\ Goto(t, next)
      /\ UNCHANGED <<pended, made, handle, notifyState, notifyValue, stopped>>
  BY DEF DelayUntil, At
<1>2. k.tick \in 0 .. Ticks - 1 /\ handle = Idle /\ next \in {"app", "yield"}
  BY <1>1, Facts, KernelTypes DEF Phases
<1>3. CASE ShouldDelay(previous, n, k.tick)
  <2>1. ticks \in 1 .. Ticks - 1
    BY <1>2, <1>3, ShouldDelayRight
  <2> HIDE DEF ticks
  <2>2. QED
    BY <1>1, <1>3, <2>1, DelayStep
<1>4. CASE ~ShouldDelay(previous, n, k.tick)
  <2>1. k' = ResumeAll(k) /\ Do(k')
    BY <1>1, <1>4 DEF Do
  <2> HIDE DEF next
  <2>2. QED
    BY <1>1, <1>2, <2>1, ResumeStep DEF Holding
<1>5. QED
  BY <1>3, <1>4


(* A kernel that does not change is what it was.                           *)
LEMMA BecomeItself ==
  ASSUME IInv
  PROVE  Become(k, k, Rd(k), Waiting(k), k.suspended, Gn(k), Put(k))
BY Facts DEF Become, Put

(* What the operations that neither switch nor resume have in common: the  *)
(* running task, the level of suspension, the ticks put off and the calls  *)
(* in progress that hold the scheduler stay.                               *)
Steady ==
  /\ k'.current = k.current /\ k'.schedulerSuspended = k.schedulerSuspended
  /\ k'.pendedTicks = k.pendedTicks /\ k'.base = k'.priority
  /\ Do(k') \/ (k' = k /\ left' = left)
  /\ pended' = pended /\ handle' = handle /\ (handle # Idle => handle \in Live')
  /\ made' \in [Tasks -> All]
  /\ pc' \in [All -> PCs]
  /\ \A x \in All : pc[x] \in Holding \/ pc'[x] \in Holding => pc'[x] = pc[x]
  /\ notifyState' \in [Tasks -> {"none", "waiting", "received"}]
  /\ notifyValue' \in [Tasks -> 0 .. MaxNotify] /\ stopped' \subseteq Tasks

(* The parts of the invariant that such an operation keeps whatever it does*)
(* to the lists.                                                           *)
LEMMA StepParts ==
  ASSUME IInv, NEW R, NEW W, NEW S, NEW G, NEW P, Become(k', k, R, W, S, G, P),
         W \subseteq Waiting(k), Idle \in R, k.schedulerSuspended = 0 => P = {}, Steady
  PROVE  /\ Typed' /\ Kernels' /\ Phases' /\ Delayed'
         /\ Rd(k') = R /\ Waiting(k') = W /\ k'.suspended = S /\ Gn(k') = G /\ Put(k') = P
         /\ Listed(k') = R \cup W \cup S \cup G
         /\ W \subseteq Tasks /\ R \subseteq All /\ S \subseteq All
         /\ k'.priority \in [All -> Priority]
<1> USE DEF Steady
<1>1. /\ Sound(k') /\ Timely(k') /\ Rd(k') = R /\ Waiting(k') = W
      /\ k'.suspended = S /\ Gn(k') = G /\ Put(k') = P
      /\ Listed(k') = R \cup W \cup S \cup G
      /\ W \subseteq Tasks /\ R \subseteq All /\ S \subseteq All
  BY BecomeMeans
<1>2. k'.priority \in [All -> Priority]
  BY <1>1, KernelTypes DEF Sound
<1>3. Delayed' /\ left' \in [Tasks -> 0 .. MaxDelay]
  <2>1. CASE Do(k')
    BY <2>1, Facts, DelayedKept
  <2>2. CASE k' = k /\ left' = left
    BY <2>2, Facts DEF Delayed, Typed
  <2>3. QED
    BY <2>1, <2>2
<1>4. Typed'
  BY <1>3, Facts DEF Typed
<1>5. Kernels'
  BY <1>1, Facts DEF Kernels
<1>6. Phases'
  BY Facts DEF Phases, Holding
<1>7. QED
  BY <1>1, <1>2, <1>3, <1>4, <1>5, <1>6

(* ... and when it does nothing to the lists.                              *)
LEMMA SameParts ==
  ASSUME IInv, Steady, Become(k', k, Rd(k), Waiting(k), k.suspended, Gn(k), Put(k))
  PROVE  /\ Typed' /\ Kernels' /\ Phases' /\ Delayed'
         /\ Rd(k') = Rd(k) /\ Waiting(k') = Waiting(k) /\ k'.suspended = k.suspended
         /\ Gn(k') = Gn(k) /\ Put(k') = Put(k) /\ Listed(k') = Listed(k)
         /\ k'.priority \in [All -> Priority]
<1>1. Idle \in Rd(k) /\ (k.schedulerSuspended = 0 => Put(k) = {})
  BY Facts DEF Kernels
<1>2. PICK R, W, S, G, P : /\ R = Rd(k) /\ W = Waiting(k) /\ S = k.suspended
                           /\ G = Gn(k) /\ P = Put(k)
  OBVIOUS
<1>3. Become(k', k, R, W, S, G, P) /\ W \subseteq Waiting(k) /\ Idle \in R
      /\ (k.schedulerSuspended = 0 => P = {})
  BY <1>1, <1>2
<1>4. /\ Typed' /\ Kernels' /\ Phases' /\ Delayed'
      /\ Rd(k') = R /\ Waiting(k') = W /\ k'.suspended = S /\ Gn(k') = G /\ Put(k') = P
      /\ Listed(k') = R \cup W \cup S \cup G
      /\ k'.priority \in [All -> Priority]
  BY <1>3, StepParts
<1>5. Listed(k) = R \cup W \cup S \cup G
  BY <1>2, Where
<1>6. QED
  BY <1>2, <1>4, <1>5

(* taskYIELD keeps the invariant.                                          *)
LEMMA CallYieldKeeps ==
  ASSUME IInv, NEW t \in Tasks, CallYield(t)
  PROVE  IInv'
<1>1. /\ k.current = t /\ ~k.swi /\ pc[t] \in {"app", "yield"}
      /\ Do(Yield(k)) /\ Goto(t, "app")
      /\ UNCHANGED <<pended, made, handle, notifyState, notifyValue, stopped>>
  BY DEF CallYield, At
<1>2. k' = YieldIf(k, TRUE) /\ Do(k')
  BY <1>1 DEF Do, YieldIf
<1>3. /\ Become(k', k, Rd(k), Waiting(k), k.suspended, Gn(k), Put(k))
      /\ Stays(k', k) /\ k'.swi = (k.swi \/ TRUE)
  BY <1>2, BecomeItself, ThenYield
<1>4. t \in All /\ pc[t] \notin Holding
  BY <1>1, Facts DEF Holding
<1>5. t \in Live /\ k.schedulerSuspended = 0 /\ Put(k) = {} /\ handle = Idle
  BY <1>1, <1>4, Facts DEF Phases, Live, Kernels
<1>6. /\ pc' \in [All -> PCs] /\ pc'[t] = "app" /\ \A x \in All \ {t} : pc'[x] = pc[x]
      /\ Live' = Live
  BY <1>1, <1>5, Facts, GotoFacts DEF PCs
<1>7. \A x \in All : pc[x] \in Holding \/ pc'[x] \in Holding => pc'[x] = pc[x]
  BY <1>4, <1>6 DEF Holding
<1>8. /\ Typed' /\ Kernels' /\ Phases' /\ Delayed'
      /\ Rd(k') = Rd(k) /\ Waiting(k') = Waiting(k) /\ k'.suspended = k.suspended
      /\ Gn(k') = Gn(k) /\ Put(k') = Put(k) /\ Listed(k') = Listed(k)
  <2>1. Steady
    BY <1>1, <1>2, <1>3, <1>5, <1>6, <1>7, Facts DEF Steady, Stays, Kernels, Typed
  <2>2. QED
    BY <1>3, <2>1, SameParts
<1>9. Everybody'
  BY <1>1, <1>5, <1>6, <1>8, Facts DEF Everybody, Live
<1>10. Running'
  BY <1>3, <1>5 DEF Running, NoneButMade, NoneAbove, Stays
<1>11. Stopping'
  BY <1>1, <1>3, <1>5, <1>6, <1>8, Facts DEF Stopping, Stays, Live
<1>12. Notified'
  BY <1>1, <1>5, <1>6, <1>8, Facts DEF Notified, Live
<1>13. QED
  BY <1>8, <1>9, <1>10, <1>11, <1>12 DEF IInv

(* vTaskSuspend of a task, itself or another, keeps the invariant.         *)
LEMMA SuspendKeeps ==
  ASSUME IInv, NEW t \in Tasks, NEW u \in Tasks, Suspend(t, u)
  PROVE  IInv'
<1> DEFINE next == IF u = t THEN "suspendSelf" ELSE "suspend"
<1>1. /\ k.current = t /\ ~k.swi /\ pc[t] = "app" /\ u \in Live
      /\ Do([Unwait(Unlink(k, {u}), {u}) EXCEPT !.suspended = @ \cup {u}])
      /\ notifyState' = [notifyState EXCEPT ![u] = IF @ = "waiting" THEN "none" ELSE @]
      /\ stopped' = stopped \cup {u}
      /\ Goto(t, next)
      /\ UNCHANGED <<pended, made, handle, notifyValue>>
  BY DEF Suspend, At
<1>2. /\ k.schedulerSuspended = 0 /\ k.pendedTicks = 0 /\ Put(k) = {} /\ handle = Idle
      /\ t \in Rd(k) /\ NoneAbove(k) /\ t \in Live /\ t \notin stopped
      /\ \A x \in All : pc[x] \notin Holding
  BY <1>1, AppFacts DEF Holding, Leaving
<1>3. /\ k' = [Unwait(Unlink(k, {u}), {u}) EXCEPT !.suspended = @ \cup {u}] /\ Do(k')
      /\ u \in All
  BY <1>1, Facts DEF Do
<1>4. /\ Become(k', k, Rd(k) \ {u}, Waiting(k) \ {u}, k.suspended \cup {u}, Gn(k) \ {u},
                Put(k) \ {u})
      /\ Stays(k', k) /\ k'.swi = k.swi /\ k'.yieldPending = k.yieldPending
  BY <1>3, Facts, SuspendBecomes DEF Put
<1>5. next \in {"suspendSelf", "suspend"} /\ (u = t => next = "suspendSelf")
  OBVIOUS
<1> HIDE DEF next
<1>6. /\ pc' \in [All -> PCs] /\ pc'[t] = next /\ \A x \in All \ {t} : pc'[x] = pc[x]
      /\ Live' = Live
  BY <1>1, <1>2, <1>5, Facts, GotoFacts DEF PCs
<1>7. \A x \in All : pc[x] \in Holding \/ pc'[x] \in Holding => pc'[x] = pc[x]
  BY <1>2, <1>5, <1>6 DEF Holding
<1>8. u \notin Gn(k) /\ u \in Listed(k) /\ Idle \in Rd(k) \ {u}
  BY <1>1, <1>2, Facts DEF Everybody, Live
<1>9. /\ notifyState' \in [Tasks -> {"none", "waiting", "received"}]
      /\ notifyState'[u] # "waiting" /\ \A x \in Tasks \ {u} : notifyState'[x] = notifyState[x]
  BY <1>1, Facts DEF Typed
<1>10. /\ Typed' /\ Kernels' /\ Phases' /\ Delayed'
       /\ Rd(k') = Rd(k) \ {u} /\ Waiting(k') = Waiting(k) \ {u}
       /\ k'.suspended = k.suspended \cup {u}
       /\ Gn(k') = Gn(k) \ {u} /\ Put(k') = Put(k) \ {u}
       /\ Listed(k') = (Rd(k) \ {u}) \cup (Waiting(k) \ {u}) \cup (k.suspended \cup {u})
                         \cup (Gn(k) \ {u})
  <2>1. Steady
    BY <1>1, <1>2, <1>3, <1>4, <1>6, <1>7, <1>9, Facts DEF Steady, Stays, Kernels, Typed
  <2>2. Put(k) \ {u} = {} /\ Waiting(k) \ {u} \subseteq Waiting(k)
    BY <1>2
  <2>3. QED
    BY <1>4, <1>8, <2>1, <2>2, StepParts
<1>11. Listed(k') = Listed(k) /\ Gn(k') = Gn(k)
  BY <1>8, <1>10, Where
<1>12. Everybody'
  BY <1>1, <1>2, <1>5, <1>6, <1>8, <1>10, <1>11, Facts DEF Everybody, Live
<1>13. Running'
  BY <1>1, <1>2, <1>4, <1>5, <1>6, <1>10, Facts DEF Running, NoneButMade, Stays, NoneAbove, Leaving
<1>14. Stopping'
  BY <1>1, <1>2, <1>4, <1>6, <1>9, <1>10, Facts DEF Stopping, Stays, Live
<1>15. Notified'
  BY <1>1, <1>2, <1>5, <1>6, <1>9, <1>10, Facts DEF Notified, Live
<1>16. QED
  BY <1>10, <1>12, <1>13, <1>14, <1>15 DEF IInv

(* The rest of vTaskSuspend of the task itself, where it lets go of the    *)
(* processor, keeps the invariant.                                         *)
LEMMA SuspendEndKeeps ==
  ASSUME IInv, NEW t \in Tasks, SuspendEnd(t)
  PROVE  IInv'
<1> DEFINE self == pc[t] = "suspendSelf"
           v == ResetNextUnblock(k)
<1>1. /\ k.current = t /\ ~k.swi /\ pc[t] \in {"suspend", "suspendSelf"}
      /\ Do(YieldIf(v, self)) /\ Goto(t, "app")
      /\ UNCHANGED <<pended, made, handle, notifyState, notifyValue, stopped>>
  BY DEF SuspendEnd, At
<1>2. k' = YieldIf(v, self) /\ Do(k') /\ self \in BOOLEAN
  BY <1>1 DEF Do
<1>3. /\ Become(v, k, Rd(k), Waiting(k), k.suspended, Gn(k), Put(k))
      /\ Stays(v, k) /\ v.swi = k.swi
  BY BecomeItself, ThenReset
<1> HIDE DEF v
<1>4. Become(k', k, Rd(k), Waiting(k), k.suspended, Gn(k), Put(k)) /\ Stays(k', v)
      /\ k'.swi = (v.swi \/ self)
  <2> HIDE DEF self
  <2>1. QED
    BY <1>2, <1>3, ThenYield
<1>5. Stays(k', k) /\ (self => k'.swi)
  BY <1>3, <1>4 DEF Stays
<1>6. t \in All /\ pc[t] \notin Holding
  BY <1>1, Facts DEF Holding
<1>7. t \in Live /\ k.schedulerSuspended = 0 /\ Put(k) = {} /\ handle = Idle
  BY <1>1, <1>6, Facts DEF Phases, Live, Kernels
<1>8. /\ pc' \in [All -> PCs] /\ pc'[t] = "app" /\ \A x \in All \ {t} : pc'[x] = pc[x]
      /\ Live' = Live
  BY <1>1, <1>7, Facts, GotoFacts DEF PCs
<1>9. \A x \in All : pc[x] \in Holding \/ pc'[x] \in Holding => pc'[x] = pc[x]
  BY <1>6, <1>8 DEF Holding
<1>10. /\ Typed' /\ Kernels' /\ Phases' /\ Delayed'
       /\ Rd(k') = Rd(k) /\ Waiting(k') = Waiting(k) /\ k'.suspended = k.suspended
       /\ Gn(k') = Gn(k) /\ Put(k') = Put(k) /\ Listed(k') = Listed(k)
  <2>1. Steady
    BY <1>1, <1>2, <1>5, <1>7, <1>8, <1>9, Facts DEF Steady, Stays, Kernels, Typed
  <2>2. QED
    BY <1>4, <2>1, SameParts
<1>11. Everybody'
  BY <1>1, <1>7, <1>8, <1>10, Facts DEF Everybody, Live
<1>12. Running'
  BY <1>1, <1>5, <1>7, <1>8, <1>10, Facts DEF Running, NoneButMade, Stays, NoneAbove, Leaving
<1>13. Stopping'
  BY <1>1, <1>5, <1>7, <1>8, <1>10, Facts DEF Stopping, Stays, Live
<1>14. Notified'
  BY <1>1, <1>7, <1>8, <1>10, Facts DEF Notified, Live
<1>15. QED
  BY <1>10, <1>11, <1>12, <1>13, <1>14 DEF IInv


(* With no object to wait for the one list of event items is               *)
(* xPendingReadyList, and prvTaskIsTaskSuspended sees who is suspended and *)
(* not put off.                                                            *)
LEMMA NobodyWaits ==
  ASSUME IInv, NEW u \in All
  PROVE  /\ Events = {Pending} /\ DOMAIN k.events = {Pending}
         /\ (u \notin Put(k) => \A l \in Events : u \notin Ev(k, l))
         /\ (IsSuspended(u) <=> u \in k.suspended /\ u \notin Put(k))
<1>1. Events = {Pending}
  BY TasksAssumption DEF Events
<1>2. DOMAIN k.events = {Pending}
  BY Facts, TasksAssumption DEF KernelState
<1>3. QED
  BY <1>1, <1>2 DEF IsSuspended, Put, Ev

(* When a task that is not above the running one becomes ready, nobody is  *)
(* above the running one still.                                            *)
LEMMA YieldToHigher ==
  ASSUME IInv, NEW u \in All, NEW R, R \subseteq Rd(k) \cup {u},
         Rd(k') = R, k.current \in R, k'.current = k.current, k'.priority = k.priority,
         NoneAbove(k), ~ (k.priority[u] > k.priority[k.current])
  PROVE  NoneAbove(k')
<1>1. k.priority[u] \in Int /\ k.priority[k.current] \in Int
  BY Facts
<1>2. k.priority[u] <= k.priority[k.current]
  BY <1>1
<1>3. QED
  BY <1>2 DEF NoneAbove

(* ... nor is anybody but the one that it has created.                     *)
LEMMA YieldToHigherYet ==
  ASSUME IInv, NEW u \in All, NEW R, R \subseteq Rd(k) \cup {u},
         Rd(k') = R, k.current \in R, k'.current = k.current, k'.priority = k.priority,
         UNCHANGED <<pc, made>>, NoneButMade, ~ (k.priority[u] > k.priority[k.current])
  PROVE  NoneButMade'
<1>1. k.priority[u] \in Int /\ k.priority[k.current] \in Int
  BY Facts
<1>2. k.priority[u] <= k.priority[k.current]
  BY <1>1
<1>3. QED
  BY <1>2 DEF NoneButMade

(* vTaskResume keeps the invariant when it is called for a task that was   *)
(* stopped.                                                                *)
LEMMA ResumeKeeps ==
  ASSUME IInv, ~Stray, NEW t \in Tasks, NEW u \in Tasks, Resume(t, u)
  PROVE  IInv'
<1> DEFINE v == AddToReady(Unlink(k, {u}), <<u>>)
           higher == k.priority[u] >= k.priority[t]
<1>1. /\ k.current = t /\ ~k.swi /\ pc[t] = "app" /\ u \in Live /\ u # t /\ u \in stopped
      /\ IF IsSuspended(u) THEN Do(YieldIf(v, higher)) ELSE Do(k)
      /\ stopped' = stopped \ {u}
      /\ UNCHANGED <<pended, made, pc, handle, notifyState, notifyValue>>
  BY DEF Resume, At
<1>2. /\ k.schedulerSuspended = 0 /\ k.pendedTicks = 0 /\ Put(k) = {} /\ handle = Idle
      /\ t \in Rd(k) /\ NoneAbove(k) /\ t \in Live /\ t \notin stopped
      /\ \A x \in All : pc[x] \notin Holding
  BY <1>1, AppFacts DEF Holding, Leaving
<1>3. u \in All /\ u \in k.suspended /\ u \notin Gn(k) /\ IsSuspended(u)
  BY <1>1, <1>2, Facts, Where, NobodyWaits DEF Stopping
<1>4. k' = YieldIf(v, higher) /\ Do(k') /\ higher \in BOOLEAN
  BY <1>1, <1>3 DEF Do
<1>5. /\ Become(v, k, Rd(k) \cup {u}, Waiting(k) \ {u}, k.suspended \ {u},
                  Gn(k) \ {u}, Put(k))
      /\ Stays(v, k) /\ v.swi = k.swi
  BY <1>3, Facts, ReadyBecomes DEF Put
<1> HIDE DEF v, higher
<1>6. /\ Become(k', k, Rd(k) \cup {u}, Waiting(k) \ {u}, k.suspended \ {u},
                  Gn(k) \ {u}, Put(k))
      /\ Stays(k', v) /\ k'.swi = (v.swi \/ higher)
  BY <1>4, <1>5, ThenYield
<1>7. Stays(k', k) /\ (higher => k'.swi)
  BY <1>5, <1>6 DEF Stays
<1>8. /\ Typed' /\ Kernels' /\ Phases' /\ Delayed'
      /\ Rd(k') = Rd(k) \cup {u} /\ Waiting(k') = Waiting(k) \ {u}
      /\ k'.suspended = k.suspended \ {u} /\ Gn(k') = Gn(k) \ {u} /\ Put(k') = Put(k)
      /\ Listed(k') = (Rd(k) \cup {u}) \cup (Waiting(k) \ {u}) \cup (k.suspended \ {u})
                        \cup (Gn(k) \ {u})
  <2>1. Steady
    BY <1>1, <1>2, <1>4, <1>7, Facts DEF Steady, Stays, Kernels, Typed
  <2>2. Waiting(k) \ {u} \subseteq Waiting(k) /\ Idle \in Rd(k) \cup {u}
    BY Facts
  <2>3. QED
    BY <1>2, <1>6, <2>1, <2>2, StepParts
<1>9. Listed(k') = Listed(k) /\ Gn(k') = Gn(k)
  BY <1>3, <1>8, Where
<1>10. Everybody'
  BY <1>1, <1>8, <1>9, Facts DEF Everybody
<1>11. Running'
  <2>1. CASE higher
    BY <1>2, <1>7, <2>1 DEF Running, NoneButMade, NoneAbove, Stays
  <2>2. CASE ~higher
    <3>1. ~ (k.priority[u] > k.priority[k.current])
      <4>1. k.priority[u] \in Int /\ k.priority[t] \in Int
        BY <1>1, <1>3, Facts
      <4>2. QED
        BY <1>1, <2>2, <4>1 DEF higher
    <3>2. NoneAbove(k')
      BY <1>1, <1>2, <1>3, <1>7, <1>8, <3>1, YieldToHigher DEF Stays
    <3>3. QED
      BY <1>1, <1>2, <1>7, <1>8, <3>2 DEF Running, NoneButMade, NoneAbove, Stays
  <2>3. QED
    BY <2>1, <2>2
<1>12. Stopping'
  BY <1>1, <1>2, <1>7, <1>8, Facts DEF Stopping, Stays, Live
<1>13. Notified'
  BY <1>1, <1>2, <1>8, Facts DEF Notified, Live
<1>14. QED
  BY <1>8, <1>10, <1>11, <1>12, <1>13 DEF IInv

(* xTaskNotify and xTaskNotifyGive keep the invariant: a receiver that     *)
(* waits is ready and its value is there.                                  *)
LEMMA NotifyKeeps ==
  ASSUME IInv, NEW t \in Tasks, NEW u \in Tasks, NEW n \in 0 .. MaxNotify, Notify(t, u, n)
  PROVE  IInv'
<1> DEFINE v == AddToReady(Unlink(k, {u}), <<u>>)
           higher == k.priority[u] > k.priority[t]
<1>1. /\ k.current = t /\ ~k.swi /\ pc[t] = "app" /\ u \in Live
      /\ notifyState' = [notifyState EXCEPT ![u] = "received"]
      /\ notifyValue' = [notifyValue EXCEPT ![u] = n]
      /\ IF notifyState[u] = "waiting" THEN Do(YieldIf(v, higher)) ELSE Do(k)
      /\ UNCHANGED <<pended, made, pc, handle, stopped>>
  BY DEF Notify, At
<1>2. /\ k.schedulerSuspended = 0 /\ k.pendedTicks = 0 /\ Put(k) = {} /\ handle = Idle
      /\ t \in Rd(k) /\ NoneAbove(k) /\ t \in Live /\ t \notin stopped
      /\ \A x \in All : pc[x] \notin Holding
  BY <1>1, AppFacts DEF Holding, Leaving
<1>3. u \in All /\ u \notin Gn(k) /\ u \in Listed(k)
  BY <1>1, <1>2, Facts DEF Everybody, Live
<1>4. /\ notifyState' \in [Tasks -> {"none", "waiting", "received"}]
      /\ notifyValue' \in [Tasks -> 0 .. MaxNotify] /\ notifyState'[u] = "received"
      /\ \A x \in Tasks \ {u} : /\ notifyState'[x] = notifyState[x]
                                /\ notifyValue'[x] = notifyValue[x]
  BY <1>1, Facts DEF Typed
<1>5. CASE notifyState[u] = "waiting"
  <2>1. k' = YieldIf(v, higher) /\ Do(k') /\ higher \in BOOLEAN
    BY <1>1, <1>5 DEF Do
  <2>2. /\ Become(v, k, Rd(k) \cup {u}, Waiting(k) \ {u}, k.suspended \ {u},
                  Gn(k) \ {u}, Put(k))
        /\ Stays(v, k) /\ v.swi = k.swi
    BY <1>3, Facts, ReadyBecomes DEF Put
  <2> HIDE DEF v, higher
  <2>3. /\ Become(k', k, Rd(k) \cup {u}, Waiting(k) \ {u}, k.suspended \ {u},
                  Gn(k) \ {u}, Put(k))
        /\ Stays(k', v) /\ k'.swi = (v.swi \/ higher)
    BY <2>1, <2>2, ThenYield
  <2>4. Stays(k', k) /\ (higher => k'.swi)
    BY <2>2, <2>3 DEF Stays
  <2>5. /\ Typed' /\ Kernels' /\ Phases' /\ Delayed'
        /\ Rd(k') = Rd(k) \cup {u} /\ Waiting(k') = Waiting(k) \ {u}
        /\ k'.suspended = k.suspended \ {u} /\ Gn(k') = Gn(k) \ {u} /\ Put(k') = Put(k)
        /\ Listed(k') = (Rd(k) \cup {u}) \cup (Waiting(k) \ {u}) \cup (k.suspended \ {u})
                          \cup (Gn(k) \ {u})
    <3>1. Steady
      BY <1>1, <1>2, <1>4, <2>1, <2>4, Facts DEF Steady, Stays, Kernels, Typed
    <3>2. Waiting(k) \ {u} \subseteq Waiting(k) /\ Idle \in Rd(k) \cup {u}
      BY Facts
    <3>3. QED
      BY <1>2, <2>3, <3>1, <3>2, StepParts
  <2>6. Listed(k') = Listed(k) /\ Gn(k') = Gn(k)
    BY <1>3, <2>5, Where
  <2>7. Everybody'
    BY <1>1, <2>5, <2>6, Facts DEF Everybody
  <2>8. Running'
    <3>1. CASE higher
      BY <1>2, <2>4, <3>1 DEF Running, NoneButMade, NoneAbove, Stays
    <3>2. CASE ~higher
      <4>1. ~ (k.priority[u] > k.priority[k.current])
        BY <1>1, <3>2 DEF higher
      <4>2. NoneAbove(k')
        BY <1>1, <1>2, <1>3, <2>4, <2>5, <4>1, YieldToHigher DEF Stays
      <4>3. QED
        BY <1>1, <1>2, <2>4, <2>5, <4>2 DEF Running, NoneButMade, NoneAbove, Stays
    <3>3. QED
      BY <3>1, <3>2
  <2>9. Stopping'
    BY <1>1, <1>2, <1>4, <1>5, <2>4, <2>5, Facts DEF Stopping, Stays, Live
  <2>10. Notified'
    BY <1>1, <1>2, <1>4, <2>5, Facts DEF Notified, Live
  <2>11. QED
    BY <2>5, <2>7, <2>8, <2>9, <2>10 DEF IInv
<1>6. CASE notifyState[u] # "waiting"
  <2>1. k' = k /\ Do(k')
    BY <1>1, <1>6 DEF Do
  <2>2. /\ Typed' /\ Kernels' /\ Phases' /\ Delayed'
        /\ Rd(k') = Rd(k) /\ Waiting(k') = Waiting(k) /\ k'.suspended = k.suspended
        /\ Gn(k') = Gn(k) /\ Put(k') = Put(k) /\ Listed(k') = Listed(k)
    <3>1. Steady
      BY <1>1, <1>2, <1>4, <2>1, Facts DEF Steady, Kernels, Typed
    <3>2. Become(k', k, Rd(k), Waiting(k), k.suspended, Gn(k), Put(k))
      BY <2>1, BecomeItself
    <3>3. QED
      BY <3>1, <3>2, SameParts
  <2>3. Everybody' /\ Running'
    BY <1>1, <2>1, Facts DEF Everybody, Running, NoneButMade, NoneAbove, Leaving
  <2>4. Stopping'
    BY <1>1, <1>2, <1>4, <1>6, <2>1, Facts DEF Stopping, Live
  <2>5. Notified'
    BY <1>1, <1>2, <1>4, <1>6, <2>1, Facts DEF Notified, Live
  <2>6. QED
    BY <2>2, <2>3, <2>4, <2>5 DEF IInv
<1>7. QED
  BY <1>5, <1>6


(* What a handler makes of the lists when it wakes a task: it is ready at  *)
(* once, or put off while the scheduler is suspended.                      *)
LEMMA MadeReady ==
  ASSUME IInv, NEW u \in All, u \notin Put(k), NEW yes \in BOOLEAN,
         NEW w, w = YieldIf([MakeReady(k, u) EXCEPT !.yieldPending = @ \/ yes], yes)
  PROVE  /\ Stays(w, k) /\ w.swi = (k.swi \/ yes) /\ w.yieldPending = (k.yieldPending \/ yes)
         /\ \/ /\ k.schedulerSuspended = 0
               /\ Become(w, k, Rd(k) \cup {u}, Waiting(k) \ {u}, k.suspended \ {u},
                         Gn(k) \ {u}, Put(k))
            \/ /\ k.schedulerSuspended # 0
               /\ Become(w, k, Rd(k), Waiting(k), k.suspended, Gn(k), Put(k) \cup {u})
<1> DEFINE v == MakeReady(k, u)
<1>1. w = YieldIf([v EXCEPT !.yieldPending = @ \/ yes], yes)
  OBVIOUS
<1>2. CASE k.schedulerSuspended = 0
  <2>1. v = AddToReady(Unlink(k, {u}), <<u>>)
    BY <1>2 DEF MakeReady
  <2> HIDE DEF v
  <2>2. /\ Become(v, k, Rd(k) \cup {u}, Waiting(k) \ {u}, k.suspended \ {u}, Gn(k) \ {u},
                  Put(k))
        /\ Stays(v, k) /\ v.swi = k.swi /\ v.yieldPending = k.yieldPending
    BY <2>1, Facts, ReadyBecomes DEF Put
  <2>3. /\ Become(w, k, Rd(k) \cup {u}, Waiting(k) \ {u}, k.suspended \ {u}, Gn(k) \ {u},
                  Put(k))
        /\ Stays(w, v)
        /\ w.swi = (v.swi \/ yes) /\ w.yieldPending = (v.yieldPending \/ yes)
    BY <1>1, <2>2, NoteBecomes
  <2>4. QED
    BY <1>2, <2>2, <2>3 DEF Stays
<1>3. CASE k.schedulerSuspended # 0
  <2>1. \A l \in Events : u \notin Ev(k, l)
    BY NobodyWaits
  <2>2. /\ Become(v, k, Rd(k), Waiting(k), k.suspended, Gn(k), Put(k) \cup {u})
        /\ Stays(v, k) /\ v.swi = k.swi /\ v.yieldPending = k.yieldPending
    BY <1>3, <2>1, Facts, LaterBecomes DEF Put
  <2> HIDE DEF v
  <2>3. /\ Become(w, k, Rd(k), Waiting(k), k.suspended, Gn(k), Put(k) \cup {u})
        /\ Stays(w, v)
        /\ w.swi = (v.swi \/ yes) /\ w.yieldPending = (v.yieldPending \/ yes)
    BY <1>1, <2>2, NoteBecomes
  <2>4. QED
    BY <1>3, <2>2, <2>3 DEF Stays
<1>4. QED
  BY <1>2, <1>3

(* A handler that wakes a task that waits for a notification or was        *)
(* stopped, and notes the switch, keeps the invariant.                     *)
LEMMA MadeReadyKeeps ==
  ASSUME IInv, NEW u \in Live, u \notin Put(k), NEW yes \in BOOLEAN,
         k' = YieldIf([MakeReady(k, u) EXCEPT !.yieldPending = @ \/ yes], yes), Do(k'),
         k.schedulerSuspended = 0 => (k.priority[u] > k.priority[k.current] => yes),
         notifyState[u] = "waiting" \/ u \in stopped,
         notifyState' \in [Tasks -> {"none", "waiting", "received"}],
         notifyValue' \in [Tasks -> 0 .. MaxNotify],
         notifyState'[u] # "waiting",
         \A x \in Tasks \ {u} : /\ notifyState'[x] = notifyState[x]
                                /\ notifyValue'[x] = notifyValue[x],
         stopped' = stopped \ {u}, UNCHANGED <<pended, made, pc, handle>>
  PROVE  IInv'
<1>1. u \in Tasks /\ u \in All /\ Live' = Live
  BY Facts DEF Live
<1>2. /\ Stays(k', k) /\ k'.swi = (k.swi \/ yes)
      /\ k'.yieldPending = (k.yieldPending \/ yes)
      /\ \/ /\ k.schedulerSuspended = 0
            /\ Become(k', k, Rd(k) \cup {u}, Waiting(k) \ {u}, k.suspended \ {u},
                      Gn(k) \ {u}, Put(k))
         \/ /\ k.schedulerSuspended # 0
            /\ Become(k', k, Rd(k), Waiting(k), k.suspended, Gn(k), Put(k) \cup {u})
  BY <1>1, MadeReady
<1>3. Steady
  BY <1>1, <1>2, Facts DEF Steady, Stays, Kernels, Typed, Phases
<1>4. CASE k.schedulerSuspended = 0
  <2>1. Put(k) = {} /\ handle = Idle /\ k.pendedTicks = 0 /\ pc[k.current] \notin Holding
    BY <1>4, Facts DEF Kernels, Phases, Holding
  <2>2. /\ Typed' /\ Kernels' /\ Phases' /\ Delayed'
        /\ Rd(k') = Rd(k) \cup {u} /\ Waiting(k') = Waiting(k) \ {u}
        /\ k'.suspended = k.suspended \ {u} /\ Gn(k') = Gn(k) \ {u} /\ Put(k') = Put(k)
        /\ Listed(k') = (Rd(k) \cup {u}) \cup (Waiting(k) \ {u}) \cup (k.suspended \ {u})
                          \cup (Gn(k) \ {u})
    <3>1. Waiting(k) \ {u} \subseteq Waiting(k) /\ Idle \in Rd(k) \cup {u}
      BY Facts
    <3>2. Become(k', k, Rd(k) \cup {u}, Waiting(k) \ {u}, k.suspended \ {u}, Gn(k) \ {u},
                 Put(k))
      BY <1>2, <1>4
    <3>3. QED
      BY <1>3, <2>1, <3>1, <3>2, StepParts
  <2>3. u \notin Gn(k) /\ u \in Listed(k)
    BY <1>1, <2>1, Facts DEF Everybody, Live
  <2>4. Listed(k') = Listed(k) /\ Gn(k') = Gn(k)
    <3>1. /\ Listed(k') = (Rd(k) \cup {u}) \cup (Waiting(k) \ {u}) \cup (k.suspended \ {u})
                            \cup (Gn(k) \ {u})
          /\ Gn(k') = Gn(k) \ {u}
      BY <2>2
    <3>2. Listed(k) = Rd(k) \cup Waiting(k) \cup k.suspended \cup Gn(k)
      BY Where
    <3>3. QED
      BY <2>3, <3>1, <3>2
  <2>5. Everybody'
    BY <2>2, <2>4, Facts DEF Everybody
  <2>6. Running'
    <3>1. CASE ~k'.swi /\ pc[k.current] \notin Leaving
      <4>1. k.current \in Rd(k) /\ NoneButMade /\ ~ (k.priority[u] > k.priority[k.current])
        BY <1>2, <1>4, <3>1, Facts DEF Running
      <4>2. NoneButMade'
        BY <1>1, <1>2, <2>2, <4>1, YieldToHigherYet DEF Stays
      <4>3. QED
        BY <1>2, <1>4, <2>2, <4>1, <4>2 DEF Running, Stays
    <3>2. CASE k'.swi \/ pc[k.current] \in Leaving
      BY <1>2, <1>4, <3>2 DEF Running, Stays
    <3>3. QED
      BY <3>1, <3>2
  <2>7. Stopping'
    BY <1>1, <1>2, <2>1, <2>2, Facts DEF Stopping, Stays, Live
  <2>8. Notified'
    BY <1>1, <2>1, <2>2, Facts DEF Notified, Live
  <2>9. QED
    BY <2>2, <2>5, <2>6, <2>7, <2>8 DEF IInv
<1>5. CASE k.schedulerSuspended # 0
  <2>1. k.current \in Rd(k) /\ pc[k.current] \in Holding
    BY <1>5, Facts DEF Running, Phases
  <2>2. u # k.current
    BY <2>1, Facts, Where DEF Stopping, Holding
  <2>3. /\ Typed' /\ Kernels' /\ Phases' /\ Delayed'
        /\ Rd(k') = Rd(k) /\ Waiting(k') = Waiting(k) /\ k'.suspended = k.suspended
        /\ Gn(k') = Gn(k) /\ Put(k') = Put(k) \cup {u}
        /\ Listed(k') = Rd(k) \cup Waiting(k) \cup k.suspended \cup Gn(k)
    <3>1. Waiting(k) \subseteq Waiting(k) /\ Idle \in Rd(k)
      BY Facts
    <3>2. Become(k', k, Rd(k), Waiting(k), k.suspended, Gn(k), Put(k) \cup {u})
      BY <1>2, <1>5
    <3>3. k.schedulerSuspended = 0 => Put(k) \cup {u} = {}
      BY <1>5
    <3>4. QED
      BY <1>3, <3>1, <3>2, <3>3, StepParts
  <2>4. Listed(k') = Listed(k)
    BY <2>3, Where
  <2>5. Everybody'
    BY <2>3, <2>4, Facts DEF Everybody
  <2>6. Running'
    BY <1>2, <1>5, <2>1, <2>3, Facts DEF Running, NoneButMade, Stays, NoneAbove
  <2>7. Stopping'
    BY <1>1, <1>2, <2>2, <2>3, Facts DEF Stopping, Stays, Live
  <2>8. Notified'
    BY <1>1, <2>3, Facts DEF Notified, Live
  <2>9. QED
    BY <2>3, <2>5, <2>6, <2>7, <2>8 DEF IInv
<1>6. QED
  BY <1>4, <1>5

(* xTaskNotifyFromISR and vTaskNotifyGiveFromISR keep the invariant.       *)
LEMMA NotifyFromISRKeeps ==
  ASSUME IInv, NEW u \in Tasks, NEW n \in 0 .. MaxNotify, NotifyFromISR(u, n)
  PROVE  IInv'
<1> DEFINE yes == k.priority[u] > k.priority[k.current]
<1>1. /\ u \in Live
      /\ notifyState' = [notifyState EXCEPT ![u] = "received"]
      /\ notifyValue' = [notifyValue EXCEPT ![u] = n]
      /\ IF notifyState[u] = "waiting"
         THEN Do(YieldIf([MakeReady(k, u) EXCEPT !.yieldPending = @ \/ yes], yes))
         ELSE Do(k)
      /\ UNCHANGED <<pended, made, pc, handle, stopped>>
  BY DEF NotifyFromISR
<1>2. /\ notifyState' \in [Tasks -> {"none", "waiting", "received"}]
      /\ notifyValue' \in [Tasks -> 0 .. MaxNotify] /\ notifyState'[u] = "received"
      /\ \A x \in Tasks \ {u} : /\ notifyState'[x] = notifyState[x]
                                /\ notifyValue'[x] = notifyValue[x]
  BY <1>1, Facts DEF Typed
<1>3. CASE notifyState[u] = "waiting"
  <2>1. /\ k' = YieldIf([MakeReady(k, u) EXCEPT !.yieldPending = @ \/ yes], yes)
        /\ Do(k') /\ yes \in BOOLEAN
    BY <1>1, <1>3 DEF Do
  <2>2. u \notin Put(k) /\ u \notin stopped
    BY <1>1, <1>3, Facts DEF Stopping
  <2>3. stopped' = stopped \ {u}
    BY <1>1, <2>2
  <2>4. k.priority[u] > k.priority[k.current] => yes
    OBVIOUS
  <2> HIDE DEF yes
  <2>5. QED
    BY <1>1, <1>2, <1>3, <2>1, <2>2, <2>3, <2>4, MadeReadyKeeps
<1>4. CASE notifyState[u] # "waiting"
  <2>1. k' = k /\ Do(k')
    BY <1>1, <1>4 DEF Do
  <2>2. /\ Typed' /\ Kernels' /\ Phases' /\ Delayed'
        /\ Rd(k') = Rd(k) /\ Waiting(k') = Waiting(k) /\ k'.suspended = k.suspended
        /\ Gn(k') = Gn(k) /\ Put(k') = Put(k) /\ Listed(k') = Listed(k)
    <3>1. Steady
      BY <1>1, <1>2, <2>1, Facts DEF Steady, Kernels, Typed, Phases, Live
    <3>2. Become(k', k, Rd(k), Waiting(k), k.suspended, Gn(k), Put(k))
      BY <2>1, BecomeItself
    <3>3. QED
      BY <3>1, <3>2, SameParts
  <2>3. Everybody' /\ Running'
    BY <1>1, <2>1, Facts DEF Everybody, Running, NoneButMade, NoneAbove, Leaving
  <2>4. Stopping'
    BY <1>1, <1>2, <1>4, <2>1, Facts DEF Stopping, Live
  <2>5. Notified'
    BY <1>1, <1>2, <1>4, <2>1, Facts DEF Notified, Live
  <2>6. QED
    BY <2>2, <2>3, <2>4, <2>5 DEF IInv
<1>5. QED
  BY <1>3, <1>4

(* xTaskResumeFromISR keeps the invariant when it is called for a task that*)
(* was stopped.                                                            *)
LEMMA ResumeFromISRKeeps ==
  ASSUME IInv, ~Stray, NEW u \in Tasks, ResumeFromISR(u)
  PROVE  IInv'
<1> DEFINE yes == k.schedulerSuspended = 0 /\ k.priority[u] >= k.priority[k.current]
<1>1. /\ u \in Live /\ u \in stopped
      /\ IF IsSuspended(u)
         THEN Do(YieldIf([MakeReady(k, u) EXCEPT !.yieldPending = @ \/ yes], yes))
         ELSE Do(k)
      /\ stopped' = stopped \ {u}
      /\ UNCHANGED <<pended, made, pc, handle, notifyState, notifyValue>>
  BY DEF ResumeFromISR
<1>2. u \in All /\ u \notin Put(k) /\ u \in k.suspended /\ notifyState[u] # "waiting"
  BY <1>1, Facts DEF Stopping, Live
<1>3. IsSuspended(u)
  BY <1>2, NobodyWaits
<1>4. /\ k' = YieldIf([MakeReady(k, u) EXCEPT !.yieldPending = @ \/ yes], yes)
      /\ Do(k') /\ yes \in BOOLEAN
  BY <1>1, <1>3 DEF Do
<1>5. k.schedulerSuspended = 0 => (k.priority[u] > k.priority[k.current] => yes)
  <2>1. k.priority[u] \in Int /\ k.priority[k.current] \in Int
    BY <1>2, Facts
  <2>2. QED
    BY <2>1
<1>6. /\ notifyState' \in [Tasks -> {"none", "waiting", "received"}]
      /\ notifyValue' \in [Tasks -> 0 .. MaxNotify] /\ notifyState'[u] # "waiting"
      /\ \A x \in Tasks \ {u} : /\ notifyState'[x] = notifyState[x]
                                /\ notifyValue'[x] = notifyValue[x]
  BY <1>1, <1>2, Facts DEF Typed
<1> HIDE DEF yes
<1>7. QED
  BY <1>1, <1>2, <1>4, <1>5, <1>6, MadeReadyKeeps


(* The parts of the invariant that a step outside the kernel keeps.        *)
LEMMA UnchangedParts ==
  ASSUME IInv, Steady, UNCHANGED <<k, left>>
  PROVE  Typed' /\ Kernels' /\ Phases' /\ Delayed'
<1>1. Become(k', k, Rd(k), Waiting(k), k.suspended, Gn(k), Put(k))
  BY BecomeItself
<1>2. QED
  BY <1>1, SameParts

(* The end of a wait for a notification, with the value or without, keeps  *)
(* the invariant.                                                          *)
LEMMA NotifyEndKeeps ==
  ASSUME IInv, NEW t \in Tasks, NotifyEnd(t)
  PROVE  IInv'
<1>1. PICK n \in 0 .. notifyValue[t] :
        /\ k.current = t /\ ~k.swi /\ pc[t] \in {"take", "wait"} /\ Goto(t, "app")
        /\ notifyState' = [notifyState EXCEPT ![t] = "none"]
        /\ notifyValue' = [notifyValue EXCEPT ![t] = n]
        /\ UNCHANGED <<pended, made, k, handle, left, stopped>>
  BY DEF NotifyEnd, At
<1>2. /\ k.schedulerSuspended = 0 /\ k.pendedTicks = 0 /\ Put(k) = {} /\ handle = Idle
      /\ t \in Rd(k) /\ NoneAbove(k) /\ t \in Live /\ t \notin stopped
      /\ \A x \in All : pc[x] \notin Holding
  BY <1>1, AppFacts DEF Holding, Leaving
<1>3. /\ pc' \in [All -> PCs] /\ pc'[t] = "app" /\ \A x \in All \ {t} : pc'[x] = pc[x]
      /\ Live' = Live
  BY <1>1, <1>2, Facts, GotoFacts DEF PCs
<1>4. n \in 0 .. MaxNotify
  BY <1>1, Facts, TasksAssumption DEF Typed
<1>5. /\ notifyState' \in [Tasks -> {"none", "waiting", "received"}]
      /\ notifyValue' \in [Tasks -> 0 .. MaxNotify] /\ notifyState'[t] = "none"
      /\ \A x \in Tasks \ {t} : /\ notifyState'[x] = notifyState[x]
                                /\ notifyValue'[x] = notifyValue[x]
  BY <1>1, <1>4, Facts DEF Typed
<1>6. \A x \in All : pc'[x] \notin Holding
  BY <1>2, <1>3 DEF Holding
<1>7. Steady
  BY <1>1, <1>2, <1>3, <1>5, <1>6, Facts DEF Steady, Kernels, Typed
<1>8. Typed' /\ Kernels' /\ Phases' /\ Delayed'
  BY <1>1, <1>7, UnchangedParts
<1>9. Everybody'
  BY <1>1, <1>2, <1>3, Facts DEF Everybody, Live
<1>10. Running'
  BY <1>1, <1>2, <1>3, Facts DEF Running, NoneButMade, NoneAbove
<1>11. Stopping'
  BY <1>1, <1>2, <1>3, <1>5, Facts DEF Stopping, Live
<1>12. Notified'
  BY <1>1, <1>2, <1>3, <1>5, Facts DEF Notified, Live
<1>13. QED
  BY <1>8, <1>9, <1>10, <1>11, <1>12 DEF IInv

(* xTaskNotifyStateClear and ulTaskNotifyValueClear keep the invariant.    *)
LEMMA NotifyClearKeeps ==
  ASSUME IInv, NEW t \in Tasks, NEW u \in Tasks,
         NotifyStateClear(t, u) \/ NotifyValueClear(t, u)
  PROVE  IInv'
<1>1. /\ k.current = t /\ ~k.swi /\ pc[t] = "app" /\ u \in Live
      /\ UNCHANGED <<k, pc, pended, made, handle, left, stopped>>
      /\ \/ /\ notifyState[u] = "received" /\ notifyValue' = notifyValue
            /\ notifyState' = [notifyState EXCEPT ![u] = "none"]
         \/ notifyState' = notifyState /\ notifyValue' = [notifyValue EXCEPT ![u] = 0]
  BY DEF NotifyStateClear, NotifyValueClear, At
<1>2. /\ k.schedulerSuspended = 0 /\ k.pendedTicks = 0 /\ Put(k) = {} /\ handle = Idle
      /\ t \in Rd(k) /\ NoneAbove(k) /\ t \in Live /\ t \notin stopped
      /\ \A x \in All : pc[x] \notin Holding
  BY <1>1, AppFacts DEF Holding, Leaving
<1>3. /\ notifyState' \in [Tasks -> {"none", "waiting", "received"}]
      /\ notifyValue' \in [Tasks -> 0 .. MaxNotify]
      /\ \A x \in Tasks : notifyState'[x] = "waiting" <=> notifyState[x] = "waiting"
      /\ \A x \in Tasks : notifyValue[x] = 0 => notifyValue'[x] = 0
  BY <1>1, Facts, TasksAssumption DEF Typed
<1>4. Steady
  BY <1>1, <1>2, <1>3, Facts DEF Steady, Kernels, Typed
<1>5. Typed' /\ Kernels' /\ Phases' /\ Delayed'
  BY <1>1, <1>4, UnchangedParts
<1>6. Everybody' /\ Running'
  BY <1>1, Facts DEF Everybody, Running, NoneButMade, NoneAbove
<1>7. Stopping'
  BY <1>1, <1>3, Facts DEF Stopping, Live
<1>8. Notified'
  BY <1>1, <1>3, Facts DEF Notified, Live
<1>9. QED
  BY <1>5, <1>6, <1>7, <1>8 DEF IInv

(* vTaskPrioritySet keeps the invariant: it asks for the switch whenever   *)
(* somebody else may now be the highest.                                   *)
LEMMA PrioritySetKeeps ==
  ASSUME IInv, NEW t \in Tasks, NEW u \in Tasks, NEW p \in Priority, PrioritySet(t, u, p)
  PROVE  IInv'
<1> DEFINE v == SetPriority([k EXCEPT !.base[u] = p], u, p)
           yes == IF u = t THEN p < k.base[u] ELSE p > k.base[u] /\ p >= k.priority[t]
<1>1. /\ k.current = t /\ ~k.swi /\ pc[t] = "app" /\ u \in Live /\ p # k.base[u]
      /\ Do(YieldIf(v, yes))
      /\ UNCHANGED <<pended, made, pc, handle, notifyState, notifyValue, stopped>>
  BY DEF PrioritySet, At
<1>2. /\ k.schedulerSuspended = 0 /\ k.pendedTicks = 0 /\ Put(k) = {} /\ handle = Idle
      /\ t \in Rd(k) /\ NoneAbove(k) /\ t \in Live /\ t \notin stopped
      /\ \A x \in All : pc[x] \notin Holding
  BY <1>1, AppFacts DEF Holding, Leaving
<1>3. /\ u \in All /\ t \in All /\ p \in Int /\ k.base = k.priority
      /\ \A x \in All : k.priority[x] \in Int
  BY Facts DEF Kernels
<1>4. k' = YieldIf(v, yes) /\ Do(k') /\ yes \in BOOLEAN
  <2>1. yes \in BOOLEAN
    <3>1. CASE u = t
      BY <3>1
    <3>2. CASE u # t
      BY <3>2
    <3>3. QED
      BY <3>1, <3>2
  <2> HIDE DEF v, yes
  <2>2. QED
    BY <1>1, <2>1 DEF Do
<1>5. /\ Become(v, k, Rd(k), Waiting(k), k.suspended, Gn(k), Put(k))
      /\ v.priority = [k.priority EXCEPT ![u] = p] /\ v.base = [k.base EXCEPT ![u] = p]
      /\ v.current = k.current /\ v.schedulerSuspended = k.schedulerSuspended
      /\ v.pendedTicks = k.pendedTicks
      /\ v.swi = k.swi
  BY <1>3, Facts, PriorityBecomes DEF Put
<1>6. yes \/ IF u = t THEN p >= k.priority[t] ELSE ~ (p > k.priority[u]) \/ p < k.priority[t]
  BY <1>3
<1> HIDE DEF v, yes
<1>7. /\ Become(k', k, Rd(k), Waiting(k), k.suspended, Gn(k), Put(k))
      /\ Stays(k', v) /\ k'.swi = (v.swi \/ yes)
  BY <1>4, <1>5, ThenYield
<1>8. Steady
  BY <1>1, <1>2, <1>3, <1>4, <1>5, <1>7, Facts DEF Steady, Stays, Typed
<1>9. /\ Typed' /\ Kernels' /\ Phases' /\ Delayed'
      /\ Rd(k') = Rd(k) /\ Waiting(k') = Waiting(k) /\ k'.suspended = k.suspended
      /\ Gn(k') = Gn(k) /\ Put(k') = Put(k) /\ Listed(k') = Listed(k)
  BY <1>7, <1>8, SameParts
<1>10. Everybody'
  BY <1>1, <1>9, Facts DEF Everybody
<1>11. Running'
  <2>1. CASE yes
    BY <1>2, <1>5, <1>7, <2>1 DEF Running, NoneButMade, NoneAbove, Stays
  <2>2. CASE ~yes
    <3>1. /\ k'.current = t /\ k'.schedulerSuspended = 0
          /\ k'.priority = [k.priority EXCEPT ![u] = p]
      BY <1>1, <1>2, <1>5, <1>7 DEF Stays
    <3>2. \A x \in Rd(k) : k'.priority[x] <= k'.priority[t]
      <4>1. TAKE x \in Rd(k)
      <4>2. x \in All /\ k.priority[x] \in Int /\ k.priority[t] \in Int /\ k.priority[u] \in Int
        BY <1>3 DEF Rd
      <4>3. k.priority[x] <= k.priority[t]
        BY <1>1, <1>2 DEF NoneAbove
      <4>4. k'.priority[x] = IF x = u THEN p ELSE k.priority[x]
        BY <3>1, <4>2, Facts
      <4>5. k'.priority[t] = IF t = u THEN p ELSE k.priority[t]
        BY <1>3, <3>1, Facts
      <4>6. QED
        BY <1>3, <1>6, <2>2, <4>2, <4>3, <4>4, <4>5
    <3>3. QED
      BY <1>2, <1>9, <3>1, <3>2 DEF Running, NoneButMade, NoneAbove
  <2>3. QED
    BY <2>1, <2>2
<1>12. Stopping'
  BY <1>1, <1>5, <1>7, <1>9, Facts DEF Stopping, Stays, Live
<1>13. Notified'
  BY <1>1, <1>9, Facts DEF Notified, Live
<1>14. QED
  BY <1>9, <1>10, <1>11, <1>12, <1>13 DEF IInv

(* xTaskCreate from a task, up to the end of its critical section, keeps   *)
(* the invariant: nobody but the new task can be above the running one.    *)
LEMMA CreateKeeps ==
  ASSUME IInv, NEW t \in Tasks, NEW u \in Tasks, NEW p \in Priority, Create(t, u, p)
  PROVE  IInv'
<1>1. /\ k.current = t /\ ~k.swi /\ pc[t] = "app" /\ pc[u] = "none"
      /\ Do(AddToReady(InitialiseNewTask(k, u, p), <<u>>))
      /\ pc' = [pc EXCEPT ![t] = "added", ![u] = "app"]
      /\ made' = [made EXCEPT ![t] = u]
      /\ notifyState' = [notifyState EXCEPT ![u] = "none"]
      /\ notifyValue' = [notifyValue EXCEPT ![u] = 0]
      /\ UNCHANGED <<pended, handle, stopped>>
  BY DEF Create, At
<1>2. /\ k.schedulerSuspended = 0 /\ k.pendedTicks = 0 /\ Put(k) = {} /\ handle = Idle
      /\ t \in Rd(k) /\ NoneAbove(k) /\ t \in Live /\ t \notin stopped
      /\ \A x \in All : pc[x] \notin Holding
  BY <1>1, AppFacts DEF Holding, Leaving
<1>3. /\ u \in All /\ t \in All /\ p \in Int /\ k.base = k.priority /\ u # t /\ u # Idle
      /\ \A x \in All : k.priority[x] \in Int
  BY <1>1, Facts DEF Kernels
<1>4. u \in All \ Listed(k) /\ u \notin Gn(k)
  BY <1>1, <1>3, Facts DEF Everybody
<1>5. k' = AddToReady(InitialiseNewTask(k, u, p), <<u>>) /\ Do(k')
  BY <1>1 DEF Do
<1>6. /\ Become(k', k, Rd(k) \cup {u}, Waiting(k), k.suspended, Gn(k), Put(k))
      /\ k'.priority = [k.priority EXCEPT ![u] = p] /\ k'.base = [k.base EXCEPT ![u] = p]
      /\ k'.current = k.current /\ k'.schedulerSuspended = k.schedulerSuspended
      /\ k'.pendedTicks = k.pendedTicks
      /\ k'.swi = k.swi
  BY <1>4, <1>5, Facts, CreateBecomes DEF Put
<1>7. /\ made' \in [Tasks -> All] /\ made'[t] = u
  BY <1>1, <1>3, Facts DEF Typed
<1>8. pc \in [All -> PCs]
  BY Facts DEF Typed
<1>9. /\ pc' \in [All -> PCs] /\ pc'[u] = "app" /\ pc'[t] = "added"
      /\ \A x \in All \ {t, u} : pc'[x] = pc[x]
  BY <1>1, <1>3, <1>8 DEF PCs
<1>10. Live' = Live \cup {u}
  BY <1>1, <1>3, <1>9, Facts DEF Live
<1>11. /\ notifyState' \in [Tasks -> {"none", "waiting", "received"}]
       /\ notifyValue' \in [Tasks -> 0 .. MaxNotify] /\ notifyState'[u] = "none"
       /\ \A x \in Tasks \ {u} : /\ notifyState'[x] = notifyState[x]
                                 /\ notifyValue'[x] = notifyValue[x]
  BY <1>1, Facts, TasksAssumption DEF Typed
<1>12. \A x \in All : pc'[x] \notin Holding
  BY <1>2, <1>9 DEF Holding
<1>13. Steady
  BY <1>1, <1>2, <1>3, <1>5, <1>6, <1>7, <1>9, <1>11, <1>12, Facts DEF Steady, Typed
<1>14. /\ Typed' /\ Kernels' /\ Phases' /\ Delayed'
       /\ Rd(k') = Rd(k) \cup {u} /\ Waiting(k') = Waiting(k) /\ k'.suspended = k.suspended
       /\ Gn(k') = Gn(k) /\ Put(k') = Put(k)
       /\ Listed(k') = (Rd(k) \cup {u}) \cup Waiting(k) \cup k.suspended \cup Gn(k)
  <2>1. Idle \in Rd(k) \cup {u} /\ Waiting(k) \subseteq Waiting(k)
    BY Facts
  <2>2. QED
    BY <1>2, <1>6, <1>13, <2>1, StepParts
<1>15. Listed(k') = Listed(k) \cup {u}
  <2>1. Listed(k) = Rd(k) \cup Waiting(k) \cup k.suspended \cup Gn(k)
    BY Where
  <2>2. QED
    BY <1>14, <2>1
<1>16. Everybody'
  <2>1. t \in Listed(k) /\ t \notin Gn(k)
    BY <1>2, Where, Facts DEF Everybody, Live
  <2>2. QED
    BY <1>1, <1>2, <1>3, <1>4, <1>9, <1>14, <1>15, <2>1, Facts DEF Everybody
<1>17. Running'
  <2>1. /\ k'.current = t /\ k'.schedulerSuspended = 0
        /\ k'.priority = [k.priority EXCEPT ![u] = p]
    BY <1>1, <1>2, <1>6
  <2>2. k'.priority[t] = k.priority[t]
    BY <1>3, <2>1, Facts
  <2>3. \A x \in Rd(k) \cup {u} : x = u \/ k'.priority[x] <= k'.priority[t]
    <3>1. TAKE x \in Rd(k) \cup {u}
    <3>2. CASE x # u
      <4>1. x \in All /\ k.priority[x] <= k.priority[t]
        BY <1>1, <1>2, <3>2 DEF NoneAbove, Rd
      <4>2. k'.priority[x] = k.priority[x]
        BY <2>1, <3>2, <4>1, Facts
      <4>3. QED
        BY <2>2, <4>1, <4>2
    <3>3. QED
      BY <3>2
  <2>4. QED
    BY <1>2, <1>3, <1>7, <1>9, <1>14, <2>1, <2>3 DEF Running, NoneButMade
<1>18. Stopping'
  BY <1>1, <1>2, <1>3, <1>6, <1>9, <1>10, <1>11, <1>14, Facts DEF Stopping, Live
<1>19. Notified'
  BY <1>1, <1>2, <1>9, <1>10, <1>11, <1>14, Facts DEF Notified, Live
<1>20. QED
  BY <1>14, <1>16, <1>17, <1>18, <1>19 DEF IInv

(* The switch behind it keeps the invariant, whatever a freed new TCB says.*)
LEMMA AddedYieldKeeps ==
  ASSUME IInv, NEW t \in Tasks, AddedYield(t)
  PROVE  IInv'
<1>1. PICK higher \in BOOLEAN :
        /\ k.current = t /\ ~k.swi /\ pc[t] = "added"
        /\ made[t] # Idle => higher = (k.priority[t] < k.priority[made[t]])
        /\ Do(YieldIf(k, higher)) /\ Goto(t, "app") /\ made' = [made EXCEPT ![t] = Idle]
        /\ UNCHANGED <<pended, handle, notifyState, notifyValue, stopped>>
  <2>1. (k.priority[t] < k.priority[made[t]]) \in BOOLEAN
    OBVIOUS
  <2>2. QED
    BY <2>1 DEF AddedYield, At
<1>2. k' = YieldIf(k, higher) /\ Do(k')
  BY <1>1 DEF Do
<1>3. /\ Become(k', k, Rd(k), Waiting(k), k.suspended, Gn(k), Put(k))
      /\ Stays(k', k) /\ k'.swi = (k.swi \/ higher)
  BY <1>2, BecomeItself, ThenYield
<1>4. t \in All /\ pc[t] \notin Holding
  BY <1>1, Facts DEF Holding
<1>5. t \in Live /\ k.schedulerSuspended = 0 /\ Put(k) = {} /\ handle = Idle
  BY <1>1, <1>4, Facts DEF Phases, Live, Kernels
<1>6. /\ pc' \in [All -> PCs] /\ pc'[t] = "app" /\ \A x \in All \ {t} : pc'[x] = pc[x]
      /\ Live' = Live
  BY <1>1, <1>5, Facts, GotoFacts DEF PCs
<1>7. \A x \in All : pc[x] \in Holding \/ pc'[x] \in Holding => pc'[x] = pc[x]
  BY <1>4, <1>6 DEF Holding
<1>8. made' \in [Tasks -> All]
  BY <1>1, Facts DEF Typed
<1>9. /\ Typed' /\ Kernels' /\ Phases' /\ Delayed'
      /\ Rd(k') = Rd(k) /\ Waiting(k') = Waiting(k) /\ k'.suspended = k.suspended
      /\ Gn(k') = Gn(k) /\ Put(k') = Put(k) /\ Listed(k') = Listed(k)
  <2>1. Steady
    BY <1>1, <1>2, <1>3, <1>5, <1>6, <1>7, <1>8, Facts DEF Steady, Stays, Kernels, Typed
  <2>2. QED
    BY <1>3, <2>1, SameParts
<1>10. Everybody'
  BY <1>1, <1>5, <1>6, <1>9, Facts DEF Everybody, Live
<1>11. Running'
  <2>1. k.current \in Rd(k) /\ NoneButMade
    BY <1>1, <1>5, Facts DEF Running, Leaving
  <2>2. ASSUME ~k'.swi PROVE NoneAbove(k)
    <3>1. SUFFICES ASSUME NEW x \in Rd(k)
                   PROVE  k.priority[x] <= k.priority[k.current]
      BY DEF NoneAbove
    <3>2. CASE x = made[t] /\ x # Idle
      <4>1. ~ (k.priority[t] < k.priority[x])
        BY <1>1, <1>3, <2>2, <3>2
      <4>2. k.priority[x] \in Int /\ k.priority[t] \in Int
        BY <1>4, Where, Facts
      <4>3. QED
        BY <1>1, <4>1, <4>2
    <3>3. CASE ~ (x = made[t] /\ x # Idle)
      BY <1>1, <2>1, <3>3 DEF NoneButMade
    <3>4. QED
      BY <3>2, <3>3
  <2>3. QED
    BY <1>3, <1>5, <1>9, <2>1, <2>2 DEF Running, NoneButMade, NoneAbove, Stays
<1>12. Stopping'
  BY <1>1, <1>3, <1>5, <1>6, <1>9, Facts DEF Stopping, Stays, Live
<1>13. Notified'
  BY <1>1, <1>5, <1>6, <1>9, Facts DEF Notified, Live
<1>14. QED
  BY <1>9, <1>10, <1>11, <1>12, <1>13 DEF IInv

(* The idle task is what is left of a TCB that was freed.                  *)
LEMMA ForgetFacts ==
  ASSUME Typed, NEW u, Forget(u)
  PROVE  made' \in [Tasks -> All]
BY DEF Typed, Forget, All

(* vTaskDelete of a task, itself or another, keeps the invariant.          *)
LEMMA DeleteKeeps ==
  ASSUME IInv, NEW t \in Tasks, NEW u \in Tasks, Delete(t, u)
  PROVE  IInv'
<1> DEFINE k1 == Unwait(Unlink(k, {u}), {u})
           next == IF u = t THEN "dying" ELSE "none"
<1>1. /\ k.current = t /\ ~k.swi /\ pc[t] = "app" /\ u \in Live
      /\ IF u = t THEN Do([k1 EXCEPT !.terminated = Append(@, t)]) /\ UNCHANGED made
                  ELSE Do(ResetNextUnblock(k1)) /\ Forget(u)
      /\ Goto(u, next) /\ stopped' = stopped \ {u}
      /\ UNCHANGED <<pended, handle, notifyState, notifyValue>>
  BY DEF Delete, At
<1>2. /\ k.schedulerSuspended = 0 /\ k.pendedTicks = 0 /\ Put(k) = {} /\ handle = Idle
      /\ t \in Rd(k) /\ NoneAbove(k) /\ t \in Live /\ t \notin stopped
      /\ \A x \in All : pc[x] \notin Holding
  BY <1>1, AppFacts DEF Holding, Leaving
<1>3. u \in All /\ u \notin Gn(k) /\ u \in Listed(k) /\ Idle # u
  BY <1>1, <1>2, Facts DEF Everybody, Live
<1>4. /\ next \in {"dying", "none"} /\ (u = t => next = "dying") /\ (u # t => next = "none")
  OBVIOUS
<1> HIDE DEF next
<1>5. /\ pc' \in [All -> PCs] /\ pc'[u] = next /\ \A x \in All \ {u} : pc'[x] = pc[x]
  BY <1>1, <1>3, <1>4, Facts DEF Goto, Typed, PCs
<1>6. Live' = Live \ {u} /\ \A x \in All : pc'[x] \notin Holding
  BY <1>2, <1>3, <1>4, <1>5, Facts DEF Live, Holding
<1> DEFINE Quiet == /\ k'.current = k.current /\ k'.schedulerSuspended = k.schedulerSuspended
                    /\ k'.pendedTicks = k.pendedTicks /\ k'.priority = k.priority
                    /\ k'.base = k.base /\ Do(k')
<1>7. ASSUME Quiet PROVE Steady
  <2>1. made' \in [Tasks -> All]
    BY <1>1, Facts, ForgetFacts DEF Typed
  <2>2. QED
    BY <1>1, <1>2, <1>5, <1>6, <1>7, <2>1, Facts DEF Steady, Kernels, Typed
<1>8. CASE u = t
  <2>1. k' = [k1 EXCEPT !.terminated = Append(@, t)] /\ Do(k')
    BY <1>1, <1>8 DEF Do
  <2>2. k' = [Unwait(Unlink(k, {t}), {t}) EXCEPT !.terminated = Append(@, t)] /\ t \in All
    BY <1>3, <1>8, <2>1
  <2>4. /\ Become(k', k, Rd(k) \ {t}, Waiting(k) \ {t}, k.suspended \ {t}, Gn(k) \cup {t},
                  Put(k) \ {t})
        /\ Stays(k', k)
    BY <2>2, Facts, TerminateBecomes DEF Put
  <2>6. Steady
    BY <1>7, <2>1, <2>4 DEF Stays
  <2>7. /\ Typed' /\ Kernels' /\ Phases' /\ Delayed'
        /\ Rd(k') = Rd(k) \ {t} /\ Waiting(k') = Waiting(k) \ {t}
        /\ k'.suspended = k.suspended \ {t} /\ Gn(k') = Gn(k) \cup {t}
        /\ Put(k') = Put(k) \ {t}
        /\ Listed(k') = (Rd(k) \ {t}) \cup (Waiting(k) \ {t}) \cup (k.suspended \ {t})
                          \cup (Gn(k) \cup {t})
    <3>1. /\ Idle \in Rd(k) \ {t} /\ Waiting(k) \ {t} \subseteq Waiting(k)
          /\ Put(k) \ {t} = {}
      BY <1>2, <1>3, <1>8, Facts
    <3>2. QED
      BY <2>4, <2>6, <3>1, StepParts
  <2>8. Listed(k') = Listed(k)
    <3>1. Listed(k) = Rd(k) \cup Waiting(k) \cup k.suspended \cup Gn(k)
      BY Where
    <3>2. QED
      BY <1>3, <1>8, <2>7, <3>1
  <2>9. Everybody'
    BY <1>1, <1>2, <1>3, <1>4, <1>5, <1>8, <2>7, <2>8, Facts DEF Everybody
  <2>10. Running'
    BY <1>1, <1>2, <1>4, <1>5, <1>8, <2>4 DEF Running, Stays, Leaving
  <2>11. Stopping'
    BY <1>1, <1>2, <1>5, <1>6, <1>8, <2>4, <2>7, Facts DEF Stopping, Stays, Live
  <2>12. Notified'
    BY <1>1, <1>2, <1>5, <1>6, <1>8, <2>7, Facts DEF Notified, Live
  <2>13. QED
    BY <2>7, <2>9, <2>10, <2>11, <2>12 DEF IInv
<1>9. CASE u # t
  <2>1. k' = ResetNextUnblock(k1) /\ Do(k')
    BY <1>1, <1>9 DEF Do
  <2>2. /\ Become(k1, k, Rd(k) \ {u}, Waiting(k) \ {u}, k.suspended \ {u}, Gn(k) \ {u},
                  Put(k) \ {u})
        /\ Stays(k1, k) /\ k1.swi = k.swi
    BY <1>3, Facts, DropBecomes DEF Put
  <2> HIDE DEF k1
  <2>3. /\ Become(k', k, Rd(k) \ {u}, Waiting(k) \ {u}, k.suspended \ {u}, Gn(k) \ {u},
                  Put(k) \ {u})
        /\ Stays(k', k1) /\ k'.swi = k1.swi
    BY <2>1, <2>2, ThenReset
  <2>4. Stays(k', k)
    BY <2>2, <2>3 DEF Stays
  <2>5. Steady
    BY <1>7, <2>1, <2>4 DEF Stays
  <2>6. /\ Typed' /\ Kernels' /\ Phases' /\ Delayed'
        /\ Rd(k') = Rd(k) \ {u} /\ Waiting(k') = Waiting(k) \ {u}
        /\ k'.suspended = k.suspended \ {u} /\ Gn(k') = Gn(k) \ {u} /\ Put(k') = Put(k) \ {u}
        /\ Listed(k') = (Rd(k) \ {u}) \cup (Waiting(k) \ {u}) \cup (k.suspended \ {u})
                          \cup (Gn(k) \ {u})
    <3>1. /\ Idle \in Rd(k) \ {u} /\ Waiting(k) \ {u} \subseteq Waiting(k)
          /\ Put(k) \ {u} = {}
      BY <1>2, <1>3, Facts
    <3>2. QED
      BY <2>3, <2>5, <3>1, StepParts
  <2>7. Listed(k') = Listed(k) \ {u} /\ Gn(k') = Gn(k)
    <3>1. Listed(k) = Rd(k) \cup Waiting(k) \cup k.suspended \cup Gn(k)
      BY Where
    <3>2. QED
      BY <1>3, <2>6, <3>1
  <2>8. Everybody'
    BY <1>1, <1>2, <1>3, <1>4, <1>5, <1>9, <2>6, <2>7, Facts DEF Everybody
  <2>9. Running'
    BY <1>1, <1>2, <1>9, <2>4, <2>6, Facts DEF Running, NoneButMade, Stays, NoneAbove
  <2>10. Stopping'
    BY <1>1, <1>2, <1>5, <1>6, <2>4, <2>6, Facts DEF Stopping, Stays, Live
  <2>11. Notified'
    BY <1>1, <1>2, <1>5, <1>6, <2>6, Facts DEF Notified, Live
  <2>12. QED
    BY <2>6, <2>8, <2>9, <2>10, <2>11 DEF IInv
<1>10. QED
  BY <1>8, <1>9

(* portYIELD_WITHIN_API of a task that has deleted itself keeps the        *)
(* invariant.                                                              *)
LEMMA DeleteYieldKeeps ==
  ASSUME IInv, NEW t \in Tasks, DeleteYield(t)
  PROVE  IInv'
<1>1. /\ k.current = t /\ ~k.swi /\ pc[t] = "dying"
      /\ Do(Yield(k))
      /\ UNCHANGED <<pended, made, pc, handle, notifyState, notifyValue, stopped>>
  BY DEF DeleteYield, At
<1>2. k' = YieldIf(k, TRUE) /\ Do(k')
  BY <1>1 DEF Do, YieldIf
<1>3. /\ Become(k', k, Rd(k), Waiting(k), k.suspended, Gn(k), Put(k))
      /\ Stays(k', k) /\ k'.swi = (k.swi \/ TRUE)
  BY <1>2, BecomeItself, ThenYield
<1>4. Live' = Live
  BY <1>1 DEF Live
<1>5. k.schedulerSuspended = 0 /\ handle = Idle
  BY <1>1, Facts DEF Phases, Holding
<1>6. /\ Typed' /\ Kernels' /\ Phases' /\ Delayed'
      /\ Rd(k') = Rd(k) /\ Waiting(k') = Waiting(k) /\ k'.suspended = k.suspended
      /\ Gn(k') = Gn(k) /\ Put(k') = Put(k) /\ Listed(k') = Listed(k)
  <2>1. Steady
    BY <1>1, <1>2, <1>3, <1>5, Facts DEF Steady, Stays, Kernels, Typed
  <2>2. QED
    BY <1>3, <2>1, SameParts
<1>7. Everybody'
  BY <1>1, <1>6, Facts DEF Everybody
<1>8. Running'
  BY <1>3, <1>5 DEF Running, Stays
<1>9. Stopping'
  BY <1>1, <1>3, <1>4, <1>6, Facts DEF Stopping, Stays
<1>10. Notified'
  BY <1>1, <1>4, <1>6, Facts DEF Notified
<1>11. QED
  BY <1>6, <1>7, <1>8, <1>9, <1>10 DEF IInv

(* prvCheckTasksWaitingTermination, in the idle task, keeps the invariant. *)
LEMMA IdleCleanUpKeeps ==
  ASSUME IInv, IdleCleanUp
  PROVE  IInv'
<1> DEFINE u == Head(k.terminated)
<1>1. /\ k.current = Idle /\ ~k.swi /\ k.terminated # << >>
      /\ k' = [k EXCEPT !.terminated = Tail(@)] /\ Do(k')
      /\ Goto(u, "none") /\ Forget(u)
      /\ UNCHANGED <<pended, handle, notifyState, notifyValue, stopped>>
  BY DEF IdleCleanUp, Do
<1>2. /\ Become(k', k, Rd(k), Waiting(k), k.suspended, Gn(k) \ {u}, Put(k))
      /\ u \in Gn(k) /\ u \in All
      /\ Stays(k', k) /\ k'.swi = k.swi /\ k'.yieldPending = k.yieldPending
  BY <1>1, Facts, FreeBecomes DEF Put
<1> HIDE DEF u
<1>3. /\ k.schedulerSuspended = 0 /\ k.pendedTicks = 0 /\ Put(k) = {} /\ handle = Idle
      /\ Idle \in Rd(k) /\ NoneAbove(k) /\ \A x \in All : pc[x] \notin Holding
  <2>1. pc[Idle] = "app"
    BY Facts DEF Everybody
  <2>2. k.schedulerSuspended = 0 /\ handle = Idle /\ \A x \in All : pc[x] \notin Holding
    BY <1>1, <2>1, Facts DEF Phases, Holding
  <2>3. QED
    BY <1>1, <2>1, <2>2, Facts DEF Kernels, Running, NoneButMade, NoneAbove, Leaving
<1>4. u # Idle /\ pc[u] = "dying" /\ u \in Tasks /\ u \notin Live
  BY <1>2, Facts DEF Everybody, Live
<1>5. pc' \in [All -> PCs] /\ pc'[u] = "none" /\ \A x \in All \ {u} : pc'[x] = pc[x]
  BY <1>1, <1>2, Facts DEF Goto, Typed, PCs
<1>6. Live' = Live /\ \A x \in All : pc'[x] \notin Holding
  BY <1>3, <1>4, <1>5, Facts DEF Live, Holding
<1>7. Steady
  <2>1. made' \in [Tasks -> All]
    BY <1>1, Facts, ForgetFacts
  <2>2. QED
    BY <1>1, <1>2, <1>3, <1>5, <1>6, <2>1, Facts DEF Steady, Stays, Kernels, Typed
<1>8. /\ Typed' /\ Kernels' /\ Phases' /\ Delayed'
      /\ Rd(k') = Rd(k) /\ Waiting(k') = Waiting(k) /\ k'.suspended = k.suspended
      /\ Gn(k') = Gn(k) \ {u} /\ Put(k') = Put(k)
      /\ Listed(k') = Rd(k) \cup Waiting(k) \cup k.suspended \cup (Gn(k) \ {u})
  <2>1. Idle \in Rd(k) /\ Waiting(k) \subseteq Waiting(k)
    BY <1>3
  <2>2. QED
    BY <1>2, <1>3, <1>7, <2>1, StepParts
<1>9. Listed(k') = Listed(k) \ {u}
  <2>1. /\ Listed(k) = Rd(k) \cup Waiting(k) \cup k.suspended \cup Gn(k)
        /\ Gn(k) \cap (Rd(k) \cup Waiting(k) \cup k.suspended) = {}
    BY Where
  <2>2. QED
    BY <1>2, <1>8, <2>1
<1>10. Everybody'
  BY <1>1, <1>2, <1>3, <1>4, <1>5, <1>8, <1>9, Facts DEF Everybody
<1>11. Running'
  BY <1>1, <1>2, <1>3, <1>8, Facts DEF Running, NoneButMade, Stays, NoneAbove
<1>12. Stopping'
  BY <1>1, <1>2, <1>4, <1>5, <1>6, <1>8, Facts DEF Stopping, Stays, Live
<1>13. Notified'
  BY <1>1, <1>3, <1>4, <1>5, <1>6, <1>8, Facts DEF Notified, Live
<1>14. QED
  BY <1>8, <1>10, <1>11, <1>12, <1>13 DEF IInv


(* The first half of ulTaskNotifyTake and xTaskNotifyWait, where the task  *)
(* begins to wait, keeps the invariant.                                    *)
LEMMA NotifyBlockKeeps ==
  ASSUME IInv, NEW t \in Tasks, NEW ticks \in 0 .. MaxDelay, NEW how \in {"take", "wait"},
         NotifyBlock(t, ticks, how)
  PROVE  IInv'
<1> DEFINE blocks == IF how = "take" THEN notifyValue[t] = 0 ELSE notifyState[t] # "received"
           v == AddCurrentToDelayed(k, ticks, TRUE)
<1>1. PICK n \in {0, notifyValue[t]} :
        /\ k.current = t /\ ~k.swi /\ pc[t] = "app" /\ Goto(t, how)
        /\ notifyState' = [notifyState EXCEPT ![t] = IF blocks THEN "waiting" ELSE @]
        /\ n = notifyValue[t] \/ (how = "wait" /\ blocks)
        /\ notifyValue' = [notifyValue EXCEPT ![t] = n]
        /\ IF blocks /\ ticks > 0 THEN DoBlock(Yield(v), t, ticks) ELSE Do(k)
        /\ UNCHANGED <<pended, made, handle, stopped>>
  BY DEF NotifyBlock, At
<1>2. /\ k.schedulerSuspended = 0 /\ k.pendedTicks = 0 /\ Put(k) = {} /\ handle = Idle
      /\ t \in Rd(k) /\ NoneAbove(k) /\ t \in Live /\ t \notin stopped
      /\ \A x \in All : pc[x] \notin Holding
  BY <1>1, AppFacts DEF Holding, Leaving
<1>3. /\ pc' \in [All -> PCs] /\ pc'[t] = how /\ \A x \in All \ {t} : pc'[x] = pc[x]
      /\ Live' = Live
  BY <1>1, <1>2, Facts, GotoFacts DEF PCs
<1>4. \A x \in All : pc'[x] \notin Holding
  BY <1>2, <1>3 DEF Holding
<1>5. blocks => (how = "take" => notifyValue[t] = 0)
  OBVIOUS
<1> HIDE DEF blocks
<1>6. /\ notifyState' \in [Tasks -> {"none", "waiting", "received"}]
      /\ notifyValue' \in [Tasks -> 0 .. MaxNotify]
      /\ (blocks => notifyState'[t] = "waiting") /\ notifyValue'[t] = n
      /\ \A x \in Tasks \ {t} : /\ notifyState'[x] = notifyState[x]
                                /\ notifyValue'[x] = notifyValue[x]
  <2>1. n \in 0 .. MaxNotify
    BY <1>1, Facts, TasksAssumption DEF Typed
  <2>2. QED
    BY <1>1, <2>1, Facts DEF Typed
<1>7. blocks /\ how = "take" => notifyValue'[t] = 0
  BY <1>1, <1>5, <1>6
<1>8. CASE blocks /\ ticks > 0
  <2>1. /\ k' = Yield(v) /\ ticks \in 1 .. Ticks - 1
        /\ left' = [u \in Tasks |-> IF u \notin Timed(k') THEN 0
                                    ELSE IF u = t THEN ticks - k.pendedTicks ELSE left[u]]
    <3>1. /\ k' = Yield(v)
          /\ left' = [u \in Tasks |-> IF u \notin Timed(k') THEN 0
                                      ELSE IF u = t THEN ticks - k.pendedTicks ELSE left[u]]
      BY <1>1, <1>8 DEF DoBlock
    <3>2. ticks \in 1 .. Ticks - 1
      BY <1>8, KernelAssumption DEF MaxDelay
    <3>3. QED
      BY <3>1, <3>2
  <2>2. /\ Sound(k') /\ Timely(k')
        /\ Rd(k') = Rd(k) \ {t} /\ Gn(k') = Gn(k) \ {t}
        /\ \/ /\ Waiting(k') = Waiting(k) \ {t} /\ k'.suspended = k.suspended \cup {t}
           \/ /\ Waiting(k') = Waiting(k) \cup {t} /\ k'.suspended = k.suspended \ {t}
        /\ Put(k') = Put(k)
        /\ t \in Waiting(k') => Dist(k', t) = ticks
        /\ \A x \in Waiting(k') : x # t => Dist(k', x) = Dist(k, x)
        /\ Stays(k', k) /\ k'.swi = TRUE
    <3>1. Sound(k) /\ Timely(k) /\ ticks \in 1 .. Ticks - 1 /\ k.current = t
      BY <1>1, <2>1, Facts
    <3> DEFINE u == Yield(v)
    <3>2. /\ Sound(u) /\ Timely(u)
          /\ Rd(u) = Rd(k) \ {k.current} /\ Gn(u) = Gn(k) \ {k.current}
          /\ \/ /\ Waiting(u) = Waiting(k) \ {k.current}
                /\ u.suspended = k.suspended \cup {k.current}
             \/ /\ Waiting(u) = Waiting(k) \cup {k.current}
                /\ u.suspended = k.suspended \ {k.current}
          /\ Ev(u, Pending) = Ev(k, Pending)
          /\ k.current \in Waiting(u) => Dist(u, k.current) = ticks
          /\ \A x \in Waiting(u) : x # k.current => Dist(u, x) = Dist(k, x)
          /\ Stays(u, k) /\ u.swi = TRUE
      BY <3>1, BlockBecomes
    <3>3. k' = u
      BY <2>1
    <3> HIDE DEF u
    <3>4. QED
      BY <3>1, <3>2, <3>3 DEF Put
  <2> HIDE DEF v
  <2>3. Idle \in Rd(k') /\ t \notin Gn(k) /\ t \in Listed(k)
    BY <1>2, <2>2, Facts, Where
  <2>4. Waiting(k') \subseteq Tasks /\ Waiting(k') = Timed(k')
    BY <2>2, <2>3, WaitersAreTasks
  <2>5. Gn(k') = Gn(k) /\ Listed(k') = Listed(k)
    <3>1. Listed(k') = Rd(k') \cup Waiting(k') \cup k'.suspended \cup Gn(k')
      BY <2>2, <2>3, WaitersAreTasks
    <3>2. Listed(k) = Rd(k) \cup Waiting(k) \cup k.suspended \cup Gn(k)
      BY Where
    <3>3. QED
      BY <2>2, <2>3, <3>1, <3>2
  <2>6. left \in [Tasks -> 0 .. MaxDelay] /\ Ticks \in Nat \ {0} /\ MaxDelay = Ticks - 1
    BY Facts, KernelAssumption DEF Typed, MaxDelay
  <2>7. \A x \in Waiting(k') : left'[x] = Dist(k', x) /\ left'[x] \in 1 .. MaxDelay
    <3>1. TAKE x \in Waiting(k')
    <3>2. Dist(k', x) \in 1 .. MaxDelay
      BY <2>2, <2>6, DistRight
    <3>3. x \in Tasks /\ x \in Timed(k')
      BY <2>4
    <3>4. CASE x = t
      BY <1>2, <2>1, <2>2, <3>2, <3>3, <3>4
    <3>5. CASE x # t
      <4>1. x \in Waiting(k) /\ left'[x] = left[x] /\ Dist(k', x) = Dist(k, x)
        BY <2>1, <2>2, <3>3, <3>5
      <4>2. left[x] = IF Dist(k, x) > 0 THEN Dist(k, x) - 0 ELSE 0
        BY <1>2, <4>1, Facts DEF Delayed
      <4>3. QED
        BY <2>6, <3>2, <4>1, <4>2
    <3>6. QED
      BY <3>4, <3>5
  <2>8. Delayed'
    <3>1. ASSUME NEW x \in Waiting(k')
          PROVE  left'[x] = IF Dist(k', x) > k'.pendedTicks
                            THEN Dist(k', x) - k'.pendedTicks ELSE 0
      <4>1. left'[x] = Dist(k', x) /\ left'[x] \in 1 .. MaxDelay /\ k'.pendedTicks = 0
        BY <1>2, <2>2, <2>7 DEF Stays
      <4>2. QED
        BY <2>6, <4>1
    <3>2. QED
      BY <3>1 DEF Delayed
  <2>9. left' \in [Tasks -> 0 .. MaxDelay]
    <3>1. left' = [x \in Tasks |-> left'[x]]
      BY <2>1
    <3>2. \A x \in Tasks : left'[x] \in 0 .. MaxDelay
      <4>1. TAKE x \in Tasks
      <4>2. CASE x \in Timed(k')
        BY <2>4, <2>7, <4>2
      <4>3. CASE x \notin Timed(k')
        BY <2>1, <2>6, <4>3
      <4>4. QED
        BY <4>2, <4>3
    <3>3. QED
      BY <3>1, <3>2
  <2>10. Typed'
    BY <1>1, <1>3, <1>6, <2>9, Facts DEF Typed
  <2>11. Kernels'
    BY <1>2, <2>2, Facts DEF Kernels, Stays
  <2>12. Everybody'
    BY <1>1, <1>2, <1>3, <2>3, <2>5, Facts DEF Everybody, Live
  <2>13. Phases'
    BY <1>1, <1>2, <1>4, <2>2, Facts DEF Phases, Stays, Holding
  <2>14. Running'
    BY <1>2, <2>2 DEF Running, NoneButMade, NoneAbove, Stays
  <2>15. Stopping'
    BY <1>1, <1>2, <1>3, <1>6, <2>2, Facts DEF Stopping, Stays, Live
  <2>16. Notified'
    BY <1>1, <1>2, <1>3, <1>6, <1>7, <1>8, <2>2, Facts DEF Notified, Live
  <2>17. QED
    BY <2>8, <2>10, <2>11, <2>12, <2>13, <2>14, <2>15, <2>16 DEF IInv
<1>9. CASE ~ (blocks /\ ticks > 0)
  <2>1. k' = k /\ Do(k')
    BY <1>1, <1>9 DEF Do
  <2>2. /\ Typed' /\ Kernels' /\ Phases' /\ Delayed'
    <3>1. Steady
      BY <1>1, <1>2, <1>3, <1>4, <1>6, <2>1, Facts DEF Steady, Kernels, Typed
    <3>2. Become(k', k, Rd(k), Waiting(k), k.suspended, Gn(k), Put(k))
      BY <2>1, BecomeItself
    <3>3. QED
      BY <3>1, <3>2, SameParts
  <2>3. Everybody' /\ Running'
    BY <1>1, <1>2, <1>3, <2>1, Facts DEF Everybody, Running, NoneButMade, NoneAbove, Live
  <2>4. Stopping'
    BY <1>1, <1>2, <1>3, <1>6, <2>1, Facts DEF Stopping, Live
  <2>5. Notified'
    BY <1>1, <1>2, <1>3, <1>6, <2>1, Facts DEF Notified, Live
  <2>6. QED
    BY <2>2, <2>3, <2>4, <2>5 DEF IInv
<1>10. QED
  BY <1>8, <1>9


(* The first half of xTaskAbortDelay, which takes the task out of its list,*)
(* keeps the invariant.                                                    *)
LEMMA AbortDelayKeeps ==
  ASSUME IInv, NEW t \in Tasks, NEW u \in Tasks, AbortDelay(t, u)
  PROVE  IInv'
<1>1. /\ k.current = t /\ ~k.swi /\ pc[t] = "held" /\ k.schedulerSuspended = 1
      /\ u \in Live /\ u # t /\ GetState(u) = "blocked"
      /\ k' = Unlink(k, {u}) /\ Do(k')
      /\ Goto(t, "abort") /\ handle' = u
      /\ UNCHANGED <<pended, made, notifyState, notifyValue, stopped>>
  BY DEF AbortDelay, At, Do
<1>2. /\ t \in Rd(k) /\ (k.yieldPending \/ NoneAbove(k)) /\ t \in Live /\ t \notin stopped
      /\ handle = Idle
  BY <1>1, HoldFacts, Facts DEF Holding, Phases
<1>3. u \in All /\ u # Idle /\ u \in Listed(k) /\ u \notin Gn(k)
  BY <1>1, <1>2, Facts DEF Everybody, Live
<1>4. u \in Timed(k) \/ (u \in k.suspended /\ (u \in Put(k) \/ notifyState[u] = "waiting"))
  <2>1. CASE u \in Timed(k)
    BY <2>1
  <2>2. CASE u \notin Timed(k) /\ u \in k.suspended
    <3>1. ~ (IsSuspended(u) /\ notifyState[u] # "waiting")
      BY <1>1, <2>2 DEF GetState
    <3>2. QED
      BY <1>3, <2>2, <3>1, NobodyWaits
  <2>3. CASE u \notin Timed(k) /\ u \notin k.suspended
    <3>1. GetState(u) \in {"ready", "deleted"}
      BY <1>1, <2>3 DEF GetState
    <3>2. QED
      BY <1>1, <3>1
  <2>4. QED
    BY <2>1, <2>2, <2>3
<1>5. u \notin stopped /\ u \notin Rd(k)
  BY <1>1, <1>4, Facts, Where DEF Stopping
<1>6. /\ Become(k', k, Rd(k) \ {u}, Waiting(k) \ {u}, k.suspended \ {u}, Gn(k) \ {u}, Put(k))
      /\ Stays(k', k) /\ k'.swi = k.swi /\ k'.yieldPending = k.yieldPending
  BY <1>1, Facts, UnlinkBecomes DEF Put, Frame
<1>7. Idle \in Rd(k) \ {u}
  BY <1>3, Facts
<1>8. /\ Sound(k') /\ Timely(k')
      /\ Rd(k') = Rd(k) \ {u} /\ Waiting(k') = Waiting(k) \ {u}
      /\ k'.suspended = k.suspended \ {u} /\ Gn(k') = Gn(k) \ {u} /\ Put(k') = Put(k)
      /\ Listed(k') = (Rd(k) \ {u}) \cup (Waiting(k) \ {u}) \cup (k.suspended \ {u})
                        \cup (Gn(k) \ {u})
  BY <1>6, <1>7, BecomeMeans
<1>9. Rd(k') = Rd(k) /\ Gn(k') = Gn(k) /\ Listed(k') = Listed(k) \ {u}
  <2>1. Listed(k) = Rd(k) \cup Waiting(k) \cup k.suspended \cup Gn(k)
    BY Where
  <2>2. QED
    BY <1>3, <1>5, <1>8, <2>1
<1>10. /\ pc' \in [All -> PCs] /\ pc'[t] = "abort" /\ \A x \in All \ {t} : pc'[x] = pc[x]
       /\ Live' = Live
  BY <1>1, <1>2, Facts, GotoFacts DEF PCs
<1>11. Delayed' /\ left' \in [Tasks -> 0 .. MaxDelay]
  <2>1. Waiting(k) \ {u} \subseteq Waiting(k) /\ k'.pendedTicks = k.pendedTicks
    BY <1>6 DEF Stays
  <2>2. QED
    BY <1>1, <1>6, <2>1, Facts, DelayedKept
<1>12. Typed'
  BY <1>1, <1>3, <1>10, <1>11, Facts DEF Typed
<1>13. Kernels'
  BY <1>1, <1>6, <1>8, Facts DEF Kernels, Stays
<1>14. Everybody'
  BY <1>1, <1>2, <1>3, <1>9, <1>10, Facts DEF Everybody, Live
<1>15. Phases'
  BY <1>1, <1>2, <1>3, <1>6, <1>10, Facts DEF Phases, Holding, Stays
<1>16. Running'
  <2>1. /\ k'.current = t /\ k'.schedulerSuspended = 1 /\ k'.priority = k.priority
        /\ k'.yieldPending = k.yieldPending /\ Rd(k') = Rd(k) /\ t \in Rd(k)
    BY <1>1, <1>2, <1>6, <1>9 DEF Stays
  <2>2. NoneAbove(k) => NoneAbove(k')
    BY <1>1, <2>1 DEF NoneAbove
  <2>3. QED
    BY <1>2, <2>1, <2>2 DEF Running, NoneButMade, NoneAbove
<1>17. Stopping'
  BY <1>1, <1>5, <1>6, <1>8, <1>10, Facts DEF Stopping, Stays, Live
<1>18. Notified'
  BY <1>1, <1>2, <1>8, <1>9, <1>10, Facts DEF Notified, Live
<1>19. QED
  BY <1>11, <1>12, <1>13, <1>14, <1>15, <1>16, <1>17, <1>18 DEF IInv

(* The second half of xTaskAbortDelay, which makes it ready, keeps the     *)
(* invariant.                                                              *)
LEMMA AbortReadyKeeps ==
  ASSUME IInv, NEW t \in Tasks, AbortReady(t)
  PROVE  IInv'
<1> DEFINE u == handle
<1>1. /\ k.current = t /\ ~k.swi /\ pc[t] = "abort" /\ u # Idle
      /\ k' = AbortWait(k, u) /\ Do(k') /\ handle' = Idle
      /\ UNCHANGED <<pended, made, pc, notifyState, notifyValue, stopped>>
  BY DEF AbortReady, At, Do
<1>2. /\ t \in Rd(k) /\ (k.yieldPending \/ NoneAbove(k)) /\ t \in Live /\ t \notin stopped
      /\ k.schedulerSuspended # 0
  BY <1>1, HoldFacts DEF Holding
<1>3. u \in Live /\ u \in All /\ u \notin Listed(k) /\ u # t
  BY <1>1, Facts DEF Typed, Phases, Everybody
<1> HIDE DEF u
<1>4. /\ Become(k', k, Rd(k) \cup {u}, Waiting(k), k.suspended, Gn(k), Put(k) \ {u})
      /\ Stays(k', k) /\ k'.swi = k.swi
      /\ k'.yieldPending = (k.yieldPending \/ k.priority[u] > k.priority[k.current])
  BY <1>1, <1>3, Facts, AbortBecomes DEF Put
<1>5. Idle \in Rd(k) \cup {u}
  BY Facts
<1>6. /\ Sound(k') /\ Timely(k')
      /\ Rd(k') = Rd(k) \cup {u} /\ Waiting(k') = Waiting(k)
      /\ k'.suspended = k.suspended /\ Gn(k') = Gn(k) /\ Put(k') = Put(k) \ {u}
      /\ Listed(k') = (Rd(k) \cup {u}) \cup Waiting(k) \cup k.suspended \cup Gn(k)
  BY <1>4, <1>5, BecomeMeans
<1>7. Listed(k') = Listed(k) \cup {u}
  <2>1. Listed(k) = Rd(k) \cup Waiting(k) \cup k.suspended \cup Gn(k)
    BY Where
  <2>2. QED
    BY <1>6, <2>1
<1>8. Delayed' /\ left' \in [Tasks -> 0 .. MaxDelay]
  <2>1. Waiting(k) \subseteq Waiting(k) /\ k'.pendedTicks = k.pendedTicks
    BY <1>4 DEF Stays
  <2>2. QED
    BY <1>1, <1>4, <2>1, Facts, DelayedKept
<1>9. Typed'
  BY <1>1, <1>8, Facts DEF Typed
<1>10. Kernels'
  BY <1>2, <1>4, <1>6, Facts DEF Kernels, Stays
<1>11. Everybody'
  BY <1>1, <1>3, <1>6, <1>7, Facts DEF Everybody, Live, u
<1>12. Phases'
  BY <1>1, <1>2, <1>4, Facts DEF Phases, Holding, Stays
<1>13. Running'
  <2>1. CASE k.yieldPending \/ k.priority[u] > k.priority[k.current]
    BY <1>1, <1>2, <1>4, <1>6, <2>1 DEF Running, NoneButMade, NoneAbove, Stays
  <2>2. CASE ~k.yieldPending /\ ~ (k.priority[u] > k.priority[k.current])
    <3>1. NoneAbove(k')
      BY <1>1, <1>2, <1>3, <1>4, <1>6, <2>2, YieldToHigher DEF Stays
    <3>2. QED
      BY <1>1, <1>2, <1>4, <1>6, <3>1 DEF Running, NoneButMade, NoneAbove, Stays
  <2>3. QED
    BY <2>1, <2>2
<1>14. Stopping'
  BY <1>1, <1>4, <1>6, Facts DEF Stopping, Stays, Live
<1>15. Notified'
  BY <1>1, <1>6, Facts DEF Notified, Live, u
<1>16. QED
  BY <1>8, <1>9, <1>10, <1>11, <1>12, <1>13, <1>14, <1>15 DEF IInv

(* The first half of xTaskCatchUpTicks, which reads the ticks put off,     *)
(* keeps the invariant.                                                    *)
LEMMA CatchUpReadKeeps ==
  ASSUME IInv, NEW t \in Tasks, CatchUpRead(t)
  PROVE  IInv'
<1>1. /\ k.current = t /\ ~k.swi /\ pc[t] = "held" /\ k.schedulerSuspended = 1
      /\ k.pendedTicks < MaxPended
      /\ Goto(t, "catch") /\ pended' = k.pendedTicks
      /\ UNCHANGED <<k, made, handle, notifyState, notifyValue, left, stopped>>
  BY DEF CatchUpRead, At
<1>2. /\ t \in Rd(k) /\ (k.yieldPending \/ NoneAbove(k)) /\ t \in Live /\ t \notin stopped
      /\ handle = Idle
  BY <1>1, HoldFacts, Facts DEF Holding, Phases
<1>3. /\ pc' \in [All -> PCs] /\ pc'[t] = "catch" /\ \A x \in All \ {t} : pc'[x] = pc[x]
      /\ Live' = Live
  BY <1>1, <1>2, Facts, GotoFacts DEF PCs
<1>4. Typed' /\ Kernels' /\ Delayed'
  BY <1>1, <1>3, Facts, TasksAssumption DEF Typed, Kernels, Delayed
<1>5. Everybody'
  BY <1>1, <1>2, <1>3, Facts DEF Everybody, Live
<1>6. Phases'
  BY <1>1, <1>2, <1>3, Facts DEF Phases, Holding
<1>7. Running'
  BY <1>1, <1>2, Facts DEF Running, NoneButMade, NoneAbove
<1>8. Stopping'
  BY <1>1, <1>3, Facts DEF Stopping, Live
<1>9. Notified'
  BY <1>1, <1>3, Facts DEF Notified, Live
<1>10. QED
  BY <1>4, <1>5, <1>6, <1>7, <1>8, <1>9 DEF IInv

(* The second half of xTaskCatchUpTicks, which writes them, keeps the      *)
(* invariant.                                                              *)
LEMMA CatchUpTicksKeeps ==
  ASSUME IInv, NEW t \in Tasks, NEW n \in 1 .. MaxPended, CatchUpTicks(t, n)
  PROVE  IInv'
<1> DEFINE missing == k.pendedTicks - pended
           now == pended + n
           less == n - missing
<1>1. /\ k.current = t /\ ~k.swi /\ pc[t] = "catch" /\ missing <= n /\ now <= MaxPended
      /\ k' = [k EXCEPT !.pendedTicks = now] /\ pended' = 0
      /\ left' = [u \in Tasks |-> IF left[u] + missing > n THEN left[u] + missing - n ELSE 0]
      /\ Goto(t, "abort")
      /\ UNCHANGED <<made, handle, notifyState, notifyValue, stopped>>
  BY DEF CatchUpTicks, At
<1>2. /\ t \in Rd(k) /\ (k.yieldPending \/ NoneAbove(k)) /\ t \in Live /\ t \notin stopped
      /\ handle = Idle /\ k.schedulerSuspended # 0
  BY <1>1, HoldFacts, Facts DEF Holding, Phases
<1>3. /\ pended \in Nat /\ k.pendedTicks \in Nat /\ n \in Nat
      /\ now \in Nat /\ less \in Nat /\ now = k.pendedTicks + less
      /\ \A x \in Nat : /\ x + missing > n <=> x > less
                        /\ x + missing - n = x - less
  BY <1>1, Facts, TasksAssumption DEF Typed
<1>4. left' = [u \in Tasks |-> IF left[u] > less THEN left[u] - less ELSE 0]
  <2>1. \A u \in Tasks : left[u] \in Nat
    BY Facts, KernelAssumption DEF Typed, MaxDelay
  <2> HIDE DEF missing, less
  <2>2. QED
    BY <1>1, <1>3, <2>1
<1> HIDE DEF missing, now, less
<1>5. /\ Become(k', k, Rd(k), Waiting(k), k.suspended, Gn(k), Put(k))
      /\ k'.current = k.current /\ k'.schedulerSuspended = k.schedulerSuspended
      /\ k'.pendedTicks = now /\ k'.tick = k.tick
      /\ k'.priority = k.priority /\ k'.base = k.base
      /\ k'.swi = k.swi /\ k'.yieldPending = k.yieldPending
  BY <1>1, <1>3, Facts, CountBecomes DEF Put
<1>6. /\ Sound(k') /\ Timely(k') /\ Rd(k') = Rd(k) /\ Waiting(k') = Waiting(k)
      /\ k'.suspended = k.suspended /\ Gn(k') = Gn(k) /\ Put(k') = Put(k)
      /\ \A x \in Waiting(k) : Dist(k', x) = Dist(k, x)
  BY <1>5, Facts, BecomeMeans
<1>7. Listed(k') = Listed(k)
  BY <1>6, Facts, Where, WaitersAreTasks
<1>8. /\ pc' \in [All -> PCs] /\ pc'[t] = "abort" /\ \A x \in All \ {t} : pc'[x] = pc[x]
      /\ Live' = Live
  BY <1>1, <1>2, Facts, GotoFacts DEF PCs
<1>9. left \in [Tasks -> 0 .. MaxDelay] /\ MaxDelay \in Nat
  BY Facts, KernelAssumption DEF Typed, MaxDelay
<1>10. left' \in [Tasks -> 0 .. MaxDelay]
  <2>1. \A x \in Tasks : (IF left[x] > less THEN left[x] - less ELSE 0) \in 0 .. MaxDelay
    BY <1>3, <1>9
  <2>2. QED
    BY <1>4, <2>1
<1>11. Delayed'
  <2>1. ASSUME NEW x \in Waiting(k')
        PROVE  left'[x] = IF Dist(k', x) > k'.pendedTicks
                          THEN Dist(k', x) - k'.pendedTicks ELSE 0
    <3>1. x \in Waiting(k) /\ x \in Tasks /\ Dist(k', x) = Dist(k, x) /\ k'.pendedTicks = now
      BY <1>5, <1>6, Where
    <3>2. PICK d \in Nat : d = Dist(k, x)
      BY <3>1, Facts, DistRight
    <3>3. left[x] = IF d > k.pendedTicks THEN d - k.pendedTicks ELSE 0
      BY <3>1, <3>2, Facts DEF Delayed
    <3>4. left'[x] = IF left[x] > less THEN left[x] - less ELSE 0
      BY <1>4, <3>1
    <3>5. left'[x] = IF d > now THEN d - now ELSE 0
      BY <1>3, <3>2, <3>3, <3>4
    <3>6. QED
      BY <3>1, <3>2, <3>5
  <2>2. QED
    BY <2>1 DEF Delayed
<1>12. Typed'
  BY <1>1, <1>8, <1>10, Facts, TasksAssumption DEF Typed
<1>13. Kernels'
  BY <1>2, <1>5, <1>6, Facts DEF Kernels
<1>14. Everybody'
  BY <1>1, <1>2, <1>6, <1>7, <1>8, Facts DEF Everybody, Live
<1>15. Phases'
  BY <1>1, <1>2, <1>5, <1>8, Facts DEF Phases, Holding
<1>16. Running'
  BY <1>1, <1>2, <1>5, <1>6, Facts DEF Running, NoneButMade, NoneAbove
<1>17. Stopping'
  BY <1>1, <1>5, <1>6, <1>8, Facts DEF Stopping, Live
<1>18. Notified'
  BY <1>1, <1>6, <1>8, Facts DEF Notified, Live
<1>19. QED
  BY <1>10, <1>11, <1>12, <1>13, <1>14, <1>15, <1>16, <1>17, <1>18 DEF IInv


(* The tick interrupt keeps the invariant.                                 *)
LEMMA TickKeeps ==
  ASSUME IInv, Tick
  PROVE  IInv'
<1>1. /\ k' = SysTick(k)
      /\ left' = [t \in Tasks |-> IF t \in Timed(k') /\ left[t] > 0 THEN left[t] - 1 ELSE 0]
      /\ UNCHANGED <<pended, made, pc, handle, notifyState, notifyValue, stopped>>
  BY DEF Tick
<1>2. left \in [Tasks -> 0 .. MaxDelay] /\ MaxDelay \in Nat
  BY Facts, KernelAssumption DEF Typed, MaxDelay
<1>3. left' \in [Tasks -> 0 .. MaxDelay]
  <2>1. \A x \in Tasks :
          (IF x \in Timed(k') /\ left[x] > 0 THEN left[x] - 1 ELSE 0) \in 0 .. MaxDelay
    BY <1>2
  <2>2. QED
    BY <1>1, <2>1
<1>4. Typed' /\ Live' = Live
  BY <1>1, <1>3, Facts DEF Typed, Live
<1>5. CASE k.schedulerSuspended # 0
  <2> DEFINE n == k.pendedTicks + 1
  <2>1. n \in Nat /\ k.pendedTicks \in Nat /\ k' = [k EXCEPT !.pendedTicks = n]
    BY <1>1, <1>5, Facts, TickPutOff
  <2> HIDE DEF n
  <2>2. /\ Become(k', k, Rd(k), Waiting(k), k.suspended, Gn(k), Put(k))
        /\ k'.current = k.current /\ k'.schedulerSuspended = k.schedulerSuspended
        /\ k'.pendedTicks = n /\ k'.tick = k.tick
        /\ k'.priority = k.priority /\ k'.base = k.base
        /\ k'.swi = k.swi /\ k'.yieldPending = k.yieldPending
    BY <2>1, Facts, CountBecomes DEF Put
  <2>3. /\ Sound(k') /\ Timely(k') /\ Rd(k') = Rd(k) /\ Waiting(k') = Waiting(k)
        /\ k'.suspended = k.suspended /\ Gn(k') = Gn(k) /\ Put(k') = Put(k)
        /\ \A x \in Waiting(k) : Dist(k', x) = Dist(k, x)
    BY <2>2, Facts, BecomeMeans
  <2>4. Listed(k') = Listed(k) /\ Waiting(k') = Timed(k')
    BY <2>3, Facts, Where, WaitersAreTasks
  <2>5. Delayed'
    <3>1. ASSUME NEW x \in Waiting(k')
          PROVE  left'[x] = IF Dist(k', x) > k'.pendedTicks
                            THEN Dist(k', x) - k'.pendedTicks ELSE 0
      <4>1. /\ x \in Waiting(k) /\ x \in Tasks /\ x \in Timed(k')
            /\ Dist(k', x) = Dist(k, x) /\ k'.pendedTicks = n
        BY <2>2, <2>3, <2>4, Where
      <4>2. PICK d \in Nat : d = Dist(k, x)
        BY <4>1, Facts, DistRight
      <4>3. left[x] = IF d > k.pendedTicks THEN d - k.pendedTicks ELSE 0
        BY <4>1, <4>2, Facts DEF Delayed
      <4>4. left'[x] = IF left[x] > 0 THEN left[x] - 1 ELSE 0
        BY <1>1, <4>1
      <4>5. left'[x] = IF d > n THEN d - n ELSE 0
        BY <2>1, <4>2, <4>3, <4>4 DEF n
      <4>6. QED
        BY <4>1, <4>2, <4>5
    <3>2. QED
      BY <3>1 DEF Delayed
  <2>6. Kernels'
    BY <1>5, <2>2, <2>3, Facts DEF Kernels
  <2>7. Everybody'
    BY <1>1, <2>3, <2>4, Facts DEF Everybody
  <2>8. Phases'
    <3>1. k'.pendedTicks >= k.pendedTicks /\ k'.pendedTicks \in Nat
      BY <2>1, <2>2 DEF n
    <3>2. pended \in Nat
      BY Facts, TasksAssumption DEF Typed
    <3>3. pc[k.current] = "catch" => pended <= k'.pendedTicks
      BY <2>1, <3>1, <3>2, Facts DEF Phases
    <3>4. QED
      BY <1>1, <1>4, <2>2, <3>3, Facts DEF Phases
  <2>9. Running'
    BY <1>1, <1>5, <2>2, <2>3, Facts DEF Running, NoneButMade, NoneAbove
  <2>10. Stopping'
    BY <1>1, <1>4, <2>2, <2>3, Facts DEF Stopping
  <2>11. Notified'
    BY <1>1, <1>4, <2>3, Facts DEF Notified
  <2>12. QED
    BY <1>4, <2>5, <2>6, <2>7, <2>8, <2>9, <2>10, <2>11 DEF IInv
<1>6. CASE k.schedulerSuspended = 0
  <2> DEFINE due == Within(k, 1)
  <2>1. /\ Sound(k') /\ Timely(k')
        /\ Rd(k') = Rd(k) \cup due /\ Waiting(k') = Waiting(k) \ due
        /\ k'.suspended = k.suspended /\ Gn(k') = Gn(k)
        /\ Put(k') = Put(k) \ due
        /\ \A x \in Waiting(k') : Dist(k', x) = Dist(k, x) - 1
        /\ k'.current = k.current /\ k'.schedulerSuspended = 0
        /\ k'.pendedTicks = k.pendedTicks
        /\ k'.priority = k.priority /\ k'.base = k.base
        /\ (\/ k.swi
            \/ \E x \in due : k.priority[x] >= k.priority[k.current]) => k'.swi
    BY <1>1, <1>6, Facts, TickBecomes DEF Put
  <2>2. due \subseteq Waiting(k)
    BY DEF Within
  <2> HIDE DEF due
  <2>3. /\ Put(k) = {} /\ Put(k') = {} /\ k.pendedTicks = 0 /\ handle = Idle
        /\ pc[k.current] \notin Holding
    BY <1>6, <2>1, Facts DEF Kernels, Phases, Holding
  <2>4. /\ Idle \in Rd(k') /\ Waiting(k') \subseteq Tasks /\ Waiting(k') = Timed(k')
        /\ Listed(k') = Rd(k') \cup Waiting(k') \cup k'.suspended \cup Gn(k')
    BY <2>1, Facts, WaitersAreTasks
  <2>5. Listed(k') = Listed(k)
    <3>1. Listed(k) = Rd(k) \cup Waiting(k) \cup k.suspended \cup Gn(k)
      BY Where
    <3>2. QED
      BY <2>1, <2>2, <2>4, <3>1
  <2>6. Delayed'
    <3>1. ASSUME NEW x \in Waiting(k')
          PROVE  left'[x] = IF Dist(k', x) > k'.pendedTicks
                            THEN Dist(k', x) - k'.pendedTicks ELSE 0
      <4>1. /\ x \in Waiting(k) /\ x \in Tasks /\ x \in Timed(k')
            /\ Dist(k', x) = Dist(k, x) - 1 /\ k'.pendedTicks = 0
        BY <2>1, <2>3, <2>4
      <4>2. PICK d \in Nat : d = Dist(k, x)
        BY <4>1, Facts, DistRight
      <4>3. left[x] = d
        BY <2>3, <4>1, <4>2, Facts DEF Delayed
      <4>4. Dist(k', x) \in 1 .. Ticks - 1
        BY <2>1, DistRight
      <4>5. PICK e \in Nat : e = Dist(k', x) /\ e > 0
        BY <4>4
      <4>6. left'[x] = IF left[x] > 0 THEN left[x] - 1 ELSE 0
        BY <1>1, <4>1
      <4>7. QED
        BY <4>1, <4>2, <4>3, <4>5, <4>6
    <3>2. QED
      BY <3>1 DEF Delayed
  <2>7. Kernels'
    BY <2>1, <2>3, Facts DEF Kernels
  <2>8. Everybody'
    BY <1>1, <2>1, <2>4, <2>5, Facts DEF Everybody
  <2>9. Phases'
    BY <1>1, <1>6, <2>1, <2>3, Facts DEF Phases, Holding
  <2>10. Running'
    <3>1. CASE ~k'.swi /\ pc[k.current] \notin Leaving
      <4>1. /\ k.current \in Rd(k) /\ NoneButMade
            /\ \A x \in due : ~ (k.priority[x] >= k.priority[k.current])
        BY <1>6, <2>1, <3>1, Facts DEF Running
      <4>2. \A x \in due : k.priority[x] <= k.priority[k.current]
        <5>1. TAKE x \in due
        <5>2. x \in All
          BY <2>2, Facts, Where
        <5>3. k.priority[x] \in Int /\ k.priority[k.current] \in Int
          BY <5>2, Facts
        <5>4. QED
          BY <4>1, <5>3
      <4>3. NoneButMade'
        BY <1>1, <2>1, <4>1, <4>2 DEF NoneButMade
      <4>4. QED
        BY <2>1, <4>1, <4>3 DEF Running
    <3>2. CASE k'.swi \/ pc[k.current] \in Leaving
      BY <1>1, <2>1, <3>2 DEF Running
    <3>3. QED
      BY <3>1, <3>2
  <2>11. Stopping'
    BY <1>1, <1>4, <2>1, <2>3, Facts DEF Stopping
  <2>12. Notified'
    BY <1>1, <1>4, <2>1, <2>3, Facts DEF Notified
  <2>13. QED
    BY <1>4, <2>6, <2>7, <2>8, <2>9, <2>10, <2>11, <2>12 DEF IInv
<1>7. QED
  BY <1>5, <1>6

(* The software interrupt, which switches tasks, keeps the invariant.      *)
LEMMA SwitchKeeps ==
  ASSUME IInv, Switch
  PROVE  IInv'
<1>1. /\ k.swi /\ k' = SwitchContext(k) /\ Do(k')
      /\ UNCHANGED <<pended, made, pc, handle, notifyState, notifyValue, stopped>>
  BY DEF Switch, Do
<1>2. Live' = Live
  BY <1>1 DEF Live
<1>3. Become(k', k, Rd(k), Waiting(k), k.suspended, Gn(k), Put(k))
      /\ k'.pendedTicks = k.pendedTicks
  <2>1. CASE k.schedulerSuspended = 0
    BY <1>1, <2>1, Facts, SwitchBecomes DEF Put
  <2>2. CASE k.schedulerSuspended # 0
    BY <1>1, <2>2, Facts, SwitchPutOff DEF Put, Stays
  <2>3. QED
    BY <2>1, <2>2
<1>4. /\ Sound(k') /\ Timely(k') /\ Rd(k') = Rd(k) /\ Waiting(k') = Waiting(k)
      /\ k'.suspended = k.suspended /\ Gn(k') = Gn(k) /\ Put(k') = Put(k)
  BY <1>3, Facts, BecomeMeans
<1>5. Listed(k') = Listed(k)
  BY <1>4, Facts, Where, WaitersAreTasks
<1>6. Delayed' /\ left' \in [Tasks -> 0 .. MaxDelay]
  <2>1. Waiting(k) \subseteq Waiting(k)
    OBVIOUS
  <2>2. QED
    BY <1>1, <1>3, <2>1, Facts, DelayedKept
<1>7. Typed'
  BY <1>1, <1>6, Facts DEF Typed
<1>8. Everybody'
  BY <1>1, <1>4, <1>5, Facts DEF Everybody
<1>9. Notified'
  BY <1>1, <1>2, <1>4, Facts DEF Notified
<1>10. CASE k.schedulerSuspended = 0
  <2>1. /\ k'.current \in Rd(k)
        /\ \A x \in Rd(k) : k.priority[x] <= k.priority[k'.current]
        /\ k'.schedulerSuspended = 0 /\ k'.priority = k.priority /\ k'.base = k.base
    BY <1>1, <1>10, Facts, SwitchBecomes
  <2>2. Put(k) = {} /\ k.pendedTicks = 0 /\ handle = Idle /\ \A x \in All : pc[x] \notin Holding
    BY <1>10, Facts DEF Kernels, Phases, Holding
  <2>3. k'.current \in All
    BY <2>1, Where
  <2>4. Kernels'
    BY <1>3, <1>4, <2>1, <2>2, Facts DEF Kernels
  <2>5. Phases'
    BY <1>1, <2>1, <2>2, <2>3 DEF Phases, Holding
  <2>6. Running'
    BY <1>4, <2>1 DEF Running, NoneButMade, NoneAbove
  <2>7. Stopping'
    BY <1>1, <1>2, <1>4, <2>2, Facts DEF Stopping
  <2>8. QED
    BY <1>6, <1>7, <1>8, <1>9, <2>4, <2>5, <2>6, <2>7 DEF IInv
<1>11. CASE k.schedulerSuspended # 0
  <2>1. Stays(k', k) /\ k'.yieldPending = TRUE
    BY <1>1, <1>11, Facts, SwitchPutOff
  <2>2. Kernels'
    BY <1>4, <1>11, <2>1, Facts DEF Kernels, Stays
  <2>3. Phases'
    BY <1>1, <1>2, <2>1, Facts DEF Phases, Stays
  <2>4. Running'
    BY <1>1, <1>4, <1>11, <2>1, Facts DEF Running, NoneButMade, NoneAbove, Stays
  <2>5. Stopping'
    BY <1>1, <1>2, <1>4, <2>1, Facts DEF Stopping, Stays
  <2>6. QED
    BY <1>6, <1>7, <1>8, <1>9, <2>2, <2>3, <2>4, <2>5 DEF IInv
<1>12. QED
  BY <1>10, <1>11

(* A step that changes nothing keeps the invariant.                        *)
LEMMA StutterKeeps ==
  ASSUME IInv, UNCHANGED vars
  PROVE  IInv'
<1>1. /\ k' = k /\ pc' = pc /\ handle' = handle /\ pended' = pended /\ left' = left
      /\ made' = made /\ notifyState' = notifyState /\ notifyValue' = notifyValue /\ stopped' = stopped
  BY DEF vars
<1>2. Live' = Live
  BY <1>1 DEF Live
<1>3. Typed' /\ Kernels' /\ Everybody'
  BY <1>1, Facts DEF Typed, Kernels, Everybody
<1>4. Phases' /\ Running' /\ Stopping'
  BY <1>1, <1>2, Facts DEF Phases, Running, NoneButMade, NoneAbove, Stopping
<1>5. Notified' /\ Delayed'
  BY <1>1, <1>2, Facts DEF Notified, Delayed
<1>6. QED
  BY <1>3, <1>4, <1>5 DEF IInv


(* An order in which the tasks are created has each of them once.          *)
LEMMA OrderIsComplete ==
  ASSUME NEW first \in Orders
  PROVE  first \in Seq(Tasks) /\ IsInjective(first) /\ ToSet(first) = Created
<1> DEFINE n == Cardinality(Created)
<1>1. IsFiniteSet(Created) /\ Created \subseteq Tasks
  BY TasksAssumption
<1>2. n \in Nat
  BY <1>1, FS_CardinalityType
<1> HIDE DEF n
<1>3. first \in [1 .. n -> Created] /\ IsInjective(first)
  BY DEF Orders, n
<1>4. first \in Injection(1 .. n, Created)
  BY <1>3 DEF Injection
<1>5. IsFiniteSet(1 .. n) /\ Cardinality(1 .. n) = n
  <2>1. Cardinality(1 .. n) = IF 1 > n THEN 0 ELSE n - 1 + 1
    BY <1>2, FS_Interval
  <2>2. QED
    BY <1>2, <2>1, FS_Interval
<1>6. first \in Surjection(1 .. n, Created)
  BY <1>1, <1>4, <1>5, FS_Injection DEF n
<1>7. \A u \in Created : \E i \in 1 .. n : first[i] = u
  BY <1>6 DEF Surjection
<1>8. first \in Seq(Tasks) /\ DOMAIN first = 1 .. n
  BY <1>1, <1>2, <1>3
<1>9. ToSet(first) = {first[i] : i \in 1 .. n}
  BY <1>8 DEF ToSet
<1>10. QED
  BY <1>3, <1>7, <1>8, <1>9

(* The invariant holds when the scheduler has been started.                *)
LEMMA InitIInv ==
  ASSUME Init
  PROVE  IInv
<1>1. PICK first \in Orders, priority \in [All -> Priority] :
        priority[Idle] = 0 /\ k = Started(first, priority)
  BY DEF Init
<1>2. /\ pc = [t \in All |-> IF t \in Created \cup {Idle} THEN "app" ELSE "none"]
      /\ handle = Idle /\ pended = 0 /\ made = [t \in Tasks |-> Idle]
      /\ notifyState = [t \in Tasks |-> "none"] /\ notifyValue = [t \in Tasks |-> 0]
      /\ left = [t \in Tasks |-> 0] /\ stopped = {}
  BY DEF Init
<1>3. first \in Seq(Tasks) /\ IsInjective(first) /\ ToSet(first) = Created
  BY OrderIsComplete
<1>4. /\ Sound(k) /\ Timely(k)
      /\ Rd(k) = ToSet(first) \cup {Idle} /\ Waiting(k) = {} /\ k.suspended = {}
      /\ Gn(k) = {} /\ \A l \in Events : Ev(k, l) = {}
      /\ k.current \in Rd(k) /\ \A t \in Rd(k) : k.priority[t] <= k.priority[k.current]
      /\ k.schedulerSuspended = 0 /\ k.pendedTicks = 0 /\ k.swi = FALSE
      /\ k.priority = priority /\ k.base = priority
  <2> DEFINE u == Started(first, priority)
  <2>1. /\ Sound(u) /\ Timely(u)
        /\ Rd(u) = ToSet(first) \cup {Idle} /\ Waiting(u) = {} /\ u.suspended = {}
        /\ Gn(u) = {} /\ \A l \in Events : Ev(u, l) = {}
        /\ u.current \in Rd(u) /\ \A t \in Rd(u) : u.priority[t] <= u.priority[u.current]
        /\ u.schedulerSuspended = 0 /\ u.pendedTicks = 0 /\ u.swi = FALSE
        /\ u.priority = priority /\ u.base = priority
    BY <1>3, StartedRight
  <2>2. k = u
    BY <1>1
  <2> HIDE DEF u
  <2>3. QED
    BY <2>1, <2>2
<1>5. Created \subseteq Tasks /\ Idle \notin Tasks /\ MaxNotify \in Nat /\ MaxPended \in Nat
  BY TasksAssumption, KernelAssumption
<1>6. Rd(k) = Created \cup {Idle} /\ Put(k) = {} /\ Listed(k) = Created \cup {Idle}
  <2>1. Rd(k) = Created \cup {Idle} /\ Put(k) = {}
    BY <1>3, <1>4 DEF Put, Events
  <2>2. Listed(k) = Rd(k) \cup Waiting(k) \cup k.suspended \cup Gn(k)
    BY <1>4, <2>1, WaitersAreTasks
  <2>3. QED
    BY <1>4, <2>1, <2>2
<1>7. Typed
  <2>1. 0 \in 0 .. MaxDelay
    BY KernelAssumption DEF MaxDelay
  <2>2. QED
    BY <1>2, <1>5, <2>1 DEF Typed, PCs, All
<1>8. Kernels
  BY <1>4, <1>6 DEF Kernels
<1>9. Everybody
  BY <1>2, <1>4, <1>5, <1>6 DEF Everybody, All
<1>10. \A t \in All : pc[t] \in {"app", "none"}
  BY <1>2
<1>11. k.current \in All
  BY <1>4 DEF Rd
<1>12. Phases
  BY <1>2, <1>4, <1>10, <1>11 DEF Phases, Holding
<1>13. Running
  BY <1>4 DEF Running, NoneButMade, NoneAbove
<1>14. Stopping
  BY <1>2, <1>6 DEF Stopping, Live
<1>15. Notified
  BY <1>5, <1>10 DEF Notified, Live, All
<1>16. Delayed
  BY <1>4 DEF Delayed
<1>17. QED
  BY <1>7, <1>8, <1>9, <1>12, <1>13, <1>14, <1>15, <1>16 DEF IInv

(* A step of a task inside a call keeps the invariant.                     *)
LEMMA ContinueKeeps ==
  ASSUME IInv, NEW t \in Tasks, Continue(t)
  PROVE  IInv'
<1>1. CASE CallResumeAll(t) \/ AbortReady(t) \/ SuspendEnd(t) \/ NotifyEnd(t) \/ CallYield(t)
  BY <1>1, CallResumeAllKeeps, AbortReadyKeeps, SuspendEndKeeps, NotifyEndKeeps, CallYieldKeeps
<1>2. CASE AddedYield(t) \/ DeleteYield(t)
  BY <1>2, AddedYieldKeeps, DeleteYieldKeeps
<1>3. CASE CatchUpRead(t) \/ \E n \in 1 .. MaxPended : CatchUpTicks(t, n)
  BY <1>3, CatchUpReadKeeps, CatchUpTicksKeeps
<1>4. CASE \E n \in 1 .. MaxDelay :
             Delay(t, n) \/ \E previous \in 0 .. Ticks - 1 : DelayUntil(t, previous, n)
  BY <1>4, DelayKeeps, DelayUntilKeeps
<1>5. CASE \E u \in Tasks : AbortDelay(t, u)
  BY <1>5, AbortDelayKeeps
<1>6. QED
  BY <1>1, <1>2, <1>3, <1>4, <1>5 DEF Continue

(* A call by a task keeps the invariant.                                   *)
LEMMA CallKeeps ==
  ASSUME IInv, ~Stray, NEW t \in Tasks, Call(t)
  PROVE  IInv'
<1>1. CASE CallSuspendAll(t) \/ CallYield(t)
  BY <1>1, CallSuspendAllKeeps, CallYieldKeeps
<1>2. CASE \E n \in 0 .. MaxDelay, how \in {"take", "wait"} : NotifyBlock(t, n, how)
  BY <1>2, NotifyBlockKeeps
<1>3. ASSUME NEW u \in Tasks,
             \/ Suspend(t, u) \/ Resume(t, u) \/ Delete(t, u)
             \/ \E p \in Priority : PrioritySet(t, u, p) \/ Create(t, u, p)
             \/ NotifyStateClear(t, u) \/ NotifyValueClear(t, u)
             \/ \E v \in 0 .. MaxNotify : Notify(t, u, v)
      PROVE  IInv'
  <2>1. CASE Suspend(t, u) \/ Resume(t, u) \/ Delete(t, u)
    BY <2>1, SuspendKeeps, ResumeKeeps, DeleteKeeps
  <2>2. CASE \E p \in Priority : PrioritySet(t, u, p) \/ Create(t, u, p)
    BY <2>2, PrioritySetKeeps, CreateKeeps
  <2>3. CASE NotifyStateClear(t, u) \/ NotifyValueClear(t, u)
    BY <2>3, NotifyClearKeeps
  <2>4. CASE \E v \in 0 .. MaxNotify : Notify(t, u, v)
    BY <2>4, NotifyKeeps
  <2>5. QED
    BY <1>3, <2>1, <2>2, <2>3, <2>4
<1>4. QED
  <2>1. CASE \E u \in IF t \in Controllers THEN Tasks ELSE {t} :
               \/ Suspend(t, u) \/ Resume(t, u) \/ Delete(t, u)
               \/ \E p \in Priority : PrioritySet(t, u, p) \/ Create(t, u, p)
               \/ NotifyStateClear(t, u) \/ NotifyValueClear(t, u)
               \/ \E v \in 0 .. MaxNotify : Notify(t, u, v)
    <3>1. PICK u \in Tasks :
             \/ Suspend(t, u) \/ Resume(t, u) \/ Delete(t, u)
             \/ \E p \in Priority : PrioritySet(t, u, p) \/ Create(t, u, p)
             \/ NotifyStateClear(t, u) \/ NotifyValueClear(t, u)
             \/ \E v \in 0 .. MaxNotify : Notify(t, u, v)
      BY <2>1
    <3>2. QED
      BY <1>3, <3>1
  <2>2. QED
    BY <1>1, <1>2, <2>1 DEF Call

(* Every step keeps the invariant, when nobody resumes a task that was not *)
(* stopped.                                                                *)
LEMMA NextKeeps ==
  ASSUME IInv, ~Stray, [Next]_vars
  PROVE  IInv'
<1>1. ASSUME NEW t \in Tasks, Continue(t) \/ Call(t) PROVE IInv'
  BY <1>1, ContinueKeeps, CallKeeps
<1>2. CASE Handler
  <2>1. CASE \E u \in Tasks : ResumeFromISR(u)
    BY <2>1, ResumeFromISRKeeps
  <2>2. CASE \E u \in Receivers, v \in 0 .. MaxNotify : NotifyFromISR(u, v)
    <3>1. Receivers \subseteq Tasks
      BY TasksAssumption
    <3>2. QED
      BY <2>2, <3>1, NotifyFromISRKeeps
  <2>3. QED
    BY <1>2, <2>1, <2>2 DEF Handler
<1>3. QED
  BY <1>1, <1>2, IdleCleanUpKeeps, TickKeeps, SwitchKeeps, StutterKeeps DEF Next

(* The lists of tasks.c belong together, and nobody is in two of them.     *)
LEMMA ListsFollow ==
  ASSUME IInv
  PROVE  ListsRight(k, handle) /\ OnePlace
<1>1. Blocked(k, handle)
  BY TasksAssumption DEF Blocked
<1>2. ListsRight(k, handle)
  BY <1>1, Facts, ListsAreRight DEF Kernels, Put
<1>3. \A t \in All : Places(k, t) = {} <=> t \notin Listed(k)
  BY PlacesRight
<1>4. OnePlace
  BY <1>3, Facts DEF OnePlace, Everybody
<1>5. QED
  BY <1>2, <1>4

(* eTaskGetState and vTaskGetInfo agree but for a task that waits for a    *)
(* notification for ever.                                                  *)
LEMMA StatesFollow ==
  ASSUME IInv
  PROVE  StatesAgree
<1>1. ASSUME NEW t \in Tasks, t # handle, GetInfo(t) # GetState(t)
      PROVE  GetInfo(t) = "suspended" /\ notifyState[t] = "waiting" /\ t \notin stopped
  <2>1. t # k.current /\ t \notin Timed(k) /\ t \in k.suspended /\ IsSuspended(t)
    <3>1. CASE t = k.current
      BY <1>1, <3>1 DEF GetInfo, GetState
    <3>2. CASE t # k.current /\ t \in Timed(k)
      <4>1. t \notin k.suspended /\ t \notin Rd(k) /\ t \in All
        BY <3>2, Where, Facts
      <4>2. ~InReady(k, t)
        BY <4>1 DEF Rd
      <4>3. QED
        BY <1>1, <3>2, <4>1, <4>2 DEF GetInfo, GetState
    <3>3. CASE t # k.current /\ t \notin Timed(k) /\ t \notin k.suspended
      BY <1>1, <3>3 DEF GetInfo, GetState
    <3>4. CASE t # k.current /\ t \notin Timed(k) /\ t \in k.suspended /\ ~IsSuspended(t)
      <4>1. ~InReady(k, t)
        BY <3>4, Where, Facts DEF Rd
      <4>2. QED
        BY <1>1, <3>4, <4>1 DEF GetInfo, GetState
    <3>5. QED
      BY <3>1, <3>2, <3>3, <3>4
  <2>2. ~InReady(k, t)
    BY <2>1, Where, Facts DEF Rd
  <2>3. GetInfo(t) = "suspended"
    BY <2>1, <2>2 DEF GetInfo
  <2>4. notifyState[t] = "waiting"
    BY <1>1, <2>1, <2>2, <2>3 DEF GetState
  <2>5. t \in Live
    BY <2>1, Where, ReadyLives
  <2>6. QED
    BY <2>3, <2>4, <2>5, Facts DEF Stopping
<1>2. QED
  BY <1>1 DEF StatesAgree

(* The invariant of the runs follows from the inductive one.               *)
LEMMA InvFollows ==
  ASSUME IInv
  PROVE  Inv
<1>1. TypeOK
  BY Facts DEF TypeOK, Typed
<1>2. StoppedStay
  BY Facts DEF StoppedStay, Stopping
<1>3. QED
  BY <1>1, <1>2, ListsFollow, StatesFollow DEF Inv

(* A ready task of the highest priority runs whenever no switch is due.    *)
LEMMA HighestFollows ==
  ASSUME IInv
  PROVE  HighestRunning
<1>1. SUFFICES ASSUME pc[k.current] \notin Leaving, ~k.swi, k.schedulerSuspended = 0
               PROVE  \/ HighestRuns(k)
                      \/ /\ pc[k.current] = "added" /\ InReady(k, k.current)
                         /\ \A t \in All : InReady(k, t) /\ k.priority[t] > k.priority[k.current]
                                             => t = made[k.current]
  BY DEF HighestRunning, HighestRuns, Leaving
<1>2. k.current \in Rd(k) /\ NoneButMade
  BY <1>1, Facts DEF Running
<1>3. CASE pc[k.current] = "added"
  <2>1. ASSUME NEW t \in All, InReady(k, t), k.priority[t] > k.priority[k.current]
        PROVE  t = made[k.current]
    <3>1. k.priority[t] \in Int /\ k.priority[k.current] \in Int
      BY Facts
    <3>2. ~ (k.priority[t] <= k.priority[k.current])
      BY <2>1, <3>1
    <3>3. QED
      BY <1>2, <2>1, <3>2 DEF NoneButMade, Rd
  <2>2. QED
    BY <1>2, <1>3, <2>1 DEF Rd
<1>4. CASE pc[k.current] # "added"
  BY <1>2, <1>4 DEF HighestRuns, Rd, NoneButMade
<1>5. QED
  BY <1>3, <1>4

(* Nobody wakes before its ticks have passed and nobody is left behind     *)
(* after them.                                                             *)
LEMMA DelaysFollow ==
  ASSUME IInv
  PROVE  DelaysRight
<1>1. ASSUME NEW t \in Timed(k)
      PROVE  LET d == (k.wake[t] + Ticks - k.tick) % Ticks
             IN  left[t] = IF d > k.pendedTicks THEN d - k.pendedTicks ELSE 0
  <2>1. t \in Waiting(k)
    BY Where
  <2>2. Dist(k, t) = (k.wake[t] + Ticks - k.tick) % Ticks
    BY <2>1, Facts, DistRight
  <2>3. left[t] = IF Dist(k, t) > k.pendedTicks THEN Dist(k, t) - k.pendedTicks ELSE 0
    BY <2>1, Facts DEF Delayed
  <2>4. QED
    BY <2>2, <2>3
<1>2. QED
  BY <1>1 DEF DelaysRight

(* A notification is not lost between a wait and its wake-up.              *)
LEMMA NotificationFollows ==
  ASSUME IInv
  PROVE  NotificationKept
<1>1. \A t \in Live : t \in All
  BY Facts DEF Live
<1>2. QED
  BY <1>1, Facts DEF NotificationKept, Notified, Rd, Put, Ev

(* The inductive invariant holds of the scheduler of tasks.c, for any      *)
(* number of tasks and priorities, any width of the tick count and any     *)
(* bound on the ticks put off, when vTaskResume is only called for tasks   *)
(* that vTaskSuspend has stopped.                                          *)
THEOREM TasksIInv ==
  ASSUME ~Stray
  PROVE  Spec => []IInv
<1>1. Init => IInv
  BY InitIInv
<1>2. IInv /\ [Next]_vars => IInv'
  BY NextKeeps
<1>3. QED
  BY <1>1, <1>2, PTL DEF Spec

(* Under the same condition the lists belong together, nobody is in two of *)
(* them, the state a task is reported in is the one it has, and a stopped  *)
(* task stays stopped, ...                                                 *)
THEOREM TasksInv ==
  ASSUME ~Stray
  PROVE  Spec => []Inv
<1>1. IInv => Inv
  BY InvFollows
<1>2. QED
  BY <1>1, TasksIInv, PTL

(* ... the task that runs is a ready one of the highest priority whenever  *)
(* the switch has not been asked for and the scheduler is running, ...     *)
THEOREM TasksHighestRunning ==
  ASSUME ~Stray
  PROVE  Spec => []HighestRunning
<1>1. IInv => HighestRunning
  BY HighestFollows
<1>2. QED
  BY <1>1, TasksIInv, PTL

(* ... delays end neither early nor late, across the wrap of the tick count*)
(* and over ticks put off, ...                                             *)
THEOREM TasksDelaysRight ==
  ASSUME ~Stray
  PROVE  Spec => []DelaysRight
<1>1. IInv => DelaysRight
  BY DelaysFollow
<1>2. QED
  BY <1>1, TasksIInv, PTL

(* ... and no notification is lost between the check for it and the wait.  *)
THEOREM TasksNotificationKept ==
  ASSUME ~Stray
  PROVE  Spec => []NotificationKept
<1>1. IInv => NotificationKept
  BY NotificationFollows
<1>2. QED
  BY <1>1, TasksIInv, PTL
=============================================================================
