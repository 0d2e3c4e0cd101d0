---------------------------- MODULE QueuesProofs ----------------------------
(***************************************************************************)
(* What is proved of Queues, for all tasks, priorities, queues, lengths,   *)
(* uses and handlers:                                                      *)
(*   - QueuesStorage, QueuesImplementFifo: every queue is the bounded      *)
(*     sequence of MessageQueues (StorageInv);                             *)
(*   - QueuesLists: every task is in one place, and a queue is locked by   *)
(*     the task that has suspended the scheduler (ListsInv);               *)
(*   - QueuesHeld: mutexes are counted, and inheritance ends (MutexInv);   *)
(*   - QueuesHighestRunning: without mutexes (TopRuns);                    *)
(*   - QueuesInv, QueuesFailInTime: waits and their time-outs (OnTimeInv,  *)
(*     LateInv);                                                           *)
(*   - QueuesNoLostWakeup: who waits is served (WakesInv).                 *)
(* Each layer is inductive together with those above it.                   *)
(***************************************************************************)
EXTENDS Queues, KernelProofs, SequenceTheorems, TLAPS

-----------------------------------------------------------------------------
(* The storage of a queue as a ring.                                       *)

Plain == Queues \ Mutexes

(* The items that s holds when it is the state of q.                       *)
ItemsIn(q, s) == [i \in 1 .. s.waiting |-> s.store[(s.read + i) % Length[q]]]

(* The next free place is the one behind the last item, and no item is one *)
(* that nobody sent.                                                       *)
RingRight(q, s) ==
  /\ s.write = (s.read + 1 + s.waiting) % Length[q]
  /\ \A i \in 1 .. s.waiting : s.store[(s.read + i) % Length[q]] \in Items

(* The remainder of a sum of two places, and of one more than that.        *)
LEMMA RingMod ==
  ASSUME NEW n \in Nat \ {0}, NEW x \in 0 .. 2 * n
  PROVE  x % n = IF x < n THEN x ELSE IF x < 2 * n THEN x - n ELSE 0
<1>1. CASE x < n
  BY <1>1
<1>2. CASE x >= n /\ x < 2 * n
  BY <1>2
<1>3. CASE x = 2 * n
  BY <1>3
<1>4. QED
  BY <1>1, <1>2, <1>3

(* The place i behind r, for up to a whole round.                          *)
LEMMA RingPlace ==
  ASSUME NEW n \in Nat \ {0}, NEW r \in 0 .. n - 1, NEW i \in 0 .. n
  PROVE  /\ (r + i) % n = IF r + i < n THEN r + i ELSE r + i - n
         /\ (r + i) % n \in 0 .. n - 1
<1> PICK x \in 0 .. 2 * n : x = r + i
  OBVIOUS
<1>1. x % n = IF x < n THEN x ELSE IF x < 2 * n THEN x - n ELSE 0
  BY RingMod
<1>2. QED
  BY <1>1

(* The place behind the last of m items.                                   *)
LEMMA RingEnd ==
  ASSUME NEW n \in Nat \ {0}, NEW r \in 0 .. n - 1, NEW m \in 0 .. n
  PROVE  (r + 1 + m) % n = IF r + 1 + m < n THEN r + 1 + m
                           ELSE IF r + 1 + m < 2 * n THEN r + 1 + m - n ELSE 0
<1> PICK x \in 0 .. 2 * n : x = r + 1 + m
  OBVIOUS
<1>1. x % n = IF x < n THEN x ELSE IF x < 2 * n THEN x - n ELSE 0
  BY RingMod
<1>2. QED
  BY <1>1

(* One more at the end: its place is that of none of the m others.         *)
LEMMA RingPush ==
  ASSUME NEW n \in Nat \ {0}, NEW r \in 0 .. n - 1, NEW m \in 0 .. n - 1
  PROVE  /\ (r + 1 + m) % n \in 0 .. n - 1
         /\ (((r + 1 + m) % n) + 1) % n = (r + 1 + (m + 1)) % n
         /\ (r + (m + 1)) % n = (r + 1 + m) % n
         /\ \A i \in 1 .. m : (r + i) % n # (r + 1 + m) % n
<1> DEFINE w == (r + 1 + m) % n
<1>1. w = IF r + 1 + m < n THEN r + 1 + m ELSE r + 1 + m - n
  BY RingEnd, m \in 0 .. n
<1>2. (r + 1 + (m + 1)) % n = IF r + 2 + m < n THEN r + 2 + m
                              ELSE IF r + 2 + m < 2 * n THEN r + 2 + m - n ELSE 0
  BY RingEnd, m + 1 \in 0 .. n
<1>3. r + (m + 1) = r + 1 + m
  OBVIOUS
<1> HIDE DEF w
<1>4. w \in 0 .. n - 1
  BY <1>1
<1>5. (w + 1) % n = IF w + 1 < n THEN w + 1 ELSE w + 1 - n
  BY <1>4, RingPlace, 1 \in 0 .. n
<1>6. ASSUME NEW i \in 1 .. m PROVE (r + i) % n # w
  <2>1. (r + i) % n = IF r + i < n THEN r + i ELSE r + i - n
    BY RingPlace, i \in 0 .. n
  <2>2. QED
    BY <1>1, <2>1
<1>7. (w + 1) % n = (r + 1 + (m + 1)) % n
  BY <1>1, <1>2, <1>4, <1>5
<1>8. QED
  BY <1>3, <1>4, <1>6, <1>7 DEF w

(* One place back.                                                         *)
Back(r, n) == IF r = 0 THEN n - 1 ELSE r - 1

(* One more in front of the m others, with the read place one back.        *)
LEMMA RingPushFront ==
  ASSUME NEW n \in Nat \ {0}, NEW r \in 0 .. n - 1, NEW m \in 0 .. n - 1
  PROVE  /\ Back(r, n) \in 0 .. n - 1
         /\ (Back(r, n) + 1 + (m + 1)) % n = (r + 1 + m) % n
         /\ (Back(r, n) + 1) % n = r
         /\ \A i \in 1 .. m : (Back(r, n) + (i + 1)) % n = (r + i) % n /\ (r + i) % n # r
<1> DEFINE b == Back(r, n)
<1>1. b \in 0 .. n - 1 /\ b = IF r = 0 THEN n - 1 ELSE r - 1
  BY DEF Back
<1> HIDE DEF b
<1>2. (r + 1 + m) % n = IF r + 1 + m < n THEN r + 1 + m ELSE r + 1 + m - n
  BY RingEnd, m \in 0 .. n
<1>3. (b + 1 + (m + 1)) % n = IF b + 2 + m < n THEN b + 2 + m
                              ELSE IF b + 2 + m < 2 * n THEN b + 2 + m - n ELSE 0
  BY <1>1, RingEnd, m + 1 \in 0 .. n
<1>4. (b + 1) % n = IF b + 1 < n THEN b + 1 ELSE b + 1 - n
  BY <1>1, RingPlace, 1 \in 0 .. n
<1>5. ASSUME NEW i \in 1 .. m
      PROVE  (b + (i + 1)) % n = (r + i) % n /\ (r + i) % n # r
  <2>1. (r + i) % n = IF r + i < n THEN r + i ELSE r + i - n
    BY RingPlace, i \in 0 .. n
  <2>2. (b + (i + 1)) % n = IF b + (i + 1) < n THEN b + (i + 1) ELSE b + (i + 1) - n
    BY <1>1, RingPlace, i + 1 \in 0 .. n
  <2>3. QED
    BY <1>1, <2>1, <2>2
<1>6. (b + 1 + (m + 1)) % n = (r + 1 + m) % n
  BY <1>1, <1>2, <1>3
<1>7. (b + 1) % n = r
  BY <1>1, <1>4
<1>8. QED
  BY <1>1, <1>5, <1>6, <1>7 DEF b

(* The first of m taken away, with the read place one on.                  *)
LEMMA RingPop ==
  ASSUME NEW n \in Nat \ {0}, NEW r \in 0 .. n - 1, NEW m \in 1 .. n
  PROVE  /\ (r + 1) % n \in 0 .. n - 1
         /\ (((r + 1) % n) + 1 + (m - 1)) % n = (r + 1 + m) % n
         /\ \A i \in 1 .. m - 1 : (((r + 1) % n) + i) % n = (r + (i + 1)) % n
<1> DEFINE c == (r + 1) % n
<1>1. c \in 0 .. n - 1 /\ c = IF r + 1 < n THEN r + 1 ELSE r + 1 - n
  BY RingPlace, 1 \in 0 .. n
<1>2. (r + 1 + m) % n = IF r + 1 + m < n THEN r + 1 + m
                        ELSE IF r + 1 + m < 2 * n THEN r + 1 + m - n ELSE 0
  BY RingEnd, m \in 0 .. n
<1> HIDE DEF c
<1>3. (c + 1 + (m - 1)) % n = IF c + m < n THEN c + m ELSE c + m - n
  <2>1. c + 1 + (m - 1) = c + m /\ m \in 0 .. n
    BY <1>1
  <2>2. QED
    BY <1>1, <2>1, RingPlace
<1>4. ASSUME NEW i \in 1 .. m - 1 PROVE (c + i) % n = (r + (i + 1)) % n
  <2>1. (c + i) % n = IF c + i < n THEN c + i ELSE c + i - n
    BY <1>1, RingPlace, i \in 0 .. n
  <2>2. (r + (i + 1)) % n = IF r + (i + 1) < n THEN r + (i + 1) ELSE r + (i + 1) - n
    BY RingPlace, i + 1 \in 0 .. n
  <2>3. QED
    BY <1>1, <2>1, <2>2
<1>5. (c + 1 + (m - 1)) % n = (r + 1 + m) % n
  BY <1>1, <1>2, <1>3
<1>6. QED
  BY <1>1, <1>4, <1>5 DEF c

(* What is in the ring is a sequence of items.                             *)
LEMMA ItemsSeq ==
  ASSUME NEW q \in Plain, NEW s \in QueueState(q), RingRight(q, s)
  PROVE  /\ ItemsIn(q, s) \in Seq(Items) /\ Len(ItemsIn(q, s)) = s.waiting
         /\ \A i \in 1 .. s.waiting : ItemsIn(q, s)[i] = s.store[(s.read + i) % Length[q]]
<1>1. s.waiting \in Nat
  BY QueuesAssumption DEF QueueState, Plain
<1>2. QED
  BY <1>1 DEF RingRight, ItemsIn

(* An item at the back is the last one, one in front the first, and one    *)
(* that replaces the only one is the only one.                             *)
LEMMA CopyToRight ==
  ASSUME NEW q \in Plain, queue[q] \in QueueState(q), RingRight(q, queue[q]),
         NEW item \in Items, NEW pos \in {"back", "front", "overwrite"},
         ~Full(q) \/ pos = "overwrite", pos = "overwrite" => Length[q] = 1
  PROVE  /\ CopyTo(q, item, pos) \in QueueState(q)
         /\ RingRight(q, CopyTo(q, item, pos))
         /\ ItemsIn(q, CopyTo(q, item, pos)) =
              CASE pos = "back" -> Append(ItemsIn(q, queue[q]), item)
                [] pos = "front" -> <<item>> \o ItemsIn(q, queue[q])
                [] pos = "overwrite" -> <<item>>
<1> DEFINE n == Length[q]
           s == queue[q]
           x == CopyTo(q, item, pos)
           old == ItemsIn(q, s)
           r == s.read
           m == s.waiting
<1>1. n \in Nat \ {0} /\ q \in Queues
  BY QueuesAssumption DEF Plain
<1>2. /\ s.store \in [0 .. n - 1 -> Items \cup {Junk}] /\ s.write \in 0 .. n - 1
      /\ r \in 0 .. n - 1 /\ m \in 0 .. n
  BY DEF QueueState
<1>3. s.write = (r + 1 + m) % n /\ \A i \in 1 .. m : s.store[(r + i) % n] \in Items
  BY DEF RingRight
<1>4. /\ old \in Seq(Items) /\ Len(old) = m
      /\ \A i \in 1 .. m : old[i] = s.store[(r + i) % n]
  BY ItemsSeq
<1>5. CASE pos = "back"
  <2>1. m < n /\ m \in 0 .. n - 1
    BY <1>5, <1>2, <1>1 DEF Full
  <2>2. x = [s EXCEPT !.store = [s.store EXCEPT ![s.write] = item],
                      !.write = (s.write + 1) % n, !.waiting = m + 1]
    BY <1>5 DEF CopyTo
  <2>3. /\ x.store = [s.store EXCEPT ![s.write] = item] /\ x.waiting = m + 1
        /\ x.write = (s.write + 1) % n /\ x.read = r
    BY <2>2 DEF QueueState
  <2>4. (s.write + 1) % n \in 0 .. n - 1
    BY <1>1, <1>2, RingPlace, 1 \in 0 .. n
  <2>5. x \in QueueState(q)
    <3>1. [s.store EXCEPT ![s.write] = item] \in [0 .. n - 1 -> Items \cup {Junk}]
      BY <1>2
    <3>2. m + 1 \in 0 .. n
      BY <1>1, <2>1
    <3>3. QED
      BY <2>2, <2>4, <3>1, <3>2 DEF QueueState
  <2>6. /\ (s.write + 1) % n = (r + 1 + (m + 1)) % n
        /\ (r + (m + 1)) % n = s.write
        /\ \A i \in 1 .. m : (r + i) % n # s.write
    <3> HIDE DEF n, s, r, m
    <3>1. /\ (((r + 1 + m) % n) + 1) % n = (r + 1 + (m + 1)) % n
          /\ (r + (m + 1)) % n = (r + 1 + m) % n
          /\ \A i \in 1 .. m : (r + i) % n # (r + 1 + m) % n
      BY <1>1, <1>2, <2>1, RingPush
    <3>2. QED
      BY <1>3, <3>1
  <2>7. \A i \in 1 .. m : x.store[(r + i) % n] = s.store[(r + i) % n]
    <3>1. ASSUME NEW i \in 1 .. m PROVE x.store[(r + i) % n] = s.store[(r + i) % n]
      <4>1. (r + i) % n \in 0 .. n - 1
        BY <1>1, <1>2, RingPlace, i \in 0 .. n
      <4>2. QED
        BY <1>2, <2>3, <2>6, <4>1
    <3>2. QED
      BY <3>1
  <2>8. x.store[(r + (m + 1)) % n] = item
    BY <1>2, <2>3, <2>6
  <2>9. \A i \in 1 .. m + 1 : i \in 1 .. m \/ i = m + 1
    BY <2>1
  <2>10. RingRight(q, x)
    BY <1>3, <2>3, <2>6, <2>7, <2>8, <2>9 DEF RingRight
  <2>11. ItemsIn(q, x) = Append(old, item)
    <3> DEFINE new == ItemsIn(q, x)
               app == Append(old, item)
    <3>1. /\ new \in Seq(Items) /\ Len(new) = m + 1
          /\ \A i \in 1 .. m + 1 : new[i] = x.store[(r + i) % n]
      <4>1. /\ new \in Seq(Items) /\ Len(new) = x.waiting
            /\ \A i \in 1 .. x.waiting : new[i] = x.store[(x.read + i) % n]
        BY <2>5, <2>10, ItemsSeq
      <4> HIDE DEF x, new
      <4>2. QED
        BY <2>3, <4>1
    <3>2. /\ app \in Seq(Items) /\ Len(app) = m + 1 /\ app[m + 1] = item
          /\ \A i \in 1 .. m : app[i] = old[i]
      BY <1>4, AppendProperties
    <3> HIDE DEF new, app
    <3>3. \A i \in 1 .. m + 1 : new[i] = app[i]
      BY <1>4, <2>7, <2>8, <2>9, <3>1, <3>2
    <3>4. new = app
      BY <3>1, <3>2, <3>3, SeqEqual
    <3>5. QED
      BY <3>4 DEF new, app
  <2>12. QED
    BY <1>5, <2>5, <2>10, <2>11
<1>6. CASE pos = "front"
  <2> DEFINE b == Back(r, n)
  <2>1. m < n /\ m \in 0 .. n - 1
    BY <1>6, <1>2, <1>1 DEF Full
  <2>2. x = [s EXCEPT !.store = [s.store EXCEPT ![r] = item], !.read = b, !.waiting = m + 1]
    BY <1>6 DEF CopyTo, Back
  <2>3. /\ x.store = [s.store EXCEPT ![r] = item] /\ x.waiting = m + 1
        /\ x.write = s.write /\ x.read = b
    BY <2>2 DEF QueueState
  <2>4. /\ b \in 0 .. n - 1
        /\ (b + 1 + (m + 1)) % n = s.write
        /\ (b + 1) % n = r
        /\ \A i \in 1 .. m : (b + (i + 1)) % n = (r + i) % n /\ (r + i) % n # r
    <3>1. /\ b \in 0 .. n - 1
          /\ (b + 1 + (m + 1)) % n = (r + 1 + m) % n
          /\ (b + 1) % n = r
          /\ \A i \in 1 .. m : (b + (i + 1)) % n = (r + i) % n /\ (r + i) % n # r
      BY <1>1, <1>2, <2>1, RingPushFront
    <3> HIDE DEF b
    <3>2. QED
      BY <1>3, <3>1
  <2> HIDE DEF b
  <2>5. x \in QueueState(q)
    <3>1. [s.store EXCEPT ![r] = item] \in [0 .. n - 1 -> Items \cup {Junk}]
      BY <1>2
    <3>2. m + 1 \in 0 .. n
      BY <1>1, <2>1
    <3>3. QED
      BY <2>2, <2>4, <3>1, <3>2 DEF QueueState
  <2>6. x.store[(b + 1) % n] = item
    BY <1>2, <2>3, <2>4
  <2>7. \A i \in 1 .. m : x.store[(b + (i + 1)) % n] = s.store[(r + i) % n]
    <3>1. ASSUME NEW i \in 1 .. m PROVE x.store[(b + (i + 1)) % n] = s.store[(r + i) % n]
      <4>1. (r + i) % n \in 0 .. n - 1
        BY <1>1, <1>2, RingPlace, i \in 0 .. n
      <4>2. QED
        BY <1>2, <2>3, <2>4, <4>1
    <3>2. QED
      BY <3>1
  <2>8. \A i \in 1 .. m + 1 : i = 1 \/ (i - 1 \in 1 .. m /\ i = (i - 1) + 1)
    BY <2>1
  <2>9. \A i \in 1 .. m + 1 : x.store[(b + i) % n] = IF i = 1 THEN item ELSE old[i - 1]
    <3>1. ASSUME NEW i \in 1 .. m + 1, i # 1 PROVE x.store[(b + i) % n] = old[i - 1]
      <4>1. PICK j \in 1 .. m : i = j + 1 /\ i - 1 = j
        BY <2>1, <2>8, <3>1
      <4>2. QED
        BY <1>4, <2>7, <4>1
    <3>2. QED
      BY <2>6, <3>1
  <2>10. RingRight(q, x)
    <3>1. \A i \in 1 .. m + 1 : x.store[(b + i) % n] \in Items
      <4>1. \A i \in 1 .. m + 1 : i # 1 => old[i - 1] \in Items
        BY <1>3, <1>4, <2>8
      <4>2. QED
        BY <2>9, <4>1
    <3>2. QED
      BY <2>3, <2>4, <3>1 DEF RingRight
  <2>11. ItemsIn(q, x) = <<item>> \o old
    <3> DEFINE new == ItemsIn(q, x)
               con == <<item>> \o old
    <3>1. /\ new \in Seq(Items) /\ Len(new) = m + 1
          /\ \A i \in 1 .. m + 1 : new[i] = x.store[(b + i) % n]
      BY <2>3, <2>5, <2>10, ItemsSeq
    <3>2. /\ con \in Seq(Items) /\ Len(con) = m + 1
          /\ \A i \in 1 .. m + 1 : con[i] = IF i = 1 THEN item ELSE old[i - 1]
      <4>1. <<item>> \in Seq(Items) /\ Len(<<item>>) = 1 /\ <<item>>[1] = item
        OBVIOUS
      <4>2. /\ con \in Seq(Items) /\ Len(con) = 1 + m
            /\ \A i \in 1 .. 1 + m : con[i] = IF i <= 1 THEN <<item>>[i] ELSE old[i - 1]
        BY <1>4, <4>1, ConcatProperties
      <4>3. m \in Nat /\ 1 + m = m + 1 /\ \A i \in 1 .. m + 1 : i <= 1 => i = 1
        BY <1>1, <1>2
      <4> HIDE DEF con
      <4>4. \A i \in 1 .. m + 1 : con[i] = IF i = 1 THEN item ELSE old[i - 1]
        BY <4>1, <4>2, <4>3
      <4>5. QED
        BY <4>2, <4>3, <4>4
    <3> HIDE DEF new, con
    <3>3. \A i \in 1 .. m + 1 : new[i] = con[i]
      BY <2>9, <3>1, <3>2
    <3>4. new = con
      BY <3>1, <3>2, <3>3, SeqEqual
    <3>5. QED
      BY <3>4 DEF new, con
  <2>12. QED
    BY <1>6, <2>5, <2>10, <2>11
<1>7. CASE pos = "overwrite"
  <2>1. n = 1 /\ r = 0 /\ s.write = 0 /\ m \in {0, 1}
    BY <1>1, <1>2, <1>7
  <2>2. x = [s EXCEPT !.store = [s.store EXCEPT ![0] = item], !.read = 0, !.waiting = 1]
    <3>1. (IF m > 0 THEN m ELSE m + 1) = 1 /\ (IF r = 0 THEN n - 1 ELSE r - 1) = 0
      BY <2>1
    <3>2. x = [s EXCEPT !.store = [s.store EXCEPT ![r] = item],
                        !.read = IF r = 0 THEN n - 1 ELSE r - 1,
                        !.waiting = IF m > 0 THEN m ELSE m + 1]
      BY <1>7 DEF CopyTo
    <3>3. QED
      BY <2>1, <3>1, <3>2
  <2>3. /\ x.store = [s.store EXCEPT ![0] = item] /\ x.waiting = 1
        /\ x.write = 0 /\ x.read = 0
    BY <2>1, <2>2 DEF QueueState
  <2>4. x \in QueueState(q)
    <3>1. [s.store EXCEPT ![0] = item] \in [0 .. n - 1 -> Items \cup {Junk}]
      BY <1>2, <2>1
    <3>2. 0 \in 0 .. n - 1 /\ 1 \in 0 .. n
      BY <2>1
    <3>3. QED
      BY <2>2, <3>1, <3>2 DEF QueueState
  <2>5. (0 + 1) % n = 0 /\ (0 + 1 + 1) % n = 0
    BY <2>1
  <2>6. x.store[0] = item
    BY <1>2, <2>1, <2>3
  <2>7. RingRight(q, x)
    BY <2>3, <2>5, <2>6 DEF RingRight
  <2>8. ItemsIn(q, x) = <<item>>
    <3> DEFINE new == ItemsIn(q, x)
    <3>1. new \in Seq(Items) /\ Len(new) = 1 /\ new[1] = item
      <4>1. /\ new \in Seq(Items) /\ Len(new) = x.waiting
            /\ \A i \in 1 .. x.waiting : new[i] = x.store[(x.read + i) % n]
        BY <2>4, <2>7, ItemsSeq
      <4> HIDE DEF x, new
      <4>2. new[1] = x.store[(0 + 1) % n]
        BY <2>3, <4>1
      <4>3. QED
        BY <2>3, <2>5, <2>6, <4>1, <4>2
    <3>2. <<item>> \in Seq(Items) /\ Len(<<item>>) = 1 /\ <<item>>[1] = item
      OBVIOUS
    <3> HIDE DEF new
    <3>3. new = <<item>>
      BY <3>1, <3>2, SeqEqual
    <3>4. QED
      BY <3>3 DEF new
  <2>9. QED
    BY <1>7, <2>4, <2>7, <2>8
<1>8. QED
  BY <1>5, <1>6, <1>7

(* What is taken away is the first item.                                   *)
LEMMA CopyFromRight ==
  ASSUME NEW q \in Plain, queue[q] \in QueueState(q), RingRight(q, queue[q]), ~Empty(q)
  PROVE  /\ CopyFrom(q) \in QueueState(q)
         /\ RingRight(q, CopyFrom(q))
         /\ ItemsIn(q, queue[q]) # << >>
         /\ ItemsIn(q, CopyFrom(q)) = Tail(ItemsIn(q, queue[q]))
<1> DEFINE n == Length[q]
           s == queue[q]
           x == CopyFrom(q)
           old == ItemsIn(q, s)
           r == s.read
           m == s.waiting
           c == (r + 1) % n
<1>1. n \in Nat \ {0} /\ q \in Queues
  BY QueuesAssumption DEF Plain
<1>2. r \in 0 .. n - 1 /\ m \in 1 .. n
  BY <1>1 DEF QueueState, Empty
<1>3. s.write = (r + 1 + m) % n /\ \A i \in 1 .. m : s.store[(r + i) % n] \in Items
  BY DEF RingRight
<1>4. /\ old \in Seq(Items) /\ Len(old) = m
      /\ \A i \in 1 .. m : old[i] = s.store[(r + i) % n]
  BY ItemsSeq
<1>5. x = [s EXCEPT !.read = c, !.waiting = m - 1]
  BY DEF CopyFrom
<1>6. x.store = s.store /\ x.waiting = m - 1 /\ x.write = s.write /\ x.read = c
  BY <1>5 DEF QueueState
<1>7. /\ c \in 0 .. n - 1 /\ (c + 1 + (m - 1)) % n = s.write
      /\ \A i \in 1 .. m - 1 : (c + i) % n = (r + (i + 1)) % n
  BY <1>1, <1>2, <1>3, RingPop
<1> HIDE DEF c
<1>8. x \in QueueState(q)
  <2>1. m - 1 \in 0 .. n
    BY <1>1, <1>2
  <2>2. QED
    BY <1>5, <1>7, <2>1 DEF QueueState
<1>9. \A i \in 1 .. m - 1 : i + 1 \in 1 .. m
  BY <1>2
<1>10. RingRight(q, x)
  BY <1>3, <1>6, <1>7, <1>9 DEF RingRight
<1>11. ItemsIn(q, x) = Tail(old) /\ old # << >>
  <2> DEFINE new == ItemsIn(q, x)
             rest == Tail(old)
  <2>1. /\ new \in Seq(Items) /\ Len(new) = m - 1
        /\ \A i \in 1 .. m - 1 : new[i] = s.store[(c + i) % n]
    BY <1>6, <1>8, <1>10, ItemsSeq
  <2> HIDE DEF old
  <2>2. old # << >>
    BY <1>2, <1>4
  <2>3. /\ rest \in Seq(Items) /\ Len(rest) = m - 1
        /\ \A i \in 1 .. m - 1 : rest[i] = old[i + 1]
    BY <1>4, <2>2, HeadTailProperties
  <2> HIDE DEF new, rest
  <2>4. \A i \in 1 .. m - 1 : new[i] = rest[i]
    BY <1>4, <1>7, <1>9, <2>1, <2>3
  <2>5. new = rest
    BY <2>1, <2>3, <2>4, SeqEqual
  <2>6. QED
    BY <2>2, <2>5 DEF new, rest
<1>12. QED
  BY <1>8, <1>10, <1>11

(* After a reset there is nothing.                                         *)
LEMMA FreshRight ==
  ASSUME NEW q \in Queues, NEW s \in [0 .. Length[q] - 1 -> Items \cup {Junk}],
         NEW n \in 0 .. Length[q], q \in Plain => n = 0
  PROVE  /\ Fresh(q, s, n) \in QueueState(q)
         /\ q \in Plain => RingRight(q, Fresh(q, s, n)) /\ ItemsIn(q, Fresh(q, s, n)) = << >>
<1> DEFINE x == Fresh(q, s, n)
<1>1. Length[q] \in Nat \ {0} /\ MaxCount \in Nat \ {0}
  BY QueuesAssumption
<1>2. x \in QueueState(q)
  BY <1>1 DEF Fresh, QueueState
<1>3. ASSUME q \in Plain PROVE RingRight(q, x) /\ ItemsIn(q, x) = << >>
  <2>1. (Length[q] - 1 + 1 + 0) % Length[q] = 0
    <3>1. Length[q] - 1 + 1 + 0 = Length[q]
      BY <1>1
    <3>2. QED
      BY <1>1, <3>1
  <2>2. x.waiting = 0 /\ x.write = 0 /\ x.read = Length[q] - 1
    BY <1>3 DEF Fresh
  <2>3. RingRight(q, x)
    BY <2>1, <2>2 DEF RingRight
  <2>4. ItemsIn(q, x) = << >>
    BY <2>2 DEF ItemsIn
  <2>5. QED
    BY <2>3, <2>4
<1>4. QED
  BY <1>2, <1>3
-----------------------------------------------------------------------------
(* What a step does to the queues.                                         *)

(* The same items in the same places.                                      *)
Like(s, r) ==
  s.store = r.store /\ s.read = r.read /\ s.write = r.write /\ s.waiting = r.waiting

Same(q) == Like(queue'[q], queue[q])

Stored(q, item, pos) ==
  /\ ~Full(q) \/ pos = "overwrite"
  /\ pos = "overwrite" => Length[q] = 1
  /\ Like(queue'[q], CopyTo(q, item, pos))

Taken(q) == ~Empty(q) /\ Like(queue'[q], CopyFrom(q))

Cleared(q) == Like(queue'[q], Fresh(q, queue[q].store, 0))

QueueStep ==
  \/ \A q \in Plain : Same(q)
  \/ \E q \in Plain :
       /\ \A p \in Plain \ {q} : Same(p)
       /\ \/ \E item \in Items, pos \in {"back", "front", "overwrite"} : Stored(q, item, pos)
          \/ Taken(q) \/ Cleared(q)

(* The queues are what they should be, ...                                 *)
QueuesTyped == DOMAIN queue = Queues /\ \A q \in Queues : queue[q] \in QueueState(q)

(* ... and so is a call, and one that waits.                               *)
CallRight(c) ==
  /\ c.do \in {"send", "receive", "peek", "reset"} /\ c.on \in Queues /\ c.item \in Items
  /\ c.pos \in {"back", "front", "overwrite"} /\ (c.pos = "overwrite" => Length[c.on] = 1)

CallsRight ==
  /\ use \in Uses
  /\ pc \in [All -> PCs]
  /\ DOMAIN call = Tasks
  /\ \A t \in Tasks : pc[t] \notin {"app", "abort"} =>
       /\ DOMAIN call[t] =
            {"do", "on", "item", "pos", "asked", "left", "since", "inherited", "why"}
       /\ CallRight(call[t])

(* A queue's length.                                                       *)
LEMMA LengthType ==
  /\ \A q \in Queues : Length[q] \in Nat \ {0}
  /\ \A q \in Mutexes : q \in Queues /\ Length[q] = 1
  /\ MaxCount \in Nat \ {0}
  BY QueuesAssumption

(* What a call that need not wait does.                                    *)
LEMMA SucceedStep ==
  ASSUME QueuesTyped, \A q \in Plain : RingRight(q, queue[q]),
         NEW t \in Tasks, NEW c, CallRight(c), Succeed(t, c)
  PROVE  QueuesTyped' /\ QueueStep
<1> DEFINE q == c.on
<1>1. q \in Queues /\ DOMAIN queue = Queues /\ queue[q] \in QueueState(q)
  BY DEF QueuesTyped, CallRight
<1>2. ASSUME NEW x \in QueueState(q), queue' = [queue EXCEPT ![q] = x]
      PROVE  /\ QueuesTyped' /\ queue'[q] = x
             /\ \A p \in Plain \ {q} : Same(p)
  BY <1>1, <1>2 DEF QueuesTyped, QueueState, Same, Like, Plain
<1>3. CASE Reset(t, c)
  <2> DEFINE x == Fresh(q, queue[q].store, 0)
  <2>1. x \in QueueState(q)
    <3>1. queue[q].store \in [0 .. Length[q] - 1 -> Items \cup {Junk}] /\ 0 \in 0 .. Length[q]
      BY <1>1, LengthType DEF QueueState
    <3>2. QED
      BY <1>1, <3>1, FreshRight
  <2>2. queue' = [queue EXCEPT ![q] = x]
    BY <1>3 DEF Reset
  <2>3. /\ QueuesTyped' /\ queue'[q] = x
        /\ \A p \in Plain \ {q} : Same(p)
    BY <1>2, <2>1, <2>2
  <2>4. QueueStep
    BY <1>1, <2>3 DEF QueueStep, Cleared, Like, Plain
  <2>5. QED
    BY <2>3, <2>4
<1>4. CASE Send(t, c)
  <2> DEFINE x == CopyTo(q, c.item, c.pos)
  <2>1. /\ q \in Plain /\ queue' = [queue EXCEPT ![q] = x]
        /\ ~Full(q) \/ c.pos = "overwrite"
        /\ c.item \in Items /\ c.pos \in {"back", "front", "overwrite"}
        /\ c.pos = "overwrite" => Length[q] = 1
    BY <1>1, <1>4 DEF Send, Plain, CallRight
  <2>2. x \in QueueState(q)
    BY <1>1, <2>1, CopyToRight
  <2>3. /\ QueuesTyped' /\ queue'[q] = x
        /\ \A p \in Plain \ {q} : Same(p)
    BY <1>2, <2>1, <2>2
  <2> HIDE DEF q
  <2>4. Stored(q, c.item, c.pos)
    BY <2>1, <2>3 DEF Stored, Like
  <2>5. QueueStep
    BY <2>1, <2>3, <2>4 DEF QueueStep
  <2>6. QED
    BY <2>3, <2>5
<1>5. ASSUME q \in Mutexes, NEW h \in Tasks \cup {None}, NEW n \in {0, 1}, NEW w \in {0, 1},
             queue' = [queue EXCEPT ![q].waiting = w, ![q].holder = h, ![q].count = n]
      PROVE  QueuesTyped' /\ QueueStep
  <2> DEFINE x == [queue[q] EXCEPT !.waiting = w, !.holder = h, !.count = n]
  <2>1. queue' = [queue EXCEPT ![q] = x]
    BY <1>1, <1>5 DEF QueueState
  <2>2. w \in 0 .. Length[q] /\ n \in 0 .. MaxCount
    BY <1>5, LengthType
  <2>3. x \in QueueState(q)
    BY <1>1, <2>2 DEF QueueState
  <2>4. /\ QueuesTyped'
        /\ \A p \in Plain \ {q} : Same(p)
    BY <1>2, <2>1, <2>3
  <2>5. \A p \in Plain : Same(p)
    BY <1>5, <2>4 DEF Plain
  <2>6. QED
    BY <2>4, <2>5 DEF QueueStep
<1>6. CASE Give(t, c)
  BY <1>5, <1>6 DEF Give
<1>7. CASE Receive(t, c) /\ q \in Mutexes
  BY <1>5, <1>7 DEF Receive
<1>8. CASE Receive(t, c) /\ q \notin Mutexes
  <2> DEFINE x == CopyFrom(q)
  <2>1. q \in Plain /\ queue' = [queue EXCEPT ![q] = x] /\ ~Empty(q)
    BY <1>1, <1>8 DEF Receive, Plain
  <2>2. x \in QueueState(q)
    BY <1>1, <2>1, CopyFromRight
  <2>3. /\ QueuesTyped' /\ queue'[q] = x
        /\ \A p \in Plain \ {q} : Same(p)
    BY <1>2, <2>1, <2>2
  <2>4. Taken(q)
    BY <2>1, <2>3 DEF Taken, Like
  <2>5. QED
    BY <2>1, <2>3, <2>4 DEF QueueStep
<1>9. CASE Peek(t, c)
  BY <1>9 DEF Peek, QueuesTyped, QueueStep, Same, Like, QueueState
<1>10. QED
  BY <1>3, <1>4, <1>6, <1>7, <1>8, <1>9 DEF Succeed

(* A handler changes one queue, and counts while that is locked.           *)
LEMMA HandlerStep ==
  ASSUME QueuesTyped, \A q \in Plain : RingRight(q, queue[q]),
         NEW h \in Handlers, SendFromISR(h) \/ ReceiveFromISR(h)
  PROVE  QueuesTyped' /\ QueueStep
<1> DEFINE q == h.on
<1>1. /\ q \in Queues /\ q \in Plain /\ h.item \in Items
      /\ h.pos \in {"back", "front", "overwrite"}
      /\ h.pos = "overwrite" => Length[q] = 1
  BY QueuesAssumption DEF Plain
<1>2. DOMAIN queue = Queues /\ queue[q] \in QueueState(q) /\ RingRight(q, queue[q])
  BY <1>1 DEF QueuesTyped
<1>3. Length[q] \in Nat \ {0}
  BY <1>1, LengthType
<1>4. ASSUME NEW x \in QueueState(q), queue' = [queue EXCEPT ![q] = x]
      PROVE  /\ QueuesTyped' /\ queue'[q] = x
             /\ \A p \in Plain \ {q} : Same(p)
  BY <1>1, <1>2, <1>4 DEF QueuesTyped, QueueState, Same, Like, Plain
<1> HIDE DEF q
<1>5. CASE SendFromISR(h)
  <2> DEFINE y == CopyTo(q, h.item, h.pos)
             tx == IF Locked(y.txLock) THEN y.txLock + 1 ELSE y.txLock
             x == [y EXCEPT !.txLock = tx]
  <2>1. /\ ~Full(q) \/ h.pos = "overwrite"
        /\ Locked(queue[q].txLock) => queue[q].txLock < Length[q]
        /\ queue' = [queue EXCEPT ![q] = x]
    BY <1>5 DEF SendFromISR, q
  <2>2. y \in QueueState(q)
    BY <1>1, <1>2, <2>1, CopyToRight
  <2>3. y.txLock = queue[q].txLock
    BY <1>2 DEF CopyTo, QueueState
  <2>4. tx \in -1 .. Length[q]
    <3>1. y.txLock \in -1 .. Length[q] /\ (y.txLock # -1 => y.txLock < Length[q])
      BY <2>1, <2>2, <2>3 DEF QueueState, Locked
    <3>2. tx = IF y.txLock # -1 THEN y.txLock + 1 ELSE y.txLock
      BY DEF Locked
    <3> HIDE DEF y, tx
    <3>3. QED
      BY <1>3, <3>1, <3>2
  <2> HIDE DEF y, tx
  <2>5. x \in QueueState(q) /\ Like(x, y)
    BY <2>2, <2>4 DEF QueueState, Like
  <2>6. /\ QueuesTyped' /\ queue'[q] = x
        /\ \A p \in Plain \ {q} : Same(p)
    BY <1>4, <2>1, <2>5
  <2>7. Stored(q, h.item, h.pos)
    BY <1>1, <2>1, <2>5, <2>6 DEF Stored, y
  <2>8. QED
    BY <1>1, <2>6, <2>7 DEF QueueStep
<1>6. CASE ReceiveFromISR(h)
  <2> DEFINE y == CopyFrom(q)
             rx == IF Locked(y.rxLock) THEN y.rxLock + 1 ELSE y.rxLock
             x == [y EXCEPT !.rxLock = rx]
  <2>1. /\ ~Empty(q)
        /\ Locked(queue[q].rxLock) => queue[q].rxLock < Length[q]
        /\ queue' = [queue EXCEPT ![q] = x]
    BY <1>6 DEF ReceiveFromISR, q
  <2>2. y \in QueueState(q)
    BY <1>1, <1>2, <2>1, CopyFromRight
  <2>3. y.rxLock = queue[q].rxLock
    BY <1>2 DEF CopyFrom, QueueState
  <2>4. rx \in -1 .. Length[q]
    <3>1. y.rxLock \in -1 .. Length[q] /\ (y.rxLock # -1 => y.rxLock < Length[q])
      BY <2>1, <2>2, <2>3 DEF QueueState, Locked
    <3>2. rx = IF y.rxLock # -1 THEN y.rxLock + 1 ELSE y.rxLock
      BY DEF Locked
    <3> HIDE DEF y, rx
    <3>3. QED
      BY <1>3, <3>1, <3>2
  <2> HIDE DEF y, rx
  <2>5. x \in QueueState(q) /\ Like(x, y)
    BY <2>2, <2>4 DEF QueueState, Like
  <2>6. /\ QueuesTyped' /\ queue'[q] = x
        /\ \A p \in Plain \ {q} : Same(p)
    BY <1>4, <2>1, <2>5
  <2>7. Taken(q)
    BY <2>1, <2>5, <2>6 DEF Taken, y
  <2>8. QED
    BY <1>1, <2>6, <2>7 DEF QueueStep
<1>7. QED
  BY <1>5, <1>6

(* All other steps leave the items where they are.                         *)
LEMMA LockStep ==
  ASSUME QueuesTyped, CallsRight, NEW t \in Tasks, Lock(t) \/ UnlockTx(t) \/ UnlockRx(t)
  PROVE  QueuesTyped' /\ \A q \in Plain : Same(q)
<1> DEFINE q == call[t].on
<1>1. q \in Queues
  BY DEF CallsRight, CallRight, Lock, UnlockTx, UnlockRx, At
<1>2. DOMAIN queue = Queues /\ queue[q] \in QueueState(q) /\ Length[q] \in Nat \ {0}
  BY <1>1, LengthType DEF QueuesTyped
<1> HIDE DEF q
<1>3. ASSUME NEW tx \in -1 .. Length[q], NEW rx \in -1 .. Length[q],
             queue' = [queue EXCEPT ![q].txLock = tx, ![q].rxLock = rx]
      PROVE  QueuesTyped' /\ \A p \in Plain : Same(p)
  <2> DEFINE x == [queue[q] EXCEPT !.txLock = tx, !.rxLock = rx]
  <2>1. queue' = [queue EXCEPT ![q] = x]
    BY <1>2, <1>3 DEF QueueState
  <2>2. x \in QueueState(q) /\ Like(x, queue[q])
    BY <1>2 DEF QueueState, Like
  <2> HIDE DEF x
  <2>3. QED
    BY <1>1, <1>2, <2>1, <2>2 DEF QueuesTyped, QueueState, Same, Like, Plain
<1>4. CASE Lock(t)
  <2> DEFINE tx == IF queue[q].txLock = -1 THEN 0 ELSE queue[q].txLock
             rx == IF queue[q].rxLock = -1 THEN 0 ELSE queue[q].rxLock
  <2>1. queue' = [queue EXCEPT ![q].txLock = tx, ![q].rxLock = rx]
    BY <1>2, <1>4 DEF Lock, QueueState, q
  <2>2. tx \in -1 .. Length[q] /\ rx \in -1 .. Length[q]
    BY <1>2 DEF QueueState
  <2>3. QED
    BY <1>3, <2>1, <2>2
<1>5. CASE UnlockTx(t)
  <2>1. queue' = [queue EXCEPT ![q].txLock = -1, ![q].rxLock = queue[q].rxLock]
    BY <1>2, <1>5 DEF UnlockTx, QueueState, q
  <2>2. -1 \in -1 .. Length[q] /\ queue[q].rxLock \in -1 .. Length[q]
    BY <1>2 DEF QueueState
  <2>3. QED
    BY <1>3, <2>1, <2>2
<1>6. CASE UnlockRx(t)
  <2>1. queue' = [queue EXCEPT ![q].txLock = queue[q].txLock, ![q].rxLock = -1]
    BY <1>2, <1>6 DEF UnlockRx, QueueState, q
  <2>2. -1 \in -1 .. Length[q] /\ queue[q].txLock \in -1 .. Length[q]
    BY <1>2 DEF QueueState
  <2>3. QED
    BY <1>3, <2>1, <2>2
<1>7. QED
  BY <1>4, <1>5, <1>6

(* Taken again and given back by its holder, a mutex holds what it did.    *)
LEMMA AgainStep ==
  ASSUME QueuesTyped, CallsRight, NEW t \in Tasks, NEW c \in use, Again(t, c)
  PROVE  QueuesTyped' /\ \A q \in Plain : Same(q)
<1> DEFINE q == c.on
<1>1. q \in Queues
  BY QueuesAssumption DEF CallsRight
<1>2. DOMAIN queue = Queues /\ queue[q] \in QueueState(q)
  BY <1>1 DEF QueuesTyped
<1> HIDE DEF q
<1>3. PICK n \in 1 .. MaxCount : queue' = [queue EXCEPT ![q].count = n]
  BY DEF Again, q
<1> DEFINE x == [queue[q] EXCEPT !.count = n]
<1>4. queue' = [queue EXCEPT ![q] = x]
  BY <1>2, <1>3 DEF QueueState
<1>5. n \in 0 .. MaxCount
  BY LengthType
<1>6. x \in QueueState(q) /\ Like(x, queue[q])
  BY <1>2, <1>5 DEF QueueState, Like
<1> HIDE DEF x
<1>7. QED
  BY <1>1, <1>2, <1>4, <1>6 DEF QueuesTyped, QueueState, Same, Like, Plain

(* What every step leaves of the queues.                                   *)
LEMMA NextStep ==
  ASSUME QueuesTyped, \A q \in Plain : RingRight(q, queue[q]), CallsRight, [Next]_vars
  PROVE  QueuesTyped' /\ QueueStep
<1>1. ASSUME UNCHANGED queue PROVE QueuesTyped' /\ QueueStep
  BY <1>1 DEF QueuesTyped, QueueStep, Same, Like, QueueState
<1>2. ASSUME NEW t \in Tasks, Continue(t) PROVE QueuesTyped' /\ QueueStep
  <2>1. CASE Retry(t)
    <3>1. CallRight(call[t])
      BY <2>1 DEF Retry, At, CallsRight
    <3>2. QED
      BY <1>1, <2>1, <3>1, SucceedStep DEF Retry
  <2>2. CASE Lock(t) \/ UnlockTx(t) \/ UnlockRx(t)
    BY <2>2, LockStep DEF QueueStep
  <2>3. CASE \/ Block(t) \/ Check(t) \/ Resume(t) \/ CallYield(t) \/ Late(t)
             \/ LateDisinherit(t) \/ AbortEnd(t)
    BY <1>1, <2>3 DEF Block, Check, Resume, CallYield, Late, LateDisinherit, AbortEnd
  <2>4. QED
    BY <1>2, <2>1, <2>2, <2>3 DEF Continue
<1>3. ASSUME NEW t \in Tasks, Call(t) PROVE QueuesTyped' /\ QueueStep
  <2>1. ASSUME NEW c \in use, Begin(t, c) PROVE QueuesTyped' /\ QueueStep
    <3>1. CallRight(c)
      BY <2>1, QueuesAssumption DEF CallsRight, CallRight, Begin
    <3>2. QED
      BY <1>1, <2>1, <3>1, SucceedStep DEF Begin
  <2>2. ASSUME NEW c \in use, Again(t, c) PROVE QueuesTyped' /\ QueueStep
    BY <2>2, AgainStep DEF QueueStep
  <2>3. ASSUME NEW c \in use, Delay(t, c) PROVE QueuesTyped' /\ QueueStep
    BY <1>1, <2>3 DEF Delay
  <2>4. ASSUME NEW u \in Tasks, Abort(t, u) PROVE QueuesTyped' /\ QueueStep
    BY <1>1, <2>4 DEF Abort
  <2>5. QED
    BY <1>3, <2>1, <2>2, <2>3, <2>4 DEF Call
<1>4. CASE Handler
  BY <1>4, HandlerStep DEF Handler
<1>5. CASE Tick \/ Switch \/ UNCHANGED vars
  BY <1>1, <1>5 DEF Tick, Switch, vars
<1>6. QED
  BY <1>2, <1>3, <1>4, <1>5 DEF Next

(* What it leaves of the calls.                                            *)
LEMMA CallsStep ==
  ASSUME CallsRight, [Next]_vars
  PROVE  CallsRight'
<1> DEFINE Fields == {"do", "on", "item", "pos", "asked", "left", "since", "inherited", "why"}
<1>1. use' = use
  BY DEF Next, Continue, Call, Handler, vars, Retry, Block, Lock, Check, UnlockTx, UnlockRx,
         Resume, CallYield, Late, LateDisinherit, AbortEnd, Begin, Delay, Again, Abort,
         SendFromISR, ReceiveFromISR, Tick, Switch
<1>2. ASSUME NEW t \in Tasks, NEW p \in PCs, NEW x, pc' = [pc EXCEPT ![t] = p],
             call' = [call EXCEPT ![t] = x] \/ (UNCHANGED call /\ x = call[t]),
             p \notin {"app", "abort"} => DOMAIN x = Fields /\ CallRight(x)
      PROVE  CallsRight'
  <2>1. t \in All
    BY DEF All
  <2>2. pc' \in [All -> PCs] /\ DOMAIN call' = Tasks
    BY <1>2, <2>1 DEF CallsRight
  <2>3. ASSUME NEW u \in Tasks, pc'[u] \notin {"app", "abort"}
        PROVE  DOMAIN call'[u] = Fields /\ CallRight(call'[u])
    BY <1>2, <2>1, <2>3 DEF CallsRight, All
  <2>4. QED
    BY <1>1, <2>2, <2>3 DEF CallsRight, CallRight
<1>3. ASSUME NEW t \in Tasks, NEW p \in PCs, pc' = [pc EXCEPT ![t] = p], UNCHANGED call,
             p \in {"app", "abort"} \/ pc[t] \notin {"app", "abort"}
      PROVE  CallsRight'
  BY <1>2, <1>3 DEF CallsRight
<1>4. ASSUME UNCHANGED <<pc, call>> PROVE CallsRight'
  BY <1>1, <1>4 DEF CallsRight, CallRight
<1>5. ASSUME NEW t \in Tasks, Continue(t) PROVE CallsRight'
  <2>1. CASE Retry(t)
    <3>1. CASE Possible(call[t])
      BY <1>2, <2>1, <3>1, "app" \in PCs DEF Retry, Goto, PCs
    <3>2. CASE ~Possible(call[t])
      BY <1>3, <2>1, <3>2, "block" \in PCs DEF Retry, Goto, At, PCs
    <3>3. QED
      BY <3>1, <3>2
  <2>2. CASE Block(t) \/ UnlockTx(t) \/ UnlockRx(t) \/ CallYield(t)
    <3>1. PICK p \in {"lock", "unlockRx", "resume", "try"} : pc' = [pc EXCEPT ![t] = p]
      BY <2>2 DEF Block, UnlockTx, UnlockRx, CallYield, Goto
    <3>2. p \in PCs /\ UNCHANGED call /\ pc[t] \notin {"app", "abort"}
      BY <2>2 DEF Block, UnlockTx, UnlockRx, CallYield, At, PCs
    <3>3. QED
      BY <1>3, <3>1, <3>2
  <2>3. CASE Lock(t)
    <3>1. PICK l, s, w : call' = [call EXCEPT ![t].left = l, ![t].since = s, ![t].why = w]
      BY <2>3 DEF Lock
    <3> DEFINE x == [call[t] EXCEPT !.left = l, !.since = s, !.why = w]
    <3>2. DOMAIN call[t] = Fields /\ CallRight(call[t])
      BY <2>3 DEF Lock, At, CallsRight
    <3>3. call' = [call EXCEPT ![t] = x]
      BY <3>1 DEF CallsRight
    <3>4. DOMAIN x = Fields /\ CallRight(x)
      BY <3>2 DEF CallRight
    <3>5. PICK p \in {"unlockTx", "check"} : pc' = [pc EXCEPT ![t] = p]
      BY <2>3 DEF Lock, Goto
    <3> HIDE DEF x
    <3>6. QED
      BY <1>2, <3>3, <3>4, <3>5 DEF PCs
  <2>4. CASE Check(t)
    <3>1. PICK i, w : call' = [call EXCEPT ![t].inherited = i, ![t].why = w]
      BY <2>4 DEF Check
    <3> DEFINE x == [call[t] EXCEPT !.inherited = i, !.why = w]
    <3>2. DOMAIN call[t] = Fields /\ CallRight(call[t])
      BY <2>4 DEF Check, At, CallsRight
    <3>3. call' = [call EXCEPT ![t] = x]
      BY <3>1 DEF CallsRight
    <3>4. DOMAIN x = Fields /\ CallRight(x)
      BY <3>2 DEF CallRight
    <3>5. pc' = [pc EXCEPT ![t] = "unlockTx"]
      BY <2>4 DEF Check, Goto
    <3> HIDE DEF x
    <3>6. QED
      BY <1>2, <3>3, <3>4, <3>5, "unlockTx" \in PCs DEF PCs
  <2>5. ASSUME Fail(t) PROVE CallsRight'
    BY <1>2, <2>5, "app" \in PCs DEF Fail, Goto, PCs
  <2>6. CASE Resume(t)
    <3>1. \/ Fail(t)
          \/ /\ \E p \in {"empty", "yield", "try"} : pc' = [pc EXCEPT ![t] = p]
             /\ UNCHANGED call /\ pc[t] \notin {"app", "abort"}
      BY <2>6 DEF Resume, Goto, At
    <3>2. QED
      BY <1>3, <2>5, <3>1 DEF PCs
  <2>7. CASE Late(t)
    <3>1. \/ Fail(t)
          \/ /\ \E p \in {"disinherit", "try"} : pc' = [pc EXCEPT ![t] = p]
             /\ UNCHANGED call /\ pc[t] \notin {"app", "abort"}
      BY <2>7 DEF Late, Goto, At
    <3>2. QED
      BY <1>3, <2>5, <3>1 DEF PCs
  <2>8. CASE LateDisinherit(t)
    BY <2>5, <2>8 DEF LateDisinherit
  <2>9. CASE AbortEnd(t)
    BY <1>3, <2>9, "app" \in PCs DEF AbortEnd, Goto, PCs
  <2>10. QED
    BY <1>5, <2>1, <2>2, <2>3, <2>4, <2>6, <2>7, <2>8, <2>9 DEF Continue
<1>6. ASSUME NEW t \in Tasks, Call(t) PROVE CallsRight'
  <2>1. ASSUME NEW c \in use, Begin(t, c) PROVE CallsRight'
    <3>1. CASE Possible(c)
      BY <1>4, <2>1, <3>1 DEF Begin
    <3>2. CASE ~Possible(c)
      <4>1. c.do \in {"send", "receive", "peek"} /\ CallRight(c)
        BY <2>1, <3>2, QueuesAssumption DEF CallsRight, CallRight, Begin, Possible
      <4>2. DOMAIN Locals(c) = Fields /\ CallRight(Locals(c))
        BY <4>1 DEF Locals, CallRight
      <4>3. call' = [call EXCEPT ![t] = Locals(c)] /\ pc' = [pc EXCEPT ![t] = "block"]
        BY <2>1, <3>2 DEF Begin, Goto
      <4>4. QED
        BY <1>2, <4>2, <4>3, "block" \in PCs DEF PCs
    <3>3. QED
      BY <3>1, <3>2
  <2>2. ASSUME NEW c \in use, Again(t, c) \/ Delay(t, c) PROVE CallsRight'
    BY <1>4, <2>2 DEF Again, Delay
  <2>3. ASSUME NEW u \in Tasks, Abort(t, u) PROVE CallsRight'
    BY <1>3, <2>3, "abort" \in PCs DEF Abort, Goto, PCs
  <2>4. QED
    BY <1>6, <2>1, <2>2, <2>3 DEF Call
<1>7. CASE Handler
  BY <1>4, <1>7 DEF Handler, SendFromISR, ReceiveFromISR
<1>8. CASE Tick \/ Switch \/ UNCHANGED vars
  BY <1>4, <1>8 DEF Tick, Switch, vars
<1>9. QED
  BY <1>5, <1>6, <1>7, <1>8, Zenon DEF Next

-----------------------------------------------------------------------------
(* The invariant, and the refinement.                                      *)

StorageInv == QueuesTyped /\ CallsRight /\ \A q \in Plain : RingRight(q, queue[q])

(* Queues that hold the same are the same for those that use them.         *)
LEMMA LikeSame ==
  ASSUME NEW q, NEW s, NEW r, Like(s, r)
  PROVE  ItemsIn(q, s) = ItemsIn(q, r) /\ (RingRight(q, s) <=> RingRight(q, r))
  BY DEF Like, ItemsIn, RingRight

(* Every step keeps the rings right.                                       *)
LEMMA StorageStep ==
  ASSUME StorageInv, [Next]_vars
  PROVE  StorageInv' /\ QueueStep
<1>1. QueuesTyped' /\ QueueStep /\ CallsRight'
  BY NextStep, CallsStep DEF StorageInv
<1>2. ASSUME NEW q \in Plain PROVE RingRight(q, queue'[q])
  <2>1. queue[q] \in QueueState(q) /\ RingRight(q, queue[q]) /\ q \in Queues
    BY DEF StorageInv, QueuesTyped, Plain
  <2>2. CASE Same(q)
    BY <2>1, <2>2, LikeSame DEF Same
  <2>3. CASE Taken(q)
    BY <2>1, <2>3, LikeSame, CopyFromRight DEF Taken
  <2>4. CASE Cleared(q)
    <3>1. queue[q].store \in [0 .. Length[q] - 1 -> Items \cup {Junk}] /\ 0 \in 0 .. Length[q]
      BY <2>1, LengthType DEF QueueState
    <3>2. RingRight(q, Fresh(q, queue[q].store, 0))
      BY <2>1, <3>1, FreshRight
    <3>3. QED
      BY <2>4, <3>2, LikeSame DEF Cleared
  <2>5. ASSUME NEW item \in Items, NEW pos \in {"back", "front", "overwrite"},
               Stored(q, item, pos)
        PROVE  RingRight(q, queue'[q])
    BY <2>1, <2>5, LikeSame, CopyToRight DEF Stored
  <2>6. QED
    BY <1>1, <2>2, <2>3, <2>4, <2>5 DEF QueueStep
<1>3. QED
  BY <1>1, <1>2 DEF StorageInv, RingRight

(* In the beginning, too.                                                  *)
LEMMA StorageInit ==
  ASSUME Init
  PROVE  /\ StorageInv
         /\ \A q \in Plain : ItemsIn(q, queue[q]) = << >>
<1>1. QueuesTyped /\ \A q \in Plain : RingRight(q, queue[q]) /\ ItemsIn(q, queue[q]) = << >>
  <2>1. ASSUME NEW q \in Queues
        PROVE  /\ queue[q] \in QueueState(q)
               /\ q \in Plain => RingRight(q, queue[q]) /\ ItemsIn(q, queue[q]) = << >>
    <3> DEFINE s == [n \in 0 .. Length[q] - 1 |-> Junk]
               n == IF q \in Mutexes THEN 1 ELSE 0
    <3>1. queue[q] = Fresh(q, s, n)
      BY DEF Init
    <3>2. s \in [0 .. Length[q] - 1 -> Items \cup {Junk}]
      OBVIOUS
    <3>3. n \in 0 .. Length[q] /\ (q \in Plain => n = 0)
      BY LengthType DEF Plain
    <3> HIDE DEF s, n
    <3>4. QED
      BY <3>1, <3>2, <3>3, FreshRight
  <2>2. DOMAIN queue = Queues
    BY DEF Init
  <2>3. QED
    BY <2>1, <2>2 DEF QueuesTyped, Plain
<1>2. CallsRight
  BY DEF Init, CallsRight, PCs, All
<1>3. QED
  BY <1>1, <1>2 DEF StorageInv

(* The pointers of every queue are where its items call for, and nothing   *)
(* is in it that nobody sent.                                              *)
THEOREM QueuesStorage == Spec => []StorageInv
<1>1. StorageInv /\ [Next]_vars => StorageInv'
  BY StorageStep
<1>2. QED
  BY <1>1, StorageInit, PTL DEF Spec

(* What a step of Queues is for MessageQueues.                             *)
LEMMA FifoStep ==
  ASSUME StorageInv, [Next]_vars
  PROVE  [M!Next]_([q \in Plain |-> Content(q)])
<1> DEFINE con == [q \in Plain |-> ItemsIn(q, queue[q])]
           new == [q \in Plain |-> ItemsIn(q, queue'[q])]
<1>1. QueueStep
  BY StorageStep
<1>2. con = [q \in Plain |-> Content(q)] /\ new = [q \in Plain |-> Content(q)]'
  BY DEF ItemsIn, Content
<1>3. CASE \A q \in Plain : Same(q)
  BY <1>2, <1>3, LikeSame DEF Same
<1>4. ASSUME NEW q \in Plain, \A p \in Plain \ {q} : Same(p)
      PROVE  new = [con EXCEPT ![q] = ItemsIn(q, queue'[q])]
  BY <1>4, LikeSame DEF Same
<1>5. ASSUME NEW q \in Plain, \A p \in Plain \ {q} : Same(p),
             NEW item \in Items, NEW pos \in {"back", "front", "overwrite"},
             Stored(q, item, pos)
      PROVE  M!Next
  <2>1. queue[q] \in QueueState(q) /\ RingRight(q, queue[q])
    BY DEF StorageInv, QueuesTyped, Plain
  <2>2. /\ con[q] = ItemsIn(q, queue[q]) /\ Len(con[q]) = queue[q].waiting
    BY <2>1, ItemsSeq
  <2>3. ItemsIn(q, queue'[q]) = CASE pos = "back" -> Append(con[q], item)
                                  [] pos = "front" -> <<item>> \o con[q]
                                  [] pos = "overwrite" -> <<item>>
    <3>1. ItemsIn(q, queue'[q]) = ItemsIn(q, CopyTo(q, item, pos))
      BY <1>5, LikeSame DEF Stored
    <3>2. ItemsIn(q, CopyTo(q, item, pos)) =
            CASE pos = "back" -> Append(ItemsIn(q, queue[q]), item)
              [] pos = "front" -> <<item>> \o ItemsIn(q, queue[q])
              [] pos = "overwrite" -> <<item>>
      BY <1>5, <2>1, CopyToRight DEF Stored
    <3> HIDE DEF con
    <3>3. QED
      BY <2>2, <3>1, <3>2
  <2>4. new = [con EXCEPT ![q] = ItemsIn(q, queue'[q])]
    BY <1>4, <1>5
  <2>5. Length[q] \in Nat /\ queue[q].waiting \in 0 .. Length[q]
    BY <2>1, LengthType DEF QueueState, Plain
  <2>6. pos # "overwrite" => Len(con[q]) < Length[q]
    BY <1>5, <2>2, <2>5 DEF Stored, Full
  <2>7. pos = "overwrite" => Length[q] = 1
    BY <1>5 DEF Stored
  <2> HIDE DEF con, new
  <2>8. CASE pos = "back"
    <3>1. new = [con EXCEPT ![q] = Append(con[q], item)]
      BY <2>3, <2>4, <2>8
    <3>2. M!SendToBack(q, item)
      BY <1>2, <2>6, <2>8, <3>1 DEF M!SendToBack, Plain
    <3>3. QED
      BY <3>2 DEF M!Next, Plain
  <2>9. CASE pos = "front"
    <3>1. new = [con EXCEPT ![q] = <<item>> \o con[q]]
      BY <2>3, <2>4, <2>9
    <3>2. M!SendToFront(q, item)
      BY <1>2, <2>6, <2>9, <3>1 DEF M!SendToFront, Plain
    <3>3. QED
      BY <3>2 DEF M!Next, Plain
  <2>10. CASE pos = "overwrite"
    <3>1. new = [con EXCEPT ![q] = <<item>>]
      BY <2>3, <2>4, <2>10
    <3>2. M!Overwrite(q, item)
      BY <1>2, <2>7, <2>10, <3>1 DEF M!Overwrite, Plain
    <3>3. QED
      BY <3>2 DEF M!Next, Plain
  <2>11. QED
    BY <2>8, <2>9, <2>10
<1>6. ASSUME NEW q \in Plain, \A p \in Plain \ {q} : Same(p), Taken(q)
      PROVE  M!Next
  <2>1. queue[q] \in QueueState(q) /\ RingRight(q, queue[q])
    BY DEF StorageInv, QueuesTyped, Plain
  <2>2. con[q] # << >> /\ ItemsIn(q, queue'[q]) = Tail(con[q])
    BY <1>6, <2>1, LikeSame, CopyFromRight DEF Taken
  <2>3. new = [con EXCEPT ![q] = Tail(con[q])]
    BY <1>4, <1>6, <2>2
  <2> HIDE DEF con, new
  <2>4. M!Receive(q)
    BY <1>2, <2>2, <2>3 DEF M!Receive, Plain
  <2>5. QED
    BY <2>4 DEF M!Next, Plain
<1>7. ASSUME NEW q \in Plain, \A p \in Plain \ {q} : Same(p), Cleared(q)
      PROVE  M!Next
  <2>1. queue[q] \in QueueState(q) /\ q \in Queues
    BY DEF StorageInv, QueuesTyped, Plain
  <2>2. queue[q].store \in [0 .. Length[q] - 1 -> Items \cup {Junk}] /\ 0 \in 0 .. Length[q]
    BY <2>1, LengthType DEF QueueState
  <2>3. ItemsIn(q, queue'[q]) = << >>
    BY <1>7, <2>1, <2>2, LikeSame, FreshRight DEF Cleared
  <2>4. new = [con EXCEPT ![q] = << >>]
    BY <1>4, <1>7, <2>3
  <2> HIDE DEF con, new
  <2>5. M!Reset(q)
    BY <1>2, <2>4 DEF M!Reset, Plain
  <2>6. QED
    BY <2>5 DEF M!Next, Plain
<1>8. QED
  BY <1>1, <1>2, <1>3, <1>5, <1>6, <1>7 DEF QueueStep

(* Queues implements MessageQueues: whatever tasks and handlers do in      *)
(* between, every queue is a bounded sequence of the items sent to it.     *)
THEOREM QueuesImplementFifo == Spec => FifoSpec
<1>1. Init => M!Init
  BY StorageInit DEF M!Init, ItemsIn, Content, Plain
<1>2. StorageInv /\ [Next]_vars => [M!Next]_([q \in Queues \ Mutexes |-> Content(q)])
  BY FifoStep DEF Plain
<1>3. QED
  BY <1>1, <1>2, QueuesStorage, PTL DEF Spec, FifoSpec, M!Spec

-----------------------------------------------------------------------------
(* Where the tasks are.                                                    *)

(* At these places a task has suspended the scheduler.                     *)
Busy == {"lock", "check", "unlockTx", "unlockRx", "resume", "abort"}

(* The task that xTaskAbortDelay is moving, if there is one.               *)
Hand == {handle} \ {Idle}

KernelRight == Proper(k, Hand)

(* Only the current task has suspended the scheduler, and it is ready but  *)
(* where it has just put itself to sleep.                                  *)
AtRight ==
  /\ pc \in [All -> PCs] /\ pc[Idle] = "app"
  /\ \A t \in Tasks : pc[t] \in Busy => t = k.current
  /\ k.schedulerSuspended = IF pc[k.current] \in Busy THEN 1 ELSE 0
  /\ handle \in All /\ (handle # Idle <=> pc[k.current] = "abort")
  /\ pc[k.current] \in {"lock", "check", "abort"} => k.current \in Rd(k)
  /\ pc[k.current] \in {"unlockTx", "unlockRx", "resume"} =>
       k.current \in Rd(k) \/ call[k.current].why = "waits"
  /\ k.schedulerSuspended = 0 /\ ~k.swi /\ pc[k.current] # "yield" => k.current \in Rd(k)

(* A queue is locked while the current task is behind prvLockQueue.        *)
LocksRight ==
  \A q \in Queues :
    /\ queue[q].txLock # -1 <=> pc[k.current] \in {"check", "unlockTx"}
       /\ call[k.current].on = q
    /\ queue[q].rxLock # -1 <=> /\ pc[k.current] \in {"check", "unlockTx", "unlockRx"}
                                /\ call[k.current].on = q

(* A call that waits: what is left of its ticks, and since when.           *)
CallTyped(c) ==
  /\ c.do # "reset"
  /\ c.asked \in 1 .. MaxDelay /\ c.left \in 1 .. c.asked
  /\ c.left = MaxDelay <=> c.asked = MaxDelay
  /\ c.since.tick \in 0 .. Ticks - 1
  /\ c.inherited \in BOOLEAN /\ c.why \in {"none", "late", "waits", "again"}

TimesTyped ==
  /\ \A t \in Tasks : IF pc[t] \in {"app", "abort"} THEN call[t] = NoCall
                                                    ELSE CallTyped(call[t])
  /\ waited \in [Tasks -> 0 .. MaxWaited] /\ cut \subseteq Tasks

ListsInv ==
  StorageInv /\ TimesTyped /\ KernelRight /\ AtRight /\ LocksRight /\ held \in [Tasks -> Int]

(* No list of waiting tasks is xPendingReadyList.                          *)
LEMMA OwnLists ==
  /\ Pending \notin EventLists
  /\ \A q \in Queues : SendList(q) \in EventLists /\ ReceiveList(q) \in EventLists
<1>1. \A l \in EventLists : Len(l) = 2
  BY QueuesAssumption
<1>2. Len(Pending) = 1
  BY DEF Pending
<1>3. Pending \notin EventLists
  BY <1>1, <1>2
<1>4. ASSUME NEW q \in Queues PROVE SendList(q) \in EventLists /\ ReceiveList(q) \in EventLists
  BY QueuesAssumption DEF SendList, ReceiveList
<1>5. QED
  BY <1>3, <1>4

(* What a task that is somewhere knows.                                    *)
LEMMA Here ==
  ASSUME ListsInv, NEW t \in Tasks, NEW p, At(t, p)
  PROVE  /\ t = k.current /\ ~k.swi /\ pc[t] = p /\ t # Idle /\ t \in All /\ t \notin Hand
         /\ k \in KernelState
         /\ p \in Busy => k.schedulerSuspended = 1
         /\ p \notin Busy => /\ k.schedulerSuspended = 0 /\ Hand = {} /\ handle = Idle
                             /\ p # "yield" => t \in Rd(k)
                             /\ k.pendedTicks = 0
         /\ p # "abort" => Hand = {} /\ handle = Idle
         /\ p \in {"app", "abort", "block", "lock", "check", "try"} => t \in Rd(k)
<1>1. t = k.current /\ ~k.swi /\ pc[t] = p /\ t # Idle /\ t \in All
  BY KernelAssumption DEF At, All
<1>2. k \in KernelState /\ All \ Listed(k) = Hand
  BY DEF ListsInv, KernelRight, Proper, Sound
<1>3. p \in Busy => k.schedulerSuspended = 1
  BY <1>1 DEF ListsInv, AtRight
<1>4. p # "abort" => Hand = {} /\ handle = Idle
  BY <1>1 DEF ListsInv, AtRight, Hand
<1>5. p \notin Busy => /\ k.schedulerSuspended = 0 /\ Hand = {} /\ handle = Idle
                       /\ p # "yield" => t \in Rd(k)
                       /\ k.pendedTicks = 0
  <2>1. SUFFICES ASSUME p \notin Busy
                 PROVE  /\ k.schedulerSuspended = 0 /\ p # "abort"
                        /\ p # "yield" => t \in Rd(k)
                        /\ k.pendedTicks = 0
    BY <1>4
  <2>2. k.schedulerSuspended = 0 /\ p # "abort"
    BY <1>1, <2>1 DEF ListsInv, AtRight, Busy
  <2>3. k.pendedTicks = 0
    BY <2>2 DEF ListsInv, KernelRight, Proper
  <2>4. p # "yield" => t \in Rd(k)
    BY <1>1, <2>2 DEF ListsInv, AtRight
  <2>5. QED
    BY <2>2, <2>3, <2>4
<1>6. p \in {"app", "abort", "block", "lock", "check", "try"} => t \in Rd(k)
  BY <1>1, <1>5 DEF ListsInv, AtRight, Busy
<1>7. t \notin Hand
  <2>1. p = "abort" => t \in Rd(k) /\ Rd(k) \subseteq Listed(k)
    BY <1>6 DEF Listed
  <2>2. QED
    BY <1>2, <1>4, <2>1
<1>8. QED
  BY <1>1, <1>2, <1>3, <1>4, <1>5, <1>6, <1>7

(* The current task goes on to p.                                          *)
LEMMA AtMoved ==
  ASSUME AtRight, NEW t \in Tasks, t = k.current, NEW p \in PCs,
         pc' = [pc EXCEPT ![t] = p], k'.current = k.current,
         k'.schedulerSuspended = IF p \in Busy THEN 1 ELSE 0,
         handle' \in All, handle' # Idle <=> p = "abort",
         p \in {"lock", "check", "abort"} => t \in Rd(k'),
         p \in {"unlockTx", "unlockRx", "resume"} => t \in Rd(k') \/ call'[t].why = "waits",
         k'.schedulerSuspended = 0 /\ ~k'.swi /\ p # "yield" => t \in Rd(k')
  PROVE  AtRight'
<1>1. pc \in [All -> PCs] /\ t \in All /\ t # Idle
  BY KernelAssumption DEF AtRight, All
<1>2. pc' \in [All -> PCs] /\ pc'[t] = p /\ \A x \in All \ {t} : pc'[x] = pc[x]
  BY <1>1
<1>3. pc'[Idle] = "app"
  BY <1>1, <1>2 DEF AtRight, All
<1>4. \A x \in Tasks : pc'[x] \in Busy => x = t
  BY <1>2 DEF AtRight, All
<1>5. QED
  BY <1>2, <1>3, <1>4 DEF AtRight, Rd, InReady

(* No task goes on.                                                        *)
LEMMA AtKept ==
  ASSUME AtRight, UNCHANGED <<pc, call, handle>>, k'.current = k.current,
         k'.schedulerSuspended = k.schedulerSuspended,
         k'.schedulerSuspended = 0 /\ ~k'.swi => ~k.swi,
         Rd(k) \subseteq Rd(k') \/ (k.current # Idle /\ pc[k.current] = "app" /\ k'.swi)
  PROVE  AtRight'
<1>1. k'.schedulerSuspended = IF pc[k.current] \in Busy THEN 1 ELSE 0
  BY DEF AtRight
<1>2. CASE Rd(k) \subseteq Rd(k')
  BY <1>1, <1>2 DEF AtRight, Rd, InReady
<1>3. CASE k.current # Idle /\ pc[k.current] = "app" /\ k'.swi
  BY <1>1, <1>3 DEF AtRight, Rd, InReady
<1>4. QED
  BY <1>2, <1>3

(* What has passed of a time-out that is not over is less than it.         *)
LEMMA ElapsedRight ==
  ASSUME NEW kk \in KernelState, NEW since, since.tick \in 0 .. Ticks - 1,
         NEW left \in 1 .. MaxDelay
  PROVE  /\ Elapsed(kk, since) \in 0 .. Ticks - 1
         /\ ~TimedOut(kk, since, left) /\ left # MaxDelay =>
              /\ left - Elapsed(kk, since) \in 1 .. left
              /\ left - Elapsed(kk, since) # MaxDelay
<1>1. kk.tick \in 0 .. Ticks - 1 /\ Ticks \in Nat \ {0}
  BY KernelTypes, KernelAssumption
<1>2. PICK d \in Nat : d = kk.tick + Ticks - since.tick
  BY <1>1
<1>3. d % Ticks \in 0 .. Ticks - 1
  BY <1>1
<1>4. Elapsed(kk, since) = d % Ticks
  BY <1>2 DEF Elapsed
<1>5. ASSUME ~TimedOut(kk, since, left), left # MaxDelay
      PROVE  Elapsed(kk, since) < left
  BY <1>1, <1>3, <1>4, <1>5 DEF TimedOut, MaxDelay
<1>6. QED
  BY <1>1, <1>3, <1>4, <1>5 DEF MaxDelay

(* Every step keeps them so.                                               *)
LEMMA TimesStep ==
  ASSUME StorageInv, TimesTyped, AtRight, k \in KernelState, [Next]_vars
  PROVE  TimesTyped'
<1> DEFINE Out == {"app", "abort"}
           Fields == {"do", "on", "item", "pos", "asked", "left", "since", "inherited", "why"}
<1>a. CallsRight /\ DOMAIN call = Tasks /\ pc \in [All -> PCs] /\ Tasks \subseteq All
  BY DEF StorageInv, CallsRight, All
<1>b. \A t \in Tasks : pc[t] \notin Out => DOMAIN call[t] = Fields
  BY DEF StorageInv, CallsRight
<1>c. MaxWaited \in Nat
  BY QueuesAssumption
<1>1. ASSUME NEW t \in Tasks, NEW p \in PCs, NEW x, pc' = [pc EXCEPT ![t] = p],
             call' = [call EXCEPT ![t] = x] \/ (UNCHANGED call /\ x = call[t]),
             IF p \in Out THEN x = NoCall ELSE CallTyped(x),
             waited' = waited \/ waited' = [waited EXCEPT ![t] = 0], cut' \subseteq Tasks
      PROVE  TimesTyped'
  <2>1. waited' \in [Tasks -> 0 .. MaxWaited]
    BY <1>c, <1>1 DEF TimesTyped
  <2>2. call'[t] = x /\ pc'[t] = p
    BY <1>a, <1>1
  <2>3. \A u \in Tasks \ {t} : call'[u] = call[u] /\ pc'[u] = pc[u]
    BY <1>a, <1>1
  <2>4. ASSUME NEW u \in Tasks
        PROVE  IF pc'[u] \in Out THEN call'[u] = NoCall ELSE CallTyped(call'[u])
    <3>1. CASE u = t
      BY <1>1, <2>2, <3>1
    <3>2. CASE u # t
      BY <2>3, <3>2 DEF TimesTyped
    <3>3. QED
      BY <3>1, <3>2
  <2>5. QED
    BY <1>1, <2>1, <2>4 DEF TimesTyped, CallTyped
<1>2. ASSUME NEW t \in Tasks, NEW p \in PCs, pc' = [pc EXCEPT ![t] = p], UNCHANGED call,
             p \in Out <=> pc[t] \in Out,
             waited' = waited \/ waited' = [waited EXCEPT ![t] = 0], cut' \subseteq Tasks
      PROVE  TimesTyped'
  <2>1. IF p \in Out THEN call[t] = NoCall ELSE CallTyped(call[t])
    BY <1>2 DEF TimesTyped
  <2>2. QED
    BY <1>1, <1>2, <2>1
<1>3. ASSUME UNCHANGED <<pc, call, cut>>, waited' \in [Tasks -> 0 .. MaxWaited]
      PROVE  TimesTyped'
  BY <1>3 DEF TimesTyped, CallTyped
<1>4. waited \in [Tasks -> 0 .. MaxWaited] /\ cut \subseteq Tasks
  BY DEF TimesTyped
<1>5. ASSUME NEW t \in Tasks, Fail(t) PROVE TimesTyped'
  BY <1>1, <1>4, <1>5, "app" \in PCs DEF Fail, Goto, PCs
<1>6. ASSUME NEW t \in Tasks, Continue(t) PROVE TimesTyped'
  <2>1. CASE Retry(t)
    <3>1. CASE Possible(call[t])
      BY <1>1, <1>4, <2>1, <3>1, "app" \in PCs DEF Retry, Goto, PCs
    <3>2. CASE ~Possible(call[t])
      BY <1>2, <1>4, <2>1, <3>2, "block" \in PCs DEF Retry, Goto, At, PCs
    <3>3. QED
      BY <3>1, <3>2
  <2>2. CASE Block(t) \/ UnlockTx(t) \/ UnlockRx(t) \/ CallYield(t)
    <3>1. PICK p \in {"lock", "unlockRx", "resume", "try"} : pc' = [pc EXCEPT ![t] = p]
      BY <2>2 DEF Block, UnlockTx, UnlockRx, CallYield, Goto
    <3>2. p \in PCs /\ UNCHANGED <<call, waited, cut>> /\ pc[t] \notin Out
      BY <2>2 DEF Block, UnlockTx, UnlockRx, CallYield, At, PCs
    <3>3. QED
      BY <1>2, <1>4, <3>1, <3>2
  <2>3. CASE Lock(t)
    <3> DEFINE c == call[t]
               late == k.aborted[t] \/ TimedOut(k, c.since, c.left)
               again == ~late /\ c.left # MaxDelay
               l == IF again THEN c.left - Elapsed(k, c.since) ELSE c.left
               s == IF again THEN Now(k) ELSE c.since
               w == IF late THEN "late" ELSE "none"
               x == [c EXCEPT !.left = l, !.since = s, !.why = w]
    <3>1. DOMAIN c = Fields /\ CallTyped(c)
      BY <2>3, <1>b DEF Lock, At, TimesTyped
    <3>2. call' = [call EXCEPT ![t] = x]
      <4>1. call' = [call EXCEPT ![t].left = l, ![t].since = s, ![t].why = w]
        BY <2>3, <1>a, <3>1 DEF Lock
      <4>2. QED
        BY <1>a, <4>1
    <3>3. /\ MaxDelay \in Int /\ c.left \in 1 .. MaxDelay
          /\ c.left <= c.asked /\ c.asked <= MaxDelay
      BY <3>1, KernelAssumption DEF CallTyped, MaxDelay
    <3>4. /\ Elapsed(k, c.since) \in 0 .. Ticks - 1
          /\ again => c.left - Elapsed(k, c.since) \in 1 .. c.left
                      /\ c.left - Elapsed(k, c.since) # MaxDelay
      BY <3>1, <3>3, ElapsedRight DEF CallTyped
    <3>5. l \in 1 .. c.left /\ (again => l # MaxDelay) /\ (~again => l = c.left)
      BY <3>3, <3>4
    <3>6. s.tick \in 0 .. Ticks - 1
      BY <3>1, KernelTypes DEF Now, CallTyped
    <3>7. w \in {"none", "late", "waits", "again"}
      OBVIOUS
    <3> HIDE DEF l, s, w
    <3>8. x.do = c.do /\ x.asked = c.asked /\ x.left = l /\ x.since = s /\ x.why = w
          /\ x.inherited = c.inherited
      BY <3>1
    <3>9. CallTyped(x)
      BY <3>1, <3>3, <3>5, <3>6, <3>7, <3>8 DEF CallTyped
    <3>10. PICK p \in {"unlockTx", "check"} : pc' = [pc EXCEPT ![t] = p]
      BY <2>3 DEF Lock, Goto
    <3>11. UNCHANGED <<waited, cut>>
      BY <2>3 DEF Lock
    <3> HIDE DEF x
    <3>12. QED
      BY <1>1, <1>4, <3>2, <3>9, <3>10, <3>11 DEF PCs
  <2>4. CASE Check(t)
    <3> DEFINE c == call[t]
               waits == IF c.do = "send" THEN Full(c.on) ELSE Empty(c.on)
               mutex == c.on \in Mutexes /\ c.do = "receive" /\ queue[c.on].holder # None
               i == IF waits /\ mutex THEN Inherits(k, queue[c.on].holder) ELSE c.inherited
               w == IF waits THEN "waits" ELSE "again"
    <3>a. call' = [call EXCEPT ![t].inherited = i, ![t].why = w]
      BY <2>4, <1>a DEF Check
    <3>b. i \in BOOLEAN \/ i = c.inherited
      <4>1. ASSUME NEW h PROVE Inherits(k, h) \in BOOLEAN
        BY DEF Inherits
      <4>2. CASE waits /\ mutex
        <5>1. i = Inherits(k, queue[c.on].holder)
          BY <4>2
        <5>2. QED
          BY <4>1, <5>1
      <4>3. QED
        BY <4>2
    <3>c. w \in {"waits", "again"}
      OBVIOUS
    <3> HIDE DEF i, w, c
    <3>1. c = call[t]
      BY DEF c
    <3> DEFINE x == [call[t] EXCEPT !.inherited = i, !.why = w]
    <3>2. DOMAIN call[t] = Fields /\ CallTyped(call[t])
      BY <2>4, <1>b DEF Check, At, TimesTyped
    <3>3. call' = [call EXCEPT ![t] = x]
      BY <3>a, <1>a
    <3>4. x.do = call[t].do /\ x.asked = call[t].asked /\ x.left = call[t].left
          /\ x.since = call[t].since /\ x.why = w /\ x.inherited = i
      BY <3>2
    <3>5. CallTyped(x)
      BY <3>1, <3>b, <3>c, <3>2, <3>4 DEF CallTyped
    <3>6. pc' = [pc EXCEPT ![t] = "unlockTx"] /\ UNCHANGED <<waited, cut>>
      BY <2>4 DEF Check, Goto
    <3> HIDE DEF x
    <3>7. QED
      BY <1>1, <1>4, <3>3, <3>5, <3>6, "unlockTx" \in PCs DEF PCs
  <2>5. CASE Resume(t)
    <3>1. \/ Fail(t)
          \/ /\ \E p \in {"empty", "yield", "try"} : pc' = [pc EXCEPT ![t] = p]
             /\ UNCHANGED <<call, waited, cut>> /\ pc[t] \notin Out
      BY <2>5 DEF Resume, Goto, At
    <3>2. QED
      BY <1>2, <1>4, <1>5, <3>1 DEF PCs
  <2>6. CASE Late(t)
    <3>1. \/ Fail(t)
          \/ /\ \E p \in {"disinherit", "try"} : pc' = [pc EXCEPT ![t] = p]
             /\ UNCHANGED <<call, waited, cut>> /\ pc[t] \notin Out
      BY <2>6 DEF Late, Goto, At
    <3>2. QED
      BY <1>2, <1>4, <1>5, <3>1 DEF PCs
  <2>7. CASE LateDisinherit(t)
    BY <1>5, <2>7 DEF LateDisinherit
  <2>8. CASE AbortEnd(t)
    <3>1. pc' = [pc EXCEPT ![t] = "app"] /\ pc[t] \in Out /\ UNCHANGED <<call, waited>>
      BY <2>8 DEF AbortEnd, Goto, At
    <3>2. cut' \subseteq Tasks
      <4>1. handle \in Tasks
        BY <2>8 DEF AbortEnd, At, AtRight, All
      <4>2. QED
        BY <1>4, <2>8, <4>1 DEF AbortEnd
    <3>3. QED
      BY <1>2, <3>1, <3>2, "app" \in PCs DEF PCs
  <2>9. QED
    BY <1>6, <2>1, <2>2, <2>3, <2>4, <2>5, <2>6, <2>7, <2>8 DEF Continue
<1>7. ASSUME NEW t \in Tasks, Call(t) PROVE TimesTyped'
  <2>1. ASSUME NEW c \in use, Begin(t, c) PROVE TimesTyped'
    <3>1. CASE Possible(c)
      BY <1>3, <1>4, <2>1, <3>1 DEF Begin
    <3>2. CASE ~Possible(c)
      <4>1. c.do # "reset" /\ c.ticks \in 1 .. MaxDelay
        BY <2>1, <3>2, <1>a, QueuesAssumption, KernelAssumption
           DEF CallsRight, Begin, Possible, MaxDelay
      <4>2. CallTyped(Locals(c))
        <5>1. k.tick \in 0 .. Ticks - 1
          BY KernelTypes
        <5>2. QED
          BY <4>1, <5>1, KernelAssumption DEF CallTyped, Locals, Now, MaxDelay
      <4>3. /\ call' = [call EXCEPT ![t] = Locals(c)] /\ pc' = [pc EXCEPT ![t] = "block"]
            /\ waited' = [waited EXCEPT ![t] = 0] /\ cut' = cut
        BY <2>1, <3>2 DEF Begin, Goto
      <4>4. QED
        BY <1>1, <1>4, <4>2, <4>3, "block" \in PCs DEF PCs
    <3>3. QED
      BY <3>1, <3>2
  <2>2. ASSUME NEW c \in use, Again(t, c) \/ Delay(t, c) PROVE TimesTyped'
    BY <1>3, <1>4, <2>2 DEF Again, Delay
  <2>3. ASSUME NEW u \in Tasks, Abort(t, u) PROVE TimesTyped'
    BY <1>2, <1>4, <2>3, "abort" \in PCs DEF Abort, Goto, At, PCs
  <2>4. QED
    BY <1>7, <2>1, <2>2, <2>3 DEF Call
<1>8. CASE Handler
  BY <1>3, <1>4, <1>8 DEF Handler, SendFromISR, ReceiveFromISR
<1>9. CASE Tick
  <2>1. ASSUME NEW t \in Tasks
        PROVE (IF Timing(t) THEN waited[t] + 1 ELSE waited[t]) \in 0 .. MaxWaited
    BY <1>c, <1>4, <1>9 DEF Tick
  <2>2. waited' \in [Tasks -> 0 .. MaxWaited]
    BY <1>9, <2>1 DEF Tick
  <2>3. QED
    BY <1>3, <1>9, <2>2 DEF Tick
<1>10. CASE Switch \/ UNCHANGED vars
  BY <1>3, <1>4, <1>10 DEF Switch, vars
<1>11. QED
  BY <1>6, <1>7, <1>8, <1>9, <1>10 DEF Next

(* In the beginning, too.                                                  *)
LEMMA TimesInit ==
  ASSUME Init
  PROVE  TimesTyped
  BY QueuesAssumption DEF Init, TimesTyped, All

(* The first of those who wait in l is let go: it becomes ready.           *)
FreesFirst(u, kk, l, X) ==
  /\ Frees(u, kk, X, X, 0, 0)
  /\ X \subseteq Ev(kk, l) /\ (Ev(kk, l) # {} => \E x : X = {x})
  /\ u.schedulerSuspended = 0 /\ u.aborted = kk.aborted

(* WakeWaiter does that while nobody has suspended the scheduler.          *)
LEMMA WakerFreesFirst ==
  ASSUME NEW kk, NEW H, Proper(kk, H), NEW l \in EventLists, kk.schedulerSuspended = 0
  PROVE  LET u == WakeWaiter(kk, l)
         IN  u.priority = kk.priority /\ \E X : FreesFirst(u, kk, l, X)
<1> DEFINE u == WakeWaiter(kk, l)
<1>1. \E X : /\ Frees(u, kk, IF kk.schedulerSuspended = 0 THEN X ELSE {}, X, 0, 0)
             /\ X \subseteq Ev(kk, l) /\ (Ev(kk, l) # {} => \E x : X = {x})
             /\ u.schedulerSuspended = kk.schedulerSuspended
             /\ u.priority = kk.priority /\ u.aborted = kk.aborted
  BY WakerFrees, OwnLists
<1> HIDE DEF u
<1>2. u.priority = kk.priority /\ \E X : FreesFirst(u, kk, l, X)
  BY <1>1 DEF FreesFirst
<1>3. QED
  BY <1>2 DEF u

(* Whom a call that need not wait lets go.                                 *)
FreeList(c) == IF c.do \in {"send", "peek"} THEN ReceiveList(c.on) ELSE SendList(c.on)

(* A mutex given back.                                                     *)
Gives(c) == c.on \in Mutexes /\ c.do = "send"

(* What a call that need not wait does to the kernel: the first of those   *)
(* that wait for it becomes ready, and who gives the last mutex back has   *)
(* its own priority again.                                                 *)
LEMMA SucceedEffect ==
  ASSUME ListsInv, NEW t \in Tasks, t = k.current, k.schedulerSuspended = 0,
         NEW c, CallRight(c), Succeed(t, c)
  PROVE  /\ \E X : FreesFirst(k', k, FreeList(c), X)
         /\ \A x \in All : k'.priority[x] = IF Gives(c) /\ x = t /\ held[t] = 1
                                            THEN k.base[x] ELSE k.priority[x]
<1>1. Proper(k, Hand) /\ c.on \in Queues /\ held[t] \in Int
  BY DEF ListsInv, KernelRight, CallRight
<1>2. SendList(c.on) \in EventLists /\ ReceiveList(c.on) \in EventLists
  BY <1>1, OwnLists
<1>3. ASSUME NEW l \in EventLists, k' = WakeWaiter(k, l)
      PROVE  k'.priority = k.priority /\ \E X : FreesFirst(k', k, l, X)
  BY <1>1, <1>3, WakerFreesFirst
<1>4. CASE ~Gives(c)
  <2>1. c.do \in {"send", "receive", "peek", "reset"}
    BY DEF CallRight
  <2>2. k' = WakeWaiter(k, FreeList(c))
    BY <1>4, <2>1 DEF Succeed, Reset, Send, Give, Receive, Peek, FreeList, Gives
  <2>3. FreeList(c) \in EventLists
    BY <1>2 DEF FreeList
  <2>4. QED
    BY <1>3, <1>4, <2>2, <2>3
<1>5. CASE Gives(c)
  <2> DEFINE left == held[t] - 1
             l == ReceiveList(c.on)
             v == PriorityDisinherit(k, left)
  <2>1. k' = IF v.events[l] # << >> THEN WakeWaiter(v, l) ELSE YieldIf(v, Disinherits(k, left))
    BY <1>5 DEF Succeed, Reset, Send, Give, Receive, Peek, Gives
  <2>2. l = FreeList(c) /\ left \in Int /\ (left = 0 <=> held[t] = 1)
    BY <1>1, <1>5 DEF FreeList, Gives
  <2>3. /\ Ranked(v, k, t)
        /\ v.priority[t] = IF left = 0 THEN k.base[t] ELSE k.priority[t]
    <3>1. Sound(k) /\ Timely(k)
      BY <1>1 DEF Proper
    <3>2. QED
      BY <2>2, <3>1, DisinheritRanks
  <2> HIDE DEF v, left, l
  <2>4. \A x \in All : v.priority[x] = IF Gives(c) /\ x = t /\ held[t] = 1
                                       THEN k.base[x] ELSE k.priority[x]
    BY <1>5, <2>2, <2>3 DEF Ranked
  <2>5. t \in All /\ k \in KernelState /\ k.priority[t] >= k.base[t] /\ k.base[t] \in Int
        /\ Gn(k) = {}
    <3>1. t \in All /\ k \in KernelState /\ k.priority[t] >= k.base[t] /\ Gn(k) = {}
      BY <1>1 DEF All, Proper, Sound
    <3>2. k.base[t] \in Int
      BY <3>1, KernelTypes, KernelAssumption DEF Priority
    <3>3. QED
      BY <3>1, <3>2
  <2>6. v.priority[t] >= v.base[t]
    BY <2>3, <2>5 DEF Ranked
  <2>7. Frees(v, k, {}, {}, 0, 0)
    BY <1>1, <2>3, <2>5, <2>6, RankFrees
  <2>8. Proper(v, Hand)
    <3>1. Proper(v, Hand \ {})
      BY <1>1, <2>7, FreesProper
    <3>2. QED
      BY <3>1
  <2>9. Ev(v, l) = Ev(k, l) /\ v.schedulerSuspended = 0 /\ v.aborted = k.aborted
    BY <1>2, <2>3 DEF Ranked, Unmoved, l, Events
  <2>10. ASSUME NEW u, NEW X, FreesFirst(u, v, l, X), u.priority = v.priority, k' = u
         PROVE  /\ FreesFirst(k', k, l, X)
                /\ k'.priority = v.priority
    <3>1. Frees(u, k, {} \cup X, {} \cup X, 0, 0 + 0)
      BY <2>5, <2>7, <2>10, FreesTwice DEF FreesFirst
    <3>2. Frees(u, k, X, X, 0, 0)
      BY <3>1
    <3>3. QED
      BY <2>9, <2>10, <3>2 DEF FreesFirst
  <2>11. CASE v.events[l] # << >>
    <3>1. k' = WakeWaiter(v, l)
      BY <2>1, <2>11
    <3>2. k'.priority = v.priority /\ \E X : FreesFirst(k', v, l, X)
      BY <1>2, <2>8, <2>9, <3>1, WakerFreesFirst DEF l
    <3>3. QED
      BY <2>2, <2>4, <2>10, <3>2
  <2>12. CASE v.events[l] = << >>
    <3>1. k' = Yield(v) \/ k' = v
      BY <2>1, <2>12 DEF YieldIf
    <3>2. Ev(v, l) = {}
      BY <2>12 DEF Ev, ToSet
    <3>3. CASE k' = Yield(v)
      <4>1. FreesFirst(k', v, l, {}) /\ k'.priority = v.priority
        BY <2>8, <2>9, <3>2, <3>3, YieldFrees DEF FreesFirst
      <4>2. QED
        BY <2>2, <2>4, <2>10, <4>1
    <3>4. CASE k' = v
      <4>1. FreesFirst(v, k, l, {})
        BY <2>7, <2>9, <3>2 DEF FreesFirst
      <4>2. QED
        BY <2>2, <2>4, <3>4, <4>1
    <3>5. QED
      BY <3>1, <3>3, <3>4
  <2>13. QED
    BY <2>11, <2>12
<1>6. QED
  BY <1>4, <1>5

(* What it does to the locks: none.                                        *)
LEMMA SucceedUnlocked ==
  ASSUME ListsInv, NEW t \in Tasks, NEW c, CallRight(c), Succeed(t, c),
         \A q \in Queues : queue[q].txLock = -1 /\ queue[q].rxLock = -1
  PROVE  \A q \in Queues : queue'[q].txLock = -1 /\ queue'[q].rxLock = -1
<1>1. DOMAIN queue = Queues /\ \A q \in Queues : queue[q] \in QueueState(q)
  BY DEF ListsInv, StorageInv, QueuesTyped
<1>2. SUFFICES ASSUME NEW q \in Queues
               PROVE  queue'[q].txLock = -1 /\ queue'[q].rxLock = -1
  OBVIOUS
<1>3. c.on \in Queues
  BY DEF CallRight
<1>4. CASE Reset(t, c)
  BY <1>1, <1>3, <1>4 DEF Reset, Fresh
<1>5. CASE Send(t, c)
  BY <1>1, <1>3, <1>5 DEF Send, CopyTo, QueueState
<1>6. CASE Give(t, c)
  BY <1>1, <1>3, <1>6 DEF Give, QueueState
<1>7. CASE Receive(t, c)
  <2>1. CASE c.on \in Mutexes
    BY <1>1, <1>3, <1>7, <2>1 DEF Receive, QueueState
  <2>2. CASE c.on \notin Mutexes
    BY <1>1, <1>3, <1>7, <2>2 DEF Receive, CopyFrom, QueueState
  <2>3. QED
    BY <2>1, <2>2
<1>8. CASE Peek(t, c)
  BY <1>1, <1>8 DEF Peek
<1>9. QED
  BY <1>4, <1>5, <1>6, <1>7, <1>8 DEF Succeed

(* Nothing happens.                                                        *)
LEMMA SameFrees ==
  ASSUME NEW kk, NEW H, Proper(kk, H)
  PROVE  Frees(kk, kk, {}, {}, 0, 0)
<1>1. /\ kk \in KernelState
      /\ kk.schedulerSuspended = 0 => kk.pendedTicks = 0 /\ Ev(kk, Pending) = {}
  BY DEF Proper, Sound
<1>2. kk.pendedTicks = kk.pendedTicks + 0
  BY <1>1, KernelTypes
<1>3. QED
  BY <1>1, <1>2, FlagsFree

(* Nobody is being aborted while nobody has suspended the scheduler.       *)
LEMMA NoHand ==
  ASSUME AtRight, k.schedulerSuspended = 0
  PROVE  handle = Idle /\ Hand = {}
  BY DEF AtRight, Hand, Busy

(* What a task that blocks does, whatever becomes of priorities.           *)
Blocks(u, kk, c, L, n, forever) ==
  /\ Rd(u) = Rd(kk) \ {c}
  /\ Waiting(u) = IF forever THEN Waiting(kk) \ {c} ELSE Waiting(kk) \cup {c}
  /\ u.suspended = IF forever THEN kk.suspended \cup {c} ELSE kk.suspended \ {c}
  /\ \A l \in Events : Ev(u, l) = IF l \in L THEN Ev(kk, l) \cup {c} ELSE Ev(kk, l)
  /\ \A t \in Waiting(u) : Dist(u, t) = IF t = c THEN n ELSE Dist(kk, t)
  /\ u.current = c /\ u.schedulerSuspended = kk.schedulerSuspended
  /\ u.base = kk.base /\ u.swi = kk.swi /\ u.yieldPending = kk.yieldPending
  /\ u.tick = kk.tick /\ u.overflows = kk.overflows
  /\ u.pendedTicks = kk.pendedTicks
  /\ u.aborted = [kk.aborted EXCEPT ![c] = FALSE]

(* The test behind the lock: a task that has to wait goes to sleep, a      *)
(* mutex's holder with its priority.                                       *)
LEMMA CheckEffect ==
  ASSUME ListsInv, NEW t \in Tasks, Check(t)
  PROVE  LET c == call[t]
             waits == IF c.do = "send" THEN Full(c.on) ELSE Empty(c.on)
             h == queue[c.on].holder
         IN  /\ Proper(k', {}) /\ call'[t].why = IF waits THEN "waits" ELSE "again"
             /\ ~waits => k' = k
             /\ waits => /\ WaitList(c) \in EventLists
                         /\ Blocks(k', k, t, {WaitList(c)}, c.left, c.left = MaxDelay)
             /\ \/ k'.priority = k.priority
                \/ /\ c.on \in Mutexes /\ c.do = "receive" /\ h \in Tasks
                   /\ \A x \in All \ {h} : k'.priority[x] = k.priority[x]
                   /\ k'.priority[h] >= k.priority[h]
<1> DEFINE c == call[t]
           waits == IF c.do = "send" THEN Full(c.on) ELSE Empty(c.on)
           h == queue[c.on].holder
           mutex == c.on \in Mutexes /\ c.do = "receive" /\ h # None
           v == IF mutex THEN PriorityInherit(k, h) ELSE k
<1>1. At(t, "check")
  BY DEF Check
<1>2. /\ t = k.current /\ t # Idle /\ t \in All /\ t \in Rd(k) /\ pc[t] = "check"
      /\ Hand = {} /\ k \in KernelState
  BY <1>1, Here DEF Busy
<1>3. Proper(k, {}) /\ Sound(k) /\ Timely(k)
  BY <1>2 DEF ListsInv, KernelRight, Proper
<1>4. CallRight(c) /\ CallTyped(c) /\ c.on \in Queues
  BY <1>2 DEF ListsInv, StorageInv, CallsRight, TimesTyped, CallRight
<1>5. k' = (IF waits THEN PlaceOnEventList(v, WaitList(c), c.left) ELSE k)
  BY DEF Check
<1>6. call'[t].why = IF waits THEN "waits" ELSE "again"
  <2>1. DOMAIN call = Tasks
        /\ DOMAIN c = {"do", "on", "item", "pos", "asked", "left", "since", "inherited", "why"}
    BY <1>2 DEF ListsInv, StorageInv, CallsRight
  <2>2. QED
    BY <2>1 DEF Check
<1>7. \/ v = k
      \/ /\ c.on \in Mutexes /\ c.do = "receive" /\ h \in Tasks /\ h \in All
         /\ Ranked(v, k, h) /\ v.priority[h] >= k.priority[h]
  <2>1. ASSUME mutex PROVE h \in Tasks /\ h \in All
    <3>1. queue[c.on] \in QueueState(c.on)
      BY <1>4 DEF ListsInv, StorageInv, QueuesTyped
    <3>2. QED
      BY <2>1, <3>1 DEF QueueState, All
  <2>2. ASSUME mutex
        PROVE  /\ Ranked(PriorityInherit(k, h), k, h)
               /\ PriorityInherit(k, h).priority[h] >= k.priority[h]
    <3> HIDE DEF h, c
    <3>1. h \in All
      BY <2>1, <2>2 DEF h, c
    <3>2. QED
      BY <1>3, <3>1, InheritRanks
  <2>3. QED
    BY <2>1, <2>2
<1> HIDE DEF v, c, h
<1>8. Frees(v, k, {}, {}, 0, 0)
  <2>1. CASE v = k
    BY <1>3, <2>1, SameFrees
  <2>2. CASE v # k
    <3>1. v.priority[h] >= v.base[h]
      <4>1. k.priority[h] >= k.base[h] /\ v.base = k.base /\ v.priority[h] >= k.priority[h]
        BY <1>3, <1>7, <2>2 DEF Proper, Ranked
      <4>2. k.priority[h] \in Int /\ k.base[h] \in Int /\ v.priority[h] \in Int
        <5>1. v \in KernelState
          BY <1>7, <2>2 DEF Ranked, Unmoved, Sound
        <5>2. QED
          BY <1>2, <1>7, <2>2, <5>1, KernelTypes, KernelAssumption DEF Priority
      <4>3. QED
        BY <4>1, <4>2
    <3>2. QED
      BY <1>3, <1>7, <2>2, <3>1, RankFrees
  <2>3. QED
    BY <2>1, <2>2
<1>9. Proper(v, {})
  <2>1. Proper(v, {} \ {})
    BY <1>3, <1>8, FreesProper
  <2>2. QED
    BY <2>1
<1>10. CASE ~waits
  BY <1>3, <1>5, <1>6, <1>10 DEF c, h
<1>11. CASE waits
  <2>1. WaitList(c) \in EventLists
    BY <1>4, OwnLists DEF WaitList
  <2>2. c.left \in 1 .. Ticks - 1
    BY <1>4, KernelAssumption DEF CallTyped, MaxDelay
  <2>3. v.current = t /\ t \in Rd(v)
    BY <1>2, <1>8 DEF Frees
  <2> DEFINE u == PlaceOnEventList(v, WaitList(c), c.left)
  <2>4. Sleeps(u, v, t, {WaitList(c)}, c.left, c.left = MaxDelay)
    BY <1>9, <2>1, <2>2, <2>3, PlaceSleeps, OwnLists
  <2>5. k' = u
    BY <1>5, <1>11
  <2> HIDE DEF u
  <2>6. (c.left = MaxDelay) \in BOOLEAN
    OBVIOUS
  <2>7. Proper(u, {})
    BY <1>2, <1>9, <2>1, <2>3, <2>4, <2>6, SleepsProper, OwnLists
  <2>8. Blocks(u, k, t, {WaitList(c)}, c.left, c.left = MaxDelay)
    <3>1. /\ Rd(v) = Rd(k) /\ Waiting(v) = Waiting(k) /\ v.suspended = k.suspended
          /\ \A l \in Events : Ev(v, l) = Ev(k, l)
          /\ \A x \in Waiting(k) : Dist(v, x) = Dist(k, x)
          /\ v.schedulerSuspended = k.schedulerSuspended
          /\ v.base = k.base /\ v.swi = k.swi /\ v.yieldPending = k.yieldPending
          /\ v.tick = k.tick /\ v.overflows = k.overflows
          /\ v.pendedTicks = k.pendedTicks /\ v.aborted = k.aborted
      BY <1>7 DEF Ranked, Unmoved
    <3>2. \A x \in Waiting(u) : x # t => x \in Waiting(v)
      BY <2>4 DEF Sleeps
    <3>3. \A x \in Waiting(u) : Dist(u, x) = IF x = t THEN c.left ELSE Dist(k, x)
      BY <2>4, <3>1, <3>2 DEF Sleeps
    <3>4. QED
      BY <2>4, <3>1, <3>3 DEF Sleeps, Blocks
  <2>9. u.priority = v.priority
    BY <2>4 DEF Sleeps
  <2>10. \/ u.priority = k.priority
         \/ /\ c.on \in Mutexes /\ c.do = "receive" /\ h \in Tasks
            /\ \A x \in All \ {h} : u.priority[x] = k.priority[x]
            /\ u.priority[h] >= k.priority[h]
    BY <1>7, <2>9 DEF Ranked
  <2>11. QED
    BY <1>6, <1>11, <2>1, <2>5, <2>7, <2>8, <2>10 DEF c, h
<1>12. QED
  BY <1>10, <1>11

(* The end of xTaskAbortDelay: the task that it moved is ready, and so is  *)
(* everybody else that was to be when the scheduler goes on.               *)
LEMMA AbortEndEffect ==
  ASSUME ListsInv, NEW t \in Tasks, AbortEnd(t)
  PROVE  /\ handle \in Tasks /\ Hand = {handle} /\ k.schedulerSuspended = 1
         /\ \E X : Frees(k', k, X, X, k.pendedTicks, 0) /\ handle \in X
         /\ k'.schedulerSuspended = 0 /\ k'.priority = k.priority
         /\ k'.aborted = AbortWait(k, handle).aborted
         /\ \A x \in All \ {handle} : k'.aborted[x] = k.aborted[x]
<1> DEFINE v == AbortWait(k, handle)
           u == ResumeAll(v)
<1>1. At(t, "abort")
  BY DEF AbortEnd
<1>2. t = k.current /\ pc[t] = "abort" /\ k.schedulerSuspended = 1 /\ k \in KernelState
  BY <1>1, Here DEF Busy
<1>3. handle \in Tasks /\ Hand = {handle}
  BY <1>2 DEF ListsInv, AtRight, Hand, All
<1>4. Proper(k, Hand) /\ Gn(k) = {}
  BY DEF ListsInv, KernelRight, Proper
<1>5. /\ Frees(v, k, {handle}, {handle}, 0, 0)
      /\ v.schedulerSuspended = 1 /\ v.priority = k.priority
      /\ v.pendedTicks = k.pendedTicks
      /\ \A x \in All \ {handle} : v.aborted[x] = k.aborted[x]
  BY <1>2, <1>3, <1>4, AbortFrees
<1>6. k' = u
  BY DEF AbortEnd
<1> HIDE DEF v
<1>7. Proper(v, Hand \ {handle})
  BY <1>4, <1>5, FreesProper
<1>8. /\ Frees(u, v, Revived(v), Revived(v), v.pendedTicks, 0)
      /\ u.schedulerSuspended = 0 /\ u.priority = v.priority
      /\ u.aborted = v.aborted
  BY <1>5, <1>7, ResumeFrees
<1> HIDE DEF u
<1>9. Frees(u, k, {handle} \cup Revived(v), {handle} \cup Revived(v), v.pendedTicks, 0 + 0)
  BY <1>2, <1>4, <1>5, <1>8, FreesTwice
<1>10. Frees(u, k, {handle} \cup Revived(v), {handle} \cup Revived(v), k.pendedTicks, 0)
  BY <1>5, <1>9
<1>11. QED
  BY <1>2, <1>3, <1>5, <1>6, <1>8, <1>10 DEF v

(* A late receiver of a mutex gives the holder the priority of those that  *)
(* still wait.                                                             *)
LEMMA LateDisinheritEffect ==
  ASSUME ListsInv, NEW t \in Tasks, LateDisinherit(t)
  PROVE  LET h == queue[call[t].on].holder
         IN  /\ Frees(k', k, {}, {}, 0, 0) /\ k'.schedulerSuspended = 0
             /\ k'.aborted = k.aborted
             /\ \/ k' = k
                \/ /\ h \in Tasks /\ \A x \in All \ {h} : k'.priority[x] = k.priority[x]
<1> DEFINE q == call[t].on
           h == queue[q].holder
           l == k.events[ReceiveList(q)]
           w == IF l = << >> THEN 0 ELSE MaxPriorities - k.item[Head(l)]
           u == DisinheritAfterTimeout(k, h, held[h], w)
<1>1. At(t, "disinherit")
  BY DEF LateDisinherit
<1>2. t = k.current /\ pc[t] = "disinherit" /\ k.schedulerSuspended = 0 /\ k \in KernelState
  BY <1>1, Here DEF Busy
<1>3. Proper(k, Hand) /\ Sound(k) /\ Timely(k)
  BY DEF ListsInv, KernelRight, Proper
<1>4. q \in Queues /\ queue[q] \in QueueState(q)
  BY <1>2 DEF ListsInv, StorageInv, CallsRight, CallRight, QueuesTyped
<1>5. CASE h = None
  <2>1. k' = k
    BY <1>5 DEF LateDisinherit
  <2>2. QED
    BY <1>2, <1>3, <2>1, SameFrees
<1>6. CASE h # None
  <2>1. k' = u
    BY <1>6 DEF LateDisinherit
  <2>2. h \in Tasks /\ h \in All
    BY <1>4, <1>6 DEF QueueState, All
  <2>3. w \in Priority
    <3>1. ReceiveList(q) \in EventLists
      BY <1>4, OwnLists
    <3>2. l \in Seq(All)
      BY <1>2, <3>1, KernelTypes DEF Events
    <3>3. CASE l # << >>
      <4>1. Head(l) \in All
        BY <3>2, <3>3
      <4>2. MaxPriorities - k.item[Head(l)] = k.priority[Head(l)]
            /\ k.priority[Head(l)] \in Priority
        <5>1. /\ k.item[Head(l)] = MaxPriorities - k.priority[Head(l)]
              /\ k.priority[Head(l)] \in Priority
          BY <1>2, <1>3, <4>1, KernelTypes DEF Proper
        <5>2. QED
          BY <5>1, KernelAssumption DEF Priority
      <4>3. QED
        BY <3>3, <4>2
    <3>4. CASE l = << >>
      BY <3>4, KernelAssumption DEF Priority
    <3>5. QED
      BY <3>3, <3>4
  <2>4. k.priority[h] >= k.base[h]
    BY <1>3, <2>2 DEF Proper
  <2> HIDE DEF w, h
  <2>5. Ranked(u, k, h) /\ u.priority[h] >= k.base[h]
    BY <1>3, <2>2, <2>3, <2>4, LateRanks
  <2> HIDE DEF u
  <2>6. Frees(u, k, {}, {}, 0, 0)
    <3>1. u.priority[h] >= u.base[h]
      BY <2>5 DEF Ranked
    <3>2. QED
      BY <1>3, <2>2, <2>5, <3>1, RankFrees
  <2>7. QED
    BY <1>2, <2>1, <2>2, <2>5, <2>6 DEF Ranked, h
<1>7. QED
  BY <1>5, <1>6

(* What a handler does: with its queue unlocked, the first of those that   *)
(* wait for it is taken out of their list, to become ready now or when the *)
(* scheduler goes on.                                                      *)
FreesOne(u, kk, l, X) ==
  /\ Frees(u, kk, IF kk.schedulerSuspended = 0 THEN X ELSE {}, X, 0, 0)
  /\ X \subseteq Ev(kk, l) /\ (Ev(kk, l) # {} => \E x : X = {x})

(* What a handler leaves of the kernel: it wakes one, or nobody.           *)
LEMMA HandlerEffect ==
  ASSUME ListsInv, NEW h \in Handlers, SendFromISR(h) \/ ReceiveFromISR(h)
  PROVE  LET q == h.on
             l == IF h.do = "send" THEN ReceiveList(q) ELSE SendList(q)
             locked == Locked(IF h.do = "send" THEN queue[q].txLock ELSE queue[q].rxLock)
         IN  /\ k'.schedulerSuspended = k.schedulerSuspended
             /\ k'.priority = k.priority /\ k'.aborted = k.aborted
             /\ \/ locked /\ k' = k
                \/ ~locked /\ \E X : FreesOne(k', k, l, X)
             /\ \E R, X : Frees(k', k, R, X, 0, 0) /\ (k.schedulerSuspended # 0 => R = {})
<1> DEFINE q == h.on
           l == IF h.do = "send" THEN ReceiveList(q) ELSE SendList(q)
           locked == Locked(IF h.do = "send" THEN queue[q].txLock ELSE queue[q].rxLock)
<1>1. q \in Queues /\ h.do \in {"send", "receive"}
  BY QueuesAssumption
<1>2. l \in EventLists
  BY <1>1, OwnLists
<1>3. Proper(k, Hand)
  BY DEF ListsInv, KernelRight
<1>4. k' = IF locked THEN k ELSE WakeWaiter(k, l)
  <2>1. CASE SendFromISR(h)
    BY <2>1 DEF SendFromISR
  <2>2. CASE ReceiveFromISR(h)
    BY <2>2 DEF ReceiveFromISR
  <2>3. QED
    BY <2>1, <2>2
<1>5. CASE locked
  <2>1. k' = k /\ Frees(k, k, {}, {}, 0, 0)
    BY <1>3, <1>4, <1>5, SameFrees
  <2>2. QED
    BY <1>5, <2>1
<1>6. CASE ~locked
  <2> HIDE DEF l, locked
  <2> DEFINE u == WakeWaiter(k, l)
  <2>1. \E X : /\ Frees(u, k, IF k.schedulerSuspended = 0 THEN X ELSE {}, X, 0, 0)
               /\ X \subseteq Ev(k, l) /\ (Ev(k, l) # {} => \E x : X = {x})
               /\ u.schedulerSuspended = k.schedulerSuspended
               /\ u.priority = k.priority /\ u.aborted = k.aborted
    BY <1>2, <1>3, WakerFrees, OwnLists
  <2>2. k' = u
    BY <1>4, <1>6
  <2> HIDE DEF u
  <2>3. /\ k'.schedulerSuspended = k.schedulerSuspended
        /\ k'.priority = k.priority /\ k'.aborted = k.aborted
        /\ \E X : FreesOne(k', k, l, X)
    BY <2>1, <2>2 DEF FreesOne
  <2>4. \E R, X : Frees(k', k, R, X, 0, 0) /\ (k.schedulerSuspended # 0 => R = {})
    BY <2>1, <2>2
  <2>5. QED
    BY <1>6, <2>3, <2>4 DEF l, locked
<1>7. QED
  BY <1>5, <1>6

-----------------------------------------------------------------------------
(* Every step keeps the lists, the locks and the places right.             *)

ListsKept == KernelRight' /\ AtRight' /\ LocksRight' /\ held' \in [Tasks -> Int]

(* No queue is locked.                                                     *)
AllOpen == \A q \in Queues : queue[q].txLock = -1 /\ queue[q].rxLock = -1

(* With no task behind prvLockQueue no queue is locked, and the other way  *)
(* round.                                                                  *)
LEMMA OpenRight ==
  /\ LocksRight /\ pc[k.current] \notin {"check", "unlockTx", "unlockRx"} => AllOpen
  /\ AllOpen /\ pc[k.current] \notin {"check", "unlockTx", "unlockRx"} => LocksRight
  BY DEF LocksRight, AllOpen

(* Where no queue is locked, and the current task is where none is.        *)
LEMMA OpenStays ==
  ASSUME AllOpen', pc'[k'.current] \notin {"check", "unlockTx", "unlockRx"}
  PROVE  LocksRight'
  BY DEF LocksRight, AllOpen

(* Whoever becomes ready, the kernel stays right.                          *)
LEMMA FreesKernel ==
  ASSUME KernelRight, NEW R, NEW X, NEW n, NEW e, Frees(k', k, R, X, n, e),
         Hand' = Hand \ R
  PROVE  KernelRight' /\ k'.current = k.current /\ Rd(k) \subseteq Rd(k')
<1>1. Proper(k', Hand \ R)
  BY FreesProper DEF KernelRight
<1>2. KernelRight'
  BY <1>1 DEF KernelRight
<1>3. QED
  BY <1>2 DEF Frees

(* The current task goes on to p with the queues as they are.              *)
LEMMA Moves ==
  ASSUME ListsInv, NEW t \in Tasks, t = k.current, NEW p \in PCs, Goto(t, p)
  PROVE  /\ pc' = [pc EXCEPT ![t] = p] /\ t \in All /\ pc'[t] = p
         /\ \A x \in All \ {t} : pc'[x] = pc[x]
<1>1. t \in All /\ pc \in [All -> PCs]
  BY DEF ListsInv, AtRight, All
<1>2. QED
  BY <1>1 DEF Goto

(* A call that need not wait.                                              *)
LEMMA SucceedLists ==
  ASSUME ListsInv, NEW t \in Tasks, t = k.current, t \in Rd(k), k.schedulerSuspended = 0,
         pc[t] \in {"app", "try"}, NEW c, CallRight(c), Succeed(t, c), handle' = handle
  PROVE  /\ KernelRight' /\ AllOpen' /\ held' \in [Tasks -> Int]
         /\ k'.current = t /\ Rd(k) \subseteq Rd(k') /\ k'.schedulerSuspended = 0
         /\ ~k'.swi => ~k.swi
<1>1. PICK X : FreesFirst(k', k, FreeList(c), X)
  BY SucceedEffect
<1>2. Hand = {} /\ Hand' = {}
  BY NoHand DEF ListsInv, Hand
<1>3. KernelRight' /\ k'.current = t /\ Rd(k) \subseteq Rd(k')
  <2>1. Frees(k', k, X, X, 0, 0)
    BY <1>1 DEF FreesFirst
  <2>2. QED
    BY <1>2, <2>1, FreesKernel DEF ListsInv
<1>4. k'.schedulerSuspended = 0 /\ (~k'.swi => ~k.swi)
  BY <1>1 DEF FreesFirst, Frees, Hot
<1>5. AllOpen
  BY OpenRight DEF ListsInv
<1>6. AllOpen'
  BY <1>5, SucceedUnlocked DEF AllOpen
<1>7. held' \in [Tasks -> Int]
  <2>1. held \in [Tasks -> Int]
    BY DEF ListsInv
  <2>2. held' = held \/ held' = [held EXCEPT ![t] = @ + 1] \/ held' = [held EXCEPT ![t] = @ - 1]
    BY DEF Succeed, Reset, Send, Give, Receive, Peek
  <2>3. QED
    BY <2>1, <2>2
<1>8. QED
  BY <1>3, <1>4, <1>6, <1>7

(* A call that need not wait wakes one task; one that has to sets out for  *)
(* the wait.                                                               *)
LEMMA BeginLists ==
  ASSUME ListsInv, NEW t \in Tasks, NEW c \in use, Begin(t, c)
  PROVE  ListsKept
<1>1. At(t, "app")
  BY DEF Begin
<1>2. /\ t = k.current /\ pc[t] = "app" /\ t \in Rd(k) /\ k.schedulerSuspended = 0
      /\ Hand = {} /\ handle = Idle /\ t # Idle /\ ~k.swi
  BY <1>1, Here DEF Busy
<1>3. CallRight(c)
  BY QueuesAssumption DEF ListsInv, StorageInv, CallsRight, CallRight, Begin
<1>4. handle' = handle
  BY DEF Begin
<1>5. CASE Possible(c)
  <2>1. Succeed(t, c) /\ UNCHANGED <<pc, call>>
    BY <1>5 DEF Begin
  <2>2. /\ KernelRight' /\ AllOpen' /\ held' \in [Tasks -> Int]
        /\ k'.current = t /\ Rd(k) \subseteq Rd(k') /\ k'.schedulerSuspended = 0
        /\ ~k'.swi => ~k.swi
    BY <1>2, <1>3, <1>4, <2>1, SucceedLists
  <2>3. AtRight'
    BY <1>2, <1>4, <2>1, <2>2, AtKept DEF ListsInv
  <2>4. LocksRight'
    BY <1>2, <2>1, <2>2, OpenStays
  <2>5. QED
    BY <2>2, <2>3, <2>4 DEF ListsKept
<1>6. CASE ~Possible(c)
  <2>1. Goto(t, "block") /\ UNCHANGED <<k, queue, held>>
    BY <1>6 DEF Begin
  <2>2. KernelRight' /\ held' \in [Tasks -> Int]
    BY <1>4, <2>1 DEF ListsInv, KernelRight, Hand
  <2>3. "block" \in PCs /\ "block" \notin Busy
    BY DEF PCs, Busy
  <2>4. AtRight'
    <3>1. t \in Rd(k') /\ k'.current = k.current /\ k'.schedulerSuspended = 0
      BY <1>2, <2>1 DEF Rd, InReady
    <3>2. handle' \in All /\ (handle' # Idle <=> "block" = "abort")
      BY <1>2, <1>4 DEF All
    <3>3. QED
      BY <1>2, <2>1, <2>3, <3>1, <3>2, AtMoved DEF ListsInv, Goto
  <2>5. AllOpen'
    BY <1>2, <2>1, OpenRight DEF ListsInv, AllOpen
  <2>6. LocksRight'
    BY <1>2, <2>1, <2>3, <2>5, OpenStays, Moves
  <2>7. QED
    BY <2>2, <2>4, <2>6 DEF ListsKept
<1>7. QED
  BY <1>5, <1>6

(* The same in the loop.                                                   *)
LEMMA RetryLists ==
  ASSUME ListsInv, NEW t \in Tasks, Retry(t)
  PROVE  ListsKept
<1>1. At(t, "try")
  BY DEF Retry
<1>2. /\ t = k.current /\ pc[t] = "try" /\ t \in Rd(k) /\ k.schedulerSuspended = 0
      /\ Hand = {} /\ handle = Idle /\ t # Idle /\ ~k.swi
  BY <1>1, Here DEF Busy
<1>3. CallRight(call[t])
  BY <1>2 DEF ListsInv, StorageInv, CallsRight
<1>4. handle' = handle
  BY DEF Retry
<1>5. PICK p \in {"app", "block"} :
        /\ Goto(t, p)
        /\ KernelRight' /\ AllOpen' /\ held' \in [Tasks -> Int]
        /\ k'.current = t /\ Rd(k) \subseteq Rd(k') /\ k'.schedulerSuspended = 0
  <2>1. CASE Possible(call[t])
    <3>1. Succeed(t, call[t]) /\ Goto(t, "app")
      BY <2>1 DEF Retry
    <3>2. QED
      BY <1>2, <1>3, <1>4, <3>1, SucceedLists
  <2>2. CASE ~Possible(call[t])
    <3>1. Goto(t, "block") /\ UNCHANGED <<k, queue, held>>
      BY <2>2 DEF Retry
    <3>2. KernelRight' /\ held' \in [Tasks -> Int]
      BY <1>4, <3>1 DEF ListsInv, KernelRight, Hand
    <3>3. AllOpen'
      BY <1>2, <3>1, OpenRight DEF ListsInv, AllOpen
    <3>4. QED
      BY <1>2, <3>1, <3>2, <3>3
  <2>3. QED
    BY <2>1, <2>2
<1>6. p \in PCs /\ p \notin Busy /\ p \notin {"check", "unlockTx", "unlockRx"}
  BY DEF PCs, Busy
<1>7. AtRight'
  <2>1. t \in Rd(k')
    BY <1>2, <1>5
  <2>2. handle' \in All /\ (handle' # Idle <=> p = "abort")
    BY <1>2, <1>4 DEF All
  <2>3. QED
    BY <1>2, <1>5, <1>6, <2>1, <2>2, AtMoved DEF ListsInv, Goto
<1>8. LocksRight'
  BY <1>2, <1>5, <1>6, OpenStays, Moves
<1>9. QED
  BY <1>5, <1>7, <1>8 DEF ListsKept

(* A step of the current task that nobody becomes ready by, and that leaves*)
(* the queues alone.                                                       *)
LEMMA QuietLists ==
  ASSUME ListsInv, NEW t \in Tasks, t = k.current, NEW p \in PCs, Goto(t, p),
         UNCHANGED <<queue, held, handle>>, p # "abort", handle = Idle,
         pc[t] \notin {"check", "unlockTx", "unlockRx"},
         p \notin {"check", "unlockTx", "unlockRx"},
         Frees(k', k, {}, {}, 0, 0),
         k'.schedulerSuspended = IF p \in Busy THEN 1 ELSE 0,
         p \notin {"yield", "resume"} => t \in Rd(k),
         p = "resume" => t \in Rd(k) \/ call'[t].why = "waits",
         p = "yield" => k'.schedulerSuspended = 0
  PROVE  ListsKept
<1>1. KernelRight' /\ k'.current = k.current /\ Rd(k) \subseteq Rd(k')
  <2>1. Hand' = Hand \ {}
    BY DEF Hand
  <2>2. QED
    BY <2>1, FreesKernel DEF ListsInv
<1>2. AtRight'
  <2>1. handle' \in All /\ (handle' # Idle <=> p = "abort")
    BY DEF All
  <2>2. p \notin {"yield", "resume"} => t \in Rd(k')
    BY <1>1
  <2>3. p = "resume" => t \in Rd(k') \/ call'[t].why = "waits"
    BY <1>1
  <2>4. p = "resume" => k'.schedulerSuspended # 0
    BY DEF Busy
  <2>5. QED
    BY <1>1, <2>1, <2>2, <2>3, <2>4, AtMoved DEF ListsInv, Goto
<1>3. AllOpen'
  BY OpenRight DEF ListsInv, AllOpen
<1>4. LocksRight'
  BY <1>1, <1>3, OpenStays, Moves
<1>5. QED
  BY <1>1, <1>2, <1>4 DEF ListsInv, ListsKept

(* The scheduler is suspended by the current task.                         *)
LEMMA BlockLists ==
  ASSUME ListsInv, NEW t \in Tasks, Block(t)
  PROVE  ListsKept
<1>1. At(t, "block")
  BY DEF Block
<1>2. /\ t = k.current /\ pc[t] = "block" /\ t \in Rd(k) /\ k.schedulerSuspended = 0
      /\ handle = Idle
  BY <1>1, Here DEF Busy
<1>3. Frees(k', k, {}, {}, 0, 0) /\ k'.schedulerSuspended = 1
  BY <1>2, SuspendFrees DEF ListsInv, KernelRight, Block
<1>4. Goto(t, "lock") /\ UNCHANGED <<queue, held, handle>>
  BY DEF Block
<1>5. QED
  BY <1>2, <1>3, <1>4, QuietLists, "lock" \in PCs DEF PCs, Busy

(* The queue of the call is locked, on both sides.                         *)
LEMMA LockLists ==
  ASSUME ListsInv, NEW t \in Tasks, Lock(t)
  PROVE  ListsKept
<1>1. At(t, "lock")
  BY DEF Lock
<1>2. /\ t = k.current /\ pc[t] = "lock" /\ t \in Rd(k) /\ k.schedulerSuspended = 1
      /\ handle = Idle /\ t \in All
  BY <1>1, Here DEF Busy
<1>3. Frees(k', k, {}, {}, 0, 0) /\ k'.schedulerSuspended = 1
  <2>1. k' = [k EXCEPT !.aborted[t] = FALSE]
    BY DEF Lock
  <2>2. QED
    BY <1>2, <2>1, NotedFrees DEF ListsInv, KernelRight
<1>4. KernelRight' /\ k'.current = k.current /\ Rd(k) \subseteq Rd(k')
  <2>1. Hand' = Hand \ {}
    BY DEF Hand, Lock
  <2>2. QED
    BY <1>3, <2>1, FreesKernel DEF ListsInv
<1>5. PICK p \in {"check", "unlockTx"} : Goto(t, p)
  BY DEF Lock
<1>6. p \in PCs /\ p \in Busy
  BY DEF PCs, Busy
<1>7. AtRight'
  <2>1. handle' \in All /\ (handle' # Idle <=> p = "abort")
    BY <1>2 DEF All, Lock
  <2>2. t \in Rd(k')
    BY <1>2, <1>4
  <2>3. QED
    BY <1>2, <1>3, <1>4, <1>5, <1>6, <2>1, <2>2, AtMoved DEF ListsInv, Goto
<1>8. AllOpen
  BY <1>2, OpenRight DEF ListsInv
<1>9. LocksRight'
  <2>1. pc'[k'.current] = p
    BY <1>2, <1>4, <1>5, <1>6, Moves
  <2>2. DOMAIN queue = Queues /\ \A q \in Queues : queue[q] \in QueueState(q)
    BY DEF ListsInv, StorageInv, QueuesTyped
  <2>3. call'[t].on = call[t].on /\ call[t].on \in Queues
    <3>1. /\ DOMAIN call = Tasks /\ CallRight(call[t])
          /\ DOMAIN call[t] =
               {"do", "on", "item", "pos", "asked", "left", "since", "inherited", "why"}
      BY <1>2 DEF ListsInv, StorageInv, CallsRight
    <3>2. QED
      BY <3>1 DEF Lock, CallRight
  <2>4. /\ queue'[call[t].on].txLock = 0 /\ queue'[call[t].on].rxLock = 0
        /\ \A q \in Queues \ {call[t].on} : queue'[q].txLock = -1 /\ queue'[q].rxLock = -1
    BY <1>8, <2>2, <2>3 DEF Lock, QueueState, AllOpen
  <2>5. QED
    BY <1>2, <1>4, <2>1, <2>3, <2>4 DEF LocksRight
<1>10. held' \in [Tasks -> Int]
  BY DEF ListsInv, Lock
<1>11. QED
  BY <1>4, <1>7, <1>9, <1>10 DEF ListsKept

(* The current task puts itself into a list, or finds that it need not.    *)
LEMMA CheckLists ==
  ASSUME ListsInv, NEW t \in Tasks, Check(t)
  PROVE  ListsKept
<1> DEFINE c == call[t]
           waits == IF c.do = "send" THEN Full(c.on) ELSE Empty(c.on)
<1>1. At(t, "check")
  BY DEF Check
<1>2. /\ t = k.current /\ pc[t] = "check" /\ t \in Rd(k) /\ k.schedulerSuspended = 1
      /\ handle = Idle /\ t \in All /\ Hand = {}
  BY <1>1, Here DEF Busy
<1>3. /\ Proper(k', {}) /\ call'[t].why = IF waits THEN "waits" ELSE "again"
      /\ ~waits => k' = k
      /\ waits => /\ WaitList(c) \in EventLists
                  /\ Blocks(k', k, t, {WaitList(c)}, c.left, c.left = MaxDelay)
  BY CheckEffect
<1>4. Goto(t, "unlockTx") /\ UNCHANGED <<queue, held, handle>>
  BY DEF Check
<1> HIDE DEF waits
<1>5. KernelRight'
  BY <1>2, <1>3, <1>4 DEF KernelRight, Hand
<1>6. k'.current = t /\ k'.schedulerSuspended = 1 /\ (t \in Rd(k') \/ call'[t].why = "waits")
  BY <1>2, <1>3 DEF Blocks
<1>7. AtRight'
  <2>1. handle' \in All /\ (handle' # Idle <=> "unlockTx" = "abort")
    BY <1>2, <1>4 DEF All
  <2>2. "unlockTx" \in PCs /\ "unlockTx" \in Busy
    BY DEF PCs, Busy
  <2>3. AtRight /\ pc' = [pc EXCEPT ![t] = "unlockTx"] /\ k'.current = k.current
    BY <1>2, <1>4, <1>6 DEF ListsInv, Goto
  <2>4. "unlockTx" \notin {"lock", "check", "abort"} /\ k'.schedulerSuspended # 0
    BY <1>6
  <2>5. QED
    BY <1>2, <1>6, <2>1, <2>2, <2>3, <2>4, AtMoved
<1>8. LocksRight'
  <2>1. pc'[k'.current] = "unlockTx"
    BY <1>2, <1>4, <1>6, Moves, "unlockTx" \in PCs DEF PCs
  <2>2. call'[t].on = call[t].on
    <3>1. /\ DOMAIN call = Tasks
          /\ DOMAIN call[t] =
               {"do", "on", "item", "pos", "asked", "left", "since", "inherited", "why"}
      BY <1>2 DEF ListsInv, StorageInv, CallsRight
    <3>2. QED
      BY <3>1 DEF Check
  <2>3. QED
    BY <1>2, <1>4, <1>6, <2>1, <2>2 DEF ListsInv, LocksRight
<1>9. QED
  BY <1>4, <1>5, <1>7, <1>8 DEF ListsInv, ListsKept

(* prvUnlockQueue, in either half.                                         *)
LEMMA UnlockEffect ==
  ASSUME ListsInv, NEW t \in Tasks, UnlockTx(t) \/ UnlockRx(t)
  PROVE  LET q == call[t].on
             l == IF UnlockTx(t) THEN ReceiveList(q) ELSE SendList(q)
             n == IF UnlockTx(t) THEN queue[q].txLock ELSE queue[q].rxLock
         IN  /\ q \in Queues /\ n \in Nat
             /\ k'.schedulerSuspended = 1 /\ k'.priority = k.priority /\ k'.aborted = k.aborted
             /\ \E X : /\ Frees(k', k, {}, X, 0, 0)
                       /\ X \subseteq Ev(k, l) /\ IsFiniteSet(X)
                       /\ Ev(k, l) \ X # {} => Cardinality(X) = n
<1> DEFINE q == call[t].on
           l == IF UnlockTx(t) THEN ReceiveList(q) ELSE SendList(q)
           n == IF UnlockTx(t) THEN queue[q].txLock ELSE queue[q].rxLock
<1>1. PICK p \in {"unlockTx", "unlockRx"} :
        At(t, p) /\ (UnlockTx(t) <=> p = "unlockTx") /\ (UnlockRx(t) <=> p = "unlockRx")
  BY DEF UnlockTx, UnlockRx, At
<1>2. t = k.current /\ pc[t] = p /\ k.schedulerSuspended = 1
  BY <1>1, Here DEF Busy
<1>3. q \in Queues /\ queue[q] \in QueueState(q)
  BY <1>2 DEF ListsInv, StorageInv, CallsRight, CallRight, QueuesTyped
<1>4. n \in Nat
  <2>1. n # -1
    BY <1>1, <1>2, <1>3 DEF ListsInv, LocksRight
  <2>2. n \in -1 .. Length[q] /\ Length[q] \in Nat
    BY <1>3, LengthType DEF QueueState
  <2>3. QED
    BY <2>1, <2>2
<1>5. l \in EventLists /\ Proper(k, Hand)
  BY <1>3, OwnLists DEF ListsInv, KernelRight
<1>6. k' = WakeWaiters(k, l, n)
  BY <1>1 DEF UnlockTx, UnlockRx
<1> HIDE DEF l, n
<1> DEFINE u == WakeWaiters(k, l, n)
<1>7. \E X : /\ Frees(u, k, {}, X, 0, 0)
             /\ X \subseteq Ev(k, l) /\ IsFiniteSet(X)
             /\ (Ev(k, l) \ X # {} => Cardinality(X) = n)
             /\ u.schedulerSuspended = k.schedulerSuspended
             /\ u.priority = k.priority /\ u.aborted = k.aborted
  BY <1>2, <1>4, <1>5, WakersFree, OwnLists
<1>8. k' = u
  BY <1>6
<1> HIDE DEF u
<1>9. QED
  BY <1>2, <1>3, <1>4, <1>7, <1>8 DEF l, n

(* Each side of the queue is unlocked; who is woken waits in               *)
(* xPendingReadyList.                                                      *)
LEMMA UnlockLists ==
  ASSUME ListsInv, NEW t \in Tasks, UnlockTx(t) \/ UnlockRx(t)
  PROVE  ListsKept
<1> DEFINE q == call[t].on
<1>1. PICK p \in {"unlockTx", "unlockRx"} :
        At(t, p) /\ (UnlockTx(t) <=> p = "unlockTx") /\ (UnlockRx(t) <=> p = "unlockRx")
  BY DEF UnlockTx, UnlockRx, At
<1>2. /\ t = k.current /\ pc[t] = p /\ k.schedulerSuspended = 1 /\ handle = Idle
      /\ t \in All
  BY <1>1, Here DEF Busy
<1>3. q \in Queues /\ k'.schedulerSuspended = 1 /\ \E X : Frees(k', k, {}, X, 0, 0)
  BY UnlockEffect
<1>4. UNCHANGED <<held, call, handle>>
  BY DEF UnlockTx, UnlockRx
<1>5. KernelRight' /\ k'.current = k.current /\ Rd(k) \subseteq Rd(k')
  <2>1. Hand' = Hand \ {}
    BY <1>4 DEF Hand
  <2>2. QED
    BY <1>3, <2>1, FreesKernel DEF ListsInv
<1> DEFINE next == IF p = "unlockTx" THEN "unlockRx" ELSE "resume"
<1>6. Goto(t, next) /\ next \in PCs /\ next \in Busy /\ next \in {"unlockRx", "resume"}
  BY <1>1 DEF UnlockTx, UnlockRx, PCs, Busy
<1>7. AtRight'
  <2>1. handle' \in All /\ (handle' # Idle <=> next = "abort")
    BY <1>2, <1>4 DEF All
  <2>2. t \in Rd(k') \/ call'[t].why = "waits"
    BY <1>2, <1>4, <1>5 DEF ListsInv, AtRight
  <2>3. AtRight /\ pc' = [pc EXCEPT ![t] = next]
    BY <1>6 DEF ListsInv, Goto
  <2>4. next \notin {"lock", "check", "abort"} /\ k'.schedulerSuspended # 0
    BY <1>3
  <2> HIDE DEF next
  <2>5. QED
    BY <1>2, <1>3, <1>5, <1>6, <2>1, <2>2, <2>3, <2>4, AtMoved
<1>8. LocksRight'
  <2>1. pc'[k'.current] = next
    BY <1>2, <1>5, <1>6, Moves
  <2>2. DOMAIN queue = Queues /\ \A r \in Queues : queue[r] \in QueueState(r)
    BY DEF ListsInv, StorageInv, QueuesTyped
  <2>3. CASE p = "unlockTx"
    <3>1. queue' = [queue EXCEPT ![q].txLock = -1]
      BY <1>1, <2>3 DEF UnlockTx
    <3>2. \A r \in Queues : /\ queue'[r].txLock = IF r = q THEN -1 ELSE queue[r].txLock
                            /\ queue'[r].rxLock = queue[r].rxLock
      BY <1>3, <2>2, <3>1 DEF QueueState
    <3>3. QED
      BY <1>2, <1>3, <1>4, <1>5, <2>1, <2>3, <3>2 DEF ListsInv, LocksRight
  <2>4. CASE p = "unlockRx"
    <3>1. queue' = [queue EXCEPT ![q].rxLock = -1]
      BY <1>1, <2>4 DEF UnlockRx
    <3>2. \A r \in Queues : /\ queue'[r].rxLock = IF r = q THEN -1 ELSE queue[r].rxLock
                            /\ queue'[r].txLock = queue[r].txLock
      BY <1>3, <2>2, <3>1 DEF QueueState
    <3>3. QED
      BY <1>2, <1>3, <1>4, <1>5, <2>1, <2>4, <3>2 DEF ListsInv, LocksRight
  <2>5. QED
    BY <2>3, <2>4
<1>9. QED
  BY <1>4, <1>5, <1>7, <1>8 DEF ListsInv, ListsKept

(* A step of the current task that leaves the queues alone, and after which*)
(* the scheduler goes on.                                                  *)
LEMMA OpenLists ==
  ASSUME ListsInv, NEW t \in Tasks, t = k.current, NEW p \in PCs \ Busy, Goto(t, p),
         UNCHANGED <<queue, held>>, pc[t] \notin {"check", "unlockTx", "unlockRx"},
         NEW R, NEW X, NEW n, NEW e, Frees(k', k, R, X, n, e), Hand' = Hand \ R,
         handle' = Idle, k'.schedulerSuspended = 0, ~k'.swi /\ p # "yield" => t \in Rd(k')
  PROVE  ListsKept
<1>1. KernelRight' /\ k'.current = k.current /\ Rd(k) \subseteq Rd(k')
  BY FreesKernel DEF ListsInv
<1>2. AtRight'
  <2>1. handle' \in All /\ (handle' # Idle <=> p = "abort")
    BY DEF All, Busy
  <2>2. p \notin {"lock", "check", "abort", "unlockTx", "unlockRx", "resume"}
    BY DEF Busy
  <2>3. AtRight /\ pc' = [pc EXCEPT ![t] = p]
    BY DEF ListsInv, Goto
  <2>4. QED
    BY <1>1, <2>1, <2>2, <2>3, AtMoved
<1>3. AllOpen'
  BY OpenRight DEF ListsInv, AllOpen
<1>4. LocksRight'
  BY <1>1, <1>3, OpenStays, Moves DEF Busy
<1>5. QED
  BY <1>1, <1>2, <1>4 DEF ListsInv, ListsKept

(* xTaskResumeAll.                                                         *)
LEMMA ResumeEffect ==
  ASSUME ListsInv, NEW t \in Tasks, Resume(t)
  PROVE  /\ \E X : Frees(k', k, X, X, k.pendedTicks, 0)
         /\ k'.schedulerSuspended = 0 /\ k'.priority = k.priority
         /\ k'.aborted = k.aborted /\ (k'.yieldPending => k'.swi)
         /\ call[t].why # "waits" => t \in Rd(k)
<1>1. At(t, "resume")
  BY DEF Resume
<1>2. t = k.current /\ pc[t] = "resume" /\ k.schedulerSuspended = 1
  BY <1>1, Here DEF Busy
<1>3. k' = ResumeAll(k)
  BY DEF Resume
<1>4. call[t].why # "waits" => t \in Rd(k)
  BY <1>2 DEF ListsInv, AtRight
<1> DEFINE u == ResumeAll(k)
<1>5. /\ Frees(u, k, Revived(k), Revived(k), k.pendedTicks, 0)
      /\ u.schedulerSuspended = 0 /\ u.priority = k.priority
      /\ u.aborted = k.aborted /\ (u.yieldPending => u.swi)
  BY <1>2, ResumeFrees DEF ListsInv, KernelRight
<1> HIDE DEF u
<1>6. k' = u
  BY <1>3 DEF u
<1>7. QED
  BY <1>4, <1>5, <1>6

(* The scheduler goes on: those of xPendingReadyList are ready.            *)
LEMMA ResumeLists ==
  ASSUME ListsInv, NEW t \in Tasks, Resume(t)
  PROVE  ListsKept
<1>1. At(t, "resume")
  BY DEF Resume
<1>2. t = k.current /\ pc[t] = "resume" /\ Hand = {} /\ handle = Idle
  BY <1>1, Here DEF Busy
<1>3. PICK X : Frees(k', k, X, X, k.pendedTicks, 0)
  BY ResumeEffect
<1>4. /\ k'.schedulerSuspended = 0 /\ (k'.yieldPending => k'.swi)
      /\ call[t].why # "waits" => t \in Rd(k)
  BY ResumeEffect
<1>5. Rd(k) \subseteq Rd(k')
  BY <1>3 DEF Frees
<1>6. UNCHANGED <<queue, held, handle>>
  BY DEF Resume
<1>7. PICK p \in {"app", "empty", "yield", "try"} :
        Goto(t, p) /\ (~k'.swi /\ p # "yield" => t \in Rd(k'))
  <2>1. \/ Fail(t) /\ call[t].why = "late"
        \/ Goto(t, CASE call[t].why = "late" -> "empty"
                     [] call[t].why = "waits" /\ ~k'.yieldPending -> "yield"
                     [] OTHER -> "try")
    BY DEF Resume
  <2>2. CASE Fail(t) /\ call[t].why = "late"
    BY <1>4, <1>5, <2>2 DEF Fail
  <2>3. CASE call[t].why = "late"
    BY <1>4, <1>5, <2>1, <2>2, <2>3
  <2>4. CASE call[t].why = "waits"
    <3>1. Goto(t, "yield") \/ (Goto(t, "try") /\ k'.yieldPending)
      BY <2>1, <2>4
    <3>2. QED
      BY <1>4, <3>1
  <2>5. CASE call[t].why \notin {"late", "waits"}
    BY <1>4, <1>5, <2>1, <2>5
  <2>6. QED
    BY <2>3, <2>4, <2>5
<1>8. Hand' = Hand \ X
  BY <1>2, <1>6 DEF Hand
<1>9. p \in PCs \ Busy
  BY DEF PCs, Busy
<1>10. handle' = Idle /\ pc[t] \notin {"check", "unlockTx", "unlockRx"}
  BY <1>2, <1>6
<1>11. QED
  BY <1>2, <1>3, <1>4, <1>6, <1>7, <1>8, <1>9, <1>10, OpenLists

(* The task that has put itself to sleep yields.                           *)
LEMMA CallYieldLists ==
  ASSUME ListsInv, NEW t \in Tasks, CallYield(t)
  PROVE  ListsKept
<1>1. At(t, "yield")
  BY DEF CallYield
<1>2. /\ t = k.current /\ pc[t] = "yield" /\ Hand = {} /\ handle = Idle
      /\ k.schedulerSuspended = 0
  BY <1>1, Here DEF Busy
<1>3. Frees(k', k, {}, {}, 0, 0) /\ k'.swi = TRUE /\ k'.schedulerSuspended = 0
  BY <1>2, YieldFrees DEF CallYield, ListsInv, KernelRight
<1>4. Goto(t, "try") /\ UNCHANGED <<queue, held, handle>> /\ "try" \in PCs \ Busy
  BY DEF CallYield, PCs, Busy
<1>5. Hand' = Hand \ {}
  BY <1>4 DEF Hand
<1>6. QED
  BY <1>2, <1>3, <1>4, <1>5, OpenLists

(* A receiver that is late looks once more.                                *)
LEMMA LateLists ==
  ASSUME ListsInv, NEW t \in Tasks, Late(t)
  PROVE  ListsKept
<1>1. At(t, "empty")
  BY DEF Late
<1>2. /\ t = k.current /\ pc[t] = "empty" /\ Hand = {} /\ handle = Idle
      /\ k.schedulerSuspended = 0 /\ t \in Rd(k)
  BY <1>1, Here DEF Busy
<1>3. k' = k /\ UNCHANGED <<queue, held, handle>>
  BY DEF Late
<1>4. Frees(k', k, {}, {}, 0, 0) /\ k'.schedulerSuspended = 0 /\ t \in Rd(k')
  BY <1>2, <1>3, SameFrees DEF ListsInv, KernelRight
<1>5. PICK p \in {"try", "disinherit", "app"} : Goto(t, p)
  BY DEF Late, Fail
<1>6. p \in PCs \ Busy
  BY DEF PCs, Busy
<1>7. Hand' = Hand \ {}
  BY <1>3 DEF Hand
<1>8. QED
  BY <1>2, <1>3, <1>4, <1>5, <1>6, <1>7, OpenLists

(* Only priorities change when a receiver gives up a mutex.                *)
LEMMA LateDisinheritLists ==
  ASSUME ListsInv, NEW t \in Tasks, LateDisinherit(t)
  PROVE  ListsKept
<1>1. At(t, "disinherit")
  BY DEF LateDisinherit
<1>2. /\ t = k.current /\ pc[t] = "disinherit" /\ Hand = {} /\ handle = Idle
      /\ t \in Rd(k)
  BY <1>1, Here DEF Busy
<1>3. Goto(t, "app") /\ UNCHANGED <<queue, held, handle>> /\ "app" \in PCs \ Busy
  BY DEF LateDisinherit, Fail, PCs, Busy
<1>4. Frees(k', k, {}, {}, 0, 0) /\ k'.schedulerSuspended = 0
  BY LateDisinheritEffect
<1>5. t \in Rd(k') /\ Hand' = Hand \ {}
  BY <1>2, <1>3, <1>4 DEF Frees, Hand
<1>6. QED
  BY <1>2, <1>3, <1>4, <1>5, OpenLists

(* The task whose wait was aborted is ready again.                         *)
LEMMA AbortEndLists ==
  ASSUME ListsInv, NEW t \in Tasks, AbortEnd(t)
  PROVE  ListsKept
<1>1. At(t, "abort")
  BY DEF AbortEnd
<1>2. t = k.current /\ pc[t] = "abort" /\ t \in Rd(k)
  BY <1>1, Here DEF Busy
<1>3. PICK X : Frees(k', k, X, X, k.pendedTicks, 0) /\ handle \in X
  BY AbortEndEffect
<1>4. Hand = {handle} /\ k'.schedulerSuspended = 0
  BY AbortEndEffect
<1>5. Goto(t, "app") /\ UNCHANGED <<queue, held>> /\ handle' = Idle /\ "app" \in PCs \ Busy
  BY DEF AbortEnd, PCs, Busy, None
<1>6. t \in Rd(k') /\ Hand' = Hand \ X
  BY <1>2, <1>3, <1>4, <1>5 DEF Frees, Hand
<1>7. QED
  BY <1>2, <1>3, <1>4, <1>5, <1>6, OpenLists

(* The start of xTaskAbortDelay: the task is in no list, and nothing else  *)
(* is different.                                                           *)
LEMMA AbortEffect ==
  ASSUME ListsInv, NEW t \in Tasks, NEW u \in Tasks, Abort(t, u)
  PROVE  /\ Proper(k', {u}) /\ Rd(k') = Rd(k) /\ Waiting(k') \subseteq Waiting(k)
         /\ \A l : Ev(k', l) = Ev(k, l)
         /\ \A x \in Waiting(k') : Dist(k', x) = Dist(k, x)
         /\ k.schedulerSuspended = 0 /\ k'.schedulerSuspended = 1
         /\ k'.current = k.current /\ k'.swi = k.swi
         /\ k'.priority = k.priority /\ k'.base = k.base /\ k'.aborted = k.aborted
         /\ k'.tick = k.tick /\ k'.overflows = k.overflows /\ k'.pendedTicks = k.pendedTicks
<1>1. At(t, "app")
  BY DEF Abort
<1>2. /\ k.schedulerSuspended = 0 /\ Hand = {} /\ k \in KernelState
  BY <1>1, Here DEF Busy
<1>3. Proper(k, {})
  BY <1>2 DEF ListsInv, KernelRight
<1> DEFINE v == SuspendAll(k)
           w == Unlink(v, {u})
<1>4. k' = w /\ u \in Waiting(k) \cup k.suspended
  BY DEF Abort, Waiting, Dl, Ov
<1>5. /\ v.current = k.current /\ v.swi = k.swi /\ v.priority = k.priority
      /\ v.base = k.base /\ v.aborted = k.aborted /\ v.tick = k.tick
      /\ v.overflows = k.overflows /\ v.pendedTicks = k.pendedTicks
      /\ v.ready = k.ready /\ v.delayed = k.delayed /\ v.overflow = k.overflow
      /\ v.suspended = k.suspended /\ v.events = k.events /\ v.wake = k.wake
  BY <1>2 DEF KernelState, SuspendAll
<1>6. Frees(v, k, {}, {}, 0, 0) /\ v.schedulerSuspended = 1
  BY <1>2, <1>3, SuspendFrees
<1> HIDE DEF v
<1>7. Proper(v, {})
  <2>1. Proper(v, {} \ {})
    BY <1>3, <1>6, FreesProper
  <2>2. QED
    BY <2>1
<1>8. /\ Rd(v) = Rd(k) /\ Waiting(v) = Waiting(k) /\ \A l : Ev(v, l) = Ev(k, l)
      /\ \A x : Dist(v, x) = Dist(k, x)
  BY <1>5 DEF Rd, InReady, Waiting, Dl, Ov, Ev, Dist
<1>9. u \in Waiting(v) \cup v.suspended
  BY <1>4, <1>5, <1>8
<1>10. /\ Proper(w, {u})
       /\ Rd(w) = Rd(v) /\ Waiting(w) \subseteq Waiting(v)
       /\ \A l : Ev(w, l) = Ev(v, l)
       /\ \A x \in Waiting(w) : Dist(w, x) = Dist(v, x)
       /\ w.current = v.current /\ w.schedulerSuspended = v.schedulerSuspended
       /\ w.priority = v.priority /\ w.base = v.base /\ w.aborted = v.aborted
       /\ w.swi = v.swi
       /\ w.tick = v.tick /\ w.overflows = v.overflows
       /\ w.pendedTicks = v.pendedTicks
  BY <1>7, <1>9, UnlinkProper
<1> HIDE DEF w
<1>11. QED
  BY <1>2, <1>4, <1>5, <1>6, <1>8, <1>10

(* The task whose wait is aborted is in no list for the moment.            *)
LEMMA AbortLists ==
  ASSUME ListsInv, NEW t \in Tasks, NEW u \in Tasks, Abort(t, u)
  PROVE  ListsKept
<1>1. At(t, "app")
  BY DEF Abort
<1>2. t = k.current /\ pc[t] = "app" /\ t \in Rd(k)
  BY <1>1, Here DEF Busy
<1>3. /\ Proper(k', {u}) /\ Rd(k') = Rd(k) /\ k'.schedulerSuspended = 1
      /\ k'.current = k.current
  BY AbortEffect
<1>4. Goto(t, "abort") /\ UNCHANGED <<queue, held>> /\ handle' = u
  BY DEF Abort
<1>5. u # Idle /\ u \in All
  BY KernelAssumption DEF All
<1>6. KernelRight'
  BY <1>3, <1>4, <1>5 DEF KernelRight, Hand
<1>7. AtRight'
  <2>1. AtRight /\ pc' = [pc EXCEPT ![t] = "abort"] /\ "abort" \in PCs /\ "abort" \in Busy
    BY <1>4 DEF ListsInv, Goto, PCs, Busy
  <2>2. t \in Rd(k')
    BY <1>2, <1>3
  <2>3. QED
    BY <1>2, <1>3, <1>4, <1>5, <2>1, <2>2, AtMoved
<1>8. AllOpen'
  BY <1>2, <1>4, OpenRight DEF ListsInv, AllOpen
<1>9. LocksRight'
  BY <1>2, <1>3, <1>4, <1>8, OpenStays, Moves, "abort" \in PCs DEF PCs
<1>10. QED
  BY <1>4, <1>6, <1>7, <1>9 DEF ListsInv, ListsKept

(* vTaskDelay.                                                             *)
LEMMA DelayEffect ==
  ASSUME ListsInv, NEW t \in Tasks, NEW c \in use, Delay(t, c)
  PROVE  /\ Proper(k', {}) /\ Rd(k') \subseteq Rd(k) /\ Rd(k) \ {t} \subseteq Rd(k')
         /\ Waiting(k') \subseteq Waiting(k) \cup {t}
         /\ \A l \in EventLists : Ev(k', l) = Ev(k, l)
         /\ \A x \in Waiting(k') : x # t => Dist(k', x) = Dist(k, x)
         /\ k.schedulerSuspended = 0 /\ k'.schedulerSuspended = 0
         /\ k'.current = k.current /\ k'.swi = TRUE
         /\ k'.priority = k.priority /\ k'.base = k.base
         /\ k'.aborted = k.aborted \/ k'.aborted = [k.aborted EXCEPT ![t] = FALSE]
         /\ k'.tick = k.tick /\ k'.overflows = k.overflows /\ k'.pendedTicks = k.pendedTicks
<1>1. At(t, "app")
  BY DEF Delay
<1>2. /\ k.schedulerSuspended = 0 /\ Hand = {} /\ k \in KernelState
      /\ t = k.current /\ t \in Rd(k) /\ t # Idle
  BY <1>1, Here DEF Busy
<1>3. Proper(k, {})
  BY <1>2 DEF ListsInv, KernelRight
<1>4. c.ticks \in 0 .. Ticks - 1
  BY QueuesAssumption DEF ListsInv, StorageInv, CallsRight, MaxDelay
<1> DEFINE a == AddCurrentToDelayed(k, c.ticks, FALSE)
           v == IF c.ticks = 0 THEN k ELSE a
           w == Yield(v)
<1>5. k' = w
  BY DEF Delay
<1>6. c.ticks # 0 => Sleeps(a, k, t, {}, c.ticks, FALSE)
  <2>1. c.ticks # 0 => c.ticks \in 1 .. Ticks - 1
    BY <1>4, KernelAssumption
  <2>2. QED
    BY <1>2, <1>3, <2>1, DelaySleeps
<1> HIDE DEF a
<1>7. c.ticks # 0 => Proper(a, {})
  BY <1>2, <1>3, <1>6, SleepsProper, OwnLists
<1>8. Proper(v, {})
  BY <1>3, <1>7
<1>9. /\ Rd(v) \subseteq Rd(k) /\ Rd(k) \ {t} \subseteq Rd(v)
      /\ Waiting(v) \subseteq Waiting(k) \cup {t}
      /\ \A l \in EventLists : Ev(v, l) = Ev(k, l)
      /\ \A x \in Waiting(v) : x # t => Dist(v, x) = Dist(k, x)
      /\ v.schedulerSuspended = 0 /\ v.current = k.current
      /\ v.priority = k.priority /\ v.base = k.base
      /\ v.aborted = k.aborted \/ v.aborted = [k.aborted EXCEPT ![t] = FALSE]
      /\ v.tick = k.tick /\ v.overflows = k.overflows /\ v.pendedTicks = k.pendedTicks
  <2>1. CASE c.ticks = 0
    BY <1>2, <2>1
  <2>2. CASE c.ticks # 0
    BY <1>2, <1>6, <2>2 DEF Sleeps, Events
  <2>3. QED
    BY <2>1, <2>2
<1> HIDE DEF v
<1>10. /\ Frees(w, v, {}, {}, 0, 0) /\ w.swi = TRUE
       /\ w.schedulerSuspended = v.schedulerSuspended
       /\ w.priority = v.priority /\ w.aborted = v.aborted
  BY <1>8, YieldFrees
<1>11. Proper(w, {})
  <2>1. Proper(w, {} \ {})
    BY <1>8, <1>10, FreesProper
  <2>2. QED
    BY <2>1
<1>12. /\ Rd(w) = Rd(v) /\ Waiting(w) = Waiting(v) /\ \A l \in EventLists : Ev(w, l) = Ev(v, l)
       /\ w.current = v.current /\ w.base = v.base
  BY <1>10 DEF Frees
<1>13. /\ \A x \in Waiting(w) : Dist(w, x) = Dist(v, x)
       /\ w.tick = v.tick /\ w.overflows = v.overflows /\ w.pendedTicks = v.pendedTicks
  <2>1. v \in KernelState
    BY <1>8 DEF Proper, Sound
  <2>2. /\ w.tick = v.tick /\ w.overflows = v.overflows /\ w.pendedTicks = v.pendedTicks
        /\ w.delayed = v.delayed /\ w.wake = v.wake
    BY <2>1 DEF Yield, KernelState
  <2>3. QED
    BY <2>2 DEF Dist, Dl
<1> HIDE DEF w
<1>14. QED
  BY <1>2, <1>5, <1>9, <1>10, <1>11, <1>12, <1>13

(* The current task is off for a time, in no event list.                   *)
LEMMA DelayLists ==
  ASSUME ListsInv, NEW t \in Tasks, NEW c \in use, Delay(t, c)
  PROVE  ListsKept
<1>1. At(t, "app")
  BY DEF Delay
<1>2. t = k.current /\ pc[t] = "app" /\ Hand = {} /\ t # Idle
  BY <1>1, Here DEF Busy
<1>3. /\ Proper(k', {}) /\ k.schedulerSuspended = 0 /\ k'.schedulerSuspended = 0
      /\ k'.current = k.current /\ k'.swi = TRUE
  BY DelayEffect
<1>4. UNCHANGED <<queue, held, pc, call, handle>>
  BY DEF Delay
<1>5. KernelRight'
  BY <1>2, <1>3, <1>4 DEF KernelRight, Hand
<1>6. AtRight'
  BY <1>2, <1>3, <1>4, AtKept DEF ListsInv
<1>7. LocksRight'
  BY <1>3, <1>4 DEF ListsInv, LocksRight
<1>8. QED
  BY <1>4, <1>5, <1>6, <1>7 DEF ListsInv, ListsKept

(* A mutex is only counted.                                                *)
LEMMA AgainLists ==
  ASSUME ListsInv, NEW t \in Tasks, NEW c \in use, Again(t, c)
  PROVE  ListsKept
<1>1. UNCHANGED <<k, held, pc, call, handle>>
  BY DEF Again
<1>2. PICK n : queue' = [queue EXCEPT ![c.on].count = n]
  BY DEF Again
<1>3. DOMAIN queue = Queues /\ \A q \in Queues : queue[q] \in QueueState(q)
  BY DEF ListsInv, StorageInv, QueuesTyped
<1>4. \A q \in Queues : queue'[q].txLock = queue[q].txLock /\ queue'[q].rxLock = queue[q].rxLock
  BY <1>2, <1>3 DEF QueueState
<1>5. LocksRight'
  BY <1>1, <1>4 DEF ListsInv, LocksRight
<1>6. KernelRight'
  BY <1>1 DEF ListsInv, KernelRight, Hand
<1>7. AtRight'
  BY <1>1, AtKept DEF ListsInv, Rd, InReady
<1>8. QED
  BY <1>1, <1>5, <1>6, <1>7 DEF ListsInv, ListsKept

(* Whoever is made ready while no task goes on is not the one that         *)
(* xTaskAbortDelay moves.                                                  *)
LEMMA OutsideLists ==
  ASSUME ListsInv, UNCHANGED <<held, pc, call, handle>>,
         NEW R, NEW X, NEW n, NEW e, Frees(k', k, R, X, n, e),
         k.schedulerSuspended # 0 => R = {},
         k'.schedulerSuspended = k.schedulerSuspended,
         \A q \in Queues : /\ queue'[q].txLock = -1 <=> queue[q].txLock = -1
                           /\ queue'[q].rxLock = -1 <=> queue[q].rxLock = -1
  PROVE  ListsKept
<1>1. Hand' = Hand \ R
  <2>1. k.schedulerSuspended = 0 => Hand = {}
    BY NoHand DEF ListsInv
  <2>2. Hand' = Hand
    BY DEF Hand
  <2>3. QED
    BY <2>1, <2>2
<1>2. KernelRight' /\ k'.current = k.current /\ Rd(k) \subseteq Rd(k')
  BY <1>1, FreesKernel DEF ListsInv
<1>3. k'.schedulerSuspended = 0 /\ ~k'.swi => ~k.swi
  BY DEF Frees, Hot
<1>4. AtRight'
  BY <1>2, <1>3, AtKept DEF ListsInv
<1>5. LocksRight'
  BY <1>2 DEF ListsInv, LocksRight
<1>6. QED
  BY <1>2, <1>4, <1>5 DEF ListsInv, ListsKept

(* A handler wakes one, or counts for a locked queue.                      *)
LEMMA HandlerLists ==
  ASSUME ListsInv, NEW h \in Handlers, SendFromISR(h) \/ ReceiveFromISR(h)
  PROVE  ListsKept
<1>1. PICK R, X : Frees(k', k, R, X, 0, 0) /\ (k.schedulerSuspended # 0 => R = {})
  BY HandlerEffect
<1>2. k'.schedulerSuspended = k.schedulerSuspended
  BY HandlerEffect
<1>3. DOMAIN queue = Queues /\ \A q \in Queues : queue[q] \in QueueState(q)
  BY DEF ListsInv, StorageInv, QueuesTyped
<1>4. h.on \in Queues
  BY QueuesAssumption
<1>5. ASSUME NEW q \in Queues
      PROVE  /\ queue'[q].txLock = -1 <=> queue[q].txLock = -1
             /\ queue'[q].rxLock = -1 <=> queue[q].rxLock = -1
  <2>1. queue[q].txLock \in -1 .. Length[q] /\ queue[q].rxLock \in -1 .. Length[q]
        /\ Length[q] \in Nat
    BY <1>3, LengthType DEF QueueState
  <2>2. CASE SendFromISR(h)
    <3>1. /\ queue'[q].rxLock = queue[q].rxLock
          /\ queue'[q].txLock = IF q = h.on /\ Locked(queue[q].txLock)
                                THEN queue[q].txLock + 1 ELSE queue[q].txLock
      BY <1>3, <1>4, <2>2 DEF SendFromISR, CopyTo, QueueState
    <3>2. QED
      BY <2>1, <3>1 DEF Locked
  <2>3. CASE ReceiveFromISR(h)
    <3>1. /\ queue'[q].txLock = queue[q].txLock
          /\ queue'[q].rxLock = IF q = h.on /\ Locked(queue[q].rxLock)
                                THEN queue[q].rxLock + 1 ELSE queue[q].rxLock
      BY <1>3, <1>4, <2>3 DEF ReceiveFromISR, CopyFrom, QueueState
    <3>2. QED
      BY <2>1, <3>1 DEF Locked
  <2>4. QED
    BY <2>2, <2>3
<1>6. UNCHANGED <<held, pc, call, handle>>
  BY DEF SendFromISR, ReceiveFromISR
<1>7. QED
  BY <1>1, <1>2, <1>5, <1>6, OutsideLists

(* A tick wakes those whose time has come.                                 *)
LEMMA TickLists ==
  ASSUME ListsInv, Tick
  PROVE  ListsKept
<1> DEFINE u == SysTick(k)
<1>1. \E R, n : /\ Frees(u, k, R, R, n, 1)
                /\ k.schedulerSuspended # 0 => n = 0 /\ R = {}
                /\ u.schedulerSuspended = k.schedulerSuspended
                /\ u.priority = k.priority /\ u.aborted = k.aborted
  BY TickFrees DEF ListsInv, KernelRight
<1>2. k' = u
  BY DEF Tick
<1> HIDE DEF u
<1>3. UNCHANGED <<queue, held, pc, call, handle>>
  BY DEF Tick
<1>4. QED
  BY <1>1, <1>2, <1>3, OutsideLists

(* Another task has the processor.                                         *)
LEMMA SwitchLists ==
  ASSUME ListsInv, Switch
  PROVE  ListsKept
<1>1. k' = SwitchContext(k) /\ UNCHANGED <<queue, held, pc, call, handle>>
  BY DEF Switch
<1> DEFINE u == SwitchContext(k)
<1>2. Proper(k, Hand)
  BY DEF ListsInv, KernelRight
<1>3. CASE k.schedulerSuspended # 0
  <2>1. Frees(u, k, {}, {}, 0, 0) /\ u.schedulerSuspended = k.schedulerSuspended
    BY <1>2, <1>3, PutOffFrees
  <2>2. k' = u
    BY <1>1
  <2> HIDE DEF u
  <2>3. QED
    BY <1>1, <2>1, <2>2, OutsideLists
<1>4. CASE k.schedulerSuspended = 0
  <2>1. /\ Proper(u, Hand) /\ u.current \in Rd(u) /\ u.schedulerSuspended = 0 /\ u.swi = FALSE
    BY <1>2, <1>4, SwitchProper
  <2>2. k' = u
    BY <1>1
  <2> HIDE DEF u
  <2>3. KernelRight'
    BY <1>1, <2>1, <2>2 DEF KernelRight, Hand
  <2>4. AtRight /\ pc[k.current] \notin Busy /\ handle = Idle
    BY <1>4, NoHand DEF ListsInv, AtRight
  <2>5. k'.current \in All
    BY <2>1, <2>2 DEF Rd
  <2>6. \A x \in All : pc'[x] \notin Busy
    BY <1>1, <2>4 DEF AtRight, All, Busy
  <2>7. AtRight'
    <3>1. pc'[k'.current] \notin Busy
      BY <2>5, <2>6
    <3>2. k'.current \in Rd(k')
      BY <2>1, <2>2
    <3>3. handle' \in All /\ handle' = Idle
      BY <1>1, <2>4 DEF All
    <3>4. \A x \in Tasks : pc'[x] \notin Busy
      BY <2>6 DEF All
    <3>5. pc' \in [All -> PCs] /\ pc'[Idle] = "app"
      BY <1>1, <2>4 DEF AtRight
    <3>6. pc'[k'.current] \notin {"lock", "check", "abort", "unlockTx", "unlockRx", "resume"}
      BY <3>1 DEF Busy
    <3>7. /\ \A x \in Tasks : pc'[x] \in Busy => x = k'.current
          /\ k'.schedulerSuspended = IF pc'[k'.current] \in Busy THEN 1 ELSE 0
          /\ (handle' # Idle <=> pc'[k'.current] = "abort")
      BY <2>1, <2>2, <3>1, <3>3, <3>4, <3>6
    <3>8. QED
      BY <3>2, <3>3, <3>5, <3>6, <3>7 DEF AtRight, Rd, InReady
  <2>8. LocksRight'
    <3>1. AllOpen
      BY <2>4, OpenRight DEF ListsInv, Busy
    <3>2. AllOpen' /\ pc'[k'.current] \notin {"check", "unlockTx", "unlockRx"}
      BY <1>1, <2>5, <2>6, <3>1 DEF AllOpen, Busy
    <3>3. QED
      BY <3>2, OpenStays
  <2>9. QED
    BY <1>1, <2>3, <2>7, <2>8 DEF ListsInv, ListsKept
<1>5. QED
  BY <1>3, <1>4

(* Nothing happens.                                                        *)
LEMMA StutterLists ==
  ASSUME ListsInv, UNCHANGED vars
  PROVE  ListsKept
<1>1. UNCHANGED <<k, queue, held, pc, call, handle>>
  BY DEF vars
<1>2. KernelRight' /\ LocksRight'
  BY <1>1 DEF ListsInv, KernelRight, Hand, LocksRight
<1>3. AtRight'
  BY <1>1, AtKept DEF ListsInv, Rd, InReady
<1>4. QED
  BY <1>1, <1>2, <1>3 DEF ListsInv, ListsKept

(* Every step keeps all of it.                                             *)
LEMMA ListsStep ==
  ASSUME ListsInv, [Next]_vars
  PROVE  ListsInv'
<1>1. StorageInv'
  BY StorageStep DEF ListsInv
<1>2. TimesTyped'
  <2>1. k \in KernelState
    BY DEF ListsInv, KernelRight, Proper, Sound
  <2>2. QED
    BY <2>1, TimesStep DEF ListsInv
<1>3. ListsKept
  <2>1. ASSUME NEW t \in Tasks, Continue(t) PROVE ListsKept
    BY <2>1, RetryLists, BlockLists, LockLists, CheckLists, UnlockLists, ResumeLists,
       CallYieldLists, LateLists, LateDisinheritLists, AbortEndLists DEF Continue
  <2>2. ASSUME NEW t \in Tasks, Call(t) PROVE ListsKept
    BY <2>2, BeginLists, DelayLists, AgainLists, AbortLists DEF Call
  <2>3. CASE Handler
    BY <2>3, HandlerLists DEF Handler
  <2>4. QED
    BY <2>1, <2>2, <2>3, TickLists, SwitchLists, StutterLists DEF Next
<1>4. QED
  BY <1>1, <1>2, <1>3 DEF ListsKept, ListsInv

(* vTaskStartScheduler: all are ready, nobody waits, no queue is locked.   *)
LEMMA ListsInit ==
  ASSUME Init
  PROVE  ListsInv
<1>1. PICK own \in Owns : k = Started(First, [t \in All |-> IF t = Idle THEN 0 ELSE own[t]])
  BY DEF Init
<1> DEFINE p == [t \in All |-> IF t = Idle THEN 0 ELSE own[t]]
<1>2. p \in [All -> Priority]
  <2>1. own \in [Tasks -> Priority] /\ 0 \in Priority
    BY QueuesAssumption, KernelAssumption DEF Priority
  <2>2. QED
    BY <2>1 DEF All
<1>3. First \in Seq(Tasks) /\ IsInjective(First) /\ ToSet(First) = Tasks
  BY QueuesAssumption
<1> HIDE DEF p
<1> DEFINE u == Started(First, p)
<1>4. k = u
  BY <1>1 DEF p
<1>5. /\ Sound(u) /\ Timely(u)
      /\ Rd(u) = ToSet(First) \cup {Idle} /\ Waiting(u) = {} /\ u.suspended = {}
      /\ Gn(u) = {} /\ \A l \in Events : Ev(u, l) = {}
      /\ u.current \in Rd(u) /\ \A t \in Rd(u) : u.priority[t] <= u.priority[u.current]
      /\ u.schedulerSuspended = 0 /\ u.pendedTicks = 0 /\ u.swi = FALSE
      /\ u.priority = p /\ u.base = p
  BY <1>2, <1>3, StartedRight
<1>6. u.item = [t \in All |-> MaxPriorities - p[t]]
  BY StartedFields, ZenonT(30)
<1> HIDE DEF u
<1>7. Rd(u) = All
  BY <1>3, <1>5 DEF All
<1>8. handle = Idle /\ Hand = {}
  BY DEF Init, Hand, None
<1>9. Proper(u, {})
  <2>1. All \ Listed(u) = {} /\ Idle \in Rd(u)
    BY <1>7 DEF Listed, All
  <2>2. Ev(u, Pending) = {}
        /\ \A l \in Events : Ev(u, l) \subseteq Waiting(u) \cup u.suspended \cup {}
    BY <1>5 DEF Events
  <2>3. \A t \in All : u.item[t] = MaxPriorities - u.priority[t] /\ u.priority[t] >= u.base[t]
    <3>1. \A t \in All : p[t] >= p[t]
      BY <1>2, KernelAssumption DEF Priority
    <3>2. QED
      BY <1>5, <1>6, <3>1
  <2>4. QED
    BY <1>5, <2>1, <2>2, <2>3 DEF Proper
<1>10. KernelRight
  BY <1>4, <1>8, <1>9 DEF KernelRight
<1>11. \A t \in All : pc[t] = "app"
  BY DEF Init
<1>12. AtRight
  <2>1. pc \in [All -> PCs] /\ Idle \in All /\ k.current \in All
    BY <1>4, <1>5, <1>7 DEF Init, PCs, All
  <2>2. QED
    BY <1>4, <1>5, <1>8, <1>11, <2>1 DEF AtRight, Busy, All
<1>13. LocksRight
  BY <1>4, <1>5, <1>7, <1>11 DEF Init, LocksRight, Fresh
<1>14. held \in [Tasks -> Int]
  BY DEF Init
<1>15. QED
  BY <1>10, <1>12, <1>13, <1>14, StorageInit, TimesInit DEF ListsInv

(* What the invariant says of the lists.                                   *)
LEMMA ListsFollow ==
  ASSUME ListsInv
  PROVE  ListsRight(k, handle) /\ OnePlace /\ LockedBriefly
<1>1. Proper(k, Hand)
  BY DEF ListsInv, KernelRight
<1>2. ListsRight(k, handle)
  <2>1. Hand \subseteq {handle}
    BY DEF Hand
  <2>2. Blocked(k, handle)
    BY <1>1, <2>1 DEF Blocked, Proper, Events, Waiting
  <2>3. QED
    BY <1>1, <2>2, ListsAreRight DEF Proper
<1>3. OnePlace
  <2>1. SUFFICES ASSUME NEW t \in All PROVE Places(k, t) = {} <=> t = handle /\ t # Idle
    BY DEF OnePlace
  <2>2. Places(k, t) = {} <=> t \notin Listed(k)
    BY PlacesRight
  <2>3. t \notin Listed(k) <=> t \in Hand
    BY <1>1 DEF Proper
  <2>4. QED
    BY <2>2, <2>3 DEF Hand
<1>4. LockedBriefly
  BY DEF ListsInv, AtRight, LocksRight, LockedBriefly, Locked, Busy
<1>5. QED
  BY <1>2, <1>3, <1>4

(* Every task is in one list at a time, the lists are what they should be, *)
(* and a queue is locked only while the task that locked it runs with the  *)
(* scheduler suspended.                                                    *)
THEOREM QueuesLists == Spec => [](ListsRight(k, handle) /\ OnePlace /\ LockedBriefly)
<1>1. ListsInv /\ [Next]_vars => ListsInv'
  BY ListsStep
<1>2. QED
  BY <1>1, ListsInit, ListsFollow, PTL DEF Spec

-----------------------------------------------------------------------------
(* Mutexes and their holders.                                              *)

(* A call that goes on is the same call, and one that begins is one of the *)
(* application's that is not possible now.                                 *)
SameCall(t) ==
  /\ pc[t] \notin {"app", "abort"}
  /\ call'[t].do = call[t].do /\ call'[t].on = call[t].on /\ call'[t].asked = call[t].asked

NewCall(t) ==
  \E c \in use : /\ Begin(t, c) /\ ~Possible(c) /\ call'[t] = Locals(c)
                 /\ pc'[t] = "block" /\ waited'[t] = 0 /\ UNCHANGED <<k, queue, held>>

(* A step leaves a call as it is, or begins one.                           *)
LEMMA CallsStay ==
  ASSUME ListsInv, [Next]_vars, NEW t \in Tasks, pc'[t] \notin {"app", "abort"}
  PROVE  SameCall(t) \/ NewCall(t)
<1> DEFINE Fields == {"do", "on", "item", "pos", "asked", "left", "since", "inherited", "why"}
<1>1. /\ DOMAIN call = Tasks /\ pc \in [All -> PCs] /\ t \in All
      /\ waited \in [Tasks -> 0 .. MaxWaited]
  BY DEF ListsInv, StorageInv, CallsRight, TimesTyped, All
<1>2. \A x \in Tasks : pc[x] \notin {"app", "abort"} => DOMAIN call[x] = Fields
  BY DEF ListsInv, StorageInv, CallsRight
<1>3. ASSUME call'[t] = call[t], pc[t] \notin {"app", "abort"} PROVE SameCall(t)
  BY <1>3 DEF SameCall
<1>4. ASSUME NEW x \in Tasks, NEW p, Goto(x, p),
             p \notin {"app", "abort"} => UNCHANGED call /\ pc[x] \notin {"app", "abort"},
             UNCHANGED call \/ call' = [call EXCEPT ![x] = NoCall]
      PROVE  SameCall(t)
  <2>1. x # t => pc'[t] = pc[t] /\ call'[t] = call[t]
    BY <1>1, <1>4 DEF Goto
  <2>2. x = t => p = pc'[t]
    BY <1>1, <1>4 DEF Goto
  <2>3. QED
    BY <1>3, <1>4, <2>1, <2>2
<1>5. ASSUME NEW x \in Tasks, Continue(x) PROVE SameCall(t)
  <2>1. CASE Retry(x)
    BY <1>4, <2>1 DEF Retry, At
  <2>2. CASE Block(x) \/ UnlockTx(x) \/ UnlockRx(x) \/ CallYield(x)
    BY <1>4, <2>2 DEF Block, UnlockTx, UnlockRx, CallYield, At
  <2>3. CASE Lock(x) \/ Check(x)
    <3>1. pc[x] \notin {"app", "abort"}
      BY <2>3 DEF Lock, Check, At
    <3>2. x # t => pc'[t] = pc[t] /\ call'[t] = call[t]
      BY <1>1, <2>3 DEF Lock, Check, Goto
    <3>3. /\ call'[x].do = call[x].do /\ call'[x].on = call[x].on
          /\ call'[x].asked = call[x].asked
      BY <1>1, <1>2, <2>3, <3>1 DEF Lock, Check
    <3>4. QED
      BY <1>3, <3>1, <3>2, <3>3 DEF SameCall
  <2>4. CASE Resume(x) \/ Late(x) \/ LateDisinherit(x)
    <3>1. pc[x] \notin {"app", "abort"}
      BY <2>4 DEF Resume, Late, LateDisinherit, At
    <3>2. \/ Fail(x)
          \/ \E p : Goto(x, p) /\ UNCHANGED call
      BY <2>4 DEF Resume, Late, LateDisinherit
    <3>3. QED
      BY <1>4, <3>1, <3>2 DEF Fail
  <2>5. CASE AbortEnd(x)
    BY <1>4, <2>5 DEF AbortEnd
  <2>6. QED
    BY <1>5, <2>1, <2>2, <2>3, <2>4, <2>5 DEF Continue
<1>6. ASSUME NEW x \in Tasks, Call(x) PROVE SameCall(t) \/ NewCall(t)
  <2>1. ASSUME NEW c \in use, Begin(x, c) PROVE SameCall(t) \/ NewCall(t)
    <3>1. CASE Possible(c)
      BY <1>3, <2>1, <3>1 DEF Begin
    <3>2. CASE ~Possible(c)
      <4>1. /\ Goto(x, "block") /\ call' = [call EXCEPT ![x] = Locals(c)]
            /\ waited' = [waited EXCEPT ![x] = 0] /\ UNCHANGED <<k, queue, held>>
        BY <2>1, <3>2 DEF Begin
      <4>2. CASE x = t
        BY <1>1, <2>1, <3>2, <4>1, <4>2 DEF NewCall, Goto
      <4>3. CASE x # t
        BY <1>1, <1>3, <4>1, <4>3 DEF Goto
      <4>4. QED
        BY <4>2, <4>3
    <3>3. QED
      BY <3>1, <3>2
  <2>2. ASSUME NEW c \in use, Delay(x, c) \/ Again(x, c) PROVE SameCall(t)
    BY <1>3, <2>2 DEF Delay, Again
  <2>3. ASSUME NEW u \in Tasks, Abort(x, u) PROVE SameCall(t)
    BY <1>4, <2>3 DEF Abort
  <2>4. QED
    BY <1>6, <2>1, <2>2, <2>3 DEF Call
<1>7. CASE Handler
  BY <1>3, <1>7 DEF Handler, SendFromISR, ReceiveFromISR
<1>8. CASE Tick \/ Switch \/ UNCHANGED vars
  BY <1>3, <1>8 DEF Tick, Switch, vars
<1>9. QED
  BY <1>5, <1>6, <1>7, <1>8, Zenon DEF Next

(* The mutexes that t holds.                                               *)
Own(t) == {q \in Queues : GetMutexHolder(q) = t}

(* A mutex is away exactly while somebody holds it, only taking one can    *)
(* make a task wait, and a task's mutexes are counted right: its priority  *)
(* is its own when it holds none.                                          *)
HoldersRight ==
  \A q \in Queues : /\ q \notin Mutexes => queue[q].holder = None
                    /\ q \in Mutexes => (queue[q].holder # None <=> queue[q].waiting = 0)

TakersRight ==
  \A t \in Tasks : pc[t] \notin {"app", "abort"} /\ call[t].on \in Mutexes =>
    call[t].do = "receive"

CountsRight ==
  \A t \in Tasks : held[t] = Cardinality(Own(t)) /\ (held[t] = 0 => k.priority[t] = k.base[t])

MutexInv == HoldersRight /\ TakersRight /\ CountsRight

(* A task's mutexes are finitely many, and one that it holds counts.       *)
LEMMA OwnCounts ==
  ASSUME NEW t
  PROVE  /\ IsFiniteSet(Own(t)) /\ Cardinality(Own(t)) \in Nat
         /\ Cardinality(Own(t)) <= Cardinality(Mutexes) \/ t = None
         /\ \A q \in Own(t) : Cardinality(Own(t)) # 0
<1>1. IsFiniteSet(Queues) /\ Mutexes \subseteq Queues
  BY QueuesAssumption
<1>2. Own(t) \subseteq Queues /\ (t # None => Own(t) \subseteq Mutexes)
  BY DEF Own, GetMutexHolder
<1>3. IsFiniteSet(Own(t)) /\ IsFiniteSet(Mutexes)
  BY <1>1, <1>2, FS_Subset
<1>4. Cardinality(Own(t)) \in Nat
  BY <1>3, FS_CardinalityType
<1>5. t # None => Cardinality(Own(t)) <= Cardinality(Mutexes)
  BY <1>2, <1>3, FS_Subset
<1>6. Cardinality(Own(t)) = 0 => Own(t) = {}
  BY <1>3, FS_EmptySet
<1>7. QED
  BY <1>3, <1>4, <1>5, <1>6

(* Who is waited for holds a mutex.                                        *)
LEMMA HolderHolds ==
  ASSUME ListsInv, MutexInv, NEW q \in Queues, queue[q].holder \in Tasks
  PROVE  held[queue[q].holder] # 0
<1>1. q \in Mutexes /\ q \in Own(queue[q].holder)
  BY KernelAssumption DEF MutexInv, HoldersRight, Own, GetMutexHolder, None
<1>2. QED
  BY <1>1, OwnCounts DEF MutexInv, CountsRight

(* A step that no mutex changes its holder by.                             *)
LEMMA HoldersKept ==
  ASSUME HoldersRight, CountsRight,
         \A q \in Queues : queue'[q].holder = queue[q].holder,
         \A q \in Mutexes : queue'[q].waiting = queue[q].waiting,
         held' = held, \A t \in Tasks : held[t] = 0 => k'.priority[t] = k.priority[t],
         k'.base = k.base
  PROVE  HoldersRight' /\ CountsRight'
<1>1. HoldersRight'
  BY QueuesAssumption DEF HoldersRight
<1>2. \A t : Own(t)' = Own(t)
  BY QueuesAssumption DEF Own, GetMutexHolder
<1>3. QED
  BY <1>1, <1>2 DEF CountsRight

(* A call that need not wait: who gives a mutex back holds it.             *)
LEMMA SucceedHolders ==
  ASSUME ListsInv, HoldersRight, CountsRight, NEW t \in Tasks, t = k.current,
         k.schedulerSuspended = 0, NEW c, CallRight(c), Succeed(t, c),
         c.on \in Mutexes => c.do \in {"send", "receive"},
         Gives(c) => queue[c.on].holder = t
  PROVE  HoldersRight' /\ CountsRight'
<1> DEFINE q == c.on
<1>1. /\ DOMAIN queue = Queues /\ q \in Queues /\ held \in [Tasks -> Int] /\ t # None
      /\ \A r \in Queues : queue[r] \in QueueState(r)
  BY KernelAssumption DEF ListsInv, StorageInv, QueuesTyped, CallRight, None
<1>2. \A x \in All : k'.priority[x] = IF Gives(c) /\ x = t /\ held[t] = 1
                                      THEN k.base[x] ELSE k.priority[x]
  BY SucceedEffect
<1>3. k'.base = k.base
  <2>1. PICK X : FreesFirst(k', k, FreeList(c), X)
    BY SucceedEffect
  <2>2. QED
    BY <2>1 DEF FreesFirst, Frees
<1>4. Tasks \subseteq All
  BY DEF All
<1>5. CASE q \notin Mutexes
  <2>1. held' = held /\ \A r \in Mutexes : queue'[r] = queue[r]
    BY <1>1, <1>5, QueuesAssumption DEF Succeed, Reset, Send, Give, Receive, Peek
  <2>2. queue'[q].holder = queue[q].holder
    <3>1. queue[q].holder = None
      BY <1>1, <1>5 DEF HoldersRight
    <3>2. CASE Reset(t, c)
      BY <1>1, <3>1, <3>2 DEF Reset, Fresh
    <3>3. CASE Send(t, c)
      <4>1. queue'[q] = CopyTo(q, c.item, c.pos)
        BY <1>1, <3>3 DEF Send
      <4>2. QED
        BY <1>1, <4>1 DEF CopyTo, QueueState
    <3>4. CASE Receive(t, c)
      <4>1. queue' = [queue EXCEPT ![q] = CopyFrom(q)]
        BY <1>5, <3>4 DEF Receive
      <4>2. queue'[q] = CopyFrom(q)
        BY <1>1, <4>1
      <4>3. QED
        BY <1>1, <4>2 DEF CopyFrom, QueueState
    <3>5. CASE Peek(t, c)
      BY <3>5 DEF Peek
    <3>6. QED
      BY <1>5, <3>2, <3>3, <3>4, <3>5 DEF Succeed, Give
  <2>3. \A r \in Queues \ {q} : queue'[r] = queue[r]
    BY <1>1, <1>5 DEF Succeed, Reset, Send, Give, Receive, Peek
  <2>4. QED
    BY <1>2, <1>3, <1>4, <1>5, <2>1, <2>2, <2>3, HoldersKept DEF Gives
<1>6. CASE q \in Mutexes /\ c.do = "send"
  <2>1. /\ queue' = [queue EXCEPT ![q].waiting = 1, ![q].holder = None, ![q].count = 0]
        /\ held' = [held EXCEPT ![t] = held[t] - 1]
    BY <1>6 DEF Succeed, Reset, Send, Give, Receive, Peek
  <2>2. /\ queue'[q].waiting = 1 /\ queue'[q].holder = None
        /\ \A r \in Queues \ {q} : queue'[r] = queue[r]
    BY <1>1, <2>1 DEF QueueState
  <2>3. HoldersRight'
    BY <1>6, <2>2, QueuesAssumption DEF HoldersRight
  <2>4. queue[q].holder = t
    BY <1>6 DEF Gives
  <2>5. q \in Own(t) /\ Own(t)' = Own(t) \ {q} /\ \A x \in Tasks \ {t} : Own(x)' = Own(x)
    BY <1>1, <1>6, <2>2, <2>4, KernelAssumption, QueuesAssumption
       DEF Own, GetMutexHolder, None
  <2>6. Cardinality(Own(t)') = Cardinality(Own(t)) - 1
    BY <2>5, OwnCounts, FS_RemoveElement
  <2>7. held[t] = Cardinality(Own(t)) /\ held[t] \in Int
    BY <1>1 DEF CountsRight
  <2>8. held'[t] = Cardinality(Own(t)') /\ (held'[t] = 0 => k'.priority[t] = k'.base[t])
    BY <1>1, <1>2, <1>3, <1>4, <1>6, <2>1, <2>6, <2>7 DEF Gives
  <2>9. ASSUME NEW x \in Tasks \ {t}
        PROVE  held'[x] = Cardinality(Own(x)') /\ (held'[x] = 0 => k'.priority[x] = k'.base[x])
    BY <1>1, <1>2, <1>3, <1>4, <2>1, <2>5, <2>9 DEF CountsRight
  <2>10. CountsRight'
    <3>1. \A x \in Tasks : /\ held'[x] = Cardinality(Own(x)')
                           /\ held'[x] = 0 => k'.priority[x] = k'.base[x]
      BY <2>8, <2>9
    <3>2. QED
      BY <3>1 DEF CountsRight
  <2>11. QED
    BY <2>3, <2>10
<1>7. CASE q \in Mutexes /\ c.do = "receive"
  <2>1. /\ queue' = [queue EXCEPT ![q].waiting = 0, ![q].holder = t, ![q].count = 1]
        /\ held' = [held EXCEPT ![t] = @ + 1] /\ ~Empty(q)
    BY <1>7 DEF Succeed, Reset, Send, Give, Receive, Peek
  <2>2. /\ queue'[q].waiting = 0 /\ queue'[q].holder = t
        /\ \A r \in Queues \ {q} : queue'[r] = queue[r]
    BY <1>1, <2>1 DEF QueueState
  <2>3. HoldersRight'
    BY <1>1, <1>7, <2>2, QueuesAssumption DEF HoldersRight
  <2>4. queue[q].holder = None
    BY <1>1, <1>7, <2>1 DEF HoldersRight, Empty
  <2>5. q \notin Own(t) /\ Own(t)' = Own(t) \cup {q} /\ \A x \in Tasks \ {t} : Own(x)' = Own(x)
    <3>1. /\ GetMutexHolder(q) = None /\ GetMutexHolder(q)' = t
          /\ \A r \in Queues \ {q} : GetMutexHolder(r)' = GetMutexHolder(r)
      BY <1>7, <2>2, <2>4 DEF GetMutexHolder
    <3>2. \A x \in Tasks : x # None
      BY KernelAssumption DEF None
    <3>3. q \notin Own(t) /\ Own(t)' = Own(t) \cup {q}
      BY <1>1, <3>1 DEF Own
    <3>4. \A x \in Tasks \ {t} : Own(x)' = Own(x)
      BY <1>1, <3>1, <3>2 DEF Own
    <3>5. QED
      BY <3>3, <3>4
  <2>6. Cardinality(Own(t)') = Cardinality(Own(t)) + 1
    BY <2>5, OwnCounts, FS_AddElement
  <2>7. held[t] = Cardinality(Own(t)) /\ held[t] \in Nat
    BY <1>1, OwnCounts DEF CountsRight
  <2>8. held'[t] = Cardinality(Own(t)') /\ held'[t] # 0
    BY <1>1, <2>1, <2>6, <2>7
  <2>9. ASSUME NEW x \in Tasks \ {t}
        PROVE  held'[x] = Cardinality(Own(x)') /\ (held'[x] = 0 => k'.priority[x] = k'.base[x])
    BY <1>1, <1>2, <1>3, <1>4, <2>1, <2>5, <2>9 DEF CountsRight
  <2>10. CountsRight'
    <3>1. \A x \in Tasks : /\ held'[x] = Cardinality(Own(x)')
                           /\ held'[x] = 0 => k'.priority[x] = k'.base[x]
      BY <2>8, <2>9
    <3>2. QED
      BY <3>1 DEF CountsRight
  <2>11. QED
    BY <2>3, <2>10
<1>8. QED
  BY <1>5, <1>6, <1>7

(* Only who has to wait for a mutex takes it.                              *)
LEMMA TakersStep ==
  ASSUME ListsInv, MutexInv, [Next]_vars
  PROVE  TakersRight'
<1> SUFFICES ASSUME NEW t \in Tasks, pc'[t] \notin {"app", "abort"}, call'[t].on \in Mutexes
             PROVE  call'[t].do = "receive"
  BY DEF TakersRight
<1>1. CASE SameCall(t)
  BY <1>1 DEF SameCall, MutexInv, TakersRight
<1>2. CASE NewCall(t)
  <2>1. PICK c \in use : Begin(t, c) /\ ~Possible(c) /\ call'[t] = Locals(c)
    BY <1>2 DEF NewCall
  <2>2. call'[t].on = c.on /\ call'[t].do = c.do
    BY <2>1 DEF Locals
  <2>3. c.do \in {"send", "receive"}
    <3>1. c \in UNION Uses
      BY DEF ListsInv, StorageInv, CallsRight
    <3>2. QED
      BY <2>1, <2>2, <3>1, QueuesAssumption DEF Begin
  <2>4. ASSUME c.do = "send" PROVE FALSE
    <3>1. queue[c.on].holder = t
      BY <2>1, <2>2, <2>4 DEF Begin
    <3>2. queue[c.on].waiting = 0 /\ Length[c.on] = 1
      BY <2>2, <3>1, QueuesAssumption, KernelAssumption DEF MutexInv, HoldersRight, None
    <3>3. QED
      BY <2>1, <2>4, <3>2 DEF Possible, Full
  <2>5. QED
    BY <2>2, <2>3, <2>4
<1>3. QED
  BY <1>1, <1>2, CallsStay

(* Every step keeps the mutexes right.                                     *)
LEMMA MutexStep ==
  ASSUME ListsInv, MutexInv, [Next]_vars
  PROVE  MutexInv'
<1>1. TakersRight'
  BY TakersStep
<1>2. /\ DOMAIN queue = Queues /\ \A q \in Queues : queue[q] \in QueueState(q)
      /\ Mutexes \subseteq Queues
  BY QueuesAssumption DEF ListsInv, StorageInv, QueuesTyped
<1>3. HoldersRight /\ CountsRight /\ Tasks \subseteq All
  BY DEF MutexInv, All
<1>4. ASSUME UNCHANGED <<queue, held>>, k'.base = k.base,
             \A t \in Tasks : held[t] = 0 => k'.priority[t] = k.priority[t]
      PROVE  HoldersRight' /\ CountsRight'
  BY <1>2, <1>3, <1>4, HoldersKept
<1>5. ASSUME NEW t \in Tasks, Continue(t) PROVE HoldersRight' /\ CountsRight'
  <2>1. CASE Retry(t)
    <3>1. At(t, "try") /\ t = k.current /\ k.schedulerSuspended = 0 /\ pc[t] = "try"
      BY <2>1, Here DEF Retry, Busy
    <3>2. CASE Possible(call[t])
      <4>1. Succeed(t, call[t]) /\ CallRight(call[t])
        BY <2>1, <3>1, <3>2 DEF Retry, ListsInv, StorageInv, CallsRight
      <4>2. call[t].on \in Mutexes => call[t].do = "receive"
        BY <3>1 DEF MutexInv, TakersRight
      <4>3. QED
        BY <1>3, <3>1, <4>1, <4>2, SucceedHolders DEF Gives
    <3>3. CASE ~Possible(call[t])
      BY <1>4, <2>1, <3>3 DEF Retry
    <3>4. QED
      BY <3>2, <3>3
  <2>2. CASE Block(t)
    <3>1. At(t, "block") /\ k.schedulerSuspended = 0
      BY <2>2, Here DEF Block, Busy
    <3>2. k'.priority = k.priority /\ Frees(k', k, {}, {}, 0, 0)
      BY <2>2, <3>1, SuspendFrees DEF ListsInv, KernelRight, Block
    <3>3. QED
      BY <1>4, <2>2, <3>2 DEF Block, Frees
  <2>3. CASE Lock(t)
    <3>1. k'.priority = k.priority /\ k'.base = k.base /\ held' = held
      <4>1. k \in KernelState
        BY DEF ListsInv, KernelRight, Proper, Sound
      <4>2. QED
        BY <2>3, <4>1 DEF Lock, KernelState
    <3>2. \A q \in Queues : queue'[q].holder = queue[q].holder
                            /\ queue'[q].waiting = queue[q].waiting
      BY <1>2, <2>3 DEF Lock, QueueState
    <3>3. QED
      BY <1>2, <1>3, <3>1, <3>2, HoldersKept
  <2>4. CASE Check(t)
    <3> DEFINE c == call[t]
               h == queue[c.on].holder
    <3>1. \/ k'.priority = k.priority
          \/ /\ c.on \in Mutexes /\ h \in Tasks
             /\ \A x \in All \ {h} : k'.priority[x] = k.priority[x]
      BY <2>4, CheckEffect
    <3>2. k'.base = k.base
      <4>1. k' = k \/ \E L, n, f : Blocks(k', k, t, L, n, f)
        BY <2>4, CheckEffect
      <4>2. QED
        BY <4>1 DEF Blocks
    <3>3. h \in Tasks /\ c.on \in Mutexes => held[h] # 0
      BY <1>2, HolderHolds
    <3>4. \A x \in Tasks : held[x] = 0 => k'.priority[x] = k.priority[x]
      BY <1>3, <3>1, <3>3
    <3>5. QED
      BY <1>4, <2>4, <3>2, <3>4 DEF Check
  <2>5. CASE UnlockTx(t) \/ UnlockRx(t)
    <3>1. k'.priority = k.priority /\ \E X : Frees(k', k, {}, X, 0, 0)
      BY <2>5, UnlockEffect
    <3>2. \A q \in Queues : queue'[q].holder = queue[q].holder
                            /\ queue'[q].waiting = queue[q].waiting
      <4>1. CASE UnlockTx(t)
        BY <1>2, <4>1 DEF UnlockTx, QueueState
      <4>2. CASE UnlockRx(t)
        BY <1>2, <4>2 DEF UnlockRx, QueueState
      <4>3. QED
        BY <2>5, <4>1, <4>2
    <3>3. held' = held
      BY <2>5 DEF UnlockTx, UnlockRx
    <3>4. QED
      BY <1>2, <1>3, <3>1, <3>2, <3>3, HoldersKept DEF Frees
  <2>6. CASE Resume(t)
    <3>1. k'.priority = k.priority /\ \E X : Frees(k', k, X, X, k.pendedTicks, 0)
      BY <2>6, ResumeEffect
    <3>2. QED
      BY <1>4, <2>6, <3>1 DEF Resume, Frees
  <2>7. CASE CallYield(t)
    <3>1. k'.priority = k.priority /\ Frees(k', k, {}, {}, 0, 0)
      BY <2>7, YieldFrees DEF ListsInv, KernelRight, CallYield
    <3>2. QED
      BY <1>4, <2>7, <3>1 DEF CallYield, Frees
  <2>8. CASE Late(t)
    BY <1>4, <2>8 DEF Late
  <2>9. CASE LateDisinherit(t)
    <3> DEFINE q == call[t].on
               h == queue[q].holder
    <3>1. q \in Queues
      BY <2>9 DEF LateDisinherit, At, ListsInv, StorageInv, CallsRight, CallRight
    <3>2. /\ Frees(k', k, {}, {}, 0, 0)
          /\ \/ k' = k
             \/ h \in Tasks /\ \A x \in All \ {h} : k'.priority[x] = k.priority[x]
      BY <2>9, LateDisinheritEffect
    <3>3. h \in Tasks => held[h] # 0
      BY <3>1, HolderHolds
    <3>4. \A x \in Tasks : held[x] = 0 => k'.priority[x] = k.priority[x]
      BY <1>3, <3>2, <3>3
    <3>5. k'.base = k.base
      BY <3>2 DEF Frees
    <3>6. QED
      BY <1>4, <2>9, <3>4, <3>5 DEF LateDisinherit
  <2>10. CASE AbortEnd(t)
    <3>1. k'.priority = k.priority /\ \E X : Frees(k', k, X, X, k.pendedTicks, 0)
      BY <2>10, AbortEndEffect
    <3>2. QED
      BY <1>4, <2>10, <3>1 DEF AbortEnd, Frees
  <2>11. QED
    BY <1>5, <2>1, <2>2, <2>3, <2>4, <2>5, <2>6, <2>7, <2>8, <2>9, <2>10 DEF Continue
<1>6. ASSUME NEW t \in Tasks, Call(t) PROVE HoldersRight' /\ CountsRight'
  <2>1. ASSUME NEW c \in use, Begin(t, c) PROVE HoldersRight' /\ CountsRight'
    <3>1. At(t, "app") /\ t = k.current /\ k.schedulerSuspended = 0
      BY <2>1, Here DEF Begin, Busy
    <3>2. CASE Possible(c)
      <4>1. c \in UNION Uses
        BY DEF ListsInv, StorageInv, CallsRight
      <4>2. Succeed(t, c) /\ c.do \notin {"delay", "again"}
        BY <2>1, <3>2 DEF Begin
      <4>3. CallRight(c) /\ (c.on \in Mutexes => c.do \in {"send", "receive"})
        BY <4>1, <4>2, QueuesAssumption DEF CallRight
      <4>4. Gives(c) => queue[c.on].holder = t
        BY <2>1 DEF Begin, Gives
      <4>5. QED
        BY <1>3, <3>1, <4>2, <4>3, <4>4, SucceedHolders
    <3>3. CASE ~Possible(c)
      BY <1>4, <2>1, <3>3 DEF Begin
    <3>4. QED
      BY <3>2, <3>3
  <2>2. ASSUME NEW c \in use, Delay(t, c) PROVE HoldersRight' /\ CountsRight'
    <3>1. k'.priority = k.priority /\ k'.base = k.base
      BY <2>2, DelayEffect
    <3>2. QED
      BY <1>4, <2>2, <3>1 DEF Delay
  <2>3. ASSUME NEW c \in use, Again(t, c) PROVE HoldersRight' /\ CountsRight'
    <3>1. PICK n : queue' = [queue EXCEPT ![c.on].count = n]
      BY <2>3 DEF Again
    <3>2. \A q \in Queues : queue'[q].holder = queue[q].holder
                            /\ queue'[q].waiting = queue[q].waiting
      BY <1>2, <3>1 DEF QueueState
    <3>3. k' = k /\ held' = held
      BY <2>3 DEF Again
    <3>4. QED
      BY <1>2, <1>3, <3>2, <3>3, HoldersKept
  <2>4. ASSUME NEW u \in Tasks, Abort(t, u) PROVE HoldersRight' /\ CountsRight'
    <3>1. k'.priority = k.priority /\ k'.base = k.base
      BY <2>4, AbortEffect
    <3>2. QED
      BY <1>4, <2>4, <3>1 DEF Abort
  <2>5. QED
    BY <1>6, <2>1, <2>2, <2>3, <2>4 DEF Call
<1>7. ASSUME NEW h \in Handlers, SendFromISR(h) \/ ReceiveFromISR(h)
      PROVE  HoldersRight' /\ CountsRight'
  <2>1. k'.priority = k.priority /\ \E R, X : Frees(k', k, R, X, 0, 0)
    BY <1>7, HandlerEffect
  <2>2. h.on \in Queues \ Mutexes
    BY QueuesAssumption
  <2>3. /\ \A q \in Queues : queue'[q].holder = queue[q].holder
        /\ \A q \in Mutexes : queue'[q].waiting = queue[q].waiting
    <3>1. CASE SendFromISR(h)
      BY <1>2, <2>2, <3>1 DEF SendFromISR, CopyTo, QueueState
    <3>2. CASE ReceiveFromISR(h)
      BY <1>2, <2>2, <3>2 DEF ReceiveFromISR, CopyFrom, QueueState
    <3>3. QED
      BY <1>7, <3>1, <3>2
  <2>4. held' = held
    BY <1>7 DEF SendFromISR, ReceiveFromISR
  <2>5. QED
    BY <1>3, <2>1, <2>3, <2>4, HoldersKept DEF Frees
<1>8. CASE Tick
  <2> DEFINE u == SysTick(k)
  <2>1. \E R, n : /\ Frees(u, k, R, R, n, 1)
                  /\ k.schedulerSuspended # 0 => n = 0 /\ R = {}
                  /\ u.schedulerSuspended = k.schedulerSuspended
                  /\ u.priority = k.priority /\ u.aborted = k.aborted
    BY TickFrees DEF ListsInv, KernelRight
  <2>2. k' = u
    BY <1>8 DEF Tick
  <2> HIDE DEF u
  <2>3. QED
    BY <1>1, <1>4, <1>8, <2>1, <2>2 DEF Tick, Frees, MutexInv
<1>9. CASE Switch
  <2> DEFINE u == SwitchContext(k)
  <2>1. u.priority = k.priority /\ u.base = k.base
    <3>1. CASE k.schedulerSuspended # 0
      <4>1. Frees(u, k, {}, {}, 0, 0) /\ u.priority = k.priority
        BY <3>1, PutOffFrees DEF ListsInv, KernelRight
      <4> HIDE DEF u
      <4>2. QED
        BY <4>1 DEF Frees
    <3>2. CASE k.schedulerSuspended = 0
      BY <3>2, SwitchProper DEF ListsInv, KernelRight
    <3>3. QED
      BY <3>1, <3>2
  <2>2. k' = u
    BY <1>9 DEF Switch
  <2> HIDE DEF u
  <2>3. QED
    BY <1>1, <1>4, <1>9, <2>1, <2>2 DEF Switch, MutexInv
<1>10. CASE UNCHANGED vars
  BY <1>1, <1>4, <1>10 DEF vars, MutexInv
<1>11. QED
  BY <1>1, <1>5, <1>6, <1>7, <1>8, <1>9, <1>10 DEF Next, Handler, MutexInv

(* Nobody holds a mutex at first.                                          *)
LEMMA MutexInit ==
  ASSUME Init
  PROVE  MutexInv
<1>1. PICK own \in Owns : k = Started(First, [t \in All |-> IF t = Idle THEN 0 ELSE own[t]])
  BY DEF Init
<1> DEFINE p == [t \in All |-> IF t = Idle THEN 0 ELSE own[t]]
<1>2. k.priority = p /\ k.base = p
  <2>1. p \in [All -> Priority]
    <3>1. own \in [Tasks -> Priority] /\ 0 \in Priority
      BY QueuesAssumption, KernelAssumption DEF Priority
    <3>2. QED
      BY <3>1 DEF All
  <2>2. First \in Seq(Tasks) /\ IsInjective(First)
    BY QueuesAssumption
  <2> HIDE DEF p
  <2> DEFINE u == Started(First, p)
  <2>3. u.priority = p /\ u.base = p
    BY <2>1, <2>2, StartedRight
  <2>4. k = u
    BY <1>1 DEF p
  <2>5. QED
    BY <2>3, <2>4
<1>3. \A q \in Queues : /\ queue[q].holder = None
                        /\ queue[q].waiting = IF q \in Mutexes THEN 1 ELSE 0
  BY DEF Init, Fresh
<1>4. HoldersRight
  BY <1>3 DEF HoldersRight
<1>5. TakersRight
  BY DEF Init, TakersRight, All
<1>6. ASSUME NEW t \in Tasks PROVE held[t] = 0 /\ Cardinality(Own(t)) = 0
  <2>1. Own(t) = {}
    BY <1>3, KernelAssumption DEF Own, GetMutexHolder, None
  <2>2. QED
    BY <2>1, FS_EmptySet DEF Init
<1>7. CountsRight
  BY <1>2, <1>6 DEF CountsRight
<1>8. QED
  BY <1>4, <1>5, <1>7 DEF MutexInv

(* How many mutexes a task is told to hold.                                *)
LEMMA HeldFollows ==
  ASSUME ListsInv, MutexInv
  PROVE  HeldRight /\ held \in [Tasks -> 0 .. Cardinality(Mutexes)]
<1>1. \A t \in Tasks : k.priority[t] >= k.base[t] /\ t # None
  BY KernelAssumption DEF ListsInv, KernelRight, Proper, All, None
<1>2. HeldRight
  BY <1>1 DEF HeldRight, MutexInv, CountsRight, Own
<1>3. \A t \in Tasks : held[t] \in 0 .. Cardinality(Mutexes)
  <2>1. Cardinality(Mutexes) \in Nat
    BY QueuesAssumption, FS_Subset, FS_CardinalityType
  <2>2. QED
    BY <1>1, <2>1, OwnCounts DEF MutexInv, CountsRight
<1>4. QED
  BY <1>2, <1>3 DEF ListsInv

(* A task's mutexes are counted right, and its priority is its own again   *)
(* when it holds none.                                                     *)
THEOREM QueuesHeld == Spec => []HeldRight
<1>1. ListsInv /\ MutexInv /\ [Next]_vars => ListsInv' /\ MutexInv'
  BY ListsStep, MutexStep
<1>2. QED
  BY <1>1, ListsInit, MutexInit, HeldFollows, PTL DEF Spec

-----------------------------------------------------------------------------
(* The highest priority runs, where there are no mutexes: with them it need*)
(* not, since the end of an inherited priority may go unnoticed.           *)

NoneAbove(kk) == \A t \in Rd(kk) : kk.priority[t] <= kk.priority[kk.current]

(* Where the current task is not about to yield, and no switch is to come, *)
(* no ready task is above it.                                              *)
TopRuns ==
  ~Hot(k) /\ (k.schedulerSuspended = 0 => pc[k.current] # "yield") => NoneAbove(k)

(* Who becomes ready above the current task makes a switch come.           *)
LEMMA FreesTop ==
  ASSUME TopRuns, NEW R, NEW X, NEW n, NEW e, Frees(k', k, R, X, n, e),
         k'.priority = k.priority,
         \/ k.schedulerSuspended # 0 \/ pc[k.current] # "yield" \/ k'.swi
         \/ k'.schedulerSuspended = 0 /\ pc'[k'.current] = "yield"
  PROVE  TopRuns'
<1> SUFFICES ASSUME ~Hot(k'), k'.schedulerSuspended = 0 => pc'[k'.current] # "yield"
             PROVE  NoneAbove(k')
  BY DEF TopRuns, Hot, NoneAbove, Rd, InReady
<1>1. ~Hot(k) /\ ~k'.swi /\ \A t \in R : k'.priority[t] <= k'.priority[k'.current]
  BY DEF Frees, Hot
<1>2. k.schedulerSuspended = 0 => pc[k.current] # "yield"
  BY <1>1
<1>3. NoneAbove(k)
  BY <1>1, <1>2 DEF TopRuns
<1>4. QED
  BY <1>1, <1>3 DEF NoneAbove, Frees

(* Every step keeps TopRuns.                                               *)
LEMMA TopStep ==
  ASSUME ListsInv, MutexInv, TopRuns, Mutexes = {}, [Next]_vars
  PROVE  TopRuns'
<1>1. Proper(k, Hand) /\ k \in KernelState
  BY DEF ListsInv, KernelRight, Proper, Sound
<1>2. ASSUME UNCHANGED <<k, pc>> PROVE TopRuns'
  BY <1>2 DEF TopRuns, Hot, NoneAbove, Rd, InReady
<1>3. ASSUME NEW t \in Tasks, t = k.current, pc[t] # "yield", NEW c, CallRight(c),
             Succeed(t, c),
             k.schedulerSuspended = 0
      PROVE  TopRuns'
  <2>1. PICK X : FreesFirst(k', k, FreeList(c), X)
    BY <1>3, SucceedEffect
  <2>2. \A x \in All : k'.priority[x] = k.priority[x]
    BY <1>3, SucceedEffect DEF Gives
  <2>3. k' \in KernelState
    BY <2>1 DEF FreesFirst, Frees, Sound
  <2>4. k'.priority = k.priority
    BY <1>1, <2>2, <2>3, KernelTypes
  <2>5. QED
    BY <1>3, <2>1, <2>4, FreesTop DEF FreesFirst
<1>4. ASSUME NEW t \in Tasks, Continue(t) PROVE TopRuns'
  <2>1. CASE Retry(t)
    <3>1. At(t, "try") /\ t = k.current /\ k.schedulerSuspended = 0 /\ pc[t] = "try" /\ ~k.swi
      BY <2>1, Here DEF Retry, Busy
    <3>2. CASE Possible(call[t])
      BY <1>3, <2>1, <3>1, <3>2 DEF Retry, ListsInv, StorageInv, CallsRight
    <3>3. CASE ~Possible(call[t])
      <4>1. k' = k /\ Frees(k, k, {}, {}, 0, 0)
        BY <1>1, <2>1, <3>3, SameFrees DEF Retry
      <4>2. QED
        BY <3>1, <4>1, FreesTop
    <3>4. QED
      BY <3>2, <3>3
  <2>2. CASE Block(t)
    <3>1. At(t, "block") /\ t = k.current /\ k.schedulerSuspended = 0 /\ pc[t] = "block"
      BY <2>2, Here DEF Block, Busy
    <3>2. k'.priority = k.priority /\ Frees(k', k, {}, {}, 0, 0)
      BY <1>1, <2>2, <3>1, SuspendFrees DEF Block
    <3>3. QED
      BY <3>1, <3>2, FreesTop
  <2>3. CASE Lock(t)
    <3>1. At(t, "lock") /\ t = k.current /\ pc[t] = "lock" /\ t \in All
      BY <2>3, Here DEF Lock, Busy
    <3>2. k' = [k EXCEPT !.aborted[t] = FALSE]
      BY <2>3 DEF Lock
    <3>3. k'.priority = k.priority /\ Frees(k', k, {}, {}, 0, 0)
      BY <1>1, <3>1, <3>2, NotedFrees
    <3>4. QED
      BY <3>1, <3>3, FreesTop
  <2>4. CASE Check(t)
    <3> DEFINE c == call[t]
               waits == IF c.do = "send" THEN Full(c.on) ELSE Empty(c.on)
    <3>1. At(t, "check") /\ t = k.current /\ k.schedulerSuspended = 1
      BY <2>4, Here DEF Check, Busy
    <3>2. k'.priority = k.priority
      BY <2>4, CheckEffect
    <3>3. \/ k' = k
          \/ \E L, n, f : Blocks(k', k, t, L, n, f)
      BY <2>4, CheckEffect
    <3>4. Rd(k') \subseteq Rd(k) /\ k'.current = k.current /\ (Hot(k') <=> Hot(k))
      BY <3>1, <3>3 DEF Blocks, Hot
    <3>5. NoneAbove(k) => NoneAbove(k')
      BY <3>2, <3>4 DEF NoneAbove
    <3>6. ~Hot(k) => NoneAbove(k)
      BY <3>1 DEF TopRuns
    <3>7. QED
      BY <3>4, <3>5, <3>6 DEF TopRuns, Hot, NoneAbove, Rd, InReady
  <2>5. CASE UnlockTx(t) \/ UnlockRx(t)
    <3>1. k'.priority = k.priority /\ \E X : Frees(k', k, {}, X, 0, 0)
      BY <2>5, UnlockEffect
    <3>2. t = k.current /\ pc[t] # "yield"
      BY <2>5 DEF UnlockTx, UnlockRx, At
    <3>3. QED
      BY <3>1, <3>2, FreesTop
  <2>6. CASE Resume(t)
    <3>1. k'.priority = k.priority /\ \E X : Frees(k', k, X, X, k.pendedTicks, 0)
      BY <2>6, ResumeEffect
    <3>2. t = k.current /\ pc[t] # "yield"
      BY <2>6 DEF Resume, At
    <3>3. QED
      BY <3>1, <3>2, FreesTop
  <2>7. CASE CallYield(t)
    <3>1. k'.priority = k.priority /\ Frees(k', k, {}, {}, 0, 0) /\ k'.swi = TRUE
      BY <1>1, <2>7, YieldFrees DEF CallYield
    <3>2. QED
      BY <3>1, FreesTop
  <2>8. CASE Late(t)
    <3>1. k' = k /\ Frees(k, k, {}, {}, 0, 0) /\ t = k.current /\ pc[t] # "yield"
      BY <1>1, <2>8, SameFrees DEF Late, At
    <3>2. QED
      BY <3>1, FreesTop
  <2>9. CASE LateDisinherit(t)
    <3> DEFINE h == queue[call[t].on].holder
    <3>1. t = k.current /\ pc[t] = "disinherit"
      BY <2>9 DEF LateDisinherit, At
    <3>2. h = None
      BY <3>1 DEF ListsInv, StorageInv, CallsRight, CallRight, MutexInv, HoldersRight
    <3>3. k' = k /\ Frees(k, k, {}, {}, 0, 0)
      BY <1>1, <2>9, <3>2, SameFrees DEF LateDisinherit
    <3>4. QED
      BY <3>1, <3>3, FreesTop
  <2>10. CASE AbortEnd(t)
    <3>1. k'.priority = k.priority /\ \E X : Frees(k', k, X, X, k.pendedTicks, 0)
      BY <2>10, AbortEndEffect
    <3>2. t = k.current /\ pc[t] # "yield"
      BY <2>10 DEF AbortEnd, At
    <3>3. QED
      BY <3>1, <3>2, FreesTop
  <2>11. QED
    BY <1>4, <2>1, <2>2, <2>3, <2>4, <2>5, <2>6, <2>7, <2>8, <2>9, <2>10 DEF Continue
<1>5. ASSUME NEW t \in Tasks, Call(t) PROVE TopRuns'
  <2>1. ASSUME NEW c \in use, Begin(t, c) PROVE TopRuns'
    <3>1. At(t, "app") /\ t = k.current /\ k.schedulerSuspended = 0 /\ pc[t] = "app"
      BY <2>1, Here DEF Begin, Busy
    <3>2. CASE Possible(c)
      <4>1. c \in UNION Uses /\ Succeed(t, c) /\ c.do \notin {"delay", "again"}
        BY <2>1, <3>2 DEF ListsInv, StorageInv, CallsRight, Begin
      <4>2. CallRight(c)
        BY <4>1, QueuesAssumption DEF CallRight
      <4>3. QED
        BY <1>3, <3>1, <4>1, <4>2
    <3>3. CASE ~Possible(c)
      <4>1. k' = k /\ Frees(k, k, {}, {}, 0, 0)
        BY <1>1, <2>1, <3>3, SameFrees DEF Begin
      <4>2. QED
        BY <3>1, <4>1, FreesTop
    <3>4. QED
      BY <3>2, <3>3
  <2>2. ASSUME NEW c \in use, Delay(t, c) PROVE TopRuns'
    <3>1. k'.swi = TRUE
      BY <2>2, DelayEffect
    <3>2. QED
      BY <3>1 DEF TopRuns, Hot
  <2>3. ASSUME NEW c \in use, Again(t, c) PROVE TopRuns'
    BY <1>2, <2>3 DEF Again
  <2>4. ASSUME NEW u \in Tasks, Abort(t, u) PROVE TopRuns'
    <3>1. /\ Rd(k') = Rd(k) /\ k.schedulerSuspended = 0
          /\ k'.current = k.current /\ k'.swi = k.swi /\ k'.priority = k.priority
      BY <2>4, AbortEffect
    <3>2. k.current = t /\ pc[t] = "app"
      BY <2>4 DEF Abort, At
    <3>3. ~Hot(k') => NoneAbove(k)
      BY <3>1, <3>2 DEF Hot, TopRuns
    <3>4. NoneAbove(k) => NoneAbove(k')
      BY <3>1 DEF NoneAbove
    <3>5. QED
      BY <3>3, <3>4 DEF TopRuns, Hot, NoneAbove, Rd, InReady
  <2>5. QED
    BY <1>5, <2>1, <2>2, <2>3, <2>4 DEF Call
<1>6. ASSUME NEW h \in Handlers, SendFromISR(h) \/ ReceiveFromISR(h)
      PROVE  TopRuns'
  <2>1. /\ k'.priority = k.priority /\ k'.schedulerSuspended = k.schedulerSuspended
        /\ \E R, X : Frees(k', k, R, X, 0, 0)
    BY <1>6, HandlerEffect
  <2>2. pc' = pc
    BY <1>6 DEF SendFromISR, ReceiveFromISR
  <2>3. k'.current = k.current
    BY <2>1 DEF Frees
  <2>4. QED
    BY <2>1, <2>2, <2>3, FreesTop
<1>7. CASE Tick
  <2> DEFINE u == SysTick(k)
  <2>1. \E R, n : /\ Frees(u, k, R, R, n, 1)
                  /\ k.schedulerSuspended # 0 => n = 0 /\ R = {}
                  /\ u.schedulerSuspended = k.schedulerSuspended
                  /\ u.priority = k.priority /\ u.aborted = k.aborted
    BY <1>1, TickFrees
  <2>2. k' = u /\ pc' = pc
    BY <1>7 DEF Tick
  <2> HIDE DEF u
  <2>3. k'.current = k.current
    BY <2>1, <2>2 DEF Frees
  <2>4. QED
    BY <2>1, <2>2, <2>3, FreesTop
<1>8. CASE Switch
  <2> DEFINE u == SwitchContext(k)
  <2>1. k' = u /\ pc' = pc
    BY <1>8 DEF Switch
  <2>2. CASE k.schedulerSuspended # 0
    <3>1. Frees(u, k, {}, {}, 0, 0) /\ u.priority = k.priority
      BY <1>1, <2>2, PutOffFrees
    <3> HIDE DEF u
    <3>2. QED
      BY <2>1, <2>2, <3>1, FreesTop
  <2>3. CASE k.schedulerSuspended = 0
    <3>1. \A t \in Rd(u) : u.priority[t] <= u.priority[u.current]
      BY <1>1, <2>3, SwitchProper
    <3> HIDE DEF u
    <3>2. NoneAbove(u)
      BY <3>1 DEF NoneAbove
    <3>3. QED
      BY <2>1, <3>2 DEF TopRuns, Hot, NoneAbove, Rd, InReady
  <2>4. QED
    BY <2>2, <2>3
<1>9. CASE UNCHANGED vars
  BY <1>2, <1>9 DEF vars
<1>10. QED
  BY <1>4, <1>5, <1>6, <1>7, <1>8, <1>9 DEF Next, Handler

(* The scheduler starts with one of the highest priority.                  *)
LEMMA TopInit ==
  ASSUME Init
  PROVE  TopRuns
<1>1. PICK own \in Owns : k = Started(First, [t \in All |-> IF t = Idle THEN 0 ELSE own[t]])
  BY DEF Init
<1> DEFINE p == [t \in All |-> IF t = Idle THEN 0 ELSE own[t]]
<1>2. p \in [All -> Priority]
  <2>1. own \in [Tasks -> Priority] /\ 0 \in Priority
    BY QueuesAssumption, KernelAssumption DEF Priority
  <2>2. QED
    BY <2>1 DEF All
<1>3. First \in Seq(Tasks) /\ IsInjective(First)
  BY QueuesAssumption
<1> HIDE DEF p
<1> DEFINE u == Started(First, p)
<1>4. \A t \in Rd(u) : u.priority[t] <= u.priority[u.current]
  BY <1>2, <1>3, StartedRight
<1> HIDE DEF u
<1>5. k = u
  BY <1>1 DEF u, p
<1>6. QED
  BY <1>4, <1>5 DEF TopRuns, NoneAbove

(* Without mutexes no ready task has a higher priority than the one that   *)
(* runs, unless a switch is on its way.                                    *)
THEOREM QueuesHighestRunning == Mutexes = {} => (Spec => []HighestRunning)
<1>1. SUFFICES ASSUME Mutexes = {} PROVE Spec => []HighestRunning
  OBVIOUS
<1>2. Init => ListsInv /\ MutexInv /\ TopRuns
  BY ListsInit, MutexInit, TopInit
<1>3. ListsInv /\ MutexInv /\ TopRuns /\ [Next]_vars => ListsInv' /\ MutexInv' /\ TopRuns'
  BY <1>1, ListsStep, MutexStep, TopStep
<1>4. ListsInv /\ TopRuns => HighestRunning
  BY DEF ListsInv, AtRight, TopRuns, HighestRunning, HighestRuns, NoneAbove, Hot, Rd
<1>5. QED
  BY <1>2, <1>3, <1>4, PTL DEF Spec

-----------------------------------------------------------------------------
(* The time that a call has waited.                                        *)

(* How many of the ticks since c's time-out was last counted from the clock*)
(* has gone on by, ...                                                     *)
Ran(kk, c, w) == w - (c.asked - c.left) - kk.pendedTicks

(* ... the clock being n ticks later than then.                            *)
Clock(kk, since, n) ==
  \/ kk.tick = since.tick + n /\ kk.overflows = since.overflows
  \/ kk.tick + Ticks = since.tick + n

(* The clock has gone on for t's call since then by what has passed, and   *)
(* wakes t when what is left is over.                                      *)
OnTime(kk, t, c, w) ==
  /\ c.asked # MaxDelay => Ran(kk, c, w) \in Nat /\ Clock(kk, c.since, Ran(kk, c, w))
  /\ t \in Waiting(kk) => c.asked # MaxDelay /\ Dist(kk, t) + Ran(kk, c, w) = c.left

OnTimeInv ==
  \A t \in Tasks : pc[t] \notin {"app", "abort"} =>
    /\ OnTime(k, t, call[t], waited[t])
    /\ pc[t] = "check" /\ call[t].asked # MaxDelay => Ran(k, call[t], waited[t]) = 0

SameTime(c, d) == c.asked = d.asked /\ c.left = d.left /\ c.since = d.since

(* The numbers in a call.                                                  *)
LEMMA CallNumbers ==
  ASSUME NEW c, CallTyped(c)
  PROVE  /\ c.asked \in 1 .. MaxDelay /\ c.left \in 1 .. MaxDelay /\ c.left <= c.asked
         /\ c.since.tick \in 0 .. Ticks - 1 /\ Ticks \in Nat \ {0} /\ MaxDelay = Ticks - 1
  BY KernelAssumption DEF CallTyped, MaxDelay

(* Whoever becomes ready, however many ticks come and are made up for.     *)
LEMMA FreesOnTime ==
  ASSUME MaxWaited < Ticks, NEW kk, NEW H, Proper(kk, H), NEW u, NEW R, NEW X, NEW n, NEW e,
         Frees(u, kk, R, X, n, e), NEW t, NEW c, CallTyped(c), NEW w \in Nat,
         OnTime(kk, t, c, w),
         NEW d, SameTime(d, c), NEW v \in 0 .. MaxWaited, c.asked # MaxDelay => v = w + e
  PROVE  OnTime(u, t, d, v) /\ (c.asked # MaxDelay => Ran(u, d, v) = Ran(kk, c, w) + n)
<1>1. /\ c.asked \in Int /\ c.left \in Int /\ c.left <= c.asked
      /\ c.since.tick \in 0 .. Ticks - 1 /\ Ticks \in Nat \ {0}
  BY CallNumbers
<1>2. kk \in KernelState /\ u \in KernelState /\ n \in Nat /\ e \in Nat /\ MaxWaited \in Nat
  BY QueuesAssumption DEF Proper, Sound, Frees
<1>3. /\ kk.pendedTicks \in Nat /\ kk.tick \in 0 .. Ticks - 1
      /\ u.pendedTicks \in Nat /\ u.tick \in 0 .. Ticks - 1
      /\ u.pendedTicks = kk.pendedTicks + e - n
  BY <1>2, KernelTypes DEF Frees
<1>4. c.asked # MaxDelay => Ran(u, d, v) = Ran(kk, c, w) + n
  BY <1>1, <1>2, <1>3 DEF Ran, SameTime
<1>5. ASSUME c.asked # MaxDelay
      PROVE  Ran(u, d, v) \in Nat /\ Clock(u, d.since, Ran(u, d, v))
  <2> DEFINE r == Ran(kk, c, w)
  <2>1. r \in Nat /\ Clock(kk, c.since, r)
    BY <1>5 DEF OnTime
  <2>2. r + n <= v
    BY <1>1, <1>2, <1>3, <1>4, <1>5 DEF Ran, SameTime
  <2> HIDE DEF r
  <2>3. r + n < Ticks /\ n < Ticks
    BY <1>1, <1>2, <2>1, <2>2
  <2>4. Later(u, kk, n)
    BY <2>3 DEF Frees
  <2>5. Clock(u, c.since, r + n)
    <3>1. CASE kk.tick = c.since.tick + r /\ kk.overflows = c.since.overflows
      BY <1>1, <1>2, <1>3, <2>1, <2>4, <3>1 DEF Clock, Later
    <3>2. CASE kk.tick + Ticks = c.since.tick + r
      BY <1>1, <1>2, <1>3, <2>1, <2>3, <2>4, <3>2 DEF Clock, Later
    <3>3. QED
      BY <2>1, <3>1, <3>2 DEF Clock
  <2>6. QED
    BY <1>2, <1>4, <1>5, <2>1, <2>5 DEF r, SameTime
<1>6. ASSUME t \in Waiting(u)
      PROVE  c.asked # MaxDelay /\ Dist(u, t) + Ran(u, d, v) = c.left
  <2>1. t \in Waiting(kk) /\ Dist(u, t) = Dist(kk, t) - n
    BY <1>6 DEF Frees
  <2>2. c.asked # MaxDelay /\ Dist(kk, t) + Ran(kk, c, w) = c.left
    BY <2>1 DEF OnTime
  <2>3. Dist(kk, t) \in Int
    BY <2>1, DistRight, KernelAssumption DEF Proper
  <2>4. Ran(kk, c, w) \in Int
    BY <2>2 DEF OnTime
  <2>5. QED
    BY <1>2, <1>4, <2>1, <2>2, <2>3, <2>4
<1>7. QED
  BY <1>4, <1>5, <1>6 DEF OnTime, SameTime

(* The clock stands still, and t sleeps no longer than before.             *)
LEMMA StillOnTime ==
  ASSUME NEW kk, NEW u, u.tick = kk.tick, u.overflows = kk.overflows,
         u.pendedTicks = kk.pendedTicks,
         NEW t, t \in Waiting(u) => t \in Waiting(kk) /\ Dist(u, t) = Dist(kk, t),
         NEW c, NEW w, OnTime(kk, t, c, w)
  PROVE  OnTime(u, t, c, w) /\ Ran(u, c, w) = Ran(kk, c, w)
  BY DEF OnTime, Clock, Ran

(* A step that leaves every call's time as it is.                          *)
LEMMA FreesTimes ==
  ASSUME MaxWaited < Ticks, ListsInv, OnTimeInv, waited' \in [Tasks -> 0 .. MaxWaited],
         NEW R, NEW X, NEW n, NEW e, Frees(k', k, R, X, n, e),
         n = 0 \/ \A t \in Tasks : pc[t] # "check",
         \A t \in Tasks : pc'[t] \notin {"app", "abort"} =>
           /\ pc[t] \notin {"app", "abort"} /\ SameTime(call'[t], call[t])
           /\ pc'[t] = "check" => pc[t] = "check"
           /\ call[t].asked # MaxDelay => waited'[t] = waited[t] + e
  PROVE  OnTimeInv'
<1> SUFFICES ASSUME NEW t \in Tasks, pc'[t] \notin {"app", "abort"}
             PROVE  /\ OnTime(k', t, call'[t], waited'[t])
                    /\ pc'[t] = "check" /\ call'[t].asked # MaxDelay =>
                         Ran(k', call'[t], waited'[t]) = 0
  BY DEF OnTimeInv, OnTime, Ran, Clock, Waiting, Dist, Dl, Ov
<1>1. /\ pc[t] \notin {"app", "abort"} /\ SameTime(call'[t], call[t])
      /\ pc'[t] = "check" => pc[t] = "check"
      /\ call[t].asked # MaxDelay => waited'[t] = waited[t] + e
  OBVIOUS
<1>2. CallTyped(call[t]) /\ waited[t] \in Nat /\ Proper(k, Hand)
      /\ waited'[t] \in 0 .. MaxWaited
  BY <1>1, QueuesAssumption DEF ListsInv, TimesTyped, KernelRight
<1>3. OnTime(k, t, call[t], waited[t])
  BY <1>1 DEF OnTimeInv
<1>4. /\ OnTime(k', t, call'[t], waited'[t])
      /\ call[t].asked # MaxDelay =>
           Ran(k', call'[t], waited'[t]) = Ran(k, call[t], waited[t]) + n
  <2> DEFINE c == call[t]
             w == waited[t]
             d == call'[t]
             v == waited'[t]
  <2>1. /\ CallTyped(c) /\ w \in Nat /\ v \in 0 .. MaxWaited /\ OnTime(k, t, c, w)
        /\ SameTime(d, c) /\ (c.asked # MaxDelay => v = w + e)
    BY <1>1, <1>2, <1>3
  <2> HIDE DEF c, w, d, v
  <2>2. OnTime(k', t, d, v) /\ (c.asked # MaxDelay => Ran(k', d, v) = Ran(k, c, w) + n)
    BY <1>2, <2>1, FreesOnTime
  <2>3. QED
    BY <2>2 DEF c, w, d, v
<1>5. ASSUME pc'[t] = "check", call'[t].asked # MaxDelay
      PROVE  Ran(k', call'[t], waited'[t]) = 0
  <2>1. pc[t] = "check" /\ n = 0 /\ call[t].asked # MaxDelay
    BY <1>1, <1>5 DEF SameTime
  <2>2. Ran(k, call[t], waited[t]) = 0
    BY <2>1 DEF OnTimeInv
  <2>3. QED
    BY <1>4, <2>1, <2>2
<1>6. QED
  BY <1>4, <1>5

(* t, the current task, goes somewhere other than prvIsQueueFull, and all  *)
(* that happens to the others is that the clock goes on.                   *)
LEMMA StepTimes ==
  ASSUME MaxWaited < Ticks, ListsInv, ListsInv', OnTimeInv, NEW t \in Tasks, NEW p \in PCs,
         Goto(t, p), p # "check",
         \A x \in Tasks \ {t} : call'[x] = call[x] /\ waited'[x] = waited[x],
         p \notin {"app", "abort"} => /\ pc[t] \notin {"app", "abort"}
                                      /\ SameTime(call'[t], call[t]) /\ waited'[t] = waited[t],
         NEW R, NEW X, NEW n, Frees(k', k, R, X, n, 0),
         n = 0 \/ \A x \in Tasks : pc[x] # "check"
  PROVE  OnTimeInv'
<1>1. waited' \in [Tasks -> 0 .. MaxWaited] /\ waited \in [Tasks -> Nat]
  BY QueuesAssumption DEF ListsInv, TimesTyped
<1>2. /\ pc' = [pc EXCEPT ![t] = p] /\ pc \in [All -> PCs] /\ Tasks \subseteq All
  BY DEF Goto, ListsInv, AtRight, All
<1>3. pc'[t] = p /\ \A x \in Tasks \ {t} : pc'[x] = pc[x]
  BY <1>2
<1>4. ASSUME NEW x \in Tasks, pc'[x] \notin {"app", "abort"}
      PROVE  /\ pc[x] \notin {"app", "abort"} /\ SameTime(call'[x], call[x])
             /\ pc'[x] = "check" => pc[x] = "check"
             /\ call[x].asked # MaxDelay => waited'[x] = waited[x] + 0
  <2>1. CASE x = t
    BY <1>1, <1>3, <1>4, <2>1
  <2>2. CASE x # t
    BY <1>1, <1>3, <1>4, <2>2 DEF SameTime
  <2>3. QED
    BY <2>1, <2>2
<1>5. QED
  BY <1>1, <1>4, FreesTimes

(* The clock stands still, and but for t nobody goes to sleep.             *)
LEMMA StillTimes ==
  ASSUME OnTimeInv, NEW t \in Tasks,
         k'.tick = k.tick, k'.overflows = k.overflows, k'.pendedTicks = k.pendedTicks,
         \A x \in Tasks \ {t} : /\ pc'[x] = pc[x] /\ call'[x] = call[x]
                                /\ waited'[x] = waited[x]
                                /\ x \in Waiting(k') =>
                                     x \in Waiting(k) /\ Dist(k', x) = Dist(k, x),
         pc'[t] \notin {"app", "abort"} =>
           /\ OnTime(k', t, call'[t], waited'[t])
           /\ pc'[t] = "check" /\ call'[t].asked # MaxDelay => Ran(k', call'[t], waited'[t]) = 0
  PROVE  OnTimeInv'
<1>1. ASSUME NEW x \in Tasks, pc'[x] \notin {"app", "abort"}, x # t
      PROVE  /\ OnTime(k', x, call'[x], waited'[x])
             /\ pc'[x] = "check" /\ call'[x].asked # MaxDelay =>
                  Ran(k', call'[x], waited'[x]) = 0
  <2>1. /\ pc'[x] = pc[x] /\ call'[x] = call[x] /\ waited'[x] = waited[x]
        /\ x \in Waiting(k') => x \in Waiting(k) /\ Dist(k', x) = Dist(k, x)
    BY <1>1
  <2>2. /\ OnTime(k, x, call[x], waited[x])
        /\ pc[x] = "check" /\ call[x].asked # MaxDelay => Ran(k, call[x], waited[x]) = 0
    BY <1>1, <2>1 DEF OnTimeInv
  <2>3. OnTime(k', x, call[x], waited[x])
        /\ Ran(k', call[x], waited[x]) = Ran(k, call[x], waited[x])
    <3> DEFINE c == call[x]
               w == waited[x]
               kk == k
               u == k'
    <3>1. /\ u.tick = kk.tick /\ u.overflows = kk.overflows /\ u.pendedTicks = kk.pendedTicks
          /\ x \in Waiting(u) => x \in Waiting(kk) /\ Dist(u, x) = Dist(kk, x)
          /\ OnTime(kk, x, c, w)
      BY <2>1, <2>2
    <3> HIDE DEF c, w, kk, u
    <3>2. OnTime(u, x, c, w) /\ Ran(u, c, w) = Ran(kk, c, w)
      BY <3>1, StillOnTime
    <3>3. QED
      BY <3>2 DEF c, w, kk, u
  <2>4. QED
    BY <2>1, <2>2, <2>3
<1>2. ASSUME NEW x \in Tasks, pc'[x] \notin {"app", "abort"}
      PROVE  /\ OnTime(k', x, call'[x], waited'[x])
             /\ pc'[x] = "check" /\ call'[x].asked # MaxDelay =>
                  Ran(k', call'[x], waited'[x]) = 0
  BY <1>1, <1>2
<1>3. QED
  BY <1>2 DEF OnTimeInv, OnTime, Ran, Clock, Waiting, Dist, Dl, Ov

(* What xTaskCheckForTimeOut makes of it: it counts what the clock has gone*)
(* on, and the time is over when all that was asked for has passed.        *)
LEMMA ElapsedRan ==
  ASSUME MaxWaited < Ticks, NEW kk \in KernelState, NEW t, NEW c, CallTyped(c),
         NEW w \in 0 .. MaxWaited, OnTime(kk, t, c, w), c.asked # MaxDelay
  PROVE  /\ Elapsed(kk, c.since) = Ran(kk, c, w)
         /\ TimedOut(kk, c.since, c.left) => w >= c.asked
<1> DEFINE r == Ran(kk, c, w)
<1>1. /\ c.asked \in Int /\ c.left \in Int /\ c.left <= c.asked
      /\ c.since.tick \in 0 .. Ticks - 1 /\ Ticks \in Nat \ {0} /\ MaxWaited \in Nat
  BY CallNumbers, QueuesAssumption
<1>2. kk.pendedTicks \in Nat /\ kk.tick \in 0 .. Ticks - 1
  BY KernelTypes
<1>3. r \in Nat /\ Clock(kk, c.since, r)
  BY DEF OnTime
<1>4. r < Ticks /\ r = w - (c.asked - c.left) - kk.pendedTicks
  BY <1>1, <1>2 DEF Ran
<1> HIDE DEF r
<1>5. kk.tick = c.since.tick + r \/ kk.tick + Ticks = c.since.tick + r
  BY <1>3 DEF Clock
<1>6. Elapsed(kk, c.since) = r
  <2>1. CASE kk.tick = c.since.tick + r
    <3>1. kk.tick + Ticks - c.since.tick = r + Ticks
      BY <1>1, <1>2, <1>3, <2>1
    <3>2. (r + Ticks) % Ticks = r
      <4> DEFINE s == r + Ticks
      <4>1. s < 2 * Ticks /\ ~(s < Ticks) /\ s \in 0 .. 2 * Ticks /\ s - Ticks = r
        BY <1>1, <1>3, <1>4
      <4> HIDE DEF s
      <4>2. s % Ticks = s - Ticks
        BY <1>1, <4>1, RingMod
      <4>3. QED
        BY <4>1, <4>2 DEF s
    <3>3. QED
      BY <3>1, <3>2 DEF Elapsed
  <2>2. CASE kk.tick + Ticks = c.since.tick + r
    <3>1. kk.tick + Ticks - c.since.tick = r
      BY <1>1, <1>2, <1>3, <2>2
    <3>2. r % Ticks = r
      BY <1>1, <1>3, <1>4
    <3>3. QED
      BY <3>1, <3>2 DEF Elapsed
  <2>3. QED
    BY <1>5, <2>1, <2>2
<1>7. ASSUME TimedOut(kk, c.since, c.left) PROVE w >= c.asked
  <2>1. ~(kk.overflows # c.since.overflows /\ kk.tick >= c.since.tick)
    BY <1>1, <1>2, <1>3, <1>4 DEF Clock
  <2>2. r >= c.left
    BY <1>6, <1>7, <2>1 DEF TimedOut
  <2>3. QED
    BY <1>1, <1>2, <1>3, <1>4, <2>2
<1>8. QED
  BY <1>6, <1>7 DEF r

(* A ready task is not in a delayed list.                                  *)
LEMMA ReadyAwake ==
  ASSUME NEW kk, NEW H, Proper(kk, H), NEW t, t \in Rd(kk)
  PROVE  t \notin Waiting(kk)
  BY DEF Proper, Sound, Apart, Waiting

(* xTaskCheckForTimeOut counts the time that has passed, and starts anew.  *)
LEMMA LockTimes ==
  ASSUME MaxWaited < Ticks, ListsInv, OnTimeInv, NEW t \in Tasks, Lock(t)
  PROVE  OnTimeInv'
<1> DEFINE c == call[t]
           w == waited[t]
           late == k.aborted[t] \/ TimedOut(k, c.since, c.left)
           again == ~late /\ c.left # MaxDelay
           x == [c EXCEPT !.left = IF again THEN @ - Elapsed(k, c.since) ELSE @,
                          !.since = IF again THEN Now(k) ELSE @,
                          !.why = IF late THEN "late" ELSE "none"]
<1>1. /\ At(t, "lock") /\ t = k.current /\ pc[t] = "lock" /\ t \in All /\ t \in Rd(k)
      /\ k \in KernelState /\ Proper(k, Hand)
  BY Here DEF Lock, ListsInv, KernelRight
<1>2. /\ CallTyped(c) /\ w \in 0 .. MaxWaited
      /\ DOMAIN call = Tasks
      /\ DOMAIN c = {"do", "on", "item", "pos", "asked", "left", "since", "inherited", "why"}
  BY <1>1 DEF ListsInv, TimesTyped, StorageInv, CallsRight
<1>3. OnTime(k, t, c, w)
  BY <1>1 DEF OnTimeInv
<1>4. call' = [call EXCEPT ![t] = x]
  <2>1. call' = [call EXCEPT ![t].left = IF again THEN @ - Elapsed(k, c.since) ELSE @,
                             ![t].since = IF again THEN Now(k) ELSE @,
                             ![t].why = IF late THEN "late" ELSE "none"]
    BY DEF Lock
  <2>2. QED
    BY <1>2, <2>1
<1>5. /\ x.asked = c.asked
      /\ x.left = IF again THEN c.left - Elapsed(k, c.since) ELSE c.left
      /\ x.since = IF again THEN Now(k) ELSE c.since
  BY <1>2
<1>6. /\ k'.tick = k.tick /\ k'.overflows = k.overflows /\ k'.pendedTicks = k.pendedTicks
      /\ Waiting(k') = Waiting(k) /\ \A y \in Waiting(k) : Dist(k', y) = Dist(k, y)
  <2> DEFINE u == [k EXCEPT !.aborted[t] = FALSE]
  <2>1. /\ Frees(u, k, {}, {}, 0, 0) /\ u.tick = k.tick /\ u.overflows = k.overflows
        /\ u.pendedTicks = k.pendedTicks
    BY <1>1, NotedFrees
  <2>2. k' = u
    BY DEF Lock
  <2>3. \A y \in Waiting(k) : Dist(k, y) \in Int
    BY <1>1, DistRight, KernelAssumption DEF Proper
  <2> HIDE DEF u
  <2>4. QED
    BY <2>1, <2>2, <2>3 DEF Frees
<1>7. t \notin Waiting(k)
  BY <1>1, ReadyAwake
<1>8. pc' = [pc EXCEPT ![t] = IF late THEN "unlockTx" ELSE "check"] /\ waited' = waited
      /\ pc \in [All -> PCs]
  BY DEF Lock, Goto, ListsInv, AtRight
<1>9. /\ c.asked \in Int /\ c.left \in Int /\ c.left <= c.asked
      /\ c.left = MaxDelay <=> c.asked = MaxDelay
      /\ k.pendedTicks \in Int /\ w \in Int /\ Ticks \in Nat \ {0} /\ MaxWaited \in Int
  BY <1>1, <1>2, CallNumbers, KernelTypes, QueuesAssumption DEF CallTyped
<1> HIDE DEF x
<1>10. call'[t] = x /\ waited'[t] = w /\ pc'[t] = IF late THEN "unlockTx" ELSE "check"
  BY <1>1, <1>2, <1>4, <1>8
<1>11. ASSUME c.asked # MaxDelay
       PROVE  /\ Ran(k', x, w) \in Nat /\ Clock(k', x.since, Ran(k', x, w))
              /\ ~late => Ran(k', x, w) = 0
  <2>1. Elapsed(k, c.since) = Ran(k, c, w)
    BY <1>1, <1>2, <1>3, <1>11, ElapsedRan
  <2>2. Ran(k, c, w) \in Nat /\ Clock(k, c.since, Ran(k, c, w))
    BY <1>3, <1>11 DEF OnTime
  <2>3. CASE again
    <3>1. Ran(k', x, w) = 0
      BY <1>5, <1>6, <1>9, <2>1, <2>2, <2>3 DEF Ran
    <3>2. Clock(k', x.since, 0)
      BY <1>1, <1>5, <1>6, <2>3, KernelTypes DEF Clock, Now
    <3>3. QED
      BY <3>1, <3>2
  <2>4. CASE ~again
    <3>1. late
      BY <1>9, <1>11, <2>4
    <3>2. Ran(k', x, w) = Ran(k, c, w) /\ x.since = c.since
      BY <1>5, <1>6, <2>4 DEF Ran
    <3>3. QED
      BY <1>6, <2>2, <3>1, <3>2 DEF Clock
  <2>5. QED
    BY <2>3, <2>4
<1>12. OnTime(k', t, x, w)
  BY <1>5, <1>6, <1>7, <1>11 DEF OnTime
<1>13. pc'[t] = "check" /\ x.asked # MaxDelay => Ran(k', x, w) = 0
  BY <1>5, <1>10, <1>11
<1>14. \A y \in Tasks \ {t} : pc'[y] = pc[y] /\ call'[y] = call[y] /\ waited'[y] = waited[y]
  BY <1>1, <1>2, <1>4, <1>8 DEF All
<1> HIDE DEF c, w
<1>15. QED
  BY <1>6, <1>10, <1>12, <1>13, <1>14, StillTimes

(* Whoever waits is in the delayed list for what is left.                  *)
LEMMA CheckTimes ==
  ASSUME MaxWaited < Ticks, ListsInv, OnTimeInv, NEW t \in Tasks, Check(t)
  PROVE  OnTimeInv'
<1> DEFINE c == call[t]
           w == waited[t]
           waits == IF c.do = "send" THEN Full(c.on) ELSE Empty(c.on)
<1>1. /\ At(t, "check") /\ t = k.current /\ pc[t] = "check" /\ t \in All /\ t \in Rd(k)
      /\ k \in KernelState /\ Proper(k, Hand)
  BY Here DEF Check, ListsInv, KernelRight
<1>2. /\ CallTyped(c) /\ w \in 0 .. MaxWaited
      /\ DOMAIN call = Tasks
      /\ DOMAIN c = {"do", "on", "item", "pos", "asked", "left", "since", "inherited", "why"}
  BY <1>1 DEF ListsInv, TimesTyped, StorageInv, CallsRight
<1>3. OnTime(k, t, c, w) /\ (c.asked # MaxDelay => Ran(k, c, w) = 0)
  BY <1>1 DEF OnTimeInv
<1>4. /\ \A y \in Tasks \ {t} : call'[y] = call[y]
      /\ SameTime(call'[t], c)
  BY <1>2 DEF Check, SameTime
<1>5. pc' = [pc EXCEPT ![t] = "unlockTx"] /\ waited' = waited /\ pc \in [All -> PCs]
  BY DEF Check, Goto, ListsInv, AtRight
<1>6. pc'[t] = "unlockTx" /\ \A y \in Tasks \ {t} : pc'[y] = pc[y] /\ waited'[y] = waited[y]
  BY <1>1, <1>5 DEF All
<1>7. t \notin Waiting(k)
  BY <1>1, ReadyAwake
<1>8. c.left \in Int /\ (c.left = MaxDelay <=> c.asked = MaxDelay)
  BY <1>2, CallNumbers DEF CallTyped
<1>9. /\ ~waits => k' = k
      /\ waits => Blocks(k', k, t, {WaitList(c)}, c.left, c.left = MaxDelay)
  BY CheckEffect
<1>10. /\ k'.tick = k.tick /\ k'.overflows = k.overflows /\ k'.pendedTicks = k.pendedTicks
       /\ \A y \in Tasks \ {t} : y \in Waiting(k') =>
            y \in Waiting(k) /\ Dist(k', y) = Dist(k, y)
       /\ t \in Waiting(k') => c.left # MaxDelay /\ Dist(k', t) = c.left
  BY <1>7, <1>9 DEF Blocks
<1> DEFINE d == call'[t]
<1>11. waited'[t] = w
  BY <1>5
<1> HIDE DEF c, w, d
<1>12. OnTime(k', t, d, w)
  <2>1. SameTime(d, c)
    BY <1>4 DEF d, c
  <2>2. Ran(k', d, w) = Ran(k, c, w)
    BY <1>10, <2>1 DEF Ran, SameTime
  <2>3. c.asked # MaxDelay => Ran(k, c, w) \in Nat /\ Clock(k', d.since, Ran(k, c, w))
    BY <1>3, <1>10, <2>1 DEF OnTime, Clock, SameTime
  <2>4. t \in Waiting(k') => c.asked # MaxDelay /\ Dist(k', t) + Ran(k, c, w) = c.left
    BY <1>3, <1>8, <1>10
  <2>5. QED
    BY <2>1, <2>2, <2>3, <2>4 DEF OnTime, SameTime
<1>13. OnTime(k', t, call'[t], waited'[t])
  BY <1>11, <1>12 DEF d
<1>14. \A y \in Tasks \ {t} : call'[y] = call[y]
  BY <1>4
<1>15. QED
  BY <1>6, <1>10, <1>13, <1>14, StillTimes

(* Every step keeps the time of every call right.                          *)
LEMMA OnTimeStep ==
  ASSUME MaxWaited < Ticks, ListsInv, OnTimeInv, [Next]_vars
  PROVE  OnTimeInv'
<1>1. Proper(k, Hand) /\ k \in KernelState
  BY DEF ListsInv, KernelRight, Proper, Sound
<1>2. ListsInv' /\ waited' \in [Tasks -> 0 .. MaxWaited]
  BY ListsStep DEF ListsInv, TimesTyped
<1>3. DOMAIN call = Tasks /\ waited \in [Tasks -> Nat] /\ pc \in [All -> PCs]
      /\ Tasks \subseteq All
  BY QueuesAssumption DEF ListsInv, TimesTyped, StorageInv, CallsRight, All
<1>4. ASSUME UNCHANGED <<pc, call, waited>>,
             NEW R, NEW X, Frees(k', k, R, X, 0, 0)
      PROVE  OnTimeInv'
  <2>1. \A x \in Tasks : waited[x] = waited[x] + 0
    BY <1>3
  <2>2. \A x \in Tasks : pc'[x] \notin {"app", "abort"} =>
          /\ pc[x] \notin {"app", "abort"} /\ SameTime(call'[x], call[x])
          /\ pc'[x] = "check" => pc[x] = "check"
          /\ call[x].asked # MaxDelay => waited'[x] = waited[x] + 0
    BY <1>4, <2>1 DEF SameTime
  <2>3. QED
    BY <1>2, <1>4, <2>2, FreesTimes
<1>5. ASSUME NEW t \in Tasks, NEW p \in PCs \ {"check", "app", "abort"}, Goto(t, p),
             pc[t] \notin {"app", "abort"}, UNCHANGED <<call, waited>>,
             NEW R, NEW X, NEW n, Frees(k', k, R, X, n, 0),
             n = 0 \/ \A x \in Tasks : pc[x] # "check"
      PROVE  OnTimeInv'
  BY <1>2, <1>5, StepTimes DEF SameTime
<1>6. ASSUME NEW t \in Tasks, NEW p \in {"app", "abort"}, Goto(t, p),
             \A x \in Tasks \ {t} : call'[x] = call[x] /\ waited'[x] = waited[x],
             NEW R, NEW X, NEW n, Frees(k', k, R, X, n, 0),
             n = 0 \/ \A x \in Tasks : pc[x] # "check"
      PROVE  OnTimeInv'
  <2>1. p \in PCs /\ p # "check"
    BY <1>6 DEF PCs
  <2>2. QED
    BY <1>2, <1>6, <2>1, StepTimes
<1>7. ASSUME NEW t \in Tasks, Fail(t)
      PROVE  /\ Goto(t, "app")
             /\ \A x \in Tasks \ {t} : call'[x] = call[x] /\ waited'[x] = waited[x]
  BY <1>3, <1>7 DEF Fail
<1>8. ASSUME NEW t \in Tasks, t = k.current, pc[t] # "check"
      PROVE  \A x \in Tasks : pc[x] # "check"
  BY <1>8 DEF ListsInv, AtRight, Busy
<1>9. ASSUME NEW t \in Tasks, Continue(t) PROVE OnTimeInv'
  <2>1. CASE Retry(t)
    <3>1. At(t, "try") /\ t = k.current /\ k.schedulerSuspended = 0 /\ pc[t] = "try"
      BY <2>1, Here DEF Retry, Busy
    <3>2. CASE Possible(call[t])
      <4>1. Succeed(t, call[t]) /\ Goto(t, "app") /\ CallRight(call[t])
        BY <2>1, <3>1, <3>2 DEF Retry, ListsInv, StorageInv, CallsRight
      <4>2. PICK X : Frees(k', k, X, X, 0, 0)
        BY <3>1, <4>1, SucceedEffect DEF FreesFirst
      <4>3. \A x \in Tasks \ {t} : call'[x] = call[x] /\ waited'[x] = waited[x]
        BY <1>3, <2>1, <3>2 DEF Retry
      <4>4. QED
        BY <1>6, <4>1, <4>2, <4>3
    <3>3. CASE ~Possible(call[t])
      <4>1. k' = k /\ Frees(k, k, {}, {}, 0, 0) /\ Goto(t, "block")
            /\ UNCHANGED <<call, waited>>
        BY <1>1, <2>1, <3>3, SameFrees DEF Retry
      <4>2. "block" \in PCs \ {"check", "app", "abort"}
        BY DEF PCs
      <4>3. QED
        BY <1>5, <3>1, <4>1, <4>2
    <3>4. QED
      BY <3>2, <3>3
  <2>2. CASE Block(t)
    <3>1. At(t, "block") /\ t = k.current /\ k.schedulerSuspended = 0 /\ pc[t] = "block"
      BY <2>2, Here DEF Block, Busy
    <3>2. Frees(k', k, {}, {}, 0, 0)
      BY <1>1, <2>2, <3>1, SuspendFrees DEF Block
    <3>3. Goto(t, "lock") /\ UNCHANGED <<call, waited>>
          /\ "lock" \in PCs \ {"check", "app", "abort"}
      BY <2>2 DEF Block, PCs
    <3>4. QED
      BY <1>5, <3>1, <3>2, <3>3
  <2>3. CASE Lock(t)
    BY <2>3, LockTimes
  <2>4. CASE Check(t)
    BY <2>4, CheckTimes
  <2>5. CASE UnlockTx(t) \/ UnlockRx(t)
    <3>1. PICK X : Frees(k', k, {}, X, 0, 0)
      BY <2>5, UnlockEffect
    <3>2. PICK p \in {"unlockRx", "resume"} : Goto(t, p)
      BY <2>5 DEF UnlockTx, UnlockRx
    <3>3. UNCHANGED <<call, waited>> /\ pc[t] \notin {"app", "abort"}
      BY <2>5 DEF UnlockTx, UnlockRx, At
    <3>4. p \in PCs \ {"check", "app", "abort"}
      BY <3>2 DEF PCs
    <3>5. QED
      BY <1>5, <3>1, <3>2, <3>3, <3>4
  <2>6. CASE Resume(t)
    <3>1. PICK X : Frees(k', k, X, X, k.pendedTicks, 0)
      BY <2>6, ResumeEffect
    <3>2. At(t, "resume") /\ t = k.current /\ pc[t] = "resume"
      BY <2>6 DEF Resume, At
    <3>3. \A x \in Tasks : pc[x] # "check"
      BY <1>8, <3>2
    <3>4. CASE Fail(t)
      BY <1>6, <1>7, <3>1, <3>3, <3>4
    <3>5. CASE ~Fail(t)
      <4>1. PICK p \in {"empty", "yield", "try"} : Goto(t, p)
        BY <2>6, <3>5 DEF Resume
      <4>2. p \in PCs \ {"check", "app", "abort"} /\ UNCHANGED <<call, waited>>
        BY <2>6, <3>5 DEF Resume, PCs
      <4>3. QED
        BY <1>5, <3>1, <3>2, <3>3, <4>1, <4>2
    <3>6. QED
      BY <3>4, <3>5
  <2>7. CASE CallYield(t)
    <3>1. Frees(k', k, {}, {}, 0, 0)
      BY <1>1, <2>7, YieldFrees DEF CallYield
    <3>2. /\ Goto(t, "try") /\ UNCHANGED <<call, waited>>
          /\ "try" \in PCs \ {"check", "app", "abort"}
          /\ pc[t] \notin {"app", "abort"}
      BY <2>7 DEF CallYield, PCs, At
    <3>3. QED
      BY <1>5, <3>1, <3>2
  <2>8. CASE Late(t)
    <3>1. k' = k /\ Frees(k, k, {}, {}, 0, 0) /\ pc[t] \notin {"app", "abort"}
      BY <1>1, <2>8, SameFrees DEF Late, At
    <3>2. CASE Fail(t)
      BY <1>6, <1>7, <3>1, <3>2
    <3>3. CASE ~Fail(t)
      <4>1. PICK p \in {"try", "disinherit"} : Goto(t, p)
        BY <2>8, <3>3 DEF Late
      <4>2. p \in PCs \ {"check", "app", "abort"} /\ UNCHANGED <<call, waited>>
        BY <2>8, <3>3 DEF Late, PCs
      <4>3. QED
        BY <1>5, <3>1, <4>1, <4>2
    <3>4. QED
      BY <3>2, <3>3
  <2>9. CASE LateDisinherit(t)
    <3>1. Frees(k', k, {}, {}, 0, 0)
      BY <2>9, LateDisinheritEffect, Zenon
    <3>2. Fail(t)
      BY <2>9 DEF LateDisinherit
    <3>3. Goto(t, "app") /\ \A x \in Tasks \ {t} : call'[x] = call[x] /\ waited'[x] = waited[x]
      BY <1>7, <3>2
    <3>4. QED
      BY <1>6, <3>1, <3>3
  <2>10. CASE AbortEnd(t)
    <3>1. PICK X : Frees(k', k, X, X, k.pendedTicks, 0)
      BY <2>10, AbortEndEffect
    <3>2. At(t, "abort") /\ t = k.current /\ pc[t] = "abort"
      BY <2>10 DEF AbortEnd, At
    <3>3. \A x \in Tasks : pc[x] # "check"
      BY <1>8, <3>2
    <3>4. Goto(t, "app") /\ UNCHANGED <<call, waited>>
      BY <2>10 DEF AbortEnd
    <3>5. QED
      BY <1>6, <3>1, <3>3, <3>4
  <2>11. QED
    BY <1>9, <2>1, <2>2, <2>3, <2>4, <2>5, <2>6, <2>7, <2>8, <2>9, <2>10 DEF Continue
<1>10. ASSUME NEW t \in Tasks, Call(t) PROVE OnTimeInv'
  <2>1. ASSUME NEW c \in use, Begin(t, c) PROVE OnTimeInv'
    <3>1. /\ At(t, "app") /\ t = k.current /\ k.schedulerSuspended = 0 /\ pc[t] = "app"
          /\ t \in Rd(k) /\ k.pendedTicks = 0
      BY <2>1, Here DEF Begin, Busy
    <3>2. CASE Possible(c)
      <4>1. c \in UNION Uses /\ Succeed(t, c) /\ c.do \notin {"delay", "again"}
        BY <2>1, <3>2 DEF ListsInv, StorageInv, CallsRight, Begin
      <4>2. CallRight(c)
        BY <4>1, QueuesAssumption DEF CallRight
      <4>3. PICK X : Frees(k', k, X, X, 0, 0)
        BY <3>1, <4>1, <4>2, SucceedEffect DEF FreesFirst
      <4>4. UNCHANGED <<pc, call, waited>>
        BY <2>1, <3>2 DEF Begin
      <4>5. QED
        BY <1>4, <4>3, <4>4
    <3>3. CASE ~Possible(c)
      <4>1. /\ k' = k /\ pc' = [pc EXCEPT ![t] = "block"]
            /\ call' = [call EXCEPT ![t] = Locals(c)] /\ waited' = [waited EXCEPT ![t] = 0]
        BY <2>1, <3>3 DEF Begin, Goto
      <4>2. \A x \in Tasks \ {t} :
              pc'[x] = pc[x] /\ call'[x] = call[x] /\ waited'[x] = waited[x]
        BY <1>3, <4>1
      <4>3. call'[t] = Locals(c) /\ waited'[t] = 0 /\ pc'[t] = "block"
        BY <1>3, <4>1
      <4>4. OnTime(k, t, Locals(c), 0)
        <5> DEFINE d == Locals(c)
        <5>1. d.asked = c.ticks /\ d.left = c.ticks /\ d.since = Now(k)
          BY DEF Locals
        <5>2. c.ticks \in Int
          <6>1. c \in UNION Uses
            BY DEF ListsInv, StorageInv, CallsRight
          <6>2. QED
            BY <6>1, QueuesAssumption, KernelAssumption DEF MaxDelay
        <5> HIDE DEF d
        <5>3. Ran(k, d, 0) = 0
          BY <3>1, <5>1, <5>2 DEF Ran
        <5>4. Clock(k, d.since, 0)
          BY <1>1, <5>1, KernelTypes DEF Clock, Now
        <5>5. t \notin Waiting(k)
          BY <1>1, <3>1, ReadyAwake
        <5>6. OnTime(k, t, d, 0)
          BY <5>3, <5>4, <5>5 DEF OnTime
        <5>7. QED
          BY <5>6 DEF d
      <4>5. OnTime(k', t, call'[t], waited'[t]) /\ pc'[t] # "check"
        BY <4>1, <4>3, <4>4
      <4>6. QED
        BY <4>1, <4>2, <4>5, StillTimes
    <3>4. QED
      BY <3>2, <3>3
  <2>2. ASSUME NEW c \in use, Delay(t, c) PROVE OnTimeInv'
    <3>1. /\ Waiting(k') \subseteq Waiting(k) \cup {t}
          /\ \A x \in Waiting(k') : x # t => Dist(k', x) = Dist(k, x)
          /\ k'.tick = k.tick /\ k'.overflows = k.overflows /\ k'.pendedTicks = k.pendedTicks
      BY <2>2, DelayEffect
    <3>2. UNCHANGED <<pc, call, waited>> /\ pc[t] = "app"
      BY <2>2 DEF Delay, At
    <3>3. QED
      BY <3>1, <3>2, StillTimes
  <2>3. ASSUME NEW c \in use, Again(t, c) PROVE OnTimeInv'
    <3>1. UNCHANGED <<k, pc, call, waited>>
      BY <2>3 DEF Again
    <3>2. QED
      BY <3>1 DEF OnTimeInv, OnTime, Ran, Clock, Waiting, Dist, Dl, Ov
  <2>4. ASSUME NEW u \in Tasks, Abort(t, u) PROVE OnTimeInv'
    <3>1. /\ Waiting(k') \subseteq Waiting(k)
          /\ \A x \in Waiting(k') : Dist(k', x) = Dist(k, x)
          /\ k'.tick = k.tick /\ k'.overflows = k.overflows /\ k'.pendedTicks = k.pendedTicks
      BY <2>4, AbortEffect
    <3>2. pc' = [pc EXCEPT ![t] = "abort"] /\ UNCHANGED <<call, waited>>
      BY <2>4 DEF Abort, Goto
    <3>3. pc'[t] = "abort" /\ \A x \in Tasks \ {t} : pc'[x] = pc[x]
      BY <1>3, <3>2
    <3>4. QED
      BY <3>1, <3>2, <3>3, StillTimes
  <2>5. QED
    BY <1>10, <2>1, <2>2, <2>3, <2>4 DEF Call
<1>11. ASSUME NEW h \in Handlers, SendFromISR(h) \/ ReceiveFromISR(h)
       PROVE  OnTimeInv'
  <2>1. \E R, X : Frees(k', k, R, X, 0, 0)
    BY <1>11, HandlerEffect
  <2>2. UNCHANGED <<pc, call, waited>>
    BY <1>11 DEF SendFromISR, ReceiveFromISR
  <2>3. QED
    BY <1>4, <2>1, <2>2
<1>12. CASE Tick
  <2> DEFINE u == SysTick(k)
  <2>1. PICK R, n : Frees(u, k, R, R, n, 1) /\ (k.schedulerSuspended # 0 => n = 0 /\ R = {})
    BY <1>1, TickFrees
  <2>2. k' = u /\ UNCHANGED <<pc, call>>
    BY <1>12 DEF Tick
  <2> HIDE DEF u
  <2>3. n = 0 \/ \A x \in Tasks : pc[x] # "check"
    BY <2>1 DEF ListsInv, AtRight, Busy
  <2>4. ASSUME NEW x \in Tasks, pc'[x] \notin {"app", "abort"}
        PROVE  /\ pc[x] \notin {"app", "abort"} /\ SameTime(call'[x], call[x])
               /\ pc'[x] = "check" => pc[x] = "check"
               /\ call[x].asked # MaxDelay => waited'[x] = waited[x] + 1
    <3>1. call[x].asked \in 1 .. MaxDelay /\ MaxDelay \in Int
      BY <2>2, <2>4, KernelAssumption DEF ListsInv, TimesTyped, CallTyped, MaxDelay
    <3>2. call[x].asked # MaxDelay => Timing(x)
      BY <2>2, <2>4, <3>1 DEF Timing
    <3>3. QED
      BY <1>12, <2>2, <2>4, <3>2 DEF Tick, SameTime
  <2>5. QED
    BY <1>2, <2>1, <2>2, <2>3, <2>4, FreesTimes
<1>13. CASE Switch
  <2> DEFINE u == SwitchContext(k)
  <2>1. k' = u /\ UNCHANGED <<pc, call, waited>>
    BY <1>13 DEF Switch
  <2>2. CASE k.schedulerSuspended # 0
    <3>1. Frees(u, k, {}, {}, 0, 0)
      BY <1>1, <2>2, PutOffFrees
    <3> HIDE DEF u
    <3>2. QED
      BY <1>4, <2>1, <3>1
  <2>3. CASE k.schedulerSuspended = 0
    <3>1. /\ Waiting(u) = Waiting(k) /\ \A x \in Waiting(u) : Dist(u, x) = Dist(k, x)
          /\ u.tick = k.tick /\ u.overflows = k.overflows /\ u.pendedTicks = k.pendedTicks
      BY <1>1, <2>3, SwitchProper
    <3> HIDE DEF u
    <3>2. SUFFICES ASSUME NEW t \in Tasks, pc[t] \notin {"app", "abort"}
                   PROVE  /\ OnTime(u, t, call[t], waited[t])
                          /\ pc[t] = "check" /\ call[t].asked # MaxDelay =>
                               Ran(u, call[t], waited[t]) = 0
      BY <2>1 DEF OnTimeInv, OnTime, Ran, Clock, Waiting, Dist, Dl, Ov
    <3>3. /\ OnTime(k, t, call[t], waited[t])
          /\ pc[t] = "check" /\ call[t].asked # MaxDelay => Ran(k, call[t], waited[t]) = 0
      BY <3>2 DEF OnTimeInv
    <3>4. OnTime(u, t, call[t], waited[t])
          /\ Ran(u, call[t], waited[t]) = Ran(k, call[t], waited[t])
      BY <3>1, <3>3, StillOnTime
    <3>5. QED
      BY <3>3, <3>4
  <2>4. QED
    BY <2>2, <2>3
<1>14. CASE UNCHANGED vars
  <2>1. UNCHANGED <<k, pc, call, waited>>
    BY <1>14 DEF vars
  <2>2. QED
    BY <2>1 DEF OnTimeInv, OnTime, Ran, Clock, Waiting, Dist, Dl, Ov
<1>15. QED
  BY <1>9, <1>10, <1>11, <1>12, <1>13, <1>14 DEF Next, Handler

(* Who is late: a task whose time is over, or whose wait was aborted.      *)
Over(t) == t \in cut \/ (call[t].asked # MaxDelay /\ waited[t] >= call[t].asked)

(* Whoever goes on to fail is late, is ready, and has no note of a later   *)
(* abortion that the failure would forget.                                 *)
LateRight(t) ==
  /\ k.aborted[t] => t \in cut
  /\ pc[t] \in {"empty", "disinherit"} => call[t].why = "late"
  /\ pc[t] \in {"unlockTx", "unlockRx", "resume", "empty", "disinherit"}
     /\ call[t].why = "late"
       => Over(t) /\ ~k.aborted[t] /\ t \in Rd(k)

LateInv == \A t \in Tasks : LateRight(t)

(* A task that does nothing itself stays as late as it is, whoever is put  *)
(* off.                                                                    *)
LEMMA LateKept ==
  ASSUME LateInv, NEW x \in Tasks, pc'[x] = pc[x], call'[x] = call[x],
         waited[x] \in Int, waited'[x] \in Int,
         pc[x] \notin {"app", "abort"} => CallTyped(call[x]),
         waited'[x] >= waited[x], x \in cut => x \in cut',
         k'.aborted[x] => k.aborted[x] \/ (x \in cut' /\ x \notin Rd(k)),
         x \in Rd(k) => x \in Rd(k')
  PROVE  LateRight(x)'
<1>1. LateRight(x)
  BY DEF LateInv
<1>2. k'.aborted[x] => x \in cut'
  BY <1>1 DEF LateRight
<1>3. pc[x] \notin {"app", "abort"} => call[x].asked \in Int
  BY CallNumbers
<1>4. ASSUME pc[x] \in {"unlockTx", "unlockRx", "resume", "empty", "disinherit"},
             call[x].why = "late"
      PROVE  Over(x)' /\ ~k'.aborted[x] /\ x \in Rd(k')
  <2>1. Over(x) /\ ~k.aborted[x] /\ x \in Rd(k)
    BY <1>1, <1>4 DEF LateRight
  <2>2. Over(x)'
    BY <1>3, <1>4, <2>1 DEF Over
  <2>3. QED
    BY <2>1, <2>2
<1>5. QED
  BY <1>1, <1>2, <1>4 DEF LateRight, Rd, InReady, Over

(* A step of t: what is left to be seen is t itself.                       *)
LEMMA LateOthers ==
  ASSUME ListsInv, ListsInv', LateInv, NEW t \in Tasks, NEW p, Goto(t, p),
         \A x \in Tasks \ {t} :
           /\ call'[x] = call[x] /\ waited'[x] = waited[x] /\ (x \in cut => x \in cut')
           /\ k'.aborted[x] => k.aborted[x] \/ (x \in cut' /\ x \notin Rd(k))
           /\ x \in Rd(k) => x \in Rd(k'),
         LateRight(t)'
  PROVE  LateInv'
<1>1. \A x \in Tasks \ {t} : pc'[x] = pc[x]
  BY DEF Goto, ListsInv, AtRight, All
<1>2. \A x \in Tasks : /\ waited[x] \in Int
                       /\ pc[x] \notin {"app", "abort"} => CallTyped(call[x])
  BY QueuesAssumption DEF ListsInv, TimesTyped
<1>3. ASSUME NEW x \in Tasks, x # t PROVE LateRight(x)'
  <2>1. waited'[x] = waited[x] /\ waited'[x] >= waited[x]
    BY <1>2, <1>3
  <2>2. QED
    BY <1>1, <1>2, <1>3, <2>1, LateKept
<1>4. \A x \in Tasks : LateRight(x)'
  BY <1>3
<1>5. QED
  BY <1>4 DEF LateInv, LateRight, Over, Rd, InReady

(* Nobody of those who use queues does anything.                           *)
LEMMA LateIdle ==
  ASSUME ListsInv, LateInv, UNCHANGED <<pc, call, cut>>,
         \A x \in Tasks : waited'[x] \in Int /\ waited'[x] >= waited[x],
         k'.aborted = k.aborted, Rd(k) \subseteq Rd(k')
  PROVE  LateInv'
<1>1. \A x \in Tasks : /\ waited[x] \in Int
                       /\ pc[x] \notin {"app", "abort"} => CallTyped(call[x])
  BY QueuesAssumption DEF ListsInv, TimesTyped
<1>2. ASSUME NEW x \in Tasks PROVE LateRight(x)'
  BY <1>1, LateKept
<1>3. QED
  BY <1>2 DEF LateInv, LateRight, Over, Rd, InReady

(* t goes on, as late as it is.                                            *)
LEMMA LateGoes ==
  ASSUME LateInv, NEW t \in Tasks, k'.aborted[t] = k.aborted[t], cut' = cut,
         pc'[t] \in {"unlockTx", "unlockRx", "resume", "empty", "disinherit"} =>
           /\ pc[t] \in {"unlockTx", "unlockRx", "resume", "empty", "disinherit"}
           /\ call'[t].why = call[t].why /\ call'[t].asked = call[t].asked
           /\ waited'[t] = waited[t] /\ (t \in Rd(k) => t \in Rd(k'))
           /\ pc'[t] \in {"empty", "disinherit"} => call[t].why = "late"
  PROVE  LateRight(t)'
<1>1. LateRight(t)
  BY DEF LateInv
<1>2. k'.aborted[t] => t \in cut'
  BY <1>1 DEF LateRight
<1>3. pc'[t] \in {"empty", "disinherit"} => call'[t].why = "late"
  OBVIOUS
<1>4. ASSUME pc'[t] \in {"unlockTx", "unlockRx", "resume", "empty", "disinherit"},
             call'[t].why = "late"
      PROVE  Over(t)' /\ ~k'.aborted[t] /\ t \in Rd(k')
  <2>1. Over(t) /\ ~k.aborted[t] /\ t \in Rd(k)
    BY <1>1, <1>4 DEF LateRight
  <2>2. Over(t)'
    BY <1>4, <2>1 DEF Over
  <2>3. QED
    BY <1>4, <2>1, <2>2
<1>5. QED
  BY <1>2, <1>3, <1>4 DEF LateRight, Rd, InReady, Over

(* t fails, having been late.                                              *)
LEMMA LateFails ==
  ASSUME ListsInv, LateInv, NEW t \in Tasks, Fail(t), k'.aborted = k.aborted,
         pc[t] \in {"resume", "empty", "disinherit"}, call[t].why = "late"
  PROVE  LateRight(t)'
<1>1. pc' = [pc EXCEPT ![t] = "app"] /\ pc \in [All -> PCs] /\ t \in All
  BY DEF Fail, Goto, ListsInv, AtRight, All
<1>2. pc'[t] = "app"
  BY <1>1
<1>3. ~k.aborted[t]
  BY DEF LateInv, LateRight
<1>4. QED
  BY <1>2, <1>3 DEF LateRight

(* Every step keeps LateInv.                                               *)
LEMMA LateStep ==
  ASSUME MaxWaited < Ticks, ListsInv, OnTimeInv, LateInv, [Next]_vars
  PROVE  LateInv'
<1>1. Proper(k, Hand) /\ k \in KernelState
  BY DEF ListsInv, KernelRight, Proper, Sound
<1>2. ListsInv'
  BY ListsStep
<1>3. /\ DOMAIN call = Tasks /\ waited \in [Tasks -> Int] /\ waited' \in [Tasks -> Int]
      /\ pc \in [All -> PCs] /\ Tasks \subseteq All
  BY <1>2, QueuesAssumption DEF ListsInv, TimesTyped, StorageInv, CallsRight, All
<1>4. ASSUME NEW t \in Tasks, NEW p, Goto(t, p), UNCHANGED cut,
             \A x \in Tasks \ {t} : call'[x] = call[x] /\ waited'[x] = waited[x],
             NEW R, NEW X, NEW n, Frees(k', k, R, X, n, 0), k'.aborted = k.aborted,
             p \in {"unlockTx", "unlockRx", "resume", "empty", "disinherit"} =>
               /\ pc[t] \in {"unlockTx", "unlockRx", "resume", "empty", "disinherit"}
               /\ UNCHANGED <<call, waited>>
               /\ p \in {"empty", "disinherit"} => call[t].why = "late"
      PROVE  LateInv'
  <2>1. pc'[t] = p /\ Rd(k) \subseteq Rd(k')
    BY <1>3, <1>4 DEF Goto, Frees
  <2>2. LateRight(t)'
    BY <1>4, <2>1, LateGoes
  <2>3. QED
    BY <1>2, <1>4, <2>1, <2>2, LateOthers
<1>5. ASSUME NEW t \in Tasks, Fail(t)
      PROVE  /\ Goto(t, "app")
             /\ \A x \in Tasks \ {t} : /\ call'[x] = call[x] /\ waited'[x] = waited[x]
                                       /\ x \in cut => x \in cut'
  BY <1>3, <1>5 DEF Fail
<1>6. ASSUME NEW t \in Tasks, Fail(t), NEW R, NEW X, NEW n, Frees(k', k, R, X, n, 0),
             k'.aborted = k.aborted,
             pc[t] \in {"resume", "empty", "disinherit"}, call[t].why = "late"
      PROVE  LateInv'
  <2>1. LateRight(t)'
    BY <1>6, LateFails
  <2>2. Rd(k) \subseteq Rd(k')
    BY <1>6 DEF Frees
  <2>3. QED
    BY <1>2, <1>5, <1>6, <2>1, <2>2, LateOthers
<1>7. ASSUME NEW t \in Tasks, pc[t] \in {"empty", "disinherit"} PROVE call[t].why = "late"
  BY <1>7 DEF LateInv, LateRight
<1>8. ASSUME UNCHANGED <<pc, call, waited, cut>>, k'.aborted = k.aborted, Rd(k) \subseteq Rd(k')
      PROVE  LateInv'
  <2>1. \A x \in Tasks : waited'[x] \in Int /\ waited'[x] >= waited[x]
    BY <1>3, <1>8
  <2>2. QED
    BY <1>8, <2>1, LateIdle
<1>9. ASSUME NEW t \in Tasks, Continue(t) PROVE LateInv'
  <2>1. CASE Retry(t)
    <3>1. At(t, "try") /\ t = k.current /\ k.schedulerSuspended = 0 /\ pc[t] = "try"
      BY <2>1, Here DEF Retry, Busy
    <3>2. CASE Possible(call[t])
      <4>1. Succeed(t, call[t]) /\ Goto(t, "app") /\ CallRight(call[t]) /\ UNCHANGED cut
        BY <2>1, <3>1, <3>2 DEF Retry, ListsInv, StorageInv, CallsRight
      <4>2. PICK X : Frees(k', k, X, X, 0, 0) /\ k'.aborted = k.aborted
        BY <3>1, <4>1, SucceedEffect DEF FreesFirst
      <4>3. \A x \in Tasks \ {t} : call'[x] = call[x] /\ waited'[x] = waited[x]
        BY <1>3, <2>1, <3>2 DEF Retry
      <4>4. QED
        BY <1>4, <4>1, <4>2, <4>3
    <3>3. CASE ~Possible(call[t])
      <4>1. /\ k' = k /\ Frees(k', k, {}, {}, 0, 0) /\ Goto(t, "block")
            /\ UNCHANGED <<call, waited, cut>>
        BY <1>1, <2>1, <3>3, SameFrees DEF Retry
      <4>2. k'.aborted = k.aborted
        BY <4>1
      <4>3. QED
        BY <1>4, <4>1, <4>2
    <3>4. QED
      BY <3>2, <3>3
  <2>2. CASE Block(t)
    <3>1. At(t, "block") /\ t = k.current /\ k.schedulerSuspended = 0 /\ pc[t] = "block"
      BY <2>2, Here DEF Block, Busy
    <3>2. Frees(k', k, {}, {}, 0, 0) /\ k'.aborted = k.aborted
      BY <1>1, <2>2, <3>1, SuspendFrees DEF Block
    <3>3. Goto(t, "lock") /\ UNCHANGED <<call, waited, cut>>
      BY <2>2 DEF Block
    <3>4. QED
      BY <1>4, <3>2, <3>3
  <2>3. CASE Lock(t)
    <3> DEFINE c == call[t]
               late == k.aborted[t] \/ TimedOut(k, c.since, c.left)
               u == [k EXCEPT !.aborted[t] = FALSE]
               p == IF late THEN "unlockTx" ELSE "check"
    <3>1. At(t, "lock") /\ t = k.current /\ pc[t] = "lock" /\ t \in All /\ t \in Rd(k)
      BY <2>3, Here DEF Lock, Busy
    <3>2. Frees(u, k, {}, {}, 0, 0) /\ u.aborted = [k.aborted EXCEPT ![t] = FALSE]
      BY <1>1, <3>1, NotedFrees
    <3>3. k' = u /\ UNCHANGED <<waited, cut>> /\ Goto(t, p)
      BY <2>3 DEF Lock
    <3> HIDE DEF u
    <3>4. /\ ~k'.aborted[t] /\ Rd(k') = Rd(k)
          /\ \A x \in Tasks \ {t} : k'.aborted[x] => k.aborted[x]
      BY <1>1, <3>1, <3>2, <3>3, KernelTypes DEF Frees, All
    <3>5. /\ CallTyped(c)
          /\ DOMAIN c =
               {"do", "on", "item", "pos", "asked", "left", "since", "inherited", "why"}
      BY <3>1 DEF ListsInv, TimesTyped, StorageInv, CallsRight
    <3>6. /\ \A x \in Tasks \ {t} : call'[x] = call[x]
          /\ call'[t].asked = c.asked /\ call'[t].why = IF late THEN "late" ELSE "none"
      BY <1>3, <2>3, <3>5 DEF Lock
    <3>7. pc'[t] = p
      BY <1>3, <3>3 DEF Goto
    <3>8. ASSUME late PROVE Over(t)'
      <4>1. CASE k.aborted[t]
        BY <3>3, <4>1 DEF LateInv, LateRight, Over
      <4>2. CASE TimedOut(k, c.since, c.left)
        <5>1. c.asked # MaxDelay
          BY <3>5, <4>2 DEF TimedOut, CallTyped
        <5>2. OnTime(k, t, c, waited[t]) /\ waited[t] \in 0 .. MaxWaited
          BY <3>1 DEF OnTimeInv, ListsInv, TimesTyped
        <5> HIDE DEF c
        <5>3. waited[t] >= c.asked
          BY <1>1, <3>5, <4>2, <5>1, <5>2, ElapsedRan
        <5>4. QED
          BY <3>3, <3>6, <5>1, <5>3 DEF Over
      <4>3. QED
        BY <3>8, <4>1, <4>2
    <3>9. LateRight(t)'
      BY <3>1, <3>4, <3>6, <3>7, <3>8 DEF LateRight
    <3>10. QED
      BY <1>2, <3>3, <3>4, <3>6, <3>9, LateOthers
  <2>4. CASE Check(t)
    <3> DEFINE c == call[t]
               waits == IF c.do = "send" THEN Full(c.on) ELSE Empty(c.on)
    <3>1. At(t, "check") /\ t = k.current /\ pc[t] = "check" /\ t \in All
      BY <2>4, Here DEF Check, Busy
    <3>2. /\ ~waits => k' = k
          /\ waits => Blocks(k', k, t, {WaitList(c)}, c.left, c.left = MaxDelay)
          /\ call'[t].why = IF waits THEN "waits" ELSE "again"
      BY <2>4, CheckEffect
    <3>3. k'.aborted = k.aborted \/ k'.aborted = [k.aborted EXCEPT ![t] = FALSE]
      BY <3>2 DEF Blocks
    <3>4. \A x \in Tasks \ {t} : /\ k'.aborted[x] => k.aborted[x]
                                 /\ x \in Rd(k) => x \in Rd(k')
      BY <1>1, <3>2, <3>3, KernelTypes DEF Blocks, All
    <3>5. k'.aborted[t] => k.aborted[t]
      BY <1>1, <3>1, <3>3, KernelTypes
    <3>6. UNCHANGED <<waited, cut>> /\ Goto(t, "unlockTx")
      BY <2>4 DEF Check
    <3>7. \A x \in Tasks \ {t} : call'[x] = call[x]
      BY <1>3, <2>4 DEF Check
    <3>8. call'[t].why # "late" /\ pc'[t] = "unlockTx"
      BY <1>3, <3>2, <3>6 DEF Goto
    <3>9. LateRight(t)'
      BY <3>5, <3>6, <3>8 DEF LateRight, LateInv
    <3>10. QED
      BY <1>2, <3>4, <3>6, <3>7, <3>9, LateOthers
  <2>5. CASE UnlockTx(t) \/ UnlockRx(t)
    <3>1. PICK X : Frees(k', k, {}, X, 0, 0) /\ k'.aborted = k.aborted
      BY <2>5, UnlockEffect
    <3>2. PICK p \in {"unlockRx", "resume"} : Goto(t, p)
      BY <2>5 DEF UnlockTx, UnlockRx
    <3>3. UNCHANGED <<call, waited, cut>> /\ pc[t] \in {"unlockTx", "unlockRx"}
      BY <2>5 DEF UnlockTx, UnlockRx, At
    <3>4. QED
      BY <1>4, <3>1, <3>2, <3>3
  <2>6. CASE Resume(t)
    <3>1. PICK X : Frees(k', k, X, X, k.pendedTicks, 0) /\ k'.aborted = k.aborted
      BY <2>6, ResumeEffect
    <3>2. pc[t] = "resume"
      BY <2>6 DEF Resume, At
    <3>3. CASE call[t].why = "late" /\ Fail(t)
      BY <1>6, <3>1, <3>2, <3>3
    <3>4. CASE ~(call[t].why = "late" /\ Fail(t))
      <4>1. /\ Goto(t, CASE call[t].why = "late" -> "empty"
                         [] call[t].why = "waits" /\ ~k'.yieldPending -> "yield"
                         [] OTHER -> "try")
            /\ UNCHANGED <<call, waited, cut>>
        BY <2>6, <3>4 DEF Resume
      <4>2. PICK p : Goto(t, p)
                 /\ ((p = "empty" /\ call[t].why = "late") \/ p \in {"yield", "try"})
        BY <4>1
      <4>3. QED
        BY <1>4, <3>1, <3>2, <4>1, <4>2
    <3>5. QED
      BY <3>3, <3>4
  <2>7. CASE CallYield(t)
    <3>1. Frees(k', k, {}, {}, 0, 0) /\ k'.aborted = k.aborted
      BY <1>1, <2>7, YieldFrees DEF CallYield
    <3>2. Goto(t, "try") /\ UNCHANGED <<call, waited, cut>>
      BY <2>7 DEF CallYield
    <3>3. QED
      BY <1>4, <3>1, <3>2
  <2>8. CASE Late(t)
    <3>1. k' = k /\ Frees(k', k, {}, {}, 0, 0) /\ pc[t] = "empty" /\ call[t].why = "late"
      BY <1>1, <1>7, <2>8, SameFrees DEF Late, At
    <3>2. k'.aborted = k.aborted
      BY <3>1
    <3>3. CASE Fail(t)
      BY <1>6, <3>1, <3>2, <3>3
    <3>4. CASE ~Fail(t)
      <4>1. PICK p \in {"try", "disinherit"} : Goto(t, p)
        BY <2>8, <3>4 DEF Late
      <4>2. UNCHANGED <<call, waited, cut>>
        BY <2>8, <3>4 DEF Late
      <4>3. QED
        BY <1>4, <3>1, <3>2, <4>1, <4>2
    <3>5. QED
      BY <3>3, <3>4
  <2>9. CASE LateDisinherit(t)
    <3>1. Frees(k', k, {}, {}, 0, 0) /\ k'.aborted = k.aborted
      BY <2>9, LateDisinheritEffect, Zenon
    <3>2. pc[t] = "disinherit" /\ Fail(t)
      BY <2>9 DEF LateDisinherit, At
    <3>3. pc[t] \in {"resume", "empty", "disinherit"} /\ call[t].why = "late"
      BY <1>7, <3>2
    <3>4. QED
      BY <1>6, <3>1, <3>2, <3>3
  <2>10. CASE AbortEnd(t)
    <3>1. /\ handle \in Tasks /\ Hand = {handle}
          /\ k'.aborted = AbortWait(k, handle).aborted
          /\ \A x \in All \ {handle} : k'.aborted[x] = k.aborted[x]
      BY <2>10, AbortEndEffect
    <3>2. PICK X : Frees(k', k, X, X, k.pendedTicks, 0)
      BY <2>10, AbortEndEffect
    <3>3. /\ cut' = IF k'.aborted[handle] THEN cut \cup {handle} ELSE cut
          /\ UNCHANGED <<call, waited>> /\ Goto(t, "app")
      BY <2>10, <3>1 DEF AbortEnd
    <3>4. handle \notin Rd(k)
      BY <1>1, <3>1 DEF Proper, Listed
    <3>5. \A x \in Tasks : /\ k'.aborted[x] => k.aborted[x] \/ (x \in cut' /\ x \notin Rd(k))
                           /\ x \in cut => x \in cut'
      BY <1>3, <3>1, <3>3, <3>4
    <3>6. Rd(k) \subseteq Rd(k')
      BY <3>2 DEF Frees
    <3>7. pc'[t] = "app"
      BY <1>3, <3>3 DEF Goto
    <3>8. LateRight(t)'
      BY <3>5, <3>7 DEF LateRight, LateInv
    <3>9. QED
      BY <1>2, <3>3, <3>5, <3>6, <3>8, LateOthers
  <2>11. QED
    BY <1>9, <2>1, <2>2, <2>3, <2>4, <2>5, <2>6, <2>7, <2>8, <2>9, <2>10 DEF Continue
<1>10. ASSUME NEW t \in Tasks, Call(t) PROVE LateInv'
  <2>1. ASSUME NEW c \in use, Begin(t, c) PROVE LateInv'
    <3>1. At(t, "app") /\ t = k.current /\ k.schedulerSuspended = 0 /\ pc[t] = "app"
      BY <2>1, Here DEF Begin, Busy
    <3>2. CASE Possible(c)
      <4>1. c \in UNION Uses /\ Succeed(t, c) /\ c.do \notin {"delay", "again"}
        BY <2>1, <3>2 DEF ListsInv, StorageInv, CallsRight, Begin
      <4>2. CallRight(c)
        BY <4>1, QueuesAssumption DEF CallRight
      <4>3. PICK X : Frees(k', k, X, X, 0, 0) /\ k'.aborted = k.aborted
        BY <3>1, <4>1, <4>2, SucceedEffect DEF FreesFirst
      <4>4. UNCHANGED <<pc, call, waited, cut>> /\ Rd(k) \subseteq Rd(k')
        BY <2>1, <3>2, <4>3 DEF Begin, Frees
      <4>5. QED
        BY <1>8, <4>3, <4>4
    <3>3. CASE ~Possible(c)
      <4>1. /\ k' = k /\ Goto(t, "block") /\ UNCHANGED cut
            /\ call' = [call EXCEPT ![t] = Locals(c)] /\ waited' = [waited EXCEPT ![t] = 0]
        BY <2>1, <3>3 DEF Begin
      <4>2. \A x \in Tasks \ {t} : call'[x] = call[x] /\ waited'[x] = waited[x]
        BY <1>3, <4>1
      <4>3. Frees(k', k, {}, {}, 0, 0) /\ k'.aborted = k.aborted
        BY <1>1, <4>1, SameFrees
      <4>4. QED
        BY <1>4, <4>1, <4>2, <4>3
    <3>4. QED
      BY <3>2, <3>3
  <2>2. ASSUME NEW c \in use, Delay(t, c) PROVE LateInv'
    <3>1. k'.aborted = k.aborted \/ k'.aborted = [k.aborted EXCEPT ![t] = FALSE]
      BY <2>2, DelayEffect
    <3>2. UNCHANGED <<pc, call, waited, cut>> /\ pc[t] = "app" /\ t \in All /\ t = k.current
      BY <1>3, <2>2 DEF Delay, At
    <3>3. \A x \in Tasks \ {t} : x \in Rd(k) => x \in Rd(k')
      BY <2>2, DelayEffect
    <3>4. \A x \in Tasks : k'.aborted[x] => k.aborted[x]
      BY <1>1, <3>1, KernelTypes DEF All
    <3>5. pc' = [pc EXCEPT ![t] = "app"]
      BY <1>3, <3>2
    <3>6. LateRight(t)'
      BY <3>2, <3>4 DEF LateRight, LateInv
    <3>7. QED
      BY <1>2, <3>2, <3>3, <3>4, <3>5, <3>6, LateOthers DEF Goto
  <2>3. ASSUME NEW c \in use, Again(t, c) PROVE LateInv'
    <3>1. UNCHANGED <<k, pc, call, waited, cut>>
      BY <2>3 DEF Again
    <3>2. QED
      BY <1>8, <3>1 DEF Rd, InReady
  <2>4. ASSUME NEW u \in Tasks, Abort(t, u) PROVE LateInv'
    <3>1. Rd(k') = Rd(k) /\ k'.aborted = k.aborted
      BY <2>4, AbortEffect
    <3>2. Goto(t, "abort") /\ UNCHANGED <<call, waited, cut>>
      BY <2>4 DEF Abort
    <3>3. pc'[t] = "abort"
      BY <1>3, <3>2 DEF Goto
    <3>4. LateRight(t)'
      BY <3>1, <3>2, <3>3 DEF LateRight, LateInv
    <3>5. QED
      BY <1>2, <3>1, <3>2, <3>4, LateOthers
  <2>5. QED
    BY <1>10, <2>1, <2>2, <2>3, <2>4 DEF Call
<1>11. ASSUME NEW h \in Handlers, SendFromISR(h) \/ ReceiveFromISR(h)
       PROVE  LateInv'
  <2>1. k'.aborted = k.aborted /\ \E R, X : Frees(k', k, R, X, 0, 0)
    BY <1>11, HandlerEffect
  <2>2. UNCHANGED <<pc, call, waited, cut>>
    BY <1>11 DEF SendFromISR, ReceiveFromISR
  <2>3. QED
    BY <1>8, <2>1, <2>2 DEF Frees
<1>12. CASE Tick
  <2> DEFINE u == SysTick(k)
  <2>1. u.aborted = k.aborted /\ \E R, n : Frees(u, k, R, R, n, 1)
    BY <1>1, TickFrees
  <2>2. k' = u /\ UNCHANGED <<pc, call, cut>>
    BY <1>12 DEF Tick
  <2> HIDE DEF u
  <2>3. \A x \in Tasks : waited'[x] \in Int /\ waited'[x] >= waited[x]
    BY <1>3, <1>12 DEF Tick
  <2>4. Rd(k) \subseteq Rd(k')
    BY <2>1, <2>2 DEF Frees
  <2>5. QED
    BY <2>1, <2>2, <2>3, <2>4, LateIdle
<1>13. CASE Switch
  <2> DEFINE u == SwitchContext(k)
  <2>1. k' = u /\ UNCHANGED <<pc, call, waited, cut>>
    BY <1>13 DEF Switch
  <2>2. u.aborted = k.aborted /\ Rd(k) \subseteq Rd(u)
    <3>1. CASE k.schedulerSuspended # 0
      <4>1. Frees(u, k, {}, {}, 0, 0) /\ u.aborted = k.aborted
        BY <1>1, <3>1, PutOffFrees
      <4> HIDE DEF u
      <4>2. QED
        BY <4>1 DEF Frees
    <3>2. CASE k.schedulerSuspended = 0
      <4>1. Rd(u) = Rd(k) /\ u.aborted = k.aborted
        BY <1>1, <3>2, SwitchProper
      <4> HIDE DEF u
      <4>2. QED
        BY <4>1
    <3>3. QED
      BY <3>1, <3>2
  <2> HIDE DEF u
  <2>3. QED
    BY <1>8, <2>1, <2>2
<1>14. CASE UNCHANGED vars
  <2>1. UNCHANGED <<k, pc, call, waited, cut>>
    BY <1>14 DEF vars
  <2>2. QED
    BY <1>8, <2>1 DEF Rd, InReady
<1>15. QED
  BY <1>9, <1>10, <1>11, <1>12, <1>13, <1>14 DEF Next, Handler

(* No call goes on at first.                                               *)
LEMMA LateInit ==
  ASSUME Init
  PROVE  OnTimeInv /\ LateInv
<1>1. PICK own \in Owns : k = Started(First, [t \in All |-> IF t = Idle THEN 0 ELSE own[t]])
  BY DEF Init
<1>2. \A t \in Tasks : pc[t] = "app"
  BY DEF Init, All
<1>3. \A t \in Tasks : ~k.aborted[t]
  BY <1>1, StartedFields DEF All
<1>4. QED
  BY <1>2, <1>3 DEF OnTimeInv, LateInv, LateRight

(* A task that waits wakes when its time is over.                          *)
LEMMA WaitsFollow ==
  ASSUME ListsInv, OnTimeInv
  PROVE  WaitsRight
<1> SUFFICES ASSUME NEW t \in Tasks, pc[t] # "app", t \in Waiting(k),
                    NEW d, d = (k.wake[t] + Ticks - k.tick) % Ticks
             PROVE  IF d > k.pendedTicks THEN waited[t] = call[t].asked - (d - k.pendedTicks)
                                         ELSE waited[t] >= call[t].asked
  BY DEF WaitsRight, Waiting, Dl, Ov
<1>1. Proper(k, Hand) /\ k \in KernelState /\ Sound(k) /\ Timely(k)
  BY DEF ListsInv, KernelRight, Proper, Sound
<1>2. pc[t] # "abort"
  BY <1>1, ReadyAwake DEF ListsInv, AtRight, Busy
<1>3. CallTyped(call[t]) /\ waited[t] \in Int
  BY <1>2, QueuesAssumption DEF ListsInv, TimesTyped
<1>4. call[t].asked \in Int /\ call[t].left \in Int
  BY <1>3, CallNumbers
<1>5. Dist(k, t) = d /\ d \in Int
  BY <1>1, DistRight, KernelAssumption
<1>6. call[t].asked # MaxDelay /\ Dist(k, t) + Ran(k, call[t], waited[t]) = call[t].left
  BY <1>2 DEF OnTimeInv, OnTime
<1>7. k.pendedTicks \in Int
  BY <1>1, KernelTypes
<1>8. QED
  BY <1>3, <1>4, <1>5, <1>6, <1>7 DEF Ran

(* The types, from what is known of each variable.                         *)
LEMMA TypesFollow ==
  ASSUME ListsInv, MutexInv
  PROVE  TypeOK
<1>1. /\ k \in KernelState /\ \A q \in Queues : queue[q] \in QueueState(q)
      /\ pc \in [All -> PCs] /\ handle \in All /\ cut \subseteq Tasks
      /\ waited \in [Tasks -> 0 .. MaxWaited]
  BY DEF ListsInv, KernelRight, Proper, Sound, StorageInv, QueuesTyped, AtRight, TimesTyped
<1>2. held \in [Tasks -> 0 .. Cardinality(Mutexes)]
  BY HeldFollows
<1>3. ASSUME NEW t \in Tasks PROVE call[t] = NoCall <=> pc[t] \in {"app", "abort"}
  <2>1. CASE pc[t] \in {"app", "abort"}
    BY <2>1 DEF ListsInv, TimesTyped
  <2>2. CASE pc[t] \notin {"app", "abort"}
    <3>1. "on" \in DOMAIN call[t]
      BY <2>2 DEF ListsInv, StorageInv, CallsRight
    <3>2. "on" \notin DOMAIN NoCall
      BY DEF NoCall
    <3>3. QED
      BY <2>2, <3>1, <3>2
  <2>3. QED
    BY <2>1, <2>2
<1>4. QED
  BY <1>1, <1>2, <1>3 DEF TypeOK

(* Only a task whose time is over, or whose wait was aborted, fails.       *)
LEMMA FailsFollow ==
  ASSUME ListsInv, LateInv, [Next]_vars,
         NEW t \in Tasks, cut' = cut \ {t}, pc[t] \in {"resume", "empty", "disinherit"},
         pc'[t] = "app"
  PROVE  Over(t)
<1>1. pc \in [All -> PCs] /\ Tasks \subseteq All
  BY DEF ListsInv, AtRight, All
<1>2. ASSUME NEW x \in Tasks, NEW p, Goto(x, p) PROVE x = t
  BY <1>1, <1>2 DEF Goto
<1>3. pc' # pc
  BY <1>1
<1>4. call[t].why = "late" => Over(t)
  BY DEF LateInv, LateRight
<1>5. pc[t] \in {"empty", "disinherit"} => call[t].why = "late"
  BY DEF LateInv, LateRight
<1>6. ASSUME NEW x \in Tasks, Continue(x) PROVE call[t].why = "late"
  <2>1. PICK p : Goto(x, p)
    BY <1>6 DEF Continue, Retry, Block, Lock, Check, UnlockTx, UnlockRx, Resume, CallYield,
                Late, LateDisinherit, AbortEnd, Fail
  <2>2. x = t
    BY <1>2, <2>1
  <2>3. CASE pc[t] = "resume"
    <3>1. Resume(t)
      BY <1>6, <2>2, <2>3 DEF Continue, Retry, Block, Lock, Check, UnlockTx, UnlockRx,
                              CallYield, Late, LateDisinherit, AbortEnd, At
    <3>2. CASE ~(call[t].why = "late" /\ call[t].do = "send")
      <4>1. \E y \in {"empty", "yield", "try"} : Goto(t, y)
        BY <3>1, <3>2 DEF Resume
      <4>2. QED
        BY <1>1, <4>1 DEF Goto
    <3>3. QED
      BY <3>2
  <2>4. QED
    BY <1>5, <2>3
<1>7. ASSUME NEW x \in Tasks, Call(x) PROVE FALSE
  <2>1. pc[x] = "app"
    BY <1>7 DEF Call, Begin, Delay, Again, Abort, At
  <2>2. \E p : Goto(x, p)
    BY <1>3, <1>7 DEF Call, Begin, Delay, Again, Abort
  <2>3. QED
    BY <1>2, <2>1, <2>2
<1>8. ~Handler /\ ~Tick /\ ~Switch /\ ~UNCHANGED vars
  BY <1>3 DEF Handler, SendFromISR, ReceiveFromISR, Tick, Switch, vars
<1>9. QED
  BY <1>4, <1>6, <1>7, <1>8 DEF Next

(* What every state satisfies, where no call is held up by a round of the  *)
(* tick count beyond its time.                                             *)
THEOREM QueuesInv == MaxWaited < Ticks => (Spec => []Inv)
<1>1. SUFFICES ASSUME MaxWaited < Ticks PROVE Spec => []Inv
  OBVIOUS
<1>2. Init => ListsInv /\ MutexInv /\ OnTimeInv /\ LateInv
  BY ListsInit, MutexInit, LateInit
<1>3. ListsInv /\ MutexInv /\ OnTimeInv /\ [Next]_vars => ListsInv' /\ MutexInv' /\ OnTimeInv'
  BY <1>1, ListsStep, MutexStep, OnTimeStep
<1>4. ListsInv /\ MutexInv /\ OnTimeInv => Inv
  BY ListsFollow, TypesFollow, WaitsFollow, HeldFollows DEF Inv
<1>5. QED
  BY <1>2, <1>3, <1>4, PTL DEF Spec

(* A call fails only when all the ticks that it asked for have passed, or  *)
(* because somebody aborted it.                                            *)
THEOREM QueuesFailInTime == MaxWaited < Ticks => (Spec => FailsInTime)
<1>1. SUFFICES ASSUME MaxWaited < Ticks PROVE Spec => FailsInTime
  OBVIOUS
<1>2. Init => ListsInv /\ OnTimeInv /\ LateInv
  BY ListsInit, LateInit
<1>3. ListsInv /\ OnTimeInv /\ LateInv /\ [Next]_vars => ListsInv' /\ OnTimeInv' /\ LateInv'
  BY <1>1, ListsStep, OnTimeStep, LateStep
<1>4. ListsInv /\ LateInv /\ [Next]_vars =>
        [\A t \in Tasks :
           call[t] # NoCall /\ cut' = cut \ {t} /\ pc[t] \in {"resume", "empty", "disinherit"}
             /\ pc'[t] = "app"
           => t \in cut \/ (call[t].asked # MaxDelay /\ waited[t] >= call[t].asked)]_vars
  BY FailsFollow DEF Over
<1>5. QED
  BY <1>2, <1>3, <1>4, PTL DEF Spec, FailsInTime

-----------------------------------------------------------------------------
(* No wake-up is lost.                                                     *)

(* Those that put themselves into l and have not looked yet why they are   *)
(* out of it, if they are.                                                 *)
Lookers(l) ==
  {t \in Tasks : /\ pc[t] \in {"unlockTx", "unlockRx", "resume", "yield", "try"}
                 /\ WaitList(call[t]) = l /\ call[t].why = "waits"}

(* Nobody else is in l.                                                    *)
WaitersRight == \A l \in EventLists : Ev(k, l) \subseteq Lookers(l)

(* What handlers have counted while a queue is locked.                     *)
Noted(l) == IF Locked(l) THEN l ELSE 0

(* The items of q that nobody is on the way to, and its places, ...        *)
ItemsServed(q) ==
  LET l == ReceiveList(q)
  IN  Ev(k, l) # {} => queue[q].waiting <= Cardinality(Woken(l)) + Noted(queue[q].txLock)

PlacesServed(q) ==
  LET l == SendList(q)
  IN  Ev(k, l) # {} =>
        Length[q] - queue[q].waiting <= Cardinality(Woken(l)) + Noted(queue[q].rxLock)

(* ... are none while somebody waits for them.                             *)
WakesInv == WaitersRight /\ \A q \in Queues : ItemsServed(q) /\ PlacesServed(q)

(* A queue that is emptied while senders wait has as many places as it had *)
(* items, and one sender is woken for all of them.                         *)
ResetsSmall == \A c \in UNION Uses : c.do = "reset" => Length[c.on] = 1

(* The tasks are as many as vTaskStartScheduler was told of.               *)
LEMMA FiniteTasks == IsFiniteSet(Tasks)
<1>1. First \in Seq(Tasks) /\ ToSet(First) = Tasks /\ IsInjective(First)
  BY QueuesAssumption
<1>2. QED
  BY <1>1, CountMembers

(* Those who are on the way are finitely many.                             *)
LEMMA FiniteWoken ==
  ASSUME NEW l
  PROVE  /\ IsFiniteSet(Woken(l)) /\ Cardinality(Woken(l)) \in Nat
         /\ IsFiniteSet(Woken(l)') /\ Cardinality(Woken(l)') \in Nat
<1>1. Woken(l) \subseteq Tasks /\ Woken(l)' \subseteq Tasks
  BY DEF Woken
<1>2. QED
  BY <1>1, FiniteTasks, FS_Subset, FS_CardinalityType

(* On the way is who put itself into a list and is out of it.              *)
LEMMA WokenLookers ==
  ASSUME NEW l
  PROVE  Woken(l) = Lookers(l) \ Ev(k, l) /\ Woken(l)' = Lookers(l)' \ Ev(k', l)
  BY DEF Woken, Lookers, Ev

(* How many are in a set of which one at most is missing and to which some *)
(* others have come.                                                       *)
LEMMA Counted ==
  ASSUME NEW W, NEW V, NEW X, NEW t, IsFiniteSet(W), IsFiniteSet(V), W \cap X = {}, t \notin X,
         X \subseteq V, W \ {t} \subseteq V
  PROVE  /\ Cardinality(W) \in Nat /\ Cardinality(V) \in Nat /\ Cardinality(X) \in Nat
         /\ Cardinality(V) >= Cardinality(W) - 1 + Cardinality(X)
         /\ Cardinality(V) >= Cardinality(X)
         /\ t \notin W => Cardinality(V) >= Cardinality(W) + Cardinality(X)
<1> DEFINE D == W \ {t}
<1>1. IsFiniteSet(D) /\ IsFiniteSet(X)
  BY FS_Subset
<1>2. /\ Cardinality(W) \in Nat /\ Cardinality(V) \in Nat /\ Cardinality(X) \in Nat
      /\ Cardinality(D) \in Nat
  BY <1>1, FS_CardinalityType
<1>3. Cardinality(D) = IF t \in W THEN Cardinality(W) - 1 ELSE Cardinality(W)
  BY FS_RemoveElement
<1>4. D \cap X = {} /\ Cardinality(D \cap X) = 0
  BY FS_EmptySet
<1>5. Cardinality(D \cup X) = Cardinality(D) + Cardinality(X)
  <2> HIDE DEF D
  <2>1. Cardinality(D \cup X) = Cardinality(D) + Cardinality(X) - Cardinality(D \cap X)
    BY <1>1, FS_Union
  <2>2. QED
    BY <1>2, <1>4, <2>1
<1>6. D \cup X \subseteq V
  OBVIOUS
<1>7. Cardinality(D \cup X) <= Cardinality(V)
  BY <1>6, FS_Subset
<1>8. Cardinality(X) <= Cardinality(V)
  BY FS_Subset
<1> HIDE DEF D
<1>9. QED
  BY <1>2, <1>3, <1>5, <1>7, <1>8

(* Those of X are woken out of l, and t has looked.                        *)
LEMMA WokenCount ==
  ASSUME WaitersRight, NEW l \in EventLists, NEW X, Ev(k', l) = Ev(k, l) \ X,
         NEW t, t \notin Ev(k, l), Lookers(l)' = Lookers(l) \ {t}
  PROVE  LET n == Cardinality(X \cap Ev(k, l))
         IN  /\ n \in Nat /\ Cardinality(Woken(l)) \in Nat /\ Cardinality(Woken(l)') \in Nat
             /\ Cardinality(Woken(l)') >= Cardinality(Woken(l)) - 1 + n
             /\ Cardinality(Woken(l)') >= n
             /\ t \notin Lookers(l) => Cardinality(Woken(l)') >= Cardinality(Woken(l)) + n
<1> DEFINE Y == X \cap Ev(k, l)
           W == Woken(l)
           V == Woken(l)'
<1>1. W = Lookers(l) \ Ev(k, l) /\ V = Lookers(l)' \ Ev(k', l)
  BY WokenLookers
<1>2. IsFiniteSet(W) /\ IsFiniteSet(V)
  BY FiniteWoken
<1>3. Ev(k, l) \subseteq Lookers(l)
  BY DEF WaitersRight
<1>4. W \cap Y = {} /\ t \notin Y
  BY <1>1
<1>5. Y \subseteq V /\ W \ {t} \subseteq V
  BY <1>1, <1>3
<1>6. t \notin Lookers(l) => t \notin W
  BY <1>1
<1> HIDE DEF Y, W, V
<1>7. /\ Cardinality(W) \in Nat /\ Cardinality(V) \in Nat /\ Cardinality(Y) \in Nat
      /\ Cardinality(V) >= Cardinality(W) - 1 + Cardinality(Y)
      /\ Cardinality(V) >= Cardinality(Y)
      /\ t \notin W => Cardinality(V) >= Cardinality(W) + Cardinality(Y)
  BY <1>2, <1>4, <1>5, Counted
<1>8. QED
  BY <1>6, <1>7 DEF Y, W, V

(* Nobody who has been woken looks: where the queues are as they were, all *)
(* are served as they were.                                                *)
LEMMA WakesKept ==
  ASSUME WakesInv,
         \A l \in EventLists : Lookers(l)' = Lookers(l) /\ Ev(k', l) \subseteq Ev(k, l),
         QueuesTyped, QueuesTyped',
         \A q \in Queues : /\ queue'[q].waiting = queue[q].waiting
                           /\ Noted(queue'[q].txLock) = Noted(queue[q].txLock)
                           /\ Noted(queue'[q].rxLock) = Noted(queue[q].rxLock)
  PROVE  WakesInv'
<1>1. ASSUME NEW l \in EventLists
      PROVE  /\ Cardinality(Woken(l)) \in Nat /\ Cardinality(Woken(l)') \in Nat
             /\ Cardinality(Woken(l)') >= Cardinality(Woken(l))
  <2>1. Woken(l) \subseteq Woken(l)'
    BY WokenLookers
  <2>2. QED
    BY <2>1, FiniteWoken, FS_Subset
<1>2. \A l \in EventLists : Ev(k', l) \subseteq Lookers(l)'
  BY DEF WakesInv, WaitersRight
<1>3. ASSUME NEW q \in Queues
      PROVE  ItemsServed(q)' /\ PlacesServed(q)'
  <2>1. SendList(q) \in EventLists /\ ReceiveList(q) \in EventLists
    BY OwnLists
  <2>2. ItemsServed(q) /\ PlacesServed(q)
    BY DEF WakesInv
  <2>3. /\ queue[q].waiting \in Int /\ Length[q] \in Int
        /\ Noted(queue[q].txLock) \in Int /\ Noted(queue[q].rxLock) \in Int
    BY LengthType DEF QueuesTyped, QueueState, Noted
  <2>4. ItemsServed(q)'
    <3> DEFINE l == ReceiveList(q)
    <3>1. Cardinality(Woken(l)) \in Nat /\ Cardinality(Woken(l)') \in Nat
          /\ Cardinality(Woken(l)') >= Cardinality(Woken(l))
      BY <1>1, <2>1
    <3>2. Ev(k', l) # {} => Ev(k, l) # {}
      BY <2>1
    <3>3. Ev(k, l) # {} =>
            queue[q].waiting <= Cardinality(Woken(l)) + Noted(queue[q].txLock)
      BY <2>2 DEF ItemsServed
    <3>4. Ev(k', l) # {} =>
            queue'[q].waiting <= Cardinality(Woken(l)') + Noted(queue'[q].txLock)
      BY <2>3, <3>1, <3>2, <3>3
    <3>5. QED
      BY <3>4 DEF ItemsServed, Ev
  <2>5. PlacesServed(q)'
    BY <1>1, <2>1, <2>2, <2>3 DEF PlacesServed, Ev, SendList
  <2>6. QED
    BY <2>4, <2>5
<1>4. QED
  BY <1>2, <1>3 DEF WakesInv, WaitersRight, ItemsServed, PlacesServed, Ev

(* A ready task waits for nothing.                                         *)
LEMMA ReadyOut ==
  ASSUME NEW kk, NEW H, Proper(kk, H), NEW t, t \in Rd(kk), NEW l \in Events
  PROVE  t \notin Ev(kk, l)
  BY DEF Proper, Sound, Apart, Waiting, Listed

(* Of what there was for those in l, and what there is after a step, one   *)
(* is for everybody who is woken, and one is what t has come for.          *)
LEMMA ListServed ==
  ASSUME WaitersRight, NEW l \in EventLists, NEW X, Ev(k', l) = Ev(k, l) \ X,
         NEW t, t \notin Ev(k, l), Lookers(l)' = Lookers(l) \ {t},
         NEW a \in Int, NEW b \in Int,
         Ev(k, l) # {} => a <= Cardinality(Woken(l)),
         Ev(k', l) # {} =>
           \/ b <= Cardinality(X \cap Ev(k, l))
           \/ b <= a + Cardinality(X \cap Ev(k, l)) - (IF t \in Lookers(l) THEN 1 ELSE 0)
  PROVE  Ev(k', l) # {} => b <= Cardinality(Woken(l)')
<1> DEFINE n == Cardinality(X \cap Ev(k, l))
           A == Cardinality(Woken(l))
           B == Cardinality(Woken(l)')
<1>1. /\ n \in Nat /\ A \in Nat /\ B \in Nat /\ B >= A - 1 + n /\ B >= n
      /\ t \notin Lookers(l) => B >= A + n
  BY WokenCount
<1>2. ASSUME Ev(k', l) # {}
      PROVE  a <= A /\ (b <= n \/ b <= a + n - (IF t \in Lookers(l) THEN 1 ELSE 0))
  BY <1>2
<1> HIDE DEF n, A, B
<1>3. ASSUME Ev(k', l) # {} PROVE b <= B
  BY <1>1, <1>2, <1>3
<1>4. QED
  BY <1>3 DEF B

(* How many items a call that need not wait leaves.                        *)
LEMMA SucceedCount ==
  ASSUME QueuesTyped, NEW t, NEW c, CallRight(c), Succeed(t, c)
  PROVE  LET q == c.on
         IN  /\ \A p \in Queues \ {q} : queue'[p] = queue[p]
             /\ queue[q].waiting \in 0 .. Length[q] /\ Length[q] \in Nat
             /\ c.do = "send" => \/ queue'[q].waiting = queue[q].waiting + 1
                                 \/ queue'[q].waiting = queue[q].waiting /\ Full(q)
             /\ c.do = "receive" => queue'[q].waiting = queue[q].waiting - 1
             /\ c.do = "peek" => queue'[q].waiting = queue[q].waiting
             /\ c.do = "reset" => queue'[q].waiting = 0
<1> DEFINE q == c.on
<1>1. /\ DOMAIN queue = Queues /\ q \in Queues /\ queue[q] \in QueueState(q)
      /\ Length[q] \in Nat \ {0} /\ (q \in Mutexes => Length[q] = 1)
  BY LengthType DEF QueuesTyped, CallRight
<1>2. queue[q].waiting \in 0 .. Length[q]
  BY <1>1 DEF QueueState
<1>3. CASE Reset(t, c)
  BY <1>1, <1>2, <1>3 DEF Reset, Fresh
<1>4. CASE Send(t, c)
  <2>1. queue' = [queue EXCEPT ![q] = CopyTo(q, c.item, c.pos)]
    BY <1>4 DEF Send
  <2>2. queue'[q] = CopyTo(q, c.item, c.pos) /\ \A p \in Queues \ {q} : queue'[p] = queue[p]
    BY <1>1, <2>1
  <2>3. CopyTo(q, c.item, c.pos).waiting =
          IF c.pos = "overwrite" /\ queue[q].waiting > 0 THEN queue[q].waiting
                                                       ELSE queue[q].waiting + 1
    BY <1>1 DEF CopyTo, QueueState
  <2>4. c.pos = "overwrite" /\ queue[q].waiting > 0 => Full(q)
    BY <1>1, <1>2 DEF CallRight, Full
  <2>5. c.do = "send"
    BY <1>4 DEF Send
  <2>6. QED
    BY <1>1, <1>2, <2>2, <2>3, <2>4, <2>5
<1>5. CASE Give(t, c)
  BY <1>1, <1>2, <1>5 DEF Give, Empty, QueueState
<1>6. CASE Receive(t, c)
  <2>1. c.do = "receive" /\ queue[q].waiting # 0
    BY <1>6 DEF Receive, Empty
  <2>2. CASE q \in Mutexes
    <3>1. queue'[q].waiting = 0 /\ \A p \in Queues \ {q} : queue'[p] = queue[p]
      BY <1>1, <1>6, <2>2 DEF Receive, QueueState
    <3>2. QED
      BY <1>1, <1>2, <2>1, <2>2, <3>1
  <2>3. CASE q \notin Mutexes
    <3>1. queue'[q] = CopyFrom(q) /\ \A p \in Queues \ {q} : queue'[p] = queue[p]
      BY <1>1, <1>6, <2>3 DEF Receive
    <3>2. CopyFrom(q).waiting = queue[q].waiting - 1
      BY <1>1 DEF CopyFrom, QueueState
    <3>3. QED
      BY <1>1, <1>2, <2>1, <3>1, <3>2
  <2>4. QED
    BY <2>2, <2>3
<1>7. CASE Peek(t, c)
  BY <1>1, <1>2, <1>7 DEF Peek
<1>8. QED
  BY <1>3, <1>4, <1>5, <1>6, <1>7 DEF Succeed

(* A call that need not wait, by t, who may have come out of a list for it.*)
LEMMA SucceedWakes ==
  ASSUME ListsInv, WakesInv, NEW t \in Tasks, t = k.current, t \in Rd(k),
         k.schedulerSuspended = 0, AllOpen, NEW c, CallRight(c), Succeed(t, c),
         c.do = "reset" => Length[c.on] = 1,
         \A l \in EventLists : /\ Lookers(l)' = Lookers(l) \ {t}
                               /\ t \in Lookers(l) => l = WaitList(c)
  PROVE  WakesInv'
<1> DEFINE q == c.on
           rx == ReceiveList(q)
           tx == SendList(q)
<1>1. PICK X : FreesFirst(k', k, FreeList(c), X)
  BY SucceedEffect
<1>2. /\ \A l \in EventLists : Ev(k', l) = Ev(k, l) \ X
      /\ X \subseteq Ev(k, FreeList(c)) /\ (Ev(k, FreeList(c)) # {} => \E x : X = {x})
  BY <1>1 DEF FreesFirst, Frees
<1>3. \A l \in EventLists : t \notin Ev(k, l)
  BY ReadyOut DEF ListsInv, KernelRight, Events
<1>4. /\ \A p \in Queues \ {q} : queue'[p] = queue[p]
      /\ queue[q].waiting \in 0 .. Length[q] /\ Length[q] \in Nat
      /\ c.do = "send" => \/ queue'[q].waiting = queue[q].waiting + 1
                          \/ queue'[q].waiting = queue[q].waiting /\ Full(q)
      /\ c.do = "receive" => queue'[q].waiting = queue[q].waiting - 1
      /\ c.do = "peek" => queue'[q].waiting = queue[q].waiting
      /\ c.do = "reset" => queue'[q].waiting = 0
  BY SucceedCount DEF ListsInv, StorageInv
<1>5. AllOpen'
  BY SucceedUnlocked DEF AllOpen
<1>6. q \in Queues /\ c.do \in {"send", "receive", "peek", "reset"}
  BY DEF CallRight
<1>7. /\ WaitersRight /\ \A p \in Queues : ItemsServed(p) /\ PlacesServed(p)
      /\ QueuesTyped
  BY DEF WakesInv, ListsInv, StorageInv
<1>8. \A p \in Queues : /\ Noted(queue[p].txLock) = 0 /\ Noted(queue[p].rxLock) = 0
                        /\ Noted(queue'[p].txLock) = 0 /\ Noted(queue'[p].rxLock) = 0
  BY <1>5 DEF AllOpen, Noted, Locked
<1>9. ASSUME NEW l \in EventLists, l # FreeList(c)
      PROVE  X \cap Ev(k, l) = {} /\ Cardinality(X \cap Ev(k, l)) = 0
  <2>1. FreeList(c) \in EventLists
    BY <1>6, OwnLists DEF FreeList
  <2>2. Ev(k, l) \cap Ev(k, FreeList(c)) = {}
    BY <1>9, <2>1 DEF ListsInv, KernelRight, Proper, Sound, Events
  <2>3. QED
    BY <1>2, <2>2, FS_EmptySet
<1>10. ASSUME Ev(k', FreeList(c)) # {}
       PROVE  Cardinality(X \cap Ev(k, FreeList(c))) = 1
  <2>1. FreeList(c) \in EventLists
    BY <1>6, OwnLists DEF FreeList
  <2>2. PICK x : X = {x}
    BY <1>2, <1>10, <2>1
  <2>3. X \cap Ev(k, FreeList(c)) = {x}
    BY <1>2, <2>2
  <2>4. QED
    BY <2>3, FS_Singleton
<1>11. ASSUME NEW p \in Queues, p # q
       PROVE  ItemsServed(p)' /\ PlacesServed(p)'
  <2>1. SendList(p) # FreeList(c) /\ ReceiveList(p) # FreeList(c)
        /\ SendList(p) # WaitList(c) /\ ReceiveList(p) # WaitList(c)
    BY <1>11 DEF SendList, ReceiveList, FreeList, WaitList
  <2>2. SendList(p) \in EventLists /\ ReceiveList(p) \in EventLists
    BY OwnLists
  <2>3. queue'[p] = queue[p] /\ queue[p].waiting \in Int /\ Length[p] \in Int
    BY <1>4, <1>7, <1>11, LengthType DEF QueuesTyped, QueueState
  <2>4. ItemsServed(p)'
    <3> DEFINE l == ReceiveList(p)
               a == queue[p].waiting
    <3>1. Ev(k, l) # {} => a <= Cardinality(Woken(l))
      BY <1>7, <1>8, <2>3, <2>2, FiniteWoken DEF ItemsServed
    <3>2. t \notin Lookers(l) /\ Cardinality(X \cap Ev(k, l)) = 0 /\ a \in Int
      BY <1>9, <2>1, <2>2, <2>3
    <3>3. a <= a + Cardinality(X \cap Ev(k, l)) - (IF t \in Lookers(l) THEN 1 ELSE 0)
      BY <3>2
    <3>4. /\ l \in EventLists /\ Ev(k', l) = Ev(k, l) \ X /\ t \notin Ev(k, l)
          /\ Lookers(l)' = Lookers(l) \ {t}
      BY <1>2, <1>3, <2>2
    <3> HIDE DEF l, a
    <3>5. Ev(k', l) # {} => a <= Cardinality(Woken(l)')
      BY <1>7, <3>1, <3>2, <3>3, <3>4, ListServed
    <3>6. QED
      BY <1>8, <2>3, <3>5, FiniteWoken DEF ItemsServed, Ev, l, a
  <2>5. PlacesServed(p)'
    <3> DEFINE l == SendList(p)
               a == Length[p] - queue[p].waiting
    <3>1. Ev(k, l) # {} => a <= Cardinality(Woken(l))
      BY <1>7, <1>8, <2>3, <2>2, FiniteWoken DEF PlacesServed
    <3>2. t \notin Lookers(l) /\ Cardinality(X \cap Ev(k, l)) = 0 /\ a \in Int
      BY <1>9, <2>1, <2>2, <2>3
    <3> HIDE DEF a
    <3>3. a <= a + Cardinality(X \cap Ev(k, l)) - (IF t \in Lookers(l) THEN 1 ELSE 0)
      BY <3>2
    <3>4. /\ l \in EventLists /\ Ev(k', l) = Ev(k, l) \ X /\ t \notin Ev(k, l)
          /\ Lookers(l)' = Lookers(l) \ {t}
      BY <1>2, <1>3, <2>2
    <3> HIDE DEF l
    <3>5. Ev(k', l) # {} => a <= Cardinality(Woken(l)')
      BY <1>7, <3>1, <3>2, <3>3, <3>4, ListServed
    <3>6. QED
      BY <1>8, <2>3, <3>5, FiniteWoken DEF PlacesServed, Ev, l, a
  <2>6. QED
    BY <2>4, <2>5
<1>12. rx \in EventLists /\ tx \in EventLists /\ rx # tx
  BY <1>6, OwnLists DEF SendList, ReceiveList
<1>13. queue[q].waiting \in Int /\ queue'[q].waiting \in Int /\ Length[q] \in Int
  BY <1>4, <1>6
<1>14. ItemsServed(q)'
  <2> DEFINE a == queue[q].waiting
             b == queue'[q].waiting
             n == Cardinality(X \cap Ev(k, rx))
             s == IF t \in Lookers(rx) THEN 1 ELSE 0
  <2>1. Ev(k, rx) # {} => a <= Cardinality(Woken(rx))
    BY <1>6, <1>7, <1>8, <1>13, FiniteWoken DEF ItemsServed
  <2>2. ASSUME Ev(k', rx) # {} PROVE b <= n \/ b <= a + n - s
    <3>1. CASE c.do \in {"send", "peek"}
      <4>1. n = 1
        BY <1>10, <2>2, <3>1 DEF FreeList
      <4>2. c.do = "send" => s = 0
        BY <1>12, <3>1 DEF WaitList
      <4>3. s \in {0, 1} /\ (c.do = "peek" => b = a) /\ (c.do = "send" => b <= a + 1)
        BY <1>4, <1>13, <3>1
      <4> HIDE DEF n, s, a, b
      <4>4. QED
        BY <1>13, <3>1, <4>1, <4>2, <4>3 DEF a, b
    <3>2. CASE c.do \in {"receive", "reset"}
      <4>1. n = 0
        BY <1>9, <1>12, <3>2 DEF FreeList
      <4>2. s \in {0, 1} /\ (c.do = "receive" => b = a - 1) /\ (c.do = "reset" => b = 0)
        BY <1>4, <3>2
      <4> HIDE DEF n, s, a, b
      <4>3. QED
        BY <1>13, <3>2, <4>1, <4>2 DEF a, b
    <3>3. QED
      BY <1>6, <3>1, <3>2
  <2>3. /\ a \in Int /\ b \in Int /\ Ev(k', rx) = Ev(k, rx) \ X /\ t \notin Ev(k, rx)
        /\ Lookers(rx)' = Lookers(rx) \ {t}
    BY <1>2, <1>3, <1>12, <1>13
  <2> HIDE DEF a, b, rx
  <2>4. Ev(k', rx) # {} => b <= Cardinality(Woken(rx)')
    BY <1>7, <1>12, <2>1, <2>2, <2>3, ListServed
  <2>5. QED
    BY <1>6, <1>8, <1>13, <2>4, FiniteWoken DEF ItemsServed, Ev, rx, b
<1>15. PlacesServed(q)'
  <2> DEFINE a == Length[q] - queue[q].waiting
             b == Length[q] - queue'[q].waiting
             n == Cardinality(X \cap Ev(k, tx))
             s == IF t \in Lookers(tx) THEN 1 ELSE 0
  <2>1. Ev(k, tx) # {} => a <= Cardinality(Woken(tx))
    BY <1>6, <1>7, <1>8, <1>13, FiniteWoken DEF PlacesServed
  <2>2. ASSUME Ev(k', tx) # {} PROVE b <= n \/ b <= a + n - s
    <3>1. CASE c.do \in {"send", "peek"}
      <4>1. n = 0
        BY <1>9, <1>12, <3>1 DEF FreeList
      <4>2. c.do = "peek" => s = 0
        BY <1>12, <3>1 DEF WaitList
      <4>3. s \in {0, 1} /\ (c.do = "peek" => b = a) /\ (c.do = "send" => b = a - 1 \/ b = 0)
        BY <1>4, <1>13, <3>1 DEF Full
      <4>4. a \in Int /\ b \in Int
        BY <1>13
      <4> HIDE DEF n, s, a, b
      <4>5. QED
        BY <3>1, <4>1, <4>2, <4>3, <4>4
    <3>2. CASE c.do \in {"receive", "reset"}
      <4>1. n = 1
        BY <1>10, <2>2, <3>2 DEF FreeList
      <4>2. s = 0
        BY <1>12, <3>2 DEF WaitList
      <4>3. (c.do = "receive" => b = a + 1) /\ (c.do = "reset" => b = 1)
        BY <1>4, <1>13, <3>2
      <4>4. a \in Int /\ b \in Int
        BY <1>13
      <4> HIDE DEF n, s, a, b
      <4>5. QED
        BY <3>2, <4>1, <4>2, <4>3, <4>4
    <3>3. QED
      BY <1>6, <3>1, <3>2
  <2>3. /\ a \in Int /\ b \in Int /\ Ev(k', tx) = Ev(k, tx) \ X /\ t \notin Ev(k, tx)
        /\ Lookers(tx)' = Lookers(tx) \ {t}
    BY <1>2, <1>3, <1>12, <1>13
  <2> HIDE DEF a, b, tx
  <2>4. Ev(k', tx) # {} => b <= Cardinality(Woken(tx)')
    BY <1>7, <1>12, <2>1, <2>2, <2>3, ListServed
  <2>5. QED
    BY <1>6, <1>8, <1>13, <2>4, FiniteWoken DEF PlacesServed, Ev, tx, b
<1>16. WaitersRight'
  <2>1. \A l \in EventLists : Ev(k', l) \subseteq Lookers(l)'
    BY <1>2, <1>3, <1>7 DEF WaitersRight
  <2>2. QED
    BY <2>1 DEF WaitersRight, Ev
<1> HIDE DEF q
<1>17. QED
  <2>1. \A p \in Queues : ItemsServed(p)' /\ PlacesServed(p)'
    BY <1>11, <1>14, <1>15
  <2>2. QED
    BY <1>16, <2>1 DEF WakesInv

(* How many items a handler leaves, and what it notes for a locked queue.  *)
LEMMA HandlerCount ==
  ASSUME QueuesTyped, NEW h \in Handlers, SendFromISR(h) \/ ReceiveFromISR(h)
  PROVE  LET q == h.on
             s == queue[q]
             r == queue'[q]
         IN  /\ q \in Queues /\ \A p \in Queues \ {q} : queue'[p] = queue[p]
             /\ s.waiting \in 0 .. Length[q] /\ Length[q] \in Nat
             /\ s.txLock \in Int /\ s.txLock >= -1 /\ s.rxLock \in Int /\ s.rxLock >= -1
             /\ h.do \in {"send", "receive"}
             /\ h.do = "send" =>
                  /\ \/ r.waiting = s.waiting + 1
                     \/ r.waiting = s.waiting /\ s.waiting = Length[q]
                  /\ r.txLock = IF s.txLock # -1 THEN s.txLock + 1 ELSE -1
                  /\ r.rxLock = s.rxLock
             /\ h.do = "receive" =>
                  /\ r.waiting = s.waiting - 1
                  /\ r.rxLock = IF s.rxLock # -1 THEN s.rxLock + 1 ELSE -1
                  /\ r.txLock = s.txLock
<1> DEFINE q == h.on
<1>1. /\ q \in Queues /\ DOMAIN queue = Queues /\ queue[q] \in QueueState(q)
      /\ Length[q] \in Nat \ {0} /\ (h.pos = "overwrite" => Length[q] = 1)
      /\ h.do \in {"send", "receive"}
  BY QueuesAssumption, LengthType DEF QueuesTyped
<1>2. /\ queue[q].waiting \in 0 .. Length[q]
      /\ queue[q].txLock \in -1 .. Length[q] /\ queue[q].rxLock \in -1 .. Length[q]
  BY <1>1 DEF QueueState
<1>3. CASE SendFromISR(h)
  <2> DEFINE r == [CopyTo(q, h.item, h.pos) EXCEPT !.txLock = IF Locked(@) THEN @ + 1 ELSE @]
  <2>1. h.do = "send" /\ queue' = [queue EXCEPT ![q] = r]
    BY <1>3 DEF SendFromISR
  <2>2. r.waiting = IF h.pos = "overwrite" /\ queue[q].waiting > 0 THEN queue[q].waiting
                                                             ELSE queue[q].waiting + 1
    BY <1>1 DEF CopyTo, QueueState
  <2>3. r.txLock = (IF Locked(queue[q].txLock) THEN queue[q].txLock + 1 ELSE queue[q].txLock)
        /\ r.rxLock = queue[q].rxLock
    BY <1>1 DEF CopyTo, QueueState
  <2> HIDE DEF r
  <2>4. queue'[q] = r /\ \A p \in Queues \ {q} : queue'[p] = queue[p]
    BY <1>1, <2>1
  <2>5. \/ r.waiting = queue[q].waiting + 1
        \/ r.waiting = queue[q].waiting /\ queue[q].waiting = Length[q]
    BY <1>1, <1>2, <2>2
  <2>6. r.txLock = IF queue[q].txLock # -1 THEN queue[q].txLock + 1 ELSE -1
    BY <2>3 DEF Locked
  <2>7. QED
    BY <1>1, <1>2, <2>1, <2>3, <2>4, <2>5, <2>6
<1>4. CASE ReceiveFromISR(h)
  <2> DEFINE r == [CopyFrom(q) EXCEPT !.rxLock = IF Locked(@) THEN @ + 1 ELSE @]
  <2>1. h.do = "receive" /\ queue' = [queue EXCEPT ![q] = r]
    BY <1>4 DEF ReceiveFromISR
  <2>2. r.waiting = queue[q].waiting - 1
    BY <1>1 DEF CopyFrom, QueueState
  <2>3. r.rxLock = (IF Locked(queue[q].rxLock) THEN queue[q].rxLock + 1 ELSE queue[q].rxLock)
        /\ r.txLock = queue[q].txLock
    BY <1>1 DEF CopyFrom, QueueState
  <2> HIDE DEF r
  <2>4. queue'[q] = r /\ \A p \in Queues \ {q} : queue'[p] = queue[p]
    BY <1>1, <2>1
  <2>5. r.rxLock = IF queue[q].rxLock # -1 THEN queue[q].rxLock + 1 ELSE -1
    BY <2>3 DEF Locked
  <2>6. QED
    BY <1>1, <1>2, <2>1, <2>2, <2>3, <2>4, <2>5
<1>5. QED
  BY <1>3, <1>4

(* The tasks do nothing, and those of X are woken: every list is served    *)
(* that is served by as many as there is more for it.                      *)
LEMMA QueuesServed ==
  ASSUME WakesInv, QueuesTyped, QueuesTyped',
         NEW X, \A l \in EventLists : Lookers(l)' = Lookers(l) /\ Ev(k', l) = Ev(k, l) \ X,
         \A q \in Queues :
           LET rx == ReceiveList(q)
               tx == SendList(q)
               s == queue[q]
               r == queue'[q]
           IN  /\ Ev(k', rx) # {} => r.waiting - Noted(r.txLock) <=
                    s.waiting - Noted(s.txLock) + Cardinality(X \cap Ev(k, rx))
               /\ Ev(k', tx) # {} => s.waiting - r.waiting - Noted(r.rxLock) <=
                    Cardinality(X \cap Ev(k, tx)) - Noted(s.rxLock)
  PROVE  WakesInv'
<1>1. WaitersRight /\ \A q \in Queues : ItemsServed(q) /\ PlacesServed(q)
  BY DEF WakesInv
<1>2. ASSUME NEW l \in EventLists PROVE Idle \notin Lookers(l) /\ Idle \notin Ev(k, l)
  BY <1>1, KernelAssumption DEF Lookers, WaitersRight
<1>3. ASSUME NEW q \in Queues PROVE ItemsServed(q)' /\ PlacesServed(q)'
  <2> DEFINE s == queue[q]
             r == queue'[q]
  <2>1. /\ s.waiting \in Int /\ Noted(s.txLock) \in Int /\ Noted(s.rxLock) \in Int
        /\ r.waiting \in Int /\ Noted(r.txLock) \in Int /\ Noted(r.rxLock) \in Int
        /\ Length[q] \in Int
    BY LengthType DEF QueuesTyped, QueueState, Noted
  <2>2. SendList(q) \in EventLists /\ ReceiveList(q) \in EventLists
    BY OwnLists
  <2>3. ItemsServed(q)'
    <3> DEFINE l == ReceiveList(q)
               a == s.waiting - Noted(s.txLock)
               b == r.waiting - Noted(r.txLock)
               n == Cardinality(X \cap Ev(k, l))
    <3>1. a \in Int /\ b \in Int /\ l \in EventLists
      BY <2>1, <2>2
    <3>2. Ev(k, l) # {} => a <= Cardinality(Woken(l))
      BY <1>1, <2>1, FiniteWoken DEF ItemsServed
    <3>3. Ev(k', l) # {} => b <= a + n
      OBVIOUS
    <3>4. /\ Ev(k', l) = Ev(k, l) \ X /\ Idle \notin Ev(k, l) /\ Idle \notin Lookers(l)
          /\ Lookers(l)' = Lookers(l) \ {Idle}
      BY <1>2, <2>2
    <3>a. n \in Nat
      BY <1>1, <3>1, <3>4, WokenCount
    <3> HIDE DEF a, b, l, n
    <3>5. Ev(k', l) # {} => b <= a + n - (IF Idle \in Lookers(l) THEN 1 ELSE 0)
      BY <3>1, <3>3, <3>4, <3>a
    <3>6. Ev(k', l) # {} => b <= Cardinality(Woken(l)')
      BY <1>1, <3>1, <3>2, <3>4, <3>5, ListServed DEF n
    <3>7. QED
      BY <2>1, <3>6, FiniteWoken DEF ItemsServed, Ev, l, b
  <2>4. PlacesServed(q)'
    <3> DEFINE l == SendList(q)
               a == Length[q] - s.waiting - Noted(s.rxLock)
               b == Length[q] - r.waiting - Noted(r.rxLock)
               n == Cardinality(X \cap Ev(k, l))
    <3>1. a \in Int /\ b \in Int /\ l \in EventLists
      BY <2>1, <2>2
    <3>2. Ev(k, l) # {} => a <= Cardinality(Woken(l))
      BY <1>1, <2>1, FiniteWoken DEF PlacesServed
    <3>4. /\ Ev(k', l) = Ev(k, l) \ X /\ Idle \notin Ev(k, l) /\ Idle \notin Lookers(l)
          /\ Lookers(l)' = Lookers(l) \ {Idle}
      BY <1>2, <2>2
    <3>a. n \in Nat
      BY <1>1, <3>1, <3>4, WokenCount
    <3>3. Ev(k', l) # {} => b <= a + n
      <4>1. Ev(k', l) # {} => s.waiting - r.waiting - Noted(r.rxLock) <= n - Noted(s.rxLock)
        OBVIOUS
      <4> HIDE DEF l, n
      <4>2. QED
        BY <2>1, <3>a, <4>1
    <3> HIDE DEF a, b, l, n
    <3>5. Ev(k', l) # {} => b <= a + n - (IF Idle \in Lookers(l) THEN 1 ELSE 0)
      BY <3>1, <3>3, <3>4, <3>a
    <3>6. Ev(k', l) # {} => b <= Cardinality(Woken(l)')
      BY <1>1, <3>1, <3>2, <3>4, <3>5, ListServed DEF n
    <3>7. QED
      BY <2>1, <3>6, FiniteWoken DEF PlacesServed, Ev, l, b
  <2>5. QED
    BY <2>3, <2>4
<1>4. WaitersRight'
  <2>1. \A l \in EventLists : Ev(k', l) \subseteq Lookers(l)'
    BY <1>1 DEF WaitersRight
  <2>2. QED
    BY <2>1 DEF WaitersRight, Ev
<1>5. QED
  <2>1. \A q \in Queues : ItemsServed(q)' /\ PlacesServed(q)'
    BY <1>3
  <2>2. QED
    BY <1>4, <2>1 DEF WakesInv

(* A handler wakes the first of those who wait for what it brings, or notes*)
(* that it should.                                                         *)
LEMMA HandlerWakes ==
  ASSUME ListsInv, ListsInv', WakesInv, NEW h \in Handlers, SendFromISR(h) \/ ReceiveFromISR(h)
  PROVE  WakesInv'
<1> DEFINE q == h.on
           d == IF h.do = "send" THEN ReceiveList(q) ELSE SendList(q)
           locked == Locked(IF h.do = "send" THEN queue[q].txLock ELSE queue[q].rxLock)
           s == queue[q]
           r == queue'[q]
<1>1. QueuesTyped /\ QueuesTyped' /\ WaitersRight
  BY DEF ListsInv, StorageInv, WakesInv
<1>2. /\ q \in Queues /\ \A p \in Queues \ {q} : queue'[p] = queue[p]
      /\ s.waiting \in 0 .. Length[q] /\ Length[q] \in Nat
      /\ s.txLock \in Int /\ s.txLock >= -1 /\ s.rxLock \in Int /\ s.rxLock >= -1
      /\ h.do \in {"send", "receive"}
      /\ h.do = "send" =>
           /\ r.waiting = s.waiting + 1 \/ (r.waiting = s.waiting /\ s.waiting = Length[q])
           /\ r.txLock = IF s.txLock # -1 THEN s.txLock + 1 ELSE -1
           /\ r.rxLock = s.rxLock
      /\ h.do = "receive" =>
           /\ r.waiting = s.waiting - 1
           /\ r.rxLock = IF s.rxLock # -1 THEN s.rxLock + 1 ELSE -1
           /\ r.txLock = s.txLock
  BY <1>1, HandlerCount
<1>3. UNCHANGED <<pc, call>> /\ \A l \in EventLists : Lookers(l)' = Lookers(l)
  BY DEF SendFromISR, ReceiveFromISR, Lookers
<1>4. \/ locked /\ k' = k
      \/ ~locked /\ \E X : FreesOne(k', k, d, X)
  BY HandlerEffect
<1>5. PICK X : /\ \A l \in EventLists : Ev(k', l) = Ev(k, l) \ X
               /\ X \subseteq Ev(k, d)
               /\ locked => X = {}
               /\ ~locked /\ Ev(k, d) # {} => \E x : X = {x}
  <2>1. CASE locked /\ k' = k
    <3>1. \A l \in EventLists : Ev(k', l) = Ev(k, l) \ {}
      BY <2>1
    <3>2. QED
      BY <2>1, <3>1
  <2>2. CASE ~locked /\ \E X : FreesOne(k', k, d, X)
    BY <2>2 DEF FreesOne, Frees
  <2>3. QED
    BY <1>4, <2>1, <2>2
<1>6. /\ d \in EventLists
      /\ \A p \in Queues : SendList(p) \in EventLists /\ ReceiveList(p) \in EventLists
  BY <1>2, OwnLists
<1>7. ASSUME NEW l \in EventLists
      PROVE  /\ Cardinality(X \cap Ev(k, l)) \in Nat
             /\ l # d => Cardinality(X \cap Ev(k, l)) = 0
             /\ l = d /\ ~locked /\ Ev(k', l) # {} => Cardinality(X \cap Ev(k, l)) = 1
  <2>1. Ev(k, l) \subseteq Tasks
    BY <1>1 DEF WaitersRight, Lookers
  <2>2. IsFiniteSet(X \cap Ev(k, l)) /\ Cardinality(X \cap Ev(k, l)) \in Nat
    BY <2>1, FiniteTasks, FS_Subset, FS_CardinalityType
  <2>3. ASSUME l # d PROVE Cardinality(X \cap Ev(k, l)) = 0
    <3>1. Ev(k, l) \cap Ev(k, d) = {}
      BY <1>6, <2>3 DEF ListsInv, KernelRight, Proper, Sound, Events
    <3>2. X \cap Ev(k, l) = {}
      BY <1>5, <3>1
    <3>3. QED
      BY <3>2, FS_EmptySet
  <2>4. ASSUME l = d, ~locked, Ev(k', l) # {} PROVE Cardinality(X \cap Ev(k, l)) = 1
    <3>1. PICK x : X = {x}
      BY <1>5, <1>6, <2>4
    <3>2. X \cap Ev(k, l) = {x}
      BY <1>5, <2>4, <3>1
    <3>3. QED
      BY <3>2, FS_Singleton
  <2>5. QED
    BY <2>2, <2>3, <2>4
<1>8. ASSUME NEW p \in Queues
      PROVE  /\ Ev(k', ReceiveList(p)) # {} => queue'[p].waiting - Noted(queue'[p].txLock) <=
                  queue[p].waiting - Noted(queue[p].txLock) +
                    Cardinality(X \cap Ev(k, ReceiveList(p)))
             /\ Ev(k', SendList(p)) # {} =>
                  queue[p].waiting - queue'[p].waiting - Noted(queue'[p].rxLock) <=
                  Cardinality(X \cap Ev(k, SendList(p))) - Noted(queue[p].rxLock)
  <2>1. /\ queue[p].waiting \in Int
        /\ Noted(queue[p].txLock) \in Int /\ Noted(queue[p].rxLock) \in Int
    BY <1>1 DEF QueuesTyped, QueueState, Noted
  <2> DEFINE m == Cardinality(X \cap Ev(k, ReceiveList(p)))
             n == Cardinality(X \cap Ev(k, SendList(p)))
  <2>2. m \in Nat /\ n \in Nat
    BY <1>6, <1>7
  <2>3. CASE p # q
    <3>1. queue'[p] = queue[p]
      BY <1>2, <2>3
    <3> HIDE DEF m, n
    <3>2. /\ queue'[p].waiting - Noted(queue'[p].txLock) <=
               queue[p].waiting - Noted(queue[p].txLock) + m
          /\ queue[p].waiting - queue'[p].waiting - Noted(queue'[p].rxLock) <=
               n - Noted(queue[p].rxLock)
      BY <2>1, <2>2, <3>1
    <3>3. QED
      BY <3>2 DEF m, n
  <2>4. CASE p = q
    <3> DEFINE rx == ReceiveList(q)
               tx == SendList(q)
    <3>1. rx # tx /\ rx \in EventLists /\ tx \in EventLists
      BY <1>2, <1>6 DEF SendList, ReceiveList
    <3>2. CASE h.do = "send"
      <4>1. d = rx /\ (locked <=> s.txLock # -1)
        BY <3>2 DEF Locked
      <4>2. ~locked /\ Ev(k', rx) # {} => m = 1
        BY <1>7, <2>4, <3>1, <4>1
      <4>3. r.waiting <= s.waiting + 1 /\ s.waiting <= r.waiting
        BY <1>2, <3>2
      <4>4. Noted(r.rxLock) = Noted(s.rxLock) /\ r.waiting \in Int
        BY <1>2, <3>2
      <4>5. locked => Noted(r.txLock) = Noted(s.txLock) + 1
        BY <1>2, <3>2, <4>1 DEF Noted, Locked
      <4>6. ~locked => Noted(r.txLock) = 0 /\ Noted(s.txLock) = 0
        BY <1>2, <3>2, <4>1 DEF Noted, Locked
      <4> HIDE DEF m, n, locked, d
      <4>7. Ev(k', rx) # {} => r.waiting - Noted(r.txLock) <= s.waiting - Noted(s.txLock) + m
        <5>1. s.waiting \in Int /\ Noted(s.txLock) \in Int
          BY <2>1, <2>4
        <5>2. CASE locked
          BY <2>2, <4>3, <4>4, <4>5, <5>1, <5>2
        <5>3. CASE ~locked
          BY <2>2, <4>2, <4>3, <4>4, <4>6, <5>1, <5>3
        <5>4. QED
          BY <5>2, <5>3
      <4>8. s.waiting - r.waiting - Noted(r.rxLock) <= n - Noted(s.rxLock)
        BY <1>2, <2>1, <2>2, <2>4, <4>3, <4>4
      <4>9. QED
        BY <2>4, <4>7, <4>8 DEF m, n
    <3>3. CASE h.do = "receive"
      <4>1. d = tx /\ (locked <=> s.rxLock # -1)
        BY <3>3 DEF Locked
      <4>2. ~locked /\ Ev(k', tx) # {} => n = 1
        BY <1>7, <2>4, <3>1, <4>1
      <4>3. r.waiting = s.waiting - 1
        BY <1>2, <3>3
      <4>4. Noted(r.txLock) = Noted(s.txLock)
        BY <1>2, <3>3
      <4>5. locked => Noted(r.rxLock) = Noted(s.rxLock) + 1
        BY <1>2, <3>3, <4>1 DEF Noted, Locked
      <4>6. ~locked => Noted(r.rxLock) = 0 /\ Noted(s.rxLock) = 0
        BY <1>2, <3>3, <4>1 DEF Noted, Locked
      <4> HIDE DEF m, n, locked, d
      <4>7. r.waiting - Noted(r.txLock) <= s.waiting - Noted(s.txLock) + m
        BY <1>2, <2>1, <2>2, <2>4, <4>3, <4>4
      <4>8. Ev(k', tx) # {} => s.waiting - r.waiting - Noted(r.rxLock) <= n - Noted(s.rxLock)
        BY <1>2, <2>1, <2>2, <2>4, <4>2, <4>3, <4>5, <4>6
      <4>9. QED
        BY <2>4, <4>7, <4>8 DEF m, n
    <3>4. QED
      BY <1>2, <3>2, <3>3
  <2>5. QED
    BY <2>3, <2>4
<1>9. QED
  BY <1>1, <1>3, <1>5, <1>8, QueuesServed

(* Who goes from one place where they look to another, or is in none.      *)
LEMMA LookersKept ==
  ASSUME pc \in [All -> PCs], NEW t \in Tasks, NEW p, Goto(t, p),
         \A x \in Tasks \ {t} : call'[x] = call[x],
         LET Spots == {"unlockTx", "unlockRx", "resume", "yield", "try"}
         IN  \/ pc[t] \in Spots /\ p \in Spots /\ call'[t] = call[t]
             \/ /\ pc[t] \in Spots => call[t].why # "waits"
                /\ p \in Spots => call'[t].why # "waits"
  PROVE  \A l : Lookers(l)' = Lookers(l)
<1>1. pc'[t] = p /\ \A x \in Tasks \ {t} : pc'[x] = pc[x]
  BY DEF Goto, All
<1>2. QED
  BY <1>1 DEF Lookers

(* Who has looked is in no such place any more.                            *)
LEMMA LookersLess ==
  ASSUME pc \in [All -> PCs], NEW t \in Tasks, NEW p, Goto(t, p),
         \A x \in Tasks \ {t} : call'[x] = call[x],
         p \notin {"unlockTx", "unlockRx", "resume", "yield", "try"}
  PROVE  \A l : Lookers(l)' = Lookers(l) \ {t}
<1>1. pc'[t] = p /\ \A x \in Tasks \ {t} : pc'[x] = pc[x]
  BY DEF Goto, All
<1>2. QED
  BY <1>1 DEF Lookers

(* prvUnlockQueue wakes as many as handlers have noted.                    *)
LEMMA UnlockWakes ==
  ASSUME ListsInv, ListsInv', WakesInv, NEW t \in Tasks, UnlockTx(t) \/ UnlockRx(t)
  PROVE  WakesInv'
<1> DEFINE q == call[t].on
           d == IF UnlockTx(t) THEN ReceiveList(q) ELSE SendList(q)
           c == IF UnlockTx(t) THEN queue[q].txLock ELSE queue[q].rxLock
<1>1. QueuesTyped /\ QueuesTyped' /\ WaitersRight
  BY DEF ListsInv, StorageInv, WakesInv
<1>2. /\ q \in Queues /\ c \in Nat
      /\ \E X : /\ Frees(k', k, {}, X, 0, 0)
                /\ X \subseteq Ev(k, d) /\ IsFiniteSet(X)
                /\ Ev(k, d) \ X # {} => Cardinality(X) = c
  BY UnlockEffect
<1>3. \A l \in EventLists : Lookers(l)' = Lookers(l)
  <2>1. pc \in [All -> PCs] /\ pc[t] \in {"unlockTx", "unlockRx"} /\ UNCHANGED call
    BY DEF ListsInv, AtRight, UnlockTx, UnlockRx, At
  <2>2. PICK p \in {"unlockRx", "resume"} : Goto(t, p)
    BY DEF UnlockTx, UnlockRx
  <2>3. QED
    BY <2>1, <2>2, LookersKept
<1>4. PICK X : /\ \A l \in EventLists : Ev(k', l) = Ev(k, l) \ X
               /\ X \subseteq Ev(k, d) /\ IsFiniteSet(X)
               /\ Ev(k, d) \ X # {} => Cardinality(X) = c
  BY <1>2 DEF Frees
<1>5. ASSUME NEW l \in EventLists PROVE Cardinality(X \cap Ev(k, l)) \in Nat
  BY <1>4, FS_Subset, FS_CardinalityType
<1>6. X \cap Ev(k, d) = X
  BY <1>4
<1>7. DOMAIN queue = Queues /\ queue[q] \in QueueState(q)
  BY <1>1, <1>2 DEF QueuesTyped
<1>8. /\ \A p \in Queues \ {q} : queue'[p] = queue[p]
      /\ queue'[q].waiting = queue[q].waiting
      /\ UnlockTx(t) => queue'[q].txLock = -1 /\ queue'[q].rxLock = queue[q].rxLock
      /\ UnlockRx(t) => queue'[q].rxLock = -1 /\ queue'[q].txLock = queue[q].txLock
  <2>1. CASE UnlockTx(t)
    <3>1. queue' = [queue EXCEPT ![q].txLock = -1] /\ pc[t] = "unlockTx"
      BY <2>1 DEF UnlockTx, At
    <3>2. ~UnlockRx(t)
      BY <3>1 DEF UnlockRx, At
    <3>3. QED
      BY <1>2, <1>7, <3>1, <3>2 DEF QueueState
  <2>2. CASE UnlockRx(t)
    <3>1. queue' = [queue EXCEPT ![q].rxLock = -1] /\ pc[t] = "unlockRx"
      BY <2>2 DEF UnlockRx, At
    <3>2. ~UnlockTx(t)
      BY <3>1 DEF UnlockTx, At
    <3>3. QED
      BY <1>2, <1>7, <3>1, <3>2 DEF QueueState
  <2>3. QED
    BY <2>1, <2>2
<1>9. UnlockTx(t) <=> ~UnlockRx(t)
  BY DEF UnlockTx, UnlockRx, At
<1>10. ASSUME NEW p \in Queues
       PROVE  /\ Ev(k', ReceiveList(p)) # {} => queue'[p].waiting - Noted(queue'[p].txLock) <=
                   queue[p].waiting - Noted(queue[p].txLock) +
                     Cardinality(X \cap Ev(k, ReceiveList(p)))
              /\ Ev(k', SendList(p)) # {} =>
                   queue[p].waiting - queue'[p].waiting - Noted(queue'[p].rxLock) <=
                   Cardinality(X \cap Ev(k, SendList(p))) - Noted(queue[p].rxLock)
  <2>1. /\ queue[p].waiting \in Int
        /\ Noted(queue[p].txLock) \in Int /\ Noted(queue[p].rxLock) \in Int
    BY <1>1 DEF QueuesTyped, QueueState, Noted
  <2>2. SendList(p) \in EventLists /\ ReceiveList(p) \in EventLists
    BY OwnLists
  <2> DEFINE m == Cardinality(X \cap Ev(k, ReceiveList(p)))
             n == Cardinality(X \cap Ev(k, SendList(p)))
  <2>3. m \in Nat /\ n \in Nat
    BY <1>5, <2>2
  <2>4. CASE p # q
    <3>1. queue'[p] = queue[p]
      BY <1>8, <2>4
    <3> HIDE DEF m, n
    <3>2. /\ queue'[p].waiting - Noted(queue'[p].txLock) <=
               queue[p].waiting - Noted(queue[p].txLock) + m
          /\ queue[p].waiting - queue'[p].waiting - Noted(queue'[p].rxLock) <=
               n - Noted(queue[p].rxLock)
      BY <2>1, <2>3, <3>1
    <3>3. QED
      BY <3>2 DEF m, n
  <2>5. CASE p = q /\ UnlockTx(t)
    <3>1. d = ReceiveList(p) /\ c = queue[p].txLock
      BY <2>5
    <3>2. Ev(k', ReceiveList(p)) # {} => m = Noted(queue[p].txLock)
      <4>1. Ev(k', ReceiveList(p)) # {} => m = c
        BY <1>4, <1>6, <2>2, <3>1
      <4>2. Noted(queue[p].txLock) = c
        BY <1>2, <3>1 DEF Noted, Locked
      <4>3. QED
        BY <4>1, <4>2
    <3>3. /\ queue'[p].waiting = queue[p].waiting /\ Noted(queue'[p].txLock) = 0
          /\ Noted(queue'[p].rxLock) = Noted(queue[p].rxLock)
      BY <1>8, <2>5 DEF Noted, Locked
    <3> HIDE DEF m, n
    <3>4. /\ Ev(k', ReceiveList(p)) # {} =>
               queue'[p].waiting - Noted(queue'[p].txLock) <=
                 queue[p].waiting - Noted(queue[p].txLock) + m
          /\ queue[p].waiting - queue'[p].waiting - Noted(queue'[p].rxLock) <=
               n - Noted(queue[p].rxLock)
      BY <2>1, <2>3, <3>2, <3>3
    <3>5. QED
      BY <3>4 DEF m, n
  <2>6. CASE p = q /\ UnlockRx(t)
    <3>1. d = SendList(p) /\ c = queue[p].rxLock
      BY <1>9, <2>6
    <3>2. Ev(k', SendList(p)) # {} => n = Noted(queue[p].rxLock)
      <4>1. Ev(k', SendList(p)) # {} => n = c
        BY <1>4, <1>6, <2>2, <3>1
      <4>2. Noted(queue[p].rxLock) = c
        BY <1>2, <3>1 DEF Noted, Locked
      <4>3. QED
        BY <4>1, <4>2
    <3>3. /\ queue'[p].waiting = queue[p].waiting /\ Noted(queue'[p].rxLock) = 0
          /\ Noted(queue'[p].txLock) = Noted(queue[p].txLock)
      BY <1>8, <2>6 DEF Noted, Locked
    <3> HIDE DEF m, n
    <3>4. /\ queue'[p].waiting - Noted(queue'[p].txLock) <=
               queue[p].waiting - Noted(queue[p].txLock) + m
          /\ Ev(k', SendList(p)) # {} =>
               queue[p].waiting - queue'[p].waiting - Noted(queue'[p].rxLock) <=
                 n - Noted(queue[p].rxLock)
      BY <2>1, <2>3, <3>2, <3>3
    <3>5. QED
      BY <3>4 DEF m, n
  <2>7. QED
    BY <1>9, <2>4, <2>5, <2>6
<1>11. QED
  BY <1>1, <1>3, <1>4, <1>10, QueuesServed

(* Who looks and finds nothing leaves nobody without what there is: there  *)
(* is nothing.                                                             *)
LEMMA AgainWakes ==
  ASSUME ListsInv, WakesInv, AllOpen, NEW t \in Tasks, NEW c, c.do # "reset", ~Possible(c),
         UNCHANGED <<k, queue>>,
         \A l \in EventLists : /\ Lookers(l)' = Lookers(l) \ {t}
                               /\ t \in Lookers(l) => l = WaitList(c),
         t \in Rd(k)
  PROVE  WakesInv'
<1>1. \A l \in EventLists : t \notin Ev(k, l)
  BY ReadyOut DEF ListsInv, KernelRight, Events
<1>2. WaitersRight'
  <2>1. \A l \in EventLists : Ev(k', l) \subseteq Lookers(l)'
    BY <1>1 DEF WakesInv, WaitersRight
  <2>2. QED
    BY <2>1 DEF WaitersRight, Ev
<1>3. ASSUME NEW l \in EventLists, l # WaitList(c) PROVE Woken(l)' = Woken(l)
  <2>1. Lookers(l)' = Lookers(l)
    BY <1>3
  <2>2. Ev(k', l) = Ev(k, l)
    OBVIOUS
  <2>3. Woken(l) = Lookers(l) \ Ev(k, l) /\ Woken(l)' = Lookers(l)' \ Ev(k', l)
    BY WokenLookers
  <2>4. QED
    BY <2>1, <2>2, <2>3
<1>4. /\ c.do = "send" => queue[c.on].waiting = Length[c.on]
      /\ c.do # "send" => queue[c.on].waiting = 0
  BY DEF Possible, Full, Empty
<1>5. ASSUME NEW q \in Queues PROVE ItemsServed(q)' /\ PlacesServed(q)'
  <2>1. /\ queue[q].waiting \in Int /\ Length[q] \in Int
        /\ Noted(queue[q].txLock) = 0 /\ Noted(queue[q].rxLock) = 0
    BY LengthType DEF ListsInv, StorageInv, QueuesTyped, QueueState, AllOpen, Noted, Locked
  <2>2. SendList(q) \in EventLists /\ ReceiveList(q) \in EventLists
    BY OwnLists
  <2>3. ItemsServed(q) /\ PlacesServed(q)
    BY DEF WakesInv
  <2>4. ItemsServed(q)'
    <3> DEFINE l == ReceiveList(q)
    <3>1. CASE l = WaitList(c)
      <4>1. q = c.on /\ c.do # "send"
        BY <3>1 DEF WaitList, SendList, ReceiveList
      <4>2. queue[q].waiting <= Cardinality(Woken(l)') + 0
        BY <1>4, <4>1, FiniteWoken
      <4> HIDE DEF l
      <4>3. Ev(k', l) # {} => queue'[q].waiting <=
              Cardinality(Woken(l)') + Noted(queue'[q].txLock)
        BY <2>1, <4>2
      <4>4. QED
        BY <4>3 DEF ItemsServed, Ev, l
    <3>2. CASE l # WaitList(c)
      <4>1. Woken(l)' = Woken(l)
        BY <1>3, <2>2, <3>2
      <4>2. Ev(k, l) # {} => queue[q].waiting <= Cardinality(Woken(l)) + Noted(queue[q].txLock)
        BY <2>3 DEF ItemsServed
      <4> HIDE DEF l
      <4>3. Ev(k', l) # {} => queue'[q].waiting <=
              Cardinality(Woken(l)') + Noted(queue'[q].txLock)
        BY <4>1, <4>2
      <4>4. QED
        BY <4>3 DEF ItemsServed, Ev, l
    <3>3. QED
      BY <3>1, <3>2
  <2>5. PlacesServed(q)'
    <3> DEFINE l == SendList(q)
    <3>1. CASE l = WaitList(c)
      <4>1. q = c.on /\ c.do = "send"
        BY <3>1 DEF WaitList, SendList, ReceiveList
      <4>2. Length[q] - queue[q].waiting <= Cardinality(Woken(l)') + 0
        BY <1>4, <2>1, <4>1, FiniteWoken
      <4> HIDE DEF l
      <4>3. Ev(k', l) # {} =>
              Length[q] - queue'[q].waiting <= Cardinality(Woken(l)') + Noted(queue'[q].rxLock)
        BY <2>1, <4>2
      <4>4. QED
        BY <4>3 DEF PlacesServed, Ev, l
    <3>2. CASE l # WaitList(c)
      <4>1. Woken(l)' = Woken(l)
        BY <1>3, <2>2, <3>2
      <4>2. Ev(k, l) # {} =>
              Length[q] - queue[q].waiting <= Cardinality(Woken(l)) + Noted(queue[q].rxLock)
        BY <2>3 DEF PlacesServed
      <4> HIDE DEF l
      <4>3. Ev(k', l) # {} =>
              Length[q] - queue'[q].waiting <= Cardinality(Woken(l)') + Noted(queue'[q].rxLock)
        BY <4>1, <4>2
      <4>4. QED
        BY <4>3 DEF PlacesServed, Ev, l
    <3>3. QED
      BY <3>1, <3>2
  <2>6. QED
    BY <2>4, <2>5
<1>6. QED
  <2>1. \A q \in Queues : ItemsServed(q)' /\ PlacesServed(q)'
    BY <1>5
  <2>2. QED
    BY <1>2, <2>1 DEF WakesInv

(* Who puts itself into a list finds nothing there that it could take.     *)
LEMMA CheckWakes ==
  ASSUME ListsInv, WakesInv, NEW t \in Tasks, Check(t)
  PROVE  WakesInv'
<1> DEFINE c == call[t]
           w == WaitList(c)
           waits == IF c.do = "send" THEN Full(c.on) ELSE Empty(c.on)
<1>1. pc \in [All -> PCs] /\ pc[t] = "check" /\ t \in All /\ t \in Rd(k) /\ UNCHANGED queue
  BY Here DEF Check, ListsInv, AtRight
<1>2. /\ Goto(t, "unlockTx") /\ pc'[t] = "unlockTx" /\ \A x \in Tasks \ {t} : pc'[x] = pc[x]
  BY <1>1 DEF Check, Goto, All
<1>3. /\ DOMAIN call = Tasks /\ CallRight(c)
      /\ DOMAIN c = {"do", "on", "item", "pos", "asked", "left", "since", "inherited", "why"}
  BY <1>1 DEF ListsInv, StorageInv, CallsRight
<1>4. /\ \A x \in Tasks \ {t} : call'[x] = call[x]
      /\ call'[t].do = c.do /\ call'[t].on = c.on
      /\ call'[t].why = IF waits THEN "waits" ELSE "again"
  BY <1>3 DEF Check
<1>5. /\ ~waits => k' = k
      /\ waits => w \in EventLists /\ Blocks(k', k, t, {w}, c.left, c.left = MaxDelay)
  BY CheckEffect
<1>6. \A l \in EventLists : t \notin Ev(k, l)
  BY <1>1, ReadyOut DEF ListsInv, KernelRight, Events
<1>7. WaitList(call'[t]) = w
  BY <1>4 DEF WaitList
<1>8. \A l : t \notin Lookers(l)
  BY <1>1 DEF Lookers
<1>9. \A l : Lookers(l)' = IF waits /\ l = w THEN Lookers(l) \cup {t} ELSE Lookers(l)
  <2> HIDE DEF w, waits
  <2>1. ASSUME NEW l, NEW x \in Tasks
        PROVE  x \in Lookers(l)' <=> x \in Lookers(l) \/ (x = t /\ waits /\ l = w)
    BY <1>1, <1>2, <1>4, <1>7 DEF Lookers
  <2>2. \A l : Lookers(l) \subseteq Tasks /\ Lookers(l)' \subseteq Tasks
    BY DEF Lookers
  <2>3. QED
    BY <2>1, <2>2
<1>10. /\ QueuesTyped /\ QueuesTyped' /\ WaitersRight
       /\ \A q \in Queues : ItemsServed(q) /\ PlacesServed(q)
  BY <1>1 DEF ListsInv, StorageInv, QueuesTyped, WakesInv
<1>11. CASE ~waits
  <2>1. \A l \in EventLists : Lookers(l)' = Lookers(l) /\ Ev(k', l) \subseteq Ev(k, l)
    BY <1>5, <1>9, <1>11
  <2>2. \A q \in Queues : /\ queue'[q].waiting = queue[q].waiting
                          /\ Noted(queue'[q].txLock) = Noted(queue[q].txLock)
                          /\ Noted(queue'[q].rxLock) = Noted(queue[q].rxLock)
    BY <1>1
  <2>3. QED
    BY <1>10, <2>1, <2>2, WakesKept
<1>12. CASE waits
  <2>1. \A l \in EventLists : Ev(k', l) = IF l = w THEN Ev(k, l) \cup {t} ELSE Ev(k, l)
    BY <1>5, <1>12 DEF Blocks, Events
  <2>2. \A l \in EventLists : Woken(l)' = Woken(l)
    <3> HIDE DEF w
    <3>1. QED
      BY <1>6, <1>8, <1>9, <1>12, <2>1, WokenLookers
  <2>3. WaitersRight'
    <3>1. \A l \in EventLists : Ev(k', l) \subseteq Lookers(l)'
      BY <1>9, <1>10, <1>12, <2>1 DEF WaitersRight
    <3>2. QED
      BY <3>1 DEF WaitersRight, Ev
  <2>4. ASSUME NEW q \in Queues PROVE ItemsServed(q)' /\ PlacesServed(q)'
    <3>1. SendList(q) \in EventLists /\ ReceiveList(q) \in EventLists
      BY OwnLists
    <3>2. /\ queue[q].waiting \in Int /\ Length[q] \in Int
          /\ Noted(queue[q].txLock) \in Nat /\ Noted(queue[q].rxLock) \in Nat
      BY <1>10, LengthType DEF QueuesTyped, QueueState, Noted, Locked
    <3>3. ItemsServed(q)'
      <4> DEFINE l == ReceiveList(q)
                 n == Cardinality(Woken(l))
      <4>1. n \in Nat /\ Cardinality(Woken(l)') = n
        BY <2>2, <3>1, FiniteWoken
      <4>2. CASE l = w
        <5>1. queue[q].waiting = 0
          BY <1>12, <4>2 DEF WaitList, SendList, ReceiveList, Empty
        <5> HIDE DEF l, n
        <5>2. queue'[q].waiting <= Cardinality(Woken(l)') + Noted(queue'[q].txLock)
          BY <1>1, <3>2, <4>1, <5>1
        <5>3. QED
          BY <5>2 DEF ItemsServed, l
      <4>3. CASE l # w
        <5>1. Ev(k', l) = Ev(k, l)
          BY <2>1, <3>1, <4>3
        <5>2. Ev(k, l) # {} => queue[q].waiting <= n + Noted(queue[q].txLock)
          BY <1>10 DEF ItemsServed
        <5> HIDE DEF l, n
        <5>3. Ev(k', l) # {} => queue'[q].waiting <=
                Cardinality(Woken(l)') + Noted(queue'[q].txLock)
          BY <1>1, <4>1, <5>1, <5>2
        <5>4. QED
          BY <5>3 DEF ItemsServed, Ev, l
      <4>4. QED
        BY <4>2, <4>3
    <3>4. PlacesServed(q)'
      <4> DEFINE l == SendList(q)
                 n == Cardinality(Woken(l))
      <4>1. n \in Nat /\ Cardinality(Woken(l)') = n
        BY <2>2, <3>1, FiniteWoken
      <4>2. CASE l = w
        <5>1. queue[q].waiting = Length[q]
          BY <1>12, <4>2 DEF WaitList, SendList, ReceiveList, Full
        <5> HIDE DEF l, n
        <5>2. Length[q] - queue'[q].waiting <= Cardinality(Woken(l)') + Noted(queue'[q].rxLock)
          BY <1>1, <3>2, <4>1, <5>1
        <5>3. QED
          BY <5>2 DEF PlacesServed, l
      <4>3. CASE l # w
        <5>1. Ev(k', l) = Ev(k, l)
          BY <2>1, <3>1, <4>3
        <5>2. Ev(k, l) # {} => Length[q] - queue[q].waiting <= n + Noted(queue[q].rxLock)
          BY <1>10 DEF PlacesServed
        <5> HIDE DEF l, n
        <5>3. Ev(k', l) # {} =>
                Length[q] - queue'[q].waiting <=
                  Cardinality(Woken(l)') + Noted(queue'[q].rxLock)
          BY <1>1, <4>1, <5>1, <5>2
        <5>4. QED
          BY <5>3 DEF PlacesServed, Ev, l
      <4>4. QED
        BY <4>2, <4>3
    <3>5. QED
      BY <3>3, <3>4
  <2>5. \A q \in Queues : ItemsServed(q)' /\ PlacesServed(q)'
    BY <2>4
  <2>6. QED
    BY <2>3, <2>5 DEF WakesInv
<1>13. QED
  BY <1>11, <1>12

(* At the end of its wait without an item a receiver knows that it is late.*)
LateOnly == \A t \in Tasks : pc[t] \in {"empty", "disinherit"} => call[t].why = "late"

(* Every step keeps LateOnly.                                              *)
LEMMA LateOnlyStep ==
  ASSUME ListsInv, LateOnly, [Next]_vars
  PROVE  LateOnly'
<1>1. pc \in [All -> PCs] /\ Tasks \subseteq All /\ DOMAIN call = Tasks
  BY DEF ListsInv, AtRight, All, StorageInv, CallsRight
<1>2. ASSUME NEW t \in Tasks, NEW p, Goto(t, p), \A x \in Tasks \ {t} : call'[x] = call[x],
             p \in {"empty", "disinherit"} => call'[t].why = "late"
      PROVE  LateOnly'
  <2>1. pc'[t] = p /\ \A x \in Tasks \ {t} : pc'[x] = pc[x]
    BY <1>1, <1>2 DEF Goto
  <2>2. QED
    BY <1>2, <2>1 DEF LateOnly
<1>3. ASSUME UNCHANGED <<pc, call>> PROVE LateOnly'
  BY <1>3 DEF LateOnly
<1>4. ASSUME NEW t \in Tasks, Continue(t) PROVE LateOnly'
  <2>1. CASE Fail(t)
    BY <1>1, <1>2, <2>1 DEF Fail
  <2>2. CASE ~Fail(t) /\ (Retry(t) \/ Block(t) \/ Lock(t) \/ Check(t) \/ UnlockTx(t)
             \/ UnlockRx(t) \/ CallYield(t) \/ AbortEnd(t))
    <3>1. PICK p : Goto(t, p) /\ p \notin {"empty", "disinherit"}
      BY <2>2 DEF Retry, Block, Lock, Check, UnlockTx, UnlockRx, CallYield, AbortEnd
    <3>2. \A x \in Tasks \ {t} : call'[x] = call[x]
      BY <1>1, <2>2 DEF Retry, Block, Lock, Check, UnlockTx, UnlockRx, CallYield, AbortEnd
    <3>3. QED
      BY <1>2, <3>1, <3>2
  <2>3. CASE Resume(t) /\ ~Fail(t)
    <3>1. PICK p :
            Goto(t, p) /\ ((p = "empty" /\ call[t].why = "late") \/ p \in {"yield", "try"})
      BY <2>3 DEF Resume
    <3>2. UNCHANGED call
      BY <2>3 DEF Resume
    <3>3. QED
      BY <1>2, <3>1, <3>2
  <2>4. CASE Late(t) /\ ~Fail(t)
    <3>1. PICK p : Goto(t, p)
      BY <2>4 DEF Late
    <3>2. UNCHANGED call /\ call[t].why = "late"
      BY <2>4 DEF Late, At, LateOnly
    <3>3. QED
      BY <1>2, <3>1, <3>2
  <2>5. LateDisinherit(t) => Fail(t)
    BY DEF LateDisinherit
  <2>6. QED
    BY <1>4, <2>1, <2>2, <2>3, <2>4, <2>5 DEF Continue
<1>5. ASSUME NEW t \in Tasks, Call(t) PROVE LateOnly'
  <2>1. ASSUME NEW c \in use, Begin(t, c) PROVE LateOnly'
    <3>1. CASE UNCHANGED <<pc, call>>
      BY <1>3, <3>1
    <3>2. CASE Goto(t, "block") /\ call' = [call EXCEPT ![t] = Locals(c)]
      BY <1>1, <1>2, <3>2
    <3>3. QED
      BY <2>1, <3>1, <3>2 DEF Begin
  <2>2. ASSUME NEW c \in use, Delay(t, c) \/ Again(t, c) PROVE LateOnly'
    BY <1>3, <2>2 DEF Delay, Again
  <2>3. ASSUME NEW u \in Tasks, Abort(t, u) PROVE LateOnly'
    <3>1. Goto(t, "abort") /\ UNCHANGED call
      BY <2>3 DEF Abort
    <3>2. QED
      BY <1>2, <3>1
  <2>4. QED
    BY <1>5, <2>1, <2>2, <2>3 DEF Call
<1>6. CASE Handler \/ Tick \/ Switch \/ UNCHANGED vars
  BY <1>3, <1>6 DEF Handler, SendFromISR, ReceiveFromISR, Tick, Switch, vars
<1>7. QED
  BY <1>4, <1>5, <1>6 DEF Next

(* The application does nothing with queues, ahead of a call that has to   *)
(* wait, or in the midst of one.                                           *)
LEMMA QuietWakes ==
  ASSUME ListsInv, WakesInv, UNCHANGED queue,
         \A l \in EventLists : Lookers(l)' = Lookers(l) /\ Ev(k', l) \subseteq Ev(k, l)
  PROVE  WakesInv'
<1>1. QueuesTyped /\ QueuesTyped'
  BY DEF ListsInv, StorageInv, QueuesTyped
<1>2. \A q \in Queues : /\ queue'[q].waiting = queue[q].waiting
                        /\ Noted(queue'[q].txLock) = Noted(queue[q].txLock)
                        /\ Noted(queue'[q].rxLock) = Noted(queue[q].rxLock)
  OBVIOUS
<1>3. QED
  BY <1>1, <1>2, WakesKept

(* A task in a call goes on.                                               *)
LEMMA ContinueWakes ==
  ASSUME ListsInv, ListsInv', WakesInv, LateOnly, NEW t \in Tasks, Continue(t)
  PROVE  WakesInv'
<1>1. Proper(k, Hand) /\ k \in KernelState
  BY DEF ListsInv, KernelRight, Proper, Sound
<1>2. pc \in [All -> PCs] /\ Tasks \subseteq All /\ DOMAIN call = Tasks
  BY DEF ListsInv, AtRight, All, StorageInv, CallsRight
<1>3. ASSUME NEW p, Goto(t, p), UNCHANGED queue,
             \A x \in Tasks \ {t} : call'[x] = call[x],
             NEW R, NEW X, NEW n, NEW e, Frees(k', k, R, X, n, e),
             LET Spots == {"unlockTx", "unlockRx", "resume", "yield", "try"}
             IN  \/ pc[t] \in Spots /\ p \in Spots /\ call'[t] = call[t]
                 \/ /\ pc[t] \in Spots => call[t].why # "waits"
                    /\ p \in Spots => call'[t].why # "waits"
      PROVE  WakesInv'
  <2>1. \A l : Lookers(l)' = Lookers(l)
    BY <1>2, <1>3, LookersKept
  <2>2. \A l \in EventLists : Ev(k', l) \subseteq Ev(k, l)
    BY <1>3 DEF Frees
  <2>3. QED
    BY <1>3, <2>1, <2>2, QuietWakes
<1>4. ASSUME Fail(t) PROVE Goto(t, "app") /\ \A x \in Tasks \ {t} : call'[x] = call[x]
  BY <1>2, <1>4 DEF Fail
<1>5. CASE Retry(t)
  <2>1. At(t, "try") /\ t = k.current /\ pc[t] = "try" /\ k.schedulerSuspended = 0
        /\ t \in Rd(k)
    BY <1>5, Here DEF Retry, Busy
  <2>2. AllOpen
    BY <2>1, OpenRight DEF ListsInv
  <2>3. CallRight(call[t]) /\ call[t].do # "reset"
    BY <2>1 DEF ListsInv, StorageInv, CallsRight, TimesTyped, CallTyped
  <2>4. PICK p \in {"app", "block"} : Goto(t, p)
    BY <1>5 DEF Retry
  <2>5. \A x \in Tasks \ {t} : call'[x] = call[x]
    BY <1>2, <1>5 DEF Retry
  <2>6. \A l : Lookers(l)' = Lookers(l) \ {t}
    BY <1>2, <2>4, <2>5, LookersLess
  <2>7. \A l \in EventLists : /\ Lookers(l)' = Lookers(l) \ {t}
                              /\ t \in Lookers(l) => l = WaitList(call[t])
    BY <2>6 DEF Lookers
  <2>8. CASE Possible(call[t])
    <3>1. Succeed(t, call[t])
      BY <1>5, <2>8 DEF Retry
    <3>2. QED
      BY <2>1, <2>2, <2>3, <2>7, <3>1, SucceedWakes
  <2>9. CASE ~Possible(call[t])
    <3>1. UNCHANGED <<k, queue>>
      BY <1>5, <2>9 DEF Retry
    <3>2. QED
      BY <2>1, <2>2, <2>3, <2>7, <2>9, <3>1, AgainWakes
  <2>10. QED
    BY <2>8, <2>9
<1>6. CASE Block(t)
  <2>1. t = k.current /\ k.schedulerSuspended = 0 /\ pc[t] = "block"
    BY <1>6, Here DEF Block, Busy
  <2>2. Frees(k', k, {}, {}, 0, 0)
    BY <1>1, <1>6, <2>1, SuspendFrees DEF Block
  <2>3. Goto(t, "lock") /\ UNCHANGED <<call, queue>>
    BY <1>6 DEF Block
  <2>4. QED
    BY <1>3, <2>1, <2>2, <2>3
<1>7. CASE Lock(t)
  <2> DEFINE c == call[t]
             late == k.aborted[t] \/ TimedOut(k, c.since, c.left)
             u == [k EXCEPT !.aborted[t] = FALSE]
             p == IF late THEN "unlockTx" ELSE "check"
  <2>1. pc[t] = "lock" /\ t \in All
    BY <1>7, Here DEF Lock
  <2>2. k' = u /\ Goto(t, p)
    BY <1>7 DEF Lock
  <2>3. Frees(u, k, {}, {}, 0, 0)
    BY <1>1, <2>1, NotedFrees
  <2>4. DOMAIN c = {"do", "on", "item", "pos", "asked", "left", "since", "inherited", "why"}
    BY <2>1 DEF ListsInv, StorageInv, CallsRight
  <2>5. (\A x \in Tasks \ {t} : call'[x] = call[x]) /\ call'[t].why \in {"late", "none"}
    BY <1>2, <1>7, <2>4 DEF Lock
  <2> HIDE DEF p, u
  <2>6. \A l : Lookers(l)' = Lookers(l)
    BY <1>2, <2>1, <2>2, <2>5, LookersKept
  <2>7. \A l \in EventLists : Ev(k', l) \subseteq Ev(k, l)
    BY <2>2, <2>3 DEF Frees
  <2>8. QueuesTyped /\ QueuesTyped'
    BY DEF ListsInv, StorageInv
  <2>9. ASSUME NEW q \in Queues
        PROVE  /\ queue'[q].waiting = queue[q].waiting
               /\ Noted(queue'[q].txLock) = Noted(queue[q].txLock)
               /\ Noted(queue'[q].rxLock) = Noted(queue[q].rxLock)
    <3>1. queue' = [queue EXCEPT ![c.on].txLock = IF @ = -1 THEN 0 ELSE @,
                                 ![c.on].rxLock = IF @ = -1 THEN 0 ELSE @]
      BY <1>7 DEF Lock
    <3>2. queue[q] \in QueueState(q) /\ DOMAIN queue = Queues
      BY <2>8 DEF QueuesTyped
    <3> HIDE DEF c
    <3>3. /\ queue'[q].waiting = queue[q].waiting
          /\ \/ queue'[q].txLock = queue[q].txLock
             \/ queue[q].txLock = -1 /\ queue'[q].txLock = 0
          /\ \/ queue'[q].rxLock = queue[q].rxLock
             \/ queue[q].rxLock = -1 /\ queue'[q].rxLock = 0
      BY <3>1, <3>2 DEF QueueState
    <3>4. QED
      BY <3>3 DEF Noted, Locked
  <2>10. QED
    BY <2>6, <2>7, <2>8, <2>9, WakesKept
<1>8. CASE Check(t)
  BY <1>8, CheckWakes
<1>9. CASE UnlockTx(t) \/ UnlockRx(t)
  BY <1>9, UnlockWakes
<1>10. CASE Resume(t)
  <2>1. PICK X : Frees(k', k, X, X, k.pendedTicks, 0)
    BY <1>10, ResumeEffect
  <2>2. pc[t] = "resume" /\ UNCHANGED queue
    BY <1>10 DEF Resume, At
  <2>3. CASE call[t].why = "late" /\ Fail(t)
    BY <1>3, <1>4, <2>1, <2>2, <2>3
  <2>4. CASE ~(call[t].why = "late" /\ Fail(t))
    <3>1. /\ Goto(t, CASE call[t].why = "late" -> "empty"
                       [] call[t].why = "waits" /\ ~k'.yieldPending -> "yield"
                       [] OTHER -> "try")
          /\ UNCHANGED call
      BY <1>10, <2>4 DEF Resume
    <3>2. PICK p :
            Goto(t, p) /\ ((p = "empty" /\ call[t].why = "late") \/ p \in {"yield", "try"})
      BY <3>1
    <3>3. QED
      BY <1>3, <2>1, <2>2, <3>1, <3>2
  <2>5. QED
    BY <2>3, <2>4
<1>11. CASE CallYield(t)
  <2>1. Frees(k', k, {}, {}, 0, 0)
    BY <1>1, <1>11, YieldFrees DEF CallYield
  <2>2. Goto(t, "try") /\ UNCHANGED <<call, queue>> /\ pc[t] = "yield"
    BY <1>11 DEF CallYield, At
  <2>3. QED
    BY <1>3, <2>1, <2>2
<1>12. CASE Late(t)
  <2>1. pc[t] = "empty" /\ call[t].why = "late" /\ UNCHANGED <<k, queue>>
    BY <1>12 DEF Late, At, LateOnly
  <2>2. Frees(k', k, {}, {}, 0, 0)
    BY <1>1, <2>1, SameFrees
  <2>3. CASE Fail(t)
    BY <1>3, <1>4, <2>1, <2>2, <2>3
  <2>4. CASE ~Fail(t)
    <3>1. PICK p : Goto(t, p)
      BY <1>12, <2>4 DEF Late
    <3>2. UNCHANGED call
      BY <1>12, <2>4 DEF Late
    <3>3. QED
      BY <1>3, <2>1, <2>2, <3>1, <3>2
  <2>5. QED
    BY <2>3, <2>4
<1>13. CASE LateDisinherit(t)
  <2>1. Frees(k', k, {}, {}, 0, 0)
    BY <1>13, LateDisinheritEffect
  <2>2. Fail(t) /\ UNCHANGED queue /\ pc[t] = "disinherit"
    BY <1>13 DEF LateDisinherit, At
  <2>3. QED
    BY <1>3, <1>4, <2>1, <2>2
<1>14. CASE AbortEnd(t)
  <2>1. PICK X : Frees(k', k, X, X, k.pendedTicks, 0)
    BY <1>14, AbortEndEffect
  <2>2. Goto(t, "app") /\ UNCHANGED <<call, queue>> /\ pc[t] = "abort"
    BY <1>14 DEF AbortEnd, At
  <2>3. QED
    BY <1>3, <2>1, <2>2
<1>15. QED
  BY <1>5, <1>6, <1>7, <1>8, <1>9, <1>10, <1>11, <1>12, <1>13, <1>14 DEF Continue

(* The application begins something.                                       *)
LEMMA CallWakes ==
  ASSUME ResetsSmall, ListsInv, ListsInv', WakesInv, NEW t \in Tasks, Call(t)
  PROVE  WakesInv'
<1>1. Proper(k, Hand) /\ k \in KernelState
  BY DEF ListsInv, KernelRight, Proper, Sound
<1>2. pc \in [All -> PCs] /\ Tasks \subseteq All /\ DOMAIN call = Tasks
  BY DEF ListsInv, AtRight, All, StorageInv, CallsRight
<1>3. ASSUME UNCHANGED <<pc, call>> PROVE \A l : Lookers(l)' = Lookers(l)
  BY <1>3 DEF Lookers
<1>4. ASSUME NEW c \in use, Begin(t, c) PROVE WakesInv'
  <2>1. At(t, "app") /\ t = k.current /\ pc[t] = "app" /\ k.schedulerSuspended = 0
        /\ t \in Rd(k)
    BY <1>4, Here DEF Begin, Busy
  <2>2. c \in UNION Uses /\ c.do \notin {"delay", "again"}
    BY <1>4 DEF ListsInv, StorageInv, CallsRight, Begin
  <2>3. CallRight(c)
    BY <2>2, QueuesAssumption DEF CallRight
  <2>4. CASE Possible(c)
    <3>1. Succeed(t, c) /\ UNCHANGED <<pc, call>>
      BY <1>4, <2>4 DEF Begin
    <3>2. AllOpen
      BY <2>1, OpenRight DEF ListsInv
    <3>3. \A l : t \notin Lookers(l)
      BY <2>1 DEF Lookers
    <3>4. \A l \in EventLists : /\ Lookers(l)' = Lookers(l) \ {t}
                                /\ t \in Lookers(l) => l = WaitList(c)
      BY <1>3, <3>1, <3>3
    <3>5. c.do = "reset" => Length[c.on] = 1
      BY <2>2 DEF ResetsSmall
    <3>6. QED
      BY <2>1, <2>3, <3>1, <3>2, <3>4, <3>5, SucceedWakes
  <2>5. CASE ~Possible(c)
    <3>1. Goto(t, "block") /\ call' = [call EXCEPT ![t] = Locals(c)] /\ UNCHANGED <<k, queue>>
      BY <1>4, <2>5 DEF Begin
    <3>2. \A x \in Tasks \ {t} : call'[x] = call[x]
      BY <1>2, <3>1
    <3>3. \A l : Lookers(l)' = Lookers(l)
      BY <1>2, <2>1, <3>1, <3>2, LookersKept
    <3>4. QED
      BY <3>1, <3>3, QuietWakes
  <2>6. QED
    BY <2>4, <2>5
<1>5. ASSUME NEW c \in use, Delay(t, c) PROVE WakesInv'
  <2>1. \A l \in EventLists : Ev(k', l) = Ev(k, l)
    BY <1>5, DelayEffect
  <2>2. UNCHANGED <<pc, call, queue>>
    BY <1>5 DEF Delay
  <2>3. QED
    BY <1>3, <2>1, <2>2, QuietWakes
<1>6. ASSUME NEW c \in use, Again(t, c) PROVE WakesInv'
  <2>1. UNCHANGED <<k, pc, call>> /\ \E n : queue' = [queue EXCEPT ![c.on].count = n]
    BY <1>6 DEF Again
  <2>2. QueuesTyped /\ QueuesTyped'
    BY DEF ListsInv, StorageInv
  <2>3. ASSUME NEW q \in Queues
        PROVE  /\ queue'[q].waiting = queue[q].waiting /\ queue'[q].txLock = queue[q].txLock
               /\ queue'[q].rxLock = queue[q].rxLock
    BY <2>1, <2>2 DEF QueuesTyped, QueueState
  <2>4. \A l \in EventLists : Lookers(l)' = Lookers(l) /\ Ev(k', l) \subseteq Ev(k, l)
    BY <1>3, <2>1
  <2>5. \A q \in Queues : /\ queue'[q].waiting = queue[q].waiting
                          /\ Noted(queue'[q].txLock) = Noted(queue[q].txLock)
                          /\ Noted(queue'[q].rxLock) = Noted(queue[q].rxLock)
    BY <2>3
  <2>6. QED
    BY <2>2, <2>4, <2>5, WakesKept
<1>7. ASSUME NEW u \in Tasks, Abort(t, u) PROVE WakesInv'
  <2>1. \A l : Ev(k', l) = Ev(k, l)
    BY <1>7, AbortEffect
  <2>2. Goto(t, "abort") /\ UNCHANGED <<call, queue>> /\ pc[t] = "app"
    BY <1>7 DEF Abort, At
  <2>3. \A l : Lookers(l)' = Lookers(l)
    BY <1>2, <2>2, LookersKept
  <2>4. QED
    BY <2>1, <2>2, <2>3, QuietWakes
<1>8. QED
  BY <1>4, <1>5, <1>6, <1>7 DEF Call

(* Every step keeps WakesInv.                                              *)
LEMMA WakesStep ==
  ASSUME ResetsSmall, ListsInv, WakesInv, LateOnly, [Next]_vars
  PROVE  WakesInv'
<1>1. Proper(k, Hand) /\ ListsInv'
  BY ListsStep DEF ListsInv, KernelRight
<1>2. ASSUME UNCHANGED <<pc, call>> PROVE \A l : Lookers(l)' = Lookers(l)
  BY <1>2 DEF Lookers
<1>3. ASSUME NEW h \in Handlers, SendFromISR(h) \/ ReceiveFromISR(h) PROVE WakesInv'
  BY <1>1, <1>3, HandlerWakes
<1>4. CASE Tick
  <2> DEFINE u == SysTick(k)
  <2>1. \E R, n : Frees(u, k, R, R, n, 1)
    BY <1>1, TickFrees
  <2>2. k' = u /\ UNCHANGED <<pc, call, queue>>
    BY <1>4 DEF Tick
  <2> HIDE DEF u
  <2>3. \A l \in EventLists : Ev(k', l) \subseteq Ev(k, l)
    BY <2>1, <2>2 DEF Frees
  <2>4. QED
    BY <1>2, <2>2, <2>3, QuietWakes
<1>5. CASE Switch
  <2> DEFINE u == SwitchContext(k)
  <2>1. k' = u /\ UNCHANGED <<pc, call, queue>>
    BY <1>5 DEF Switch
  <2>2. \A l \in EventLists : Ev(u, l) \subseteq Ev(k, l)
    <3>1. CASE k.schedulerSuspended # 0
      <4>1. Frees(u, k, {}, {}, 0, 0)
        BY <1>1, <3>1, PutOffFrees
      <4> HIDE DEF u
      <4>2. QED
        BY <4>1 DEF Frees
    <3>2. CASE k.schedulerSuspended = 0
      <4>1. \A l \in EventLists : Ev(u, l) = Ev(k, l)
        BY <1>1, <3>2, SwitchProper
      <4> HIDE DEF u
      <4>2. QED
        BY <4>1
    <3>3. QED
      BY <3>1, <3>2
  <2> HIDE DEF u
  <2>3. QED
    BY <1>2, <2>1, <2>2, QuietWakes
<1>6. CASE UNCHANGED vars
  <2>1. UNCHANGED <<k, pc, call, queue>>
    BY <1>6 DEF vars
  <2>2. QED
    BY <1>2, <2>1, QuietWakes
<1>7. ASSUME NEW t \in Tasks, Continue(t) \/ Call(t) PROVE WakesInv'
  BY <1>1, <1>7, ContinueWakes, CallWakes
<1>8. QED
  BY <1>3, <1>4, <1>5, <1>6, <1>7 DEF Next, Handler

(* At first nobody waits.                                                  *)
LEMMA WakesInit ==
  ASSUME Init
  PROVE  WakesInv /\ LateOnly
<1>1. PICK own \in Owns : k = Started(First, [t \in All |-> IF t = Idle THEN 0 ELSE own[t]])
  BY DEF Init
<1> DEFINE priority == [t \in All |-> IF t = Idle THEN 0 ELSE own[t]]
<1>2. own \in [Tasks -> Priority] /\ 0 \in Priority
  BY QueuesAssumption, KernelAssumption DEF Priority
<1>3. priority \in [All -> Priority] /\ First \in Seq(Tasks) /\ IsInjective(First)
  BY <1>2, QueuesAssumption DEF All
<1> HIDE DEF priority
<1>4. \A l \in EventLists : Ev(Started(First, priority), l) = {}
  BY <1>3, StartedRight DEF Events
<1>5. \A l \in EventLists : Ev(k, l) = {}
  BY <1>1, <1>4 DEF priority
<1>6. \A q \in Queues : SendList(q) \in EventLists /\ ReceiveList(q) \in EventLists
  BY OwnLists
<1>7. LateOnly
  BY DEF Init, LateOnly, All
<1>8. QED
  BY <1>5, <1>6, <1>7 DEF WakesInv, WaitersRight, ItemsServed, PlacesServed

(* What is known of the lists, as the run states it.                       *)
LEMMA WakesFollow ==
  ASSUME ListsInv, WakesInv
  PROVE  NoLostWakeup
<1> SUFFICES ASSUME NEW q \in Queues
             PROVE  /\ k.events[ReceiveList(q)] # << >> =>
                         queue[q].waiting <=
                           Cardinality(Woken(ReceiveList(q))) + Noted(queue[q].txLock)
                    /\ k.events[SendList(q)] # << >> =>
                         Length[q] - queue[q].waiting <=
                           Cardinality(Woken(SendList(q))) + Noted(queue[q].rxLock)
  BY DEF NoLostWakeup, Noted
<1>1. k.events \in [Events -> Seq(All)]
  BY KernelTypes DEF ListsInv, KernelRight, Proper, Sound
<1>2. SendList(q) \in EventLists /\ ReceiveList(q) \in EventLists
  BY OwnLists
<1>3. ASSUME NEW l \in EventLists, k.events[l] # << >> PROVE Ev(k, l) # {}
  <2>1. k.events[l] \in Seq(All)
    BY <1>1 DEF Events
  <2>2. k.events[l][1] \in Ev(k, l)
    BY <1>3, <2>1 DEF Ev, ToSet
  <2>3. QED
    BY <2>2
<1>4. ItemsServed(q) /\ PlacesServed(q)
  BY DEF WakesInv
<1>5. QED
  BY <1>2, <1>3, <1>4 DEF ItemsServed, PlacesServed

(* No wake-up is lost, where no queue of more than one place is reset.     *)
THEOREM QueuesNoLostWakeup == ResetsSmall => (Spec => []NoLostWakeup)
<1>1. SUFFICES ASSUME ResetsSmall PROVE Spec => []NoLostWakeup
  OBVIOUS
<1>2. Init => ListsInv /\ WakesInv /\ LateOnly
  BY ListsInit, WakesInit
<1>3. ListsInv /\ WakesInv /\ LateOnly /\ [Next]_vars => ListsInv' /\ WakesInv' /\ LateOnly'
  BY <1>1, ListsStep, WakesStep, LateOnlyStep
<1>4. ListsInv /\ WakesInv => NoLostWakeup
  BY WakesFollow
<1>5. QED
  BY <1>2, <1>3, <1>4, PTL DEF Spec
=============================================================================
