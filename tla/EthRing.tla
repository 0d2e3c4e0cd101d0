------------------------------ MODULE EthRing ------------------------------
(***************************************************************************)
(* A ring of chained DMA descriptors, as eth_dmarxdesc_init and            *)
(* eth_dmatxdesc_init of perlib/eth.c build it.  A descriptor is named by  *)
(* its index in rx_descriptor[] or tx_descriptor[]; rdes3 / tdes3 of each  *)
(* holds its successor.                                                    *)
(***************************************************************************)
EXTENDS Naturals, Sequences, SequenceTheorems, TLAPS

CONSTANT Num        \* eth_rxbuff_num (4) or eth_txbuff_num (2)

ASSUME NumAssumption == Num \in Nat \ {0}

Idx == 0 .. Num - 1

(* Mistake: the last descriptor is not linked back to the first.           *)
NxtStraight(i) == i + 1

(* rdes3 / tdes3: every descriptor links to the next one, the last to the  *)
(* first.                                                                  *)
Nxt(i) == IF i < Num - 1 THEN i + 1 ELSE 0

(* How many links lead from one descriptor to another.                     *)
Dist(from, to) == IF from <= to THEN to - from ELSE to + Num - from

(* The descriptor reached from i after d links, 0 <= d < Num.              *)
At(i, d) == IF i + d < Num THEN i + d ELSE i + d - Num

(* The descriptors met on the way from `from' to `to'.  When both are the  *)
(* same the stretch is either nothing or the whole ring: `full' says which.*)
Stretch(from, to, full) ==
  {i \in Idx : \/ from = to /\ full
               \/ Dist(from, i) < Dist(from, to)}

-----------------------------------------------------------------------------
(* Lemmas about the ring, and about runs of consecutive numbers, which is  *)
(* what a first-in first-out queue of numbered frames holds: the proofs of *)
(* both halves of the driver rest on them.                                 *)

LEMMA NxtIdx == \A i \in Idx : Nxt(i) \in Idx
  BY NumAssumption DEF Idx, Nxt

LEMMA DistBound ==
  \A i, j \in Idx : Dist(i, j) \in 0 .. Num - 1 /\ (Dist(i, j) = 0 <=> i = j)
  BY NumAssumption DEF Idx, Dist

(* The end of a stretch moves on: its length grows by one, or the stretch  *)
(* closes on itself.                                                       *)
LEMMA DistNxtEnd ==
  \A i, j \in Idx : IF Nxt(j) = i THEN Dist(i, j) = Num - 1
                                  ELSE Dist(i, Nxt(j)) = Dist(i, j) + 1
  BY NumAssumption DEF Idx, Dist, Nxt

(* The start of a stretch moves on.                                        *)
LEMMA DistNxtStart ==
  \A i, j \in Idx : IF i = j THEN Dist(Nxt(i), j) = Num - 1
                             ELSE Dist(Nxt(i), j) = Dist(i, j) - 1
  BY NumAssumption DEF Idx, Dist, Nxt

LEMMA DistInjective ==
  \A i, j, k \in Idx : Dist(i, j) = Dist(i, k) => j = k
  BY NumAssumption DEF Idx, Dist

LEMMA AtProperties ==
  \A i \in Idx, d \in 0 .. Num - 1 : At(i, d) \in Idx /\ Dist(i, At(i, d)) = d
  BY NumAssumption DEF Idx, At, Dist

(* A stretch that is not the whole ring takes in the descriptor at its end.*)
LEMMA StretchGrows ==
  ASSUME NEW i \in Idx, NEW j \in Idx, NEW full \in BOOLEAN,
         ~(i = j /\ full)
  PROVE  Stretch(i, Nxt(j), TRUE) = Stretch(i, j, full) \cup {j}
  BY NxtIdx, DistBound, DistNxtEnd, DistInjective, NumAssumption
  DEF Stretch

(* A stretch that is not empty drops the descriptor at its start.          *)
LEMMA StretchShrinks ==
  ASSUME NEW i \in Idx, NEW j \in Idx, NEW full \in BOOLEAN,
         i # j \/ full, NEW stillFull \in BOOLEAN,
         stillFull => Nxt(i) # j
  PROVE  Stretch(Nxt(i), j, stillFull) = Stretch(i, j, full) \ {i}
  BY NxtIdx, DistBound, DistNxtStart, DistInjective, NumAssumption
  DEF Stretch

-----------------------------------------------------------------------------
(* Runs of numbers.                                                        *)

(* The n numbers that follow a.                                            *)
Run(a, n) == [k \in 1 .. n |-> a + k]

(* A run is a sequence of that length.                                     *)
LEMMA RunSeq ==
  ASSUME NEW a \in Nat, NEW n \in Nat
  PROVE  /\ Run(a, n) \in Seq(Nat)
         /\ Len(Run(a, n)) = n
         /\ \A k \in 1 .. n : Run(a, n)[k] = a + k
<1>1. \A k \in 1 .. n : a + k \in Nat
  OBVIOUS
<1>2. QED
  BY <1>1 DEF Run

(* Appending the next number makes the run longer.                         *)
LEMMA RunAppend ==
  ASSUME NEW a \in Nat, NEW n \in Nat
  PROVE  Append(Run(a, n), a + n + 1) = Run(a, n + 1)
<1> DEFINE s == Append(Run(a, n), a + n + 1)
           t == Run(a, n + 1)
<1>1. Run(a, n) \in Seq(Nat) /\ Len(Run(a, n)) = n /\ a + n + 1 \in Nat
  BY RunSeq
<1>2. /\ s \in Seq(Nat) /\ Len(s) = n + 1 /\ s[n + 1] = a + n + 1
      /\ \A k \in 1 .. n : s[k] = Run(a, n)[k]
  BY <1>1, AppendProperties
<1>3. t \in Seq(Nat) /\ Len(t) = n + 1 /\ \A k \in 1 .. n + 1 : t[k] = a + k
  BY RunSeq, n + 1 \in Nat
<1> HIDE DEF s, t
<1>4. \A k \in 1 .. n + 1 : s[k] = t[k]
  <2> SUFFICES ASSUME NEW k \in 1 .. n + 1 PROVE s[k] = t[k]
    OBVIOUS
  <2>1. CASE k = n + 1
    BY <1>2, <1>3, <2>1
  <2>2. CASE k \in 1 .. n
    BY <1>2, <1>3, <2>2, RunSeq
  <2>3. QED
    BY <2>1, <2>2
<1>5. s = t
  BY <1>2, <1>3, <1>4, SeqEqual
<1>6. QED
  BY <1>5 DEF s, t

(* Its first number is the one after a, and the rest is a run again.       *)
LEMMA RunTail ==
  ASSUME NEW a \in Nat, NEW n \in Nat \ {0}
  PROVE  /\ Run(a, n) # << >>
         /\ Head(Run(a, n)) = a + 1
         /\ Tail(Run(a, n)) = Run(a + 1, n - 1)
<1> DEFINE r == Run(a, n)
           s == Tail(r)
           t == Run(a + 1, n - 1)
<1>1. r \in Seq(Nat) /\ Len(r) = n /\ \A k \in 1 .. n : r[k] = a + k
  BY RunSeq
<1>2. t \in Seq(Nat) /\ Len(t) = n - 1 /\ \A k \in 1 .. n - 1 : t[k] = a + 1 + k
  BY RunSeq, a + 1 \in Nat, n - 1 \in Nat
<1> HIDE DEF r, t
<1>3. r # << >>
  BY <1>1
<1>4. Head(r) = r[1]
  BY <1>1, <1>3
<1>5. s \in Seq(Nat) /\ Len(s) = n - 1 /\ \A k \in 1 .. n - 1 : s[k] = r[k + 1]
  BY <1>1, <1>3, HeadTailProperties
<1> HIDE DEF s
<1>6. \A k \in 1 .. n - 1 : s[k] = t[k]
  BY <1>1, <1>2, <1>5
<1>7. s = t
  BY <1>2, <1>5, <1>6, SeqEqual
<1>8. QED
  BY <1>1, <1>3, <1>4, <1>7 DEF r, s, t
=============================================================================
