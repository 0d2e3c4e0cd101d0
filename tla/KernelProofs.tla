---------------------------- MODULE KernelProofs ----------------------------
EXTENDS Kernel, FiniteSetTheorems, SequenceTheorems, WellFoundedInduction, TLAPS
(***************************************************************************)
(* What the operations of Kernel.tla do to the lists of tasks.c, proved    *)
(* for any tasks, any priorities and any width of the tick count.  Each    *)
(* operation is described by what it makes of five sets, the ready, the    *)
(* delayed, the suspended, the terminated and those put off, and by how    *)
(* many ticks each delayed task has left; the proofs about Tasks.tla then  *)
(* need to look at lists, indices and wake times no more.  The last part   *)
(* says the same of the operations that the queues are built upon, those   *)
(* on the lists of waiting tasks, in the form that QueuesProofs.tla uses.  *)
(***************************************************************************)

(* Every non-empty set of naturals has a least element; used to pick the   *)
(* first place of a list where an insertion may go.                        *)
LEMMA Least ==
  ASSUME NEW T, T \subseteq Nat, T # {}
  PROVE  \E n \in T : \A m \in T : n <= m
<1> DEFINE R == OpToRel(<, Nat)
<1>1. IsWellFoundedOn(R, Nat)
  BY NatLessThanWellFounded
<1>2. \A x, y \in Nat : <<y, x>> \in R <=> y < x
  BY DEF OpToRel
<1> HIDE DEF R
<1>3. PICK x \in T : \A y \in T : ~ (<<y, x>> \in R)
  BY <1>1, WFMin
<1>4. \A y \in T : ~ (y < x)
  BY <1>2, <1>3
<1>5. QED
  BY <1>4

(* A non-empty set of naturals below a bound has a greatest element; used  *)
(* for the highest ready priority.                                         *)
LEMMA Greatest ==
  ASSUME NEW n \in Nat, NEW T, T \subseteq 0 .. n, T # {}
  PROVE  \E m \in T : \A i \in T : i <= m
<1> DEFINE U == {n - i : i \in T}
<1>1. U \subseteq Nat /\ U # {}
  <2>1. \A i \in T : n - i \in Nat
    OBVIOUS
  <2>2. QED
    BY <2>1
<1>2. PICK u \in U : \A v \in U : u <= v
  BY <1>1, Least
<1>3. PICK m \in T : u = n - m
  OBVIOUS
<1>4. \A i \in T : n - m <= n - i
  BY <1>2, <1>3
<1>5. QED
  BY <1>4

(* A set of naturals that has 0 and with n also n + 1 has them all. The    *)
(* induction the proofs below use: over the items of a list and over the   *)
(* ticks put off.                                                          *)
LEMMA Induct ==
  ASSUME NEW T, 0 \in T, \A n \in Nat : n \in T => n + 1 \in T
  PROVE  Nat \subseteq T
<1> SUFFICES ASSUME Nat \ T # {} PROVE FALSE
  OBVIOUS
<1>1. PICK n \in Nat \ T : \A m \in Nat \ T : n <= m
  BY Least
<1>2. n - 1 \in Nat /\ n - 1 \in T
  BY <1>1
<1>3. QED
  BY <1>1, <1>2

(* Kept is well defined: there is a function that satisfies its recursion, *)
(* one item of the list after the other.                                   *)
LEMMA KeptDef ==
  ASSUME NEW s, Len(s) \in Nat, NEW S
  PROVE  Kept(s, S) = [n \in 0 .. Len(s) |->
           IF n = 0 THEN << >>
           ELSE IF s[n] \in S THEN Kept(s, S)[n - 1] ELSE Append(Kept(s, S)[n - 1], s[n])]
<1> DEFINE Further(f, n) == IF n = 0 THEN << >>
                            ELSE IF s[n] \in S THEN f[n - 1] ELSE Append(f[n - 1], s[n])
           T == {n \in Nat : \E f : f = [i \in 0 .. n |-> Further(f, i)]}
<1>1. 0 \in T
  <2>1. [i \in 0 .. 0 |-> << >>] = [i \in 0 .. 0 |-> Further([j \in 0 .. 0 |-> << >>], i)]
    OBVIOUS
  <2>2. QED
    BY <2>1
<1>2. ASSUME NEW n \in Nat, n \in T PROVE n + 1 \in T
  <2>1. PICK f : f = [i \in 0 .. n |-> Further(f, i)]
    BY <1>2
  <2> DEFINE last == Further(f, n + 1)
  <2> HIDE DEF last
  <2> DEFINE g == [i \in 0 .. n + 1 |-> IF i = n + 1 THEN last ELSE f[i]]
  <2>2. \A i \in 0 .. n : g[i] = f[i]
    OBVIOUS
  <2>3. g[n + 1] = last
    OBVIOUS
  <2>4. \A i \in 0 .. n : Further(g, i) = Further(f, i)
    BY <2>2
  <2>5. Further(g, n + 1) = last
    BY <2>2 DEF last
  <2>6. DOMAIN g = 0 .. n + 1 /\ g = [i \in DOMAIN g |-> g[i]]
    OBVIOUS
  <2> HIDE DEF g, Further
  <2>7. \A i \in 0 .. n + 1 : g[i] = Further(g, i)
    <3>1. TAKE i \in 0 .. n + 1
    <3>2. CASE i = n + 1
      BY <3>2, <2>3, <2>5
    <3>3. CASE i \in 0 .. n
      <4>1. f[i] = Further(f, i)
        BY <2>1, <3>3
      <4>2. QED
        BY <4>1, <3>3, <2>2, <2>4
    <3>4. QED
      BY <3>2, <3>3
  <2>8. g = [i \in 0 .. n + 1 |-> Further(g, i)]
    BY <2>6, <2>7
  <2>9. QED
    BY <2>8
<1>3. Nat \subseteq T
  BY <1>1, <1>2, Induct
<1>4. PICK f : f = [i \in 0 .. Len(s) |-> Further(f, i)]
  BY <1>3
<1>5. QED
  BY <1>4 DEF Kept

(* Kept as its two steps: of no items nothing is kept, and the next item is*)
(* kept unless it is one of those removed.                                 *)
LEMMA KeptSteps ==
  ASSUME NEW s, Len(s) \in Nat, NEW S
  PROVE  /\ Kept(s, S)[0] = << >>
         /\ \A n \in 0 .. Len(s) - 1 :
              Kept(s, S)[n + 1] = IF s[n + 1] \in S THEN Kept(s, S)[n]
                                  ELSE Append(Kept(s, S)[n], s[n + 1])
<1> DEFINE f == Kept(s, S)
<1>1. f = [n \in 0 .. Len(s) |->
             IF n = 0 THEN << >>
             ELSE IF s[n] \in S THEN f[n - 1] ELSE Append(f[n - 1], s[n])]
  BY KeptDef
<1> HIDE DEF f
<1>2. f[0] = << >>
  BY <1>1
<1>3. ASSUME NEW n \in 0 .. Len(s) - 1
      PROVE  f[n + 1] = IF s[n + 1] \in S THEN f[n] ELSE Append(f[n], s[n + 1])
  <2>1. n + 1 \in 0 .. Len(s) /\ n + 1 # 0 /\ n + 1 - 1 = n
    OBVIOUS
  <2> DEFINE Next(i) == IF i = 0 THEN << >>
               ELSE IF s[i] \in S THEN f[i - 1] ELSE Append(f[i - 1], s[i])
  <2>2. Next(n + 1) = IF s[n + 1] \in S THEN f[n] ELSE Append(f[n], s[n + 1])
    BY <2>1
  <2> HIDE DEF Next
  <2>3. f = [i \in 0 .. Len(s) |-> Next(i)]
    BY <1>1 DEF Next
  <2>4. f[n + 1] = Next(n + 1)
    BY <2>1, <2>3
  <2>5. QED
    BY <2>4, <2>2
<1>4. QED
  BY <1>2, <1>3 DEF f

(* What Kept(s, S)[n] is: items of s outside S, all of them up to n, and in*)
(* their order.                                                            *)
Sifted(r, s, S, n) ==
  /\ \A i \in 1 .. Len(r) : \E a \in 1 .. n : s[a] \notin S /\ r[i] = s[a]
  /\ \A a \in 1 .. n : s[a] \notin S => \E i \in 1 .. Len(r) : r[i] = s[a]
  /\ \A i, j \in 1 .. Len(r) : i < j =>
       \E a, b \in 1 .. n : a < b /\ r[i] = s[a] /\ r[j] = s[b]

(* Kept(s, S)[n] is what is left of the first n items of s once those in S *)
(* are removed (uxListRemove for each), and it never shrinks as n grows.   *)
LEMMA KeptRight ==
  ASSUME NEW A, NEW s \in Seq(A), NEW S
  PROVE  \A n \in 0 .. Len(s) :
           /\ Kept(s, S)[n] \in Seq(A)
           /\ Sifted(Kept(s, S)[n], s, S, n)
           /\ \A m \in 0 .. n : Len(Kept(s, S)[m]) <= Len(Kept(s, S)[n])
<1> DEFINE f == Kept(s, S)
           P(n) == /\ f[n] \in Seq(A)
                   /\ Sifted(f[n], s, S, n)
                   /\ \A m \in 0 .. n : Len(f[m]) <= Len(f[n])
           T == {n \in Nat : n <= Len(s) => P(n)}
<1>1. f[0] = << >> /\ \A n \in 0 .. Len(s) - 1 :
         f[n + 1] = IF s[n + 1] \in S THEN f[n] ELSE Append(f[n], s[n + 1])
  BY KeptSteps
<1> HIDE DEF f
<1>2. 0 \in T
  <2>1. P(0)
    BY <1>1 DEF Sifted
  <2>2. QED
    BY <2>1
<1>3. ASSUME NEW n \in Nat, n \in T PROVE n + 1 \in T
  <2>1. SUFFICES ASSUME n + 1 <= Len(s) PROVE P(n + 1)
    OBVIOUS
  <2>2. P(n)
    BY <1>3, <2>1
  <2>3. n \in 0 .. Len(s) - 1 /\ n + 1 \in 1 .. Len(s)
    BY <2>1
  <2>4. CASE s[n + 1] \in S
    <3>1. f[n + 1] = f[n]
      BY <1>1, <2>3, <2>4
    <3>2. Sifted(f[n], s, S, n + 1)
      BY <2>2, <2>4 DEF Sifted
    <3>3. QED
      BY <3>1, <3>2, <2>2
  <2>5. CASE s[n + 1] \notin S
    <3> DEFINE r == f[n]
               x == s[n + 1]
               q == Append(r, x)
    <3>1. f[n + 1] = q
      BY <1>1, <2>3, <2>5
    <3>2. r \in Seq(A) /\ x \in A
      BY <2>2, <2>3
    <3>3. q \in Seq(A) /\ Len(q) = Len(r) + 1 /\ q[Len(r) + 1] = x
          /\ \A i \in 1 .. Len(r) : q[i] = r[i]
      BY <3>2, AppendProperties
    <3>4. Sifted(r, s, S, n) /\ \A m \in 0 .. n : Len(f[m]) <= Len(r)
      BY <2>2
    <3>5. Len(r) \in Nat
      BY <3>2
    <3> HIDE DEF q, r
    <3>6. \A i \in 1 .. Len(q) : i \in 1 .. Len(r) \/ i = Len(r) + 1
      BY <3>3, <3>5
    <3>7. ASSUME NEW i \in 1 .. Len(q)
          PROVE  \E a \in 1 .. n + 1 : s[a] \notin S /\ q[i] = s[a]
      <4>1. CASE i \in 1 .. Len(r)
        <5>1. PICK a \in 1 .. n : s[a] \notin S /\ r[i] = s[a]
          BY <4>1, <3>4 DEF Sifted
        <5>2. a \in 1 .. n + 1 /\ q[i] = s[a]
          BY <5>1, <4>1, <3>3
        <5>3. QED
          BY <5>1, <5>2
      <4>2. CASE i = Len(r) + 1
        <5>1. n + 1 \in 1 .. n + 1 /\ q[i] = s[n + 1]
          BY <4>2, <3>3
        <5>2. QED
          BY <5>1, <2>5
      <4>3. QED
        BY <4>1, <4>2, <3>6
    <3>8. ASSUME NEW a \in 1 .. n + 1, s[a] \notin S
          PROVE  \E i \in 1 .. Len(q) : q[i] = s[a]
      <4>1. CASE a \in 1 .. n
        <5>1. PICK i \in 1 .. Len(r) : r[i] = s[a]
          BY <4>1, <3>8, <3>4 DEF Sifted
        <5>2. i \in 1 .. Len(q)
          BY <3>3, <3>5
        <5>3. QED
          BY <5>1, <5>2, <3>3
      <4>2. CASE a = n + 1
        <5>1. Len(r) + 1 \in 1 .. Len(q)
          BY <3>3, <3>5
        <5>2. QED
          BY <5>1, <4>2, <3>3
      <4>3. QED
        BY <4>1, <4>2
    <3>9. ASSUME NEW i \in 1 .. Len(q), NEW j \in 1 .. Len(q), i < j
          PROVE  \E a, b \in 1 .. n + 1 : a < b /\ q[i] = s[a] /\ q[j] = s[b]
      <4>1. i \in 1 .. Len(r)
        BY <3>3, <3>5, <3>9
      <4>2. CASE j \in 1 .. Len(r)
        <5>1. PICK a, b \in 1 .. n : a < b /\ r[i] = s[a] /\ r[j] = s[b]
          BY <4>1, <4>2, <3>9, <3>4 DEF Sifted
        <5>2. a \in 1 .. n + 1 /\ b \in 1 .. n + 1
          OBVIOUS
        <5>3. QED
          BY <5>1, <5>2, <4>1, <4>2, <3>3
      <4>3. CASE j = Len(r) + 1
        <5>1. PICK a \in 1 .. n : r[i] = s[a]
          BY <4>1, <3>4 DEF Sifted
        <5>2. a \in 1 .. n + 1 /\ n + 1 \in 1 .. n + 1 /\ a < n + 1
          OBVIOUS
        <5>3. QED
          BY <5>1, <5>2, <4>1, <4>3, <3>3
      <4>4. QED
        BY <4>2, <4>3, <3>6
    <3>10. \A m \in 0 .. n + 1 : Len(f[m]) <= Len(q)
      BY <3>1, <3>3, <3>4, <3>5
    <3>11. Sifted(q, s, S, n + 1)
      BY <3>7, <3>8, <3>9 DEF Sifted
    <3>12. QED
      BY <3>1, <3>3, <3>10, <3>11
  <2>6. QED
    BY <2>4, <2>5
<1>4. Nat \subseteq T
  BY <1>2, <1>3, Induct
<1>5. \A n \in 0 .. Len(s) : P(n)
  BY <1>4
<1>6. QED
  BY <1>5 DEF f

(* The items of a list stand in the order of their value, as vListInsert   *)
(* keeps them.                                                             *)
Sorted(s, value) == \A i, j \in 1 .. Len(s) : i < j => value[s[i]] <= value[s[j]]

(* Removing tasks from a list (uxListRemove) leaves exactly the others,    *)
(* each once if it was there once, in the order they had.                  *)
LEMMA WithoutRight ==
  ASSUME NEW A, NEW s \in Seq(A), NEW S
  PROVE  /\ Without(s, S) \in Seq(A)
         /\ ToSet(Without(s, S)) = ToSet(s) \ S
         /\ IsInjective(s) => IsInjective(Without(s, S))
         /\ \A value : Sorted(s, value) => Sorted(Without(s, S), value)
         /\ \A n \in 0 .. Len(s) : Len(Kept(s, S)[n]) \in 0 .. Len(Without(s, S))
<1> DEFINE r == Without(s, S)
           n == Len(s)
<1>1. n \in 0 .. n
  OBVIOUS
<1>2. r \in Seq(A) /\ Sifted(r, s, S, n) /\ \A m \in 0 .. n : Len(Kept(s, S)[m]) <= Len(r)
  BY <1>1, KeptRight DEF Without
<1>3. \A m \in 0 .. n : Kept(s, S)[m] \in Seq(A)
  BY KeptRight
<1> HIDE DEF r
<1>4. \A m \in 0 .. n : Len(Kept(s, S)[m]) \in 0 .. Len(r)
  BY <1>2, <1>3
<1>5. ToSet(r) = ToSet(s) \ S
  <2>1. ToSet(r) = {r[i] : i \in 1 .. Len(r)} /\ ToSet(s) = {s[i] : i \in 1 .. n}
    BY <1>2 DEF ToSet
  <2>2. \A i \in 1 .. Len(r) : \E a \in 1 .. n : s[a] \notin S /\ r[i] = s[a]
    BY <1>2 DEF Sifted
  <2>3. \A a \in 1 .. n : s[a] \notin S => \E i \in 1 .. Len(r) : r[i] = s[a]
    BY <1>2 DEF Sifted
  <2> HIDE DEF n
  <2>4. QED
    BY <2>1, <2>2, <2>3
<1>6. \A i, j \in 1 .. Len(r) : i < j =>
        \E a, b \in 1 .. n : a < b /\ r[i] = s[a] /\ r[j] = s[b]
  BY <1>2 DEF Sifted
<1>7. ASSUME IsInjective(s) PROVE IsInjective(r)
  <2>1. ASSUME NEW i \in 1 .. Len(r), NEW j \in 1 .. Len(r), i < j PROVE r[i] # r[j]
    <3>1. PICK a, b \in 1 .. n : a < b /\ r[i] = s[a] /\ r[j] = s[b]
      BY <1>6, <2>1
    <3>2. a \in DOMAIN s /\ b \in DOMAIN s /\ a # b
      BY <3>1
    <3>3. QED
      BY <3>1, <3>2, <1>7 DEF IsInjective
  <2>2. \A i, j \in 1 .. Len(r) : i = j \/ i < j \/ j < i
    OBVIOUS
  <2>3. DOMAIN r = 1 .. Len(r)
    BY <1>2
  <2>4. QED
    BY <2>1, <2>2, <2>3 DEF IsInjective
<1>8. ASSUME NEW value, Sorted(s, value) PROVE Sorted(r, value)
  <2>1. ASSUME NEW i \in 1 .. Len(r), NEW j \in 1 .. Len(r), i < j
        PROVE  value[r[i]] <= value[r[j]]
    <3>1. PICK a, b \in 1 .. n : a < b /\ r[i] = s[a] /\ r[j] = s[b]
      BY <1>6, <2>1
    <3>2. value[s[a]] <= value[s[b]]
      BY <3>1, <1>8 DEF Sorted
    <3>3. QED
      BY <3>1, <3>2
  <2>2. QED
    BY <2>1 DEF Sorted
<1>9. QED
  BY <1>2, <1>4, <1>5, <1>7, <1>8 DEF r

(* r is s with w put in behind the first m items.                          *)
Spliced(r, s, w, m) ==
  /\ Len(r) = Len(s) + Len(w)
  /\ \A i \in 1 .. m : r[i] = s[i]
  /\ \A i \in 1 .. Len(w) : r[m + i] = w[i]
  /\ \A i \in m + 1 .. Len(s) : r[i + Len(w)] = s[i]

(* Cutting s behind m items and putting w between is a list spliced so.    *)
LEMMA SpliceIs ==
  ASSUME NEW A, NEW s \in Seq(A), NEW w \in Seq(A), NEW m \in 0 .. Len(s)
  PROVE  LET r == SubSeq(s, 1, m) \o w \o SubSeq(s, m + 1, Len(s))
         IN  r \in Seq(A) /\ Spliced(r, s, w, m)
<1> DEFINE n == Len(s)
           a == SubSeq(s, 1, m)
           b == SubSeq(s, m + 1, n)
           c == a \o w
           r == c \o b
<1>1. n \in Nat /\ Len(w) \in Nat /\ m \in Nat /\ m <= n
  OBVIOUS
<1>2. a \in Seq(A) /\ Len(a) = m /\ \A i \in 1 .. m : a[i] = s[i]
  BY <1>1, SubSeqProperties
<1>3. b \in Seq(A) /\ Len(b) = n - m
  BY <1>1, SubSeqProperties
<1>4. ASSUME NEW i \in m + 1 .. n PROVE b[i - m] = s[i]
  <2>1. i - m \in 1 .. n - m
    BY <1>1
  <2>2. b[i - m] = s[m + 1 + (i - m) - 1]
    BY <2>1, <1>1, SubSeqProperties
  <2>3. m + 1 + (i - m) - 1 = i
    BY <1>1
  <2>4. QED
    BY <2>2, <2>3
<1> HIDE DEF a, b
<1>5. c \in Seq(A) /\ Len(c) = m + Len(w)
      /\ (\A i \in 1 .. m : c[i] = s[i]) /\ \A i \in 1 .. Len(w) : c[m + i] = w[i]
  <2>1. c \in Seq(A) /\ Len(c) = Len(a) + Len(w)
        /\ \A i \in 1 .. Len(a) + Len(w) : c[i] = IF i <= Len(a) THEN a[i] ELSE w[i - Len(a)]
    BY <1>2, ConcatProperties
  <2> HIDE DEF c
  <2>2. \A i \in 1 .. m : c[i] = s[i]
    BY <2>1, <1>1, <1>2
  <2>3. ASSUME NEW i \in 1 .. Len(w) PROVE c[m + i] = w[i]
    <3>1. m + i \in 1 .. m + Len(w) /\ ~ (m + i <= m) /\ m + i - m = i
      BY <1>1
    <3>2. QED
      BY <3>1, <2>1, <1>2
  <2>4. QED
    BY <2>1, <2>2, <2>3, <1>2
<1> HIDE DEF c
<1>6. r \in Seq(A) /\ Len(r) = Len(c) + Len(b)
        /\ \A i \in 1 .. Len(c) + Len(b) : r[i] = IF i <= Len(c) THEN c[i] ELSE b[i - Len(c)]
  BY <1>3, <1>5, ConcatProperties
<1> HIDE DEF r
<1>7. Len(r) = n + Len(w)
  BY <1>1, <1>3, <1>5, <1>6
<1>8. ASSUME NEW i \in 1 .. m PROVE r[i] = s[i]
  <2>1. i \in 1 .. Len(c) + Len(b) /\ i <= Len(c)
    BY <1>1, <1>3, <1>5
  <2>2. QED
    BY <2>1, <1>5, <1>6
<1>9. ASSUME NEW i \in 1 .. Len(w) PROVE r[m + i] = w[i]
  <2>1. m + i \in 1 .. Len(c) + Len(b) /\ m + i <= Len(c)
    BY <1>1, <1>3, <1>5
  <2>2. QED
    BY <2>1, <1>5, <1>6
<1>10. ASSUME NEW i \in m + 1 .. n PROVE r[i + Len(w)] = s[i]
  <2>1. /\ i + Len(w) \in 1 .. Len(c) + Len(b) /\ ~ (i + Len(w) <= Len(c))
        /\ i + Len(w) - Len(c) = i - m
    BY <1>1, <1>3, <1>5
  <2>2. QED
    BY <2>1, <1>4, <1>6
<1>11. Spliced(r, s, w, m)
  BY <1>7, <1>8, <1>9, <1>10 DEF Spliced
<1>12. QED
  BY <1>6, <1>11 DEF r, c, a, b

(* A list with others put into it holds both, and everybody once if nobody *)
(* was in both.                                                            *)
LEMMA SplicedRight ==
  ASSUME NEW A, NEW s \in Seq(A), NEW w \in Seq(A), NEW r \in Seq(A),
         NEW m \in 0 .. Len(s), Spliced(r, s, w, m)
  PROVE  /\ ToSet(r) = ToSet(s) \cup ToSet(w)
         /\ IsInjective(s) /\ IsInjective(w) /\ ToSet(s) \cap ToSet(w) = {} => IsInjective(r)
<1> DEFINE n == Len(s)
           l == Len(w)
<1>1. n \in Nat /\ l \in Nat /\ m \in Nat /\ m <= n
  OBVIOUS
<1>2. /\ Len(r) = n + l
      /\ \A i \in 1 .. m : r[i] = s[i]
      /\ \A i \in 1 .. l : r[m + i] = w[i]
      /\ \A i \in m + 1 .. n : r[i + l] = s[i]
  BY DEF Spliced
<1>3. /\ DOMAIN r = 1 .. n + l /\ ToSet(r) = {r[i] : i \in 1 .. n + l}
      /\ DOMAIN s = 1 .. n /\ ToSet(s) = {s[i] : i \in 1 .. n}
      /\ DOMAIN w = 1 .. l /\ ToSet(w) = {w[i] : i \in 1 .. l}
  <2>1. DOMAIN r = 1 .. n + l
    <3>1. DOMAIN r = 1 .. Len(r)
      OBVIOUS
    <3>2. QED
      BY <3>1, <1>2
  <2>2. DOMAIN s = 1 .. n /\ DOMAIN w = 1 .. l
    OBVIOUS
  <2>3. QED
    BY <2>1, <2>2, Zenon DEF ToSet
<1> HIDE DEF n, l
<1> DEFINE Source(i) == IF i <= m THEN i ELSE i - l
<1>4. ASSUME NEW i \in 1 .. n + l
      PROVE  \/ i \in m + 1 .. m + l /\ i - m \in 1 .. l /\ r[i] = w[i - m]
             \/ i \notin m + 1 .. m + l /\ Source(i) \in 1 .. n /\ r[i] = s[Source(i)]
  <2>1. CASE i \in m + 1 .. m + l
    <3>1. i - m \in 1 .. l /\ m + (i - m) = i
      BY <2>1, <1>1
    <3>2. QED
      BY <2>1, <3>1, <1>2
  <2>2. CASE i <= m
    BY <2>2, <1>1, <1>2
  <2>3. CASE i > m + l
    <3>1. i - l \in m + 1 .. n /\ i - l \in 1 .. n /\ i - l + l = i /\ ~ (i <= m)
          /\ i \notin m + 1 .. m + l
      BY <2>3, <1>1
    <3>2. r[i] = s[i - l]
      BY <3>1, <1>2
    <3>3. QED
      BY <3>1, <3>2
  <2>4. QED
    BY <2>1, <2>2, <2>3, <1>1
<1>5. ToSet(r) \subseteq ToSet(s) \cup ToSet(w)
  BY <1>3, <1>4
<1>6. ASSUME NEW j \in 1 .. n PROVE s[j] \in ToSet(r)
  <2>1. CASE j <= m
    <3>1. j \in 1 .. n + l /\ r[j] = s[j]
      BY <2>1, <1>1, <1>2
    <3>2. QED
      BY <3>1, <1>3
  <2>2. CASE j > m
    <3>1. j + l \in 1 .. n + l /\ r[j + l] = s[j]
      BY <2>2, <1>1, <1>2
    <3>2. QED
      BY <3>1, <1>3
  <2>3. QED
    BY <2>1, <2>2, <1>1
<1>7. ASSUME NEW j \in 1 .. l PROVE w[j] \in ToSet(r)
  <2>1. m + j \in 1 .. n + l /\ r[m + j] = w[j]
    BY <1>1, <1>2
  <2>2. QED
    BY <2>1, <1>3
<1>8. ToSet(s) \cup ToSet(w) \subseteq ToSet(r)
  BY <1>3, <1>6, <1>7
<1>9. ASSUME IsInjective(s), IsInjective(w), ToSet(s) \cap ToSet(w) = {}
      PROVE  IsInjective(r)
  <2>1. SUFFICES ASSUME NEW i \in 1 .. n + l, NEW j \in 1 .. n + l, r[i] = r[j] PROVE i = j
    BY <1>3 DEF IsInjective
  <2>2. \A x \in 1 .. n, y \in 1 .. l : s[x] # w[y]
    BY <1>9, <1>3
  <2>3. CASE i \in m + 1 .. m + l /\ j \in m + 1 .. m + l
    <3>1. /\ i - m \in 1 .. l /\ r[i] = w[i - m]
          /\ j - m \in 1 .. l /\ r[j] = w[j - m]
      BY <2>3, <1>4
    <3>2. i - m = j - m
      BY <3>1, <2>1, <1>9, <1>3 DEF IsInjective
    <3>3. QED
      BY <3>2, <1>1
  <2>4. CASE i \notin m + 1 .. m + l /\ j \notin m + 1 .. m + l
    <3>1. /\ Source(i) \in 1 .. n /\ r[i] = s[Source(i)]
          /\ Source(j) \in 1 .. n /\ r[j] = s[Source(j)]
      BY <2>4, <1>4
    <3>2. Source(i) = Source(j)
      BY <3>1, <2>1, <1>9, <1>3 DEF IsInjective
    <3>3. QED
      BY <3>2, <2>4, <1>1
  <2>5. CASE i \in m + 1 .. m + l /\ j \notin m + 1 .. m + l
    BY <2>5, <1>4, <2>1, <2>2
  <2>6. CASE i \notin m + 1 .. m + l /\ j \in m + 1 .. m + l
    BY <2>6, <1>4, <2>1, <2>2
  <2>7. QED
    BY <2>3, <2>4, <2>5, <2>6
<1>10. QED
  BY <1>5, <1>8, <1>9

(* List_t of list.c: the items and the index that takes turns.             *)
Lists(A) == [items : Seq(A), index : Nat]

(* vListInsertEnd, one task after another: the list holds those that were  *)
(* there and the new ones, its index stays inside it, and nobody is in it  *)
(* twice if he was not in it before.                                       *)
LEMMA InsertEndRight ==
  ASSUME NEW A, NEW l \in Lists(A), l.index <= Len(l.items), NEW w \in Seq(A)
  PROVE  /\ InsertEnd(l, w) \in Lists(A)
         /\ InsertEnd(l, w).index \in 0 .. Len(InsertEnd(l, w).items)
         /\ ToSet(InsertEnd(l, w).items) = ToSet(l.items) \cup ToSet(w)
         /\ IsInjective(l.items) /\ IsInjective(w) /\ ToSet(l.items) \cap ToSet(w) = {}
              => IsInjective(InsertEnd(l, w).items)
<1> DEFINE s == l.items
           q == InsertEnd(l, w)
<1>1. s \in Seq(A) /\ l.index \in Nat /\ Len(s) \in Nat /\ Len(w) \in Nat
  BY DEF Lists
<1>2. CASE l.index = 0
  <2>1. q.items = s \o w /\ q.index = 0 /\ q = [items |-> s \o w, index |-> 0]
    BY <1>2 DEF InsertEnd, Lists
  <2>2. s \o w \in Seq(A) /\ Len(s \o w) = Len(s) + Len(w)
        /\ \A i \in 1 .. Len(s) + Len(w) :
              (s \o w)[i] = IF i <= Len(s) THEN s[i] ELSE w[i - Len(s)]
    BY <1>1, ConcatProperties
  <2> DEFINE r == s \o w
  <2> HIDE DEF r, s, q
  <2>3. \A i \in 1 .. Len(s) : r[i] = s[i]
    BY <1>1, <2>2 DEF r
  <2>4. ASSUME NEW i \in 1 .. Len(w) PROVE r[Len(s) + i] = w[i]
    <3>1. Len(s) + i \in 1 .. Len(s) + Len(w) /\ ~ (Len(s) + i <= Len(s))
          /\ Len(s) + i - Len(s) = i
      BY <1>1
    <3>2. QED
      BY <3>1, <2>2 DEF r
  <2>5. Len(s) \in 0 .. Len(s) /\ Len(r) = Len(s) + Len(w)
        /\ \A i \in Len(s) + 1 .. Len(s) : r[i + Len(w)] = s[i]
    BY <1>1, <2>2 DEF r
  <2>6. Spliced(r, s, w, Len(s))
    BY <2>3, <2>4, <2>5 DEF Spliced
  <2>7. r \in Seq(A) /\ 0 \in 0 .. Len(r)
    BY <2>2 DEF r
  <2>8. /\ ToSet(r) = ToSet(s) \cup ToSet(w)
        /\ IsInjective(s) /\ IsInjective(w) /\ ToSet(s) \cap ToSet(w) = {} => IsInjective(r)
    BY <2>5, <2>6, <2>7, <1>1, SplicedRight
  <2>9. q \in Lists(A)
    BY <2>1, <2>7 DEF Lists, r
  <2>10. QED
    BY <2>1, <2>7, <2>8, <2>9 DEF r, s, q
<1>3. CASE l.index # 0
  <2> DEFINE m == l.index - 1
             r == SubSeq(s, 1, m) \o w \o SubSeq(s, m + 1, Len(s))
  <2>1. m \in 0 .. Len(s) /\ m + 1 = l.index
    BY <1>1, <1>3
  <2>2. q = [items |-> r, index |-> l.index + Len(w)]
    BY <1>3, <2>1 DEF InsertEnd
  <2>3. r \in Seq(A) /\ Spliced(r, s, w, m)
    BY <1>1, <2>1, SpliceIs
  <2> HIDE DEF r, m
  <2>4. /\ ToSet(r) = ToSet(s) \cup ToSet(w)
        /\ IsInjective(s) /\ IsInjective(w) /\ ToSet(s) \cap ToSet(w) = {} => IsInjective(r)
    BY <2>1, <2>3, <1>1, SplicedRight
  <2>5. Len(r) = Len(s) + Len(w)
    BY <2>3 DEF Spliced
  <2>6. l.index + Len(w) \in Nat /\ l.index + Len(w) \in 0 .. Len(r)
    BY <1>1, <2>5
  <2>7. q.items = r /\ q.index = l.index + Len(w) /\ q \in Lists(A)
    BY <2>2, <2>3, <2>6 DEF Lists
  <2> HIDE DEF q
  <2>8. QED
    BY <2>4, <2>6, <2>7 DEF q
<1>4. QED
  BY <1>2, <1>3

(* uxListRemove for each of S: the others stay, each once, and the index   *)
(* stays inside the list.                                                  *)
LEMMA RemoveItemsRight ==
  ASSUME NEW A, NEW l \in Lists(A), l.index <= Len(l.items), NEW S
  PROVE  /\ RemoveItems(l, S) \in Lists(A)
         /\ RemoveItems(l, S).index \in 0 .. Len(RemoveItems(l, S).items)
         /\ ToSet(RemoveItems(l, S).items) = ToSet(l.items) \ S
         /\ IsInjective(l.items) => IsInjective(RemoveItems(l, S).items)
<1> DEFINE s == l.items
           r == Without(s, S)
           i == Len(Kept(s, S)[l.index])
<1>1. s \in Seq(A) /\ l.index \in 0 .. Len(s)
  BY DEF Lists
<1>2. r \in Seq(A) /\ ToSet(r) = ToSet(s) \ S /\ (IsInjective(s) => IsInjective(r))
      /\ i \in 0 .. Len(r)
  BY <1>1, WithoutRight
<1>3. RemoveItems(l, S) = [items |-> r, index |-> i]
  BY DEF RemoveItems
<1> HIDE DEF r, i
<1>4. QED
  BY <1>2, <1>3 DEF Lists

(* vListInsert puts one task into a list by its value: a sorted list stays *)
(* sorted, and everybody is in it once.                                    *)
LEMMA InsertRight ==
  ASSUME NEW A, NEW s \in Seq(A), NEW t \in A, NEW value \in [A -> Nat]
  PROVE  /\ Insert(s, t, value) \in Seq(A)
         /\ ToSet(Insert(s, t, value)) = ToSet(s) \cup {t}
         /\ IsInjective(s) /\ t \notin ToSet(s) => IsInjective(Insert(s, t, value))
         /\ Sorted(s, value) => Sorted(Insert(s, t, value), value)
<1> DEFINE n == Len(s)
           greater == {i \in 1 .. n : value[s[i]] > value[t]}
           at == CHOOSE i \in greater \cup {n + 1} : \A j \in greater : i <= j
           m == at - 1
           w == <<t>>
           r == SubSeq(s, 1, m) \o w \o SubSeq(s, m + 1, n)
<1>1. n \in Nat
  OBVIOUS
<1>2. \E i \in greater \cup {n + 1} : \A j \in greater : i <= j
  <2>1. CASE greater = {}
    BY <2>1
  <2>2. CASE greater # {}
    <3>1. greater \subseteq Nat
      BY <1>1
    <3>2. \E i \in greater : \A j \in greater : i <= j
      BY <3>1, <2>2, Least
    <3>3. QED
      BY <3>2
  <2>3. QED
    BY <2>1, <2>2
<1>3. at \in greater \cup {n + 1} /\ \A j \in greater : at <= j
  BY <1>2
<1>4. Insert(s, t, value) = SubSeq(s, 1, at - 1) \o w \o SubSeq(s, at, n)
  BY DEF Insert
<1> HIDE DEF at
<1>5. m \in 0 .. n /\ m + 1 = at
  BY <1>1, <1>3
<1>6. w \in Seq(A) /\ Len(w) = 1 /\ w[1] = t /\ ToSet(w) = {t} /\ IsInjective(w)
  BY DEF ToSet, IsInjective
<1>7. r \in Seq(A) /\ Spliced(r, s, w, m)
  BY <1>5, <1>6, SpliceIs
<1>8. Insert(s, t, value) = r
  BY <1>4, <1>5
<1> HIDE DEF r, w
<1>9. /\ ToSet(r) = ToSet(s) \cup ToSet(w)
      /\ IsInjective(s) /\ IsInjective(w) /\ ToSet(s) \cap ToSet(w) = {} => IsInjective(r)
  BY <1>5, <1>6, <1>7, SplicedRight
<1>10. /\ Len(r) = n + 1
       /\ \A i \in 1 .. m : r[i] = s[i]
       /\ r[m + 1] = t
       /\ \A i \in m + 1 .. n : r[i + 1] = s[i]
  BY <1>6, <1>7 DEF Spliced
<1>11. ASSUME Sorted(s, value) PROVE Sorted(r, value)
  <2> DEFINE v(i) == value[s[i]]
  <2>1. \A i \in 1 .. n : v(i) \in Nat
    OBVIOUS
  <2>2. \A i, j \in 1 .. n : i < j => v(i) <= v(j)
    BY <1>11 DEF Sorted
  <2>3. value[t] \in Nat
    OBVIOUS
  <2>4. \A i \in 1 .. m : v(i) <= value[t]
    <3>1. TAKE i \in 1 .. m
    <3>2. i \in 1 .. n /\ i < at
      BY <1>1, <1>5
    <3>3. i \notin greater
      BY <3>2, <1>1, <1>3, <1>5
    <3>4. QED
      BY <3>2, <3>3, <2>1, <2>3
  <2>5. \A i \in m + 1 .. n : value[t] <= v(i)
    <3>1. TAKE i \in m + 1 .. n
    <3>2. at \in greater /\ at \in 1 .. n
      BY <1>1, <1>3, <1>5
    <3>3. value[t] < v(at)
      BY <3>2, <2>1, <2>3
    <3>4. i \in 1 .. n /\ (i = at \/ at < i)
      BY <3>2, <1>5, <1>1
    <3>5. v(at) <= v(i)
      BY <3>4, <3>2, <2>1, <2>2
    <3>6. QED
      BY <3>2, <3>3, <3>4, <3>5, <2>1, <2>3
  <2> HIDE DEF v
  <2>6. ASSUME NEW i \in 1 .. n + 1
        PROVE  \/ i \in 1 .. m /\ i \in 1 .. n /\ value[r[i]] = v(i)
               \/ i = m + 1 /\ value[r[i]] = value[t]
               \/ i - 1 \in m + 1 .. n /\ i - 1 \in 1 .. n /\ value[r[i]] = v(i - 1)
    <3>1. CASE i \in 1 .. m
      BY <3>1, <1>10, <1>5, <1>1 DEF v
    <3>2. CASE i = m + 1
      BY <3>2, <1>10
    <3>3. CASE i > m + 1
      <4>1. i - 1 \in m + 1 .. n /\ i - 1 \in 1 .. n /\ i - 1 + 1 = i
        BY <3>3, <1>1, <1>5
      <4>2. QED
        BY <4>1, <1>10 DEF v
    <3>4. QED
      BY <3>1, <3>2, <3>3, <1>1, <1>5
  <2>7. ASSUME NEW i \in 1 .. n + 1, NEW j \in 1 .. n + 1, i < j
        PROVE  value[r[i]] <= value[r[j]]
    <3>1. CASE i \in 1 .. m /\ value[r[i]] = v(i) /\ i \in 1 .. n
      <4>1. CASE j \in 1 .. n /\ value[r[j]] = v(j)
        BY <3>1, <4>1, <2>2, <2>7
      <4>2. CASE value[r[j]] = value[t]
        BY <3>1, <4>2, <2>4
      <4>3. CASE j - 1 \in m + 1 .. n /\ j - 1 \in 1 .. n /\ value[r[j]] = v(j - 1)
        <5>1. i < j - 1
          BY <3>1, <4>3, <1>5
        <5>2. QED
          BY <5>1, <3>1, <4>3, <2>2
      <4>4. QED
        BY <4>1, <4>2, <4>3, <2>6
    <3>2. CASE i = m + 1 /\ value[r[i]] = value[t]
      <4>1. j - 1 \in m + 1 .. n /\ value[r[j]] = v(j - 1)
        BY <3>2, <2>6, <2>7, <1>5, <1>1
      <4>2. QED
        BY <4>1, <3>2, <2>5
    <3>3. CASE i - 1 \in m + 1 .. n /\ i - 1 \in 1 .. n /\ value[r[i]] = v(i - 1)
      <4>1. j - 1 \in 1 .. n /\ value[r[j]] = v(j - 1)
        BY <3>3, <2>6, <2>7, <1>5, <1>1, SMTT(30)
      <4>2. i - 1 < j - 1
        BY <2>7
      <4>3. QED
        BY <4>1, <4>2, <3>3, <2>2
    <3>4. QED
      BY <3>1, <3>2, <3>3, <2>6
  <2>8. QED
    BY <2>7, <1>10 DEF Sorted
<1>12. QED
  BY <1>6, <1>7, <1>8, <1>9, <1>11

(* The kernel's lists as sets: the tasks in the ready lists, ...           *)
Rd(kk) == {t \in All : InReady(kk, t)}
(* ... in the delayed list, ...                                            *)
Dl(kk) == ToSet(kk.delayed)
(* ... in the delayed list for the next round of the tick count, ...       *)
Ov(kk) == ToSet(kk.overflow)
(* ... in xTasksWaitingTermination, ...                                    *)
Gn(kk) == ToSet(kk.terminated)
(* ... and those whose event item is in list l: an object's list, or       *)
(* xPendingReadyList.                                                      *)
Ev(kk, l) == ToSet(kk.events[l])
(* The lists for event items.                                              *)
Events == EventLists \cup {Pending}

(* A state item is in one list at most.                                    *)
Apart(kk) ==
  /\ Rd(kk) \cap Dl(kk) = {} /\ Rd(kk) \cap Ov(kk) = {}
  /\ Rd(kk) \cap kk.suspended = {} /\ Rd(kk) \cap Gn(kk) = {}
  /\ Dl(kk) \cap Ov(kk) = {} /\ Dl(kk) \cap kk.suspended = {} /\ Dl(kk) \cap Gn(kk) = {}
  /\ Ov(kk) \cap kk.suspended = {} /\ Ov(kk) \cap Gn(kk) = {}
  /\ kk.suspended \cap Gn(kk) = {}

(* Everybody whose state item is in some list.                             *)
Listed(kk) == Rd(kk) \cup Dl(kk) \cup Ov(kk) \cup kk.suspended \cup Gn(kk)

(* What the lists are in themselves, whatever the time: nobody twice in a  *)
(* list or in two lists, the ready lists by priority under                 *)
(* uxTopReadyPriority, the delayed lists sorted by wake time.              *)
Sound(kk) ==
  /\ kk \in KernelState
  /\ \A p \in Priority : IsInjective(kk.ready[p].items)
  /\ IsInjective(kk.delayed) /\ IsInjective(kk.overflow) /\ IsInjective(kk.terminated)
  /\ Apart(kk)
  /\ ReadyRight(kk)
  /\ Sorted(kk.delayed, kk.wake) /\ Sorted(kk.overflow, kk.wake)
  /\ \A l \in Events : IsInjective(kk.events[l])
  /\ \A l, m \in Events : l # m => Ev(kk, l) \cap Ev(kk, m) = {}

(* Where the delayed tasks are in time: those of this round wake later than*)
(* now and not before xNextTaskUnblockTime, those of the next round at a   *)
(* count that is still to come round.                                      *)
Timely(kk) ==
  /\ \A t \in Dl(kk) : kk.wake[t] > kk.tick /\ kk.nextUnblock <= kk.wake[t]
  /\ \A t \in Ov(kk) : kk.wake[t] < kk.tick

(* Whoever waits for an event is delayed or suspended, but for the task    *)
(* that xTaskAbortDelay is moving.                                         *)
Blocked(kk, moving) ==
  \A l \in EventLists : Ev(kk, l) \subseteq Dl(kk) \cup Ov(kk) \cup kk.suspended \cup {moving}

(* What no tick and no list operation changes, ...                         *)
Settled(u, kk) ==
  /\ u.current = kk.current /\ u.schedulerSuspended = kk.schedulerSuspended
  /\ u.priority = kk.priority /\ u.base = kk.base /\ u.item = kk.item
  /\ u.aborted = kk.aborted

(* ... and what no list operation changes.                                 *)
Frame(u, kk) ==
  /\ Settled(u, kk)
  /\ u.swi = kk.swi /\ u.yieldPending = kk.yieldPending
  /\ u.tick = kk.tick /\ u.overflows = kk.overflows /\ u.nextUnblock = kk.nextUnblock
  /\ u.pendedTicks = kk.pendedTicks

(* The fields of a kernel's state, each with its type.                     *)
LEMMA KernelTypes ==
  ASSUME NEW kk \in KernelState
  PROVE  /\ kk.current \in All /\ kk.swi \in BOOLEAN /\ kk.yieldPending \in BOOLEAN
         /\ kk.ready \in [Priority -> Lists(All)] /\ kk.top \in Priority
         /\ kk.delayed \in Seq(All) /\ kk.overflow \in Seq(All) /\ kk.suspended \subseteq All
         /\ kk.terminated \in Seq(All) /\ kk.events \in [Events -> Seq(All)]
         /\ kk.tick \in 0 .. Ticks - 1 /\ kk.overflows \in 0 .. Overflows - 1
         /\ kk.nextUnblock \in 0 .. Ticks - 1
         /\ kk.schedulerSuspended \in Nat /\ kk.pendedTicks \in Nat
         /\ kk.priority \in [All -> Priority] /\ kk.base \in [All -> Priority]
         /\ kk.item \in [All -> 0 .. MaxPriorities]
         /\ kk.wake \in [All -> 0 .. Ticks - 1] /\ kk.aborted \in [All -> BOOLEAN]
BY DEF KernelState, Lists, Events

(* The members of a list are its items, and an empty list has none.        *)
LEMMA InToSet ==
  ASSUME NEW A, NEW s \in Seq(A)
  PROVE  /\ ToSet(s) = {s[i] : i \in 1 .. Len(s)} /\ ToSet(s) \subseteq A
         /\ \A t \in ToSet(s) : \E i \in 1 .. Len(s) : t = s[i]
         /\ \A i \in 1 .. Len(s) : s[i] \in ToSet(s)
         /\ s = << >> <=> ToSet(s) = {}
<1>1. ToSet(s) = {s[i] : i \in 1 .. Len(s)}
  <2>1. DOMAIN s = 1 .. Len(s)
    OBVIOUS
  <2>2. QED
    BY <2>1, Zenon DEF ToSet
<1>2. s # << >> => 1 \in 1 .. Len(s)
  OBVIOUS
<1>3. s = << >> => 1 .. Len(s) = {}
  OBVIOUS
<1>4. \A i \in 1 .. Len(s) : s[i] \in A
  OBVIOUS
<1>5. QED
  BY <1>1, <1>2, <1>3, <1>4, Zenon

(* The tasks ready at priority p.                                          *)
RdAt(kk, p) == ToSet(kk.ready[p].items)

(* ReadyRight said of sets: the ready list of a priority holds tasks of    *)
(* that priority only, its index is inside it, and none above              *)
(* uxTopReadyPriority holds anybody.                                       *)
LEMMA ReadySets ==
  ASSUME NEW kk \in KernelState
  PROVE  /\ ReadyRight(kk) <=>
              \A p \in Priority :
                /\ \A t \in RdAt(kk, p) : kk.priority[t] = p
                /\ kk.ready[p].index \in 0 .. Len(kk.ready[p].items)
                /\ RdAt(kk, p) # {} => p <= kk.top
         /\ \A t : t \in Rd(kk) <=> \E p \in Priority : t \in RdAt(kk, p)
         /\ Rd(kk) \subseteq All
<1>1. ASSUME NEW p \in Priority
      PROVE  /\ kk.ready[p].items \in Seq(All)
             /\ RdAt(kk, p) = {kk.ready[p].items[i] : i \in 1 .. Len(kk.ready[p].items)}
             /\ RdAt(kk, p) \subseteq All
             /\ kk.ready[p].items = << >> <=> RdAt(kk, p) = {}
  <2>1. kk.ready[p].items \in Seq(All)
    BY KernelTypes DEF Lists
  <2>2. QED
    BY <2>1, InToSet DEF RdAt
<1>2. \A t : t \in Rd(kk) <=> \E p \in Priority : t \in RdAt(kk, p)
  BY <1>1, Zenon DEF Rd, InReady, RdAt
<1>3. ReadyRight(kk) <=>
              \A p \in Priority :
                /\ \A t \in RdAt(kk, p) : kk.priority[t] = p
                /\ kk.ready[p].index \in 0 .. Len(kk.ready[p].items)
                /\ RdAt(kk, p) # {} => p <= kk.top
  <2>1. ASSUME NEW p \in Priority
        PROVE  (\A i \in 1 .. Len(kk.ready[p].items) : kk.priority[kk.ready[p].items[i]] = p)
                 <=> \A t \in RdAt(kk, p) : kk.priority[t] = p
    <3> DEFINE s == kk.ready[p].items
               q == kk.priority
    <3>1. RdAt(kk, p) = {s[i] : i \in 1 .. Len(s)}
      BY <1>1
    <3> HIDE DEF s, q
    <3>2. (\A i \in 1 .. Len(s) : q[s[i]] = p) <=> \A t \in RdAt(kk, p) : q[t] = p
      BY <3>1, Zenon
    <3>3. QED
      BY <3>2 DEF s, q
  <2>2. QED
    BY <1>1, <2>1, Zenon DEF ReadyRight
<1>4. QED
  BY <1>2, <1>3 DEF Rd

(* Taking the state items of S out of their lists: nobody of S is in a list*)
(* any more, everybody else is where he was, and the lists stay sound.     *)
LEMMA UnlinkRight ==
  ASSUME NEW kk, Sound(kk), NEW S
  PROVE  LET u == Unlink(kk, S)
         IN  /\ Sound(u)
             /\ Rd(u) = Rd(kk) \ S /\ Dl(u) = Dl(kk) \ S /\ Ov(u) = Ov(kk) \ S
             /\ u.suspended = kk.suspended \ S /\ Gn(u) = Gn(kk) \ S
             /\ \A t \in All \ S : u.wake[t] = kk.wake[t]
             /\ Frame(u, kk) /\ \A l : Ev(u, l) = Ev(kk, l)
<1> DEFINE u == Unlink(kk, S)
           ready == [p \in Priority |-> RemoveItems(kk.ready[p], S)]
           delayed == Without(kk.delayed, S)
           overflow == Without(kk.overflow, S)
           terminated == Without(kk.terminated, S)
           wake == [t \in All |-> IF t \in S THEN 0 ELSE kk.wake[t]]
<1>1. kk \in KernelState
  BY DEF Sound
<1>2. u = [kk EXCEPT !.ready = ready, !.delayed = delayed, !.overflow = overflow,
                     !.suspended = kk.suspended \ S, !.terminated = terminated, !.wake = wake]
  BY <1>1 DEF Unlink, KernelState
<1>3. \A s \in Seq(All) :
        /\ Without(s, S) \in Seq(All) /\ ToSet(Without(s, S)) = ToSet(s) \ S
        /\ IsInjective(s) => IsInjective(Without(s, S))
        /\ Sorted(s, kk.wake) => Sorted(Without(s, S), kk.wake)
  BY WithoutRight
<1>4. /\ delayed \in Seq(All) /\ ToSet(delayed) = Dl(kk) \ S /\ IsInjective(delayed)
      /\ Sorted(delayed, kk.wake)
  BY <1>1, <1>3, KernelTypes DEF Sound, Dl
<1>5. /\ overflow \in Seq(All) /\ ToSet(overflow) = Ov(kk) \ S /\ IsInjective(overflow)
      /\ Sorted(overflow, kk.wake)
  BY <1>1, <1>3, KernelTypes DEF Sound, Ov
<1>6. terminated \in Seq(All) /\ ToSet(terminated) = Gn(kk) \ S /\ IsInjective(terminated)
  BY <1>1, <1>3, KernelTypes DEF Sound, Gn
<1>7. ASSUME NEW p \in Priority
      PROVE  /\ ready[p] \in Lists(All) /\ ready[p].index \in 0 .. Len(ready[p].items)
             /\ ToSet(ready[p].items) = RdAt(kk, p) \ S
             /\ IsInjective(ready[p].items)
  <2>1. kk.ready[p] \in Lists(All) /\ kk.ready[p].index <= Len(kk.ready[p].items)
        /\ IsInjective(kk.ready[p].items)
    BY <1>1, KernelTypes DEF Sound, ReadyRight
  <2>2. QED
    BY <2>1, RemoveItemsRight DEF RdAt
<1>8. wake \in [All -> 0 .. Ticks - 1] /\ \A t \in All \ S : wake[t] = kk.wake[t]
  <2>1. kk.wake \in [All -> 0 .. Ticks - 1] /\ 0 \in 0 .. Ticks - 1
    BY <1>1, KernelTypes, KernelAssumption
  <2>2. QED
    BY <2>1
<1>9. ASSUME NEW s \in Seq(All), Sorted(s, kk.wake), ToSet(s) \cap S = {} PROVE Sorted(s, wake)
  <2>1. \A i \in 1 .. Len(s) : s[i] \in All \ S
    BY <1>9, InToSet
  <2>2. \A i \in 1 .. Len(s) : wake[s[i]] = kk.wake[s[i]]
    BY <2>1, <1>8
  <2> HIDE DEF wake
  <2>3. QED
    BY <2>2, <1>9 DEF Sorted
<1>10. Sorted(delayed, wake) /\ Sorted(overflow, wake)
  BY <1>4, <1>5, <1>9
<1> HIDE DEF ready, delayed, overflow, terminated, wake
<1>11. ready \in [Priority -> Lists(All)]
  <2>1. ready = [p \in Priority |-> ready[p]]
    BY DEF ready
  <2>2. QED
    BY <2>1, <1>7
<1> HIDE DEF u
<1>12. u \in KernelState
  BY <1>1, <1>2, <1>4, <1>5, <1>6, <1>8, <1>11 DEF KernelState, Lists
<1>13. /\ u.ready = ready /\ u.delayed = delayed /\ u.overflow = overflow
       /\ u.suspended = kk.suspended \ S /\ u.terminated = terminated /\ u.wake = wake
       /\ u.priority = kk.priority /\ u.top = kk.top /\ u.events = kk.events
  BY <1>1, <1>2 DEF KernelState
<1>14. \A p \in Priority : RdAt(u, p) = RdAt(kk, p) \ S
  BY <1>7, <1>13 DEF RdAt
<1>15. Rd(u) = Rd(kk) \ S
  BY <1>1, <1>12, <1>14, ReadySets
<1>16. Dl(u) = Dl(kk) \ S /\ Ov(u) = Ov(kk) \ S /\ Gn(u) = Gn(kk) \ S
  BY <1>4, <1>5, <1>6, <1>13 DEF Dl, Ov, Gn
<1>17. Apart(u)
  BY <1>13, <1>15, <1>16 DEF Sound, Apart
<1>18. ReadyRight(u)
  <2>1. ReadyRight(kk)
    BY DEF Sound
  <2>2. QED
    BY <2>1, <1>1, <1>7, <1>12, <1>13, <1>14, ReadySets
<1>19. \A l \in Events : IsInjective(u.events[l])
  BY <1>13 DEF Sound
<1>20. \A l, m \in Events : l # m => Ev(u, l) \cap Ev(u, m) = {}
  BY <1>13 DEF Sound, Ev
<1>21. Sound(u)
  BY <1>4, <1>5, <1>6, <1>7, <1>10, <1>12, <1>13, <1>17, <1>18, <1>19, <1>20 DEF Sound
<1>22. Frame(u, kk) /\ \A l : Ev(u, l) = Ev(kk, l)
  BY <1>1, <1>2, <1>13 DEF KernelState, Frame, Settled, Ev
<1>23. QED
  BY <1>8, <1>13, <1>15, <1>16, <1>21, <1>22 DEF u

(* Taking the event items of S out of their lists changes no list of state *)
(* items, and the lists stay sound.                                        *)
LEMMA UnwaitRight ==
  ASSUME NEW kk, Sound(kk), NEW S
  PROVE  LET u == Unwait(kk, S)
         IN  /\ Sound(u)
             /\ \A l \in Events : Ev(u, l) = Ev(kk, l) \ S
             /\ Rd(u) = Rd(kk) /\ Dl(u) = Dl(kk) /\ Ov(u) = Ov(kk)
             /\ u.suspended = kk.suspended /\ Gn(u) = Gn(kk) /\ u.wake = kk.wake
             /\ Frame(u, kk)
<1> DEFINE u == Unwait(kk, S)
           events == [l \in Events |-> Without(kk.events[l], S)]
<1>1. kk \in KernelState
  BY DEF Sound
<1>2. u = [kk EXCEPT !.events = events]
  BY <1>1 DEF Unwait, KernelState, Events
<1>3. ASSUME NEW l \in Events
      PROVE  /\ events[l] \in Seq(All) /\ ToSet(events[l]) = Ev(kk, l) \ S
             /\ IsInjective(events[l])
  <2>1. kk.events[l] \in Seq(All) /\ IsInjective(kk.events[l])
    BY <1>1, KernelTypes DEF Sound
  <2>2. QED
    BY <2>1, WithoutRight DEF Ev
<1>4. events \in [Events -> Seq(All)]
  BY <1>3
<1> HIDE DEF events, u
<1>5. u \in KernelState
  BY <1>1, <1>2, <1>4 DEF KernelState, Events
<1>6. /\ u.events = events /\ u.ready = kk.ready /\ u.delayed = kk.delayed
      /\ u.overflow = kk.overflow /\ u.suspended = kk.suspended /\ u.terminated = kk.terminated
      /\ u.priority = kk.priority /\ u.top = kk.top /\ u.wake = kk.wake
  BY <1>1, <1>2 DEF KernelState
<1>7. Apart(u) /\ ReadyRight(u)
  BY <1>6 DEF Sound, Apart, Rd, InReady, Dl, Ov, Gn, ReadyRight
<1>8. \A l \in Events : Ev(u, l) = Ev(kk, l) \ S
  BY <1>3, <1>6 DEF Ev
<1>9. \A l, m \in Events : l # m => Ev(u, l) \cap Ev(u, m) = {}
  BY <1>8 DEF Sound
<1>10. Sound(u)
  BY <1>3, <1>5, <1>6, <1>7, <1>9 DEF Sound
<1>11. Frame(u, kk)
  BY <1>1, <1>2 DEF KernelState, Frame, Settled
<1>12. Dl(u) = Dl(kk) /\ Ov(u) = Ov(kk) /\ Gn(u) = Gn(kk)
  BY <1>6 DEF Dl, Ov, Gn
<1>13. Rd(u) = Rd(kk)
  BY <1>6 DEF Rd, InReady
<1>14. QED
  BY <1>6, <1>8, <1>10, <1>11, <1>12, <1>13 DEF u

(* prvAddTaskToReadyList, one task after another: tasks that were in no    *)
(* list are ready, nobody else has moved, and uxTopReadyPriority is high   *)
(* enough.                                                                 *)
LEMMA AddToReadyRight ==
  ASSUME NEW kk, Sound(kk), NEW s \in Seq(All), IsInjective(s), ToSet(s) \cap Listed(kk) = {}
  PROVE  LET u == AddToReady(kk, s)
         IN  /\ Sound(u)
             /\ Rd(u) = Rd(kk) \cup ToSet(s) /\ Dl(u) = Dl(kk) /\ Ov(u) = Ov(kk)
             /\ u.suspended = kk.suspended /\ Gn(u) = Gn(kk) /\ u.wake = kk.wake
             /\ Frame(u, kk) /\ \A l : Ev(u, l) = Ev(kk, l)
<1> DEFINE u == AddToReady(kk, s)
           others(p) == {t \in All : kk.priority[t] # p}
           ready == [p \in Priority |-> InsertEnd(kk.ready[p], Without(s, others(p)))]
           tops == {kk.top} \cup {kk.priority[t] : t \in ToSet(s)}
           top == CHOOSE p \in tops : p >= kk.top /\ \A t \in ToSet(s) : p >= kk.priority[t]
<1>1. kk \in KernelState
  BY DEF Sound
<1>2. u = [kk EXCEPT !.ready = ready, !.top = top]
  BY <1>1 DEF AddToReady, KernelState
<1>3. /\ ToSet(s) \subseteq All /\ \A t \in ToSet(s) : kk.priority[t] \in Priority
      /\ kk.top \in Priority
  BY <1>1, InToSet, KernelTypes
<1>4. ASSUME NEW p \in Priority
      PROVE  /\ ready[p] \in Lists(All) /\ ready[p].index \in 0 .. Len(ready[p].items)
             /\ ToSet(ready[p].items) = RdAt(kk, p) \cup {t \in ToSet(s) : kk.priority[t] = p}
             /\ IsInjective(ready[p].items)
  <2>1. kk.ready[p] \in Lists(All) /\ kk.ready[p].index <= Len(kk.ready[p].items)
        /\ IsInjective(kk.ready[p].items)
    BY <1>1, KernelTypes DEF Sound, ReadyRight
  <2> DEFINE w == Without(s, others(p))
  <2>2. w \in Seq(All) /\ ToSet(w) = ToSet(s) \ others(p) /\ IsInjective(w)
    BY WithoutRight
  <2>3. ToSet(w) = {t \in ToSet(s) : kk.priority[t] = p}
    BY <2>2, <1>3
  <2>4. ToSet(kk.ready[p].items) \cap ToSet(w) = {}
    <3>1. RdAt(kk, p) \subseteq Rd(kk)
      BY <1>1, ReadySets
    <3>2. QED
      BY <3>1, <2>3 DEF RdAt, Listed
  <2> HIDE DEF w
  <2>5. /\ InsertEnd(kk.ready[p], w) \in Lists(All)
         /\ InsertEnd(kk.ready[p], w).index \in 0 .. Len(InsertEnd(kk.ready[p], w).items)
         /\ ToSet(InsertEnd(kk.ready[p], w).items) = ToSet(kk.ready[p].items) \cup ToSet(w)
         /\ IsInjective(InsertEnd(kk.ready[p], w).items)
    BY <2>1, <2>2, <2>4, InsertEndRight
  <2>6. ready[p] = InsertEnd(kk.ready[p], w)
    BY DEF w
  <2> HIDE DEF ready
  <2>7. QED
    BY <2>3, <2>5, <2>6 DEF RdAt
<1>5. top \in Priority /\ top >= kk.top /\ \A t \in ToSet(s) : top >= kk.priority[t]
  <2>1. tops \subseteq 0 .. MaxPriorities - 1 /\ tops # {} /\ MaxPriorities - 1 \in Nat
    BY <1>3, KernelAssumption DEF Priority
  <2>2. PICK p \in tops : \A i \in tops : i <= p
    BY <2>1, Greatest
  <2>3. p >= kk.top /\ \A t \in ToSet(s) : p >= kk.priority[t]
    BY <2>2, <2>1
  <2>4. top \in tops /\ top >= kk.top /\ \A t \in ToSet(s) : top >= kk.priority[t]
    BY <2>3
  <2>5. QED
    BY <2>1, <2>4 DEF Priority
<1> HIDE DEF ready, top, u
<1>6. ready \in [Priority -> Lists(All)]
  <2>1. ready = [p \in Priority |-> ready[p]]
    BY DEF ready
  <2>2. QED
    BY <2>1, <1>4
<1>7. u \in KernelState
  BY <1>1, <1>2, <1>5, <1>6 DEF KernelState, Lists
<1>8. /\ u.events = kk.events /\ u.ready = ready /\ u.delayed = kk.delayed /\ u.top = top
      /\ u.overflow = kk.overflow /\ u.suspended = kk.suspended /\ u.terminated = kk.terminated
      /\ u.priority = kk.priority /\ u.wake = kk.wake
  BY <1>1, <1>2 DEF KernelState
<1>9. \A p \in Priority : RdAt(u, p) = RdAt(kk, p) \cup {t \in ToSet(s) : kk.priority[t] = p}
  BY <1>4, <1>8 DEF RdAt
<1>10. Rd(u) = Rd(kk) \cup ToSet(s)
  BY <1>1, <1>3, <1>7, <1>9, ReadySets
<1>11. Dl(u) = Dl(kk) /\ Ov(u) = Ov(kk) /\ Gn(u) = Gn(kk) /\ \A l : Ev(u, l) = Ev(kk, l)
  BY <1>8 DEF Dl, Ov, Gn, Ev
<1>12. Apart(u)
  BY <1>8, <1>10, <1>11 DEF Sound, Apart, Listed
<1>13. ReadyRight(u)
  <2>1. ASSUME NEW p \in Priority
        PROVE  /\ \A t \in RdAt(u, p) : u.priority[t] = p
               /\ u.ready[p].index \in 0 .. Len(u.ready[p].items)
               /\ RdAt(u, p) # {} => p <= u.top
    <3>1. /\ \A t \in RdAt(kk, p) : kk.priority[t] = p
          /\ RdAt(kk, p) # {} => p <= kk.top
      BY <1>1, ReadySets DEF Sound
    <3>2. u.ready[p].index \in 0 .. Len(u.ready[p].items)
      BY <1>4, <1>8
    <3>3. \A t \in RdAt(u, p) : u.priority[t] = p
      BY <3>1, <1>8, <1>9
    <3>4. kk.top <= top /\ p \in Nat /\ top \in Nat /\ kk.top \in Nat
      BY <1>3, <1>5 DEF Priority
    <3>5. \A t \in ToSet(s) : kk.priority[t] = p => p <= top
      BY <1>5, <3>4
    <3>6. RdAt(u, p) # {} => p <= u.top
      BY <3>1, <3>4, <3>5, <1>8, <1>9
    <3>7. QED
      BY <3>2, <3>3, <3>6
  <2>2. QED
    BY <2>1, <1>7, ReadySets
<1>14. Sound(u)
  BY <1>4, <1>7, <1>8, <1>11, <1>12, <1>13 DEF Sound
<1>15. Frame(u, kk)
  BY <1>1, <1>2 DEF KernelState, Frame, Settled
<1>16. QED
  BY <1>8, <1>10, <1>11, <1>14, <1>15 DEF u

(* A kernel whose lists, wake times and priorities are those of a sound one*)
(* is as sound.                                                            *)
LEMMA SameLists ==
  ASSUME NEW kk, Sound(kk), NEW u \in KernelState,
         u.ready = kk.ready, u.top = kk.top, u.delayed = kk.delayed, u.overflow = kk.overflow,
         u.suspended = kk.suspended, u.terminated = kk.terminated, u.events = kk.events,
         u.wake = kk.wake, u.priority = kk.priority
  PROVE  /\ Sound(u)
         /\ Rd(u) = Rd(kk) /\ Dl(u) = Dl(kk) /\ Ov(u) = Ov(kk) /\ Gn(u) = Gn(kk)
         /\ \A l : Ev(u, l) = Ev(kk, l)
<1>1. Dl(u) = Dl(kk) /\ Ov(u) = Ov(kk) /\ Gn(u) = Gn(kk) /\ \A l : Ev(u, l) = Ev(kk, l)
  BY DEF Dl, Ov, Gn, Ev
<1>2. Rd(u) = Rd(kk)
  BY DEF Rd, InReady
<1>3. ReadyRight(u)
  BY DEF Sound, ReadyRight
<1>4. Apart(u)
  BY <1>1, <1>2 DEF Sound, Apart
<1>5. Sound(u)
  BY <1>1, <1>3, <1>4, Zenon DEF Sound
<1>6. QED
  BY <1>1, <1>2, <1>5

(* Out of whatever list they are in and into the ready lists: the tasks of *)
(* s are ready, nobody else has moved.                                     *)
LEMMA MoveToReady ==
  ASSUME NEW kk, Sound(kk), NEW s \in Seq(All), IsInjective(s)
  PROVE  LET u == AddToReady(Unlink(kk, ToSet(s)), s)
         IN  /\ Sound(u)
             /\ Rd(u) = Rd(kk) \cup ToSet(s)
             /\ Dl(u) = Dl(kk) \ ToSet(s) /\ Ov(u) = Ov(kk) \ ToSet(s)
             /\ u.suspended = kk.suspended \ ToSet(s) /\ Gn(u) = Gn(kk) \ ToSet(s)
             /\ \A t \in All \ ToSet(s) : u.wake[t] = kk.wake[t]
             /\ Frame(u, kk) /\ \A l : Ev(u, l) = Ev(kk, l)
<1> DEFINE S == ToSet(s)
           v == Unlink(kk, S)
           u == AddToReady(v, s)
<1> HIDE DEF S
<1>1. /\ Sound(v)
      /\ Rd(v) = Rd(kk) \ S /\ Dl(v) = Dl(kk) \ S /\ Ov(v) = Ov(kk) \ S
      /\ v.suspended = kk.suspended \ S /\ Gn(v) = Gn(kk) \ S
      /\ \A t \in All \ S : v.wake[t] = kk.wake[t]
      /\ Frame(v, kk) /\ \A l : Ev(v, l) = Ev(kk, l)
  BY UnlinkRight
<1> HIDE DEF v
<1>2. S \cap Listed(v) = {}
  BY <1>1 DEF Listed
<1>3. /\ Sound(u) /\ Rd(u) = Rd(v) \cup S /\ Dl(u) = Dl(v) /\ Ov(u) = Ov(v)
      /\ u.suspended = v.suspended /\ Gn(u) = Gn(v) /\ u.wake = v.wake
      /\ Frame(u, v) /\ \A l : Ev(u, l) = Ev(v, l)
  BY <1>1, <1>2, AddToReadyRight DEF S
<1> HIDE DEF u
<1>4. Frame(u, kk)
  BY <1>1, <1>3 DEF Frame, Settled
<1>5. Rd(u) = Rd(kk) \cup S
  BY <1>1, <1>3
<1>6. QED
  BY <1>1, <1>3, <1>4, <1>5 DEF u, v, S

(* One task makes a list of one, ...                                       *)
LEMMA Alone ==
  ASSUME NEW t \in All
  PROVE  <<t>> \in Seq(All) /\ IsInjective(<<t>>) /\ ToSet(<<t>>) = {t}
BY DEF IsInjective, ToSet

(* ... and nobody makes the empty one.                                     *)
LEMMA NobodyIn ==
  << >> \in Seq(All) /\ IsInjective(<< >>) /\ ToSet(<< >>) = {}
<1>1. << >> \in Seq(All) /\ Len(<< >>) = 0
  OBVIOUS
<1>2. ToSet(<< >>) = {}
  BY <1>1, InToSet
<1>3. DOMAIN << >> = {}
  OBVIOUS
<1>4. QED
  BY <1>1, <1>2, <1>3 DEF IsInjective

(* Waking the tasks of s takes their state items and their event items out *)
(* of their lists and makes them ready; everybody else stays where he was  *)
(* and as long.                                                            *)
LEMMA WakeRight ==
  ASSUME NEW kk, Sound(kk), NEW s \in Seq(All), IsInjective(s)
  PROVE  LET u == Wake(kk, s)
         IN  /\ Sound(u)
             /\ Rd(u) = Rd(kk) \cup ToSet(s)
             /\ Dl(u) = Dl(kk) \ ToSet(s) /\ Ov(u) = Ov(kk) \ ToSet(s)
             /\ u.suspended = kk.suspended \ ToSet(s) /\ Gn(u) = Gn(kk) \ ToSet(s)
             /\ \A t \in All \ ToSet(s) : u.wake[t] = kk.wake[t]
             /\ \A l \in Events : Ev(u, l) = Ev(kk, l) \ ToSet(s)
             /\ Frame(u, kk)
<1> DEFINE S == ToSet(s)
           v == Unwait(kk, S)
           u == AddToReady(Unlink(v, S), s)
<1>1. /\ Sound(v)
      /\ \A l \in Events : Ev(v, l) = Ev(kk, l) \ S
      /\ Rd(v) = Rd(kk) /\ Dl(v) = Dl(kk) /\ Ov(v) = Ov(kk)
      /\ v.suspended = kk.suspended /\ Gn(v) = Gn(kk) /\ v.wake = kk.wake
      /\ Frame(v, kk)
  BY UnwaitRight
<1> HIDE DEF v
<1>2. /\ Sound(u)
      /\ Rd(u) = Rd(v) \cup S
      /\ Dl(u) = Dl(v) \ S /\ Ov(u) = Ov(v) \ S
      /\ u.suspended = v.suspended \ S /\ Gn(u) = Gn(v) \ S
      /\ \A t \in All \ S : u.wake[t] = v.wake[t]
      /\ Frame(u, v) /\ \A l : Ev(u, l) = Ev(v, l)
  BY <1>1, MoveToReady
<1>3. Wake(kk, s) = u
  BY DEF Wake, v
<1> HIDE DEF u, S
<1>4. Frame(u, kk)
  BY <1>1, <1>2 DEF Frame, Settled
<1>5. /\ Sound(u)
      /\ Rd(u) = Rd(kk) \cup S
      /\ Dl(u) = Dl(kk) \ S /\ Ov(u) = Ov(kk) \ S
      /\ u.suspended = kk.suspended \ S /\ Gn(u) = Gn(kk) \ S
      /\ \A t \in All \ S : u.wake[t] = kk.wake[t]
      /\ \A l \in Events : Ev(u, l) = Ev(kk, l) \ S
  BY <1>1, <1>2
<1>6. QED
  BY <1>3, <1>4, <1>5 DEF S

(* The wake time xNextTaskUnblockTime is set to is no later than that of   *)
(* any delayed task.                                                       *)
LEMMA NextWakeRight ==
  ASSUME NEW kk, Sound(kk)
  PROVE  NextWake(kk) \in 0 .. Ticks - 1 /\ \A t \in Dl(kk) : NextWake(kk) <= kk.wake[t]
<1>1. /\ kk.delayed \in Seq(All) /\ kk.wake \in [All -> 0 .. Ticks - 1]
      /\ Sorted(kk.delayed, kk.wake)
  BY KernelTypes DEF Sound
<1>2. CASE kk.delayed = << >>
  <2>1. NextWake(kk) = Ticks - 1 /\ Ticks - 1 \in 0 .. Ticks - 1
    BY <1>2, KernelAssumption DEF NextWake, MaxDelay
  <2>2. Dl(kk) = {}
    BY <1>1, <1>2, InToSet DEF Dl
  <2>3. QED
    BY <2>1, <2>2
<1>3. CASE kk.delayed # << >>
  <2>1. NextWake(kk) = kk.wake[kk.delayed[1]] /\ 1 \in 1 .. Len(kk.delayed)
    BY <1>1, <1>3 DEF NextWake
  <2>2. kk.delayed[1] \in All /\ NextWake(kk) \in 0 .. Ticks - 1
    BY <1>1, <2>1
  <2>3. ASSUME NEW t \in Dl(kk) PROVE NextWake(kk) <= kk.wake[t]
    <3>1. PICK i \in 1 .. Len(kk.delayed) : t = kk.delayed[i]
      BY <1>1, InToSet, ZenonT(30) DEF Dl
    <3>2. i = 1 \/ 1 < i
      OBVIOUS
    <3>3. CASE i = 1
      BY <3>1, <3>3, <2>1, <2>2, KernelAssumption
    <3>4. CASE 1 < i
      BY <3>1, <3>4, <2>1, <1>1 DEF Sorted
    <3>5. QED
      BY <3>2, <3>3, <3>4
  <2>4. QED
    BY <2>2, <2>3
<1>4. QED
  BY <1>2, <1>3

(* prvResetNextTaskUnblockTime changes xNextTaskUnblockTime only, and no   *)
(* delayed task is due before it.                                          *)
LEMMA ResetNextUnblockRight ==
  ASSUME NEW kk, Sound(kk)
  PROVE  LET u == ResetNextUnblock(kk)
         IN  /\ Sound(u)
             /\ Rd(u) = Rd(kk) /\ Dl(u) = Dl(kk) /\ Ov(u) = Ov(kk)
             /\ u.suspended = kk.suspended /\ Gn(u) = Gn(kk) /\ u.wake = kk.wake
             /\ \A l : Ev(u, l) = Ev(kk, l)
             /\ Settled(u, kk) /\ u.swi = kk.swi /\ u.yieldPending = kk.yieldPending
             /\ u.tick = kk.tick /\ u.overflows = kk.overflows /\ u.pendedTicks = kk.pendedTicks
             /\ \A t \in Dl(u) : u.nextUnblock <= u.wake[t]
<1> DEFINE u == ResetNextUnblock(kk)
           n == NextWake(kk)
<1>1. n \in 0 .. Ticks - 1 /\ \A t \in Dl(kk) : n <= kk.wake[t]
  BY NextWakeRight
<1>2. kk \in KernelState
  BY DEF Sound
<1>3. u = [kk EXCEPT !.nextUnblock = n]
  BY DEF ResetNextUnblock
<1> HIDE DEF u, n
<1>4. u \in KernelState
  BY <1>1, <1>2, <1>3 DEF KernelState
<1>5. /\ u.ready = kk.ready /\ u.top = kk.top /\ u.delayed = kk.delayed
      /\ u.overflow = kk.overflow /\ u.suspended = kk.suspended
      /\ u.terminated = kk.terminated /\ u.events = kk.events
      /\ u.wake = kk.wake /\ u.priority = kk.priority /\ u.nextUnblock = n
      /\ Settled(u, kk) /\ u.swi = kk.swi /\ u.yieldPending = kk.yieldPending
      /\ u.tick = kk.tick /\ u.overflows = kk.overflows /\ u.pendedTicks = kk.pendedTicks
  BY <1>2, <1>3 DEF KernelState, Settled
<1>6. /\ Sound(u)
      /\ Rd(u) = Rd(kk) /\ Dl(u) = Dl(kk) /\ Ov(u) = Ov(kk) /\ Gn(u) = Gn(kk)
      /\ \A l : Ev(u, l) = Ev(kk, l)
  BY <1>4, <1>5, SameLists
<1>7. \A t \in Dl(u) : u.nextUnblock <= u.wake[t]
  BY <1>1, <1>5, <1>6
<1>8. QED
  BY <1>5, <1>6, <1>7 DEF u

(* The tasks that wait for a time, ...                                     *)
Waiting(kk) == Dl(kk) \cup Ov(kk)
(* ... how many ticks each has left, in this round or past its end, ...    *)
Dist(kk, t) == IF t \in Dl(kk) THEN kk.wake[t] - kk.tick ELSE kk.wake[t] + Ticks - kk.tick
(* ... and those with at most n left.                                      *)
Within(kk, n) == {t \in Waiting(kk) : Dist(kk, t) <= n}

(* A delayed task has at least one tick left and less than a whole round,  *)
(* and what is left is its wake time less the count, modulo the width of   *)
(* the count.                                                              *)
LEMMA DistRight ==
  ASSUME NEW kk, Sound(kk), Timely(kk), NEW t \in Waiting(kk)
  PROVE  /\ Dist(kk, t) \in 1 .. Ticks - 1
         /\ Dist(kk, t) = (kk.wake[t] + Ticks - kk.tick) % Ticks
<1>1. /\ kk.wake[t] \in 0 .. Ticks - 1 /\ kk.tick \in 0 .. Ticks - 1 /\ Ticks \in Nat \ {0}
      /\ t \in All
  BY KernelTypes, KernelAssumption, InToSet DEF Sound, Waiting, Dl, Ov
<1>2. CASE t \in Dl(kk)
  <2>1. kk.wake[t] > kk.tick
    BY <1>2 DEF Timely
  <2>2. Dist(kk, t) = kk.wake[t] - kk.tick
    BY <1>2 DEF Dist
  <2>3. (kk.wake[t] + Ticks - kk.tick) % Ticks = kk.wake[t] - kk.tick
    <3>1. PICK x \in 1 .. Ticks - 1 : x = kk.wake[t] - kk.tick
      BY <1>1, <2>1
    <3>2. (x + Ticks) % Ticks = x
      BY <1>1
    <3>3. kk.wake[t] + Ticks - kk.tick = x + Ticks
      BY <1>1, <3>1
    <3>4. QED
      BY <3>1, <3>2, <3>3
  <2>4. QED
    BY <1>1, <2>1, <2>2, <2>3
<1>3. CASE t \notin Dl(kk)
  <2>1. kk.wake[t] < kk.tick
    BY <1>3 DEF Timely, Waiting
  <2>2. Dist(kk, t) = kk.wake[t] + Ticks - kk.tick
    BY <1>3 DEF Dist
  <2>3. kk.wake[t] + Ticks - kk.tick \in 1 .. Ticks - 1
    BY <1>1, <2>1
  <2>4. QED
    BY <1>1, <2>2, <2>3
<1>4. QED
  BY <1>2, <1>3

(* The tick count n ticks later, for less than a round of it: in this round*)
(* or, past its end, in the next.                                          *)
Later(u, kk, n) ==
  \/ u.tick = kk.tick + n /\ u.overflows = kk.overflows
  \/ u.tick + Ticks = kk.tick + n

(* xTickCount goes on by one, with the lists swapped when it wraps to 0:   *)
(* everybody has one tick less, nobody is missed, before who is due is     *)
(* woken.                                                                  *)
LEMMA CountTickRight ==
  ASSUME NEW kk, Sound(kk), Timely(kk)
  PROVE  LET u == CountTick(kk)
         IN  /\ Sound(u)
             /\ Rd(u) = Rd(kk) /\ Waiting(u) = Waiting(kk)
             /\ u.suspended = kk.suspended /\ Gn(u) = Gn(kk) /\ u.wake = kk.wake
             /\ \A l : Ev(u, l) = Ev(kk, l)
             /\ Settled(u, kk) /\ u.swi = kk.swi /\ u.yieldPending = kk.yieldPending
             /\ u.pendedTicks = kk.pendedTicks
             /\ u.tick = (kk.tick + 1) % Ticks /\ Later(u, kk, 1)
             /\ \A t \in Waiting(kk) : Dist(u, t) = Dist(kk, t) - 1
             /\ \A t \in Dl(u) : u.wake[t] >= u.tick /\ u.nextUnblock <= u.wake[t]
             /\ \A t \in Ov(u) : u.wake[t] < u.tick
<1> DEFINE u == CountTick(kk)
           now == (kk.tick + 1) % Ticks
           v == [kk EXCEPT !.tick = now]
<1>1. /\ kk \in KernelState /\ kk.tick \in 0 .. Ticks - 1 /\ Ticks \in Nat \ {0}
      /\ \A t \in Waiting(kk) : kk.wake[t] \in 0 .. Ticks - 1
      /\ kk.nextUnblock \in 0 .. Ticks - 1
  BY KernelTypes, KernelAssumption, InToSet DEF Sound, Waiting, Dl, Ov
<1>2. \/ kk.tick + 1 < Ticks /\ now = kk.tick + 1 /\ now # 0
      \/ kk.tick = Ticks - 1 /\ now = 0
  <2>1. CASE kk.tick = Ticks - 1
    <3>1. kk.tick + 1 = Ticks /\ Ticks % Ticks = 0
      BY <1>1, <2>1
    <3>2. QED
      BY <2>1, <3>1
  <2>2. CASE kk.tick # Ticks - 1
    <3>1. PICK x \in 1 .. Ticks - 1 : x = kk.tick + 1
      BY <1>1, <2>2
    <3>2. x % Ticks = x
      BY <1>1
    <3>3. QED
      BY <3>1, <3>2, <1>1
  <2>3. QED
    BY <2>1, <2>2
<1>3. now \in 0 .. Ticks - 1
  BY <1>1, <1>2
<1> HIDE DEF now
<1>4. /\ v \in KernelState /\ v.tick = now
      /\ v.ready = kk.ready /\ v.top = kk.top /\ v.delayed = kk.delayed
      /\ v.overflow = kk.overflow /\ v.suspended = kk.suspended
      /\ v.terminated = kk.terminated /\ v.events = kk.events
      /\ v.wake = kk.wake /\ v.priority = kk.priority /\ v.nextUnblock = kk.nextUnblock
      /\ Settled(v, kk) /\ v.swi = kk.swi /\ v.yieldPending = kk.yieldPending
      /\ v.overflows = kk.overflows /\ v.pendedTicks = kk.pendedTicks
  BY <1>1, <1>3 DEF KernelState, Settled
<1>5. u = IF now = 0 THEN SwitchDelayedLists(v) ELSE v
  BY <1>4 DEF CountTick, now
<1> HIDE DEF v
<1>6. /\ Sound(v)
      /\ Rd(v) = Rd(kk) /\ Dl(v) = Dl(kk) /\ Ov(v) = Ov(kk) /\ Gn(v) = Gn(kk)
      /\ \A l : Ev(v, l) = Ev(kk, l)
  BY <1>4, SameLists
<1>7. CASE kk.tick + 1 < Ticks /\ now = kk.tick + 1 /\ now # 0
  <2>1. u = v
    BY <1>5, <1>7
  <2>2. ASSUME NEW t \in Waiting(kk) PROVE Dist(v, t) = Dist(kk, t) - 1
    BY <1>1, <1>4, <1>6, <1>7, <2>2 DEF Dist
  <2>3. ASSUME NEW t \in Dl(v) PROVE v.wake[t] >= v.tick /\ v.nextUnblock <= v.wake[t]
    <3>1. kk.wake[t] \in Nat /\ kk.wake[t] > kk.tick /\ kk.nextUnblock <= kk.wake[t]
      BY <1>1, <1>6 DEF Timely, Waiting
    <3>2. QED
      BY <3>1, <1>1, <1>4, <1>7
  <2>4. ASSUME NEW t \in Ov(v) PROVE v.wake[t] < v.tick
    <3>1. kk.wake[t] \in Nat /\ kk.wake[t] < kk.tick
      BY <1>1, <1>6 DEF Timely, Waiting
    <3>2. QED
      BY <3>1, <1>1, <1>4, <1>7
  <2>5. Waiting(v) = Waiting(kk)
    BY <1>6 DEF Waiting
  <2> HIDE DEF u
  <2>6. Later(u, kk, 1)
    BY <2>1, <1>4, <1>7 DEF Later
  <2>7. QED
    BY <2>1, <2>2, <2>3, <2>4, <2>5, <2>6, <1>4, <1>6 DEF u, now
<1>8. CASE kk.tick = Ticks - 1 /\ now = 0
  <2> DEFINE x == [v EXCEPT !.delayed = v.overflow, !.overflow = v.delayed,
                            !.overflows = (v.overflows + 1) % Overflows]
  <2>1. u = ResetNextUnblock(x)
    BY <1>4, <1>5, <1>8 DEF SwitchDelayedLists, KernelState
  <2>2. (v.overflows + 1) % Overflows \in 0 .. Overflows - 1
    BY <1>4, KernelTypes, KernelAssumption
  <2>3. /\ x \in KernelState /\ x.delayed = v.overflow /\ x.overflow = v.delayed
        /\ x.ready = v.ready /\ x.top = v.top /\ x.suspended = v.suspended
        /\ x.terminated = v.terminated /\ x.events = v.events
        /\ x.wake = v.wake /\ x.priority = v.priority
        /\ Settled(x, v) /\ x.swi = v.swi /\ x.yieldPending = v.yieldPending
        /\ x.tick = v.tick /\ x.pendedTicks = v.pendedTicks
    BY <1>4, <2>2 DEF KernelState, Settled
  <2> HIDE DEF x, u
  <2>4. Dl(x) = Ov(v) /\ Ov(x) = Dl(v) /\ Gn(x) = Gn(v) /\ \A l : Ev(x, l) = Ev(v, l)
    BY <2>3 DEF Dl, Ov, Gn, Ev
  <2>5. Rd(x) = Rd(v)
    BY <2>3 DEF Rd, InReady
  <2>6. Apart(x)
    BY <1>6, <2>3, <2>4, <2>5 DEF Sound, Apart
  <2>7. ReadyRight(x)
    BY <1>6, <2>3 DEF Sound, ReadyRight
  <2>8. Sound(x)
    BY <1>6, <2>3, <2>4, <2>6, <2>7, Zenon DEF Sound
  <2>9. /\ Sound(u)
        /\ Rd(u) = Rd(x) /\ Dl(u) = Dl(x) /\ Ov(u) = Ov(x)
        /\ u.suspended = x.suspended /\ Gn(u) = Gn(x) /\ u.wake = x.wake
        /\ \A l : Ev(u, l) = Ev(x, l)
        /\ Settled(u, x) /\ u.swi = x.swi /\ u.yieldPending = x.yieldPending
        /\ u.tick = x.tick /\ u.pendedTicks = x.pendedTicks
        /\ \A t \in Dl(u) : u.nextUnblock <= u.wake[t]
    BY <2>1, <2>8, ResetNextUnblockRight
  <2>10. Dl(kk) = {}
    <3>1. \A t \in Dl(kk) : kk.wake[t] > kk.tick /\ kk.wake[t] \in 0 .. Ticks - 1
      BY <1>1 DEF Timely, Waiting
    <3>2. QED
      BY <3>1, <1>1, <1>8
  <2>11. /\ Dl(u) = Ov(kk) /\ Ov(u) = {} /\ u.tick = 0 /\ u.wake = kk.wake
         /\ Waiting(u) = Waiting(kk)
    BY <2>3, <2>4, <2>9, <2>10, <1>4, <1>6, <1>8 DEF Waiting
  <2>12. ASSUME NEW t \in Waiting(kk) PROVE Dist(u, t) = Dist(kk, t) - 1
    <3>1. t \in Dl(u) /\ t \notin Dl(kk)
      BY <2>10, <2>11, <2>12 DEF Waiting
    <3>2. QED
      BY <3>1, <2>11, <1>1, <1>8 DEF Dist
  <2>13. \A t \in Dl(u) : u.wake[t] >= u.tick
    BY <2>11, <1>1 DEF Waiting
  <2>14. Settled(u, kk)
    BY <2>3, <2>9, <1>4 DEF Settled
  <2>15. u.tick = now
    BY <2>11, <1>8
  <2>16. /\ Rd(u) = Rd(kk) /\ u.suspended = kk.suspended /\ Gn(u) = Gn(kk)
         /\ \A l : Ev(u, l) = Ev(kk, l)
         /\ u.swi = kk.swi /\ u.yieldPending = kk.yieldPending
         /\ u.pendedTicks = kk.pendedTicks
    BY <2>3, <2>4, <2>5, <2>9, <1>4, <1>6
  <2>17. Later(u, kk, 1)
    BY <2>11, <1>1, <1>8 DEF Later
  <2>18. QED
    BY <2>9, <2>11, <2>12, <2>13, <2>14, <2>15, <2>16, <2>17 DEF u, now
<1>9. QED
  BY <1>2, <1>7, <1>8

(* xTaskIncrementTick with the scheduler running: exactly the tasks with   *)
(* one tick left are ready, no longer wait for an event, and everybody else*)
(* has one tick less; the answer is yes when one of them is to run or a    *)
(* yield was pending.                                                      *)
LEMMA IncrementTickRight ==
  ASSUME NEW kk, Sound(kk), Timely(kk), kk.schedulerSuspended = 0
  PROVE  LET u == IncrementTick(kk)[1]
             due == Within(kk, 1)
         IN  /\ Sound(u) /\ Timely(u)
             /\ Rd(u) = Rd(kk) \cup due /\ Waiting(u) = Waiting(kk) \ due
             /\ u.suspended = kk.suspended /\ Gn(u) = Gn(kk)
             /\ \A l \in Events : Ev(u, l) = Ev(kk, l) \ due
             /\ \A t \in Waiting(u) : Dist(u, t) = Dist(kk, t) - 1
             /\ Settled(u, kk) /\ u.swi = kk.swi /\ u.yieldPending = kk.yieldPending
             /\ u.pendedTicks = kk.pendedTicks /\ Later(u, kk, 1)
             /\ IncrementTick(kk)[2] \in BOOLEAN
             /\ (\/ kk.yieldPending
                 \/ \E t \in due : kk.priority[t] >= kk.priority[kk.current])
                  => IncrementTick(kk)[2]
<1> DEFINE now == CountTick(kk)
           later == {t \in All : now.wake[t] > now.tick}
           s == IF now.tick >= now.nextUnblock THEN Without(now.delayed, later) ELSE << >>
           woken == Wake(now, s)
           u == IF now.tick >= now.nextUnblock THEN ResetNextUnblock(woken) ELSE woken
           r == \/ \E t \in ToSet(s) : kk.priority[t] >= kk.priority[kk.current]
                \/ Len(woken.ready[kk.priority[kk.current]].items) > 1
                \/ kk.yieldPending
           due == Within(kk, 1)
<1>1. IncrementTick(kk) = <<u, r>>
  BY DEF IncrementTick
<1>2. /\ Sound(now)
      /\ Rd(now) = Rd(kk) /\ Waiting(now) = Waiting(kk)
      /\ now.suspended = kk.suspended /\ Gn(now) = Gn(kk) /\ now.wake = kk.wake
      /\ \A l : Ev(now, l) = Ev(kk, l)
      /\ Settled(now, kk) /\ now.swi = kk.swi /\ now.yieldPending = kk.yieldPending
      /\ now.pendedTicks = kk.pendedTicks
      /\ now.tick = (kk.tick + 1) % Ticks /\ Later(now, kk, 1)
      /\ \A t \in Waiting(kk) : Dist(now, t) = Dist(kk, t) - 1
      /\ \A t \in Dl(now) : now.wake[t] >= now.tick /\ now.nextUnblock <= now.wake[t]
      /\ \A t \in Ov(now) : now.wake[t] < now.tick
  BY CountTickRight
<1> HIDE DEF now
<1>3. /\ now \in KernelState /\ now.tick \in 0 .. Ticks - 1
      /\ now.nextUnblock \in 0 .. Ticks - 1
      /\ \A t \in All : now.wake[t] \in 0 .. Ticks - 1
      /\ Dl(now) \subseteq All /\ Ov(now) \subseteq All /\ Ticks \in Nat \ {0}
      /\ now.delayed \in Seq(All) /\ IsInjective(now.delayed)
  BY <1>2, KernelTypes, KernelAssumption, InToSet DEF Sound, Dl, Ov
<1>4. /\ s \in Seq(All) /\ IsInjective(s)
      /\ ToSet(s) = {t \in Dl(now) : now.wake[t] <= now.tick}
  <2>1. CASE now.tick >= now.nextUnblock
    <3>1. /\ s \in Seq(All) /\ IsInjective(s) /\ ToSet(s) = Dl(now) \ later
      BY <2>1, <1>3, WithoutRight DEF Dl
    <3>2. Dl(now) \ later = {t \in Dl(now) : now.wake[t] <= now.tick}
      BY <1>3
    <3> HIDE DEF s, later
    <3>3. QED
      BY <3>1, <3>2
  <2>2. CASE ~ (now.tick >= now.nextUnblock)
    <3>1. s = << >> /\ << >> \in Seq(All)
      BY <2>2
    <3>2. ToSet(s) = {} /\ IsInjective(s)
      BY <3>1, NobodyIn
    <3>3. \A t \in Dl(now) : ~ (now.wake[t] <= now.tick)
      BY <2>2, <1>2, <1>3
    <3> HIDE DEF s
    <3>4. QED
      BY <3>1, <3>2, <3>3
  <2>3. QED
    BY <2>1, <2>2
<1> HIDE DEF s
<1>5. ToSet(s) = due
  <2>1. ASSUME NEW t \in Waiting(kk) PROVE t \in ToSet(s) <=> Dist(kk, t) <= 1
    <3>1. t \in Waiting(now) /\ Dist(now, t) = Dist(kk, t) - 1 /\ Dist(kk, t) \in 1 .. Ticks - 1
      BY <1>2, DistRight
    <3>2. CASE t \in Dl(now)
      <4>1. Dist(now, t) = now.wake[t] - now.tick
        BY <3>2 DEF Dist
      <4>2. t \in ToSet(s) <=> now.wake[t] <= now.tick
        BY <3>2, <1>4
      <4>3. QED
        BY <4>1, <4>2, <3>1, <3>2, <1>3
    <3>3. CASE t \notin Dl(now)
      <4>1. Dist(now, t) = now.wake[t] + Ticks - now.tick /\ t \in Ov(now)
        BY <3>1, <3>3 DEF Dist, Waiting
      <4>2. Dist(now, t) > 0
        BY <4>1, <1>3
      <4>3. QED
        BY <4>2, <3>1, <3>3, <1>4
    <3>4. QED
      BY <3>2, <3>3
  <2>2. ToSet(s) \subseteq Waiting(kk)
    BY <1>2, <1>4 DEF Waiting
  <2>3. QED
    BY <2>1, <2>2 DEF Within
<1>6. /\ Sound(woken)
      /\ Rd(woken) = Rd(now) \cup due
      /\ Dl(woken) = Dl(now) \ due /\ Ov(woken) = Ov(now) \ due
      /\ woken.suspended = now.suspended \ due /\ Gn(woken) = Gn(now) \ due
      /\ \A t \in All \ due : woken.wake[t] = now.wake[t]
      /\ \A l \in Events : Ev(woken, l) = Ev(now, l) \ due
      /\ Frame(woken, now)
  BY <1>2, <1>4, <1>5, WakeRight
<1> HIDE DEF woken, due
<1>7. /\ now.suspended \ due = now.suspended /\ Gn(now) \ due = Gn(now)
      /\ Ov(now) \ due = Ov(now)
  BY <1>2, <1>4, <1>5 DEF Sound, Apart
<1>8. /\ Sound(u)
      /\ Rd(u) = Rd(woken) /\ Dl(u) = Dl(woken) /\ Ov(u) = Ov(woken)
      /\ u.suspended = woken.suspended /\ Gn(u) = Gn(woken) /\ u.wake = woken.wake
      /\ \A l : Ev(u, l) = Ev(woken, l)
      /\ Settled(u, woken) /\ u.swi = woken.swi /\ u.yieldPending = woken.yieldPending
      /\ u.tick = woken.tick /\ u.overflows = woken.overflows
      /\ u.pendedTicks = woken.pendedTicks
      /\ \A t \in Dl(u) : u.nextUnblock <= u.wake[t]
  <2>1. CASE now.tick >= now.nextUnblock
    <3>1. u = ResetNextUnblock(woken)
      BY <2>1
    <3> HIDE DEF u
    <3>2. QED
      BY <3>1, <1>6, ResetNextUnblockRight
  <2>2. CASE ~ (now.tick >= now.nextUnblock)
    <3>1. u = woken
      BY <2>2
    <3> HIDE DEF u
    <3>2. ASSUME NEW t \in Dl(u) PROVE u.nextUnblock <= u.wake[t]
      <4>1. t \in Dl(now) /\ t \in All \ due
        BY <3>1, <1>3, <1>6
      <4>2. u.wake[t] = now.wake[t] /\ u.nextUnblock = now.nextUnblock
        BY <4>1, <3>1, <1>6 DEF Frame
      <4>3. QED
        BY <4>1, <4>2, <1>2
    <3>3. QED
      BY <3>1, <3>2, <1>6 DEF Settled
  <2>3. QED
    BY <2>1, <2>2
<1> HIDE DEF u
<1>9. /\ Dl(u) = Dl(now) \ due /\ Ov(u) = Ov(now) /\ u.tick = now.tick
      /\ \A t \in All \ due : u.wake[t] = now.wake[t]
  BY <1>6, <1>7, <1>8 DEF Frame
<1>10. Timely(u)
  <2>1. ASSUME NEW t \in Dl(u) PROVE u.wake[t] > u.tick
    <3>1. t \in Dl(now) /\ t \notin due /\ t \in All
      BY <1>3, <1>9
    <3>2. ~ (now.wake[t] <= now.tick)
      BY <3>1, <1>4, <1>5
    <3>3. QED
      BY <3>1, <3>2, <1>3, <1>9
  <2>2. ASSUME NEW t \in Ov(u) PROVE u.wake[t] < u.tick
    <3>1. t \in Ov(now) /\ t \in All \ due
      BY <1>3, <1>7, <1>9
    <3>2. QED
      BY <3>1, <1>2, <1>9
  <2>3. QED
    BY <2>1, <2>2, <1>8 DEF Timely
<1>11. Waiting(u) = Waiting(kk) \ due
  BY <1>2, <1>7, <1>9 DEF Waiting
<1>12. ASSUME NEW t \in Waiting(u) PROVE Dist(u, t) = Dist(kk, t) - 1
  <2>1. t \in Waiting(kk) /\ t \in All \ due
    BY <1>2, <1>3, <1>11 DEF Waiting
  <2>2. Dist(u, t) = Dist(now, t)
    BY <2>1, <1>9 DEF Dist
  <2>3. QED
    BY <2>1, <2>2, <1>2
<1>13. Settled(u, kk)
  BY <1>2, <1>6, <1>8 DEF Frame, Settled
<1>14. /\ Rd(u) = Rd(kk) \cup due /\ u.suspended = kk.suspended /\ Gn(u) = Gn(kk)
       /\ \A l \in Events : Ev(u, l) = Ev(kk, l) \ due
       /\ u.swi = kk.swi /\ u.yieldPending = kk.yieldPending /\ u.pendedTicks = kk.pendedTicks
  BY <1>2, <1>6, <1>7, <1>8 DEF Frame
<1>15. /\ r \in BOOLEAN
       /\ (\/ kk.yieldPending \/ \E t \in due : kk.priority[t] >= kk.priority[kk.current]) => r
  BY <1>5
<1>16. IncrementTick(kk)[1] = u /\ IncrementTick(kk)[2] = r
  BY <1>1
<1>17. Later(u, kk, 1)
  BY <1>2, <1>6, <1>8 DEF Frame, Later
<1> HIDE DEF r
<1>18. QED
  BY <1>8, <1>10, <1>11, <1>12, <1>13, <1>14, <1>15, <1>16, <1>17 DEF due

(* The n-th of the ticks that xTaskResumeAll makes up for.                 *)
Further(kk, f, n) ==
  IF n = 0 THEN kk
  ELSE [IncrementTick(f[n - 1])[1] EXCEPT !.yieldPending = @ \/ IncrementTick(f[n - 1])[2]]

(* The ticks put off are made up for one by one: there is a function that  *)
(* satisfies the recursion of ReplayTicks.                                 *)
LEMMA ReplayDef ==
  ASSUME NEW kk, kk.pendedTicks \in Nat
  PROVE  \E f : /\ f = [n \in 0 .. kk.pendedTicks |-> Further(kk, f, n)]
                /\ ReplayTicks(kk) = [f[kk.pendedTicks] EXCEPT !.pendedTicks = 0]
<1> DEFINE T == {n \in Nat : \E f : f = [i \in 0 .. n |-> Further(kk, f, i)]}
<1>1. 0 \in T
  <2>1. [i \in 0 .. 0 |-> kk] = [i \in 0 .. 0 |-> Further(kk, [j \in 0 .. 0 |-> kk], i)]
    BY DEF Further
  <2>2. QED
    BY <2>1
<1>2. ASSUME NEW n \in Nat, n \in T PROVE n + 1 \in T
  <2>1. PICK f : f = [i \in 0 .. n |-> Further(kk, f, i)]
    BY <1>2
  <2> DEFINE last == Further(kk, f, n + 1)
  <2> HIDE DEF last
  <2> DEFINE g == [i \in 0 .. n + 1 |-> IF i = n + 1 THEN last ELSE f[i]]
  <2>2. \A i \in 0 .. n : g[i] = f[i]
    OBVIOUS
  <2>3. g[n + 1] = last
    OBVIOUS
  <2>4. \A i \in 0 .. n : Further(kk, g, i) = Further(kk, f, i)
    <3>1. TAKE i \in 0 .. n
    <3>2. i = 0 \/ (i # 0 /\ g[i - 1] = f[i - 1])
      BY <2>2
    <3> HIDE DEF g
    <3>3. QED
      BY <3>2, Zenon DEF Further
  <2>5. Further(kk, g, n + 1) = last
    <3>1. n + 1 # 0 /\ n + 1 - 1 = n /\ g[n] = f[n]
      BY <2>2
    <3> HIDE DEF g
    <3>2. QED
      BY <3>1 DEF last, Further
  <2>6. DOMAIN g = 0 .. n + 1 /\ g = [i \in DOMAIN g |-> g[i]]
    OBVIOUS
  <2> HIDE DEF g
  <2>7. \A i \in 0 .. n + 1 : g[i] = Further(kk, g, i)
    <3>1. TAKE i \in 0 .. n + 1
    <3>2. CASE i = n + 1
      BY <3>2, <2>3, <2>5
    <3>3. CASE i \in 0 .. n
      <4>1. f[i] = Further(kk, f, i)
        BY <2>1, <3>3
      <4>2. QED
        BY <4>1, <3>3, <2>2, <2>4
    <3>4. QED
      BY <3>2, <3>3
  <2>8. g = [i \in 0 .. n + 1 |-> Further(kk, g, i)]
    BY <2>6, <2>7
  <2>9. QED
    BY <2>8
<1>3. Nat \subseteq T
  BY <1>1, <1>2, Induct
<1> DEFINE Is(f) == f = [i \in 0 .. kk.pendedTicks |-> Further(kk, f, i)]
           after == CHOOSE f : Is(f)
<1>4. \E f : Is(f)
  BY <1>3
<1>5. Is(after)
  BY <1>4
<1>6. ReplayTicks(kk) = [after[kk.pendedTicks] EXCEPT !.pendedTicks = 0]
  BY DEF ReplayTicks, Further
<1> HIDE DEF after
<1>7. QED
  BY <1>5, <1>6

(* Making up for the ticks put off wakes exactly the tasks that had no more*)
(* ticks left than those, however they lie round the end of a round, and   *)
(* pends a yield when one of them is to run.                               *)
LEMMA ReplayTicksRight ==
  ASSUME NEW kk, Sound(kk), Timely(kk), kk.schedulerSuspended = 0
  PROVE  LET u == ReplayTicks(kk)
             due == Within(kk, kk.pendedTicks)
         IN  /\ Sound(u) /\ Timely(u)
             /\ Rd(u) = Rd(kk) \cup due /\ Waiting(u) = Waiting(kk) \ due
             /\ u.suspended = kk.suspended /\ Gn(u) = Gn(kk)
             /\ \A l \in Events : Ev(u, l) = Ev(kk, l) \ due
             /\ \A t \in Waiting(u) : Dist(u, t) = Dist(kk, t) - kk.pendedTicks
             /\ Settled(u, kk) /\ u.swi = kk.swi /\ u.pendedTicks = 0
             /\ kk.pendedTicks < Ticks => Later(u, kk, kk.pendedTicks)
             /\ (\/ kk.yieldPending
                 \/ \E t \in due : kk.priority[t] >= kk.priority[kk.current])
                  => u.yieldPending
<1> DEFINE m == kk.pendedTicks
           P(x, n) ==
             /\ Sound(x) /\ Timely(x)
             /\ Rd(x) = Rd(kk) \cup Within(kk, n) /\ Waiting(x) = Waiting(kk) \ Within(kk, n)
             /\ x.suspended = kk.suspended /\ Gn(x) = Gn(kk)
             /\ \A l \in Events : Ev(x, l) = Ev(kk, l) \ Within(kk, n)
             /\ \A t \in Waiting(x) : Dist(x, t) = Dist(kk, t) - n
             /\ Settled(x, kk) /\ x.swi = kk.swi
             /\ n < Ticks => Later(x, kk, n)
             /\ (\/ kk.yieldPending
                 \/ \E t \in Within(kk, n) : kk.priority[t] >= kk.priority[kk.current])
                  => x.yieldPending
<1>1. kk \in KernelState /\ m \in Nat
  BY KernelTypes DEF Sound
<1>2. PICK f : /\ f = [n \in 0 .. m |-> Further(kk, f, n)]
               /\ ReplayTicks(kk) = [f[m] EXCEPT !.pendedTicks = 0]
  BY <1>1, ReplayDef
<1>3. \A t \in Waiting(kk) : Dist(kk, t) \in 1 .. Ticks - 1
  BY DistRight
<1> HIDE DEF m
<1>4. \A n \in 0 .. m : f[n] = Further(kk, f, n)
  BY <1>2
<1> DEFINE T == {n \in Nat : n <= m => P(f[n], n)}
<1>5. 0 \in T
  <2>1. f[0] = kk
    <3>1. 0 \in 0 .. m
      BY <1>1
    <3>2. f[0] = Further(kk, f, 0)
      BY <3>1, <1>4
    <3>3. QED
      BY <3>2 DEF Further
  <2>2. Within(kk, 0) = {}
    BY <1>3 DEF Within
  <2>3. \A t \in Waiting(kk) : Dist(kk, t) = Dist(kk, t) - 0
    BY <1>3
  <2>4. P(kk, 0)
    <3>1. Later(kk, kk, 0)
      BY <1>1, KernelTypes DEF Later
    <3>2. QED
      BY <2>2, <2>3, <3>1 DEF Settled
  <2>5. QED
    BY <2>1, <2>4
<1>6. ASSUME NEW n \in Nat, n \in T PROVE n + 1 \in T
  <2>1. SUFFICES ASSUME n + 1 <= m PROVE P(f[n + 1], n + 1)
    OBVIOUS
  <2> DEFINE x == f[n]
             y == IncrementTick(x)[1]
             r == IncrementTick(x)[2]
             z == [y EXCEPT !.yieldPending = @ \/ r]
  <2>2. P(x, n)
    BY <1>1, <1>6, <2>1
  <2>3. f[n + 1] = z
    <3>1. n + 1 \in 0 .. m /\ n + 1 # 0 /\ n + 1 - 1 = n
      BY <1>1, <2>1
    <3>2. f[n + 1] = Further(kk, f, n + 1)
      BY <3>1, <1>4
    <3>3. QED
      BY <3>1, <3>2 DEF Further
  <2> HIDE DEF x
  <2>4. x.schedulerSuspended = 0
    BY <2>2 DEF Settled
  <2>5. /\ Sound(y) /\ Timely(y)
        /\ Rd(y) = Rd(x) \cup Within(x, 1) /\ Waiting(y) = Waiting(x) \ Within(x, 1)
        /\ y.suspended = x.suspended /\ Gn(y) = Gn(x)
        /\ \A l \in Events : Ev(y, l) = Ev(x, l) \ Within(x, 1)
        /\ \A t \in Waiting(y) : Dist(y, t) = Dist(x, t) - 1
        /\ Settled(y, x) /\ y.swi = x.swi /\ y.yieldPending = x.yieldPending
        /\ y.pendedTicks = x.pendedTicks /\ Later(y, x, 1)
        /\ r \in BOOLEAN
        /\ (\/ x.yieldPending
            \/ \E t \in Within(x, 1) : x.priority[t] >= x.priority[x.current]) => r
    BY <2>2, <2>4, IncrementTickRight
  <2> HIDE DEF y, r
  <2>6. y \in KernelState
    BY <2>5 DEF Sound
  <2>7. /\ z \in KernelState /\ z.ready = y.ready /\ z.top = y.top /\ z.delayed = y.delayed
        /\ z.overflow = y.overflow /\ z.suspended = y.suspended
        /\ z.terminated = y.terminated /\ z.events = y.events
        /\ z.wake = y.wake /\ z.priority = y.priority /\ z.nextUnblock = y.nextUnblock
        /\ z.tick = y.tick /\ z.swi = y.swi /\ z.overflows = y.overflows
        /\ Settled(z, y)
    <3> DEFINE b == y.yieldPending \/ r
    <3>1. b \in BOOLEAN /\ z = [y EXCEPT !.yieldPending = b]
      BY <2>5, <2>6
    <3> HIDE DEF b, z
    <3>2. QED
      BY <3>1, <2>6, ZenonT(30) DEF KernelState, Settled
  <2>8. z.yieldPending = (y.yieldPending \/ r)
    BY <2>6 DEF KernelState
  <2> HIDE DEF z
  <2>9. /\ Sound(z)
        /\ Rd(z) = Rd(y) /\ Dl(z) = Dl(y) /\ Ov(z) = Ov(y) /\ Gn(z) = Gn(y)
        /\ \A l : Ev(z, l) = Ev(y, l)
    BY <2>5, <2>7, SameLists
  <2>10. Timely(z) /\ Waiting(z) = Waiting(y)
    BY <2>5, <2>7, <2>9 DEF Timely, Waiting
  <2>11. \A t : Dist(z, t) = Dist(y, t)
    BY <2>7, <2>9 DEF Dist
  <2>12. Within(kk, n + 1) = Within(kk, n) \cup Within(x, 1)
    <3>1. \A t \in Waiting(kk) :
            /\ Dist(kk, t) <= n => Dist(kk, t) <= n + 1
            /\ Dist(kk, t) - n <= 1 <=> Dist(kk, t) <= n + 1
      BY <1>3
    <3>2. Within(x, 1) = {t \in Waiting(kk) \ Within(kk, n) : Dist(kk, t) <= n + 1}
      BY <2>2, <3>1 DEF Within
    <3>3. QED
      BY <3>1, <3>2 DEF Within
  <2> DEFINE W == Within(kk, n)
             V == Within(x, 1)
             U == Within(kk, n + 1)
  <2>13. /\ Rd(z) = Rd(kk) \cup U /\ Waiting(z) = Waiting(kk) \ U
         /\ \A l \in Events : Ev(z, l) = Ev(kk, l) \ U
    BY <2>2, <2>5, <2>9, <2>10, <2>12
  <2>14. ASSUME NEW t \in Waiting(z) PROVE Dist(z, t) = Dist(kk, t) - (n + 1)
    <3>1. t \in Waiting(y) /\ t \in Waiting(x) /\ t \in Waiting(kk)
      BY <2>2, <2>5, <2>10
    <3>2. Dist(z, t) = Dist(x, t) - 1 /\ Dist(x, t) = Dist(kk, t) - n
      BY <3>1, <2>2, <2>5, <2>11
    <3>3. QED
      BY <3>1, <3>2, <1>3
  <2>15. Settled(z, kk) /\ z.swi = kk.swi /\ z.suspended = kk.suspended /\ Gn(z) = Gn(kk)
    BY <2>2, <2>5, <2>7, <2>9 DEF Settled
  <2>16. (\/ kk.yieldPending
          \/ \E t \in U : kk.priority[t] >= kk.priority[kk.current]) => z.yieldPending
    <3>1. x.priority = kk.priority /\ x.current = kk.current
      BY <2>2 DEF Settled
    <3> DEFINE High(t) == kk.priority[t] >= kk.priority[kk.current]
    <3>2. (kk.yieldPending \/ \E t \in W : High(t)) => x.yieldPending
      BY <2>2
    <3>3. (x.yieldPending \/ \E t \in V : High(t)) => r
      BY <2>5, <3>1
    <3> HIDE DEF High, U, W, V
    <3>4. (kk.yieldPending \/ \E t \in U : High(t)) => r
      BY <3>2, <3>3, <2>12 DEF U, V, W
    <3>5. QED
      BY <3>4, <2>8 DEF High, U
  <2>17. n + 1 < Ticks => Later(z, kk, n + 1)
    <3>1. /\ kk.tick \in 0 .. Ticks - 1 /\ x.tick \in 0 .. Ticks - 1
          /\ y.tick \in 0 .. Ticks - 1 /\ Ticks \in Nat
      BY <1>1, <2>2, <2>6, KernelTypes, KernelAssumption DEF Sound
    <3>2. n < Ticks => Later(x, kk, n)
      BY <2>2
    <3>3. Later(y, x, 1) /\ z.tick = y.tick /\ z.overflows = y.overflows
      BY <2>5, <2>7
    <3>4. QED
      BY <3>1, <3>2, <3>3 DEF Later
  <2>18. P(z, n + 1)
    BY <2>9, <2>10, <2>13, <2>14, <2>15, <2>16, <2>17
  <2>19. QED
    BY <2>3, <2>18
<1>7. Nat \subseteq T
  BY <1>5, <1>6, Induct
<1>8. P(f[m], m)
  BY <1>1, <1>7
<1> DEFINE x == f[m]
           u == [x EXCEPT !.pendedTicks = 0]
<1> HIDE DEF x
<1>9. P(x, m)
  BY <1>8 DEF x
<1>10. x \in KernelState
  BY <1>9 DEF Sound
<1>11. /\ u \in KernelState /\ u.ready = x.ready /\ u.top = x.top /\ u.delayed = x.delayed
       /\ u.overflow = x.overflow /\ u.suspended = x.suspended
       /\ u.terminated = x.terminated /\ u.events = x.events
       /\ u.wake = x.wake /\ u.priority = x.priority /\ u.nextUnblock = x.nextUnblock
       /\ u.tick = x.tick /\ u.swi = x.swi /\ u.yieldPending = x.yieldPending
       /\ Settled(u, x) /\ u.pendedTicks = 0 /\ u.overflows = x.overflows
  BY <1>10, ZenonT(30) DEF KernelState, Settled
<1> HIDE DEF u
<1>12. /\ Sound(u)
       /\ Rd(u) = Rd(x) /\ Dl(u) = Dl(x) /\ Ov(u) = Ov(x) /\ Gn(u) = Gn(x)
       /\ \A l : Ev(u, l) = Ev(x, l)
  BY <1>9, <1>11, SameLists
<1>13. Timely(u) /\ Waiting(u) = Waiting(x)
  BY <1>9, <1>11, <1>12 DEF Timely, Waiting
<1>14. \A t : Dist(u, t) = Dist(x, t)
  BY <1>11, <1>12 DEF Dist
<1>15. Settled(u, kk)
  BY <1>9, <1>11 DEF Settled
<1>16. ReplayTicks(kk) = u
  BY <1>2 DEF u, x
<1>17. m < Ticks => Later(u, kk, m)
  BY <1>9, <1>11 DEF Later
<1>18. QED
  BY <1>9, <1>11, <1>12, <1>13, <1>14, <1>15, <1>16, <1>17 DEF m

(* The same tasks in the same lists, and due at the same time.             *)
SameViews(u, kk) ==
  /\ Rd(u) = Rd(kk) /\ Dl(u) = Dl(kk) /\ Ov(u) = Ov(kk)
  /\ u.suspended = kk.suspended /\ Gn(u) = Gn(kk) /\ u.wake = kk.wake
  /\ \A l : Ev(u, l) = Ev(kk, l)

(* Asking for the software interrupt changes nothing but its flag.         *)
LEMMA YieldRight ==
  ASSUME NEW kk, Sound(kk), NEW yes \in BOOLEAN
  PROVE  LET u == YieldIf(kk, yes)
         IN  /\ Sound(u) /\ SameViews(u, kk) /\ Settled(u, kk)
             /\ u.yieldPending = kk.yieldPending /\ u.tick = kk.tick
             /\ u.overflows = kk.overflows
             /\ u.nextUnblock = kk.nextUnblock /\ u.pendedTicks = kk.pendedTicks
             /\ u.swi = (kk.swi \/ yes)
<1>1. kk \in KernelState /\ kk.swi \in BOOLEAN
  BY KernelTypes DEF Sound
<1>2. CASE yes
  <2> DEFINE u == [kk EXCEPT !.swi = TRUE]
  <2>1. YieldIf(kk, yes) = u
    BY <1>2 DEF YieldIf, Yield
  <2>2. /\ u \in KernelState /\ u.swi = TRUE
        /\ u.ready = kk.ready /\ u.top = kk.top /\ u.delayed = kk.delayed
        /\ u.overflow = kk.overflow /\ u.suspended = kk.suspended
        /\ u.terminated = kk.terminated /\ u.events = kk.events
        /\ u.wake = kk.wake /\ u.priority = kk.priority /\ u.nextUnblock = kk.nextUnblock
        /\ Settled(u, kk) /\ u.yieldPending = kk.yieldPending /\ u.tick = kk.tick
        /\ u.overflows = kk.overflows /\ u.pendedTicks = kk.pendedTicks
    BY <1>1 DEF KernelState, Settled
  <2> HIDE DEF u
  <2>3. /\ Sound(u)
        /\ Rd(u) = Rd(kk) /\ Dl(u) = Dl(kk) /\ Ov(u) = Ov(kk) /\ Gn(u) = Gn(kk)
        /\ \A l : Ev(u, l) = Ev(kk, l)
    BY <2>2, SameLists
  <2>4. u.swi = (kk.swi \/ yes)
    BY <2>2, <1>2
  <2>5. QED
    BY <2>1, <2>2, <2>3, <2>4 DEF SameViews
<1>3. CASE ~ yes
  <2>1. YieldIf(kk, yes) = kk
    BY <1>3 DEF YieldIf
  <2>2. kk.swi = (kk.swi \/ yes)
    BY <1>1, <1>3
  <2>3. QED
    BY <2>1, <2>2, Zenon DEF SameViews, Settled
<1>4. QED
  BY <1>2, <1>3

(* The first half of xTaskResumeAll: the tasks that were put off are ready *)
(* and wait for nothing, and a yield is pending when one of them is to run.*)
LEMMA MovePendingRight ==
  ASSUME NEW kk, Sound(kk), Timely(kk)
  PROVE  LET u == MovePending(kk)
             P == Ev(kk, Pending)
         IN  /\ Sound(u) /\ Timely(u)
             /\ Rd(u) = Rd(kk) \cup P /\ Waiting(u) = Waiting(kk) \ P
             /\ u.suspended = kk.suspended \ P /\ Gn(u) = Gn(kk) \ P
             /\ \A l \in Events : Ev(u, l) = Ev(kk, l) \ P
             /\ \A t \in Waiting(u) : Dist(u, t) = Dist(kk, t)
             /\ Settled(u, kk) /\ u.swi = kk.swi /\ u.pendedTicks = kk.pendedTicks
             /\ u.tick = kk.tick /\ u.overflows = kk.overflows
             /\ (\/ kk.yieldPending
                 \/ \E t \in P : kk.priority[t] >= kk.priority[kk.current])
                  => u.yieldPending
<1> DEFINE s == kk.events[Pending]
           P == ToSet(s)
           v == Wake(kk, s)
           high == \E t \in P : kk.priority[t] >= kk.priority[kk.current]
           w == [v EXCEPT !.yieldPending = @ \/ high]
           u == MovePending(kk)
<1>1. /\ kk \in KernelState /\ s \in Seq(All) /\ IsInjective(s) /\ Pending \in Events
      /\ \A l \in Events : Ev(kk, l) \subseteq All
  BY KernelTypes, InToSet DEF Sound, Events, Ev
<1>2. CASE s = << >>
  <2>1. u = kk
    BY <1>2 DEF MovePending
  <2>2. Ev(kk, Pending) = {}
    BY <1>1, <1>2, InToSet DEF Ev
  <2>3. QED
    BY <2>1, <2>2 DEF Settled
<1>3. CASE s # << >>
  <2>1. u = ResetNextUnblock(w)
    BY <1>3 DEF MovePending
  <2>2. /\ Sound(v)
        /\ Rd(v) = Rd(kk) \cup P
        /\ Dl(v) = Dl(kk) \ P /\ Ov(v) = Ov(kk) \ P
        /\ v.suspended = kk.suspended \ P /\ Gn(v) = Gn(kk) \ P
        /\ \A t \in All \ P : v.wake[t] = kk.wake[t]
        /\ \A l \in Events : Ev(v, l) = Ev(kk, l) \ P
        /\ Frame(v, kk)
    BY <1>1, WakeRight
  <2>3. v \in KernelState /\ v.yieldPending \in BOOLEAN
    BY <2>2, KernelTypes DEF Sound
  <2> HIDE DEF v, P, high, s
  <2> DEFINE b == v.yieldPending \/ high
  <2>4. b \in BOOLEAN /\ w = [v EXCEPT !.yieldPending = b]
    BY <2>3
  <2> HIDE DEF w, b, u
  <2>5. /\ w \in KernelState /\ w.yieldPending = b
        /\ w.ready = v.ready /\ w.top = v.top /\ w.delayed = v.delayed
        /\ w.overflow = v.overflow /\ w.suspended = v.suspended
        /\ w.terminated = v.terminated /\ w.events = v.events
        /\ w.wake = v.wake /\ w.priority = v.priority
        /\ Settled(w, v) /\ w.swi = v.swi /\ w.tick = v.tick /\ w.pendedTicks = v.pendedTicks
        /\ w.overflows = v.overflows
    BY <2>3, <2>4 DEF KernelState, Settled
  <2>6. /\ Sound(w)
        /\ Rd(w) = Rd(v) /\ Dl(w) = Dl(v) /\ Ov(w) = Ov(v) /\ Gn(w) = Gn(v)
        /\ \A l : Ev(w, l) = Ev(v, l)
    BY <2>2, <2>5, SameLists
  <2>7. /\ Sound(u)
        /\ Rd(u) = Rd(w) /\ Dl(u) = Dl(w) /\ Ov(u) = Ov(w)
        /\ u.suspended = w.suspended /\ Gn(u) = Gn(w) /\ u.wake = w.wake
        /\ \A l : Ev(u, l) = Ev(w, l)
        /\ Settled(u, w) /\ u.swi = w.swi /\ u.yieldPending = w.yieldPending
        /\ u.tick = w.tick /\ u.overflows = w.overflows /\ u.pendedTicks = w.pendedTicks
        /\ \A t \in Dl(u) : u.nextUnblock <= u.wake[t]
    BY <2>1, <2>6, ResetNextUnblockRight
  <2>8. Dl(kk) \subseteq All /\ Ov(kk) \subseteq All
    BY <1>1, KernelTypes, InToSet DEF Dl, Ov
  <2>9. /\ Rd(u) = Rd(kk) \cup P /\ Dl(u) = Dl(kk) \ P /\ Ov(u) = Ov(kk) \ P
        /\ u.suspended = kk.suspended \ P /\ Gn(u) = Gn(kk) \ P
        /\ \A l \in Events : Ev(u, l) = Ev(kk, l) \ P
        /\ \A t \in All \ P : u.wake[t] = kk.wake[t]
    BY <2>2, <2>5, <2>6, <2>7
  <2>10. /\ u.tick = kk.tick /\ u.swi = kk.swi /\ u.pendedTicks = kk.pendedTicks
         /\ Settled(u, kk) /\ u.overflows = kk.overflows
    BY <2>2, <2>5, <2>7 DEF Frame, Settled
  <2>11. Timely(u)
    BY <2>7, <2>8, <2>9, <2>10 DEF Timely
  <2>12. ASSUME NEW t \in Waiting(u) PROVE Dist(u, t) = Dist(kk, t)
    <3>1. t \in All \ P
      BY <2>8, <2>9 DEF Waiting
    <3>2. QED
      BY <3>1, <2>9, <2>10 DEF Dist
  <2>13. u.yieldPending = b /\ v.yieldPending = kk.yieldPending
    BY <2>2, <2>5, <2>7 DEF Frame
  <2>14. (kk.yieldPending \/ high) => u.yieldPending
    BY <2>13 DEF b
  <2>15. Waiting(u) = Waiting(kk) \ P
    BY <2>9 DEF Waiting
  <2>16. P = Ev(kk, Pending)
    BY DEF Ev, P, s
  <2>17. QED
    BY <2>7, <2>9, <2>10, <2>11, <2>12, <2>14, <2>15, <2>16 DEF u, high
<1>4. QED
  BY <1>2, <1>3

(* One level of suspension more or less changes no list.                   *)
LEMMA LessSuspended ==
  ASSUME NEW kk, Sound(kk), NEW n \in Nat
  PROVE  LET u == [kk EXCEPT !.schedulerSuspended = n]
         IN  /\ Sound(u) /\ SameViews(u, kk)
             /\ u.current = kk.current /\ u.schedulerSuspended = n
             /\ u.priority = kk.priority /\ u.base = kk.base /\ u.item = kk.item
             /\ u.aborted = kk.aborted /\ u.swi = kk.swi /\ u.yieldPending = kk.yieldPending
             /\ u.tick = kk.tick /\ u.overflows = kk.overflows
             /\ u.nextUnblock = kk.nextUnblock /\ u.pendedTicks = kk.pendedTicks
<1> DEFINE u == [kk EXCEPT !.schedulerSuspended = n]
<1>1. kk \in KernelState
  BY DEF Sound
<1>2. /\ u \in KernelState
      /\ u.ready = kk.ready /\ u.top = kk.top /\ u.delayed = kk.delayed
      /\ u.overflow = kk.overflow /\ u.suspended = kk.suspended
      /\ u.terminated = kk.terminated /\ u.events = kk.events
      /\ u.wake = kk.wake /\ u.priority = kk.priority /\ u.nextUnblock = kk.nextUnblock
      /\ u.current = kk.current /\ u.schedulerSuspended = n
      /\ u.base = kk.base /\ u.item = kk.item
      /\ u.aborted = kk.aborted /\ u.swi = kk.swi /\ u.yieldPending = kk.yieldPending
      /\ u.tick = kk.tick /\ u.overflows = kk.overflows /\ u.pendedTicks = kk.pendedTicks
  BY <1>1 DEF KernelState
<1> HIDE DEF u
<1>3. /\ Sound(u)
      /\ Rd(u) = Rd(kk) /\ Dl(u) = Dl(kk) /\ Ov(u) = Ov(kk) /\ Gn(u) = Gn(kk)
      /\ \A l : Ev(u, l) = Ev(kk, l)
  BY <1>2, SameLists
<1>4. QED
  BY <1>2, <1>3 DEF SameViews, u

(* Those that wake when the scheduler goes on: put off, or due in the ticks*)
(* put off.                                                                *)
Revived(kk) == Ev(kk, Pending) \cup Within(kk, kk.pendedTicks)

(* xTaskResumeAll at its last level: those put off and those due in the    *)
(* ticks put off are ready, nobody else is, everybody else has that many   *)
(* ticks less, and the switch is asked for when one of them is to run.     *)
LEMMA ResumeAllRight ==
  ASSUME NEW kk, Sound(kk), Timely(kk), kk.schedulerSuspended = 1
  PROVE  LET u == ResumeAll(kk)
             P == Ev(kk, Pending)
         IN  /\ Sound(u) /\ Timely(u)
             /\ Rd(u) = Rd(kk) \cup Revived(kk) /\ Waiting(u) = Waiting(kk) \ Revived(kk)
             /\ u.suspended = kk.suspended \ P /\ Gn(u) = Gn(kk) \ P
             /\ \A l \in Events : Ev(u, l) = Ev(kk, l) \ Revived(kk)
             /\ \A t \in Waiting(u) : Dist(u, t) = Dist(kk, t) - kk.pendedTicks
             /\ u.current = kk.current /\ u.schedulerSuspended = 0 /\ u.pendedTicks = 0
             /\ u.priority = kk.priority /\ u.base = kk.base
             /\ u.item = kk.item /\ u.aborted = kk.aborted
             /\ kk.pendedTicks < Ticks => Later(u, kk, kk.pendedTicks)
             /\ u.swi = (kk.swi \/ u.yieldPending)
             /\ (\/ kk.yieldPending
                 \/ \E t \in Revived(kk) : kk.priority[t] >= kk.priority[kk.current])
                  => u.yieldPending
<1> DEFINE P == Ev(kk, Pending)
           W == Revived(kk)
           a == [kk EXCEPT !.schedulerSuspended = 0]
           b == MovePending(a)
           c == ReplayTicks(b)
           u == YieldIf(c, c.yieldPending)
           High(t) == kk.priority[t] >= kk.priority[kk.current]
<1>1. kk \in KernelState
  BY DEF Sound
<1>2. [kk EXCEPT !.schedulerSuspended = @ - 1] = a
  OBVIOUS
<1>3. a.schedulerSuspended = 0
  BY <1>1 DEF KernelState
<1>4. ResumeAll(kk) = u
  <2> DEFINE k1 == [kk EXCEPT !.schedulerSuspended = @ - 1]
  <2>1. ResumeAll(kk) = IF k1.schedulerSuspended # 0 THEN k1
                        ELSE YieldIf(ReplayTicks(MovePending(k1)),
                                     ReplayTicks(MovePending(k1)).yieldPending)
    BY DEF ResumeAll
  <2>2. k1 = a
    BY <1>2
  <2> HIDE DEF k1, a
  <2>3. QED
    BY <2>1, <2>2, <1>3
<1>5. /\ Sound(a) /\ SameViews(a, kk)
      /\ a.current = kk.current /\ a.priority = kk.priority /\ a.base = kk.base
      /\ a.swi = kk.swi /\ a.yieldPending = kk.yieldPending
      /\ a.item = kk.item /\ a.aborted = kk.aborted /\ a.overflows = kk.overflows
      /\ a.tick = kk.tick /\ a.nextUnblock = kk.nextUnblock /\ a.pendedTicks = kk.pendedTicks
  BY LessSuspended
<1> HIDE DEF a
<1>6. Timely(a) /\ Waiting(a) = Waiting(kk) /\ \A t : Dist(a, t) = Dist(kk, t)
  BY <1>5 DEF Timely, SameViews, Waiting, Dist
<1>7. Ev(a, Pending) = P
  BY <1>5 DEF SameViews
<1>8. /\ Sound(b) /\ Timely(b)
      /\ Rd(b) = Rd(a) \cup P /\ Waiting(b) = Waiting(a) \ P
      /\ b.suspended = a.suspended \ P /\ Gn(b) = Gn(a) \ P
      /\ \A l \in Events : Ev(b, l) = Ev(a, l) \ P
      /\ \A t \in Waiting(b) : Dist(b, t) = Dist(a, t)
      /\ Settled(b, a) /\ b.swi = a.swi /\ b.pendedTicks = a.pendedTicks
      /\ b.tick = a.tick /\ b.overflows = a.overflows
      /\ (\/ a.yieldPending
          \/ \E t \in P : a.priority[t] >= a.priority[a.current]) => b.yieldPending
  BY <1>5, <1>6, <1>7, MovePendingRight
<1> HIDE DEF b
<1>9. b.schedulerSuspended = 0
  BY <1>3, <1>8 DEF Settled
<1> DEFINE V == Within(b, b.pendedTicks)
<1>10. /\ Sound(c) /\ Timely(c)
       /\ Rd(c) = Rd(b) \cup V /\ Waiting(c) = Waiting(b) \ V
       /\ c.suspended = b.suspended /\ Gn(c) = Gn(b)
       /\ \A l \in Events : Ev(c, l) = Ev(b, l) \ V
       /\ \A t \in Waiting(c) : Dist(c, t) = Dist(b, t) - b.pendedTicks
       /\ Settled(c, b) /\ c.swi = b.swi /\ c.pendedTicks = 0
       /\ b.pendedTicks < Ticks => Later(c, b, b.pendedTicks)
       /\ (\/ b.yieldPending
           \/ \E t \in V : b.priority[t] >= b.priority[b.current]) => c.yieldPending
  BY <1>8, <1>9, ReplayTicksRight
<1> HIDE DEF c
<1>11. c.yieldPending \in BOOLEAN
  BY <1>10, KernelTypes DEF Sound
<1>12. /\ Sound(u) /\ SameViews(u, c) /\ Settled(u, c)
       /\ u.yieldPending = c.yieldPending /\ u.tick = c.tick /\ u.overflows = c.overflows
       /\ u.nextUnblock = c.nextUnblock /\ u.pendedTicks = c.pendedTicks
       /\ u.swi = (c.swi \/ c.yieldPending)
  BY <1>10, <1>11, YieldRight
<1> HIDE DEF u
<1>13. P \cup V = W
  <2>1. V = {t \in Waiting(kk) \ P : Dist(kk, t) <= kk.pendedTicks}
    BY <1>5, <1>6, <1>8 DEF Within
  <2> HIDE DEF P, V
  <2>2. QED
    BY <2>1 DEF Within, Revived, P
<1>14. Timely(u) /\ Waiting(u) = Waiting(c) /\ \A t : Dist(u, t) = Dist(c, t)
  BY <1>10, <1>12 DEF Timely, SameViews, Waiting, Dist
<1>15. /\ Rd(u) = Rd(kk) \cup W /\ Waiting(u) = Waiting(kk) \ W
       /\ \A l \in Events : Ev(u, l) = Ev(kk, l) \ W
  <2> HIDE DEF P, V, W
  <2>1. QED
    BY <1>5, <1>6, <1>8, <1>10, <1>12, <1>13, <1>14 DEF SameViews
<1>16. u.suspended = kk.suspended \ P /\ Gn(u) = Gn(kk) \ P
  BY <1>5, <1>8, <1>10, <1>12 DEF SameViews
<1>17. \A t \in Waiting(u) : Dist(u, t) = Dist(kk, t) - kk.pendedTicks
  BY <1>5, <1>6, <1>8, <1>10, <1>14
<1>18. /\ u.current = kk.current /\ u.schedulerSuspended = 0 /\ u.pendedTicks = 0
       /\ u.priority = kk.priority /\ u.base = kk.base
       /\ u.item = kk.item /\ u.aborted = kk.aborted
  BY <1>3, <1>5, <1>8, <1>10, <1>12 DEF Settled
<1>19. u.swi = (kk.swi \/ u.yieldPending)
  BY <1>5, <1>8, <1>10, <1>12
<1>20. (kk.yieldPending \/ \E t \in W : High(t)) => u.yieldPending
  <2>1. /\ \A t : (a.priority[t] >= a.priority[a.current]) <=> High(t)
        /\ \A t : (b.priority[t] >= b.priority[b.current]) <=> High(t)
    BY <1>5, <1>8 DEF Settled
  <2> HIDE DEF High, P, V, W
  <2>2. (kk.yieldPending \/ \E t \in P : High(t)) => b.yieldPending
    BY <1>5, <1>8, <2>1
  <2>3. (b.yieldPending \/ \E t \in V : High(t)) => c.yieldPending
    BY <1>10, <2>1
  <2>4. QED
    BY <2>2, <2>3, <1>12, <1>13
<1>21. kk.pendedTicks < Ticks => Later(u, kk, kk.pendedTicks)
  BY <1>5, <1>8, <1>10, <1>12 DEF Later
<1>22. QED
  BY <1>4, <1>12, <1>14, <1>15, <1>16, <1>17, <1>18, <1>19, <1>20, <1>21

(* A count some ticks later is in this round and greater, or in the next   *)
(* and smaller.                                                            *)
LEMMA LaterTick ==
  ASSUME NEW tick \in 0 .. Ticks - 1, NEW ticks \in 1 .. Ticks - 1
  PROVE  LET at == (tick + ticks) % Ticks
         IN  /\ at \in 0 .. Ticks - 1
             /\ \/ at > tick /\ at = tick + ticks
                \/ at < tick /\ at + Ticks = tick + ticks
<1>1. Ticks \in Nat \ {0}
  BY KernelAssumption
<1>2. CASE tick + ticks < Ticks
  <2>1. PICK x \in 0 .. Ticks - 1 : x = tick + ticks
    BY <1>1, <1>2
  <2>2. x % Ticks = x
    BY <1>1
  <2>3. QED
    BY <1>1, <2>1, <2>2
<1>3. CASE tick + ticks >= Ticks
  <2>1. PICK x \in 0 .. Ticks - 1 : x + Ticks = tick + ticks
    <3>1. tick + ticks - Ticks \in 0 .. Ticks - 1 /\ tick + ticks - Ticks + Ticks = tick + ticks
      BY <1>1, <1>3
    <3>2. QED
      BY <3>1
  <2>2. (x + Ticks) % Ticks = x
    BY <1>1
  <2>3. QED
    BY <1>1, <2>1, <2>2
<1>4. QED
  BY <1>1, <1>2, <1>3

(* A list sorted by one value is sorted by another that agrees on its      *)
(* members.                                                                *)
LEMMA SortedSame ==
  ASSUME NEW s \in Seq(All), NEW v, NEW w, Sorted(s, v), \A t \in ToSet(s) : w[t] = v[t]
  PROVE  Sorted(s, w)
<1>1. \A i \in 1 .. Len(s) : w[s[i]] = v[s[i]]
  BY InToSet
<1>2. QED
  BY <1>1 DEF Sorted

(* prvAddCurrentTaskToDelayedList: the running task has the ticks asked    *)
(* for, in this round or the next, or is suspended when it may wait for    *)
(* ever; nobody else has moved.                                            *)
LEMMA AddCurrentToDelayedRight ==
  ASSUME NEW kk, Sound(kk), Timely(kk), NEW ticks \in 1 .. Ticks - 1, NEW canBlock \in BOOLEAN
  PROVE  LET u == AddCurrentToDelayed(kk, ticks, canBlock)
             c == kk.current
             forever == ticks = MaxDelay /\ canBlock
         IN  /\ Sound(u) /\ Timely(u)
             /\ Rd(u) = Rd(kk) \ {c} /\ Gn(u) = Gn(kk) \ {c}
             /\ Waiting(u) = IF forever THEN Waiting(kk) \ {c} ELSE Waiting(kk) \cup {c}
             /\ u.suspended = IF forever THEN kk.suspended \cup {c} ELSE kk.suspended \ {c}
             /\ \A l : Ev(u, l) = Ev(kk, l)
             /\ \A t \in Waiting(u) : Dist(u, t) = IF t = c THEN ticks ELSE Dist(kk, t)
             /\ u.current = c /\ u.schedulerSuspended = kk.schedulerSuspended
             /\ u.priority = kk.priority /\ u.base = kk.base /\ u.item = kk.item
             /\ u.swi = kk.swi /\ u.yieldPending = kk.yieldPending
             /\ u.tick = kk.tick /\ u.overflows = kk.overflows /\ u.pendedTicks = kk.pendedTicks
<1> DEFINE u == AddCurrentToDelayed(kk, ticks, canBlock)
           c == kk.current
           forever == ticks = MaxDelay /\ canBlock
           v == Unlink(kk, {c})
           w == [v EXCEPT !.aborted[c] = FALSE]
           at == (kk.tick + ticks) % Ticks
           x == [w EXCEPT !.wake[c] = at]
           q == [w EXCEPT !.suspended = @ \cup {c}]
           y == [x EXCEPT !.overflow = Insert(@, c, x.wake)]
           z == [x EXCEPT !.delayed = Insert(@, c, x.wake),
                          !.nextUnblock = IF at < @ THEN at ELSE @]
<1>1. /\ kk \in KernelState /\ c \in All /\ kk.tick \in 0 .. Ticks - 1
      /\ Ticks \in Nat \ {0} /\ Dl(kk) \subseteq All /\ Ov(kk) \subseteq All
  BY KernelTypes, KernelAssumption, InToSet DEF Sound, Dl, Ov
<1>2. u = IF forever THEN q ELSE IF at < kk.tick THEN y ELSE z
  BY DEF AddCurrentToDelayed
<1>3. /\ Sound(v)
      /\ Rd(v) = Rd(kk) \ {c} /\ Dl(v) = Dl(kk) \ {c} /\ Ov(v) = Ov(kk) \ {c}
      /\ v.suspended = kk.suspended \ {c} /\ Gn(v) = Gn(kk) \ {c}
      /\ \A t \in All \ {c} : v.wake[t] = kk.wake[t]
      /\ Frame(v, kk) /\ \A l : Ev(v, l) = Ev(kk, l)
  BY UnlinkRight
<1> HIDE DEF v
<1>4. v \in KernelState
  BY <1>3 DEF Sound
<1>5. /\ w \in KernelState
      /\ w.ready = v.ready /\ w.top = v.top /\ w.delayed = v.delayed
      /\ w.overflow = v.overflow /\ w.suspended = v.suspended
      /\ w.terminated = v.terminated /\ w.events = v.events
      /\ w.wake = v.wake /\ w.priority = v.priority /\ w.nextUnblock = v.nextUnblock
      /\ w.current = v.current /\ w.schedulerSuspended = v.schedulerSuspended
      /\ w.base = v.base /\ w.item = v.item /\ w.swi = v.swi /\ w.yieldPending = v.yieldPending
      /\ w.tick = v.tick /\ w.overflows = v.overflows /\ w.pendedTicks = v.pendedTicks
  BY <1>4 DEF KernelState
<1> HIDE DEF w
<1>6. /\ Sound(w)
      /\ Rd(w) = Rd(v) /\ Dl(w) = Dl(v) /\ Ov(w) = Ov(v) /\ Gn(w) = Gn(v)
      /\ \A l : Ev(w, l) = Ev(v, l)
  BY <1>3, <1>5, SameLists
<1>7. /\ w.current = c /\ w.schedulerSuspended = kk.schedulerSuspended
      /\ w.priority = kk.priority /\ w.base = kk.base /\ w.item = kk.item
      /\ w.swi = kk.swi /\ w.yieldPending = kk.yieldPending /\ w.nextUnblock = kk.nextUnblock
      /\ w.tick = kk.tick /\ w.overflows = kk.overflows /\ w.pendedTicks = kk.pendedTicks
      /\ Rd(w) = Rd(kk) \ {c} /\ Dl(w) = Dl(kk) \ {c} /\ Ov(w) = Ov(kk) \ {c}
      /\ w.suspended = kk.suspended \ {c} /\ Gn(w) = Gn(kk) \ {c}
      /\ \A t \in All \ {c} : w.wake[t] = kk.wake[t]
      /\ \A l : Ev(w, l) = Ev(kk, l)
  BY <1>3, <1>5, <1>6 DEF Frame, Settled
<1>8. /\ at \in 0 .. Ticks - 1
      /\ \/ at > kk.tick /\ at = kk.tick + ticks
         \/ at < kk.tick /\ at + Ticks = kk.tick + ticks
  BY <1>1, LaterTick
<1> HIDE DEF at
<1>9. /\ x \in KernelState
      /\ x.ready = w.ready /\ x.top = w.top /\ x.delayed = w.delayed
      /\ x.overflow = w.overflow /\ x.suspended = w.suspended
      /\ x.terminated = w.terminated /\ x.events = w.events
      /\ x.priority = w.priority /\ x.nextUnblock = w.nextUnblock
      /\ x.wake[c] = at /\ \A t \in All \ {c} : x.wake[t] = kk.wake[t]
      /\ x.current = w.current /\ x.schedulerSuspended = w.schedulerSuspended
      /\ x.base = w.base /\ x.item = w.item /\ x.swi = w.swi /\ x.yieldPending = w.yieldPending
      /\ x.tick = w.tick /\ x.overflows = w.overflows /\ x.pendedTicks = w.pendedTicks
  <2>1. x \in KernelState
    BY <1>5, <1>8 DEF KernelState
  <2>2. /\ x.wake = [w.wake EXCEPT ![c] = at]
        /\ x.ready = w.ready /\ x.top = w.top /\ x.delayed = w.delayed
      /\ x.overflow = w.overflow /\ x.suspended = w.suspended
      /\ x.terminated = w.terminated /\ x.events = w.events
      /\ x.priority = w.priority /\ x.nextUnblock = w.nextUnblock
      /\ x.current = w.current /\ x.schedulerSuspended = w.schedulerSuspended
      /\ x.base = w.base /\ x.item = w.item /\ x.swi = w.swi /\ x.yieldPending = w.yieldPending
      /\ x.tick = w.tick /\ x.overflows = w.overflows /\ x.pendedTicks = w.pendedTicks
    BY <1>5 DEF KernelState
  <2>3. w.wake \in [All -> 0 .. Ticks - 1]
    BY <1>5, KernelTypes
  <2> HIDE DEF x
  <2>4. QED
    BY <2>1, <2>2, <2>3, <1>1, <1>7
<1> HIDE DEF x
<1>10. /\ w.delayed \in Seq(All) /\ IsInjective(w.delayed) /\ Sorted(w.delayed, x.wake)
       /\ ToSet(w.delayed) = Dl(kk) \ {c}
       /\ w.overflow \in Seq(All) /\ IsInjective(w.overflow) /\ Sorted(w.overflow, x.wake)
       /\ ToSet(w.overflow) = Ov(kk) \ {c}
  <2>1. /\ w.delayed \in Seq(All) /\ IsInjective(w.delayed) /\ Sorted(w.delayed, w.wake)
        /\ ToSet(w.delayed) = Dl(kk) \ {c}
        /\ w.overflow \in Seq(All) /\ IsInjective(w.overflow) /\ Sorted(w.overflow, w.wake)
        /\ ToSet(w.overflow) = Ov(kk) \ {c}
    BY <1>5, <1>6, <1>7, KernelTypes DEF Sound, Dl, Ov
  <2>2. \A t \in All \ {c} : x.wake[t] = w.wake[t]
    BY <1>7, <1>9
  <2>3. /\ \A t \in ToSet(w.delayed) : x.wake[t] = w.wake[t]
        /\ \A t \in ToSet(w.overflow) : x.wake[t] = w.wake[t]
    BY <2>1, <2>2, <1>1
  <2>4. QED
    BY <2>1, <2>3, SortedSame
<1>11. x.wake \in [All -> Nat]
  BY <1>9, KernelTypes
<1>12. ASSUME NEW s \in Seq(All), IsInjective(s), Sorted(s, x.wake), c \notin ToSet(s)
       PROVE  /\ Insert(s, c, x.wake) \in Seq(All) /\ IsInjective(Insert(s, c, x.wake))
              /\ Sorted(Insert(s, c, x.wake), x.wake)
              /\ ToSet(Insert(s, c, x.wake)) = ToSet(s) \cup {c}
  BY <1>1, <1>11, <1>12, InsertRight
<1>13. \A t \in Waiting(kk) \ {c} : t \in All /\ x.wake[t] = kk.wake[t]
  BY <1>1, <1>9 DEF Waiting
<1>14. CASE forever
  <2>1. u = q
    BY <1>2, <1>14
  <2>2. /\ q \in KernelState /\ q.suspended = w.suspended \cup {c}
        /\ q.ready = w.ready /\ q.top = w.top /\ q.delayed = w.delayed
        /\ q.overflow = w.overflow /\ q.terminated = w.terminated /\ q.events = w.events
        /\ q.wake = w.wake /\ q.priority = w.priority /\ q.nextUnblock = w.nextUnblock
        /\ q.current = w.current /\ q.schedulerSuspended = w.schedulerSuspended
        /\ q.base = w.base /\ q.item = w.item /\ q.swi = w.swi
        /\ q.yieldPending = w.yieldPending
        /\ q.tick = w.tick /\ q.overflows = w.overflows /\ q.pendedTicks = w.pendedTicks
    BY <1>1, <1>5 DEF KernelState
  <2> HIDE DEF q, u, forever
  <2>3. Rd(q) = Rd(w) /\ Dl(q) = Dl(w) /\ Ov(q) = Ov(w) /\ Gn(q) = Gn(w)
        /\ \A l : Ev(q, l) = Ev(w, l)
    BY <2>2 DEF Rd, InReady, Dl, Ov, Gn, Ev
  <2>4. Apart(q)
    BY <1>6, <1>7, <2>2, <2>3 DEF Sound, Apart
  <2>5. ReadyRight(q)
    BY <1>6, <2>2 DEF Sound, ReadyRight
  <2>6. Sound(q)
    BY <1>6, <2>2, <2>3, <2>4, <2>5, Zenon DEF Sound
  <2>7. Timely(q)
    BY <1>1, <1>7, <2>2, <2>3 DEF Timely
  <2>8. Waiting(q) = Waiting(kk) \ {c}
    BY <1>7, <2>3 DEF Waiting
  <2>9. ASSUME NEW t \in Waiting(q) PROVE t # c /\ Dist(q, t) = Dist(kk, t)
    BY <1>1, <1>7, <2>2, <2>3, <2>8, <2>9 DEF Dist, Waiting
  <2>10. q.suspended = kk.suspended \cup {c}
    BY <1>7, <2>2
  <2>11. QED
    BY <1>7, <1>14, <2>1, <2>2, <2>3, <2>6, <2>7, <2>8, <2>9, <2>10 DEF u, forever
<1>15. CASE ~ forever /\ at < kk.tick
  <2>1. u = y
    BY <1>2, <1>15
  <2> DEFINE s == Insert(w.overflow, c, x.wake)
  <2>2. /\ s \in Seq(All) /\ IsInjective(s) /\ Sorted(s, x.wake)
        /\ ToSet(s) = Ov(kk) \cup {c}
    BY <1>10, <1>12
  <2>3. y = [x EXCEPT !.overflow = s]
    BY <1>9
  <2> HIDE DEF s, y, u, forever
  <2>4. /\ y \in KernelState /\ y.overflow = s /\ y.suspended = x.suspended
        /\ y.ready = x.ready /\ y.top = x.top /\ y.delayed = x.delayed
        /\ y.terminated = x.terminated /\ y.events = x.events
        /\ y.wake = x.wake /\ y.priority = x.priority /\ y.nextUnblock = x.nextUnblock
        /\ y.current = x.current /\ y.schedulerSuspended = x.schedulerSuspended
        /\ y.base = x.base /\ y.item = x.item /\ y.swi = x.swi
        /\ y.yieldPending = x.yieldPending
        /\ y.tick = x.tick /\ y.overflows = x.overflows /\ y.pendedTicks = x.pendedTicks
    BY <1>9, <2>2, <2>3 DEF KernelState
  <2>5. Rd(y) = Rd(w) /\ Dl(y) = Dl(w) /\ Ov(y) = Ov(kk) \cup {c} /\ Gn(y) = Gn(w)
        /\ \A l : Ev(y, l) = Ev(w, l)
    BY <1>9, <2>2, <2>4 DEF Rd, InReady, Dl, Ov, Gn, Ev
  <2>6. Apart(y)
    BY <1>3, <1>6, <1>7, <1>9, <2>4, <2>5 DEF Sound, Apart
  <2>7. ReadyRight(y)
    BY <1>6, <1>9, <2>4 DEF Sound, ReadyRight
  <2>8. Sound(y)
    BY <1>6, <1>9, <1>10, <2>2, <2>4, <2>5, <2>6, <2>7, Zenon DEF Sound
  <2>9. Timely(y)
    <3>1. \A t \in Dl(y) : t \in Dl(kk) /\ y.wake[t] = kk.wake[t]
      BY <1>7, <1>13, <2>4, <2>5 DEF Waiting
    <3>2. \A t \in Ov(y) : (t = c /\ y.wake[t] = at) \/ (t \in Ov(kk) /\ y.wake[t] = kk.wake[t])
      BY <1>9, <1>13, <2>4, <2>5 DEF Waiting
    <3>3. y.tick = kk.tick /\ y.nextUnblock = kk.nextUnblock
      BY <1>7, <1>9, <2>4
    <3>4. QED
      BY <3>1, <3>2, <3>3, <1>15 DEF Timely
  <2>10. Waiting(y) = Waiting(kk) \cup {c}
    BY <1>7, <2>5 DEF Waiting
  <2>11. ASSUME NEW t \in Waiting(y) PROVE Dist(y, t) = IF t = c THEN ticks ELSE Dist(kk, t)
    <3>1. y.tick = kk.tick
      BY <1>7, <1>9, <2>4
    <3>2. CASE t = c
      <4>1. Dist(y, c) = at + Ticks - kk.tick
        BY <1>7, <1>9, <2>4, <2>5, <3>1 DEF Dist
      <4>2. QED
        BY <4>1, <3>2, <1>1, <1>8, <1>15
    <3>3. CASE t # c
      BY <3>1, <3>3, <1>7, <1>13, <2>4, <2>5, <2>10, <2>11 DEF Dist
    <3>4. QED
      BY <3>2, <3>3
  <2>12. y.suspended = kk.suspended \ {c}
    BY <1>7, <1>9, <2>4
  <2>13. QED
    BY <1>7, <1>9, <1>15, <2>1, <2>4, <2>5, <2>8, <2>9, <2>10, <2>11, <2>12 DEF u, forever
<1>16. CASE ~ forever /\ ~ (at < kk.tick)
  <2>1. u = z
    BY <1>2, <1>16
  <2> DEFINE s == Insert(w.delayed, c, x.wake)
             n == IF at < x.nextUnblock THEN at ELSE x.nextUnblock
  <2>2. /\ s \in Seq(All) /\ IsInjective(s) /\ Sorted(s, x.wake)
        /\ ToSet(s) = Dl(kk) \cup {c}
    BY <1>10, <1>12
  <2>3. z = [x EXCEPT !.delayed = s, !.nextUnblock = n]
    BY <1>9
  <2>4. /\ n \in 0 .. Ticks - 1 /\ n <= at /\ n <= x.nextUnblock
        /\ x.nextUnblock \in 0 .. Ticks - 1
    <3>1. x.nextUnblock \in 0 .. Ticks - 1
      BY <1>9, KernelTypes
    <3>2. QED
      BY <3>1, <1>8
  <2> HIDE DEF s, z, u, n, forever
  <2>5. /\ z \in KernelState /\ z.delayed = s /\ z.suspended = x.suspended
        /\ z.ready = x.ready /\ z.top = x.top /\ z.overflow = x.overflow
        /\ z.terminated = x.terminated /\ z.events = x.events
        /\ z.wake = x.wake /\ z.priority = x.priority /\ z.nextUnblock = n
        /\ z.current = x.current /\ z.schedulerSuspended = x.schedulerSuspended
        /\ z.base = x.base /\ z.item = x.item /\ z.swi = x.swi
        /\ z.yieldPending = x.yieldPending
        /\ z.tick = x.tick /\ z.overflows = x.overflows /\ z.pendedTicks = x.pendedTicks
    BY <1>9, <2>2, <2>3, <2>4 DEF KernelState
  <2>6. Rd(z) = Rd(w) /\ Dl(z) = Dl(kk) \cup {c} /\ Ov(z) = Ov(w) /\ Gn(z) = Gn(w)
        /\ \A l : Ev(z, l) = Ev(w, l)
    BY <1>9, <2>2, <2>5 DEF Rd, InReady, Dl, Ov, Gn, Ev
  <2>7. Apart(z)
    BY <1>3, <1>6, <1>7, <1>9, <2>5, <2>6 DEF Sound, Apart
  <2>8. ReadyRight(z)
    BY <1>6, <1>9, <2>5 DEF Sound, ReadyRight
  <2>9. Sound(z)
    BY <1>6, <1>9, <1>10, <2>2, <2>5, <2>6, <2>7, <2>8, Zenon DEF Sound
  <2>10. Timely(z)
    <3>1. \A t \in Ov(z) : t \in Ov(kk) /\ z.wake[t] = kk.wake[t]
      BY <1>7, <1>13, <2>5, <2>6 DEF Waiting
    <3>2. \A t \in Dl(z) : \/ t = c /\ z.wake[t] = at
                           \/ t \in Dl(kk) /\ t # c /\ z.wake[t] = kk.wake[t]
      BY <1>9, <1>13, <2>5, <2>6 DEF Waiting
    <3>3. z.tick = kk.tick /\ x.nextUnblock = kk.nextUnblock
      BY <1>7, <1>9, <2>5
    <3>4. ASSUME NEW t \in Dl(z) PROVE z.wake[t] > z.tick /\ z.nextUnblock <= z.wake[t]
      <4>1. CASE z.wake[t] = at
        BY <4>1, <3>3, <1>1, <1>8, <1>16, <2>4, <2>5
      <4>2. CASE t \in Dl(kk) /\ z.wake[t] = kk.wake[t]
        <5>1. /\ kk.wake[t] > kk.tick /\ kk.nextUnblock <= kk.wake[t]
              /\ kk.wake[t] \in 0 .. Ticks - 1
          BY <4>2, <1>1, KernelTypes DEF Timely
        <5>2. QED
          BY <4>2, <5>1, <3>3, <2>4, <2>5
      <4>3. QED
        BY <4>1, <4>2, <3>2
    <3>5. QED
      BY <3>1, <3>3, <3>4 DEF Timely
  <2>11. Waiting(z) = Waiting(kk) \cup {c}
    BY <1>7, <2>6 DEF Waiting
  <2>12. ASSUME NEW t \in Waiting(z) PROVE Dist(z, t) = IF t = c THEN ticks ELSE Dist(kk, t)
    <3>1. z.tick = kk.tick
      BY <1>7, <1>9, <2>5
    <3>2. CASE t = c
      <4>1. Dist(z, c) = at - kk.tick
        BY <1>9, <2>5, <2>6, <3>1 DEF Dist
      <4>2. QED
        BY <4>1, <3>2, <1>1, <1>8, <1>16
    <3>3. CASE t # c
      BY <3>1, <3>3, <1>7, <1>13, <2>5, <2>6, <2>11, <2>12 DEF Dist
    <3>4. QED
      BY <3>2, <3>3
  <2>13. z.suspended = kk.suspended \ {c}
    BY <1>7, <1>9, <2>5
  <2>14. QED
    BY <1>7, <1>9, <1>16, <2>1, <2>5, <2>6, <2>9, <2>10, <2>11, <2>12, <2>13 DEF u, forever
<1>17. QED
  BY <1>14, <1>15, <1>16

(* vTaskSwitchContext with the scheduler running: whoever runs next is     *)
(* ready and of the highest priority there is; no list changes but for     *)
(* whose turn it is.                                                       *)
LEMMA SwitchContextRight ==
  ASSUME NEW kk, Sound(kk), kk.schedulerSuspended = 0, Rd(kk) # {}
  PROVE  LET u == SwitchContext(kk)
         IN  /\ Sound(u) /\ SameViews(u, kk)
             /\ u.current \in Rd(u) /\ \A t \in Rd(u) : u.priority[t] <= u.priority[u.current]
             /\ u.swi = FALSE /\ u.yieldPending = FALSE
             /\ u.schedulerSuspended = 0 /\ u.priority = kk.priority /\ u.base = kk.base
             /\ u.tick = kk.tick /\ u.overflows = kk.overflows
             /\ u.nextUnblock = kk.nextUnblock /\ u.pendedTicks = kk.pendedTicks
<1> DEFINE u == SwitchContext(kk)
           T == {q \in 0 .. kk.top : kk.ready[q].items # << >>}
           Best(q) == /\ kk.ready[q].items # << >>
                      /\ \A r \in q + 1 .. kk.top : kk.ready[r].items = << >>
           p == CHOOSE q \in 0 .. kk.top : Best(q)
           l == kk.ready[p]
           i == IF l.index = Len(l.items) THEN 1 ELSE l.index + 1
           m == [l EXCEPT !.index = i]
           ready == [kk.ready EXCEPT ![p] = m]
<1>1. /\ kk \in KernelState /\ kk.top \in 0 .. MaxPriorities - 1 /\ MaxPriorities \in Nat
      /\ kk.ready \in [Priority -> Lists(All)]
  BY KernelTypes, KernelAssumption DEF Sound, Priority
<1>2. 0 .. kk.top \subseteq Priority
  BY <1>1 DEF Priority
<1>3. \A q \in Priority :
        /\ \A t \in RdAt(kk, q) : kk.priority[t] = q
        /\ kk.ready[q].index \in 0 .. Len(kk.ready[q].items)
        /\ RdAt(kk, q) # {} => q <= kk.top
  BY <1>1, ReadySets DEF Sound
<1>4. \A q \in Priority :
        /\ kk.ready[q].items \in Seq(All) /\ kk.ready[q].index \in Nat
        /\ kk.ready[q].items = << >> <=> RdAt(kk, q) = {}
  <2>1. TAKE q \in Priority
  <2>2. kk.ready[q] \in Lists(All)
    BY <1>1
  <2>3. kk.ready[q].items \in Seq(All) /\ kk.ready[q].index \in Nat
    BY <2>2 DEF Lists
  <2>4. QED
    BY <2>3, InToSet DEF RdAt
<1>5. T # {}
  <2>1. PICK t : t \in Rd(kk)
    OBVIOUS
  <2>2. PICK q \in Priority : t \in RdAt(kk, q)
    BY <2>1, <1>1, ReadySets
  <2>3. q <= kk.top /\ kk.ready[q].items # << >>
    BY <2>2, <1>3, <1>4
  <2>4. q \in 0 .. kk.top
    BY <2>3, <1>1 DEF Priority
  <2>5. QED
    BY <2>3, <2>4
<1>6. \E q \in 0 .. kk.top : Best(q)
  <2>1. T \subseteq 0 .. kk.top /\ kk.top \in Nat
    BY <1>1
  <2>2. PICK q \in T : \A r \in T : r <= q
    BY <2>1, <1>5, Greatest
  <2>3. ASSUME NEW r \in q + 1 .. kk.top PROVE kk.ready[r].items = << >>
    <3>1. r \in 0 .. kk.top /\ ~ (r <= q)
      BY <1>1, <2>2
    <3>2. QED
      BY <3>1, <2>2
  <2>4. QED
    BY <2>2, <2>3
<1>7. p \in 0 .. kk.top /\ Best(p)
  BY <1>6
<1>8. u = [kk EXCEPT !.swi = FALSE, !.yieldPending = FALSE, !.top = p, !.ready[p].index = i,
                     !.current = l.items[i]]
  BY DEF SwitchContext
<1> HIDE DEF p
<1>9. p \in Priority
  BY <1>2, <1>7
<1>10. /\ l \in Lists(All) /\ l.items \in Seq(All) /\ l.items # << >>
       /\ l.index \in 0 .. Len(l.items)
  BY <1>1, <1>3, <1>4, <1>7, <1>9
<1>11. i \in 1 .. Len(l.items)
  BY <1>10
<1>12. l.items[i] \in All /\ l.items[i] \in RdAt(kk, p)
  BY <1>10, <1>11, InToSet DEF RdAt
<1>13. m \in Lists(All) /\ m.items = l.items /\ m.index = i
  BY <1>10, <1>11 DEF Lists
<1>14. ready \in [Priority -> Lists(All)] /\ ready[p] = m
       /\ \A q \in Priority : q # p => ready[q] = kk.ready[q]
  BY <1>1, <1>9, <1>13
<1> DEFINE c == l.items[i]
<1>15. u = [kk EXCEPT !.swi = FALSE, !.yieldPending = FALSE, !.top = p, !.ready = ready,
                      !.current = c]
  BY <1>1, <1>8 DEF KernelState
<1> HIDE DEF u, ready, c, m, i
<1>16. c \in All /\ c \in RdAt(kk, p)
  BY <1>12 DEF c
<1>17. /\ u \in KernelState
       /\ u.ready = ready /\ u.top = p /\ u.current = c /\ u.swi = FALSE
       /\ u.yieldPending = FALSE /\ u.delayed = kk.delayed
       /\ u.overflow = kk.overflow /\ u.suspended = kk.suspended
       /\ u.terminated = kk.terminated /\ u.events = kk.events
       /\ u.wake = kk.wake /\ u.priority = kk.priority /\ u.nextUnblock = kk.nextUnblock
       /\ u.schedulerSuspended = kk.schedulerSuspended /\ u.base = kk.base
       /\ u.tick = kk.tick /\ u.overflows = kk.overflows /\ u.pendedTicks = kk.pendedTicks
  BY <1>1, <1>9, <1>14, <1>15, <1>16, ZenonT(30) DEF KernelState, Lists
<1>18. \A q \in Priority : u.ready[q].items = kk.ready[q].items
  BY <1>13, <1>14, <1>17
<1>19. \A q \in Priority : RdAt(u, q) = RdAt(kk, q)
  BY <1>18 DEF RdAt
<1>20. Rd(u) = Rd(kk)
  <2>1. \A t : t \in Rd(kk) <=> \E q \in Priority : t \in RdAt(kk, q)
    BY <1>1, ReadySets
  <2>2. \A t : t \in Rd(u) <=> \E q \in Priority : t \in RdAt(u, q)
    BY <1>17, ReadySets
  <2>3. QED
    BY <2>1, <2>2, <1>19
<1>21. Dl(u) = Dl(kk) /\ Ov(u) = Ov(kk) /\ Gn(u) = Gn(kk) /\ \A x : Ev(u, x) = Ev(kk, x)
  BY <1>17 DEF Dl, Ov, Gn, Ev
<1>22. Apart(u)
  BY <1>17, <1>20, <1>21 DEF Sound, Apart
<1>23. ASSUME NEW q \in Priority, RdAt(kk, q) # {} PROVE q <= p
  <2>1. q <= kk.top /\ kk.ready[q].items # << >>
    BY <1>3, <1>4, <1>23
  <2>2. q \notin p + 1 .. kk.top
    BY <2>1, <1>7
  <2>3. q \in Nat /\ p \in Nat
    BY <1>9 DEF Priority
  <2>4. QED
    BY <2>1, <2>2, <2>3, <1>1
<1>24. ReadyRight(u)
  <2>1. \A q \in Priority : u.ready[q].index \in 0 .. Len(u.ready[q].items)
    <3>1. TAKE q \in Priority
    <3>2. CASE q = p
      BY <3>2, <1>10, <1>11, <1>13, <1>14, <1>17
    <3>3. CASE q # p
      BY <3>3, <1>3, <1>14, <1>17
    <3>4. QED
      BY <3>2, <3>3
  <2>2. QED
    BY <2>1, <1>3, <1>17, <1>19, <1>23, ReadySets
<1>25. Sound(u)
  <2>1. \A q \in Priority : IsInjective(u.ready[q].items)
    BY <1>18 DEF Sound
  <2>2. QED
    BY <2>1, <1>17, <1>21, <1>22, <1>24, Zenon DEF Sound
<1>26. u.current \in Rd(u)
  BY <1>1, <1>9, <1>16, <1>17, <1>20, ReadySets
<1>27. ASSUME NEW t \in Rd(u) PROVE u.priority[t] <= u.priority[u.current]
  <2>1. PICK q \in Priority : t \in RdAt(kk, q)
    BY <1>1, <1>20, ReadySets
  <2>2. kk.priority[t] = q /\ kk.priority[c] = p /\ q <= p
    BY <2>1, <1>3, <1>9, <1>16, <1>23
  <2>3. QED
    BY <2>2, <1>17
<1>28. QED
  BY <1>17, <1>20, <1>21, <1>25, <1>26, <1>27 DEF u, SameViews

(* A task that is not ready may change its priority with no list to change.*)
LEMMA PriorityAside ==
  ASSUME NEW kk, Sound(kk), NEW u \in KernelState, NEW t \in All, t \notin Rd(kk),
         \A x \in All \ {t} : u.priority[x] = kk.priority[x],
         u.ready = kk.ready, u.top = kk.top, u.delayed = kk.delayed, u.overflow = kk.overflow,
         u.suspended = kk.suspended, u.terminated = kk.terminated, u.events = kk.events,
         \A x \in Waiting(kk) : u.wake[x] = kk.wake[x]
  PROVE  /\ Sound(u)
         /\ Rd(u) = Rd(kk) /\ Dl(u) = Dl(kk) /\ Ov(u) = Ov(kk) /\ Gn(u) = Gn(kk)
         /\ \A l : Ev(u, l) = Ev(kk, l)
<1>1. kk \in KernelState
  BY DEF Sound
<1>2. Dl(u) = Dl(kk) /\ Ov(u) = Ov(kk) /\ Gn(u) = Gn(kk) /\ \A l : Ev(u, l) = Ev(kk, l)
  BY DEF Dl, Ov, Gn, Ev
<1>3. \A p : RdAt(u, p) = RdAt(kk, p)
  BY DEF RdAt
<1>4. Rd(u) = Rd(kk)
  BY DEF Rd, InReady
<1>5. ReadyRight(u)
  <2>1. \A p \in Priority :
                /\ \A x \in RdAt(kk, p) : kk.priority[x] = p
                /\ kk.ready[p].index \in 0 .. Len(kk.ready[p].items)
                /\ RdAt(kk, p) # {} => p <= kk.top
    BY <1>1, ReadySets DEF Sound
  <2>2. \A p \in Priority : \A x \in RdAt(kk, p) : x \in All \ {t}
    BY <1>1, ReadySets
  <2>3. QED
    BY <2>1, <2>2, <1>3, ReadySets
<1>6. Apart(u)
  BY <1>2, <1>4 DEF Sound, Apart
<1>7. Sorted(u.delayed, u.wake) /\ Sorted(u.overflow, u.wake)
  <2>1. /\ kk.delayed \in Seq(All) /\ kk.overflow \in Seq(All)
        /\ Sorted(kk.delayed, kk.wake) /\ Sorted(kk.overflow, kk.wake)
    BY <1>1, KernelTypes DEF Sound
  <2>2. /\ \A x \in ToSet(kk.delayed) : u.wake[x] = kk.wake[x]
        /\ \A x \in ToSet(kk.overflow) : u.wake[x] = kk.wake[x]
    BY DEF Waiting, Dl, Ov
  <2>3. QED
    BY <2>1, <2>2, SortedSame
<1>8. Sound(u)
  BY <1>2, <1>5, <1>6, <1>7, Zenon DEF Sound
<1>9. QED
  BY <1>2, <1>4, <1>8

(* vTaskPrioritySet and the inheritance of priorities: the task has the    *)
(* priority, a ready one stands in its new list, and nobody is in another  *)
(* list than before.                                                       *)
LEMMA SetPriorityRight ==
  ASSUME NEW kk, Sound(kk), NEW t \in All, NEW p \in Priority
  PROVE  LET u == SetPriority(kk, t, p)
         IN  /\ Sound(u)
             /\ Rd(u) = Rd(kk) /\ Dl(u) = Dl(kk) /\ Ov(u) = Ov(kk)
             /\ u.suspended = kk.suspended /\ Gn(u) = Gn(kk)
             /\ \A l : Ev(u, l) = Ev(kk, l)
             /\ \A x \in Waiting(kk) : u.wake[x] = kk.wake[x]
             /\ u.priority = [kk.priority EXCEPT ![t] = p]
             /\ u.current = kk.current /\ u.schedulerSuspended = kk.schedulerSuspended
             /\ u.base = kk.base /\ u.swi = kk.swi /\ u.yieldPending = kk.yieldPending
             /\ u.tick = kk.tick /\ u.overflows = kk.overflows
             /\ u.nextUnblock = kk.nextUnblock /\ u.pendedTicks = kk.pendedTicks
<1> DEFINE u == SetPriority(kk, t, p)
           i == MaxPriorities - p
           priority == [kk.priority EXCEPT ![t] = p]
           item == [kk.item EXCEPT ![t] = i]
           v == Unlink(kk, {t})
           w == [kk EXCEPT !.priority = priority, !.item = item]
           x == [v EXCEPT !.priority = priority, !.item = item]
           y == AddToReady(x, <<t>>)
<1>1. /\ kk \in KernelState /\ Dl(kk) \subseteq All /\ Ov(kk) \subseteq All
  BY KernelTypes, InToSet DEF Sound, Dl, Ov
<1>2. /\ priority \in [All -> Priority] /\ item \in [All -> 0 .. MaxPriorities]
      /\ \A z \in All \ {t} : priority[z] = kk.priority[z]
  <2>1. i \in 0 .. MaxPriorities
    BY KernelAssumption DEF Priority
  <2>2. kk.priority \in [All -> Priority] /\ kk.item \in [All -> 0 .. MaxPriorities]
    BY <1>1, KernelTypes
  <2>3. QED
    BY <2>1, <2>2
<1>3. [kk EXCEPT !.priority[t] = p, !.item[t] = MaxPriorities - p] = w
  BY <1>1 DEF KernelState
<1>4. u = IF t \in Rd(kk) THEN AddToReady(Unlink(w, {t}), <<t>>) ELSE w
  BY <1>3 DEF SetPriority, Rd
<1> HIDE DEF priority, item
<1>5. /\ Sound(v)
      /\ Rd(v) = Rd(kk) \ {t} /\ Dl(v) = Dl(kk) \ {t} /\ Ov(v) = Ov(kk) \ {t}
      /\ v.suspended = kk.suspended \ {t} /\ Gn(v) = Gn(kk) \ {t}
      /\ \A z \in All \ {t} : v.wake[z] = kk.wake[z]
      /\ Frame(v, kk) /\ \A l : Ev(v, l) = Ev(kk, l)
  BY UnlinkRight
<1>6. Unlink(w, {t}) = x
  BY <1>1, ZenonT(30) DEF Unlink, KernelState
<1> HIDE DEF v, u
<1>7. CASE t \notin Rd(kk)
  <2>1. u = w
    BY <1>4, <1>7
  <2>2. /\ w \in KernelState /\ w.priority = priority
        /\ w.ready = kk.ready /\ w.top = kk.top /\ w.delayed = kk.delayed
        /\ w.overflow = kk.overflow /\ w.suspended = kk.suspended
        /\ w.terminated = kk.terminated /\ w.events = kk.events /\ w.wake = kk.wake
        /\ w.current = kk.current /\ w.schedulerSuspended = kk.schedulerSuspended
        /\ w.base = kk.base /\ w.swi = kk.swi /\ w.yieldPending = kk.yieldPending
        /\ w.tick = kk.tick /\ w.overflows = kk.overflows
        /\ w.nextUnblock = kk.nextUnblock /\ w.pendedTicks = kk.pendedTicks
    BY <1>1, <1>2 DEF KernelState
  <2> HIDE DEF w
  <2>3. /\ Sound(w)
        /\ Rd(w) = Rd(kk) /\ Dl(w) = Dl(kk) /\ Ov(w) = Ov(kk) /\ Gn(w) = Gn(kk)
        /\ \A l : Ev(w, l) = Ev(kk, l)
    BY <1>2, <1>7, <2>2, PriorityAside
  <2>4. QED
    BY <2>1, <2>2, <2>3 DEF u, priority
<1>8. CASE t \in Rd(kk)
  <2>1. u = y
    BY <1>4, <1>6, <1>8
  <2>2. v \in KernelState /\ t \notin Rd(v)
    BY <1>5 DEF Sound
  <2>3. /\ x \in KernelState /\ x.priority = priority
        /\ x.ready = v.ready /\ x.top = v.top /\ x.delayed = v.delayed
        /\ x.overflow = v.overflow /\ x.suspended = v.suspended
        /\ x.terminated = v.terminated /\ x.events = v.events /\ x.wake = v.wake
        /\ x.current = v.current /\ x.schedulerSuspended = v.schedulerSuspended
        /\ x.base = v.base /\ x.swi = v.swi /\ x.yieldPending = v.yieldPending
        /\ x.tick = v.tick /\ x.overflows = v.overflows
        /\ x.nextUnblock = v.nextUnblock /\ x.pendedTicks = v.pendedTicks
    BY <1>2, <2>2 DEF KernelState
  <2> HIDE DEF x
  <2>4. \A z \in All \ {t} : x.priority[z] = v.priority[z]
    BY <1>2, <1>5, <2>3 DEF Frame, Settled
  <2>5. /\ Sound(x)
        /\ Rd(x) = Rd(v) /\ Dl(x) = Dl(v) /\ Ov(x) = Ov(v) /\ Gn(x) = Gn(v)
        /\ \A l : Ev(x, l) = Ev(v, l)
    BY <1>5, <2>2, <2>3, <2>4, PriorityAside
  <2>6. ToSet(<<t>>) \cap Listed(x) = {} /\ <<t>> \in Seq(All) /\ IsInjective(<<t>>)
    BY <1>5, <2>3, <2>5, Alone DEF Listed
  <2>7. /\ Sound(y)
        /\ Rd(y) = Rd(x) \cup {t} /\ Dl(y) = Dl(x) /\ Ov(y) = Ov(x)
        /\ y.suspended = x.suspended /\ Gn(y) = Gn(x) /\ y.wake = x.wake
        /\ Frame(y, x) /\ \A l : Ev(y, l) = Ev(x, l)
    BY <2>5, <2>6, Alone, AddToReadyRight
  <2> HIDE DEF y
  <2>8. /\ t \notin Dl(kk) /\ t \notin Ov(kk) /\ t \notin kk.suspended /\ t \notin Gn(kk)
    BY <1>8 DEF Sound, Apart
  <2>9. /\ Rd(y) = Rd(kk) /\ Dl(y) = Dl(kk) /\ Ov(y) = Ov(kk)
        /\ y.suspended = kk.suspended /\ Gn(y) = Gn(kk)
        /\ \A l : Ev(y, l) = Ev(kk, l)
    BY <1>5, <1>8, <2>3, <2>5, <2>7, <2>8
  <2>10. \A z \in Waiting(kk) : y.wake[z] = kk.wake[z]
    BY <1>1, <1>5, <2>3, <2>7, <2>8 DEF Waiting
  <2>11. /\ y.priority = priority
         /\ y.current = kk.current /\ y.schedulerSuspended = kk.schedulerSuspended
         /\ y.base = kk.base /\ y.swi = kk.swi /\ y.yieldPending = kk.yieldPending
         /\ y.tick = kk.tick /\ y.overflows = kk.overflows
         /\ y.nextUnblock = kk.nextUnblock /\ y.pendedTicks = kk.pendedTicks
    BY <1>5, <2>3, <2>7 DEF Frame, Settled
  <2>12. QED
    BY <2>1, <2>7, <2>9, <2>10, <2>11 DEF u, priority
<1>9. QED
  BY <1>7, <1>8

(* The last part of xTaskAbortDelay: the task it took out of its list waits*)
(* for no event, is ready, and a switch is pending when its priority is    *)
(* higher.                                                                 *)
LEMMA AbortWaitRight ==
  ASSUME NEW kk, Sound(kk), NEW t \in All \ Listed(kk)
  PROVE  LET u == AbortWait(kk, t)
         IN  /\ Sound(u)
             /\ Rd(u) = Rd(kk) \cup {t} /\ Dl(u) = Dl(kk) /\ Ov(u) = Ov(kk)
             /\ u.suspended = kk.suspended /\ Gn(u) = Gn(kk) /\ u.wake = kk.wake
             /\ \A l \in Events : Ev(u, l) = Ev(kk, l) \ {t}
             /\ u.current = kk.current /\ u.schedulerSuspended = kk.schedulerSuspended
             /\ u.priority = kk.priority /\ u.base = kk.base
             /\ u.tick = kk.tick /\ u.overflows = kk.overflows /\ u.swi = kk.swi
             /\ u.nextUnblock = kk.nextUnblock /\ u.pendedTicks = kk.pendedTicks
             /\ u.yieldPending = (kk.yieldPending \/ kk.priority[t] > kk.priority[kk.current])
<1> DEFINE u == AbortWait(kk, t)
           v == Unwait(kk, {t})
           waits == \E l \in DOMAIN kk.events : t \in ToSet(kk.events[l])
           w == [v EXCEPT !.aborted[t] = @ \/ waits]
           x == AddToReady(w, <<t>>)
           high == kk.priority[t] > kk.priority[kk.current]
           b == x.yieldPending \/ high
           y == [x EXCEPT !.yieldPending = b]
<1>1. u = y
  BY DEF AbortWait
<1>2. /\ Sound(v)
      /\ \A l \in Events : Ev(v, l) = Ev(kk, l) \ {t}
      /\ Rd(v) = Rd(kk) /\ Dl(v) = Dl(kk) /\ Ov(v) = Ov(kk)
      /\ v.suspended = kk.suspended /\ Gn(v) = Gn(kk) /\ v.wake = kk.wake
      /\ Frame(v, kk)
  BY UnwaitRight
<1> HIDE DEF v, waits
<1>3. v \in KernelState
  BY <1>2 DEF Sound
<1>4. /\ w \in KernelState
      /\ w.ready = v.ready /\ w.top = v.top /\ w.delayed = v.delayed
      /\ w.overflow = v.overflow /\ w.suspended = v.suspended
      /\ w.terminated = v.terminated /\ w.events = v.events
      /\ w.wake = v.wake /\ w.priority = v.priority /\ w.nextUnblock = v.nextUnblock
      /\ w.current = v.current /\ w.schedulerSuspended = v.schedulerSuspended
      /\ w.base = v.base /\ w.item = v.item /\ w.swi = v.swi /\ w.yieldPending = v.yieldPending
      /\ w.tick = v.tick /\ w.overflows = v.overflows /\ w.pendedTicks = v.pendedTicks
  <2> DEFINE a == v.aborted[t] \/ waits
             aborted == [v.aborted EXCEPT ![t] = a]
  <2>1. a \in BOOLEAN
    OBVIOUS
  <2> HIDE DEF a
  <2>2. aborted \in [All -> BOOLEAN]
    BY <2>1, <1>3, KernelTypes
  <2>3. w = [v EXCEPT !.aborted = aborted]
    BY <1>3 DEF a, KernelState
  <2> HIDE DEF aborted, w
  <2>4. QED
    BY <2>2, <2>3, <1>3 DEF KernelState
<1> HIDE DEF w
<1>5. /\ Sound(w)
      /\ Rd(w) = Rd(v) /\ Dl(w) = Dl(v) /\ Ov(w) = Ov(v) /\ Gn(w) = Gn(v)
      /\ \A l : Ev(w, l) = Ev(v, l)
  BY <1>2, <1>4, SameLists
<1>6. ToSet(<<t>>) \cap Listed(w) = {} /\ <<t>> \in Seq(All) /\ IsInjective(<<t>>)
  BY <1>2, <1>4, <1>5, Alone DEF Listed
<1>7. /\ Sound(x)
      /\ Rd(x) = Rd(w) \cup {t} /\ Dl(x) = Dl(w) /\ Ov(x) = Ov(w)
      /\ x.suspended = w.suspended /\ Gn(x) = Gn(w) /\ x.wake = w.wake
      /\ Frame(x, w) /\ \A l : Ev(x, l) = Ev(w, l)
  BY <1>5, <1>6, Alone, AddToReadyRight
<1> HIDE DEF x, high
<1>8. x \in KernelState /\ b \in BOOLEAN
  BY <1>7 DEF Sound
<1> HIDE DEF b, u
<1>9. /\ y \in KernelState /\ y.yieldPending = b
      /\ y.ready = x.ready /\ y.top = x.top /\ y.delayed = x.delayed
      /\ y.overflow = x.overflow /\ y.suspended = x.suspended
      /\ y.terminated = x.terminated /\ y.events = x.events
      /\ y.wake = x.wake /\ y.priority = x.priority /\ y.nextUnblock = x.nextUnblock
      /\ y.current = x.current /\ y.schedulerSuspended = x.schedulerSuspended
      /\ y.base = x.base /\ y.swi = x.swi
      /\ y.tick = x.tick /\ y.overflows = x.overflows /\ y.pendedTicks = x.pendedTicks
  BY <1>8 DEF KernelState
<1> HIDE DEF y
<1>10. /\ Sound(y)
       /\ Rd(y) = Rd(x) /\ Dl(y) = Dl(x) /\ Ov(y) = Ov(x) /\ Gn(y) = Gn(x)
       /\ \A l : Ev(y, l) = Ev(x, l)
  BY <1>7, <1>9, SameLists
<1>11. /\ y.current = kk.current /\ y.schedulerSuspended = kk.schedulerSuspended
       /\ y.priority = kk.priority /\ y.base = kk.base
       /\ y.tick = kk.tick /\ y.overflows = kk.overflows /\ y.swi = kk.swi
       /\ y.nextUnblock = kk.nextUnblock /\ y.pendedTicks = kk.pendedTicks
       /\ x.yieldPending = kk.yieldPending
  BY <1>2, <1>4, <1>7, <1>9 DEF Frame, Settled
<1>12. y.yieldPending = (kk.yieldPending \/ high)
  BY <1>9, <1>11 DEF b
<1>13. /\ Rd(y) = Rd(kk) \cup {t} /\ Dl(y) = Dl(kk) /\ Ov(y) = Ov(kk)
       /\ y.suspended = kk.suspended /\ Gn(y) = Gn(kk) /\ y.wake = kk.wake
       /\ \A l \in Events : Ev(y, l) = Ev(kk, l) \ {t}
  BY <1>2, <1>4, <1>5, <1>7, <1>9, <1>10
<1>14. y.yieldPending = (kk.yieldPending \/ kk.priority[t] > kk.priority[kk.current])
  BY <1>12 DEF high
<1>15. QED
  BY <1>1, <1>10, <1>11, <1>13, <1>14 DEF u

(* Waking one task with the scheduler running makes it ready at once, ...  *)
LEMMA MakeReadyRight ==
  ASSUME NEW kk, Sound(kk), NEW t \in All, kk.schedulerSuspended = 0
  PROVE  LET u == MakeReady(kk, t)
         IN  /\ Sound(u)
             /\ Rd(u) = Rd(kk) \cup {t} /\ Dl(u) = Dl(kk) \ {t} /\ Ov(u) = Ov(kk) \ {t}
             /\ u.suspended = kk.suspended \ {t} /\ Gn(u) = Gn(kk) \ {t}
             /\ \A x \in All \ {t} : u.wake[x] = kk.wake[x]
             /\ Frame(u, kk) /\ \A l : Ev(u, l) = Ev(kk, l)
<1> DEFINE s == <<t>>
           u == AddToReady(Unlink(kk, ToSet(s)), s)
<1>1. s \in Seq(All) /\ IsInjective(s) /\ ToSet(s) = {t}
  BY Alone
<1>2. MakeReady(kk, t) = u
  BY <1>1 DEF MakeReady
<1> HIDE DEF s
<1>3. /\ Sound(u)
      /\ Rd(u) = Rd(kk) \cup ToSet(s)
      /\ Dl(u) = Dl(kk) \ ToSet(s) /\ Ov(u) = Ov(kk) \ ToSet(s)
      /\ u.suspended = kk.suspended \ ToSet(s) /\ Gn(u) = Gn(kk) \ ToSet(s)
      /\ \A x \in All \ ToSet(s) : u.wake[x] = kk.wake[x]
      /\ Frame(u, kk) /\ \A l : Ev(u, l) = Ev(kk, l)
  BY <1>1, MoveToReady
<1> HIDE DEF u
<1>4. QED
  BY <1>1, <1>2, <1>3

(* ... and while the scheduler is suspended puts it into xPendingReadyList,*)
(* its state item staying where it is.                                     *)
LEMMA MakeReadyLater ==
  ASSUME NEW kk, Sound(kk), NEW t \in All, kk.schedulerSuspended # 0,
         \A l \in Events : t \notin Ev(kk, l)
  PROVE  LET u == MakeReady(kk, t)
         IN  /\ Sound(u)
             /\ Rd(u) = Rd(kk) /\ Dl(u) = Dl(kk) /\ Ov(u) = Ov(kk)
             /\ u.suspended = kk.suspended /\ Gn(u) = Gn(kk) /\ u.wake = kk.wake
             /\ Ev(u, Pending) = Ev(kk, Pending) \cup {t}
             /\ \A l \in EventLists \ {Pending} : Ev(u, l) = Ev(kk, l)
             /\ Frame(u, kk)
<1> DEFINE u == MakeReady(kk, t)
           s == kk.events[Pending]
           r == Append(s, t)
           events == [kk.events EXCEPT ![Pending] = r]
<1>1. /\ kk \in KernelState /\ Pending \in Events /\ s \in Seq(All) /\ IsInjective(s)
      /\ kk.events \in [Events -> Seq(All)] /\ t \notin ToSet(s)
  BY KernelTypes DEF Sound, Events, Ev
<1>2. r \in Seq(All) /\ ToSet(r) = ToSet(s) \cup {t} /\ IsInjective(r)
  <2>1. r \in Seq(All) /\ Len(r) = Len(s) + 1 /\ r[Len(s) + 1] = t
        /\ \A i \in 1 .. Len(s) : r[i] = s[i]
    BY <1>1, AppendProperties
  <2>2. Len(s) \in 0 .. Len(s) /\ <<t>> \in Seq(All) /\ Len(<<t>>) = 1 /\ <<t>>[1] = t
    BY <1>1
  <2> DEFINE w == <<t>>
  <2>3. w \in Seq(All) /\ IsInjective(w) /\ ToSet(w) = {t} /\ Len(s) \in 0 .. Len(s)
    BY <2>2, Alone
  <2>4. Spliced(r, s, w, Len(s))
    BY <2>1, <2>2 DEF Spliced
  <2> HIDE DEF w, r, s
  <2>5. /\ ToSet(r) = ToSet(s) \cup ToSet(w)
        /\ IsInjective(s) /\ IsInjective(w) /\ ToSet(s) \cap ToSet(w) = {} => IsInjective(r)
    BY <1>1, <2>1, <2>3, <2>4, SplicedRight
  <2>6. QED
    BY <1>1, <2>1, <2>3, <2>5
<1>3. u = [kk EXCEPT !.events = events]
  BY <1>1 DEF MakeReady, KernelState
<1> HIDE DEF r
<1>4. /\ events \in [Events -> Seq(All)] /\ events[Pending] = r
      /\ \A l \in Events \ {Pending} : events[l] = kk.events[l]
  BY <1>1, <1>2
<1> HIDE DEF events, u
<1>5. /\ u \in KernelState /\ u.events = events /\ Frame(u, kk)
      /\ u.ready = kk.ready /\ u.top = kk.top /\ u.delayed = kk.delayed
      /\ u.overflow = kk.overflow /\ u.suspended = kk.suspended
      /\ u.terminated = kk.terminated /\ u.wake = kk.wake /\ u.priority = kk.priority
  BY <1>1, <1>3, <1>4 DEF KernelState, Events, Frame, Settled
<1>6. Rd(u) = Rd(kk) /\ Dl(u) = Dl(kk) /\ Ov(u) = Ov(kk) /\ Gn(u) = Gn(kk)
  BY <1>5 DEF Rd, InReady, Dl, Ov, Gn
<1>7. Apart(u) /\ ReadyRight(u)
  BY <1>5, <1>6 DEF Sound, Apart, ReadyRight
<1>8. /\ Ev(u, Pending) = Ev(kk, Pending) \cup {t}
      /\ \A l \in Events \ {Pending} : Ev(u, l) = Ev(kk, l)
  BY <1>2, <1>4, <1>5 DEF Ev
<1>9. \A l, m \in Events : l # m => Ev(u, l) \cap Ev(u, m) = {}
  <2>1. \A l, m \in Events : l # m => Ev(kk, l) \cap Ev(kk, m) = {}
    BY DEF Sound
  <2>2. QED
    BY <2>1, <1>8
<1>10. \A l \in Events : IsInjective(u.events[l])
  <2>1. TAKE l \in Events
  <2>2. CASE l = Pending
    BY <2>2, <1>2, <1>4, <1>5
  <2>3. CASE l # Pending
    BY <2>3, <1>4, <1>5 DEF Sound
  <2>4. QED
    BY <2>2, <2>3
<1>11. Sound(u)
  BY <1>5, <1>7, <1>9, <1>10, Zenon DEF Sound
<1>12. \A l \in EventLists \ {Pending} : Ev(u, l) = Ev(kk, l)
  BY <1>8 DEF Events
<1>13. QED
  BY <1>5, <1>6, <1>8, <1>11, <1>12 DEF u

(* xTaskCreate: the new task is ready at its priority and nobody else has  *)
(* moved.                                                                  *)
LEMMA InitialiseRight ==
  ASSUME NEW kk, Sound(kk), NEW t \in All \ Listed(kk), NEW p \in Priority,
         NEW u, u = AddToReady(InitialiseNewTask(kk, t, p), <<t>>)
  PROVE  /\ Sound(u)
         /\ Rd(u) = Rd(kk) \cup {t} /\ Dl(u) = Dl(kk) /\ Ov(u) = Ov(kk)
         /\ u.suspended = kk.suspended /\ Gn(u) = Gn(kk)
         /\ \A l : Ev(u, l) = Ev(kk, l)
         /\ \A x \in All \ {t} : u.wake[x] = kk.wake[x]
         /\ u.priority = [kk.priority EXCEPT ![t] = p]
         /\ u.base = [kk.base EXCEPT ![t] = p]
         /\ u.current = kk.current /\ u.schedulerSuspended = kk.schedulerSuspended
         /\ u.swi = kk.swi /\ u.yieldPending = kk.yieldPending
         /\ u.tick = kk.tick /\ u.overflows = kk.overflows
         /\ u.nextUnblock = kk.nextUnblock /\ u.pendedTicks = kk.pendedTicks
<1> DEFINE i == MaxPriorities - p
           priority == [kk.priority EXCEPT ![t] = p]
           base == [kk.base EXCEPT ![t] = p]
           item == [kk.item EXCEPT ![t] = i]
           aborted == [kk.aborted EXCEPT ![t] = FALSE]
           wake == [kk.wake EXCEPT ![t] = 0]
           w == [kk EXCEPT !.priority = priority, !.base = base, !.item = item,
                           !.aborted = aborted, !.wake = wake]
           v == AddToReady(w, <<t>>)
<1>1. /\ kk \in KernelState /\ Dl(kk) \subseteq All /\ Ov(kk) \subseteq All
  BY KernelTypes, InToSet DEF Sound, Dl, Ov
<1>2. /\ priority \in [All -> Priority] /\ item \in [All -> 0 .. MaxPriorities]
      /\ base \in [All -> Priority] /\ aborted \in [All -> BOOLEAN]
      /\ wake \in [All -> 0 .. Ticks - 1]
      /\ \A z \in All \ {t} : priority[z] = kk.priority[z] /\ wake[z] = kk.wake[z]
  <2>1. i \in 0 .. MaxPriorities /\ 0 \in 0 .. Ticks - 1
    BY KernelAssumption DEF Priority
  <2>2. /\ kk.priority \in [All -> Priority] /\ kk.item \in [All -> 0 .. MaxPriorities]
        /\ kk.base \in [All -> Priority] /\ kk.aborted \in [All -> BOOLEAN]
        /\ kk.wake \in [All -> 0 .. Ticks - 1]
    BY <1>1, KernelTypes
  <2>3. QED
    BY <2>1, <2>2
<1>3. InitialiseNewTask(kk, t, p) = w
  BY <1>1 DEF KernelState, InitialiseNewTask
<1> HIDE DEF priority, item, base, aborted, wake
<1>4. /\ w \in KernelState /\ w.priority = priority /\ w.base = base /\ w.wake = wake
      /\ w.ready = kk.ready /\ w.top = kk.top /\ w.delayed = kk.delayed
      /\ w.overflow = kk.overflow /\ w.suspended = kk.suspended
      /\ w.terminated = kk.terminated /\ w.events = kk.events
      /\ w.current = kk.current /\ w.schedulerSuspended = kk.schedulerSuspended
      /\ w.swi = kk.swi /\ w.yieldPending = kk.yieldPending
      /\ w.tick = kk.tick /\ w.overflows = kk.overflows
      /\ w.nextUnblock = kk.nextUnblock /\ w.pendedTicks = kk.pendedTicks
  BY <1>1, <1>2 DEF KernelState
<1> HIDE DEF w
<1>5. t \notin Rd(kk) /\ \A x \in Waiting(kk) : x \in All \ {t}
  BY <1>1 DEF Listed, Waiting
<1>6. /\ Sound(w)
      /\ Rd(w) = Rd(kk) /\ Dl(w) = Dl(kk) /\ Ov(w) = Ov(kk) /\ Gn(w) = Gn(kk)
      /\ \A l : Ev(w, l) = Ev(kk, l)
  BY <1>2, <1>4, <1>5, PriorityAside
<1>7. ToSet(<<t>>) \cap Listed(w) = {} /\ <<t>> \in Seq(All) /\ IsInjective(<<t>>)
  BY <1>4, <1>6, Alone DEF Listed
<1>8. /\ Sound(v)
      /\ Rd(v) = Rd(w) \cup {t} /\ Dl(v) = Dl(w) /\ Ov(v) = Ov(w)
      /\ v.suspended = w.suspended /\ Gn(v) = Gn(w) /\ v.wake = w.wake
      /\ Frame(v, w) /\ \A l : Ev(v, l) = Ev(w, l)
  BY <1>6, <1>7, Alone, AddToReadyRight
<1>9. u = v
  BY <1>3
<1> HIDE DEF v
<1>10. /\ u.priority = priority /\ u.base = base /\ u.wake = wake
       /\ u.current = kk.current /\ u.schedulerSuspended = kk.schedulerSuspended
       /\ u.swi = kk.swi /\ u.yieldPending = kk.yieldPending
       /\ u.tick = kk.tick /\ u.overflows = kk.overflows
       /\ u.nextUnblock = kk.nextUnblock /\ u.pendedTicks = kk.pendedTicks
  BY <1>4, <1>8, <1>9 DEF Frame, Settled
<1>11. /\ Sound(u)
       /\ Rd(u) = Rd(kk) \cup {t} /\ Dl(u) = Dl(kk) /\ Ov(u) = Ov(kk)
       /\ u.suspended = kk.suspended /\ Gn(u) = Gn(kk)
       /\ \A l : Ev(u, l) = Ev(kk, l)
  BY <1>4, <1>6, <1>8, <1>9
<1>12. \A x \in All \ {t} : u.wake[x] = kk.wake[x]
  BY <1>2, <1>10
<1>13. QED
  BY <1>10, <1>11, <1>12 DEF priority, base

-----------------------------------------------------------------------------
(* What an operation makes of the lists: who is ready, who waits for a time*)
(* and as long as before, who is suspended, who is terminated and who is   *)
(* put off.                                                                *)
Become(u, kk, R, W, S, G, P) ==
  /\ Sound(u) /\ Timely(u)
  /\ Rd(u) = R /\ Waiting(u) = W /\ u.suspended = S /\ Gn(u) = G /\ Ev(u, Pending) = P
  /\ \A t \in W : Dist(u, t) = Dist(kk, t)

(* What most operations leave alone.                                       *)
Stays(u, kk) ==
  /\ u.current = kk.current /\ u.schedulerSuspended = kk.schedulerSuspended
  /\ u.pendedTicks = kk.pendedTicks /\ u.tick = kk.tick
  /\ u.priority = kk.priority /\ u.base = kk.base

(* With the lists and the time as before everybody waits as long as before.*)
LEMMA SameTimes ==
  ASSUME NEW kk, NEW u, Timely(kk), SameViews(u, kk),
         u.tick = kk.tick, u.nextUnblock = kk.nextUnblock
  PROVE  /\ Timely(u) /\ Waiting(u) = Waiting(kk) /\ Listed(u) = Listed(kk)
         /\ \A t : Dist(u, t) = Dist(kk, t)
<1>1. /\ Rd(u) = Rd(kk) /\ Dl(u) = Dl(kk) /\ Ov(u) = Ov(kk)
      /\ u.suspended = kk.suspended /\ Gn(u) = Gn(kk) /\ u.wake = kk.wake
  BY DEF SameViews
<1>2. QED
  BY <1>1 DEF Timely, Waiting, Listed, Dist

(* With fewer in the delayed lists the others wait as long as before.      *)
LEMMA FewerWaiting ==
  ASSUME NEW kk, Sound(kk), Timely(kk), NEW u,
         Dl(u) \subseteq Dl(kk), Ov(u) \subseteq Ov(kk),
         \A t \in Waiting(u) : u.wake[t] = kk.wake[t],
         u.tick = kk.tick, \A t \in Dl(u) : u.nextUnblock <= u.wake[t]
  PROVE  Timely(u) /\ \A t \in Waiting(u) : Dist(u, t) = Dist(kk, t)
<1>1. Dl(kk) \cap Ov(kk) = {}
  BY DEF Sound, Apart
<1>2. \A t \in Waiting(u) : t \in Dl(u) <=> t \in Dl(kk)
  BY <1>1 DEF Waiting
<1>3. \A t \in Waiting(u) : Dist(u, t) = Dist(kk, t)
  BY <1>2 DEF Dist
<1>4. Timely(u)
  BY DEF Timely, Waiting
<1>5. QED
  BY <1>3, <1>4

(* Changing a field that is no list changes no list.                       *)
LEMMA OtherField ==
  ASSUME NEW kk, Sound(kk), Timely(kk), NEW u \in KernelState,
         u.ready = kk.ready, u.top = kk.top, u.delayed = kk.delayed, u.overflow = kk.overflow,
         u.suspended = kk.suspended, u.terminated = kk.terminated, u.events = kk.events,
         u.wake = kk.wake, u.priority = kk.priority,
         u.tick = kk.tick, u.nextUnblock = kk.nextUnblock
  PROVE  Become(u, kk, Rd(kk), Waiting(kk), kk.suspended, Gn(kk), Ev(kk, Pending))
<1>1. /\ Sound(u)
      /\ Rd(u) = Rd(kk) /\ Dl(u) = Dl(kk) /\ Ov(u) = Ov(kk) /\ Gn(u) = Gn(kk)
      /\ \A l : Ev(u, l) = Ev(kk, l)
  BY SameLists
<1>2. SameViews(u, kk)
  BY <1>1 DEF SameViews
<1>3. Timely(u) /\ Waiting(u) = Waiting(kk) /\ \A t : Dist(u, t) = Dist(kk, t)
  BY <1>2, SameTimes
<1>4. QED
  BY <1>1, <1>3 DEF Become

(* An operation that asks for the software interrupt at its end leaves the *)
(* lists as it made them.                                                  *)
LEMMA ThenYield ==
  ASSUME NEW kk, NEW v, NEW R, NEW W, NEW S, NEW G, NEW P, Become(v, kk, R, W, S, G, P),
         NEW yes \in BOOLEAN
  PROVE  LET u == YieldIf(v, yes)
         IN  /\ Become(u, kk, R, W, S, G, P) /\ Stays(u, v)
             /\ u.yieldPending = v.yieldPending /\ u.swi = (v.swi \/ yes)
<1> DEFINE u == YieldIf(v, yes)
<1>1. Sound(v) /\ Timely(v)
  BY DEF Become
<1>2. /\ Sound(u) /\ SameViews(u, v) /\ Settled(u, v)
      /\ u.yieldPending = v.yieldPending /\ u.tick = v.tick
      /\ u.nextUnblock = v.nextUnblock /\ u.pendedTicks = v.pendedTicks
      /\ u.swi = (v.swi \/ yes)
  BY <1>1, YieldRight
<1> HIDE DEF u
<1>3. Timely(u) /\ Waiting(u) = Waiting(v) /\ \A t : Dist(u, t) = Dist(v, t)
  BY <1>1, <1>2, SameTimes
<1>4. Become(u, kk, R, W, S, G, P)
  BY <1>2, <1>3 DEF Become, SameViews
<1>5. QED
  BY <1>2, <1>4 DEF u, Stays, Settled

(* An operation that ends with prvResetNextTaskUnblockTime leaves the lists*)
(* as it made them.                                                        *)
LEMMA ThenReset ==
  ASSUME NEW kk, NEW v, NEW R, NEW W, NEW S, NEW G, NEW P, Become(v, kk, R, W, S, G, P)
  PROVE  LET u == ResetNextUnblock(v)
         IN  /\ Become(u, kk, R, W, S, G, P) /\ Stays(u, v)
             /\ u.yieldPending = v.yieldPending /\ u.swi = v.swi
<1> DEFINE u == ResetNextUnblock(v)
<1>1. Sound(v) /\ Timely(v)
  BY DEF Become
<1>2. /\ Sound(u)
      /\ Rd(u) = Rd(v) /\ Dl(u) = Dl(v) /\ Ov(u) = Ov(v)
      /\ u.suspended = v.suspended /\ Gn(u) = Gn(v) /\ u.wake = v.wake
      /\ \A l : Ev(u, l) = Ev(v, l)
      /\ Settled(u, v) /\ u.swi = v.swi /\ u.yieldPending = v.yieldPending
      /\ u.tick = v.tick /\ u.pendedTicks = v.pendedTicks
      /\ \A t \in Dl(u) : u.nextUnblock <= u.wake[t]
  BY <1>1, ResetNextUnblockRight
<1> HIDE DEF u
<1>3. Timely(u) /\ \A t \in Waiting(u) : Dist(u, t) = Dist(v, t)
  BY <1>1, <1>2, FewerWaiting
<1>4. Become(u, kk, R, W, S, G, P)
  BY <1>2, <1>3 DEF Become, Waiting
<1>5. QED
  BY <1>2, <1>4 DEF u, Stays, Settled

(* Tasks taken out of their lists are in none, ...                         *)
LEMMA UnlinkBecomes ==
  ASSUME NEW kk, Sound(kk), Timely(kk), NEW S
  PROVE  LET u == Unlink(kk, S)
         IN  /\ Become(u, kk, Rd(kk) \ S, Waiting(kk) \ S, kk.suspended \ S, Gn(kk) \ S,
                       Ev(kk, Pending))
             /\ Frame(u, kk) /\ Stays(u, kk)
<1> DEFINE u == Unlink(kk, S)
<1>1. /\ Sound(u)
      /\ Rd(u) = Rd(kk) \ S /\ Dl(u) = Dl(kk) \ S /\ Ov(u) = Ov(kk) \ S
      /\ u.suspended = kk.suspended \ S /\ Gn(u) = Gn(kk) \ S
      /\ \A t \in All \ S : u.wake[t] = kk.wake[t]
      /\ Frame(u, kk) /\ \A l : Ev(u, l) = Ev(kk, l)
  BY UnlinkRight
<1> HIDE DEF u
<1>2. Dl(kk) \subseteq All /\ Ov(kk) \subseteq All
  BY KernelTypes, InToSet DEF Sound, Dl, Ov
<1>3. /\ Waiting(u) = Waiting(kk) \ S /\ \A t \in Waiting(u) : u.wake[t] = kk.wake[t]
      /\ Dl(u) \subseteq Dl(kk) /\ Ov(u) \subseteq Ov(kk)
  BY <1>1, <1>2 DEF Waiting
<1>4. u.tick = kk.tick /\ u.nextUnblock = kk.nextUnblock
  BY <1>1 DEF Frame
<1>5. \A t \in Dl(u) : u.nextUnblock <= u.wake[t]
  <2>1. TAKE t \in Dl(u)
  <2>2. t \in Dl(kk) /\ u.wake[t] = kk.wake[t] /\ kk.nextUnblock <= kk.wake[t]
    BY <2>1, <1>3 DEF Waiting, Timely
  <2>3. QED
    BY <2>2, <1>4
<1>6. Timely(u) /\ \A t \in Waiting(u) : Dist(u, t) = Dist(kk, t)
  BY <1>3, <1>4, <1>5, FewerWaiting
<1>7. Stays(u, kk)
  BY <1>1 DEF Frame, Settled, Stays
<1>8. QED
  BY <1>1, <1>3, <1>6, <1>7 DEF u, Become

(* ... and with their event items out too they are not put off either.     *)
LEMMA UnwaitBecomes ==
  ASSUME NEW kk, NEW v, NEW R, NEW W, NEW S, NEW G, NEW P, Become(v, kk, R, W, S, G, P), NEW Z
  PROVE  LET u == Unwait(v, Z)
         IN  Become(u, kk, R, W, S, G, P \ Z) /\ Frame(u, v) /\ Stays(u, v)
<1> DEFINE u == Unwait(v, Z)
<1>1. Sound(v) /\ Timely(v)
  BY DEF Become
<1>2. /\ Sound(u)
      /\ \A l \in Events : Ev(u, l) = Ev(v, l) \ Z
      /\ Rd(u) = Rd(v) /\ Dl(u) = Dl(v) /\ Ov(u) = Ov(v)
      /\ u.suspended = v.suspended /\ Gn(u) = Gn(v) /\ u.wake = v.wake
      /\ Frame(u, v)
  BY <1>1, UnwaitRight
<1> HIDE DEF u
<1>3. u.tick = v.tick /\ u.nextUnblock = v.nextUnblock /\ Stays(u, v)
  BY <1>2 DEF Frame, Settled, Stays
<1>4. \A t \in Dl(u) : u.nextUnblock <= u.wake[t]
  BY <1>1, <1>2, <1>3 DEF Timely
<1>5. Timely(u) /\ \A t \in Waiting(u) : Dist(u, t) = Dist(v, t)
  BY <1>1, <1>2, <1>3, <1>4, FewerWaiting
<1>6. Waiting(u) = Waiting(v) /\ Ev(u, Pending) = Ev(v, Pending) \ Z
  BY <1>2 DEF Waiting, Events
<1>7. QED
  BY <1>2, <1>3, <1>5, <1>6 DEF u, Become

(* The suspended and the terminated tasks may be others, of those in no    *)
(* other list.                                                             *)
LEMMA OtherEnds ==
  ASSUME NEW v, Sound(v), Timely(v), NEW u \in KernelState,
         u.ready = v.ready, u.top = v.top, u.delayed = v.delayed, u.overflow = v.overflow,
         u.events = v.events, u.wake = v.wake, u.priority = v.priority,
         u.tick = v.tick, u.nextUnblock = v.nextUnblock, IsInjective(u.terminated),
         u.suspended \cap (Rd(v) \cup Waiting(v) \cup Gn(u)) = {},
         Gn(u) \cap (Rd(v) \cup Waiting(v)) = {}
  PROVE  Become(u, v, Rd(v), Waiting(v), u.suspended, Gn(u), Ev(v, Pending))
<1>1. Rd(u) = Rd(v) /\ Dl(u) = Dl(v) /\ Ov(u) = Ov(v) /\ \A l : Ev(u, l) = Ev(v, l)
  BY DEF Rd, InReady, Dl, Ov, Ev
<1>2. Apart(v)
  BY DEF Sound
<1>3. Apart(u)
  BY <1>1, <1>2 DEF Apart, Waiting
<1>4. ReadyRight(u)
  BY DEF Sound, ReadyRight
<1>5. Sound(u)
  BY <1>1, <1>3, <1>4, Zenon DEF Sound
<1>6. Timely(u) /\ Waiting(u) = Waiting(v) /\ \A t : Dist(u, t) = Dist(v, t)
  BY <1>1 DEF Timely, Waiting, Dist
<1>7. QED
  BY <1>1, <1>5, <1>6 DEF Become

(* vTaskDelete of another task takes it out of every list.                 *)
LEMMA DropBecomes ==
  ASSUME NEW kk, Sound(kk), Timely(kk), NEW t \in All
  PROVE  LET u == Unwait(Unlink(kk, {t}), {t})
         IN  /\ Become(u, kk, Rd(kk) \ {t}, Waiting(kk) \ {t}, kk.suspended \ {t},
                       Gn(kk) \ {t}, Ev(kk, Pending) \ {t})
             /\ Stays(u, kk) /\ u.swi = kk.swi /\ u.yieldPending = kk.yieldPending
<1> DEFINE v == Unlink(kk, {t})
           u == Unwait(v, {t})
<1>1. /\ Become(v, kk, Rd(kk) \ {t}, Waiting(kk) \ {t}, kk.suspended \ {t}, Gn(kk) \ {t},
                Ev(kk, Pending))
      /\ Frame(v, kk) /\ Stays(v, kk)
  BY UnlinkBecomes
<1> HIDE DEF v
<1>2. /\ Become(u, kk, Rd(kk) \ {t}, Waiting(kk) \ {t}, kk.suspended \ {t}, Gn(kk) \ {t},
                Ev(kk, Pending) \ {t})
      /\ Frame(u, v) /\ Stays(u, v)
  BY <1>1, UnwaitBecomes
<1> HIDE DEF u
<1>3. u.swi = kk.swi /\ u.yieldPending = kk.yieldPending /\ Stays(u, kk)
  BY <1>1, <1>2 DEF Frame, Stays
<1>4. QED
  BY <1>2, <1>3 DEF u, v

(* vTaskDelete of the task itself leaves it in xTasksWaitingTermination    *)
(* only.                                                                   *)
LEMMA TerminateBecomes ==
  ASSUME NEW kk, Sound(kk), Timely(kk), NEW t \in All
  PROVE  LET u == [Unwait(Unlink(kk, {t}), {t}) EXCEPT !.terminated = Append(@, t)]
         IN  /\ Become(u, kk, Rd(kk) \ {t}, Waiting(kk) \ {t}, kk.suspended \ {t},
                       Gn(kk) \cup {t}, Ev(kk, Pending) \ {t})
             /\ Stays(u, kk) /\ u.swi = kk.swi /\ u.yieldPending = kk.yieldPending
<1> DEFINE v == Unwait(Unlink(kk, {t}), {t})
           s == v.terminated
           r == Append(s, t)
           u == [v EXCEPT !.terminated = Append(@, t)]
<1>1. /\ Become(v, kk, Rd(kk) \ {t}, Waiting(kk) \ {t}, kk.suspended \ {t}, Gn(kk) \ {t},
                Ev(kk, Pending) \ {t})
      /\ Stays(v, kk) /\ v.swi = kk.swi /\ v.yieldPending = kk.yieldPending
  BY DropBecomes
<1>2. u = [v EXCEPT !.terminated = r]
  OBVIOUS
<1> HIDE DEF v, u
<1>3. Sound(v) /\ Timely(v) /\ v \in KernelState
  BY <1>1 DEF Become, Sound
<1>4. s \in Seq(All) /\ IsInjective(s) /\ ToSet(s) = Gn(kk) \ {t}
  BY <1>1, <1>3, KernelTypes DEF Become, Sound, Gn
<1>5. r \in Seq(All) /\ ToSet(r) = ToSet(s) \cup {t} /\ IsInjective(r)
  <2>1. r \in Seq(All) /\ Len(r) = Len(s) + 1 /\ r[Len(s) + 1] = t
        /\ \A i \in 1 .. Len(s) : r[i] = s[i]
    BY <1>4, AppendProperties
  <2> DEFINE w == <<t>>
  <2>2. w \in Seq(All) /\ IsInjective(w) /\ ToSet(w) = {t} /\ Len(s) \in 0 .. Len(s)
    BY <1>4, Alone
  <2>3. Spliced(r, s, w, Len(s))
    BY <2>1, <1>4 DEF Spliced
  <2> HIDE DEF w, r, s
  <2>4. /\ ToSet(r) = ToSet(s) \cup ToSet(w)
        /\ IsInjective(s) /\ IsInjective(w) /\ ToSet(s) \cap ToSet(w) = {} => IsInjective(r)
    BY <1>4, <2>1, <2>2, <2>3, SplicedRight
  <2>5. QED
    BY <1>4, <2>1, <2>2, <2>4
<1> HIDE DEF r, s
<1>6. /\ u \in KernelState /\ u.terminated = r
      /\ u.ready = v.ready /\ u.top = v.top /\ u.delayed = v.delayed /\ u.overflow = v.overflow
      /\ u.events = v.events /\ u.wake = v.wake /\ u.priority = v.priority
      /\ u.tick = v.tick /\ u.nextUnblock = v.nextUnblock /\ u.suspended = v.suspended
      /\ u.swi = v.swi /\ u.yieldPending = v.yieldPending
      /\ u.current = v.current /\ u.schedulerSuspended = v.schedulerSuspended
      /\ u.pendedTicks = v.pendedTicks /\ u.base = v.base
  BY <1>2, <1>3, <1>5 DEF KernelState
<1>7. Gn(u) = Gn(kk) \cup {t}
  BY <1>4, <1>5, <1>6 DEF Gn
<1>8. /\ Rd(v) = Rd(kk) \ {t} /\ Waiting(v) = Waiting(kk) \ {t}
      /\ v.suspended = kk.suspended \ {t}
  BY <1>1 DEF Become
<1>9. /\ u.suspended \cap (Rd(v) \cup Waiting(v) \cup Gn(u)) = {}
      /\ Gn(u) \cap (Rd(v) \cup Waiting(v)) = {}
  BY <1>6, <1>7, <1>8 DEF Sound, Apart, Waiting
<1>10. Become(u, v, Rd(v), Waiting(v), u.suspended, Gn(u), Ev(v, Pending))
  BY <1>3, <1>5, <1>6, <1>9, OtherEnds
<1>11. Become(u, kk, Rd(kk) \ {t}, Waiting(kk) \ {t}, kk.suspended \ {t},
              Gn(kk) \cup {t}, Ev(kk, Pending) \ {t})
  BY <1>1, <1>6, <1>7, <1>10 DEF Become
<1>12. QED
  BY <1>1, <1>6, <1>11 DEF u, v, Stays

(* The idle task frees the first that has ended: that one is in no list,   *)
(* nobody else has moved.                                                  *)
LEMMA FreeBecomes ==
  ASSUME NEW kk, Sound(kk), Timely(kk), kk.terminated # << >>
  PROVE  LET u == [kk EXCEPT !.terminated = Tail(@)]
             t == Head(kk.terminated)
         IN  /\ Become(u, kk, Rd(kk), Waiting(kk), kk.suspended, Gn(kk) \ {t},
                       Ev(kk, Pending))
             /\ t \in Gn(kk) /\ t \in All
             /\ Stays(u, kk) /\ u.swi = kk.swi /\ u.yieldPending = kk.yieldPending
<1> DEFINE s == kk.terminated
           t == Head(s)
           r == Tail(s)
           u == [kk EXCEPT !.terminated = Tail(@)]
<1>1. kk \in KernelState
  BY DEF Sound
<1>2. s \in Seq(All) /\ IsInjective(s) /\ s # << >> /\ ToSet(s) = Gn(kk)
  BY <1>1, KernelTypes DEF Sound, Gn
<1>3. u = [kk EXCEPT !.terminated = r]
  OBVIOUS
<1> HIDE DEF s
<1>4. /\ Len(s) \in Nat \ {0} /\ t = s[1] /\ t \in All /\ r \in Seq(All)
      /\ Len(r) = Len(s) - 1 /\ \A i \in 1 .. Len(r) : r[i] = s[i + 1]
  BY <1>2, HeadTailProperties
<1> HIDE DEF r, t
<1>5. /\ DOMAIN s = 1 .. Len(s) /\ DOMAIN r = 1 .. Len(r)
      /\ ToSet(s) = {s[i] : i \in 1 .. Len(s)} /\ ToSet(r) = {r[i] : i \in 1 .. Len(r)}
  <2>1. DOMAIN s = 1 .. Len(s) /\ DOMAIN r = 1 .. Len(r)
    BY <1>2, <1>4
  <2>2. QED
    BY <2>1, Zenon DEF ToSet
<1>6. \A i, j \in 1 .. Len(s) : s[i] = s[j] => i = j
  BY <1>2, <1>5 DEF IsInjective
<1>7. IsInjective(r)
  <2>1. ASSUME NEW i \in 1 .. Len(r), NEW j \in 1 .. Len(r), r[i] = r[j] PROVE i = j
    <3>1. i + 1 \in 1 .. Len(s) /\ j + 1 \in 1 .. Len(s) /\ s[i + 1] = s[j + 1]
      BY <1>4, <2>1
    <3>2. i + 1 = j + 1
      BY <3>1, <1>6
    <3>3. QED
      BY <3>2
  <2>2. QED
    BY <2>1, <1>5 DEF IsInjective
<1>8. ToSet(r) = ToSet(s) \ {t}
  <2>1. ASSUME NEW x \in ToSet(r) PROVE x \in ToSet(s) /\ x # t
    <3>1. PICK i \in 1 .. Len(r) : x = r[i]
      BY <1>5
    <3>2. i + 1 \in 1 .. Len(s) /\ 1 \in 1 .. Len(s) /\ i + 1 # 1 /\ x = s[i + 1]
      BY <1>4, <3>1
    <3>3. s[i + 1] # s[1]
      BY <1>6, <3>2
    <3>4. QED
      BY <3>2, <3>3, <1>4, <1>5
  <2>2. ASSUME NEW x \in ToSet(s), x # t PROVE x \in ToSet(r)
    <3>1. PICK i \in 1 .. Len(s) : x = s[i]
      BY <1>5
    <3>2. i # 1
      BY <3>1, <2>2, <1>4
    <3>3. i - 1 \in 1 .. Len(r) /\ i - 1 + 1 = i
      BY <3>1, <3>2, <1>4
    <3>4. r[i - 1] = s[i]
      BY <3>3, <1>4
    <3>5. QED
      BY <3>1, <3>3, <3>4, <1>5
  <2>3. QED
    BY <2>1, <2>2
<1>9. t \in Gn(kk)
  BY <1>2, <1>4, <1>5
<1> HIDE DEF u
<1>10. /\ u \in KernelState /\ u.terminated = r
       /\ u.ready = kk.ready /\ u.top = kk.top /\ u.delayed = kk.delayed
       /\ u.overflow = kk.overflow /\ u.events = kk.events /\ u.wake = kk.wake
       /\ u.priority = kk.priority /\ u.tick = kk.tick /\ u.nextUnblock = kk.nextUnblock
       /\ u.suspended = kk.suspended /\ u.swi = kk.swi /\ u.yieldPending = kk.yieldPending
       /\ u.current = kk.current /\ u.schedulerSuspended = kk.schedulerSuspended
       /\ u.pendedTicks = kk.pendedTicks /\ u.base = kk.base
  BY <1>1, <1>3, <1>4 DEF KernelState
<1>11. Gn(u) = Gn(kk) \ {t}
  BY <1>2, <1>8, <1>10 DEF Gn
<1>12. /\ u.suspended \cap (Rd(kk) \cup Waiting(kk) \cup Gn(u)) = {}
       /\ Gn(u) \cap (Rd(kk) \cup Waiting(kk)) = {}
  BY <1>10, <1>11 DEF Sound, Apart, Waiting
<1>13. Become(u, kk, Rd(kk), Waiting(kk), u.suspended, Gn(u), Ev(kk, Pending))
  BY <1>7, <1>10, <1>12, OtherEnds
<1>14. QED
  BY <1>4, <1>9, <1>10, <1>11, <1>13 DEF u, t, s, Stays

(* vTaskSuspend leaves the task in the suspended list only, and it waits   *)
(* for no event.                                                           *)
LEMMA SuspendBecomes ==
  ASSUME NEW kk, Sound(kk), Timely(kk), NEW t \in All
  PROVE  LET u == [Unwait(Unlink(kk, {t}), {t}) EXCEPT !.suspended = @ \cup {t}]
         IN  /\ Become(u, kk, Rd(kk) \ {t}, Waiting(kk) \ {t}, kk.suspended \cup {t},
                       Gn(kk) \ {t}, Ev(kk, Pending) \ {t})
             /\ Stays(u, kk) /\ u.swi = kk.swi /\ u.yieldPending = kk.yieldPending
<1> DEFINE v == Unwait(Unlink(kk, {t}), {t})
           s == v.suspended \cup {t}
           u == [v EXCEPT !.suspended = @ \cup {t}]
<1>1. /\ Become(v, kk, Rd(kk) \ {t}, Waiting(kk) \ {t}, kk.suspended \ {t}, Gn(kk) \ {t},
                Ev(kk, Pending) \ {t})
      /\ Stays(v, kk) /\ v.swi = kk.swi /\ v.yieldPending = kk.yieldPending
  BY DropBecomes
<1>2. u = [v EXCEPT !.suspended = s]
  OBVIOUS
<1> HIDE DEF v, u
<1>3. Sound(v) /\ Timely(v) /\ v \in KernelState /\ IsInjective(v.terminated)
  BY <1>1 DEF Become, Sound
<1>4. s \subseteq All
  BY <1>3, KernelTypes
<1>5. /\ Rd(v) = Rd(kk) \ {t} /\ Waiting(v) = Waiting(kk) \ {t}
      /\ v.suspended = kk.suspended \ {t} /\ Gn(v) = Gn(kk) \ {t}
  BY <1>1 DEF Become
<1>6. s = kk.suspended \cup {t}
  BY <1>5
<1> HIDE DEF s
<1>7. /\ u \in KernelState /\ u.suspended = s
      /\ u.ready = v.ready /\ u.top = v.top /\ u.delayed = v.delayed /\ u.overflow = v.overflow
      /\ u.events = v.events /\ u.wake = v.wake /\ u.priority = v.priority
      /\ u.tick = v.tick /\ u.nextUnblock = v.nextUnblock /\ u.terminated = v.terminated
      /\ u.swi = v.swi /\ u.yieldPending = v.yieldPending
      /\ u.current = v.current /\ u.schedulerSuspended = v.schedulerSuspended
      /\ u.pendedTicks = v.pendedTicks /\ u.base = v.base
  BY <1>2, <1>3, <1>4 DEF KernelState
<1>8. Gn(u) = Gn(v)
  BY <1>7 DEF Gn
<1>9. /\ u.suspended \cap (Rd(v) \cup Waiting(v) \cup Gn(u)) = {}
      /\ Gn(u) \cap (Rd(v) \cup Waiting(v)) = {}
  BY <1>5, <1>6, <1>7, <1>8 DEF Sound, Apart, Waiting
<1>10. Become(u, v, Rd(v), Waiting(v), u.suspended, Gn(u), Ev(v, Pending))
  BY <1>3, <1>7, <1>9, OtherEnds
<1>11. Become(u, kk, Rd(kk) \ {t}, Waiting(kk) \ {t}, kk.suspended \cup {t},
              Gn(kk) \ {t}, Ev(kk, Pending) \ {t})
  BY <1>1, <1>6, <1>7, <1>8, <1>10 DEF Become
<1>12. QED
  BY <1>1, <1>7, <1>11 DEF u, v, Stays

(* One task becomes ready, out of whatever list it was in, and nobody else *)
(* moves.                                                                  *)
LEMMA ReadyBecomes ==
  ASSUME NEW kk, Sound(kk), Timely(kk), NEW t \in All
  PROVE  LET u == AddToReady(Unlink(kk, {t}), <<t>>)
         IN  /\ Become(u, kk, Rd(kk) \cup {t}, Waiting(kk) \ {t}, kk.suspended \ {t},
                       Gn(kk) \ {t}, Ev(kk, Pending))
             /\ Stays(u, kk) /\ u.swi = kk.swi /\ u.yieldPending = kk.yieldPending
<1> DEFINE s == <<t>>
           u == AddToReady(Unlink(kk, ToSet(s)), s)
<1>1. s \in Seq(All) /\ IsInjective(s) /\ ToSet(s) = {t}
  BY Alone
<1>2. AddToReady(Unlink(kk, {t}), <<t>>) = u
  BY <1>1
<1> HIDE DEF s
<1>3. /\ Sound(u)
      /\ Rd(u) = Rd(kk) \cup ToSet(s)
      /\ Dl(u) = Dl(kk) \ ToSet(s) /\ Ov(u) = Ov(kk) \ ToSet(s)
      /\ u.suspended = kk.suspended \ ToSet(s) /\ Gn(u) = Gn(kk) \ ToSet(s)
      /\ \A x \in All \ ToSet(s) : u.wake[x] = kk.wake[x]
      /\ Frame(u, kk) /\ \A l : Ev(u, l) = Ev(kk, l)
  BY <1>1, MoveToReady
<1> HIDE DEF u
<1>4. Dl(kk) \subseteq All /\ Ov(kk) \subseteq All
  BY KernelTypes, InToSet DEF Sound, Dl, Ov
<1>5. /\ Waiting(u) = Waiting(kk) \ {t} /\ \A x \in Waiting(u) : u.wake[x] = kk.wake[x]
      /\ Dl(u) \subseteq Dl(kk) /\ Ov(u) \subseteq Ov(kk)
  BY <1>1, <1>3, <1>4 DEF Waiting
<1>6. /\ u.tick = kk.tick /\ u.nextUnblock = kk.nextUnblock /\ Stays(u, kk)
      /\ u.swi = kk.swi /\ u.yieldPending = kk.yieldPending
  BY <1>3 DEF Frame, Settled, Stays
<1>7. \A x \in Dl(u) : u.nextUnblock <= u.wake[x]
  <2>1. TAKE x \in Dl(u)
  <2>2. x \in Dl(kk) /\ u.wake[x] = kk.wake[x] /\ kk.nextUnblock <= kk.wake[x]
    BY <2>1, <1>5 DEF Waiting, Timely
  <2>3. QED
    BY <2>2, <1>6
<1>8. Timely(u) /\ \A x \in Waiting(u) : Dist(u, x) = Dist(kk, x)
  BY <1>5, <1>6, <1>7, FewerWaiting
<1>9. Become(u, kk, Rd(kk) \cup {t}, Waiting(kk) \ {t}, kk.suspended \ {t},
             Gn(kk) \ {t}, Ev(kk, Pending))
  BY <1>1, <1>3, <1>5, <1>8 DEF Become
<1>10. QED
  BY <1>2, <1>6, <1>9

(* A handler that notes a switch changes no list.                          *)
LEMMA NoteBecomes ==
  ASSUME NEW kk, NEW v, NEW R, NEW W, NEW S, NEW G, NEW P, Become(v, kk, R, W, S, G, P),
         NEW yes \in BOOLEAN
  PROVE  LET u == YieldIf([v EXCEPT !.yieldPending = @ \/ yes], yes)
         IN  /\ Become(u, kk, R, W, S, G, P) /\ Stays(u, v)
             /\ u.swi = (v.swi \/ yes) /\ u.yieldPending = (v.yieldPending \/ yes)
<1> DEFINE b == v.yieldPending \/ yes
           w == [v EXCEPT !.yieldPending = b]
           u == YieldIf(w, yes)
<1>1. /\ Sound(v) /\ Timely(v) /\ v \in KernelState /\ b \in BOOLEAN
  BY DEF Become, Sound
<1>2. [v EXCEPT !.yieldPending = @ \/ yes] = w
  OBVIOUS
<1> HIDE DEF b
<1>3. /\ w \in KernelState /\ w.yieldPending = b /\ w.swi = v.swi /\ Stays(w, v)
      /\ w.ready = v.ready /\ w.top = v.top /\ w.delayed = v.delayed /\ w.overflow = v.overflow
      /\ w.suspended = v.suspended /\ w.terminated = v.terminated /\ w.events = v.events
      /\ w.wake = v.wake /\ w.priority = v.priority
      /\ w.tick = v.tick /\ w.nextUnblock = v.nextUnblock
  BY <1>1 DEF KernelState, Stays
<1> HIDE DEF w
<1>4. Become(w, v, Rd(v), Waiting(v), v.suspended, Gn(v), Ev(v, Pending))
  BY <1>1, <1>3, OtherField
<1>5. Become(w, kk, R, W, S, G, P)
  BY <1>4 DEF Become
<1>6. /\ Become(u, kk, R, W, S, G, P) /\ Stays(u, w)
      /\ u.yieldPending = w.yieldPending /\ u.swi = (w.swi \/ yes)
  BY <1>5, ThenYield
<1> HIDE DEF u
<1>7. Stays(u, v) /\ u.swi = (v.swi \/ yes) /\ u.yieldPending = b
  BY <1>3, <1>6 DEF Stays
<1>8. QED
  BY <1>2, <1>6, <1>7 DEF u, b

(* A task woken while the scheduler is suspended is put off and nobody else*)
(* moves.                                                                  *)
LEMMA LaterBecomes ==
  ASSUME NEW kk, Sound(kk), Timely(kk), NEW t \in All, kk.schedulerSuspended # 0,
         \A l \in Events : t \notin Ev(kk, l)
  PROVE  LET u == MakeReady(kk, t)
         IN  /\ Become(u, kk, Rd(kk), Waiting(kk), kk.suspended, Gn(kk),
                       Ev(kk, Pending) \cup {t})
             /\ Stays(u, kk) /\ u.swi = kk.swi /\ u.yieldPending = kk.yieldPending
<1> DEFINE u == MakeReady(kk, t)
<1>1. /\ Sound(u)
      /\ Rd(u) = Rd(kk) /\ Dl(u) = Dl(kk) /\ Ov(u) = Ov(kk)
      /\ u.suspended = kk.suspended /\ Gn(u) = Gn(kk) /\ u.wake = kk.wake
      /\ Ev(u, Pending) = Ev(kk, Pending) \cup {t}
      /\ Frame(u, kk)
  BY MakeReadyLater
<1> HIDE DEF u
<1>2. /\ u.tick = kk.tick /\ u.nextUnblock = kk.nextUnblock /\ Stays(u, kk)
      /\ u.swi = kk.swi /\ u.yieldPending = kk.yieldPending
  BY <1>1 DEF Frame, Settled, Stays
<1>3. \A x \in Dl(u) : u.nextUnblock <= u.wake[x]
  BY <1>1, <1>2 DEF Timely
<1>4. Timely(u) /\ \A x \in Waiting(u) : Dist(u, x) = Dist(kk, x)
  BY <1>1, <1>2, <1>3, FewerWaiting
<1>5. Waiting(u) = Waiting(kk)
  BY <1>1 DEF Waiting
<1>6. QED
  BY <1>1, <1>2, <1>4, <1>5 DEF u, Become

(* vTaskPrioritySet with nobody's priority inherited: the priority and the *)
(* base are the new one, and nobody is in another list.                    *)
LEMMA PriorityBecomes ==
  ASSUME NEW kk, Sound(kk), Timely(kk), NEW t \in All, NEW p \in Priority
  PROVE  LET u == SetPriority([kk EXCEPT !.base[t] = p], t, p)
         IN  /\ Become(u, kk, Rd(kk), Waiting(kk), kk.suspended, Gn(kk), Ev(kk, Pending))
             /\ u.priority = [kk.priority EXCEPT ![t] = p] /\ u.base = [kk.base EXCEPT ![t] = p]
             /\ u.current = kk.current /\ u.schedulerSuspended = kk.schedulerSuspended
             /\ u.pendedTicks = kk.pendedTicks /\ u.tick = kk.tick
             /\ u.swi = kk.swi /\ u.yieldPending = kk.yieldPending
<1> DEFINE b == [kk.base EXCEPT ![t] = p]
           v == [kk EXCEPT !.base = b]
           u == SetPriority(v, t, p)
<1>1. kk \in KernelState
  BY DEF Sound
<1>2. [kk EXCEPT !.base[t] = p] = v
  BY <1>1 DEF KernelState
<1>3. b \in [All -> Priority]
  BY <1>1, KernelTypes
<1> HIDE DEF b
<1>4. /\ v \in KernelState /\ v.base = b
      /\ v.ready = kk.ready /\ v.top = kk.top /\ v.delayed = kk.delayed
      /\ v.overflow = kk.overflow /\ v.suspended = kk.suspended
      /\ v.terminated = kk.terminated /\ v.events = kk.events
      /\ v.wake = kk.wake /\ v.priority = kk.priority
      /\ v.tick = kk.tick /\ v.nextUnblock = kk.nextUnblock
      /\ v.current = kk.current /\ v.schedulerSuspended = kk.schedulerSuspended
      /\ v.pendedTicks = kk.pendedTicks /\ v.swi = kk.swi /\ v.yieldPending = kk.yieldPending
  BY <1>1, <1>3 DEF KernelState
<1> HIDE DEF v
<1>5. Become(v, kk, Rd(kk), Waiting(kk), kk.suspended, Gn(kk), Ev(kk, Pending))
  BY <1>4, OtherField
<1>6. Sound(v) /\ Timely(v)
  BY <1>5 DEF Become
<1>7. /\ Sound(u)
      /\ Rd(u) = Rd(v) /\ Dl(u) = Dl(v) /\ Ov(u) = Ov(v)
      /\ u.suspended = v.suspended /\ Gn(u) = Gn(v)
      /\ \A l : Ev(u, l) = Ev(v, l)
      /\ \A x \in Waiting(v) : u.wake[x] = v.wake[x]
      /\ u.priority = [v.priority EXCEPT ![t] = p]
      /\ u.current = v.current /\ u.schedulerSuspended = v.schedulerSuspended
      /\ u.base = v.base /\ u.swi = v.swi /\ u.yieldPending = v.yieldPending
      /\ u.tick = v.tick /\ u.nextUnblock = v.nextUnblock /\ u.pendedTicks = v.pendedTicks
  BY <1>6, SetPriorityRight
<1> HIDE DEF u
<1>8. Waiting(u) = Waiting(v)
  BY <1>7 DEF Waiting
<1>9. \A x \in Dl(u) : u.nextUnblock <= u.wake[x]
  BY <1>6, <1>7 DEF Timely, Waiting
<1>10. Timely(u) /\ \A x \in Waiting(u) : Dist(u, x) = Dist(v, x)
  BY <1>6, <1>7, <1>8, <1>9, FewerWaiting
<1>11. Become(u, v, Rd(v), Waiting(v), v.suspended, Gn(v), Ev(v, Pending))
  BY <1>7, <1>8, <1>10 DEF Become
<1>12. Become(u, kk, Rd(kk), Waiting(kk), kk.suspended, Gn(kk), Ev(kk, Pending))
  BY <1>5, <1>11 DEF Become
<1>13. QED
  BY <1>2, <1>4, <1>7, <1>12 DEF u, b

(* The end of xTaskAbortDelay: the task is ready and no longer put off, and*)
(* nobody else has moved.                                                  *)
LEMMA AbortBecomes ==
  ASSUME NEW kk, Sound(kk), Timely(kk), NEW t \in All \ Listed(kk)
  PROVE  LET u == AbortWait(kk, t)
         IN  /\ Become(u, kk, Rd(kk) \cup {t}, Waiting(kk), kk.suspended, Gn(kk),
                       Ev(kk, Pending) \ {t})
             /\ Stays(u, kk) /\ u.swi = kk.swi
             /\ u.yieldPending = (kk.yieldPending \/ kk.priority[t] > kk.priority[kk.current])
<1> DEFINE u == AbortWait(kk, t)
<1>1. /\ Sound(u)
      /\ Rd(u) = Rd(kk) \cup {t} /\ Dl(u) = Dl(kk) /\ Ov(u) = Ov(kk)
      /\ u.suspended = kk.suspended /\ Gn(u) = Gn(kk) /\ u.wake = kk.wake
      /\ \A l \in Events : Ev(u, l) = Ev(kk, l) \ {t}
      /\ u.current = kk.current /\ u.schedulerSuspended = kk.schedulerSuspended
      /\ u.priority = kk.priority /\ u.base = kk.base
      /\ u.tick = kk.tick /\ u.swi = kk.swi
      /\ u.nextUnblock = kk.nextUnblock /\ u.pendedTicks = kk.pendedTicks
      /\ u.yieldPending = (kk.yieldPending \/ kk.priority[t] > kk.priority[kk.current])
  BY AbortWaitRight
<1> HIDE DEF u
<1>2. \A x \in Dl(u) : u.nextUnblock <= u.wake[x]
  BY <1>1 DEF Timely
<1>3. Timely(u) /\ \A x \in Waiting(u) : Dist(u, x) = Dist(kk, x)
  BY <1>1, <1>2, FewerWaiting
<1>4. Waiting(u) = Waiting(kk) /\ Ev(u, Pending) = Ev(kk, Pending) \ {t}
  BY <1>1 DEF Waiting, Events
<1>5. Become(u, kk, Rd(kk) \cup {t}, Waiting(kk), kk.suspended, Gn(kk), Ev(kk, Pending) \ {t})
  BY <1>1, <1>3, <1>4 DEF Become
<1>6. QED
  BY <1>1, <1>5 DEF u, Stays

(* xTaskCreate: one more ready task, of the priority asked for.            *)
LEMMA CreateBecomes ==
  ASSUME NEW kk, Sound(kk), Timely(kk), NEW t \in All \ Listed(kk), NEW p \in Priority
  PROVE  LET u == AddToReady(InitialiseNewTask(kk, t, p), <<t>>)
         IN  /\ Become(u, kk, Rd(kk) \cup {t}, Waiting(kk), kk.suspended, Gn(kk),
                       Ev(kk, Pending))
             /\ u.priority = [kk.priority EXCEPT ![t] = p] /\ u.base = [kk.base EXCEPT ![t] = p]
             /\ u.current = kk.current /\ u.schedulerSuspended = kk.schedulerSuspended
             /\ u.pendedTicks = kk.pendedTicks /\ u.tick = kk.tick
             /\ u.swi = kk.swi /\ u.yieldPending = kk.yieldPending
<1> DEFINE u == AddToReady(InitialiseNewTask(kk, t, p), <<t>>)
<1>0. u = AddToReady(InitialiseNewTask(kk, t, p), <<t>>)
  OBVIOUS
<1> HIDE DEF u
<1>1. /\ Sound(u)
      /\ Rd(u) = Rd(kk) \cup {t} /\ Dl(u) = Dl(kk) /\ Ov(u) = Ov(kk)
      /\ u.suspended = kk.suspended /\ Gn(u) = Gn(kk)
      /\ \A l : Ev(u, l) = Ev(kk, l)
      /\ \A x \in All \ {t} : u.wake[x] = kk.wake[x]
      /\ u.priority = [kk.priority EXCEPT ![t] = p]
      /\ u.base = [kk.base EXCEPT ![t] = p]
      /\ u.current = kk.current /\ u.schedulerSuspended = kk.schedulerSuspended
      /\ u.swi = kk.swi /\ u.yieldPending = kk.yieldPending
      /\ u.tick = kk.tick /\ u.nextUnblock = kk.nextUnblock /\ u.pendedTicks = kk.pendedTicks
  BY <1>0, InitialiseRight
<1>2. Dl(kk) \subseteq All /\ Ov(kk) \subseteq All
  BY KernelTypes, InToSet DEF Sound, Dl, Ov
<1>3. \A x \in Waiting(u) : x \in Waiting(kk) /\ u.wake[x] = kk.wake[x]
  BY <1>1, <1>2 DEF Waiting, Listed
<1>4. \A x \in Dl(u) : u.nextUnblock <= u.wake[x]
  BY <1>1, <1>3 DEF Timely, Waiting
<1>5. Timely(u) /\ \A x \in Waiting(u) : Dist(u, x) = Dist(kk, x)
  BY <1>1, <1>3, <1>4, FewerWaiting
<1>6. Waiting(u) = Waiting(kk)
  BY <1>1 DEF Waiting
<1>7. Become(u, kk, Rd(kk) \cup {t}, Waiting(kk), kk.suspended, Gn(kk), Ev(kk, Pending))
  BY <1>1, <1>5, <1>6 DEF Become
<1>8. QED
  BY <1>1, <1>7 DEF u

(* vTaskSuspendAll, and xTaskResumeAll that leaves the scheduler suspended,*)
(* change the level only.                                                  *)
LEMMA NestBecomes ==
  ASSUME NEW kk, Sound(kk), Timely(kk), NEW n \in Nat
  PROVE  LET u == [kk EXCEPT !.schedulerSuspended = n]
         IN  /\ Become(u, kk, Rd(kk), Waiting(kk), kk.suspended, Gn(kk), Ev(kk, Pending))
             /\ u.current = kk.current /\ u.schedulerSuspended = n
             /\ u.pendedTicks = kk.pendedTicks /\ u.tick = kk.tick
             /\ u.priority = kk.priority /\ u.base = kk.base
             /\ u.swi = kk.swi /\ u.yieldPending = kk.yieldPending
<1> DEFINE u == [kk EXCEPT !.schedulerSuspended = n]
<1>1. kk \in KernelState
  BY DEF Sound
<1>2. /\ u \in KernelState
      /\ u.ready = kk.ready /\ u.top = kk.top /\ u.delayed = kk.delayed
      /\ u.overflow = kk.overflow /\ u.suspended = kk.suspended
      /\ u.terminated = kk.terminated /\ u.events = kk.events
      /\ u.wake = kk.wake /\ u.priority = kk.priority
      /\ u.tick = kk.tick /\ u.nextUnblock = kk.nextUnblock
      /\ u.current = kk.current /\ u.schedulerSuspended = n
      /\ u.pendedTicks = kk.pendedTicks /\ u.base = kk.base
      /\ u.swi = kk.swi /\ u.yieldPending = kk.yieldPending
  BY <1>1 DEF KernelState
<1> HIDE DEF u
<1>3. Become(u, kk, Rd(kk), Waiting(kk), kk.suspended, Gn(kk), Ev(kk, Pending))
  BY <1>2, OtherField
<1>4. QED
  BY <1>2, <1>3 DEF u

(* Putting ticks off changes their count only.                             *)
LEMMA CountBecomes ==
  ASSUME NEW kk, Sound(kk), Timely(kk), NEW n \in Nat
  PROVE  LET u == [kk EXCEPT !.pendedTicks = n]
         IN  /\ Become(u, kk, Rd(kk), Waiting(kk), kk.suspended, Gn(kk), Ev(kk, Pending))
             /\ u.current = kk.current /\ u.schedulerSuspended = kk.schedulerSuspended
             /\ u.pendedTicks = n /\ u.tick = kk.tick
             /\ u.priority = kk.priority /\ u.base = kk.base
             /\ u.swi = kk.swi /\ u.yieldPending = kk.yieldPending
<1> DEFINE u == [kk EXCEPT !.pendedTicks = n]
<1>1. kk \in KernelState
  BY DEF Sound
<1>2. /\ u \in KernelState
      /\ u.ready = kk.ready /\ u.top = kk.top /\ u.delayed = kk.delayed
      /\ u.overflow = kk.overflow /\ u.suspended = kk.suspended
      /\ u.terminated = kk.terminated /\ u.events = kk.events
      /\ u.wake = kk.wake /\ u.priority = kk.priority
      /\ u.tick = kk.tick /\ u.nextUnblock = kk.nextUnblock
      /\ u.current = kk.current /\ u.schedulerSuspended = kk.schedulerSuspended
      /\ u.pendedTicks = n /\ u.base = kk.base
      /\ u.swi = kk.swi /\ u.yieldPending = kk.yieldPending
  BY <1>1 DEF KernelState
<1> HIDE DEF u
<1>3. Become(u, kk, Rd(kk), Waiting(kk), kk.suspended, Gn(kk), Ev(kk, Pending))
  BY <1>2, OtherField
<1>4. QED
  BY <1>2, <1>3 DEF u

(* The tick while the scheduler is suspended adds one to the ticks put off,*)
(* ...                                                                     *)
LEMMA TickPutOff ==
  ASSUME NEW kk, Sound(kk), kk.schedulerSuspended # 0
  PROVE  SysTick(kk) = [kk EXCEPT !.pendedTicks = kk.pendedTicks + 1]
<1> DEFINE u == [kk EXCEPT !.pendedTicks = @ + 1]
<1>1. IncrementTick(kk) = <<u, FALSE>>
  BY DEF IncrementTick
<1> HIDE DEF u
<1>2. IncrementTick(kk)[1] = u /\ IncrementTick(kk)[2] = FALSE
  BY <1>1
<1>3. SysTick(kk) = u
  BY <1>2, Zenon DEF SysTick, YieldIf
<1>4. QED
  BY <1>3 DEF u

(* ... and else wakes exactly those with one tick left, asks for a switch  *)
(* when one of them is to run, and leaves everybody else one tick less.    *)
LEMMA TickBecomes ==
  ASSUME NEW kk, Sound(kk), Timely(kk), kk.schedulerSuspended = 0
  PROVE  LET u == SysTick(kk)
             due == Within(kk, 1)
         IN  /\ Sound(u) /\ Timely(u)
             /\ Rd(u) = Rd(kk) \cup due /\ Waiting(u) = Waiting(kk) \ due
             /\ u.suspended = kk.suspended /\ Gn(u) = Gn(kk)
             /\ Ev(u, Pending) = Ev(kk, Pending) \ due
             /\ \A t \in Waiting(u) : Dist(u, t) = Dist(kk, t) - 1
             /\ u.current = kk.current /\ u.schedulerSuspended = 0
             /\ u.pendedTicks = kk.pendedTicks
             /\ u.priority = kk.priority /\ u.base = kk.base
             /\ u.yieldPending = kk.yieldPending
             /\ u.swi \in BOOLEAN
             /\ (\/ kk.swi
                 \/ \E t \in due : kk.priority[t] >= kk.priority[kk.current]) => u.swi
<1> DEFINE v == IncrementTick(kk)[1]
           yes == IncrementTick(kk)[2]
           due == Within(kk, 1)
           u == YieldIf(v, yes)
<1>1. /\ Sound(v) /\ Timely(v)
      /\ Rd(v) = Rd(kk) \cup due /\ Waiting(v) = Waiting(kk) \ due
      /\ v.suspended = kk.suspended /\ Gn(v) = Gn(kk)
      /\ \A l \in Events : Ev(v, l) = Ev(kk, l) \ due
      /\ \A t \in Waiting(v) : Dist(v, t) = Dist(kk, t) - 1
      /\ Settled(v, kk) /\ v.swi = kk.swi /\ v.yieldPending = kk.yieldPending
      /\ v.pendedTicks = kk.pendedTicks
      /\ yes \in BOOLEAN
      /\ (\/ kk.yieldPending
          \/ \E t \in due : kk.priority[t] >= kk.priority[kk.current]) => yes
  BY IncrementTickRight
<1>2. SysTick(kk) = u
  BY DEF SysTick
<1> HIDE DEF v, yes, due
<1>3. /\ Sound(u) /\ SameViews(u, v) /\ Settled(u, v)
      /\ u.yieldPending = v.yieldPending /\ u.tick = v.tick
      /\ u.nextUnblock = v.nextUnblock /\ u.pendedTicks = v.pendedTicks
      /\ u.swi = (v.swi \/ yes)
  BY <1>1, YieldRight
<1> HIDE DEF u
<1>4. Timely(u) /\ Waiting(u) = Waiting(v) /\ \A t : Dist(u, t) = Dist(v, t)
  BY <1>1, <1>3, SameTimes
<1>5. /\ Rd(u) = Rd(v) /\ u.suspended = v.suspended /\ Gn(u) = Gn(v)
      /\ Ev(u, Pending) = Ev(kk, Pending) \ due
  BY <1>1, <1>3 DEF SameViews, Events
<1>6. /\ u.current = kk.current /\ u.schedulerSuspended = 0
      /\ u.priority = kk.priority /\ u.base = kk.base
  BY <1>1, <1>3 DEF Settled
<1>7. /\ u.swi \in BOOLEAN
      /\ (\/ kk.swi
          \/ \E t \in due : kk.priority[t] >= kk.priority[kk.current]) => u.swi
  BY <1>1, <1>3
<1>8. QED
  BY <1>1, <1>2, <1>3, <1>4, <1>5, <1>6, <1>7 DEF due

(* The software interrupt while the scheduler is suspended pends the yield,*)
(* ...                                                                     *)
LEMMA SwitchPutOff ==
  ASSUME NEW kk, Sound(kk), Timely(kk), kk.schedulerSuspended # 0
  PROVE  LET u == SwitchContext(kk)
         IN  /\ Become(u, kk, Rd(kk), Waiting(kk), kk.suspended, Gn(kk), Ev(kk, Pending))
             /\ Stays(u, kk) /\ u.swi = FALSE /\ u.yieldPending = TRUE
<1> DEFINE u == SwitchContext(kk)
<1>1. kk \in KernelState
  BY DEF Sound
<1>2. u = [kk EXCEPT !.swi = FALSE, !.yieldPending = TRUE]
  BY DEF SwitchContext
<1> HIDE DEF u
<1>3. /\ u \in KernelState /\ u.swi = FALSE /\ u.yieldPending = TRUE
      /\ u.ready = kk.ready /\ u.top = kk.top /\ u.delayed = kk.delayed
      /\ u.overflow = kk.overflow /\ u.suspended = kk.suspended
      /\ u.terminated = kk.terminated /\ u.events = kk.events
      /\ u.wake = kk.wake /\ u.priority = kk.priority
      /\ u.tick = kk.tick /\ u.nextUnblock = kk.nextUnblock /\ Stays(u, kk)
  BY <1>1, <1>2 DEF KernelState, Stays
<1>4. Become(u, kk, Rd(kk), Waiting(kk), kk.suspended, Gn(kk), Ev(kk, Pending))
  BY <1>3, OtherField
<1>5. QED
  BY <1>3, <1>4 DEF u

(* ... and else makes a ready task of the highest priority run.            *)
LEMMA SwitchBecomes ==
  ASSUME NEW kk, Sound(kk), Timely(kk), kk.schedulerSuspended = 0, Rd(kk) # {}
  PROVE  LET u == SwitchContext(kk)
         IN  /\ Become(u, kk, Rd(kk), Waiting(kk), kk.suspended, Gn(kk), Ev(kk, Pending))
             /\ u.current \in Rd(kk)
             /\ \A t \in Rd(kk) : kk.priority[t] <= kk.priority[u.current]
             /\ u.swi = FALSE /\ u.yieldPending = FALSE
             /\ u.schedulerSuspended = 0 /\ u.priority = kk.priority /\ u.base = kk.base
             /\ u.tick = kk.tick /\ u.pendedTicks = kk.pendedTicks
<1> DEFINE u == SwitchContext(kk)
<1>1. /\ Sound(u) /\ SameViews(u, kk)
      /\ u.current \in Rd(u) /\ \A t \in Rd(u) : u.priority[t] <= u.priority[u.current]
      /\ u.swi = FALSE /\ u.yieldPending = FALSE
      /\ u.schedulerSuspended = 0 /\ u.priority = kk.priority /\ u.base = kk.base
      /\ u.tick = kk.tick /\ u.nextUnblock = kk.nextUnblock /\ u.pendedTicks = kk.pendedTicks
  BY SwitchContextRight
<1> HIDE DEF u
<1>2. Timely(u) /\ Waiting(u) = Waiting(kk) /\ \A t : Dist(u, t) = Dist(kk, t)
  BY <1>1, SameTimes
<1>3. /\ Rd(u) = Rd(kk) /\ u.suspended = kk.suspended /\ Gn(u) = Gn(kk)
      /\ Ev(u, Pending) = Ev(kk, Pending)
  BY <1>1 DEF SameViews
<1>4. Become(u, kk, Rd(kk), Waiting(kk), kk.suspended, Gn(kk), Ev(kk, Pending))
  BY <1>1, <1>2, <1>3 DEF Become
<1>5. QED
  BY <1>1, <1>3, <1>4 DEF u

(* vTaskDelay and xTaskDelayUntil: the running task has the ticks asked for*)
(* less those put off, or is ready again when these were as many; whoever  *)
(* was put off is ready, and everybody else keeps the ticks he had less    *)
(* those put off.                                                          *)
LEMMA DelayBecomes ==
  ASSUME NEW kk, Sound(kk), Timely(kk), kk.schedulerSuspended = 1, NEW n \in 1 .. Ticks - 1,
         kk.current \notin Ev(kk, Pending)
  PROVE  LET u == ResumeAll(AddCurrentToDelayed(kk, n, FALSE))
             c == kk.current
             P == Ev(kk, Pending)
         IN  /\ Sound(u) /\ Timely(u)
             /\ Rd(u) \cup Waiting(u) = (Rd(kk) \cup Waiting(kk) \cup P) \cup {c}
             /\ Rd(kk) \ {c} \subseteq Rd(u) /\ P \subseteq Rd(u)
             /\ Waiting(u) \subseteq (Waiting(kk) \ P) \cup {c}
             /\ u.suspended = kk.suspended \ (P \cup {c}) /\ Gn(u) = Gn(kk) \ (P \cup {c})
             /\ Ev(u, Pending) = {}
             /\ c \in Waiting(u) => Dist(u, c) = n - kk.pendedTicks
             /\ \A t \in Waiting(u) : t # c => Dist(u, t) = Dist(kk, t) - kk.pendedTicks
             /\ u.current = c /\ u.schedulerSuspended = 0 /\ u.pendedTicks = 0
             /\ u.priority = kk.priority /\ u.base = kk.base
             /\ u.swi = (kk.swi \/ u.yieldPending)
<1> DEFINE c == kk.current
           P == Ev(kk, Pending)
           v == AddCurrentToDelayed(kk, n, FALSE)
           u == ResumeAll(v)
<1>1. /\ Sound(v) /\ Timely(v)
      /\ Rd(v) = Rd(kk) \ {c} /\ Gn(v) = Gn(kk) \ {c}
      /\ Waiting(v) = Waiting(kk) \cup {c}
      /\ v.suspended = kk.suspended \ {c}
      /\ \A l : Ev(v, l) = Ev(kk, l)
      /\ \A t \in Waiting(v) : Dist(v, t) = IF t = c THEN n ELSE Dist(kk, t)
      /\ v.current = c /\ v.schedulerSuspended = kk.schedulerSuspended
      /\ v.priority = kk.priority /\ v.base = kk.base
      /\ v.swi = kk.swi /\ v.pendedTicks = kk.pendedTicks
  BY AddCurrentToDelayedRight, ZenonT(30)
<1> HIDE DEF v
<1> DEFINE W == Revived(v)
<1>2. /\ Sound(u) /\ Timely(u)
      /\ Rd(u) = Rd(v) \cup W /\ Waiting(u) = Waiting(v) \ W
      /\ u.suspended = v.suspended \ Ev(v, Pending) /\ Gn(u) = Gn(v) \ Ev(v, Pending)
      /\ \A l \in Events : Ev(u, l) = Ev(v, l) \ W
      /\ \A t \in Waiting(u) : Dist(u, t) = Dist(v, t) - v.pendedTicks
      /\ u.current = v.current /\ u.schedulerSuspended = 0 /\ u.pendedTicks = 0
      /\ u.priority = v.priority /\ u.base = v.base
      /\ u.swi = (v.swi \/ u.yieldPending)
  BY <1>1, ResumeAllRight
<1> HIDE DEF u
<1>3. Ev(v, Pending) = P /\ P \subseteq W /\ W \subseteq P \cup Waiting(v)
  BY <1>1 DEF Revived, Within
<1>4. Ev(u, Pending) = {}
  BY <1>2, <1>3 DEF Events
<1> HIDE DEF W, P
<1>5. /\ Rd(u) \cup Waiting(u) = (Rd(kk) \cup Waiting(kk) \cup P) \cup {c}
      /\ Rd(kk) \ {c} \subseteq Rd(u) /\ P \subseteq Rd(u)
      /\ Waiting(u) \subseteq (Waiting(kk) \ P) \cup {c}
  <2> HIDE DEF c
  <2>1. QED
    BY <1>1, <1>2, <1>3
<1>6. /\ u.suspended = kk.suspended \ (P \cup {c}) /\ Gn(u) = Gn(kk) \ (P \cup {c})
  BY <1>1, <1>2, <1>3
<1>7. /\ c \in Waiting(u) => Dist(u, c) = n - kk.pendedTicks
      /\ \A t \in Waiting(u) : t # c => Dist(u, t) = Dist(kk, t) - kk.pendedTicks
  BY <1>1, <1>2
<1>8. QED
  BY <1>1, <1>2, <1>4, <1>5, <1>6, <1>7 DEF u, v, P

(* A task begins to wait with the scheduler running: it waits for the ticks*)
(* asked for, or is suspended when it may wait for ever, and everybody else*)
(* as before.                                                              *)
LEMMA BlockBecomes ==
  ASSUME NEW kk, Sound(kk), Timely(kk), NEW n \in 1 .. Ticks - 1
  PROVE  LET u == Yield(AddCurrentToDelayed(kk, n, TRUE))
             c == kk.current
         IN  /\ Sound(u) /\ Timely(u)
             /\ Rd(u) = Rd(kk) \ {c} /\ Gn(u) = Gn(kk) \ {c}
             /\ \/ /\ Waiting(u) = Waiting(kk) \ {c} /\ u.suspended = kk.suspended \cup {c}
                \/ /\ Waiting(u) = Waiting(kk) \cup {c} /\ u.suspended = kk.suspended \ {c}
             /\ Ev(u, Pending) = Ev(kk, Pending)
             /\ c \in Waiting(u) => Dist(u, c) = n
             /\ \A t \in Waiting(u) : t # c => Dist(u, t) = Dist(kk, t)
             /\ Stays(u, kk) /\ u.swi = TRUE
<1> DEFINE c == kk.current
           v == AddCurrentToDelayed(kk, n, TRUE)
           u == YieldIf(v, TRUE)
           forever == n = MaxDelay /\ TRUE
<1>1. /\ Sound(v) /\ Timely(v)
      /\ Rd(v) = Rd(kk) \ {c} /\ Gn(v) = Gn(kk) \ {c}
      /\ Waiting(v) = IF forever THEN Waiting(kk) \ {c} ELSE Waiting(kk) \cup {c}
      /\ v.suspended = IF forever THEN kk.suspended \cup {c} ELSE kk.suspended \ {c}
      /\ \A l : Ev(v, l) = Ev(kk, l)
      /\ \A t \in Waiting(v) : Dist(v, t) = IF t = c THEN n ELSE Dist(kk, t)
      /\ v.current = c /\ v.schedulerSuspended = kk.schedulerSuspended
      /\ v.priority = kk.priority /\ v.base = kk.base
      /\ v.tick = kk.tick /\ v.pendedTicks = kk.pendedTicks
  BY AddCurrentToDelayedRight, ZenonT(30)
<1>2. Yield(v) = u
  BY DEF YieldIf
<1> HIDE DEF v, forever
<1>3. Become(v, v, Rd(v), Waiting(v), v.suspended, Gn(v), Ev(v, Pending))
  BY <1>1 DEF Become
<1>4. /\ Become(u, v, Rd(v), Waiting(v), v.suspended, Gn(v), Ev(v, Pending))
      /\ Stays(u, v) /\ u.swi = (v.swi \/ TRUE)
  BY <1>3, ThenYield
<1> HIDE DEF u
<1>5. Stays(u, kk) /\ u.swi = TRUE
  BY <1>1, <1>4 DEF Stays
<1>6. QED
  BY <1>1, <1>2, <1>4, <1>5 DEF u, v, Become

-----------------------------------------------------------------------------
(* A task is in no place exactly when its state item is in no list.        *)
LEMMA PlacesRight ==
  ASSUME NEW kk, NEW t \in All
  PROVE  Places(kk, t) = {} <=> t \notin Listed(kk)
<1> DEFINE in == Members(kk)
<1>1. /\ DOMAIN in = {"ready", "delayed", "overflow", "suspended", "terminated"}
      /\ in["ready"] = Rd(kk) /\ in["delayed"] = Dl(kk) /\ in["overflow"] = Ov(kk)
      /\ in["suspended"] = kk.suspended /\ in["terminated"] = Gn(kk)
  BY DEF Members, Rd, Dl, Ov, Gn
<1> HIDE DEF in
<1>2. Places(kk, t) = {l \in DOMAIN in : t \in in[l]}
  BY DEF Places, in
<1>3. QED
  BY <1>1, <1>2 DEF Listed

(* A sound and timely kernel satisfies ListsRight, the part of the         *)
(* invariant that says how the lists of tasks.c belong together.           *)
LEMMA ListsAreRight ==
  ASSUME NEW kk, Sound(kk), Timely(kk), NEW moving, Blocked(kk, moving),
         kk.schedulerSuspended = 0 => kk.pendedTicks = 0 /\ Ev(kk, Pending) = {}
  PROVE  ListsRight(kk, moving)
<1>1. kk \in KernelState
  BY DEF Sound
<1>2. NoRepeats(kk)
  <2> DEFINE in == Members(kk)
  <2>1. /\ DOMAIN in = {"ready", "delayed", "overflow", "suspended", "terminated"}
        /\ in["ready"] = Rd(kk) /\ in["delayed"] = Dl(kk) /\ in["overflow"] = Ov(kk)
        /\ in["suspended"] = kk.suspended /\ in["terminated"] = Gn(kk)
    BY DEF Members, Rd, Dl, Ov, Gn
  <2> HIDE DEF in
  <2>2. Apart(kk)
    BY DEF Sound
  <2>3. \A l, m \in DOMAIN in : l # m => in[l] \cap in[m] = {}
    BY <2>1, <2>2 DEF Apart
  <2>4. /\ \A p \in Priority : IsInjective(kk.ready[p].items)
        /\ IsInjective(kk.delayed) /\ IsInjective(kk.overflow) /\ IsInjective(kk.terminated)
    BY DEF Sound
  <2>5. QED
    BY <2>3, <2>4 DEF NoRepeats, in
<1>3. DelayedRight(kk)
  <2>1. kk.nextUnblock <= NextWake(kk)
    <3>1. CASE kk.delayed = << >>
      BY <3>1, <1>1, KernelTypes, KernelAssumption DEF NextWake, MaxDelay
    <3>2. CASE kk.delayed # << >>
      <4>1. kk.delayed \in Seq(All)
        BY <1>1, KernelTypes
      <4>2. 1 \in 1 .. Len(kk.delayed) /\ Head(kk.delayed) = kk.delayed[1]
        BY <4>1, <3>2
      <4>3. Head(kk.delayed) \in Dl(kk)
        BY <4>1, <4>2, InToSet DEF Dl
      <4>4. QED
        BY <4>3, <3>2 DEF NextWake, Timely
    <3>3. QED
      BY <3>1, <3>2
  <2>2. /\ \A i, j \in 1 .. Len(kk.delayed) :
             i < j => kk.wake[kk.delayed[i]] <= kk.wake[kk.delayed[j]]
        /\ \A i, j \in 1 .. Len(kk.overflow) :
             i < j => kk.wake[kk.overflow[i]] <= kk.wake[kk.overflow[j]]
    BY DEF Sound, Sorted
  <2>3. /\ \A t \in ToSet(kk.delayed) : kk.wake[t] > kk.tick
        /\ \A t \in ToSet(kk.overflow) : kk.wake[t] < kk.tick
    BY DEF Timely, Dl, Ov
  <2>4. QED
    BY <2>1, <2>2, <2>3 DEF DelayedRight
<1>4. EventsRight(kk, moving)
  <2>1. /\ \A l \in EventLists \cup {Pending} : IsInjective(kk.events[l])
        /\ \A l, m \in EventLists \cup {Pending} :
             l # m => ToSet(kk.events[l]) \cap ToSet(kk.events[m]) = {}
    BY DEF Sound, Events, Ev
  <2>2. \A l \in EventLists : \A t \in ToSet(kk.events[l]) \ {moving} :
          t \in ToSet(kk.delayed) \cup ToSet(kk.overflow) \cup kk.suspended
    BY DEF Blocked, Ev, Dl, Ov
  <2>3. QED
    BY <2>1, <2>2 DEF EventsRight
<1>5. PutOff(kk)
  <2>1. kk.events[Pending] \in Seq(All)
    BY <1>1, KernelTypes DEF Events
  <2>2. kk.events[Pending] = << >> <=> Ev(kk, Pending) = {}
    BY <2>1, InToSet DEF Ev
  <2>3. QED
    BY <2>2 DEF PutOff
<1>6. ReadyRight(kk)
  BY DEF Sound
<1>7. QED
  BY <1>2, <1>3, <1>4, <1>5, <1>6 DEF ListsRight

(* vTaskStartScheduler: the tasks created and the idle task are ready, one *)
(* of the highest priority runs, and nobody waits.                         *)
LEMMA StartedRight ==
  ASSUME NEW first \in Seq(Tasks), IsInjective(first), NEW priority \in [All -> Priority]
  PROVE  LET u == Started(first, priority)
         IN  /\ Sound(u) /\ Timely(u)
             /\ Rd(u) = ToSet(first) \cup {Idle} /\ Waiting(u) = {} /\ u.suspended = {}
             /\ Gn(u) = {} /\ \A l \in Events : Ev(u, l) = {}
             /\ u.current \in Rd(u) /\ \A t \in Rd(u) : u.priority[t] <= u.priority[u.current]
             /\ u.schedulerSuspended = 0 /\ u.pendedTicks = 0 /\ u.swi = FALSE
             /\ u.priority = priority /\ u.base = priority
<1> DEFINE created == Append(first, Idle)
           lower == {t \in All : \E u \in ToSet(created) : priority[u] > priority[t]}
           high == Without(created, lower)
           k0 == [current |-> Last(high),
                  swi |-> FALSE, yieldPending |-> FALSE,
                  ready |-> [p \in Priority |-> EmptyList], top |-> 0,
                  delayed |-> << >>, overflow |-> << >>, suspended |-> {},
                  terminated |-> << >>,
                  events |-> [l \in EventLists \cup {Pending} |-> << >>],
                  tick |-> 0, overflows |-> 0, nextUnblock |-> MaxDelay,
                  schedulerSuspended |-> 0, pendedTicks |-> 0,
                  priority |-> priority, base |-> priority,
                  item |-> [t \in All |-> MaxPriorities - priority[t]],
                  wake |-> [t \in All |-> 0], aborted |-> [t \in All |-> FALSE]]
           u == AddToReady(k0, created)
<1>1. Started(first, priority) = u
  BY DEF Started
<1>2. created \in Seq(All) /\ IsInjective(created) /\ ToSet(created) = ToSet(first) \cup {Idle}
  <2>1. first \in Seq(All) /\ ToSet(first) \subseteq Tasks
    BY InToSet DEF All
  <2>2. Idle \in All /\ Idle \notin ToSet(first)
    BY <2>1, KernelAssumption DEF All
  <2>3. created \in Seq(All) /\ Len(created) = Len(first) + 1 /\ created[Len(first) + 1] = Idle
        /\ \A i \in 1 .. Len(first) : created[i] = first[i]
    BY <2>1, <2>2, AppendProperties
  <2> DEFINE w == <<Idle>>
  <2>4. w \in Seq(All) /\ IsInjective(w) /\ ToSet(w) = {Idle} /\ Len(first) \in 0 .. Len(first)
    BY <2>1, <2>2, Alone
  <2>5. Spliced(created, first, w, Len(first))
    BY <2>1, <2>3 DEF Spliced
  <2> HIDE DEF w, created
  <2>6. /\ ToSet(created) = ToSet(first) \cup ToSet(w)
        /\ IsInjective(first) /\ IsInjective(w) /\ ToSet(first) \cap ToSet(w) = {}
             => IsInjective(created)
    BY <2>1, <2>3, <2>4, <2>5, SplicedRight
  <2>7. QED
    BY <2>2, <2>3, <2>4, <2>6
<1> HIDE DEF created
<1>3. ToSet(created) \subseteq All /\ ToSet(created) # {}
  BY <1>2, InToSet
<1>4. high \in Seq(All) /\ ToSet(high) = ToSet(created) \ lower
  BY <1>2, WithoutRight
<1>5. ToSet(high) # {}
  <2> DEFINE T == {priority[t] : t \in ToSet(created)}
  <2>1. T \subseteq 0 .. MaxPriorities - 1 /\ T # {} /\ MaxPriorities - 1 \in Nat
    BY <1>3, KernelAssumption DEF Priority
  <2>2. PICK m \in T : \A i \in T : i <= m
    BY <2>1, Greatest
  <2>3. PICK t \in ToSet(created) : m = priority[t]
    OBVIOUS
  <2>4. \A x \in ToSet(created) : ~ (priority[x] > priority[t])
    <3>1. TAKE x \in ToSet(created)
    <3>2. priority[x] \in T /\ priority[t] \in T
      BY <2>3
    <3>3. priority[x] <= m /\ priority[x] \in Int /\ m \in Int
      BY <3>2, <2>1, <2>2, <2>3
    <3>4. QED
      BY <3>3, <2>3
  <2>5. t \notin lower
    BY <2>4
  <2>6. QED
    BY <2>3, <2>5, <1>4
<1> DEFINE c == Last(high)
<1>6. c \in ToSet(high)
  <2>1. high # << >>
    BY <1>4, <1>5, InToSet
  <2> HIDE DEF high
  <2>2. Len(high) \in 1 .. Len(high)
    BY <2>1, <1>4
  <2>3. QED
    BY <2>2, <1>4, InToSet DEF Last
<1>7. c \in ToSet(created) /\ c \in All /\ \A t \in ToSet(created) : priority[t] <= priority[c]
  <2>1. c \in ToSet(created) /\ c \in All /\ c \notin lower
    BY <1>3, <1>4, <1>6
  <2>2. \A t \in ToSet(created) : ~ (priority[t] > priority[c])
    BY <2>1
  <2>3. \A t \in All : priority[t] \in Int
    BY DEF Priority
  <2>4. ASSUME NEW t \in ToSet(created) PROVE priority[t] <= priority[c]
    <3>1. priority[t] \in Int /\ priority[c] \in Int /\ ~ (priority[t] > priority[c])
      BY <2>1, <2>2, <2>3, <1>3
    <3> HIDE DEF c
    <3>2. QED
      BY <3>1
  <2>5. QED
    BY <2>1, <2>4
<1> HIDE DEF high, c, lower
<1>8. k0 \in KernelState
  <2>1. << >> \in Seq(All) /\ {} \in SUBSET All
    OBVIOUS
  <2>2. [p \in Priority |-> EmptyList] \in [Priority -> [items : Seq(All), index : Nat]]
    BY <2>1 DEF EmptyList
  <2>3. [l \in EventLists \cup {Pending} |-> << >>] \in [EventLists \cup {Pending} -> Seq(All)]
    BY <2>1
  <2>4. /\ 0 \in Priority /\ 0 \in 0 .. Ticks - 1 /\ 0 \in 0 .. Overflows - 1
        /\ MaxDelay \in 0 .. Ticks - 1
    BY KernelAssumption DEF Priority, MaxDelay
  <2>5. [t \in All |-> MaxPriorities - priority[t]] \in [All -> 0 .. MaxPriorities]
    <3>1. \A t \in All : priority[t] \in 0 .. MaxPriorities - 1
      BY DEF Priority
    <3>2. \A t \in All : MaxPriorities - priority[t] \in 0 .. MaxPriorities
      BY <3>1, KernelAssumption
    <3>3. QED
      BY <3>2
  <2>6. /\ [t \in All |-> 0] \in [All -> 0 .. Ticks - 1]
        /\ [t \in All |-> FALSE] \in [All -> BOOLEAN] /\ FALSE \in BOOLEAN /\ 0 \in Nat
    BY <2>4
  <2>7. Last(high) \in All
    BY <1>7 DEF c
  <2>8. QED
    BY <2>1, <2>2, <2>3, <2>4, <2>5, <2>6, <2>7 DEF KernelState
<1>9. /\ k0.current = c /\ k0.swi = FALSE
      /\ k0.ready = [p \in Priority |-> EmptyList]
      /\ k0.delayed = << >> /\ k0.overflow = << >> /\ k0.suspended = {}
      /\ k0.terminated = << >> /\ k0.events = [l \in EventLists \cup {Pending} |-> << >>]
      /\ k0.schedulerSuspended = 0 /\ k0.pendedTicks = 0
      /\ k0.priority = priority /\ k0.base = priority
  BY DEF c
<1> HIDE DEF k0
<1>10. /\ \A p \in Priority : k0.ready[p].items = << >> /\ k0.ready[p].index = 0
       /\ \A l \in Events : k0.events[l] = << >>
  BY <1>9 DEF EmptyList, Events
<1>11. /\ Rd(k0) = {} /\ Dl(k0) = {} /\ Ov(k0) = {} /\ Gn(k0) = {}
       /\ \A l \in Events : Ev(k0, l) = {}
  BY <1>9, <1>10, NobodyIn DEF Rd, InReady, Dl, Ov, Gn, Ev
<1>12. Sound(k0)
  <2>1. Apart(k0)
    BY <1>9, <1>11 DEF Apart
  <2>2. ReadyRight(k0)
    BY <1>10 DEF ReadyRight
  <2>3. Sorted(k0.delayed, k0.wake) /\ Sorted(k0.overflow, k0.wake)
    BY <1>9 DEF Sorted
  <2>4. /\ \A p \in Priority : IsInjective(k0.ready[p].items)
        /\ IsInjective(k0.delayed) /\ IsInjective(k0.overflow) /\ IsInjective(k0.terminated)
        /\ \A l \in Events : IsInjective(k0.events[l])
    BY <1>9, <1>10, NobodyIn
  <2>5. \A l, m \in Events : l # m => Ev(k0, l) \cap Ev(k0, m) = {}
    BY <1>11
  <2>6. QED
    BY <1>8, <2>1, <2>2, <2>3, <2>4, <2>5, Zenon DEF Sound
<1>13. ToSet(created) \cap Listed(k0) = {}
  BY <1>9, <1>11 DEF Listed
<1>14. /\ Sound(u)
       /\ Rd(u) = Rd(k0) \cup ToSet(created) /\ Dl(u) = Dl(k0) /\ Ov(u) = Ov(k0)
       /\ u.suspended = k0.suspended /\ Gn(u) = Gn(k0) /\ u.wake = k0.wake
       /\ Frame(u, k0) /\ \A l : Ev(u, l) = Ev(k0, l)
  BY <1>2, <1>12, <1>13, AddToReadyRight
<1> HIDE DEF u
<1>15. Timely(u) /\ Waiting(u) = {}
  BY <1>11, <1>14 DEF Timely, Waiting
<1>16. /\ u.current = c /\ u.schedulerSuspended = 0 /\ u.pendedTicks = 0 /\ u.swi = FALSE
       /\ u.priority = priority /\ u.base = priority
  BY <1>9, <1>14 DEF Frame, Settled
<1>17. Rd(u) = ToSet(created) /\ Gn(u) = {} /\ \A l \in Events : Ev(u, l) = {}
  BY <1>11, <1>14
<1>18. QED
  BY <1>1, <1>2, <1>7, <1>9, <1>14, <1>15, <1>16, <1>17

-----------------------------------------------------------------------------
(* The lists of those who wait for something.                              *)

(* What moving a task between lists leaves alone.                          *)
Core(u, kk) ==
  /\ Stays(u, kk) /\ u.overflows = kk.overflows
  /\ u.item = kk.item /\ u.aborted = kk.aborted

(* What waking t, who waits in l, makes of the lists: it waits for nothing *)
(* and is ready at once, or put off while the scheduler is suspended, and  *)
(* nobody else has moved.                                                  *)
Moved(u, kk, l, t) ==
  /\ t \in Ev(kk, l) /\ t \in All
  /\ Sound(u) /\ Timely(u)
  /\ kk.schedulerSuspended = 0 =>
       /\ Rd(u) = Rd(kk) \cup {t} /\ Waiting(u) = Waiting(kk) \ {t}
       /\ u.suspended = kk.suspended \ {t} /\ Gn(u) = Gn(kk) \ {t}
       /\ Ev(u, Pending) = Ev(kk, Pending)
  /\ kk.schedulerSuspended # 0 =>
       /\ Rd(u) = Rd(kk) /\ Waiting(u) = Waiting(kk)
       /\ u.suspended = kk.suspended /\ Gn(u) = Gn(kk)
       /\ Ev(u, Pending) = Ev(kk, Pending) \cup {t}
  /\ Ev(u, l) = Ev(kk, l) \ {t}
  /\ \A m \in EventLists \ {l, Pending} : Ev(u, m) = Ev(kk, m)
  /\ \A x \in Waiting(u) : Dist(u, x) = Dist(kk, x)
  /\ Core(u, kk)

(* xTaskRemoveFromEventList moves the first that waits in l, and a yield   *)
(* is pending when its priority is higher.                                 *)
LEMMA RemoveRight ==
  ASSUME NEW kk, Sound(kk), Timely(kk), NEW l \in EventLists, l # Pending,
         kk.events[l] # << >>
  PROVE  LET u == RemoveFromEventList(kk, l)
             t == Head(kk.events[l])
         IN  /\ Moved(u, kk, l, t) /\ u.swi = kk.swi
             /\ u.yieldPending = (kk.yieldPending \/ kk.priority[t] > kk.priority[kk.current])
<1> DEFINE t == Head(kk.events[l])
           v == Unwait(kk, {t})
           w == MakeReady(v, t)
           y == w.yieldPending \/ kk.priority[t] > kk.priority[kk.current]
           u == [w EXCEPT !.yieldPending = y]
<1>1. /\ kk \in KernelState /\ l \in Events /\ Pending \in Events /\ kk.events[l] \in Seq(All)
      /\ \A a, b \in Events : a # b => Ev(kk, a) \cap Ev(kk, b) = {}
  BY KernelTypes DEF Sound, Events
<1>2. t \in Ev(kk, l) /\ t \in All
  <2> DEFINE s == kk.events[l]
  <2>1. s \in Seq(All) /\ s # << >>
    BY <1>1
  <2> HIDE DEF s
  <2>2. 1 \in 1 .. Len(s) /\ Head(s) = s[1]
    BY <2>1
  <2>3. Head(s) \in ToSet(s) /\ Head(s) \in All
    BY <2>1, <2>2, InToSet
  <2>4. QED
    BY <2>3 DEF s, Ev
<1>3. RemoveFromEventList(kk, l) = u
  BY DEF RemoveFromEventList
<1>4. /\ Sound(v)
      /\ \A m \in Events : Ev(v, m) = Ev(kk, m) \ {t}
      /\ Rd(v) = Rd(kk) /\ Dl(v) = Dl(kk) /\ Ov(v) = Ov(kk)
      /\ v.suspended = kk.suspended /\ Gn(v) = Gn(kk) /\ v.wake = kk.wake
      /\ Frame(v, kk)
  BY UnwaitRight
<1> HIDE DEF t, v
<1>5. v.schedulerSuspended = kk.schedulerSuspended
  BY <1>4 DEF Frame, Settled
<1>6. kk.schedulerSuspended = 0 =>
        /\ Sound(w)
        /\ Rd(w) = Rd(kk) \cup {t} /\ Dl(w) = Dl(kk) \ {t} /\ Ov(w) = Ov(kk) \ {t}
        /\ w.suspended = kk.suspended \ {t} /\ Gn(w) = Gn(kk) \ {t}
        /\ \A x \in All \ {t} : w.wake[x] = kk.wake[x]
        /\ Frame(w, v) /\ \A m : Ev(w, m) = Ev(v, m)
  BY <1>2, <1>4, <1>5, MakeReadyRight
<1>7. kk.schedulerSuspended # 0 =>
        /\ Sound(w)
        /\ Rd(w) = Rd(kk) /\ Dl(w) = Dl(kk) /\ Ov(w) = Ov(kk)
        /\ w.suspended = kk.suspended /\ Gn(w) = Gn(kk) /\ w.wake = kk.wake
        /\ Ev(w, Pending) = Ev(v, Pending) \cup {t}
        /\ \A m \in EventLists \ {Pending} : Ev(w, m) = Ev(v, m)
        /\ Frame(w, v)
  BY <1>2, <1>4, <1>5, MakeReadyLater
<1> HIDE DEF w
<1>8. Sound(w) /\ Frame(w, v) /\ \A m \in EventLists \ {Pending} : Ev(w, m) = Ev(v, m)
  BY <1>6, <1>7
<1>9. /\ Dl(w) \subseteq Dl(kk) /\ Ov(w) \subseteq Ov(kk)
      /\ \A x \in Waiting(w) : w.wake[x] = kk.wake[x]
  <2>1. Waiting(kk) \subseteq All
    BY <1>1, KernelTypes, InToSet DEF Waiting, Dl, Ov
  <2>2. QED
    BY <1>6, <1>7, <2>1 DEF Waiting
<1>10. /\ w.tick = kk.tick /\ w.nextUnblock = kk.nextUnblock
       /\ w.yieldPending = kk.yieldPending /\ w.swi = kk.swi /\ Core(w, kk)
  BY <1>4, <1>8 DEF Frame, Settled, Stays, Core
<1>11. Timely(w) /\ \A x \in Waiting(w) : Dist(w, x) = Dist(kk, x)
  <2>1. \A x \in Dl(w) : w.nextUnblock <= w.wake[x]
    BY <1>9, <1>10 DEF Timely, Waiting
  <2>2. QED
    BY <1>9, <1>10, <2>1, FewerWaiting
<1>12. w \in KernelState /\ y \in BOOLEAN
  BY <1>8, KernelTypes DEF Sound
<1>13. y = (kk.yieldPending \/ kk.priority[t] > kk.priority[kk.current])
  BY <1>10
<1> HIDE DEF y
<1>14. /\ u \in KernelState /\ u.yieldPending = y
       /\ u.ready = w.ready /\ u.top = w.top /\ u.delayed = w.delayed
       /\ u.overflow = w.overflow /\ u.suspended = w.suspended
       /\ u.terminated = w.terminated /\ u.events = w.events
       /\ u.wake = w.wake /\ u.priority = w.priority
       /\ u.tick = w.tick /\ u.nextUnblock = w.nextUnblock
       /\ u.swi = w.swi /\ Core(u, w)
  BY <1>12 DEF KernelState, Core, Stays
<1> HIDE DEF u
<1>15. Become(u, w, Rd(w), Waiting(w), w.suspended, Gn(w), Ev(w, Pending))
  BY <1>8, <1>11, <1>14, OtherField
<1>16. \A m : Ev(u, m) = Ev(w, m)
  BY <1>14 DEF Ev
<1>17. Core(u, kk) /\ u.swi = kk.swi
  BY <1>10, <1>14 DEF Core, Stays
<1>18. /\ Ev(u, l) = Ev(kk, l) \ {t}
       /\ \A m \in EventLists \ {l, Pending} : Ev(u, m) = Ev(kk, m)
  <2>1. \A m \in EventLists \ {Pending} : Ev(u, m) = Ev(kk, m) \ {t}
    BY <1>4, <1>8, <1>16 DEF Events
  <2>2. \A m \in EventLists \ {l, Pending} : t \notin Ev(kk, m)
    BY <1>1, <1>2 DEF Events
  <2>3. QED
    BY <2>1, <2>2
<1>19. t \notin Ev(kk, Pending)
  BY <1>1, <1>2
<1>20. /\ Sound(u) /\ Timely(u) /\ Rd(u) = Rd(w) /\ Waiting(u) = Waiting(w)
       /\ u.suspended = w.suspended /\ Gn(u) = Gn(w) /\ Ev(u, Pending) = Ev(w, Pending)
       /\ \A x \in Waiting(u) : Dist(u, x) = Dist(kk, x)
  BY <1>11, <1>15 DEF Become
<1>21. kk.schedulerSuspended = 0 =>
         /\ Rd(u) = Rd(kk) \cup {t} /\ Waiting(u) = Waiting(kk) \ {t}
         /\ u.suspended = kk.suspended \ {t} /\ Gn(u) = Gn(kk) \ {t}
         /\ Ev(u, Pending) = Ev(kk, Pending)
  <2>1. Ev(v, Pending) = Ev(kk, Pending)
    <3>1. Ev(v, Pending) = Ev(kk, Pending) \ {t}
      BY <1>1, <1>4
    <3>2. QED
      BY <1>19, <3>1
  <2>2. kk.schedulerSuspended = 0 => Waiting(w) = Waiting(kk) \ {t}
    BY <1>6 DEF Waiting
  <2>3. QED
    BY <1>6, <1>20, <2>1, <2>2
<1>22. kk.schedulerSuspended # 0 =>
         /\ Rd(u) = Rd(kk) /\ Waiting(u) = Waiting(kk)
         /\ u.suspended = kk.suspended /\ Gn(u) = Gn(kk)
         /\ Ev(u, Pending) = Ev(kk, Pending) \cup {t}
  BY <1>1, <1>4, <1>7, <1>20 DEF Waiting
<1>23. Moved(u, kk, l, t)
  BY <1>2, <1>17, <1>18, <1>20, <1>21, <1>22 DEF Moved
<1>24. QED
  BY <1>3, <1>13, <1>14, <1>17, <1>23 DEF t

(* Whoever waits in l first is woken, if anybody does, and the processor   *)
(* yields to a higher priority.                                            *)
LEMMA WakeWaiterRight ==
  ASSUME NEW kk, Sound(kk), Timely(kk), NEW l \in EventLists, l # Pending
  PROVE  LET u == WakeWaiter(kk, l)
         IN  \/ u = kk /\ Ev(kk, l) = {}
             \/ \E t \in Ev(kk, l) :
                  /\ Moved(u, kk, l, t)
                  /\ u.swi = (kk.swi \/ kk.priority[t] > kk.priority[kk.current])
                  /\ u.yieldPending
                       = (kk.yieldPending \/ kk.priority[t] > kk.priority[kk.current])
<1>1. kk.events[l] \in Seq(All)
  BY KernelTypes DEF Sound, Events
<1>2. CASE kk.events[l] = << >>
  <2>1. Ev(kk, l) = {}
    BY <1>1, <1>2, InToSet DEF Ev
  <2>2. QED
    BY <1>2, <2>1 DEF WakeWaiter
<1>3. CASE kk.events[l] # << >>
  <2> DEFINE t == Head(kk.events[l])
             v == RemoveFromEventList(kk, l)
             y == kk.priority[t] > kk.priority[kk.current]
             u == YieldIf(v, y)
  <2>1. WakeWaiter(kk, l) = u
    BY <1>3 DEF WakeWaiter
  <2>2. /\ Moved(v, kk, l, t) /\ v.swi = kk.swi
        /\ v.yieldPending = (kk.yieldPending \/ kk.priority[t] > kk.priority[kk.current])
    BY <1>3, RemoveRight
  <2> HIDE DEF v, t
  <2>3. y \in BOOLEAN /\ Sound(v) /\ Timely(v)
    BY <2>2 DEF Moved
  <2>4. y = (kk.priority[t] > kk.priority[kk.current])
    OBVIOUS
  <2> HIDE DEF y
  <2>5. /\ Sound(u) /\ SameViews(u, v) /\ Settled(u, v)
        /\ u.yieldPending = v.yieldPending /\ u.tick = v.tick /\ u.overflows = v.overflows
        /\ u.nextUnblock = v.nextUnblock /\ u.pendedTicks = v.pendedTicks
        /\ u.swi = (v.swi \/ y)
    BY <2>3, YieldRight
  <2> HIDE DEF u
  <2>6. Timely(u) /\ Waiting(u) = Waiting(v) /\ \A x : Dist(u, x) = Dist(v, x)
    BY <2>3, <2>5, SameTimes
  <2>7. Core(u, kk)
    BY <2>2, <2>5 DEF Moved, Core, Stays, Settled
  <2>8. Moved(u, kk, l, t)
    BY <2>2, <2>5, <2>6, <2>7 DEF Moved, SameViews
  <2>9. t \in Ev(kk, l)
    BY <2>2 DEF Moved
  <2>10. QED
    BY <2>1, <2>2, <2>4, <2>5, <2>8, <2>9
<1>4. QED
  BY <1>2, <1>3

-----------------------------------------------------------------------------
(* What single fields are afterwards.                                      *)

(* What prvAddCurrentTaskToDelayedList leaves of the abort flags.          *)
LEMMA AddCurrentFields ==
  ASSUME NEW kk \in KernelState, NEW ticks, NEW canBlock
  PROVE  AddCurrentToDelayed(kk, ticks, canBlock).aborted
           = [kk.aborted EXCEPT ![kk.current] = FALSE]
BY KernelTypes DEF AddCurrentToDelayed, Unlink, KernelState

(* A new priority changes the value of the task's event item with it.      *)
LEMMA SetPriorityFields ==
  ASSUME NEW kk \in KernelState, NEW t \in All, NEW p
  PROVE  /\ SetPriority(kk, t, p).aborted = kk.aborted
         /\ SetPriority(kk, t, p).item = [kk.item EXCEPT ![t] = MaxPriorities - p]
BY KernelTypes DEF SetPriority, AddToReady, Unlink, KernelState

(* xTaskAbortDelay notes a task that waited for something.                 *)
LEMMA AbortWaitFields ==
  ASSUME NEW kk \in KernelState, NEW t \in All
  PROVE  /\ AbortWait(kk, t).item = kk.item
         /\ \A x \in All \ {t} : AbortWait(kk, t).aborted[x] = kk.aborted[x]
         /\ AbortWait(kk, t).yieldPending \in BOOLEAN
BY KernelTypes DEF AbortWait, AddToReady, Unwait, KernelState

(* A switch changes neither the values of event items nor the abort flags. *)
LEMMA SwitchFields ==
  ASSUME NEW kk \in KernelState
  PROVE  SwitchContext(kk).item = kk.item /\ SwitchContext(kk).aborted = kk.aborted
BY DEF SwitchContext, KernelState

(* A kernel that has just started.                                         *)
LEMMA StartedFields ==
  ASSUME NEW first, NEW priority
  PROVE  LET u == Started(first, priority)
         IN  /\ u.item = [t \in All |-> MaxPriorities - priority[t]]
             /\ u.aborted = [t \in All |-> FALSE] /\ u.yieldPending = FALSE
BY DEF Started, AddToReady

-----------------------------------------------------------------------------
(* What prvUnlockQueue wakes.                                              *)

(* A sequence without repeats has as many places as members.               *)
LEMMA CountMembers ==
  ASSUME NEW A, NEW s \in Seq(A), IsInjective(s)
  PROVE  IsFiniteSet(ToSet(s)) /\ Cardinality(ToSet(s)) = Len(s)
<1>1. Len(s) \in Nat /\ DOMAIN s = 1 .. Len(s) /\ s \in [1 .. Len(s) -> A]
  OBVIOUS
<1>2. /\ ToSet(s) = {s[i] : i \in 1 .. Len(s)}
      /\ \A t \in ToSet(s) : \E i \in 1 .. Len(s) : t = s[i]
      /\ \A i \in 1 .. Len(s) : s[i] \in ToSet(s)
  BY InToSet
<1>3. s \in [1 .. Len(s) -> ToSet(s)]
  BY <1>1, <1>2
<1>4. s \in Surjection(1 .. Len(s), ToSet(s)) /\ s \in Injection(1 .. Len(s), ToSet(s))
  BY <1>2, <1>3 DEF Surjection, Injection
<1>5. IsFiniteSet(1 .. Len(s)) /\ Cardinality(1 .. Len(s)) = Len(s)
  BY <1>1, FS_Interval
<1>6. QED
  BY <1>4, <1>5, FS_Surjection

(* What waking those of M, who wait in l, makes of the lists while the     *)
(* scheduler is suspended: they are put off.                               *)
Gathered(u, kk, l, M) ==
  /\ M \subseteq Ev(kk, l) /\ IsFiniteSet(M)
  /\ Sound(u) /\ Timely(u)
  /\ Rd(u) = Rd(kk) /\ Waiting(u) = Waiting(kk)
  /\ u.suspended = kk.suspended /\ Gn(u) = Gn(kk)
  /\ Ev(u, Pending) = Ev(kk, Pending) \cup M /\ Ev(u, l) = Ev(kk, l) \ M
  /\ \A m \in EventLists \ {l, Pending} : Ev(u, m) = Ev(kk, m)
  /\ \A x \in Waiting(kk) : Dist(u, x) = Dist(kk, x)
  /\ Core(u, kk) /\ u.swi = kk.swi /\ (kk.yieldPending => u.yieldPending)

(* One more is woken.                                                      *)
LEMMA GatherOne ==
  ASSUME NEW kk, NEW v, NEW l \in EventLists, l # Pending, NEW M, Gathered(v, kk, l, M),
         kk.schedulerSuspended # 0, v.events[l] # << >>
  PROVE  LET u == RemoveFromEventList(v, l)
             t == Head(v.events[l])
         IN  t \notin M /\ Gathered(u, kk, l, M \cup {t})
<1> DEFINE u == RemoveFromEventList(v, l)
           t == Head(v.events[l])
<1>1. /\ Moved(u, v, l, t) /\ u.swi = v.swi
      /\ u.yieldPending = (v.yieldPending \/ v.priority[t] > v.priority[v.current])
  BY RemoveRight DEF Gathered
<1> HIDE DEF u, t
<1>2. v.schedulerSuspended # 0
  BY DEF Gathered, Core, Stays
<1>3. t \notin M /\ t \in Ev(kk, l)
  BY <1>1 DEF Moved, Gathered
<1>4. IsFiniteSet(M \cup {t})
  BY FS_AddElement DEF Gathered
<1>5. Core(u, kk) /\ u.swi = kk.swi /\ (kk.yieldPending => u.yieldPending)
  BY <1>1 DEF Moved, Gathered, Core, Stays
<1>6. Gathered(u, kk, l, M \cup {t})
  BY <1>1, <1>2, <1>3, <1>4, <1>5 DEF Moved, Gathered
<1>7. QED
  BY <1>3, <1>6 DEF u, t

(* The i-th of those that prvUnlockQueue wakes.                            *)
WokenTo(kk, l, f, i) == IF i = 0 THEN kk ELSE RemoveFromEventList(f[i - 1], l)

(* They are woken one by one: there is a function that satisfies the       *)
(* recursion of WakeWaiters.                                               *)
LEMMA WakeDef ==
  ASSUME NEW kk, NEW l, Len(kk.events[l]) \in Nat, NEW m
  PROVE  LET n == Len(kk.events[l])
         IN  \E f : /\ f = [i \in 0 .. n |-> WokenTo(kk, l, f, i)]
                    /\ WakeWaiters(kk, l, m) = f[IF m < n THEN m ELSE n]
<1> DEFINE T == {n \in Nat : \E f : f = [i \in 0 .. n |-> WokenTo(kk, l, f, i)]}
<1>1. 0 \in T
  <2>1. [i \in 0 .. 0 |-> kk] = [i \in 0 .. 0 |-> WokenTo(kk, l, [j \in 0 .. 0 |-> kk], i)]
    BY DEF WokenTo
  <2>2. QED
    BY <2>1
<1>2. ASSUME NEW n \in Nat, n \in T PROVE n + 1 \in T
  <2>1. PICK f : f = [i \in 0 .. n |-> WokenTo(kk, l, f, i)]
    BY <1>2
  <2> DEFINE last == WokenTo(kk, l, f, n + 1)
  <2> HIDE DEF last
  <2> DEFINE g == [i \in 0 .. n + 1 |-> IF i = n + 1 THEN last ELSE f[i]]
  <2>2. \A i \in 0 .. n : g[i] = f[i]
    OBVIOUS
  <2>3. g[n + 1] = last
    OBVIOUS
  <2>4. \A i \in 0 .. n : WokenTo(kk, l, g, i) = WokenTo(kk, l, f, i)
    <3>1. TAKE i \in 0 .. n
    <3>2. i = 0 \/ (i # 0 /\ g[i - 1] = f[i - 1])
      BY <2>2
    <3> HIDE DEF g
    <3>3. QED
      BY <3>2, Zenon DEF WokenTo
  <2>5. WokenTo(kk, l, g, n + 1) = last
    <3>1. n + 1 # 0 /\ n + 1 - 1 = n /\ g[n] = f[n]
      BY <2>2
    <3> HIDE DEF g
    <3>2. QED
      BY <3>1 DEF last, WokenTo
  <2>6. DOMAIN g = 0 .. n + 1 /\ g = [i \in DOMAIN g |-> g[i]]
    OBVIOUS
  <2> HIDE DEF g
  <2>7. \A i \in 0 .. n + 1 : g[i] = WokenTo(kk, l, g, i)
    <3>1. TAKE i \in 0 .. n + 1
    <3>2. CASE i = n + 1
      BY <3>2, <2>3, <2>5
    <3>3. CASE i \in 0 .. n
      <4>1. f[i] = WokenTo(kk, l, f, i)
        BY <2>1, <3>3
      <4>2. QED
        BY <4>1, <3>3, <2>2, <2>4
    <3>4. QED
      BY <3>2, <3>3
  <2>8. g = [i \in 0 .. n + 1 |-> WokenTo(kk, l, g, i)]
    BY <2>6, <2>7
  <2>9. QED
    BY <2>8
<1>3. Nat \subseteq T
  BY <1>1, <1>2, Induct
<1> DEFINE n == Len(kk.events[l])
           Is(f) == f = [i \in 0 .. n |-> WokenTo(kk, l, f, i)]
           woken == CHOOSE f : Is(f)
<1>4. \E f : Is(f)
  BY <1>3
<1>5. Is(woken)
  BY <1>4
<1>6. WakeWaiters(kk, l, m) = woken[IF m < n THEN m ELSE n]
  BY DEF WakeWaiters, WokenTo
<1> HIDE DEF woken
<1>7. QED
  BY <1>5, <1>6

(* prvUnlockQueue puts off as many as it was told to, or all that wait.    *)
LEMMA WakeWaitersRight ==
  ASSUME NEW kk, Sound(kk), Timely(kk), NEW l \in EventLists, l # Pending,
         kk.schedulerSuspended # 0, NEW m \in Nat
  PROVE  LET u == WakeWaiters(kk, l, m)
         IN  \E M : Gathered(u, kk, l, M) /\ (Ev(u, l) # {} => Cardinality(M) = m)
<1> DEFINE s == kk.events[l]
           n == Len(s)
           last == IF m < n THEN m ELSE n
<1>1. /\ kk \in KernelState /\ l \in Events /\ s \in Seq(All) /\ IsInjective(s)
      /\ n \in Nat
  BY KernelTypes DEF Sound, Events
<1>2. IsFiniteSet(Ev(kk, l)) /\ Cardinality(Ev(kk, l)) = n
  BY <1>1, CountMembers DEF Ev
<1>3. PICK f : /\ f = [i \in 0 .. n |-> WokenTo(kk, l, f, i)]
               /\ WakeWaiters(kk, l, m) = f[last]
  BY <1>1, WakeDef
<1>4. last \in 0 .. n /\ last <= m /\ (last # n => last = m)
  BY <1>1
<1> HIDE DEF n, s, last
<1>5. \A i \in 0 .. n : f[i] = WokenTo(kk, l, f, i)
  BY <1>3
<1> DEFINE P(v, i) == \E M : Gathered(v, kk, l, M) /\ Cardinality(M) = i
           T == {i \in Nat : i <= n => P(f[i], i)}
<1>6. 0 \in T
  <2>1. 0 \in 0 .. n
    BY <1>1
  <2>2. f[0] = WokenTo(kk, l, f, 0)
    BY <2>1, <1>5
  <2>3. f[0] = kk
    BY <2>2 DEF WokenTo
  <2>4. Gathered(kk, kk, l, {}) /\ Cardinality({}) = 0
    BY FS_EmptySet DEF Gathered, Core, Stays
  <2>5. QED
    BY <2>3, <2>4
<1>7. ASSUME NEW i \in Nat, i \in T PROVE i + 1 \in T
  <2>1. SUFFICES ASSUME i + 1 <= n PROVE P(f[i + 1], i + 1)
    OBVIOUS
  <2>2. i <= n
    BY <1>1, <2>1
  <2>3. PICK M : Gathered(f[i], kk, l, M) /\ Cardinality(M) = i
    BY <1>7, <2>2
  <2>4. i + 1 \in 0 .. n /\ i + 1 # 0 /\ i + 1 - 1 = i
    BY <1>1, <2>1
  <2>5. f[i + 1] = WokenTo(kk, l, f, i + 1)
    BY <2>4, <1>5
  <2>6. f[i + 1] = RemoveFromEventList(f[i], l)
    BY <2>4, <2>5 DEF WokenTo
  <2>7. Ev(f[i], l) # {}
    <3>1. M \subseteq Ev(kk, l) /\ Ev(f[i], l) = Ev(kk, l) \ M
      BY <2>3 DEF Gathered
    <3>2. Ev(kk, l) # M
      BY <1>1, <1>2, <2>1, <2>3
    <3>3. QED
      BY <3>1, <3>2
  <2>8. f[i].events[l] # << >>
    <3>1. f[i].events[l] \in Seq(All)
      BY <2>3, <1>1, KernelTypes DEF Gathered, Sound
    <3>2. QED
      BY <2>7, <3>1, InToSet DEF Ev
  <2> DEFINE t == Head(f[i].events[l])
  <2>9. t \notin M /\ Gathered(RemoveFromEventList(f[i], l), kk, l, M \cup {t})
    BY <2>3, <2>8, GatherOne
  <2> HIDE DEF t
  <2>10. Cardinality(M \cup {t}) = i + 1
    BY <2>3, <2>9, FS_AddElement DEF Gathered
  <2>11. QED
    BY <2>6, <2>9, <2>10
<1>8. Nat \subseteq T
  BY <1>6, <1>7, Induct
<1>9. PICK M : Gathered(f[last], kk, l, M) /\ Cardinality(M) = last
  BY <1>1, <1>4, <1>8
<1>10. ASSUME Ev(f[last], l) # {} PROVE last # n
  <2>1. M \subseteq Ev(kk, l) /\ Ev(f[last], l) = Ev(kk, l) \ M
    BY <1>9 DEF Gathered
  <2>2. Cardinality(Ev(kk, l)) = Cardinality(M) => Ev(kk, l) = M
    BY <1>2, <2>1, FS_Subset
  <2>3. QED
    BY <1>2, <1>9, <1>10, <2>1, <2>2
<1>11. QED
  BY <1>3, <1>4, <1>9, <1>10

-----------------------------------------------------------------------------
(* Priorities, and the steps of tasks that wait, for all lists at once.    *)

(* The same tasks in the same lists, with the same ticks left.             *)
Unmoved(u, kk) ==
  /\ Sound(u) /\ Timely(u)
  /\ Rd(u) = Rd(kk) /\ Waiting(u) = Waiting(kk)
  /\ u.suspended = kk.suspended /\ Gn(u) = Gn(kk)
  /\ \A l \in Events : Ev(u, l) = Ev(kk, l)
  /\ \A t \in Waiting(kk) : Dist(u, t) = Dist(kk, t)

(* What only changes flags and counts moves nobody.                        *)
LEMMA FlagsUnmoved ==
  ASSUME NEW kk, Sound(kk), Timely(kk), NEW u \in KernelState,
         u.ready = kk.ready, u.top = kk.top, u.delayed = kk.delayed, u.overflow = kk.overflow,
         u.suspended = kk.suspended, u.terminated = kk.terminated, u.events = kk.events,
         u.wake = kk.wake, u.priority = kk.priority,
         u.tick = kk.tick, u.nextUnblock = kk.nextUnblock
  PROVE  Unmoved(u, kk)
<1>1. Become(u, kk, Rd(kk), Waiting(kk), kk.suspended, Gn(kk), Ev(kk, Pending))
  BY OtherField
<1>2. \A l : Ev(u, l) = Ev(kk, l)
  BY DEF Ev
<1>3. QED
  BY <1>1, <1>2 DEF Become, Unmoved

(* Nobody but t has another priority, and the value of its event item is   *)
(* that of the priority if it was.                                         *)
Ranked(u, kk, t) ==
  /\ Unmoved(u, kk)
  /\ u.current = kk.current /\ u.schedulerSuspended = kk.schedulerSuspended
  /\ u.base = kk.base /\ u.aborted = kk.aborted
  /\ u.swi = kk.swi /\ u.yieldPending = kk.yieldPending
  /\ u.tick = kk.tick /\ u.overflows = kk.overflows /\ u.pendedTicks = kk.pendedTicks
  /\ \A x \in All \ {t} : u.priority[x] = kk.priority[x] /\ u.item[x] = kk.item[x]
  /\ kk.item[t] = MaxPriorities - kk.priority[t] => u.item[t] = MaxPriorities - u.priority[t]

(* A new priority moves nobody from one kind of list to another.           *)
LEMMA SetPriorityRanks ==
  ASSUME NEW kk, Sound(kk), Timely(kk), NEW t \in All, NEW p \in Priority
  PROVE  LET u == SetPriority(kk, t, p)
         IN  Ranked(u, kk, t) /\ u.priority[t] = p
<1> DEFINE u == SetPriority(kk, t, p)
<1>1. kk \in KernelState /\ kk.priority \in [All -> Priority]
      /\ kk.item \in [All -> 0 .. MaxPriorities]
  BY KernelTypes DEF Sound
<1>2. /\ Sound(u)
      /\ Rd(u) = Rd(kk) /\ Dl(u) = Dl(kk) /\ Ov(u) = Ov(kk)
      /\ u.suspended = kk.suspended /\ Gn(u) = Gn(kk)
      /\ \A l : Ev(u, l) = Ev(kk, l)
      /\ \A x \in Waiting(kk) : u.wake[x] = kk.wake[x]
      /\ u.priority = [kk.priority EXCEPT ![t] = p]
      /\ u.current = kk.current /\ u.schedulerSuspended = kk.schedulerSuspended
      /\ u.base = kk.base /\ u.swi = kk.swi /\ u.yieldPending = kk.yieldPending
      /\ u.tick = kk.tick /\ u.overflows = kk.overflows
      /\ u.nextUnblock = kk.nextUnblock /\ u.pendedTicks = kk.pendedTicks
  BY SetPriorityRight
<1>3. u.aborted = kk.aborted /\ u.item = [kk.item EXCEPT ![t] = MaxPriorities - p]
  BY <1>1, SetPriorityFields
<1> HIDE DEF u
<1>4. Waiting(u) = Waiting(kk)
  BY <1>2 DEF Waiting
<1>5. \A x \in Dl(u) : u.nextUnblock <= u.wake[x]
  BY <1>2 DEF Timely, Waiting
<1>6. Timely(u) /\ \A x \in Waiting(u) : Dist(u, x) = Dist(kk, x)
  BY <1>2, <1>4, <1>5, FewerWaiting
<1>7. Unmoved(u, kk)
  BY <1>2, <1>4, <1>6 DEF Unmoved
<1>8. u.priority[t] = p /\ u.item[t] = MaxPriorities - p
  BY <1>1, <1>2, <1>3
<1>9. \A x \in All \ {t} : u.priority[x] = kk.priority[x] /\ u.item[x] = kk.item[x]
  BY <1>1, <1>2, <1>3
<1>10. QED
  BY <1>2, <1>3, <1>7, <1>8, <1>9 DEF Ranked, u

(* xTaskPriorityInherit never lowers a priority.                           *)
LEMMA InheritRanks ==
  ASSUME NEW kk, Sound(kk), Timely(kk), NEW h \in All
  PROVE  LET u == PriorityInherit(kk, h)
         IN  Ranked(u, kk, h) /\ u.priority[h] >= kk.priority[h]
<1>1. /\ kk \in KernelState /\ kk.priority \in [All -> Priority] /\ kk.current \in All
      /\ Priority \subseteq Int
  BY KernelTypes, KernelAssumption DEF Sound, Priority
<1>2. CASE kk.priority[h] < kk.priority[kk.current]
  <2>1. PriorityInherit(kk, h) = SetPriority(kk, h, kk.priority[kk.current])
    BY <1>2 DEF PriorityInherit
  <2>2. kk.priority[kk.current] \in Priority
    BY <1>1
  <2>3. LET u == SetPriority(kk, h, kk.priority[kk.current])
        IN  Ranked(u, kk, h) /\ u.priority[h] = kk.priority[kk.current]
    BY <2>2, SetPriorityRanks
  <2>4. kk.priority[kk.current] >= kk.priority[h]
    BY <1>1, <1>2
  <2>5. QED
    BY <2>1, <2>3, <2>4
<1>3. CASE ~ (kk.priority[h] < kk.priority[kk.current])
  <2>1. PriorityInherit(kk, h) = kk
    BY <1>3 DEF PriorityInherit
  <2>2. kk.priority[h] >= kk.priority[h]
    BY <1>1
  <2>3. QED
    BY <2>1, <2>2 DEF Ranked, Unmoved
<1>4. QED
  BY <1>2, <1>3

(* xTaskPriorityDisinherit gives the current task its own priority when it *)
(* goes on to hold no mutex.                                               *)
LEMMA DisinheritRanks ==
  ASSUME NEW kk, Sound(kk), Timely(kk), NEW n \in Int
  PROVE  LET u == PriorityDisinherit(kk, n)
             c == kk.current
         IN  /\ Ranked(u, kk, c)
             /\ u.priority[c] = IF n = 0 THEN kk.base[c] ELSE kk.priority[c]
<1>1. /\ kk \in KernelState /\ kk.base \in [All -> Priority] /\ kk.current \in All
  BY KernelTypes DEF Sound
<1>2. CASE Disinherits(kk, n)
  <2>1. PriorityDisinherit(kk, n) = SetPriority(kk, kk.current, kk.base[kk.current])
    BY <1>2 DEF PriorityDisinherit
  <2>2. QED
    BY <1>1, <1>2, <2>1, SetPriorityRanks DEF Disinherits
<1>3. CASE ~Disinherits(kk, n)
  <2>1. PriorityDisinherit(kk, n) = kk
    BY <1>3 DEF PriorityDisinherit
  <2>2. QED
    BY <1>1, <1>3, <2>1 DEF Ranked, Unmoved, Disinherits
<1>4. QED
  BY <1>2, <1>3

(* vTaskPriorityDisinheritAfterTimeout leaves the holder with a priority   *)
(* that is not below the one it was created with.                          *)
LEMMA LateRanks ==
  ASSUME NEW kk, Sound(kk), Timely(kk), NEW h \in All, NEW n, NEW w \in Priority,
         kk.priority[h] >= kk.base[h]
  PROVE  LET u == DisinheritAfterTimeout(kk, h, n, w)
         IN  Ranked(u, kk, h) /\ u.priority[h] >= kk.base[h]
<1> DEFINE p == IF kk.base[h] < w THEN w ELSE kk.base[h]
<1>1. /\ kk \in KernelState /\ kk.base \in [All -> Priority] /\ Priority \subseteq Int
  BY KernelTypes, KernelAssumption DEF Sound, Priority
<1>2. p \in Priority /\ p >= kk.base[h]
  <2>1. kk.base[h] \in Int /\ w \in Int /\ kk.base[h] \in Priority
    BY <1>1
  <2>2. QED
    BY <2>1
<1>3. DisinheritAfterTimeout(kk, h, n, w) =
        IF kk.priority[h] # p /\ n = 1 THEN SetPriority(kk, h, p) ELSE kk
  BY DEF DisinheritAfterTimeout
<1> HIDE DEF p
<1>4. CASE kk.priority[h] # p /\ n = 1
  <2>1. QED
    BY <1>2, <1>3, <1>4, SetPriorityRanks
<1>5. CASE ~ (kk.priority[h] # p /\ n = 1)
  <2>1. DisinheritAfterTimeout(kk, h, n, w) = kk
    BY <1>3, <1>5
  <2>2. QED
    BY <2>1 DEF Ranked, Unmoved
<1>6. QED
  BY <1>4, <1>5

(* What a task does that blocks: it leaves the ready lists, for the list   *)
(* of event l, if there is one, and for a delayed list or, without a       *)
(* time-out, for xSuspendedTaskList.                                       *)
Sleeps(u, kk, c, L, n, forever) ==
  /\ Sound(u) /\ Timely(u)
  /\ Rd(u) = Rd(kk) \ {c} /\ Gn(u) = Gn(kk) \ {c}
  /\ Waiting(u) = IF forever THEN Waiting(kk) \ {c} ELSE Waiting(kk) \cup {c}
  /\ u.suspended = IF forever THEN kk.suspended \cup {c} ELSE kk.suspended \ {c}
  /\ \A l \in Events : Ev(u, l) = IF l \in L THEN Ev(kk, l) \cup {c} ELSE Ev(kk, l)
  /\ \A t \in Waiting(u) : Dist(u, t) = IF t = c THEN n ELSE Dist(kk, t)
  /\ u.current = c /\ u.schedulerSuspended = kk.schedulerSuspended
  /\ u.priority = kk.priority /\ u.base = kk.base /\ u.item = kk.item
  /\ u.swi = kk.swi /\ u.yieldPending = kk.yieldPending
  /\ u.tick = kk.tick /\ u.overflows = kk.overflows
  /\ u.pendedTicks = kk.pendedTicks
  /\ u.aborted = [kk.aborted EXCEPT ![c] = FALSE]

(* vTaskPlaceOnEventList: the current task waits in l, for n ticks or, with*)
(* portMAX_DELAY, for ever.                                                *)
LEMMA PlaceRight ==
  ASSUME NEW kk, Sound(kk), Timely(kk), NEW l \in EventLists, NEW n \in 1 .. Ticks - 1,
         \A m \in Events : kk.current \notin Ev(kk, m)
  PROVE  Sleeps(PlaceOnEventList(kk, l, n), kk, kk.current, {l}, n, n = MaxDelay)
<1> DEFINE c == kk.current
           s == Insert(kk.events[l], c, kk.item)
           v == [kk EXCEPT !.events[l] = s]
           u == AddCurrentToDelayed(v, n, TRUE)
<1>1. /\ kk \in KernelState /\ l \in Events /\ c \in All /\ kk.events \in [Events -> Seq(All)]
      /\ kk.item \in [All -> Nat] /\ IsInjective(kk.events[l])
      /\ kk.aborted \in [All -> BOOLEAN]
  <2>1. kk \in KernelState /\ IsInjective(kk.events[l])
    BY DEF Sound, Events
  <2>2. kk.item \in [All -> 0 .. MaxPriorities] /\ 0 .. MaxPriorities \subseteq Nat
    BY <2>1, KernelTypes, KernelAssumption
  <2>3. QED
    BY <2>1, <2>2, KernelTypes DEF Events
<1>2. PlaceOnEventList(kk, l, n) = u
  BY DEF PlaceOnEventList
<1>3. c \notin Ev(kk, l)
  BY <1>1
<1>4. s \in Seq(All) /\ ToSet(s) = Ev(kk, l) \cup {c} /\ IsInjective(s)
  BY <1>1, <1>3, InsertRight DEF Ev
<1> HIDE DEF s
<1>5. /\ v \in KernelState /\ v.events = [kk.events EXCEPT ![l] = s]
      /\ v.ready = kk.ready /\ v.top = kk.top /\ v.delayed = kk.delayed
      /\ v.overflow = kk.overflow /\ v.suspended = kk.suspended
      /\ v.terminated = kk.terminated /\ v.wake = kk.wake /\ v.priority = kk.priority
      /\ v.tick = kk.tick /\ v.nextUnblock = kk.nextUnblock /\ v.current = kk.current
      /\ v.schedulerSuspended = kk.schedulerSuspended /\ v.base = kk.base /\ v.item = kk.item
      /\ v.swi = kk.swi /\ v.yieldPending = kk.yieldPending /\ v.overflows = kk.overflows
      /\ v.pendedTicks = kk.pendedTicks /\ v.aborted = kk.aborted
  BY <1>1, <1>4 DEF KernelState, Events
<1> HIDE DEF v
<1>6. /\ v.events[l] = s /\ \A m \in Events \ {l} : v.events[m] = kk.events[m]
  BY <1>1, <1>5
<1>7. /\ Ev(v, l) = Ev(kk, l) \cup {c} /\ \A m \in Events \ {l} : Ev(v, m) = Ev(kk, m)
  BY <1>4, <1>6 DEF Ev
<1>8. /\ Rd(v) = Rd(kk) /\ Dl(v) = Dl(kk) /\ Ov(v) = Ov(kk) /\ Gn(v) = Gn(kk)
  BY <1>5 DEF Rd, InReady, Dl, Ov, Gn
<1>9. Sound(v)
  <2>1. \A m \in Events : IsInjective(v.events[m])
    BY <1>4, <1>6 DEF Sound
  <2>2. ASSUME NEW a \in Events, NEW b \in Events, a # b PROVE Ev(v, a) \cap Ev(v, b) = {}
    <3>1. Ev(kk, a) \cap Ev(kk, b) = {} /\ c \notin Ev(kk, a) /\ c \notin Ev(kk, b)
      BY <2>2 DEF Sound
    <3>2. QED
      BY <3>1, <2>2, <1>7
  <2>3. Apart(v)
    BY <1>5, <1>8 DEF Sound, Apart
  <2>4. ReadyRight(v)
    BY <1>5 DEF Sound, ReadyRight
  <2>5. /\ \A p \in Priority : IsInjective(v.ready[p].items)
        /\ IsInjective(v.delayed) /\ IsInjective(v.overflow) /\ IsInjective(v.terminated)
        /\ Sorted(v.delayed, v.wake) /\ Sorted(v.overflow, v.wake)
    BY <1>5 DEF Sound
  <2>6. QED
    BY <1>5, <2>1, <2>2, <2>3, <2>4, <2>5 DEF Sound
<1>10. Timely(v) /\ Waiting(v) = Waiting(kk) /\ \A t : Dist(v, t) = Dist(kk, t)
  BY <1>5, <1>8 DEF Timely, Waiting, Dist
<1> DEFINE d == v.current
<1>11. LET x == AddCurrentToDelayed(v, n, TRUE)
           forever == n = MaxDelay /\ TRUE
       IN  /\ Sound(x) /\ Timely(x)
           /\ Rd(x) = Rd(v) \ {d} /\ Gn(x) = Gn(v) \ {d}
           /\ Waiting(x) = IF forever THEN Waiting(v) \ {d} ELSE Waiting(v) \cup {d}
           /\ x.suspended = IF forever THEN v.suspended \cup {d} ELSE v.suspended \ {d}
           /\ \A m : Ev(x, m) = Ev(v, m)
           /\ \A t \in Waiting(x) : Dist(x, t) = IF t = d THEN n ELSE Dist(v, t)
           /\ x.current = d /\ x.schedulerSuspended = v.schedulerSuspended
           /\ x.priority = v.priority /\ x.base = v.base /\ x.item = v.item
           /\ x.swi = v.swi /\ x.yieldPending = v.yieldPending
           /\ x.tick = v.tick /\ x.overflows = v.overflows /\ x.pendedTicks = v.pendedTicks
  BY <1>9, <1>10, AddCurrentToDelayedRight
<1>12. AddCurrentToDelayed(v, n, TRUE).aborted = [v.aborted EXCEPT ![d] = FALSE]
  <2>1. v \in KernelState
    BY <1>5
  <2>2. QED
    BY <2>1, AddCurrentFields, Zenon
<1>13. d = c
  BY <1>5
<1> HIDE DEF d
<1>14. /\ Sound(u) /\ Timely(u)
       /\ Rd(u) = Rd(v) \ {c} /\ Gn(u) = Gn(v) \ {c}
       /\ Waiting(u) = IF n = MaxDelay THEN Waiting(v) \ {c} ELSE Waiting(v) \cup {c}
       /\ u.suspended = IF n = MaxDelay THEN v.suspended \cup {c} ELSE v.suspended \ {c}
       /\ \A m : Ev(u, m) = Ev(v, m)
       /\ \A t \in Waiting(u) : Dist(u, t) = IF t = c THEN n ELSE Dist(v, t)
       /\ u.current = c /\ u.schedulerSuspended = v.schedulerSuspended
       /\ u.priority = v.priority /\ u.base = v.base /\ u.item = v.item
       /\ u.swi = v.swi /\ u.yieldPending = v.yieldPending
       /\ u.tick = v.tick /\ u.overflows = v.overflows /\ u.pendedTicks = v.pendedTicks
       /\ u.aborted = [v.aborted EXCEPT ![c] = FALSE]
  BY <1>11, <1>12, <1>13
<1> HIDE DEF u, c
<1>15. \A m \in Events : Ev(u, m) = IF m \in {l} THEN Ev(kk, m) \cup {c} ELSE Ev(kk, m)
  BY <1>7, <1>14
<1>16. \A t \in Waiting(u) : Dist(u, t) = IF t = c THEN n ELSE Dist(kk, t)
  BY <1>10, <1>14
<1>17. Sleeps(u, kk, c, {l}, n, n = MaxDelay)
  BY <1>5, <1>8, <1>10, <1>14, <1>15, <1>16 DEF Sleeps
<1>18. QED
  BY <1>2, <1>17 DEF c

(* The tick with the scheduler running, and all the lists of those who     *)
(* wait.                                                                   *)
LEMMA SysTickRight ==
  ASSUME NEW kk, Sound(kk), Timely(kk), kk.schedulerSuspended = 0
  PROVE  LET u == SysTick(kk)
             due == Within(kk, 1)
         IN  /\ Sound(u) /\ Timely(u)
             /\ Rd(u) = Rd(kk) \cup due /\ Waiting(u) = Waiting(kk) \ due
             /\ u.suspended = kk.suspended /\ Gn(u) = Gn(kk)
             /\ \A l \in Events : Ev(u, l) = Ev(kk, l) \ due
             /\ \A t \in Waiting(u) : Dist(u, t) = Dist(kk, t) - 1
             /\ u.current = kk.current /\ u.schedulerSuspended = 0
             /\ u.pendedTicks = kk.pendedTicks /\ Later(u, kk, 1)
             /\ u.priority = kk.priority /\ u.base = kk.base
             /\ u.item = kk.item /\ u.aborted = kk.aborted
             /\ u.yieldPending = kk.yieldPending /\ u.swi \in BOOLEAN
             /\ (\/ kk.swi
                 \/ \E t \in due : kk.priority[t] >= kk.priority[kk.current]) => u.swi
<1> DEFINE v == IncrementTick(kk)[1]
           y == IncrementTick(kk)[2]
           u == YieldIf(v, y)
           due == Within(kk, 1)
<1>1. SysTick(kk) = u
  BY DEF SysTick
<1>2. /\ Sound(v) /\ Timely(v)
      /\ Rd(v) = Rd(kk) \cup due /\ Waiting(v) = Waiting(kk) \ due
      /\ v.suspended = kk.suspended /\ Gn(v) = Gn(kk)
      /\ \A l \in Events : Ev(v, l) = Ev(kk, l) \ due
      /\ \A t \in Waiting(v) : Dist(v, t) = Dist(kk, t) - 1
      /\ Settled(v, kk) /\ v.swi = kk.swi /\ v.yieldPending = kk.yieldPending
      /\ v.pendedTicks = kk.pendedTicks /\ Later(v, kk, 1)
      /\ y \in BOOLEAN
      /\ (\/ kk.yieldPending
          \/ \E t \in due : kk.priority[t] >= kk.priority[kk.current]) => y
  BY IncrementTickRight
<1> HIDE DEF v, y
<1>3. /\ Sound(u) /\ SameViews(u, v) /\ Settled(u, v)
      /\ u.yieldPending = v.yieldPending /\ u.tick = v.tick /\ u.overflows = v.overflows
      /\ u.nextUnblock = v.nextUnblock /\ u.pendedTicks = v.pendedTicks
      /\ u.swi = (v.swi \/ y)
  BY <1>2, YieldRight
<1>4. v.swi \in BOOLEAN
  BY <1>2, KernelTypes DEF Sound
<1> HIDE DEF u, due
<1>5. Timely(u) /\ Waiting(u) = Waiting(v) /\ \A t : Dist(u, t) = Dist(v, t)
  BY <1>2, <1>3, SameTimes
<1>6. /\ u.current = kk.current /\ u.schedulerSuspended = 0
      /\ u.priority = kk.priority /\ u.base = kk.base
      /\ u.item = kk.item /\ u.aborted = kk.aborted
  BY <1>2, <1>3 DEF Settled
<1>7. Later(u, kk, 1)
  BY <1>2, <1>3 DEF Later
<1>8. QED
  BY <1>1, <1>2, <1>3, <1>4, <1>5, <1>6, <1>7 DEF SameViews, due

(* vTaskAbortDelay's second half makes the task ready, and it waits for    *)
(* nothing.                                                                *)
LEMMA AbortRight ==
  ASSUME NEW kk, Sound(kk), Timely(kk), NEW t \in All \ Listed(kk)
  PROVE  LET u == AbortWait(kk, t)
         IN  /\ Sound(u) /\ Timely(u)
             /\ Rd(u) = Rd(kk) \cup {t} /\ Waiting(u) = Waiting(kk)
             /\ u.suspended = kk.suspended /\ Gn(u) = Gn(kk)
             /\ \A l \in Events : Ev(u, l) = Ev(kk, l) \ {t}
             /\ \A x \in Waiting(kk) : Dist(u, x) = Dist(kk, x)
             /\ u.current = kk.current /\ u.schedulerSuspended = kk.schedulerSuspended
             /\ u.priority = kk.priority /\ u.base = kk.base
             /\ u.tick = kk.tick /\ u.overflows = kk.overflows /\ u.swi = kk.swi
             /\ u.pendedTicks = kk.pendedTicks /\ u.item = kk.item
             /\ \A x \in All \ {t} : u.aborted[x] = kk.aborted[x]
             /\ u.yieldPending = (kk.yieldPending \/ kk.priority[t] > kk.priority[kk.current])
<1> DEFINE u == AbortWait(kk, t)
<1>1. kk \in KernelState
  BY DEF Sound
<1>2. /\ Sound(u)
      /\ Rd(u) = Rd(kk) \cup {t} /\ Dl(u) = Dl(kk) /\ Ov(u) = Ov(kk)
      /\ u.suspended = kk.suspended /\ Gn(u) = Gn(kk) /\ u.wake = kk.wake
      /\ \A l \in Events : Ev(u, l) = Ev(kk, l) \ {t}
      /\ u.current = kk.current /\ u.schedulerSuspended = kk.schedulerSuspended
      /\ u.priority = kk.priority /\ u.base = kk.base
      /\ u.tick = kk.tick /\ u.overflows = kk.overflows /\ u.swi = kk.swi
      /\ u.nextUnblock = kk.nextUnblock /\ u.pendedTicks = kk.pendedTicks
      /\ u.yieldPending = (kk.yieldPending \/ kk.priority[t] > kk.priority[kk.current])
  BY AbortWaitRight
<1>3. u.item = kk.item /\ \A x \in All \ {t} : u.aborted[x] = kk.aborted[x]
  BY <1>1, AbortWaitFields
<1> HIDE DEF u
<1>4. Timely(u) /\ Waiting(u) = Waiting(kk) /\ \A x : Dist(u, x) = Dist(kk, x)
  BY <1>2 DEF Timely, Waiting, Dist
<1>5. QED
  BY <1>2, <1>3, <1>4 DEF u

-----------------------------------------------------------------------------
(* What an operation does for those who use it, in one statement for each. *)

(* A kernel between two steps of its users, who move the tasks of H from   *)
(* list to list themselves: all the others are in one of the lists, nobody *)
(* is being deleted, and the values of the event items are those of the    *)
(* priorities.                                                             *)
Proper(kk, H) ==
  /\ Sound(kk) /\ Timely(kk) /\ Gn(kk) = {}
  /\ kk.schedulerSuspended = 0 => kk.pendedTicks = 0 /\ Ev(kk, Pending) = {}
  /\ Idle \in Rd(kk)
  /\ All \ Listed(kk) = H
  /\ \A l \in Events : Ev(kk, l) \subseteq Waiting(kk) \cup kk.suspended \cup H
  /\ \A t \in All : kk.item[t] = MaxPriorities - kk.priority[t]
  /\ \A t \in All : kk.priority[t] >= kk.base[t]

(* A switch is on its way, or will be once the scheduler goes on.          *)
Hot(kk) == kk.swi \/ (kk.schedulerSuspended # 0 /\ kk.yieldPending)

(* From kk to u the tasks of R became ready and those of X were taken out  *)
(* of their event lists, the clock went on by n ticks, e ticks came, and   *)
(* nothing else changed but flags and priorities.                          *)
Frees(u, kk, R, X, n, e) ==
  /\ Sound(u) /\ Timely(u) /\ Gn(u) = {}
  /\ u.schedulerSuspended = 0 => u.pendedTicks = 0 /\ Ev(u, Pending) = {}
  /\ R \subseteq X /\ X \subseteq Waiting(kk) \cup kk.suspended \cup (All \ Listed(kk))
  /\ Rd(u) = Rd(kk) \cup R /\ Waiting(u) = Waiting(kk) \ R /\ u.suspended = kk.suspended \ R
  /\ \A l \in EventLists : Ev(u, l) = Ev(kk, l) \ X
  /\ Ev(u, Pending) \subseteq (Ev(kk, Pending) \cup X) \ R
  /\ \A t \in Waiting(u) : Dist(u, t) = Dist(kk, t) - n
  /\ n \in Nat /\ e \in Nat
  /\ u.pendedTicks = kk.pendedTicks + e - n /\ (n < Ticks => Later(u, kk, n))
  /\ u.current = kk.current /\ u.base = kk.base
  /\ \A t \in All : u.item[t] = MaxPriorities - u.priority[t]
  /\ \A t \in All : u.priority[t] >= u.base[t]
  /\ ~Hot(u) => ~Hot(kk) /\ \A t \in R : u.priority[t] <= u.priority[u.current]

(* What such a step leaves proper.                                         *)
LEMMA FreesProper ==
  ASSUME NEW kk, NEW H, Proper(kk, H), NEW u, NEW R, NEW X, NEW n, NEW e,
         Frees(u, kk, R, X, n, e)
  PROVE  Proper(u, H \ R)
<1>1. /\ Sound(u) /\ Timely(u) /\ Gn(u) = {}
      /\ u.schedulerSuspended = 0 => u.pendedTicks = 0 /\ Ev(u, Pending) = {}
      /\ Rd(u) = Rd(kk) \cup R /\ Waiting(u) = Waiting(kk) \ R
      /\ u.suspended = kk.suspended \ R
      /\ R \subseteq X /\ X \subseteq Waiting(kk) \cup kk.suspended \cup H
      /\ \A t \in All : u.item[t] = MaxPriorities - u.priority[t]
      /\ \A t \in All : u.priority[t] >= u.base[t]
  BY DEF Frees, Proper
<1>2. Gn(kk) = {} /\ Idle \in Rd(kk) /\ All \ Listed(kk) = H
  BY DEF Proper
<1>3. All \ Listed(u) = H \ R
  BY <1>1, <1>2 DEF Listed, Waiting
<1>4. ASSUME NEW l \in Events PROVE Ev(u, l) \subseteq Waiting(u) \cup u.suspended \cup (H \ R)
  <2>1. Ev(kk, l) \subseteq Waiting(kk) \cup kk.suspended \cup H
    BY DEF Proper
  <2>2. Ev(u, l) \subseteq (Ev(kk, l) \cup X) \ R
    <3>1. CASE l \in EventLists
      BY <1>1, <3>1 DEF Frees
    <3>2. CASE l = Pending
      BY <3>2 DEF Frees
    <3>3. QED
      BY <3>1, <3>2 DEF Events
  <2>3. QED
    BY <1>1, <2>1, <2>2
<1>5. QED
  BY <1>1, <1>2, <1>3, <1>4 DEF Proper

(* One step of this kind after another.                                    *)
LEMMA FreesTwice ==
  ASSUME NEW kk, Gn(kk) = {}, NEW v, NEW S, NEW Y, NEW d, Frees(v, kk, S, Y, 0, d),
         kk \in KernelState,
         NEW u, NEW R, NEW X, NEW n, NEW e, Frees(u, v, R, X, n, e), u.priority = v.priority
  PROVE  Frees(u, kk, S \cup R, Y \cup X, n, d + e)
<1>1. /\ Sound(u) /\ Timely(u) /\ Gn(u) = {} /\ Gn(v) = {}
      /\ u.schedulerSuspended = 0 => u.pendedTicks = 0 /\ Ev(u, Pending) = {}
      /\ n \in Nat /\ e \in Nat /\ d \in Nat
      /\ u.current = kk.current /\ v.current = kk.current /\ u.base = kk.base
      /\ \A t \in All : u.item[t] = MaxPriorities - u.priority[t]
      /\ \A t \in All : u.priority[t] >= u.base[t]
  BY DEF Frees
<1>2. /\ Rd(v) = Rd(kk) \cup S /\ Waiting(v) = Waiting(kk) \ S
      /\ v.suspended = kk.suspended \ S /\ S \subseteq Y
      /\ Y \subseteq Waiting(kk) \cup kk.suspended \cup (All \ Listed(kk))
      /\ Rd(u) = Rd(v) \cup R /\ Waiting(u) = Waiting(v) \ R
      /\ u.suspended = v.suspended \ R /\ R \subseteq X
      /\ X \subseteq Waiting(v) \cup v.suspended \cup (All \ Listed(v))
  BY DEF Frees
<1>3. /\ Rd(u) = Rd(kk) \cup (S \cup R) /\ Waiting(u) = Waiting(kk) \ (S \cup R)
      /\ u.suspended = kk.suspended \ (S \cup R) /\ S \cup R \subseteq Y \cup X
  BY <1>2
<1>4. Y \cup X \subseteq Waiting(kk) \cup kk.suspended \cup (All \ Listed(kk))
  <2>1. Listed(kk) \subseteq Listed(v)
    BY <1>2 DEF Listed, Waiting
  <2>2. QED
    BY <1>2, <2>1
<1>5. \A l \in EventLists : Ev(u, l) = Ev(kk, l) \ (Y \cup X)
  BY DEF Frees
<1>6. Ev(u, Pending) \subseteq (Ev(kk, Pending) \cup (Y \cup X)) \ (S \cup R)
  <2>1. /\ Ev(u, Pending) \subseteq (Ev(v, Pending) \cup X) \ R
        /\ Ev(v, Pending) \subseteq (Ev(kk, Pending) \cup Y) \ S
    BY DEF Frees
  <2>2. S \cap X = {}
    <3>1. Apart(v)
      BY DEF Frees, Sound
    <3>2. QED
      BY <1>2, <3>1 DEF Apart, Listed, Waiting
  <2>3. QED
    BY <2>1, <2>2
<1>7. u \in KernelState /\ v \in KernelState
  BY DEF Frees, Sound
<1>8. /\ kk.tick \in 0 .. Ticks - 1 /\ v.tick \in 0 .. Ticks - 1 /\ u.tick \in 0 .. Ticks - 1
      /\ kk.pendedTicks \in Nat /\ v.pendedTicks \in Nat /\ Ticks \in Nat \ {0}
  BY <1>7, KernelTypes, KernelAssumption
<1>9. v.tick = kk.tick /\ v.overflows = kk.overflows
  <2>1. 0 < Ticks => Later(v, kk, 0)
    BY DEF Frees
  <2>2. QED
    BY <1>8, <2>1 DEF Later
<1>10. n < Ticks => Later(u, kk, n)
  BY <1>9 DEF Frees, Later
<1>11. u.pendedTicks = kk.pendedTicks + (d + e) - n /\ d + e \in Nat
  <2>1. u.pendedTicks = v.pendedTicks + e - n /\ v.pendedTicks = kk.pendedTicks + d - 0
    BY DEF Frees
  <2>2. QED
    BY <1>1, <1>8, <2>1
<1>12. \A t \in Waiting(u) : Dist(u, t) = Dist(kk, t) - n
  <2>1. ASSUME NEW t \in Waiting(u) PROVE Dist(u, t) = Dist(kk, t) - n
    <3>1. t \in Waiting(v) /\ t \in Waiting(kk)
      BY <1>2
    <3>2. Dist(u, t) = Dist(v, t) - n /\ Dist(v, t) = Dist(kk, t) - 0
      BY <3>1 DEF Frees
    <3>3. kk.wake \in [All -> 0 .. Ticks - 1] /\ t \in All
      <4>1. u \in KernelState /\ Waiting(u) \subseteq All
        BY <1>7, KernelTypes, InToSet DEF Waiting, Dl, Ov
      <4>2. QED
        BY <4>1, KernelTypes
    <3>4. Dist(kk, t) \in Int
      BY <1>8, <3>3 DEF Dist
    <3>5. QED
      BY <1>1, <3>2, <3>4
  <2>2. QED
    BY <2>1
<1>13. ~Hot(u) => ~Hot(kk) /\ \A t \in S \cup R : u.priority[t] <= u.priority[u.current]
  BY <1>1 DEF Frees
<1>14. QED
  BY <1>1, <1>3, <1>4, <1>5, <1>6, <1>10, <1>11, <1>12, <1>13 DEF Frees

(* Changed flags and counts.                                               *)
LEMMA FlagsFree ==
  ASSUME NEW kk, NEW H, Proper(kk, H), NEW u \in KernelState,
         u.ready = kk.ready, u.top = kk.top, u.delayed = kk.delayed, u.overflow = kk.overflow,
         u.suspended = kk.suspended, u.terminated = kk.terminated, u.events = kk.events,
         u.wake = kk.wake, u.priority = kk.priority, u.base = kk.base, u.item = kk.item,
         u.tick = kk.tick, u.overflows = kk.overflows, u.nextUnblock = kk.nextUnblock,
         u.current = kk.current, NEW e \in Nat, u.pendedTicks = kk.pendedTicks + e,
         u.schedulerSuspended = 0 => u.pendedTicks = 0 /\ Ev(u, Pending) = {},
         ~Hot(u) => ~Hot(kk)
  PROVE  Frees(u, kk, {}, {}, 0, e)
<1>1. Unmoved(u, kk)
  BY FlagsUnmoved DEF Proper
<1>2. kk \in KernelState /\ kk.pendedTicks \in Nat /\ kk.tick \in Nat
  BY KernelTypes, KernelAssumption DEF Proper, Sound
<1>3. Pending \in Events /\ EventLists \subseteq Events
  BY DEF Events
<1>4. \A t \in Waiting(u) : Dist(u, t) = Dist(kk, t) - 0
  <2>1. ASSUME NEW t \in Waiting(u) PROVE Dist(u, t) = Dist(kk, t) - 0
    <3>1. t \in Waiting(kk) /\ Dist(u, t) = Dist(kk, t)
      BY <1>1 DEF Unmoved
    <3>2. Dist(kk, t) \in 1 .. Ticks - 1
      BY <3>1, DistRight DEF Proper
    <3>3. QED
      BY <3>1, <3>2
  <2>2. QED
    BY <2>1
<1>5. Later(u, kk, 0)
  BY <1>2 DEF Later
<1>6. QED
  BY <1>1, <1>2, <1>3, <1>4, <1>5 DEF Frees, Unmoved, Proper

(* The highest priority of a waiting task that was woken, or nobody.       *)
LEMMA WakerFrees ==
  ASSUME NEW kk, NEW H, Proper(kk, H), NEW l \in EventLists, Pending \notin EventLists
  PROVE  LET u == WakeWaiter(kk, l)
         IN  \E X : /\ Frees(u, kk, IF kk.schedulerSuspended = 0 THEN X ELSE {}, X, 0, 0)
                    /\ X \subseteq Ev(kk, l) /\ (Ev(kk, l) # {} => \E x : X = {x})
                    /\ u.schedulerSuspended = kk.schedulerSuspended
                    /\ u.priority = kk.priority /\ u.aborted = kk.aborted
<1> DEFINE u == WakeWaiter(kk, l)
<1>1. Sound(kk) /\ Timely(kk) /\ l # Pending /\ Gn(kk) = {} /\ kk \in KernelState
  BY DEF Proper, Sound
<1>2. \/ u = kk /\ Ev(kk, l) = {}
      \/ \E t \in Ev(kk, l) :
           /\ Moved(u, kk, l, t)
           /\ u.swi = (kk.swi \/ kk.priority[t] > kk.priority[kk.current])
           /\ u.yieldPending = (kk.yieldPending \/ kk.priority[t] > kk.priority[kk.current])
  BY <1>1, WakeWaiterRight
<1> HIDE DEF u
<1>3. CASE u = kk /\ Ev(kk, l) = {}
  <2>1. kk.pendedTicks = kk.pendedTicks + 0
    BY <1>1, KernelTypes
  <2>2. Frees(kk, kk, {}, {}, 0, 0)
    BY <1>1, <2>1, FlagsFree DEF Proper
  <2>3. Frees(u, kk, IF kk.schedulerSuspended = 0 THEN {} ELSE {}, {}, 0, 0)
    BY <1>3, <2>2
  <2>4. QED
    BY <1>3, <2>3 DEF u
<1>4. ASSUME NEW t \in Ev(kk, l), Moved(u, kk, l, t),
             u.swi = (kk.swi \/ kk.priority[t] > kk.priority[kk.current]),
             u.yieldPending = (kk.yieldPending \/ kk.priority[t] > kk.priority[kk.current])
      PROVE  /\ Frees(u, kk, IF kk.schedulerSuspended = 0 THEN {t} ELSE {}, {t}, 0, 0)
             /\ u.schedulerSuspended = kk.schedulerSuspended
             /\ u.priority = kk.priority /\ u.aborted = kk.aborted
  <2> DEFINE R == IF kk.schedulerSuspended = 0 THEN {t} ELSE {}
  <2>1. /\ u.schedulerSuspended = kk.schedulerSuspended /\ u.pendedTicks = kk.pendedTicks
        /\ u.priority = kk.priority /\ u.base = kk.base /\ u.current = kk.current
        /\ u.tick = kk.tick /\ u.item = kk.item /\ u.aborted = kk.aborted
        /\ u.overflows = kk.overflows /\ Sound(u) /\ Timely(u)
    BY <1>4 DEF Moved, Core, Stays
  <2>2. \A m \in EventLists : t \in Ev(kk, m) => m = l
    BY <1>1 DEF Sound, Events
  <2>3. t \notin Ev(kk, Pending)
    BY <1>1 DEF Sound, Events
  <2>4. \A m \in EventLists : Ev(u, m) = Ev(kk, m) \ {t}
    <3>1. ASSUME NEW m \in EventLists, m # l PROVE Ev(u, m) = Ev(kk, m) \ {t}
      <4>1. Ev(u, m) = Ev(kk, m)
        BY <3>1, <1>4 DEF Moved
      <4>2. QED
        BY <2>2, <3>1, <4>1
    <3>2. Ev(u, l) = Ev(kk, l) \ {t}
      BY <1>4 DEF Moved
    <3>3. QED
      BY <3>1, <3>2
  <2>5. t \in Waiting(kk) \cup kk.suspended \cup (All \ Listed(kk))
    BY DEF Proper, Events
  <2>6. /\ Rd(u) = Rd(kk) \cup R /\ Waiting(u) = Waiting(kk) \ R
        /\ u.suspended = kk.suspended \ R /\ Gn(u) = {}
        /\ Ev(u, Pending) \subseteq (Ev(kk, Pending) \cup {t}) \ R
        /\ kk.schedulerSuspended = 0 => Ev(u, Pending) = Ev(kk, Pending)
    BY <1>1, <1>4, <2>3 DEF Moved
  <2>7. \A x \in Waiting(u) : Dist(u, x) = Dist(kk, x) - 0
    <3>1. ASSUME NEW x \in Waiting(u) PROVE Dist(u, x) = Dist(kk, x) - 0
      <4>1. x \in Waiting(kk) /\ Dist(u, x) = Dist(kk, x)
        BY <1>4, <2>6 DEF Moved
      <4>2. Dist(kk, x) \in 1 .. Ticks - 1
        BY <1>1, <4>1, DistRight
      <4>3. QED
        BY <4>1, <4>2
    <3>2. QED
      BY <3>1
  <2>8. kk.pendedTicks \in Nat /\ kk.tick \in Nat
    BY <1>1, KernelTypes, KernelAssumption
  <2>9. u.pendedTicks = kk.pendedTicks + 0 - 0 /\ Later(u, kk, 0)
    BY <2>1, <2>8 DEF Later
  <2>10. ~Hot(u) => ~Hot(kk) /\ \A x \in R : u.priority[x] <= u.priority[u.current]
    <3>1. kk.priority[t] \in Int /\ kk.priority[kk.current] \in Int
      <4>1. t \in All
        BY <1>4 DEF Moved
      <4>2. QED
        BY <1>1, <4>1, KernelTypes, KernelAssumption DEF Priority
    <3>2. ~u.swi => ~kk.swi /\ ~(kk.priority[t] > kk.priority[kk.current])
      BY <1>4
    <3>3. ~u.yieldPending => ~kk.yieldPending
      BY <1>4
    <3>4. ~Hot(u) => ~Hot(kk) /\ ~(kk.priority[t] > kk.priority[kk.current])
      BY <2>1, <3>2, <3>3 DEF Hot
    <3>5. ~(kk.priority[t] > kk.priority[kk.current])
            => kk.priority[t] <= kk.priority[kk.current]
      BY <3>1
    <3>6. QED
      BY <2>1, <3>4, <3>5
  <2>11. u.schedulerSuspended = 0 => u.pendedTicks = 0 /\ Ev(u, Pending) = {}
    BY <2>1, <2>6 DEF Proper
  <2>12. R \subseteq {t}
    OBVIOUS
  <2>13. /\ \A x \in All : u.item[x] = MaxPriorities - u.priority[x]
         /\ \A x \in All : u.priority[x] >= u.base[x]
    BY <2>1 DEF Proper
  <2> HIDE DEF R
  <2>14. Frees(u, kk, R, {t}, 0, 0)
    BY <2>1, <2>4, <2>5, <2>6, <2>7, <2>9, <2>10, <2>11, <2>12, <2>13 DEF Frees
  <2>15. QED
    BY <2>1, <2>14 DEF R
<1>5. CASE \E t \in Ev(kk, l) :
           /\ Moved(u, kk, l, t)
           /\ u.swi = (kk.swi \/ kk.priority[t] > kk.priority[kk.current])
           /\ u.yieldPending = (kk.yieldPending \/ kk.priority[t] > kk.priority[kk.current])
  <2>1. PICK t \in Ev(kk, l) :
           /\ Moved(u, kk, l, t)
           /\ u.swi = (kk.swi \/ kk.priority[t] > kk.priority[kk.current])
           /\ u.yieldPending = (kk.yieldPending \/ kk.priority[t] > kk.priority[kk.current])
    BY <1>5
  <2>2. /\ Frees(u, kk, IF kk.schedulerSuspended = 0 THEN {t} ELSE {}, {t}, 0, 0)
        /\ u.schedulerSuspended = kk.schedulerSuspended
        /\ u.priority = kk.priority /\ u.aborted = kk.aborted
    BY <1>4, <2>1
  <2>3. QED
    BY <2>2 DEF u
<1>6. QED
  BY <1>2, <1>3, <1>5

(* Those that prvUnlockQueue wakes.                                        *)
LEMMA WakersFree ==
  ASSUME NEW kk, NEW H, Proper(kk, H), NEW l \in EventLists, Pending \notin EventLists,
         kk.schedulerSuspended # 0, NEW m \in Nat
  PROVE  LET u == WakeWaiters(kk, l, m)
         IN  \E X : /\ Frees(u, kk, {}, X, 0, 0)
                    /\ X \subseteq Ev(kk, l) /\ IsFiniteSet(X)
                    /\ (Ev(kk, l) \ X # {} => Cardinality(X) = m)
                    /\ u.schedulerSuspended = kk.schedulerSuspended
                    /\ u.priority = kk.priority /\ u.aborted = kk.aborted
<1> DEFINE u == WakeWaiters(kk, l, m)
<1>1. Sound(kk) /\ Timely(kk) /\ l # Pending /\ Gn(kk) = {} /\ kk \in KernelState
  BY DEF Proper, Sound
<1>2. \E X : Gathered(u, kk, l, X) /\ (Ev(u, l) # {} => Cardinality(X) = m)
  BY <1>1, WakeWaitersRight
<1> HIDE DEF u
<1>3. PICK X : Gathered(u, kk, l, X) /\ (Ev(u, l) # {} => Cardinality(X) = m)
  BY <1>2
<1>4. /\ u.schedulerSuspended = kk.schedulerSuspended /\ u.pendedTicks = kk.pendedTicks
      /\ u.priority = kk.priority /\ u.base = kk.base /\ u.current = kk.current
      /\ u.tick = kk.tick /\ u.item = kk.item /\ u.aborted = kk.aborted
      /\ u.overflows = kk.overflows /\ Sound(u) /\ Timely(u)
  BY <1>3 DEF Gathered, Core, Stays
<1>5. X \subseteq Ev(kk, l) /\ IsFiniteSet(X) /\ Ev(u, l) = Ev(kk, l) \ X
  BY <1>3 DEF Gathered
<1>6. \A n \in EventLists : Ev(u, n) = Ev(kk, n) \ X
  <2>1. ASSUME NEW n \in EventLists, n # l PROVE Ev(u, n) = Ev(kk, n) \ X
    <3>1. Ev(u, n) = Ev(kk, n)
      BY <2>1, <1>3 DEF Gathered
    <3>2. Ev(kk, n) \cap Ev(kk, l) = {}
      BY <1>1, <2>1 DEF Sound, Events
    <3>3. QED
      BY <3>1, <3>2, <1>5
  <2>2. QED
    BY <1>5, <2>1
<1>7. X \subseteq Waiting(kk) \cup kk.suspended \cup (All \ Listed(kk))
  BY <1>5 DEF Proper, Events
<1>8. /\ Rd(u) = Rd(kk) \cup {} /\ Waiting(u) = Waiting(kk) \ {}
      /\ u.suspended = kk.suspended \ {} /\ Gn(u) = {}
      /\ Ev(u, Pending) \subseteq (Ev(kk, Pending) \cup X) \ {}
      /\ \A t \in Waiting(kk) : Dist(u, t) = Dist(kk, t)
      /\ u.swi = kk.swi /\ (kk.yieldPending => u.yieldPending)
  BY <1>1, <1>3 DEF Gathered
<1>9. \A t \in Waiting(u) : Dist(u, t) = Dist(kk, t) - 0
  <2>1. ASSUME NEW t \in Waiting(u) PROVE Dist(u, t) = Dist(kk, t) - 0
    <3>1. t \in Waiting(kk) /\ Dist(u, t) = Dist(kk, t)
      BY <1>8
    <3>2. Dist(kk, t) \in 1 .. Ticks - 1
      BY <1>1, <3>1, DistRight
    <3>3. QED
      BY <3>1, <3>2
  <2>2. QED
    BY <2>1
<1>10. kk.pendedTicks \in Nat /\ kk.tick \in Nat
  BY <1>1, KernelTypes, KernelAssumption
<1>11. u.pendedTicks = kk.pendedTicks + 0 - 0 /\ Later(u, kk, 0)
  BY <1>4, <1>10 DEF Later
<1>12. ~Hot(u) => ~Hot(kk)
  BY <1>4, <1>8 DEF Hot
<1>13. /\ \A x \in All : u.item[x] = MaxPriorities - u.priority[x]
       /\ \A x \in All : u.priority[x] >= u.base[x]
  BY <1>4 DEF Proper
<1>14. Frees(u, kk, {}, X, 0, 0)
  BY <1>4, <1>6, <1>7, <1>8, <1>9, <1>11, <1>12, <1>13 DEF Frees
<1>15. QED
  BY <1>3, <1>4, <1>5, <1>14 DEF u

(* xTaskResumeAll when it is the last.                                     *)
LEMMA ResumeFrees ==
  ASSUME NEW kk, NEW H, Proper(kk, H), kk.schedulerSuspended = 1
  PROVE  LET u == ResumeAll(kk)
         IN  /\ Frees(u, kk, Revived(kk), Revived(kk), kk.pendedTicks, 0)
             /\ u.schedulerSuspended = 0 /\ u.priority = kk.priority
             /\ u.aborted = kk.aborted /\ (u.yieldPending => u.swi)
<1> DEFINE u == ResumeAll(kk)
           P == Ev(kk, Pending)
           R == Revived(kk)
<1>1. Sound(kk) /\ Timely(kk) /\ Gn(kk) = {} /\ kk \in KernelState /\ Apart(kk)
  BY DEF Proper, Sound
<1>2. /\ Sound(u) /\ Timely(u)
      /\ Rd(u) = Rd(kk) \cup R /\ Waiting(u) = Waiting(kk) \ R
      /\ u.suspended = kk.suspended \ P /\ Gn(u) = Gn(kk) \ P
      /\ \A l \in Events : Ev(u, l) = Ev(kk, l) \ R
      /\ \A t \in Waiting(u) : Dist(u, t) = Dist(kk, t) - kk.pendedTicks
      /\ u.current = kk.current /\ u.schedulerSuspended = 0 /\ u.pendedTicks = 0
      /\ u.priority = kk.priority /\ u.base = kk.base
      /\ u.item = kk.item /\ u.aborted = kk.aborted
      /\ kk.pendedTicks < Ticks => Later(u, kk, kk.pendedTicks)
      /\ u.swi = (kk.swi \/ u.yieldPending)
      /\ (\/ kk.yieldPending
          \/ \E t \in R : kk.priority[t] >= kk.priority[kk.current])
           => u.yieldPending
  BY <1>1, ResumeAllRight
<1> HIDE DEF u
<1>3. P \subseteq R /\ R \subseteq P \cup Waiting(kk)
  BY DEF Revived, Within
<1>4. P \subseteq Waiting(kk) \cup kk.suspended \cup (All \ Listed(kk))
  BY DEF Proper, Events
<1>5. u.suspended = kk.suspended \ R
  BY <1>1, <1>2, <1>3 DEF Apart, Waiting
<1>6. /\ Ev(u, Pending) = {} /\ \A l \in EventLists : Ev(u, l) = Ev(kk, l) \ R
  BY <1>2, <1>3 DEF Events
<1>7. kk.pendedTicks \in Nat
  BY <1>1, KernelTypes
<1>8. ~u.swi => ~kk.swi /\ ~u.yieldPending
  BY <1>2
<1>9. ~Hot(u) => ~Hot(kk) /\ \A t \in R : u.priority[t] <= u.priority[u.current]
  <2>1. R \subseteq All
    <3>1. Waiting(kk) \subseteq All /\ kk.suspended \subseteq All
      BY <1>1, KernelTypes, InToSet DEF Waiting, Dl, Ov
    <3>2. QED
      BY <1>3, <1>4, <3>1
  <2>2. \A t \in R : kk.priority[t] \in Int
    BY <1>1, <2>1, KernelTypes, KernelAssumption DEF Priority
  <2>3. kk.priority[kk.current] \in Int
    BY <1>1, KernelTypes, KernelAssumption DEF Priority
  <2>4. SUFFICES ASSUME ~u.swi
                 PROVE  ~Hot(kk) /\ \A t \in R : u.priority[t] <= u.priority[u.current]
    BY DEF Hot
  <2>5. ~kk.swi /\ ~u.yieldPending
    BY <1>8, <2>4
  <2>6. ~kk.yieldPending /\ ~\E t \in R : kk.priority[t] >= kk.priority[kk.current]
    BY <1>2, <2>5
  <2>7. QED
    BY <1>2, <2>2, <2>3, <2>5, <2>6 DEF Hot
<1>10. /\ \A x \in All : u.item[x] = MaxPriorities - u.priority[x]
       /\ \A x \in All : u.priority[x] >= u.base[x]
  BY <1>2 DEF Proper
<1>11. Gn(u) = {} /\ u.pendedTicks = kk.pendedTicks + 0 - kk.pendedTicks
  BY <1>1, <1>2, <1>7
<1> HIDE DEF R, P
<1>12. Frees(u, kk, R, R, kk.pendedTicks, 0)
  BY <1>2, <1>3, <1>4, <1>5, <1>6, <1>7, <1>9, <1>10, <1>11 DEF Frees
<1>13. u.yieldPending => u.swi
  BY <1>2
<1>14. QED
  BY <1>2, <1>12, <1>13 DEF u, R

(* SysTick_Handler, with the scheduler suspended or not.                   *)
LEMMA TickFrees ==
  ASSUME NEW kk, NEW H, Proper(kk, H)
  PROVE  LET u == SysTick(kk)
         IN  \E R, n : /\ Frees(u, kk, R, R, n, 1)
                       /\ kk.schedulerSuspended # 0 => n = 0 /\ R = {}
                       /\ u.schedulerSuspended = kk.schedulerSuspended
                       /\ u.priority = kk.priority /\ u.aborted = kk.aborted
<1> DEFINE u == SysTick(kk)
           R == Within(kk, 1)
<1>1. /\ Sound(kk) /\ Timely(kk) /\ Gn(kk) = {} /\ kk \in KernelState
      /\ Apart(kk) /\ kk.pendedTicks \in Nat
  BY KernelTypes DEF Proper, Sound
<1>2. CASE kk.schedulerSuspended = 0
  <2>1. /\ Sound(u) /\ Timely(u)
        /\ Rd(u) = Rd(kk) \cup R /\ Waiting(u) = Waiting(kk) \ R
        /\ u.suspended = kk.suspended /\ Gn(u) = Gn(kk)
        /\ \A l \in Events : Ev(u, l) = Ev(kk, l) \ R
        /\ \A t \in Waiting(u) : Dist(u, t) = Dist(kk, t) - 1
        /\ u.current = kk.current /\ u.schedulerSuspended = 0
        /\ u.pendedTicks = kk.pendedTicks /\ Later(u, kk, 1)
        /\ u.priority = kk.priority /\ u.base = kk.base
        /\ u.item = kk.item /\ u.aborted = kk.aborted
        /\ u.yieldPending = kk.yieldPending /\ u.swi \in BOOLEAN
        /\ (\/ kk.swi
            \/ \E t \in R : kk.priority[t] >= kk.priority[kk.current]) => u.swi
    BY <1>1, <1>2, SysTickRight
  <2> HIDE DEF u
  <2>2. R \subseteq Waiting(kk) /\ R \subseteq All
    BY <1>1, KernelTypes, InToSet DEF Within, Waiting, Dl, Ov
  <2> HIDE DEF R
  <2>3. u.suspended = kk.suspended \ R
    BY <1>1, <2>1, <2>2 DEF Apart, Waiting
  <2>4. /\ kk.pendedTicks = 0 /\ Ev(u, Pending) = {}
        /\ \A l \in EventLists : Ev(u, l) = Ev(kk, l) \ R
    BY <1>2, <2>1 DEF Proper, Events
  <2>5. ~Hot(u) => ~Hot(kk) /\ \A t \in R : u.priority[t] <= u.priority[u.current]
    <3>1. \A t \in R : kk.priority[t] \in Int
      BY <1>1, <2>2, KernelTypes, KernelAssumption DEF Priority
    <3>2. kk.priority[kk.current] \in Int
      BY <1>1, KernelTypes, KernelAssumption DEF Priority
    <3>3. ~u.swi => ~kk.swi /\ ~\E t \in R : kk.priority[t] >= kk.priority[kk.current]
      BY <2>1
    <3>4. QED
      BY <1>2, <2>1, <3>1, <3>2, <3>3 DEF Hot
  <2>6. /\ \A x \in All : u.item[x] = MaxPriorities - u.priority[x]
        /\ \A x \in All : u.priority[x] >= u.base[x]
    BY <2>1 DEF Proper
  <2>7. u.pendedTicks = kk.pendedTicks + 1 - 1
    BY <1>1, <2>1
  <2>8. Frees(u, kk, R, R, 1, 1)
    BY <1>1, <2>1, <2>2, <2>3, <2>4, <2>5, <2>6, <2>7 DEF Frees
  <2>9. QED
    BY <1>2, <2>1, <2>8 DEF u
<1>3. CASE kk.schedulerSuspended # 0
  <2> DEFINE v == [kk EXCEPT !.pendedTicks = kk.pendedTicks + 1]
  <2>1. u = v
    BY <1>1, <1>3, TickPutOff
  <2>2. v \in KernelState
    <3>1. kk.pendedTicks + 1 \in Nat
      BY <1>1
    <3>2. QED
      BY <1>1, <3>1, Zenon DEF KernelState
  <2>3. /\ v.schedulerSuspended = kk.schedulerSuspended /\ v.priority = kk.priority
        /\ v.aborted = kk.aborted /\ v.pendedTicks = kk.pendedTicks + 1
        /\ v.swi = kk.swi /\ v.yieldPending = kk.yieldPending
    BY <1>1 DEF KernelState
  <2>4. /\ v.ready = kk.ready /\ v.top = kk.top /\ v.delayed = kk.delayed
        /\ v.overflow = kk.overflow /\ v.suspended = kk.suspended
        /\ v.terminated = kk.terminated /\ v.events = kk.events
        /\ v.wake = kk.wake /\ v.base = kk.base /\ v.item = kk.item
        /\ v.tick = kk.tick /\ v.overflows = kk.overflows /\ v.nextUnblock = kk.nextUnblock
        /\ v.current = kk.current
    BY <1>1 DEF KernelState
  <2> HIDE DEF v
  <2>5. Frees(v, kk, {}, {}, 0, 1)
    BY <1>3, <2>2, <2>3, <2>4, FlagsFree DEF Hot
  <2>6. QED
    BY <2>1, <2>3, <2>5
<1>4. QED
  BY <1>2, <1>3

(* A new priority for one task that is not below its own.                  *)
LEMMA RankFrees ==
  ASSUME NEW kk, NEW H, Proper(kk, H), NEW t \in All, NEW u, Ranked(u, kk, t),
         u.priority[t] >= u.base[t]
  PROVE  Frees(u, kk, {}, {}, 0, 0)
<1>1. Unmoved(u, kk) /\ kk \in KernelState /\ kk.pendedTicks \in Nat /\ kk.tick \in Nat
  BY KernelTypes, KernelAssumption DEF Proper, Sound, Ranked
<1>2. Pending \in Events /\ EventLists \subseteq Events
  BY DEF Events
<1>3. \A x \in Waiting(u) : Dist(u, x) = Dist(kk, x) - 0
  <2>1. ASSUME NEW x \in Waiting(u) PROVE Dist(u, x) = Dist(kk, x) - 0
    <3>1. x \in Waiting(kk) /\ Dist(u, x) = Dist(kk, x)
      BY <1>1 DEF Unmoved
    <3>2. Dist(kk, x) \in 1 .. Ticks - 1
      BY <3>1, DistRight DEF Proper
    <3>3. QED
      BY <3>1, <3>2
  <2>2. QED
    BY <2>1
<1>4. /\ u.current = kk.current /\ u.schedulerSuspended = kk.schedulerSuspended
      /\ u.base = kk.base /\ u.swi = kk.swi /\ u.yieldPending = kk.yieldPending
      /\ u.tick = kk.tick /\ u.overflows = kk.overflows /\ u.pendedTicks = kk.pendedTicks
      /\ \A x \in All \ {t} : u.priority[x] = kk.priority[x] /\ u.item[x] = kk.item[x]
      /\ u.item[t] = MaxPriorities - u.priority[t]
  BY DEF Ranked, Proper
<1>5. Later(u, kk, 0) /\ u.pendedTicks = kk.pendedTicks + 0 - 0
  BY <1>1, <1>4 DEF Later
<1>6. /\ \A x \in All : u.item[x] = MaxPriorities - u.priority[x]
      /\ \A x \in All : u.priority[x] >= u.base[x]
  BY <1>4 DEF Proper
<1>7. /\ Sound(u) /\ Timely(u) /\ Gn(u) = {} /\ Rd(u) = Rd(kk) /\ Waiting(u) = Waiting(kk)
      /\ u.suspended = kk.suspended /\ \A l \in Events : Ev(u, l) = Ev(kk, l)
      /\ kk.schedulerSuspended = 0 => kk.pendedTicks = 0 /\ Ev(kk, Pending) = {}
  BY <1>1 DEF Proper, Unmoved
<1>8. QED
  BY <1>2, <1>3, <1>4, <1>5, <1>6, <1>7 DEF Frees, Hot

(* What xTaskAbortDelay does behind the removal.                           *)
LEMMA AbortFrees ==
  ASSUME NEW kk, NEW H, Proper(kk, H), NEW t \in H, kk.schedulerSuspended = 1
  PROVE  LET u == AbortWait(kk, t)
         IN  /\ Frees(u, kk, {t}, {t}, 0, 0)
             /\ u.schedulerSuspended = 1 /\ u.priority = kk.priority
             /\ u.pendedTicks = kk.pendedTicks
             /\ \A x \in All \ {t} : u.aborted[x] = kk.aborted[x]
<1> DEFINE u == AbortWait(kk, t)
<1>1. /\ Sound(kk) /\ Timely(kk) /\ Gn(kk) = {} /\ t \in All \ Listed(kk)
      /\ kk \in KernelState /\ kk.pendedTicks \in Nat /\ kk.tick \in Nat
  BY KernelTypes, KernelAssumption DEF Proper, Sound
<1>2. /\ Sound(u) /\ Timely(u)
      /\ Rd(u) = Rd(kk) \cup {t} /\ Waiting(u) = Waiting(kk)
      /\ u.suspended = kk.suspended /\ Gn(u) = Gn(kk)
      /\ \A l \in Events : Ev(u, l) = Ev(kk, l) \ {t}
      /\ \A x \in Waiting(kk) : Dist(u, x) = Dist(kk, x)
      /\ u.current = kk.current /\ u.schedulerSuspended = kk.schedulerSuspended
      /\ u.priority = kk.priority /\ u.base = kk.base
      /\ u.tick = kk.tick /\ u.overflows = kk.overflows /\ u.swi = kk.swi
      /\ u.pendedTicks = kk.pendedTicks /\ u.item = kk.item
      /\ \A x \in All \ {t} : u.aborted[x] = kk.aborted[x]
      /\ u.yieldPending = (kk.yieldPending \/ kk.priority[t] > kk.priority[kk.current])
  BY <1>1, AbortRight
<1> HIDE DEF u
<1>3. Waiting(u) = Waiting(kk) \ {t} /\ u.suspended = kk.suspended \ {t}
  BY <1>1, <1>2 DEF Listed, Waiting
<1>4. \A x \in Waiting(u) : Dist(u, x) = Dist(kk, x) - 0
  <2>1. ASSUME NEW x \in Waiting(u) PROVE Dist(u, x) = Dist(kk, x) - 0
    <3>1. x \in Waiting(kk) /\ Dist(u, x) = Dist(kk, x)
      BY <1>2
    <3>2. Dist(kk, x) \in 1 .. Ticks - 1
      BY <1>1, <3>1, DistRight
    <3>3. QED
      BY <3>1, <3>2
  <2>2. QED
    BY <2>1
<1>5. Later(u, kk, 0) /\ u.pendedTicks = kk.pendedTicks + 0 - 0
  BY <1>1, <1>2 DEF Later
<1>6. ~Hot(u) => ~Hot(kk) /\ \A x \in {t} : u.priority[x] <= u.priority[u.current]
  <2>1. kk.priority[t] \in Int /\ kk.priority[kk.current] \in Int
    BY <1>1, KernelTypes, KernelAssumption DEF Priority
  <2>2. ~u.yieldPending => ~kk.yieldPending /\ ~(kk.priority[t] > kk.priority[kk.current])
    BY <1>2
  <2>3. ~Hot(u) => ~Hot(kk) /\ ~(kk.priority[t] > kk.priority[kk.current])
    BY <1>2, <2>2 DEF Hot
  <2>4. QED
    BY <1>2, <2>1, <2>3
<1>7. /\ Ev(u, Pending) \subseteq (Ev(kk, Pending) \cup {t}) \ {t}
      /\ \A l \in EventLists : Ev(u, l) = Ev(kk, l) \ {t}
  BY <1>2 DEF Events
<1>8. /\ \A x \in All : u.item[x] = MaxPriorities - u.priority[x]
      /\ \A x \in All : u.priority[x] >= u.base[x]
  BY <1>2 DEF Proper
<1>9. Frees(u, kk, {t}, {t}, 0, 0)
  BY <1>1, <1>2, <1>3, <1>4, <1>5, <1>6, <1>7, <1>8 DEF Frees
<1>10. QED
  BY <1>2, <1>9 DEF u

(* portYIELD.                                                              *)
LEMMA YieldFrees ==
  ASSUME NEW kk, NEW H, Proper(kk, H)
  PROVE  LET u == Yield(kk)
         IN  /\ Frees(u, kk, {}, {}, 0, 0) /\ u.swi = TRUE
             /\ u.schedulerSuspended = kk.schedulerSuspended
             /\ u.priority = kk.priority /\ u.aborted = kk.aborted
<1> DEFINE u == Yield(kk)
<1>1. kk \in KernelState /\ kk.pendedTicks \in Nat
  BY KernelTypes DEF Proper, Sound
<1>2. u \in KernelState
  BY <1>1 DEF Yield, KernelState
<1>3. /\ u.ready = kk.ready /\ u.top = kk.top /\ u.delayed = kk.delayed
      /\ u.overflow = kk.overflow /\ u.suspended = kk.suspended
      /\ u.terminated = kk.terminated /\ u.events = kk.events
      /\ u.wake = kk.wake /\ u.base = kk.base /\ u.item = kk.item
      /\ u.tick = kk.tick /\ u.overflows = kk.overflows /\ u.nextUnblock = kk.nextUnblock
      /\ u.current = kk.current /\ u.priority = kk.priority /\ u.aborted = kk.aborted
      /\ u.schedulerSuspended = kk.schedulerSuspended /\ u.pendedTicks = kk.pendedTicks
      /\ u.yieldPending = kk.yieldPending /\ u.swi = TRUE
  BY <1>1 DEF Yield, KernelState
<1> HIDE DEF u
<1>4. u.schedulerSuspended = 0 => u.pendedTicks = 0 /\ Ev(u, Pending) = {}
  BY <1>3 DEF Proper, Ev
<1>5. u.pendedTicks = kk.pendedTicks + 0 /\ (~Hot(u) => ~Hot(kk))
  BY <1>1, <1>3 DEF Hot
<1>6. Frees(u, kk, {}, {}, 0, 0)
  BY <1>2, <1>3, <1>4, <1>5, FlagsFree
<1>7. QED
  BY <1>3, <1>6 DEF u

(* vTaskSuspendAll, the first.                                             *)
LEMMA SuspendFrees ==
  ASSUME NEW kk, NEW H, Proper(kk, H), kk.schedulerSuspended = 0
  PROVE  LET u == SuspendAll(kk)
         IN  /\ Frees(u, kk, {}, {}, 0, 0) /\ u.schedulerSuspended = 1
             /\ u.priority = kk.priority /\ u.aborted = kk.aborted
<1> DEFINE u == SuspendAll(kk)
<1>1. kk \in KernelState /\ kk.pendedTicks \in Nat
  BY KernelTypes DEF Proper, Sound
<1>2. u \in KernelState
  <2>1. u = [kk EXCEPT !.schedulerSuspended = 1]
    BY <1>1 DEF SuspendAll, KernelState
  <2> HIDE DEF u
  <2>2. QED
    BY <1>1, <2>1, ZenonT(30) DEF KernelState
<1>3. /\ u.ready = kk.ready /\ u.top = kk.top /\ u.delayed = kk.delayed
      /\ u.overflow = kk.overflow /\ u.suspended = kk.suspended
      /\ u.terminated = kk.terminated /\ u.events = kk.events
      /\ u.wake = kk.wake /\ u.base = kk.base /\ u.item = kk.item
      /\ u.tick = kk.tick /\ u.overflows = kk.overflows /\ u.nextUnblock = kk.nextUnblock
      /\ u.current = kk.current /\ u.priority = kk.priority /\ u.aborted = kk.aborted
      /\ u.schedulerSuspended = 1 /\ u.pendedTicks = kk.pendedTicks
      /\ u.yieldPending = kk.yieldPending /\ u.swi = kk.swi
  BY <1>1 DEF SuspendAll, KernelState
<1> HIDE DEF u
<1>4. u.pendedTicks = kk.pendedTicks + 0 /\ (~Hot(u) => ~Hot(kk))
  BY <1>1, <1>3 DEF Hot
<1>5. Frees(u, kk, {}, {}, 0, 0)
  BY <1>2, <1>3, <1>4, FlagsFree
<1>6. QED
  BY <1>3, <1>5 DEF u

(* The note of an abort is taken.                                          *)
LEMMA NotedFrees ==
  ASSUME NEW kk, NEW H, Proper(kk, H), NEW t \in All
  PROVE  LET u == [kk EXCEPT !.aborted[t] = FALSE]
         IN  /\ Frees(u, kk, {}, {}, 0, 0) /\ u.schedulerSuspended = kk.schedulerSuspended
             /\ u.priority = kk.priority /\ u.aborted = [kk.aborted EXCEPT ![t] = FALSE]
             /\ u.tick = kk.tick /\ u.overflows = kk.overflows
             /\ u.pendedTicks = kk.pendedTicks
<1> DEFINE u == [kk EXCEPT !.aborted[t] = FALSE]
<1>1. kk \in KernelState /\ kk.pendedTicks \in Nat
  BY KernelTypes DEF Proper, Sound
<1>2. u \in KernelState
  <2> DEFINE f == [kk.aborted EXCEPT ![t] = FALSE]
  <2>1. kk.aborted \in [All -> BOOLEAN]
    BY <1>1, KernelTypes
  <2>2. f \in [All -> BOOLEAN] /\ u = [kk EXCEPT !.aborted = f]
    BY <1>1, <2>1 DEF KernelState
  <2> HIDE DEF f
  <2>3. QED
    BY <1>1, <2>2 DEF KernelState
<1>3. /\ u.ready = kk.ready /\ u.top = kk.top /\ u.delayed = kk.delayed
      /\ u.overflow = kk.overflow /\ u.suspended = kk.suspended
      /\ u.terminated = kk.terminated /\ u.events = kk.events
      /\ u.wake = kk.wake /\ u.base = kk.base /\ u.item = kk.item
      /\ u.tick = kk.tick /\ u.overflows = kk.overflows /\ u.nextUnblock = kk.nextUnblock
      /\ u.current = kk.current /\ u.priority = kk.priority
      /\ u.aborted = [kk.aborted EXCEPT ![t] = FALSE]
      /\ u.schedulerSuspended = kk.schedulerSuspended /\ u.pendedTicks = kk.pendedTicks
      /\ u.yieldPending = kk.yieldPending /\ u.swi = kk.swi
  BY <1>1 DEF KernelState
<1> HIDE DEF u
<1>4. u.schedulerSuspended = 0 => u.pendedTicks = 0 /\ Ev(u, Pending) = {}
  BY <1>3 DEF Proper, Ev
<1>5. u.pendedTicks = kk.pendedTicks + 0 /\ (~Hot(u) => ~Hot(kk))
  BY <1>1, <1>3 DEF Hot
<1>6. Frees(u, kk, {}, {}, 0, 0)
  BY <1>2, <1>3, <1>4, <1>5, FlagsFree
<1>7. QED
  BY <1>3, <1>6 DEF u

(* vTaskSwitchContext with the scheduler suspended.                        *)
LEMMA PutOffFrees ==
  ASSUME NEW kk, NEW H, Proper(kk, H), kk.schedulerSuspended # 0
  PROVE  LET u == SwitchContext(kk)
         IN  /\ Frees(u, kk, {}, {}, 0, 0) /\ u.schedulerSuspended = kk.schedulerSuspended
             /\ u.priority = kk.priority /\ u.aborted = kk.aborted
<1> DEFINE u == SwitchContext(kk)
<1>1. kk \in KernelState /\ kk.pendedTicks \in Nat
  BY KernelTypes DEF Proper, Sound
<1>2. u = [kk EXCEPT !.swi = FALSE, !.yieldPending = TRUE]
  BY DEF SwitchContext
<1> HIDE DEF u
<1>3. u \in KernelState
  BY <1>1, <1>2 DEF KernelState
<1>4. /\ u.ready = kk.ready /\ u.top = kk.top /\ u.delayed = kk.delayed
      /\ u.overflow = kk.overflow /\ u.suspended = kk.suspended
      /\ u.terminated = kk.terminated /\ u.events = kk.events
      /\ u.wake = kk.wake /\ u.base = kk.base /\ u.item = kk.item
      /\ u.tick = kk.tick /\ u.overflows = kk.overflows /\ u.nextUnblock = kk.nextUnblock
      /\ u.current = kk.current /\ u.priority = kk.priority /\ u.aborted = kk.aborted
      /\ u.schedulerSuspended = kk.schedulerSuspended /\ u.pendedTicks = kk.pendedTicks
      /\ u.yieldPending = TRUE
  BY <1>1, <1>2 DEF KernelState
<1>5. u.pendedTicks = kk.pendedTicks + 0 /\ Hot(u)
  BY <1>1, <1>4 DEF Hot
<1>6. Frees(u, kk, {}, {}, 0, 0)
  BY <1>3, <1>4, <1>5, FlagsFree
<1>7. QED
  BY <1>4, <1>6 DEF u

(* The removal of a task that waits by xTaskAbortDelay.                    *)
LEMMA UnlinkProper ==
  ASSUME NEW kk, Proper(kk, {}), NEW t \in Waiting(kk) \cup kk.suspended
  PROVE  LET u == Unlink(kk, {t})
         IN  /\ Proper(u, {t}) /\ t \notin Rd(kk)
             /\ Rd(u) = Rd(kk) /\ Waiting(u) \subseteq Waiting(kk)
             /\ \A l : Ev(u, l) = Ev(kk, l)
             /\ \A x \in Waiting(u) : Dist(u, x) = Dist(kk, x)
             /\ u.current = kk.current /\ u.schedulerSuspended = kk.schedulerSuspended
             /\ u.priority = kk.priority /\ u.base = kk.base /\ u.aborted = kk.aborted
             /\ u.swi = kk.swi /\ u.yieldPending = kk.yieldPending
             /\ u.tick = kk.tick /\ u.overflows = kk.overflows
             /\ u.pendedTicks = kk.pendedTicks
<1> DEFINE u == Unlink(kk, {t})
           S == {t}
<1>1. /\ Sound(kk) /\ Timely(kk) /\ Gn(kk) = {} /\ kk \in KernelState /\ Apart(kk)
      /\ Listed(kk) \subseteq All /\ All \ Listed(kk) = {} /\ Idle \in Rd(kk)
  <2>1. /\ Sound(kk) /\ Timely(kk) /\ Gn(kk) = {} /\ kk \in KernelState /\ Apart(kk)
        /\ All \ Listed(kk) = {} /\ Idle \in Rd(kk)
    BY DEF Proper, Sound
  <2>2. Listed(kk) \subseteq All
    BY <2>1, KernelTypes, InToSet DEF Listed, Rd, Dl, Ov
  <2>3. QED
    BY <2>1, <2>2
<1>2. /\ Sound(u)
      /\ Rd(u) = Rd(kk) \ S /\ Dl(u) = Dl(kk) \ S /\ Ov(u) = Ov(kk) \ S
      /\ u.suspended = kk.suspended \ S /\ Gn(u) = Gn(kk) \ S
      /\ Frame(u, kk) /\ \A l : Ev(u, l) = Ev(kk, l)
  BY <1>1, UnlinkRight
<1>3. Become(u, kk, Rd(kk) \ S, Waiting(kk) \ S, kk.suspended \ S, Gn(kk) \ S, Ev(kk, Pending))
  BY <1>1, UnlinkBecomes
<1> HIDE DEF u
<1>4. t \notin Rd(kk) /\ t \in All
  BY <1>1 DEF Apart, Waiting, Listed
<1>5. /\ Timely(u) /\ Waiting(u) = Waiting(kk) \ S
      /\ \A x \in Waiting(u) : Dist(u, x) = Dist(kk, x)
  BY <1>3 DEF Become
<1>6. /\ u.current = kk.current /\ u.schedulerSuspended = kk.schedulerSuspended
      /\ u.priority = kk.priority /\ u.base = kk.base /\ u.item = kk.item
      /\ u.aborted = kk.aborted
      /\ u.swi = kk.swi /\ u.yieldPending = kk.yieldPending
      /\ u.tick = kk.tick /\ u.overflows = kk.overflows
      /\ u.pendedTicks = kk.pendedTicks
  BY <1>2 DEF Frame, Settled
<1>7. Rd(u) = Rd(kk) /\ Gn(u) = {}
  BY <1>1, <1>2, <1>4
<1>8. Listed(u) = Listed(kk) \ S
  BY <1>1, <1>2 DEF Listed
<1>9. All \ Listed(u) = {t}
  BY <1>1, <1>4, <1>8
<1>10. ASSUME NEW l \in Events PROVE Ev(u, l) \subseteq Waiting(u) \cup u.suspended \cup {t}
  <2>1. Ev(kk, l) \subseteq Waiting(kk) \cup kk.suspended \cup {}
    BY DEF Proper
  <2>2. QED
    BY <2>1, <1>2, <1>5
<1>11. u.schedulerSuspended = 0 => u.pendedTicks = 0 /\ Ev(u, Pending) = {}
  BY <1>2, <1>6 DEF Proper
<1>12. /\ \A x \in All : u.item[x] = MaxPriorities - u.priority[x]
       /\ \A x \in All : u.priority[x] >= u.base[x]
  BY <1>6 DEF Proper
<1>13. Proper(u, {t})
  BY <1>1, <1>2, <1>5, <1>7, <1>9, <1>10, <1>11, <1>12 DEF Proper
<1>14. QED
  BY <1>2, <1>4, <1>5, <1>6, <1>7, <1>13 DEF u

(* What a task that blocks leaves proper.                                  *)
LEMMA SleepsProper ==
  ASSUME NEW kk, NEW H, Proper(kk, H), kk.current # Idle, kk.current \in Rd(kk),
         NEW u, NEW L \in SUBSET EventLists, Pending \notin EventLists,
         NEW n, NEW forever \in BOOLEAN, Sleeps(u, kk, kk.current, L, n, forever)
  PROVE  Proper(u, H)
<1> DEFINE c == kk.current
<1>1. /\ Sound(u) /\ Timely(u)
      /\ Rd(u) = Rd(kk) \ {c} /\ Gn(u) = Gn(kk) \ {c}
      /\ Waiting(u) = IF forever THEN Waiting(kk) \ {c} ELSE Waiting(kk) \cup {c}
      /\ u.suspended = IF forever THEN kk.suspended \cup {c} ELSE kk.suspended \ {c}
      /\ u.schedulerSuspended = kk.schedulerSuspended /\ u.pendedTicks = kk.pendedTicks
      /\ u.priority = kk.priority /\ u.base = kk.base /\ u.item = kk.item
  BY DEF Sleeps
<1>2. Gn(kk) = {} /\ Idle \in Rd(kk) /\ All \ Listed(kk) = H /\ Apart(kk)
  BY DEF Proper, Sound
<1> HIDE DEF c
<1>3. c \in Rd(kk) /\ c # Idle
  BY DEF c
<1>4. Rd(kk) \cap Waiting(kk) = {} /\ Rd(kk) \cap kk.suspended = {}
  BY <1>2 DEF Apart, Waiting
<1>5. /\ Waiting(u) \cup u.suspended = Waiting(kk) \cup kk.suspended \cup {c}
      /\ Rd(u) \cup Waiting(u) \cup u.suspended \cup Gn(u)
           = Rd(kk) \cup Waiting(kk) \cup kk.suspended \cup Gn(kk)
  <2>1. CASE forever
    BY <1>1, <1>2, <1>3, <1>4, <2>1
  <2>2. CASE ~forever
    BY <1>1, <1>2, <1>3, <1>4, <2>2
  <2>3. QED
    BY <2>1, <2>2
<1>6. Listed(u) = Listed(kk)
  <2>1. /\ Listed(u) = Rd(u) \cup Waiting(u) \cup u.suspended \cup Gn(u)
        /\ Listed(kk) = Rd(kk) \cup Waiting(kk) \cup kk.suspended \cup Gn(kk)
    BY DEF Listed, Waiting
  <2>2. QED
    BY <1>5, <2>1
<1>7. ASSUME NEW l \in Events PROVE Ev(u, l) \subseteq Waiting(u) \cup u.suspended \cup H
  <2>1. Ev(kk, l) \subseteq Waiting(kk) \cup kk.suspended \cup H
    BY DEF Proper
  <2>2. Ev(u, l) \subseteq Ev(kk, l) \cup {c}
    BY DEF Sleeps, c
  <2>3. QED
    BY <1>5, <2>1, <2>2
<1>8. u.schedulerSuspended = 0 => u.pendedTicks = 0 /\ Ev(u, Pending) = {}
  BY <1>1 DEF Proper, Sleeps, Events
<1>9. /\ \A x \in All : u.item[x] = MaxPriorities - u.priority[x]
      /\ \A x \in All : u.priority[x] >= u.base[x]
  BY <1>1 DEF Proper
<1>10. QED
  BY <1>1, <1>2, <1>3, <1>6, <1>7, <1>8, <1>9 DEF Proper

(* vTaskPlaceOnEventList by a task that is ready, ...                      *)
LEMMA PlaceSleeps ==
  ASSUME NEW kk, NEW H, Proper(kk, H), kk.current \in Rd(kk), NEW l \in EventLists,
         NEW n \in 1 .. Ticks - 1, Pending \notin EventLists
  PROVE  Sleeps(PlaceOnEventList(kk, l, n), kk, kk.current, {l}, n, n = MaxDelay)
<1>1. Sound(kk) /\ Timely(kk) /\ Apart(kk)
  BY DEF Proper, Sound
<1>2. \A m \in Events : kk.current \notin Ev(kk, m)
  <2>1. ASSUME NEW m \in Events PROVE kk.current \notin Ev(kk, m)
    <3>1. Ev(kk, m) \subseteq Waiting(kk) \cup kk.suspended \cup H
      BY DEF Proper
    <3>2. kk.current \notin H
      BY DEF Proper, Listed
    <3>3. QED
      BY <1>1, <3>1, <3>2 DEF Apart, Waiting
  <2>2. QED
    BY <2>1
<1>3. QED
  BY <1>1, <1>2, PlaceRight

(* ... and vTaskDelay's prvAddCurrentTaskToDelayedList.                    *)
LEMMA DelaySleeps ==
  ASSUME NEW kk, NEW H, Proper(kk, H), NEW n \in 1 .. Ticks - 1
  PROVE  Sleeps(AddCurrentToDelayed(kk, n, FALSE), kk, kk.current, {}, n, FALSE)
<1> DEFINE u == AddCurrentToDelayed(kk, n, FALSE)
           c == kk.current
           forever == n = MaxDelay /\ FALSE
<1>1. Sound(kk) /\ Timely(kk) /\ kk \in KernelState
  BY DEF Proper, Sound
<1>2. /\ Sound(u) /\ Timely(u)
      /\ Rd(u) = Rd(kk) \ {c} /\ Gn(u) = Gn(kk) \ {c}
      /\ Waiting(u) = IF forever THEN Waiting(kk) \ {c} ELSE Waiting(kk) \cup {c}
      /\ u.suspended = IF forever THEN kk.suspended \cup {c} ELSE kk.suspended \ {c}
      /\ \A l : Ev(u, l) = Ev(kk, l)
      /\ \A t \in Waiting(u) : Dist(u, t) = IF t = c THEN n ELSE Dist(kk, t)
      /\ u.current = c /\ u.schedulerSuspended = kk.schedulerSuspended
      /\ u.priority = kk.priority /\ u.base = kk.base /\ u.item = kk.item
      /\ u.swi = kk.swi /\ u.yieldPending = kk.yieldPending
      /\ u.tick = kk.tick /\ u.overflows = kk.overflows /\ u.pendedTicks = kk.pendedTicks
  BY <1>1, AddCurrentToDelayedRight, FALSE \in BOOLEAN
<1>3. u.aborted = [kk.aborted EXCEPT ![c] = FALSE]
  BY <1>1, AddCurrentFields
<1>4. forever = FALSE
  OBVIOUS
<1> HIDE DEF u, c, forever
<1>5. /\ Waiting(u) = IF FALSE THEN Waiting(kk) \ {c} ELSE Waiting(kk) \cup {c}
      /\ u.suspended = IF FALSE THEN kk.suspended \cup {c} ELSE kk.suspended \ {c}
  BY <1>2, <1>4
<1>6. Sleeps(u, kk, c, {}, n, FALSE)
  BY <1>2, <1>3, <1>5 DEF Sleeps
<1>7. QED
  BY <1>6 DEF u, c

(* vTaskSwitchContext.                                                     *)
LEMMA SwitchProper ==
  ASSUME NEW kk, NEW H, Proper(kk, H), kk.schedulerSuspended = 0
  PROVE  LET u == SwitchContext(kk)
         IN  /\ Proper(u, H) /\ u.current \in Rd(u)
             /\ \A t \in Rd(u) : u.priority[t] <= u.priority[u.current]
             /\ Rd(u) = Rd(kk) /\ Waiting(u) = Waiting(kk) /\ u.suspended = kk.suspended
             /\ \A l \in EventLists : Ev(u, l) = Ev(kk, l)
             /\ \A t \in Waiting(u) : Dist(u, t) = Dist(kk, t)
             /\ u.swi = FALSE /\ u.schedulerSuspended = 0
             /\ u.priority = kk.priority /\ u.base = kk.base /\ u.aborted = kk.aborted
             /\ u.tick = kk.tick /\ u.overflows = kk.overflows
             /\ u.pendedTicks = kk.pendedTicks
<1> DEFINE u == SwitchContext(kk)
<1>1. Sound(kk) /\ Timely(kk) /\ kk \in KernelState /\ Rd(kk) # {}
  BY DEF Proper, Sound
<1>2. /\ Sound(u) /\ SameViews(u, kk)
      /\ u.current \in Rd(u) /\ \A t \in Rd(u) : u.priority[t] <= u.priority[u.current]
      /\ u.swi = FALSE /\ u.yieldPending = FALSE
      /\ u.schedulerSuspended = 0 /\ u.priority = kk.priority /\ u.base = kk.base
      /\ u.tick = kk.tick /\ u.overflows = kk.overflows
      /\ u.nextUnblock = kk.nextUnblock /\ u.pendedTicks = kk.pendedTicks
  BY <1>1, SwitchContextRight
<1>3. u.item = kk.item /\ u.aborted = kk.aborted
  BY <1>1, SwitchFields
<1> HIDE DEF u
<1>4. /\ Timely(u) /\ Waiting(u) = Waiting(kk) /\ Listed(u) = Listed(kk)
      /\ \A t : Dist(u, t) = Dist(kk, t)
  BY <1>1, <1>2, SameTimes
<1>5. /\ Rd(u) = Rd(kk) /\ u.suspended = kk.suspended /\ Gn(u) = Gn(kk)
      /\ \A l : Ev(u, l) = Ev(kk, l)
  BY <1>2 DEF SameViews
<1>6. Proper(u, H)
  BY <1>2, <1>3, <1>4, <1>5 DEF Proper
<1>7. QED
  BY <1>2, <1>3, <1>4, <1>5, <1>6 DEF u
=============================================================================
