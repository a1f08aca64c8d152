----------------------------- MODULE DataLemmas -----------------------------
(***************************************************************************)
(* Facts about the data of the models that several proofs need: induction  *)
(* and recursion over the natural numbers, with a set in place of the      *)
(* library's operator parameter, division, and sequences put in order.     *)
(***************************************************************************)
EXTENDS Integers, FiniteSets, WellFoundedInduction, FiniteSetTheorems, TLAPS

(***************************************************************************)
(* Induction and recursion.                                                *)
(***************************************************************************)
\* A set that holds 0 and the successors of its numbers holds all numbers.
LEMMA SetInduction ==
  ASSUME NEW S, 0 \in S, \A n \in Nat : n \in S => n + 1 \in S
  PROVE  Nat \subseteq S
<1> DEFINE rest == Nat \ S
           less == {p \in Nat \X Nat : p[1] < p[2]}
<1>1. SUFFICES ASSUME rest # {} PROVE FALSE
  OBVIOUS
<1>2. \A m, n \in Nat : m < n => <<m, n>> \in less
  OBVIOUS
<1>3. IsWellFoundedOn(less, Nat)
  BY NatLessThanWellFounded, Zenon DEF OpToRel
<1> HIDE DEF less
<1>4. \E n \in rest : \A m \in rest : <<m, n>> \notin less
  BY <1>1, <1>3, WFMin
<1>5. PICK n \in rest : \A m \in rest : <<m, n>> \notin less
  BY <1>4
<1>6. n \in Nat \ {0} /\ n - 1 \in Nat /\ n - 1 < n
  BY <1>5, 0 \in S
<1>7. n - 1 \in S
  BY <1>2, <1>5, <1>6
<1> QED BY <1>5, <1>6, <1>7

\* What a loop has done after n rounds is a function of n.
IteratesTo(f, n, V, base, step) ==
  /\ f \in [0 .. n -> V]
  /\ f[0] = base
  /\ \A i \in 0 .. n - 1 : f[i + 1] = step[f[i]]

LEMMA IteratesLonger ==
  ASSUME NEW V, NEW base \in V, NEW step \in [V -> V], NEW n \in Nat, NEW f,
         IteratesTo(f, n, V, base, step)
  PROVE  \E g : IteratesTo(g, n + 1, V, base, step)
<1> DEFINE g == [i \in 0 .. n + 1 |-> IF i = n + 1 THEN step[f[n]] ELSE f[i]]
<1>1. f[n] \in V /\ \A i \in 0 .. n : f[i] \in V
  BY DEF IteratesTo
<1>2. g \in [0 .. n + 1 -> V]
  BY <1>1
<1>3. g[0] = base
  BY DEF IteratesTo
<1>4. ASSUME NEW i \in 0 .. n PROVE g[i + 1] = step[g[i]]
  BY DEF IteratesTo
<1> HIDE DEF g
<1>5. \A i \in 0 .. n + 1 - 1 : g[i + 1] = step[g[i]]
  BY <1>4
<1> QED BY <1>2, <1>3, <1>5 DEF IteratesTo

LEMMA IteratesUniquely ==
  ASSUME NEW V, NEW base \in V, NEW step \in [V -> V],
         NEW m \in Nat, NEW n \in Nat, m <= n, NEW f, NEW g,
         IteratesTo(f, m, V, base, step), IteratesTo(g, n, V, base, step)
  PROVE  \A i \in 0 .. m : f[i] = g[i]
<1> DEFINE S == {i \in Nat : i <= m => f[i] = g[i]}
<1>1. 0 \in S
  BY DEF IteratesTo
<1>2. ASSUME NEW i \in Nat, i \in S PROVE i + 1 \in S
  <2>1. CASE i + 1 <= m
    <3>1. f[i] = g[i] /\ i \in 0 .. m - 1 /\ i \in 0 .. n - 1
      BY <1>2, <2>1
    <3> QED BY <3>1 DEF IteratesTo
  <2>2. CASE ~ i + 1 <= m
    BY <2>2
  <2> QED BY <2>1, <2>2
<1> HIDE DEF S
<1>3. Nat \subseteq S
  BY <1>1, <1>2, SetInduction
<1> QED BY <1>3 DEF S

LEMMA Iteration ==
  ASSUME NEW V, NEW base \in V, NEW step \in [V -> V]
  PROVE  \E f \in [Nat -> V] : f[0] = base /\ \A n \in Nat : f[n + 1] = step[f[n]]
<1> DEFINE S == {n \in Nat : \E g : IteratesTo(g, n, V, base, step)}
           upTo(n) == CHOOSE g : IteratesTo(g, n, V, base, step)
           f == [n \in Nat |-> upTo(n)[n]]
<1>1. 0 \in S
  <2> DEFINE g == [i \in 0 .. 0 |-> base]
  <2>1. IteratesTo(g, 0, V, base, step)
    BY DEF IteratesTo
  <2> QED BY <2>1
<1>2. ASSUME NEW n \in Nat, n \in S PROVE n + 1 \in S
  <2> HIDE DEF upTo
  <2> QED BY <1>2, IteratesLonger
<1> HIDE DEF S
<1>3. Nat \subseteq S
  BY <1>1, <1>2, SetInduction
<1>4. ASSUME NEW n \in Nat PROVE IteratesTo(upTo(n), n, V, base, step)
  BY <1>3 DEF S
<1> HIDE DEF upTo
<1>5. f \in [Nat -> V] /\ f[0] = base
  BY <1>4 DEF IteratesTo
<1>6. ASSUME NEW n \in Nat PROVE f[n + 1] = step[f[n]]
  <2>1. IteratesTo(upTo(n), n, V, base, step) /\ IteratesTo(upTo(n + 1), n + 1, V, base, step)
    BY <1>4
  <2>2. upTo(n)[n] = upTo(n + 1)[n]
    BY <2>1, IteratesUniquely
  <2>3. upTo(n + 1)[n + 1] = step[upTo(n + 1)[n]]
    BY <2>1 DEF IteratesTo
  <2> QED BY <2>2, <2>3
<1> QED BY <1>5, <1>6

(***************************************************************************)
(* Sequences in order.                                                     *)
(***************************************************************************)
\* o lists the places of s, each once, in an order in which s ascends.
IsOrder(o, n, s) ==
  /\ o \in [1 .. n -> 1 .. n]
  /\ \A i \in 1 .. n : \E j \in 1 .. n : o[j] = i
  /\ \A i, j \in 1 .. n : i <= j => s[o[i]] <= s[o[j]]

LEMMA LargestExists ==
  ASSUME NEW n \in Nat, NEW s \in [1 .. n + 1 -> Int]
  PROVE  \E m \in 1 .. n + 1 : \A i \in 1 .. n + 1 : s[i] <= s[m]
<1> DEFINE S == {k \in Nat : k <= n =>
                   \E m \in 1 .. k + 1 : \A i \in 1 .. k + 1 : s[i] <= s[m]}
<1>1. 0 \in S
  <2>1. 1 \in 1 .. 0 + 1 /\ \A i \in 1 .. 0 + 1 : i = 1 /\ s[1] \in Int
    OBVIOUS
  <2> QED BY <2>1
<1>2. ASSUME NEW k \in Nat, k \in S PROVE k + 1 \in S
  <2> SUFFICES ASSUME k + 1 <= n
               PROVE  \E m \in 1 .. k + 2 : \A i \in 1 .. k + 2 : s[i] <= s[m]
    OBVIOUS
  <2>1. PICK m \in 1 .. k + 1 : \A i \in 1 .. k + 1 : s[i] <= s[m]
    BY <1>2
  <2>2. s[m] \in Int /\ s[k + 2] \in Int /\ \A i \in 1 .. k + 2 : s[i] \in Int
    OBVIOUS
  <2>3. CASE s[k + 2] <= s[m]
    <3>1. \A i \in 1 .. k + 2 : s[i] <= s[m]
      BY <2>1, <2>3
    <3> QED BY <3>1
  <2>4. CASE ~ s[k + 2] <= s[m]
    <3>1. \A i \in 1 .. k + 2 : s[i] <= s[k + 2]
      BY <2>1, <2>2, <2>4
    <3> QED BY <3>1
  <2> QED BY <2>3, <2>4
<1> HIDE DEF S
<1>3. Nat \subseteq S
  BY <1>1, <1>2, SetInduction
<1>4. n \in S
  BY <1>3
<1> QED BY <1>4 DEF S

\* The largest last, and what is in the last place instead of it.
LEMMA OrderLonger ==
  ASSUME NEW n \in Nat, NEW s \in [1 .. n + 1 -> Int],
         \A t \in [1 .. n -> Int] : \E o : IsOrder(o, n, t)
  PROVE  \E o : IsOrder(o, n + 1, s)
<1>1. PICK m \in 1 .. n + 1 : \A i \in 1 .. n + 1 : s[i] <= s[m]
  BY LargestExists
<1> DEFINE move == [i \in 1 .. n |-> IF i = m THEN n + 1 ELSE i]
           t == [i \in 1 .. n |-> s[move[i]]]
<1>2. move \in [1 .. n -> 1 .. n + 1] /\ t \in [1 .. n -> Int]
  OBVIOUS
<1> HIDE DEF t
<1>3. PICK o : IsOrder(o, n, t)
  BY <1>2
<1> DEFINE q == [i \in 1 .. n + 1 |-> IF i = n + 1 THEN m ELSE move[o[i]]]
<1>4. ASSUME NEW i \in 1 .. n
      PROVE  o[i] \in 1 .. n /\ q[i] = move[o[i]] /\ s[q[i]] = t[o[i]]
  <2>1. o[i] \in 1 .. n
    BY <1>3 DEF IsOrder
  <2>2. q[i] = move[o[i]]
    OBVIOUS
  <2> HIDE DEF q, move
  <2> QED BY <2>1, <2>2 DEF t
<1>5. q[n + 1] = m
  OBVIOUS
<1>6. q \in [1 .. n + 1 -> 1 .. n + 1]
  <2> HIDE DEF move
  <2>1. \A i \in 1 .. n : move[o[i]] \in 1 .. n + 1
    BY <1>2, <1>4
  <2> QED BY <2>1
<1>7. ASSUME NEW i \in 1 .. n + 1 PROVE \E j \in 1 .. n + 1 : q[j] = i
  <2>1. CASE i = m
    BY <1>5, <2>1
  <2>2. CASE i # m
    <3> DEFINE from == IF i = n + 1 THEN m ELSE i
    <3>1. from \in 1 .. n /\ move[from] = i
      BY <2>2
    <3>2. PICK j \in 1 .. n : o[j] = from
      BY <1>3, <3>1 DEF IsOrder
    <3>3. q[j] = i /\ j \in 1 .. n + 1
      BY <1>4, <3>1, <3>2
    <3> QED BY <3>3
  <2> QED BY <2>1, <2>2
<1>8. ASSUME NEW i \in 1 .. n + 1, NEW j \in 1 .. n + 1, i <= j
      PROVE  s[q[i]] <= s[q[j]]
  <2>1. CASE j = n + 1
    BY <1>1, <1>5, <1>6, <2>1
  <2>2. CASE j # n + 1
    <3>1. i \in 1 .. n /\ j \in 1 .. n
      BY <1>8, <2>2
    <3>2. t[o[i]] <= t[o[j]]
      BY <1>3, <1>8, <3>1 DEF IsOrder
    <3> QED BY <1>4, <3>1, <3>2
  <2> QED BY <2>1, <2>2
<1> HIDE DEF q
<1> QED BY <1>6, <1>7, <1>8 DEF IsOrder

LEMMA OrderExists ==
  ASSUME NEW n \in Nat, NEW s \in [1 .. n -> Int] PROVE \E o : IsOrder(o, n, s)
<1> DEFINE S == {k \in Nat : \A t \in [1 .. k -> Int] : \E o : IsOrder(o, k, t)}
<1>1. 0 \in S
  <2> DEFINE o == [i \in 1 .. 0 |-> i]
  <2>1. 1 .. 0 = {} /\ o \in [1 .. 0 -> 1 .. 0]
    OBVIOUS
  <2> HIDE DEF o
  <2>2. \A t : IsOrder(o, 0, t)
    BY <2>1 DEF IsOrder
  <2> QED BY <2>2
<1>2. ASSUME NEW k \in Nat, k \in S PROVE k + 1 \in S
  <2>1. ASSUME NEW t \in [1 .. k + 1 -> Int] PROVE \E o : IsOrder(o, k + 1, t)
    BY <1>2, OrderLonger
  <2> QED BY <2>1
<1> HIDE DEF S
<1>3. Nat \subseteq S
  BY <1>1, <1>2, SetInduction
<1> QED BY <1>3 DEF S

\* The first k places of an order are k places.
Firsts(o, k) == {o[j] : j \in 1 .. k}

LEMMA FirstPlaces ==
  ASSUME NEW n \in Nat, NEW s, NEW o, IsOrder(o, n, s), NEW k \in 0 .. n
  PROVE  IsFiniteSet(Firsts(o, k)) /\ Cardinality(Firsts(o, k)) = k
<1> DEFINE first == [j \in 1 .. k |-> o[j]]
           places == Firsts(o, k)
<1>1. IsFiniteSet(1 .. n) /\ Cardinality(1 .. n) = n
  BY FS_Interval
<1>2. IsFiniteSet(1 .. k) /\ Cardinality(1 .. k) = k
  BY FS_Interval
<1>3. o \in Surjection(1 .. n, 1 .. n)
  BY DEF IsOrder, Surjection
<1>4. o \in Injection(1 .. n, 1 .. n)
  BY <1>1, <1>3, FS_SurjSameCardinalityImpliesInj
<1>5. \A i, j \in 1 .. n : o[i] = o[j] => i = j
  BY <1>4 DEF Injection, IsInjective
<1>6. first \in Surjection(1 .. k, places)
  BY DEF Surjection, Firsts
<1>7. \A i, j \in 1 .. k : first[i] = first[j] => i = j
  BY <1>5
<1>8. first \in Injection(1 .. k, places)
  BY <1>7 DEF Injection, IsInjective, Firsts
<1> HIDE DEF first, places
<1>9. IsFiniteSet(places) /\ Cardinality(places) = Cardinality(1 .. k)
  BY <1>2, <1>6, <1>8, FS_Surjection
<1> QED BY <1>2, <1>9 DEF places

\* What stands behind k others of a sequence in order has at most k smaller
\* ones, and with them at least k + 1 that are not larger.
Smaller(s, n, v) == {i \in 1 .. n : s[i] < v}
NotLarger(s, n, v) == {i \in 1 .. n : s[i] <= v}

LEMMA RankInOrder ==
  ASSUME NEW n \in Nat, NEW s \in [1 .. n -> Int], NEW o, IsOrder(o, n, s),
         NEW k \in 0 .. n - 1
  PROVE  LET v == s[o[k + 1]] IN
           /\ Cardinality(Smaller(s, n, v)) \in Nat /\ Cardinality(Smaller(s, n, v)) <= k
           /\ Cardinality(NotLarger(s, n, v)) \in Nat /\ Cardinality(NotLarger(s, n, v)) >= k + 1
<1> DEFINE v == s[o[k + 1]]
           smaller == Smaller(s, n, v)
           others == NotLarger(s, n, v)
<1>1. k \in 0 .. n /\ k + 1 \in 0 .. n /\ k + 1 \in 1 .. n
  OBVIOUS
<1>2. \A i \in 1 .. n : o[i] \in 1 .. n /\ s[o[i]] \in Int
  BY DEF IsOrder
<1>3. v \in Int /\ \A i \in 1 .. n : s[i] \in Int
  BY <1>1, <1>2
<1>4. \A j \in 1 .. n : (k + 1 <= j => v <= s[o[j]]) /\ (j <= k + 1 => s[o[j]] <= v)
  BY <1>1 DEF IsOrder
<1> HIDE DEF v
<1>5. ASSUME NEW i \in smaller PROVE i \in Firsts(o, k)
  <2>1. i \in 1 .. n /\ s[i] < v
    BY <1>5 DEF Smaller
  <2>2. PICK j \in 1 .. n : o[j] = i
    BY <2>1 DEF IsOrder
  <2>3. ~ k + 1 <= j
    BY <1>3, <1>4, <2>1, <2>2
  <2>4. j \in 1 .. k
    BY <2>3
  <2> QED BY <2>2, <2>4 DEF Firsts
<1>6. ASSUME NEW i \in Firsts(o, k + 1) PROVE i \in others
  <2>1. PICK j \in 1 .. k + 1 : i = o[j]
    BY DEF Firsts
  <2>2. j \in 1 .. n /\ j <= k + 1
    BY <1>1, <2>1
  <2> QED BY <1>2, <1>4, <2>1, <2>2 DEF NotLarger
<1>7. IsFiniteSet(Firsts(o, k)) /\ Cardinality(Firsts(o, k)) = k
  BY <1>1, FirstPlaces
<1>8. IsFiniteSet(Firsts(o, k + 1)) /\ Cardinality(Firsts(o, k + 1)) = k + 1
  BY <1>1, FirstPlaces
<1>9. IsFiniteSet(1 .. n) /\ others \subseteq 1 .. n
  BY FS_Interval DEF NotLarger
<1> HIDE DEF smaller, others
<1>10. IsFiniteSet(smaller) /\ Cardinality(smaller) <= Cardinality(Firsts(o, k))
  BY <1>5, <1>7, FS_Subset
<1>11. IsFiniteSet(others)
  BY <1>9, FS_Subset
<1>12. Cardinality(Firsts(o, k + 1)) <= Cardinality(others)
  BY <1>6, <1>11, FS_Subset
<1>13. Cardinality(smaller) \in Nat /\ Cardinality(others) \in Nat
  BY <1>10, <1>11, FS_CardinalityType
<1> QED BY <1>7, <1>8, <1>10, <1>12, <1>13 DEF smaller, others, v
=============================================================================
