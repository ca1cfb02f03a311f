----------------------------- MODULE NaturalSets -----------------------------
(***************************************************************************)
(* Induction over the natural numbers, stated of sets: the provers cannot  *)
(* instantiate a theorem about predicates.                                 *)
(***************************************************************************)
EXTENDS Integers, FiniteSets, FiniteSetTheorems, WellFoundedInduction, TLAPS

\* A set of natural numbers has a least element.
LEMMA LeastNatural ==
    ASSUME NEW S \in SUBSET Nat, S # {}
    PROVE  \E n \in S : \A m \in S : n <= m
<1>1. IsWellFoundedOn(OpToRel(<, Nat), Nat)
  BY NatLessThanWellFounded
<1> DEFINE R == OpToRel(<, Nat)
<1> HIDE DEF R
<1>2. \E n \in S : \A m \in S : <<m, n>> \notin R
  BY <1>1, WFMin DEF R
<1>3. PICK n \in S : \A m \in S : <<m, n>> \notin R
  BY <1>2
<1>4. \A m \in S : ~(m < n)
  BY <1>3 DEF R, OpToRel
<1> QED
  BY <1>3, <1>4

\* Some of the first numbers have a last one.
LEMMA GreatestNatural ==
    ASSUME NEW n \in Nat, NEW S \in SUBSET (0 .. n), S # {}
    PROVE  \E k \in S : \A m \in S : m <= k
<1> DEFINE T == {j \in 0 .. n : n - j \in S}
<1>1. T \in SUBSET Nat /\ T # {}
  <2>1. PICK k \in S : TRUE
    OBVIOUS
  <2>2. n - k \in 0 .. n /\ n - (n - k) = k
    BY <2>1
  <2>3. n - k \in T
    BY <2>1, <2>2
  <2>4. \A j \in T : j \in 0 .. n
    OBVIOUS
  <2> HIDE DEF T
  <2> QED
    BY <2>3, <2>4
<1>2. PICK j \in T : \A i \in T : j <= i
  BY <1>1, LeastNatural
<1>3. ASSUME NEW m \in S PROVE m <= n - j
  <2>1. n - m \in T /\ m \in 0 .. n /\ j \in 0 .. n
    <3>1. n - m \in 0 .. n /\ n - (n - m) = m
      OBVIOUS
    <3> QED
      BY <1>2, <3>1
  <2>2. j <= n - m
    BY <1>2, <2>1
  <2> QED
    BY <2>1, <2>2
<1> QED
  BY <1>2, <1>3

\* A set with 0 that has with each number the next is that of all.
LEMMA SetInduction ==
    ASSUME NEW S \in SUBSET Nat, 0 \in S, \A n \in S : n + 1 \in S
    PROVE  S = Nat
<1> SUFFICES ASSUME Nat \ S # {} PROVE FALSE
  OBVIOUS
<1>1. PICK n \in Nat \ S : \A m \in Nat \ S : n <= m
  BY LeastNatural
<1>2. n # 0 /\ n - 1 \in Nat
  BY <1>1
<1>3. n - 1 \in S
  BY <1>1, <1>2
<1> QED
  BY <1>1, <1>2, <1>3

\* f is defined by recursion up to n: what it is of 0, and of each number by a step.
IsRecursion(f, X, first, n, step) ==
    f \in [0 .. n -> X] /\ f[0] = first /\ \A k \in 1 .. n : f[k] = step[k][f[k - 1]]

\* There is such a function.
LEMMA RecursionExists ==
    ASSUME NEW X, NEW first \in X, NEW n \in Nat, NEW step \in [1 .. n -> [X -> X]]
    PROVE  \E f : IsRecursion(f, X, first, n, step)
<1> DEFINE Up(m) == {f \in [0 .. m -> X] : /\ f[0] = first
                                           /\ \A k \in 1 .. m : f[k] = step[k][f[k - 1]]}
           S == {m \in Nat : m <= n => Up(m) # {}}
<1>1. Up(0) # {}
  <2> DEFINE g == [k \in 0 .. 0 |-> first]
  <2>1. g \in [0 .. 0 -> X] /\ g[0] = first /\ 1 .. 0 = {}
    OBVIOUS
  <2> HIDE DEF g
  <2>2. g \in Up(0)
    BY <2>1
  <2> QED
    BY <2>2
<1>2. ASSUME NEW m \in Nat, m + 1 <= n, Up(m) # {} PROVE Up(m + 1) # {}
  <2>1. PICK f \in Up(m) : TRUE
    BY <1>2, Zenon
  <2> DEFINE g == [k \in 0 .. m + 1 |-> IF k = m + 1 THEN step[m + 1][f[m]] ELSE f[k]]
  <2>2. f \in [0 .. m -> X] /\ f[0] = first /\ \A k \in 1 .. m : f[k] = step[k][f[k - 1]]
    BY <2>1
  <2>3. step[m + 1][f[m]] \in X
    <3>1. m \in 0 .. m /\ m + 1 \in 1 .. n
      BY <1>2
    <3>2. f[m] \in X
      BY <2>2, <3>1
    <3> QED
      BY <3>1, <3>2
  <2>4. g \in [0 .. m + 1 -> X] /\ g[0] = first
    BY <1>2, <2>2, <2>3
  <2>5. ASSUME NEW k \in 1 .. m + 1 PROVE g[k] = step[k][g[k - 1]]
    <3>1. CASE k = m + 1
      BY <1>2, <3>1
    <3>2. CASE k # m + 1
      <4>1. k \in 1 .. m /\ k - 1 \in 0 .. m /\ k - 1 # m + 1
        BY <1>2, <3>2
      <4> QED
        BY <2>2, <4>1
    <3> QED
      BY <3>1, <3>2
  <2> HIDE DEF g
  <2>6. g \in Up(m + 1)
    BY <2>4, <2>5
  <2> QED
    BY <2>6
<1> HIDE DEF Up
<1>3. 0 \in S /\ \A m \in S : m + 1 \in S
  BY <1>1, <1>2
<1> HIDE DEF S
<1>4. S = Nat
  <2>1. S \in SUBSET Nat
    BY DEF S
  <2> QED
    BY <1>3, <2>1, SetInduction
<1>5. \E f : f \in Up(n)
  BY <1>4 DEF S
<1> QED
  BY <1>5 DEF Up, IsRecursion
=============================================================================
