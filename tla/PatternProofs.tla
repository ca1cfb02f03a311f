--------------------------- MODULE PatternProofs ---------------------------
(***************************************************************************)
(* Lemmas about Pattern's operators, for texts of any characters: pieces   *)
(* of a text, segments joined to one, and that a compiled pattern matches  *)
(* exactly the paths its text reads as.                                    *)
(***************************************************************************)
EXTENDS Pattern, NaturalSets, SequenceTheorems

(***************************************************************************)
(* Numbers by their rank.                                                  *)
(***************************************************************************)
UpTo(numbers, i) == {k \in numbers : k <= i}

\* The rank of a number grows with it.
LEMMA RankGrows ==
    ASSUME NEW S \in SUBSET Nat, IsFiniteSet(S), NEW i \in S, NEW j \in S
    PROVE  /\ Cardinality(UpTo(S, i)) \in 1 .. Cardinality(S)
           /\ i < j => Cardinality(UpTo(S, i)) < Cardinality(UpTo(S, j))
<1>1. ASSUME NEW m \in Nat PROVE IsFiniteSet(UpTo(S, m)) /\ Cardinality(UpTo(S, m)) \in Nat
                                  /\ Cardinality(UpTo(S, m)) <= Cardinality(S)
  BY FS_Subset, FS_CardinalityType DEF UpTo
<1>2. UpTo(S, i) # {} /\ i \in Nat /\ j \in Nat /\ Cardinality(S) \in Nat
  BY FS_CardinalityType DEF UpTo
<1>3. Cardinality(UpTo(S, i)) >= 1
  BY <1>1, <1>2, FS_EmptySet
<1>4. ASSUME i < j PROVE Cardinality(UpTo(S, i)) < Cardinality(UpTo(S, j))
  <2>1. UpTo(S, i) \subseteq UpTo(S, j) /\ j \in UpTo(S, j) \ UpTo(S, i)
    <3>1. \A k \in S : k \in Nat
      OBVIOUS
    <3>2. \A k \in UpTo(S, i) : k \in UpTo(S, j)
      BY <1>2, <1>4, <3>1 DEF UpTo
    <3>3. j \in UpTo(S, j) /\ j \notin UpTo(S, i)
      BY <1>2, <1>4 DEF UpTo
    <3> QED
      BY <3>2, <3>3
  <2>2. Cardinality(UpTo(S, i)) <= Cardinality(UpTo(S, j))
        /\ Cardinality(UpTo(S, i)) # Cardinality(UpTo(S, j))
    BY <1>1, <1>2, <2>1, FS_Subset
  <2> QED
    BY <1>1, <1>2, <2>2
<1> QED
  BY <1>1, <1>2, <1>3, <1>4

\* Every rank has its number.
LEMMA NthHasRank ==
    ASSUME NEW S \in SUBSET Nat, IsFiniteSet(S), NEW n \in 1 .. Cardinality(S)
    PROVE  Nth(S, n) \in S /\ Cardinality(UpTo(S, Nth(S, n))) = n
<1> DEFINE Ranked == {m \in Nat : m + 1 <= Cardinality(S) =>
                                  \E i \in S : Cardinality(UpTo(S, i)) = m + 1}
<1>0. Cardinality(S) \in Nat
  BY FS_CardinalityType
<1>1. 0 \in Ranked
  <2> SUFFICES ASSUME 1 <= Cardinality(S) PROVE \E i \in S : Cardinality(UpTo(S, i)) = 1
    BY <1>0
  <2>1. S # {}
    BY <1>0, FS_EmptySet
  <2>2. PICK i \in S : \A m \in S : i <= m
    BY <2>1, LeastNatural
  <2>3. UpTo(S, i) = {i}
    <3>1. \A k \in S : k \in Nat /\ i <= k
      BY <2>2
    <3>2. \A k \in UpTo(S, i) : k = i
      BY <3>1 DEF UpTo
    <3>3. i \in UpTo(S, i)
      BY <3>1 DEF UpTo
    <3> QED
      BY <3>2, <3>3
  <2> QED
    BY <2>3, FS_Singleton
<1>2. ASSUME NEW m \in Ranked PROVE m + 1 \in Ranked
  <2> SUFFICES ASSUME m + 2 <= Cardinality(S) PROVE \E i \in S : Cardinality(UpTo(S, i)) = m + 2
    BY <1>2
  <2>0. m \in Nat /\ \E i \in S : Cardinality(UpTo(S, i)) = m + 1
    BY <1>0, <1>2
  <2> HIDE DEF Ranked
  <2>1. PICK i \in S : Cardinality(UpTo(S, i)) = m + 1
    BY <2>0
  <2> DEFINE above == {k \in S : i < k}
  <2>2. above # {}
    <3>1. ASSUME above = {} PROVE UpTo(S, i) = S
      <4>1. \A k \in S : k \in Nat /\ i \in Nat /\ ~(i < k)
        BY <3>1
      <4>2. \A k \in S : k \in UpTo(S, i)
        BY <4>1 DEF UpTo
      <4>3. UpTo(S, i) \subseteq S
        BY DEF UpTo
      <4> QED
        BY <4>2, <4>3
    <3> QED
      BY <1>0, <2>0, <2>1, <3>1
  <2>3. PICK j \in above : \A k \in above : j <= k
    <3>1. above \in SUBSET Nat
      OBVIOUS
    <3> HIDE DEF above
    <3> QED
      BY <2>2, <3>1, LeastNatural
  <2>4. UpTo(S, j) = UpTo(S, i) \cup {j} /\ j \notin UpTo(S, i)
    <3>1. \A k \in S : k \in Nat /\ (i < k => j <= k)
      BY <2>3
    <3>2. i \in S /\ j \in S /\ i < j
      BY <2>3
    <3>3. \A k \in S : k <= j <=> k <= i \/ k = j
      BY <3>1, <3>2
    <3>4. j \notin UpTo(S, i)
      BY <3>1, <3>2 DEF UpTo
    <3> QED
      BY <3>2, <3>3, <3>4 DEF UpTo
  <2>5. IsFiniteSet(UpTo(S, i))
    BY FS_Subset DEF UpTo
  <2>6. Cardinality(UpTo(S, j)) = m + 2
    <3>1. Cardinality(UpTo(S, i) \cup {j}) = Cardinality(UpTo(S, i)) + 1
      BY <2>4, <2>5, FS_AddElement
    <3> QED
      BY <2>0, <2>1, <2>4, <3>1
  <2> QED
    BY <2>3, <2>6
<1>3. Ranked = Nat
  <2>1. Ranked \in SUBSET Nat
    OBVIOUS
  <2> HIDE DEF Ranked
  <2> QED
    BY <1>1, <1>2, <2>1, SetInduction
<1>4. \E i \in S : Cardinality(UpTo(S, i)) = n
  <2>1. n - 1 \in Nat /\ (n - 1) + 1 = n /\ n <= Cardinality(S)
    BY <1>0
  <2>2. n - 1 \in Ranked
    BY <1>3, <2>1
  <2> QED
    BY <2>1, <2>2
<1> QED
  BY <1>4, Zenon DEF Nth, UpTo

\* A number is the one of its rank.
LEMMA NthOfRank ==
    ASSUME NEW S \in SUBSET Nat, IsFiniteSet(S), NEW i \in S
    PROVE  Nth(S, Cardinality(UpTo(S, i))) = i
<1> DEFINE n == Cardinality(UpTo(S, i))
           j == Nth(S, n)
<1>1. n \in 1 .. Cardinality(S)
  BY RankGrows
<1>2. j \in S /\ Cardinality(UpTo(S, j)) = n
  BY <1>1, NthHasRank
<1>3. ~(i < j) /\ ~(j < i)
  <2>1. n \in Nat
    BY <1>1
  <2> HIDE DEF j
  <2> QED
    BY <1>2, <2>1, RankGrows
<1> HIDE DEF j
<1>4. j = i
  BY <1>2, <1>3
<1> QED
  BY <1>4 DEF j

(***************************************************************************)
(* Texts cut into pieces and put together.                                 *)
(***************************************************************************)
\* Where a text is cut: in front of it, behind it, and at every c.
Cuts(text, c) == {0, Len(text) + 1} \cup {i \in DOMAIN text : text[i] = c}

\* Two things are two.
LEMMA TwoElements ==
    ASSUME NEW a, NEW b, a # b
    PROVE  IsFiniteSet({a, b}) /\ Cardinality({a, b}) = 2
<1>1. IsFiniteSet({a}) /\ Cardinality({a}) = 1
  BY FS_Singleton
<1>2. IsFiniteSet({a} \cup {b}) /\ Cardinality({a} \cup {b}) = 2
  BY <1>1, FS_AddElement
<1>3. {a} \cup {b} = {a, b}
  OBVIOUS
<1> QED
  BY <1>2, <1>3

\* They are finitely many, and two at least.
LEMMA CutsFinite ==
    ASSUME NEW T, NEW text \in Seq(T), NEW c
    PROVE  /\ Cuts(text, c) \in SUBSET (0 .. Len(text) + 1)
           /\ IsFiniteSet(Cuts(text, c)) /\ Cardinality(Cuts(text, c)) \in Nat \ {0, 1}
<1>1. Len(text) \in Nat /\ DOMAIN text = 1 .. Len(text)
  OBVIOUS
<1>2. Cuts(text, c) \in SUBSET (0 .. Len(text) + 1)
  BY <1>1 DEF Cuts
<1>3. IsFiniteSet(0 .. Len(text) + 1)
  BY <1>1, FS_Interval
<1>4. IsFiniteSet(Cuts(text, c)) /\ Cardinality(Cuts(text, c)) \in Nat
  BY <1>2, <1>3, FS_Subset, FS_CardinalityType
<1>5. {0, Len(text) + 1} \subseteq Cuts(text, c)
  BY DEF Cuts
<1>6. Cardinality({0, Len(text) + 1}) = 2
  <2> DEFINE end == Len(text) + 1
  <2>1. 0 # end
    BY <1>1
  <2> HIDE DEF end
  <2>2. Cardinality({0, end}) = 2
    BY <2>1, TwoElements
  <2> QED
    BY <2>2 DEF end
<1>7. 2 <= Cardinality(Cuts(text, c))
  BY <1>4, <1>5, <1>6, FS_Subset
<1> QED
  BY <1>2, <1>4, <1>7

\* A part of a text.
PartOf(part, text) == \E from \in 1 .. Len(text) + 2, to \in 0 .. Len(text) :
    part = SubSeq(text, from, to)

\* The pieces of a text are parts of it, and there is one at least.
LEMMA SplitParts ==
    ASSUME NEW T, NEW text \in Seq(T), NEW c
    PROVE  /\ SplitAt(text, c) \in Seq(Seq(T)) /\ SplitAt(text, c) # <<>>
           /\ \A n \in DOMAIN SplitAt(text, c) : PartOf(SplitAt(text, c)[n], text)
<1> DEFINE cuts == Cuts(text, c)
           count == Cardinality(cuts)
           last == count - 1
           piece(n) == SubSeq(text, Nth(cuts, n) + 1, Nth(cuts, n + 1) - 1)
<1>1. cuts \in SUBSET (0 .. Len(text) + 1) /\ IsFiniteSet(cuts) /\ count \in Nat \ {0, 1}
  BY CutsFinite
<1>2. SplitAt(text, c) = [n \in 1 .. last |-> piece(n)]
  BY DEF SplitAt, Cuts
<1>3. ASSUME NEW n \in 1 .. last PROVE PartOf(piece(n), text) /\ piece(n) \in Seq(T)
  <2> HIDE DEF cuts, count
  <2>1. n \in 1 .. count /\ n + 1 \in 1 .. count
    BY <1>1
  <2>2. cuts \in SUBSET Nat /\ Len(text) \in Nat
    BY <1>1
  <2>3. Nth(cuts, n) \in cuts /\ Nth(cuts, n + 1) \in cuts
    BY <1>1, <2>1, <2>2, NthHasRank DEF count
  <2> DEFINE from == Nth(cuts, n) + 1
             to == Nth(cuts, n + 1) - 1
  <2>4. from \in 1 .. Len(text) + 2 /\ to \in -1 .. Len(text) /\ Len(text) \in Nat
    <3>1. Nth(cuts, n) \in 0 .. Len(text) + 1 /\ Nth(cuts, n + 1) \in 0 .. Len(text) + 1
      BY <1>1, <2>3
    <3> QED
      BY <2>2, <3>1
  <2>s. piece(n) = SubSeq(text, from, to)
    OBVIOUS
  <2> HIDE DEF from, to, piece
  <2>5. SubSeq(text, from, to) \in Seq(T)
    BY <2>4
  <2>6. CASE to = -1
    <3>1. SubSeq(text, from, to) = SubSeq(text, from, 0)
      BY <2>4, <2>6, SubSeqEmpty
    <3> QED
      BY <2>s, <2>4, <2>5, <3>1 DEF PartOf
  <2>7. CASE to # -1
    <3>1. to \in 0 .. Len(text)
      BY <2>4, <2>7
    <3> QED
      BY <2>s, <2>4, <2>5, <3>1 DEF PartOf
  <2> QED
    BY <2>6, <2>7
<1>l. last \in Nat \ {0}
  BY <1>1
<1> HIDE DEF piece, last, cuts
<1>4. SplitAt(text, c) \in Seq(Seq(T)) /\ DOMAIN SplitAt(text, c) = 1 .. last
  BY <1>l, <1>2, <1>3
<1>5. SplitAt(text, c) # <<>>
  BY <1>l, <1>4
<1> QED
  BY <1>2, <1>3, <1>4, <1>5

\* A text without the character is its only piece.
LEMMA SplitWhole ==
    ASSUME NEW T, NEW text \in Seq(T), NEW c, ~Contains(text, c)
    PROVE  SplitAt(text, c) = <<text>>
<1> DEFINE cuts == Cuts(text, c)
           end == Len(text) + 1
<1>1. Len(text) \in Nat /\ DOMAIN text = 1 .. Len(text) /\ end \in Nat \ {0}
  OBVIOUS
<1>2. cuts = {0, end}
  BY <1>1 DEF Cuts, Contains
<1>3. IsFiniteSet(cuts)
  BY CutsFinite
<1> HIDE DEF cuts, end
<1>4. cuts \in SUBSET Nat /\ 0 \in cuts /\ end \in cuts /\ 0 # end
  BY <1>1, <1>2
<1>5. UpTo(cuts, 0) = {0} /\ UpTo(cuts, end) = {0, end}
  BY <1>1, <1>2 DEF UpTo
<1>6. Cardinality({0}) = 1 /\ Cardinality({0, end}) = 2
  BY <1>4, FS_Singleton, TwoElements
<1>7. Nth(cuts, 1) = 0 /\ Nth(cuts, 2) = end
  <2>1. Nth(cuts, Cardinality(UpTo(cuts, 0))) = 0
    BY <1>3, <1>4, NthOfRank
  <2>2. Nth(cuts, Cardinality(UpTo(cuts, end))) = end
    BY <1>3, <1>4, NthOfRank
  <2> QED
    BY <1>5, <1>6, <2>1, <2>2
<1>8. Cardinality(cuts) = 2
  BY <1>2, <1>6
<1>9. SplitAt(text, c) = [n \in 1 .. Cardinality(cuts) - 1 |->
                            SubSeq(text, Nth(cuts, n) + 1, Nth(cuts, n + 1) - 1)]
  BY DEF SplitAt, cuts, Cuts
<1>10. SplitAt(text, c) = [n \in 1 .. 1 |-> SubSeq(text, Nth(cuts, n) + 1, Nth(cuts, n + 1) - 1)]
  BY <1>8, <1>9
<1>11. DOMAIN SplitAt(text, c) = 1 .. 1 /\ SplitAt(text, c)[1] = SubSeq(text, 1, Len(text))
  BY <1>1, <1>7, <1>10 DEF end
<1>12. SubSeq(text, 1, Len(text)) = text
  BY SubSeqFull
<1>13. SplitAt(text, c) = [n \in 1 .. 1 |-> text]
  <2>1. \A n \in 1 .. 1 : n = 1
    OBVIOUS
  <2>2. \A n \in 1 .. 1 : SplitAt(text, c)[n] = text
    BY <2>1, <1>11, <1>12
  <2> DEFINE whole == [n \in 1 .. 1 |-> text]
  <2>3. SplitAt(text, c) = [n \in DOMAIN SplitAt(text, c) |-> SplitAt(text, c)[n]]
    BY <1>10
  <2> QED
    BY <2>2, <2>3, <1>11
<1> QED
  BY <1>13

\* Flattening is concatenation, one list after the other.
LEMMA FlattenIsConcat ==
    ASSUME NEW T, NEW lists \in Seq(Seq(T))
    PROVE  \E g \in [0 .. Len(lists) -> Seq(T)] :
               /\ g[0] = <<>>
               /\ \A k \in 1 .. Len(lists) : g[k] = g[k - 1] \o lists[k]
               /\ FlattenSeq(lists) = g[Len(lists)]
<1> DEFINE n == Len(lists)
           X == Seq(T)
           step == [k \in 1 .. n |-> [s \in X |-> s \o lists[k]]]
           Is(f) == f = [i \in 1 .. n |-> IF i = 1 THEN lists[i] ELSE f[i - 1] \o lists[i]]
<1>1. n \in Nat /\ <<>> \in X /\ \A k \in 1 .. n : lists[k] \in X
  OBVIOUS
<1>2. PICK g : IsRecursion(g, X, <<>>, n, step)
  <2>1. \A k \in 1 .. n : [s \in X |-> s \o lists[k]] \in [X -> X]
    BY <1>1
  <2> HIDE DEF X
  <2>2. step \in [1 .. n -> [X -> X]]
    BY <2>1
  <2> HIDE DEF step, n, Is
  <2> QED
    BY <1>1, <2>2, RecursionExists
<1>3. /\ g \in [0 .. n -> X] /\ g[0] = <<>>
      /\ \A k \in 1 .. n : g[k] = step[k][g[k - 1]]
  BY <1>2 DEF IsRecursion
<1>4. ASSUME NEW k \in 1 .. n PROVE g[k - 1] \in X /\ g[k] = g[k - 1] \o lists[k]
  <2>1. k - 1 \in 0 .. n
    BY <1>1
  <2>2. g[k - 1] \in X
    BY <1>3, <2>1
  <2> HIDE DEF X
  <2>3. step[k][g[k - 1]] = g[k - 1] \o lists[k]
    BY <2>2
  <2> QED
    BY <1>3, <2>2, <2>3
<1>5. ASSUME n # 0 PROVE lists[1] \in Seq(T) /\ g[1] = lists[1]
  <2>1. 1 \in 1 .. n /\ 1 - 1 = 0
    BY <1>1, <1>5
  <2>2. g[1] = g[0] \o lists[1] /\ lists[1] \in Seq(T)
    BY <1>1, <1>4, <2>1
  <2> QED
    BY <1>3, <2>2, ConcatEmptySeq
<1>6. CASE n = 0
  <2>1. lists = <<>> /\ FlattenSeq(lists) = lists
    BY <1>6 DEF FlattenSeq
  <2> QED
    BY <1>1, <1>3, <1>4, <1>6, <2>1
<1>7. CASE n # 0
  <2> DEFINE h == CHOOSE f : Is(f)
  <2>1. FlattenSeq(lists) = h[n]
    BY <1>7 DEF FlattenSeq
  <2>2. Is(h)
    <3> DEFINE f == [i \in 1 .. n |-> g[i]]
    <3>1. ASSUME NEW i \in 1 .. n PROVE f[i] = IF i = 1 THEN lists[i] ELSE f[i - 1] \o lists[i]
      <4>1. CASE i = 1
        BY <1>5, <1>7, <4>1
      <4>2. CASE i # 1
        <5>1. i - 1 \in 1 .. n
          BY <1>1, <4>2
        <5> QED
          BY <1>4, <4>2, <5>1
      <4> QED
        BY <4>1, <4>2
    <3>2. Is(f)
      BY <3>1
    <3> HIDE DEF Is, f
    <3> QED
      BY <3>2
  <2> HIDE DEF h
  <2>3. ASSUME NEW i \in 1 .. n PROVE h[i] = IF i = 1 THEN lists[i] ELSE h[i - 1] \o lists[i]
    BY <2>2
  <2> DEFINE Same == {m \in Nat : m + 1 <= n => h[m + 1] = g[m + 1]}
  <2>4. 0 \in Same
    <3> SUFFICES h[1] = g[1]
      OBVIOUS
    <3>1. 1 \in 1 .. n
      BY <1>1, <1>7
    <3> QED
      BY <1>5, <1>7, <2>3, <3>1
  <2>5. ASSUME NEW m \in Same PROVE m + 1 \in Same
    <3> SUFFICES ASSUME m + 2 <= n PROVE h[m + 2] = g[m + 2]
      BY <2>5
    <3>1. m \in Nat /\ m + 1 \in 1 .. n /\ m + 2 \in 1 .. n /\ m + 2 # 1 /\ (m + 2) - 1 = m + 1
      BY <1>1
    <3>2. h[m + 1] = g[m + 1]
      BY <1>1, <3>1
    <3>3. h[m + 2] = h[m + 1] \o lists[m + 2]
      BY <2>3, <3>1
    <3>4. g[m + 2] = g[m + 1] \o lists[m + 2]
      BY <1>4, <3>1
    <3> QED
      BY <3>2, <3>3, <3>4
  <2>6. Same = Nat
    <3>1. Same \in SUBSET Nat
      OBVIOUS
    <3> HIDE DEF Same
    <3> QED
      BY <2>4, <2>5, <3>1, SetInduction
  <2>7. h[n] = g[n]
    <3>1. n - 1 \in Nat /\ (n - 1) + 1 = n
      BY <1>1, <1>7
    <3>2. n - 1 \in Same
      BY <2>6, <3>1
    <3> QED
      BY <3>1, <3>2
  <2> QED
    BY <1>3, <1>4, <2>1, <2>7
<1> QED
  BY <1>6, <1>7

\* What is in the lists is in the flattened one, and nothing else.
LEMMA FlattenType ==
    ASSUME NEW T, NEW lists \in Seq(Seq(T))
    PROVE  FlattenSeq(lists) \in Seq(T)
<1>1. PICK g \in [0 .. Len(lists) -> Seq(T)] : FlattenSeq(lists) = g[Len(lists)]
  BY FlattenIsConcat
<1>2. Len(lists) \in 0 .. Len(lists)
  OBVIOUS
<1> QED
  BY <1>1, <1>2

\* Lists of one element each are flattened to the list of the elements.
LEMMA FlattenSingles ==
    ASSUME NEW T, NEW list \in Seq(T), NEW lists, lists = [i \in DOMAIN list |-> <<list[i]>>]
    PROVE  FlattenSeq(lists) = list
<1> DEFINE n == Len(list)
<1>1. n \in Nat /\ DOMAIN list = 1 .. n /\ \A i \in 1 .. n : list[i] \in T
  OBVIOUS
<1>2. lists \in Seq(Seq(T)) /\ Len(lists) = n /\ \A i \in 1 .. n : lists[i] = <<list[i]>>
  <2>1. \A i \in 1 .. n : <<list[i]>> \in Seq(T)
    BY <1>1
  <2> HIDE DEF n
  <2>2. lists \in [1 .. n -> Seq(T)]
    BY <1>1, <2>1
  <2> QED
    BY <1>1, <2>2
<1>3. PICK g \in [0 .. Len(lists) -> Seq(T)] :
          /\ g[0] = <<>>
          /\ \A k \in 1 .. Len(lists) : g[k] = g[k - 1] \o lists[k]
          /\ FlattenSeq(lists) = g[Len(lists)]
  <2>1. lists \in Seq(Seq(T))
    BY <1>2
  <2> QED
    BY <2>1, FlattenIsConcat, Zenon
<1> DEFINE Same == {m \in Nat : m <= n => g[m] = SubSeq(list, 1, m)}
<1>4. 0 \in Same
  BY <1>3, SubSeqEmpty
<1>5. ASSUME NEW m \in Same PROVE m + 1 \in Same
  <2> SUFFICES ASSUME m + 1 <= n PROVE g[m + 1] = SubSeq(list, 1, m + 1)
    BY <1>5
  <2>1. m \in Nat /\ m + 1 \in 1 .. n /\ (m + 1) - 1 = m
    BY <1>1
  <2>2. g[m + 1] = SubSeq(list, 1, m) \o <<list[m + 1]>>
    <3>1. g[m] = SubSeq(list, 1, m)
      BY <1>1, <2>1
    <3>2. g[m + 1] = g[m] \o lists[m + 1] /\ lists[m + 1] = <<list[m + 1]>>
      <4> HIDE DEF Same
      <4> QED
        BY <1>2, <1>3, <2>1
    <3> QED
      BY <3>1, <3>2
  <2>3. SubSeq(list, 1, m + 1) = SubSeq(list, 1, (m + 1) - 1) \o <<list[m + 1]>>
    BY <1>1, <2>1, SubSeqRecursiveSecond
  <2> QED
    BY <2>1, <2>2, <2>3
<1>6. Same = Nat
  <2>1. Same \in SUBSET Nat
    OBVIOUS
  <2> HIDE DEF Same
  <2> QED
    BY <1>4, <1>5, <2>1, SetInduction
<1>7. g[n] = SubSeq(list, 1, n)
  <2>1. n \in Same
    BY <1>1, <1>6
  <2> QED
    BY <1>1, <2>1
<1> QED
  BY <1>2, <1>3, <1>7, SubSeqFull

(***************************************************************************)
(* Sequences and what they are flattened to.                               *)
(***************************************************************************)

\* What holds of the empty sequence, and of each with one more element, holds of all.
LEMMA SeqInduction ==
    ASSUME NEW T, NEW P \in SUBSET Seq(T), <<>> \in P, \A s \in P, x \in T : Append(s, x) \in P
    PROVE  P = Seq(T)
<1> DEFINE Ok == {n \in Nat : \A s \in Seq(T) : Len(s) = n => s \in P}
<1>1. 0 \in Ok
  BY EmptySeq
<1>2. ASSUME NEW n \in Ok PROVE n + 1 \in Ok
  <2> SUFFICES ASSUME NEW s \in Seq(T), Len(s) = n + 1 PROVE s \in P
    OBVIOUS
  <2>1. PICK t \in Seq(T), x \in T : s = Append(t, x)
    <3>1. s # <<>>
      BY EmptySeq
    <3> QED
      BY <3>1, SequenceEmptyOrAppend
  <2>2. Len(t) = n
    BY <2>1, AppendProperties
  <2>3. t \in P
    BY <1>2, <2>2
  <2> QED
    BY <2>1, <2>3
<1>3. Ok = Nat
  <2>1. Ok \in SUBSET Nat
    OBVIOUS
  <2> HIDE DEF Ok
  <2> QED
    BY <1>1, <1>2, <2>1, SetInduction
<1> SUFFICES ASSUME NEW s \in Seq(T) PROVE s \in P
  OBVIOUS
<1>4. Len(s) \in Ok
  BY <1>3
<1> QED
  BY <1>4

\* What is flattened grows by the text that is appended.
LEMMA FlattenAppend ==
    ASSUME NEW T, NEW lists \in Seq(Seq(T)), NEW list \in Seq(T)
    PROVE  FlattenSeq(Append(lists, list)) = FlattenSeq(lists) \o list
<1> DEFINE n == Len(lists)
           more == Append(lists, list)
<1>1. /\ n \in Nat /\ more \in Seq(Seq(T)) /\ Len(more) = n + 1 /\ more[n + 1] = list
      /\ \A k \in 1 .. n : more[k] = lists[k]
  BY AppendProperties
<1>2. PICK g \in [0 .. n -> Seq(T)] :
          /\ g[0] = <<>> /\ FlattenSeq(lists) = g[n]
          /\ \A k \in 1 .. n : g[k] = g[k - 1] \o lists[k]
  BY FlattenIsConcat
<1>3. PICK h \in [0 .. n + 1 -> Seq(T)] :
          /\ h[0] = <<>> /\ FlattenSeq(more) = h[n + 1]
          /\ \A k \in 1 .. n + 1 : h[k] = h[k - 1] \o more[k]
  <2> HIDE DEF more
  <2>1. PICK h \in [0 .. Len(more) -> Seq(T)] :
          /\ h[0] = <<>> /\ FlattenSeq(more) = h[Len(more)]
          /\ \A k \in 1 .. Len(more) : h[k] = h[k - 1] \o more[k]
    BY <1>1, FlattenIsConcat
  <2> QED
    BY <1>1, <2>1
<1> HIDE DEF more, n
<1> DEFINE Same == {m \in Nat : m <= n => h[m] = g[m]}
<1>4. 0 \in Same
  BY <1>2, <1>3
<1>5. ASSUME NEW m \in Same PROVE m + 1 \in Same
  <2> SUFFICES ASSUME m + 1 <= n PROVE h[m + 1] = g[m + 1]
    BY <1>5
  <2>1. m \in Nat /\ m + 1 \in 1 .. n /\ m + 1 \in 1 .. n + 1 /\ (m + 1) - 1 = m
    BY <1>1
  <2>2. h[m] = g[m]
    BY <1>1, <2>1
  <2>3. h[m + 1] = h[m] \o lists[m + 1] /\ g[m + 1] = g[m] \o lists[m + 1]
    BY <1>1, <1>2, <1>3, <2>1
  <2> QED
    BY <2>2, <2>3
<1>6. Same = Nat
  <2>1. Same \in SUBSET Nat
    OBVIOUS
  <2> HIDE DEF Same
  <2> QED
    BY <1>4, <1>5, <2>1, SetInduction
<1>7. h[n] = g[n]
  <2>1. n \in Same
    BY <1>1, <1>6
  <2> QED
    BY <1>1, <2>1
<1>8. h[n + 1] = h[n] \o more[n + 1]
  <2>1. n + 1 \in 1 .. n + 1 /\ (n + 1) - 1 = n
    BY <1>1
  <2> QED
    BY <1>3, <2>1
<1> QED
  BY <1>1, <1>2, <1>3, <1>7, <1>8 DEF more

\* Nothing is flattened to nothing.
LEMMA FlattenEmpty == FlattenSeq(<<>>) = <<>>
BY DEF FlattenSeq

\* Lists of texts after each other are flattened one after the other.
LEMMA FlattenConcat ==
    ASSUME NEW T, NEW a \in Seq(Seq(T)), NEW b \in Seq(Seq(T))
    PROVE  FlattenSeq(a \o b) = FlattenSeq(a) \o FlattenSeq(b)
<1> DEFINE P == {l \in Seq(Seq(T)) : FlattenSeq(a \o l) = FlattenSeq(a) \o FlattenSeq(l)}
<1>1. <<>> \in P
  <2>1. a \o <<>> = a
    BY ConcatEmptySeq
  <2>2. FlattenSeq(a) \o <<>> = FlattenSeq(a)
    BY FlattenType, ConcatEmptySeq
  <2>3. FlattenSeq(a \o <<>>) = FlattenSeq(a) \o FlattenSeq(<<>>)
    BY <2>1, <2>2, FlattenEmpty
  <2>4. <<>> \in Seq(Seq(T))
    OBVIOUS
  <2> QED
    BY <2>3, <2>4
<1>2. ASSUME NEW l \in P, NEW x \in Seq(T) PROVE Append(l, x) \in P
  <2>1. l \in Seq(Seq(T)) /\ a \o l \in Seq(Seq(T)) /\ FlattenSeq(a \o l) = FlattenSeq(a) \o FlattenSeq(l)
    BY ConcatProperties
  <2>2. a \o Append(l, x) = Append(a \o l, x)
    BY <2>1
  <2>3. FlattenSeq(Append(a \o l, x)) = (FlattenSeq(a) \o FlattenSeq(l)) \o x
    BY <2>1, FlattenAppend
  <2>4. FlattenSeq(Append(l, x)) = FlattenSeq(l) \o x
    BY <2>1, FlattenAppend
  <2>5. FlattenSeq(a) \in Seq(T) /\ FlattenSeq(l) \in Seq(T)
    BY <2>1, FlattenType
  <2>6. (FlattenSeq(a) \o FlattenSeq(l)) \o x = FlattenSeq(a) \o (FlattenSeq(l) \o x)
    BY <2>5, ConcatAssociative
  <2>7. Append(l, x) \in Seq(Seq(T))
    BY <2>1, AppendProperties
  <2> QED
    BY <2>2, <2>3, <2>4, <2>6, <2>7
<1>3. P = Seq(Seq(T))
  <2>1. P \in SUBSET Seq(Seq(T))
    OBVIOUS
  <2> HIDE DEF P
  <2> QED
    BY <1>1, <1>2, <2>1, SeqInduction
<1> QED
  BY <1>3

(***************************************************************************)
(* Segments joined with slashes.                                           *)
(***************************************************************************)
Slash == <<"/">>

\* Each segment behind a slash.
Slashed(parts) == FlattenSeq([i \in DOMAIN parts |-> Slash \o parts[i]])

\* One more segment goes behind one more slash.
LEMMA SlashedAppend ==
    ASSUME NEW T, "/" \in T, NEW parts \in Seq(Seq(T)), NEW part \in Seq(T)
    PROVE  /\ Slashed(parts) \in Seq(T)
           /\ Slashed(Append(parts, part)) = Slashed(parts) \o (Slash \o part)
<1> DEFINE n == Len(parts)
           lists(l) == [i \in DOMAIN l |-> Slash \o l[i]]
           more == Append(parts, part)
<1>1. /\ n \in Nat /\ DOMAIN parts = 1 .. n /\ \A i \in 1 .. n : parts[i] \in Seq(T)
      /\ more \in Seq(Seq(T)) /\ DOMAIN more = 1 .. n + 1
      /\ more[n + 1] = part /\ \A i \in 1 .. n : more[i] = parts[i]
  BY AppendProperties
<1>2. Slash \in Seq(T)
  BY DEF Slash
<1>3. lists(parts) \in Seq(Seq(T)) /\ Slash \o part \in Seq(T) /\ Len(lists(parts)) = n
  <2>1. \A i \in 1 .. n : Slash \o parts[i] \in Seq(T)
    BY <1>1, <1>2, ConcatProperties
  <2>2. lists(parts) = [i \in 1 .. n |-> Slash \o parts[i]]
    BY <1>1
  <2>3. Slash \o part \in Seq(T)
    BY <1>2, ConcatProperties
  <2> HIDE DEF n
  <2> QED
    BY <1>1, <2>1, <2>2, <2>3
<1>4. lists(more) = Append(lists(parts), Slash \o part)
  <2>1. lists(more) = [i \in 1 .. n + 1 |-> Slash \o more[i]]
    BY <1>1
  <2>2. lists(parts) = [i \in 1 .. n |-> Slash \o parts[i]]
    BY <1>1
  <2> HIDE DEF more
  <2>3. ASSUME NEW i \in 1 .. n + 1 PROVE lists(more)[i] = Append(lists(parts), Slash \o part)[i]
    <3>1. lists(more)[i] = Slash \o more[i]
      BY <2>1
    <3>2. CASE i = n + 1
      <4>1. Append(lists(parts), Slash \o part)[n + 1] = Slash \o part
        <5> HIDE DEF lists
        <5> QED
          BY <1>3, AppendProperties
      <4> QED
        BY <1>1, <3>1, <3>2, <4>1
    <3>3. CASE i # n + 1
      <4>1. i \in 1 .. n
        BY <1>1, <3>3
      <4>2. Append(lists(parts), Slash \o part)[i] = lists(parts)[i]
        <5> HIDE DEF lists
        <5> QED
          BY <1>3, <4>1, AppendProperties
      <4>3. lists(parts)[i] = Slash \o parts[i]
        BY <2>2, <4>1
      <4> QED
        BY <1>1, <3>1, <4>1, <4>2, <4>3
    <3> QED
      BY <3>2, <3>3
  <2>4. lists(more) \in Seq(Seq(T)) /\ Len(lists(more)) = n + 1
    <3>1. \A i \in 1 .. n + 1 : Slash \o more[i] \in Seq(T)
      BY <1>1, <1>2, ConcatProperties
    <3> QED
      BY <1>1, <2>1, <3>1
  <2>5. Append(lists(parts), Slash \o part) \in Seq(Seq(T))
        /\ Len(Append(lists(parts), Slash \o part)) = n + 1
    BY <1>3, AppendProperties
  <2> HIDE DEF lists
  <2> QED
    BY <1>1, <2>3, <2>4, <2>5, SeqEqual
<1> HIDE DEF lists
<1>5. Slashed(parts) = FlattenSeq(lists(parts)) /\ Slashed(more) = FlattenSeq(lists(more))
  BY DEF Slashed, lists
<1> QED
  BY <1>3, <1>4, <1>5, FlattenAppend, FlattenType

\* No segments make no text.
LEMMA SlashedEmpty == Slashed(<<>>) = <<>>
BY FlattenEmpty DEF Slashed

\* Segments after each other make their texts after each other.
LEMMA SlashedConcat ==
    ASSUME NEW T, "/" \in T, NEW a \in Seq(Seq(T)), NEW b \in Seq(Seq(T))
    PROVE  Slashed(a \o b) = Slashed(a) \o Slashed(b)
<1> DEFINE P == {l \in Seq(Seq(T)) : Slashed(a \o l) = Slashed(a) \o Slashed(l)}
<1>0. \A l \in Seq(Seq(T)) : Slashed(l) \in Seq(T)
  BY SlashedAppend, EmptySeq
<1>1. <<>> \in P
  <2>1. a \o <<>> = a /\ <<>> \in Seq(Seq(T))
    BY ConcatEmptySeq
  <2>2. Slashed(a) \o <<>> = Slashed(a)
    BY <1>0, ConcatEmptySeq
  <2>3. Slashed(a \o <<>>) = Slashed(a) \o Slashed(<<>>)
    BY <2>1, <2>2, SlashedEmpty
  <2> QED
    BY <2>1, <2>3
<1>2. ASSUME NEW l \in P, NEW x \in Seq(T) PROVE Append(l, x) \in P
  <2>1. l \in Seq(Seq(T)) /\ a \o l \in Seq(Seq(T)) /\ Slashed(a \o l) = Slashed(a) \o Slashed(l)
    BY ConcatProperties
  <2>2. a \o Append(l, x) = Append(a \o l, x)
    BY <2>1
  <2>3. Slashed(Append(a \o l, x)) = (Slashed(a) \o Slashed(l)) \o (Slash \o x)
    BY <2>1, SlashedAppend
  <2>4. Slashed(Append(l, x)) = Slashed(l) \o (Slash \o x)
    BY <2>1, SlashedAppend
  <2>5. Slash \o x \in Seq(T)
    <3>1. Slash \in Seq(T)
      BY DEF Slash
    <3> QED
      BY <3>1, ConcatProperties
  <2>6. (Slashed(a) \o Slashed(l)) \o (Slash \o x) = Slashed(a) \o (Slashed(l) \o (Slash \o x))
    <3>1. Slashed(a) \in Seq(T) /\ Slashed(l) \in Seq(T)
      BY <1>0, <2>1
    <3> QED
      BY <2>5, <3>1, ConcatAssociative
  <2>7. Append(l, x) \in Seq(Seq(T))
    BY <2>1, AppendProperties
  <2> QED
    BY <2>2, <2>3, <2>4, <2>6, <2>7
<1>3. P = Seq(Seq(T))
  <2>1. P \in SUBSET Seq(Seq(T))
    OBVIOUS
  <2> HIDE DEF P
  <2> QED
    BY <1>1, <1>2, <2>1, SeqInduction
<1> QED
  BY <1>3

\* A single segment.
LEMMA SlashedOne ==
    ASSUME NEW T, "/" \in T, NEW part \in Seq(T)
    PROVE  Slashed(<<part>>) = Slash \o part
<1>1. <<part>> = Append(<<>>, part) /\ <<>> \in Seq(Seq(T))
  OBVIOUS
<1>2. Slashed(<<part>>) = <<>> \o (Slash \o part)
  BY <1>1, SlashedAppend, SlashedEmpty
<1>3. Slash \o part \in Seq(T)
  BY ConcatProperties DEF Slash
<1> QED
  BY <1>2, <1>3, ConcatEmptySeq

\* The joined text is what is behind the first slash.
LEMMA SlashedJoined ==
    ASSUME NEW T, "/" \in T, NEW parts \in Seq(Seq(T)), parts # <<>>
    PROVE  Joined(parts) \in Seq(T) /\ Slashed(parts) = Slash \o Joined(parts)
<1>1. PICK first \in Seq(T), rest \in Seq(Seq(T)) : parts = <<first>> \o rest
  <2>1. parts[1] \in Seq(T) /\ Tail(parts) \in Seq(Seq(T)) /\ parts = <<parts[1]>> \o Tail(parts)
    OBVIOUS
  <2> QED
    BY <2>1
<1>2. Slashed(parts) = (Slash \o first) \o Slashed(rest)
  <2>1. <<first>> \in Seq(Seq(T))
    OBVIOUS
  <2>2. Slashed(<<first>> \o rest) = Slashed(<<first>>) \o Slashed(rest)
    BY <2>1, SlashedConcat
  <2>3. Slashed(<<first>>) = Slash \o first
    BY SlashedOne
  <2> QED
    BY <1>1, <2>2, <2>3
<1>3. Slash \in Seq(T) /\ Slashed(rest) \in Seq(T)
  BY SlashedAppend DEF Slash
<1>4. Slashed(parts) = Slash \o (first \o Slashed(rest)) /\ first \o Slashed(rest) \in Seq(T)
  <2>1. (Slash \o first) \o Slashed(rest) = Slash \o (first \o Slashed(rest))
    BY <1>3, ConcatAssociative
  <2>2. first \o Slashed(rest) \in Seq(T)
    BY <1>3, ConcatProperties
  <2> QED
    BY <1>2, <2>1, <2>2
<1>5. Joined(parts) = Tail(Slashed(parts))
  BY DEF Joined, Slashed, Slash
<1>6. Tail(Slash \o (first \o Slashed(rest))) = first \o Slashed(rest)
  BY <1>4 DEF Slash
<1> QED
  BY <1>4, <1>5, <1>6

\* A text behind a slash, character by character.
LEMMA BehindSlash ==
    ASSUME NEW T, "/" \in T, NEW z \in Seq(T)
    PROVE  /\ Slash \in Seq(T) /\ Slash \o z \in Seq(T) /\ Slash \o z # <<>>
           /\ Len(z) \in Nat /\ Len(Slash \o z) = Len(z) + 1
           /\ (Slash \o z)[1] = "/" /\ \A i \in 1 .. Len(z) : (Slash \o z)[i + 1] = z[i]
<1> DEFINE v == Slash
<1>1. v \in Seq(T) /\ Len(v) = 1 /\ v[1] = "/" /\ Len(z) \in Nat
  BY DEF Slash
<1> HIDE DEF v
<1>2. /\ v \o z \in Seq(T) /\ Len(v \o z) = Len(v) + Len(z)
      /\ \A i \in 1 .. Len(v) + Len(z) : (v \o z)[i] = IF i <= Len(v) THEN v[i] ELSE z[i - Len(v)]
  BY <1>1, ConcatProperties
<1>3. (v \o z)[1] = "/"
  BY <1>1, <1>2
<1>4. \A i \in 1 .. Len(z) : (v \o z)[i + 1] = z[i]
  <2> TAKE i \in 1 .. Len(z)
  <2>1. i + 1 \in 1 .. Len(v) + Len(z) /\ ~(i + 1 <= Len(v)) /\ (i + 1) - Len(v) = i
    BY <1>1
  <2> QED
    BY <1>2, <2>1
<1>5. v \o z # <<>>
  BY <1>1, <1>2, EmptySeq
<1> QED
  BY <1>1, <1>2, <1>3, <1>4, <1>5 DEF v

\* A segment's text.
SlashFree(text) == \A i \in 1 .. Len(text) : text[i] # "/"

\* A text with one more segment.
Extended(text, part) == text \o (Slash \o part)

\* Where the last slash is, is where a text's last segment begins.
LEMMA LastSlash ==
    ASSUME NEW T, "/" \in T, NEW s \in Seq(T), NEW t \in Seq(T), NEW x \in Seq(T), NEW y \in Seq(T),
           SlashFree(x), SlashFree(y),
           Extended(s, x) = Extended(t, y)
    PROVE  s = t /\ x = y
<1> DEFINE left == s \o (Slash \o x)
           right == t \o (Slash \o y)
<1>1. /\ Len(s) \in Nat /\ Len(t) \in Nat /\ Len(x) \in Nat /\ Len(y) \in Nat
      /\ \A i \in 1 .. Len(x) : x[i] # "/"
      /\ \A i \in 1 .. Len(y) : y[i] # "/"
  BY DEF SlashFree
<1>3. ASSUME NEW u \in Seq(T), NEW z \in Seq(T)
      PROVE  /\ Slash \o z \in Seq(T) /\ Len(Slash \o z) = Len(z) + 1
             /\ (Slash \o z)[1] = "/" /\ \A i \in 1 .. Len(z) : (Slash \o z)[i + 1] = z[i]
             /\ Len(u \o (Slash \o z)) = Len(u) + Len(z) + 1
             /\ (u \o (Slash \o z))[Len(u) + 1] = "/"
             /\ \A i \in 1 .. Len(u) : (u \o (Slash \o z))[i] = u[i]
             /\ \A i \in 1 .. Len(z) : (u \o (Slash \o z))[Len(u) + 1 + i] = z[i]
  <2> DEFINE v == Slash \o z
  <2>1. Slash \in Seq(T) /\ Len(Slash) = 1 /\ Slash[1] = "/" /\ Len(u) \in Nat /\ Len(z) \in Nat
    BY DEF Slash
  <2>2. v \in Seq(T) /\ Len(v) = Len(z) + 1 /\ v[1] = "/" /\ \A i \in 1 .. Len(z) : v[i + 1] = z[i]
    BY BehindSlash
  <2> HIDE DEF v
  <2>3. /\ Len(u \o v) = Len(u) + Len(v)
        /\ \A i \in 1 .. Len(u) + Len(v) : (u \o v)[i] = IF i <= Len(u) THEN u[i] ELSE v[i - Len(u)]
    BY <2>2, ConcatProperties
  <2>4. \A i \in 1 .. Len(u) : (u \o v)[i] = u[i]
    BY <2>1, <2>2, <2>3
  <2>5. \A i \in 1 .. Len(v) : (u \o v)[Len(u) + i] = v[i]
    <3> TAKE i \in 1 .. Len(v)
    <3>1. Len(u) + i \in 1 .. Len(u) + Len(v) /\ ~(Len(u) + i <= Len(u)) /\ (Len(u) + i) - Len(u) = i
      BY <2>1, <2>2
    <3> QED
      BY <2>3, <3>1
  <2>6. (u \o v)[Len(u) + 1] = "/"
    BY <2>1, <2>2, <2>5
  <2>7. \A i \in 1 .. Len(z) : (u \o v)[Len(u) + 1 + i] = z[i]
    <3> TAKE i \in 1 .. Len(z)
    <3>1. i + 1 \in 1 .. Len(v) /\ Len(u) + 1 + i = Len(u) + (i + 1)
      BY <2>1, <2>2
    <3> QED
      BY <2>2, <2>5, <3>1
  <2>8. Len(u \o v) = Len(u) + Len(z) + 1
    BY <2>1, <2>2, <2>3
  <2> QED
    BY <2>2, <2>4, <2>6, <2>7, <2>8 DEF v
<1>4. /\ Len(left) = Len(s) + Len(x) + 1 /\ left[Len(s) + 1] = "/"
      /\ \A i \in 1 .. Len(s) : left[i] = s[i]
      /\ \A i \in 1 .. Len(x) : left[Len(s) + 1 + i] = x[i]
  BY <1>3
<1>5. /\ Len(right) = Len(t) + Len(y) + 1 /\ right[Len(t) + 1] = "/"
      /\ \A i \in 1 .. Len(t) : right[i] = t[i]
      /\ \A i \in 1 .. Len(y) : right[Len(t) + 1 + i] = y[i]
  BY <1>3
<1>6. left = right
  BY DEF Extended
<1> HIDE DEF left, right
<1>7. ~(Len(s) < Len(t))
  <2> SUFFICES ASSUME Len(s) < Len(t) PROVE FALSE
    OBVIOUS
  <2>1. Len(t) - Len(s) \in 1 .. Len(x) /\ Len(s) + 1 + (Len(t) - Len(s)) = Len(t) + 1
    BY <1>1, <1>4, <1>5, <1>6
  <2>2. left[Len(t) + 1] = x[Len(t) - Len(s)]
    BY <1>4, <2>1
  <2> QED
    BY <1>1, <1>5, <1>6, <2>1, <2>2
<1>8. ~(Len(t) < Len(s))
  <2> SUFFICES ASSUME Len(t) < Len(s) PROVE FALSE
    OBVIOUS
  <2>1. Len(s) - Len(t) \in 1 .. Len(y) /\ Len(t) + 1 + (Len(s) - Len(t)) = Len(s) + 1
    BY <1>1, <1>4, <1>5, <1>6
  <2>2. right[Len(s) + 1] = y[Len(s) - Len(t)]
    BY <1>5, <2>1
  <2> QED
    BY <1>1, <1>4, <1>6, <2>1, <2>2
<1>9. Len(s) = Len(t) /\ Len(x) = Len(y)
  BY <1>1, <1>4, <1>5, <1>6, <1>7, <1>8
<1>10. \A i \in 1 .. Len(s) : s[i] = t[i]
  BY <1>4, <1>5, <1>6, <1>9
<1>11. \A i \in 1 .. Len(x) : x[i] = y[i]
  BY <1>4, <1>5, <1>6, <1>9
<1> QED
  BY <1>9, <1>10, <1>11, SeqEqual

\* Segments without a slash are known from the joined text.
LEMMA SlashedInjective ==
    ASSUME NEW U, "/" \notin U, NEW a \in Seq(Seq(U)), NEW b \in Seq(Seq(U)), Slashed(a) = Slashed(b)
    PROVE  a = b
<1> DEFINE T == U \cup {"/"}
           P == {l \in Seq(Seq(U)) : \A m \in Seq(Seq(U)) : Slashed(l) = Slashed(m) => l = m}
<1>1. /\ U \subseteq T /\ "/" \in T
      /\ \A l \in Seq(U) : l \in Seq(T)
      /\ \A l \in Seq(Seq(U)) : l \in Seq(Seq(T))
  <2>1. Seq(U) \subseteq Seq(T)
    BY SeqMonotonic
  <2>2. Seq(Seq(U)) \subseteq Seq(Seq(T))
    BY <2>1, SeqMonotonic
  <2> QED
    BY <2>1, <2>2
<1> HIDE DEF T
<1>2. ASSUME NEW l \in Seq(Seq(U)), NEW x \in Seq(U)
      PROVE  /\ Slashed(l) \in Seq(T)
             /\ Slashed(Append(l, x)) = Slashed(l) \o (Slash \o x)
             /\ Slashed(Append(l, x)) # <<>>
  <2>1. Slashed(l) \in Seq(T) /\ Slashed(Append(l, x)) = Slashed(l) \o (Slash \o x)
    BY <1>1, SlashedAppend
  <2>2. Slash \o x \in Seq(T) /\ Slash \o x # <<>>
    BY <1>1, BehindSlash
  <2> QED
    BY <2>1, <2>2, ConcatEqualIffEmpty
<1>3. <<>> \in P
  <2>1. ASSUME NEW m \in Seq(Seq(U)), m # <<>> PROVE Slashed(m) # <<>>
    <3>1. PICK r \in Seq(Seq(U)), y \in Seq(U) : m = Append(r, y)
      BY <2>1, SequenceEmptyOrAppend
    <3> QED
      BY <1>2, <3>1
  <2>2. <<>> \in Seq(Seq(U))
    BY EmptySeq
  <2> QED
    BY <2>1, <2>2, SlashedEmpty
<1>4. ASSUME NEW l \in P, NEW x \in Seq(U) PROVE Append(l, x) \in P
  <2>1. l \in Seq(Seq(U)) /\ Append(l, x) \in Seq(Seq(U))
    BY AppendProperties
  <2>2. ASSUME NEW m \in Seq(Seq(U)), Slashed(Append(l, x)) = Slashed(m) PROVE Append(l, x) = m
    <3>1. m # <<>>
      BY <1>2, <2>1, <2>2, SlashedEmpty
    <3>2. PICK r \in Seq(Seq(U)), y \in Seq(U) : m = Append(r, y)
      BY <3>1, SequenceEmptyOrAppend
    <3>3. Slashed(l) \o (Slash \o x) = Slashed(r) \o (Slash \o y)
      <4>1. Slashed(Append(l, x)) = Slashed(l) \o (Slash \o x)
        BY <1>2, <2>1
      <4>2. Slashed(Append(r, y)) = Slashed(r) \o (Slash \o y)
        BY <1>2
      <4> QED
        BY <2>2, <3>2, <4>1, <4>2
    <3>4. Slashed(l) \in Seq(T) /\ Slashed(r) \in Seq(T)
      BY <1>2, <2>1
    <3>5. Slashed(l) = Slashed(r) /\ x = y
      <4> DEFINE u == Slashed(l)
                 v == Slashed(r)
      <4>1. u \in Seq(T) /\ v \in Seq(T) /\ Extended(u, x) = Extended(v, y)
        BY <3>3, <3>4 DEF Extended
      <4> HIDE DEF u, v
      <4>2. /\ "/" \in T /\ x \in Seq(T) /\ y \in Seq(T)
            /\ SlashFree(x) /\ SlashFree(y)
        BY <1>1 DEF SlashFree
      <4>3. u = v /\ x = y
        BY ONLY <4>1, <4>2, LastSlash
      <4> QED
        BY <4>3 DEF u, v
    <3>6. l = r
      BY <2>1, <3>5
    <3> QED
      BY <3>2, <3>5, <3>6
  <2> QED
    BY <2>1, <2>2
<1>5. P = Seq(Seq(U))
  <2>1. P \in SUBSET Seq(Seq(U))
    OBVIOUS
  <2> HIDE DEF P
  <2> QED
    BY <1>3, <1>4, <2>1, SeqInduction
<1> QED
  BY <1>5

\* Every text is some segments joined.
LEMMA SlashedSplit ==
    ASSUME NEW U, "/" \notin U, NEW text \in Seq(U \cup {"/"})
    PROVE  \E parts \in Seq(Seq(U)) : parts # <<>> /\ Slashed(parts) = Slash \o text
<1> DEFINE T == U \cup {"/"}
           P == {l \in Seq(T) : \E parts \in Seq(Seq(U)) : parts # <<>> /\ Slashed(parts) = Slash \o l}
<1>1. /\ U \subseteq T /\ "/" \in T
      /\ \A l \in Seq(U) : l \in Seq(T)
      /\ \A l \in Seq(Seq(U)) : l \in Seq(Seq(T))
  <2>1. Seq(U) \subseteq Seq(T)
    BY SeqMonotonic
  <2>2. Seq(Seq(U)) \subseteq Seq(Seq(T))
    BY <2>1, SeqMonotonic
  <2> QED
    BY <2>1, <2>2
<1>2. \A c \in T : c = "/" \/ c \in U
  OBVIOUS
<1> HIDE DEF T
<1>3. Slash \in Seq(T)
  BY <1>1 DEF Slash
<1>4. <<>> \in P
  <2>1. <<>> \in Seq(T) /\ <<>> \in Seq(U) /\ << <<>> >> \in Seq(Seq(U)) /\ << <<>> >> # <<>>
    OBVIOUS
  <2>2. Slashed(<< <<>> >>) = Slash \o <<>>
    BY <1>1, <2>1, SlashedOne
  <2> QED
    BY <2>1, <2>2
<1>5. ASSUME NEW l \in P, NEW c \in T PROVE Append(l, c) \in P
  <2>1. l \in Seq(T) /\ Append(l, c) \in Seq(T)
    BY AppendProperties
  <2>2. PICK parts \in Seq(Seq(U)) : parts # <<>> /\ Slashed(parts) = Slash \o l
    OBVIOUS
  <2> HIDE DEF P
  <2>0. Slash \o Append(l, c) = (Slash \o l) \o <<c>>
    <3>1. Append(l, c) = l \o <<c>> /\ <<c>> \in Seq(T)
      BY <2>1, AppendIsConcat
    <3>2. Slash \o (l \o <<c>>) = (Slash \o l) \o <<c>>
      BY <1>3, <2>1, <3>1, ConcatAssociative
    <3> QED
      BY <3>1, <3>2
  <2>3. CASE c = "/"
    <3>1. <<>> \in Seq(U) /\ Append(parts, <<>>) \in Seq(Seq(U)) /\ Append(parts, <<>>) # <<>>
      BY EmptySeq, AppendProperties
    <3>2. Slashed(Append(parts, <<>>)) = Slashed(parts) \o (Slash \o <<>>)
      BY <1>1, <3>1, SlashedAppend
    <3>3. Slash \o <<>> = <<c>>
      BY <1>3, <2>3, ConcatEmptySeq DEF Slash
    <3>4. Slashed(Append(parts, <<>>)) = Slash \o Append(l, c)
      BY <2>0, <2>2, <3>2, <3>3
    <3> QED
      BY <2>1, <3>1, <3>4 DEF P
  <2>4. CASE c # "/"
    <3>1. PICK r \in Seq(Seq(U)), x \in Seq(U) : parts = Append(r, x)
      BY <2>2, SequenceEmptyOrAppend
    <3>2. c \in U /\ <<c>> \in Seq(U) /\ x \o <<c>> \in Seq(U)
      <4>1. c \in U /\ <<c>> \in Seq(U)
        BY <1>2, <2>4
      <4> QED
        BY <4>1, ConcatProperties
    <3>3. /\ Slashed(parts) = Slashed(r) \o (Slash \o x) /\ Slashed(r) \in Seq(T)
          /\ Slashed(Append(r, x \o <<c>>)) = Slashed(r) \o (Slash \o (x \o <<c>>))
      BY <1>1, <3>1, <3>2, SlashedAppend
    <3>4. Slashed(r) \o (Slash \o (x \o <<c>>)) = (Slashed(r) \o (Slash \o x)) \o <<c>>
      <4>1. x \in Seq(T) /\ <<c>> \in Seq(T) /\ Slash \o x \in Seq(T)
        BY <1>1, <3>2, BehindSlash
      <4>2. Slash \o (x \o <<c>>) = (Slash \o x) \o <<c>>
        BY <1>3, <4>1, ConcatAssociative
      <4>3. Slashed(r) \o ((Slash \o x) \o <<c>>) = (Slashed(r) \o (Slash \o x)) \o <<c>>
        BY <3>3, <4>1, ConcatAssociative
      <4> QED
        BY <4>2, <4>3
    <3>5. Append(r, x \o <<c>>) \in Seq(Seq(U)) /\ Append(r, x \o <<c>>) # <<>>
      <4> DEFINE z == x \o <<c>>
      <4>1. z \in Seq(U)
        BY <3>2
      <4> HIDE DEF z
      <4>2. r \in Seq(Seq(U))
        OBVIOUS
      <4>3. Append(r, z) \in Seq(Seq(U)) /\ Append(r, z) # <<>>
        BY ONLY <4>1, <4>2, AppendProperties
      <4> QED
        BY <4>3 DEF z
    <3>6. Slashed(Append(r, x \o <<c>>)) = Slash \o Append(l, c)
      BY <2>0, <2>2, <3>3, <3>4
    <3> QED
      BY <2>1, <3>5, <3>6 DEF P
  <2> QED
    BY <2>3, <2>4
<1>6. P = Seq(T)
  <2>1. P \in SUBSET Seq(T)
    OBVIOUS
  <2> HIDE DEF P
  <2> QED
    BY <1>4, <1>5, <2>1, SeqInduction
<1> QED
  BY <1>6 DEF T

(***************************************************************************)
(* The text of a pattern, with its "*" filled in.                          *)
(***************************************************************************)
\* Fill, as Pattern defines it, in two steps.
FilledSegment(part, splat) ==
    FlattenSeq([j \in DOMAIN part |-> IF part[j] = "*" THEN splat ELSE <<part[j]>>])

Filled(raw, value, splat) ==
    [i \in DOMAIN raw |-> IF i \in Placeholders(raw) THEN value[i] ELSE FilledSegment(raw[i], splat)]

\* Fill joins the filled segments.
LEMMA FillJoins ==
    ASSUME NEW raw, NEW value, NEW splat
    PROVE  Fill(raw, value, splat) = Joined(Filled(raw, value, splat))
BY DEF Fill, Filled, FilledSegment

\* A segment without a "*" stays as it is.
LEMMA FillPlain ==
    ASSUME NEW T, NEW part \in Seq(T), NEW splat, ~Contains(part, "*")
    PROVE  FilledSegment(part, splat) = part
<1> DEFINE lists == [j \in DOMAIN part |-> IF part[j] = "*" THEN splat ELSE <<part[j]>>]
<1>1. \A j \in DOMAIN part : part[j] # "*"
  BY DEF Contains
<1>2. lists = [j \in DOMAIN part |-> <<part[j]>>]
  BY <1>1
<1>3. FilledSegment(part, splat) = FlattenSeq(lists)
  BY DEF FilledSegment
<1> HIDE DEF lists
<1> QED
  BY <1>2, <1>3, FlattenSingles

\* Two lists after each other.
LEMMA TwoLists ==
    ASSUME NEW T, NEW x \in Seq(T), NEW z \in Seq(T)
    PROVE  /\ x \o z \in Seq(T)
           /\ Len(x) \in Nat /\ Len(z) \in Nat /\ Len(x \o z) = Len(x) + Len(z)
           /\ \A i \in 1 .. Len(x) : (x \o z)[i] = x[i]
           /\ \A i \in 1 .. Len(z) : (x \o z)[Len(x) + i] = z[i]
OBVIOUS

\* Three lists after each other.
LEMMA ThreeLists ==
    ASSUME NEW T, NEW x \in Seq(T), NEW y \in T, NEW z \in Seq(T)
    PROVE  /\ x \o (<<y>> \o z) \in Seq(T)
           /\ Len(x \o (<<y>> \o z)) = Len(x) + 1 + Len(z)
           /\ \A i \in 1 .. Len(x) : (x \o (<<y>> \o z))[i] = x[i]
           /\ (x \o (<<y>> \o z))[Len(x) + 1] = y
           /\ \A i \in 1 .. Len(z) : (x \o (<<y>> \o z))[Len(x) + 1 + i] = z[i]
<1> DEFINE one == <<y>>
           w == one \o z
<1>1. one \in Seq(T) /\ Len(one) = 1 /\ one[1] = y
  OBVIOUS
<1> HIDE DEF one
<1>2. /\ w \in Seq(T) /\ Len(w) = 1 + Len(z) /\ w[1] = y
      /\ \A i \in 1 .. Len(z) : w[i + 1] = z[i]
  <2>1. /\ w \in Seq(T) /\ Len(w) = Len(one) + Len(z)
        /\ \A i \in 1 .. Len(one) : w[i] = one[i]
        /\ \A i \in 1 .. Len(z) : w[Len(one) + i] = z[i]
    BY <1>1, TwoLists
  <2> HIDE DEF w
  <2> QED
    BY <1>1, <2>1
<1> HIDE DEF w
<1>3. /\ x \o w \in Seq(T) /\ Len(x \o w) = Len(x) + Len(w)
      /\ \A i \in 1 .. Len(x) : (x \o w)[i] = x[i]
      /\ \A i \in 1 .. Len(w) : (x \o w)[Len(x) + i] = w[i]
  <2>1. w \in Seq(T)
    BY <1>2
  <2> QED
    BY <2>1, TwoLists
<1>4. Len(x) \in Nat /\ Len(z) \in Nat
  OBVIOUS
<1>7. (x \o w)[Len(x) + 1] = y
  BY <1>2, <1>3, <1>4
<1>8. \A i \in 1 .. Len(z) : (x \o w)[Len(x) + 1 + i] = z[i]
  <2> TAKE i \in 1 .. Len(z)
  <2>1. i + 1 \in 1 .. Len(w) /\ Len(x) + 1 + i = Len(x) + (i + 1)
    BY <1>2, <1>4
  <2> QED
    BY <1>2, <1>3, <2>1
<1>9. Len(x \o w) = Len(x) + 1 + Len(z)
  BY <1>2, <1>3, <1>4
<1> QED
  BY <1>3, <1>7, <1>8, <1>9 DEF w, one

\* A list is what is before a position, the element there, and what is behind it.
LEMMA SplitList ==
    ASSUME NEW T, NEW list \in Seq(T), NEW s \in 1 .. Len(list)
    PROVE  /\ SubSeq(list, 1, s - 1) \in Seq(T) /\ Len(SubSeq(list, 1, s - 1)) = s - 1
           /\ SubSeq(list, s + 1, Len(list)) \in Seq(T)
           /\ Len(SubSeq(list, s + 1, Len(list))) = Len(list) - s
           /\ list[s] \in T
           /\ \A i \in 1 .. s - 1 : SubSeq(list, 1, s - 1)[i] = list[i]
           /\ \A i \in 1 .. Len(list) - s : SubSeq(list, s + 1, Len(list))[i] = list[s + i]
           /\ list = SubSeq(list, 1, s - 1) \o (<<list[s]>> \o SubSeq(list, s + 1, Len(list)))
<1> DEFINE x == SubSeq(list, 1, s - 1)
           z == SubSeq(list, s + 1, Len(list))
           n == Len(list)
<1>1. /\ n \in Nat /\ s \in 1 .. n /\ \A i \in 1 .. n : list[i] \in T
      /\ x \in Seq(T) /\ Len(x) = s - 1 /\ \A i \in 1 .. s - 1 : x[i] = list[i]
  OBVIOUS
<1>2. z \in Seq(T) /\ Len(z) = n - s /\ \A i \in 1 .. n - s : z[i] = list[s + i]
  <2>1. \A i \in s + 1 .. n : list[i] \in T
    BY <1>1
  <2>2. /\ z \in Seq(T) /\ Len(z) = IF s + 1 <= n THEN n - (s + 1) + 1 ELSE 0
        /\ \A i \in 1 .. n - (s + 1) + 1 : z[i] = list[(s + 1) + i - 1]
    BY <1>1, <2>1, SubSeqProperties
  <2> HIDE DEF z
  <2>3. Len(z) = n - s
    BY <1>1, <2>2
  <2>4. \A i \in 1 .. n - s : z[i] = list[s + i]
    <3> TAKE i \in 1 .. n - s
    <3>1. i \in 1 .. n - (s + 1) + 1 /\ (s + 1) + i - 1 = s + i
      BY <1>1
    <3> QED
      BY <2>2, <3>1
  <2> QED
    BY <2>2, <2>3, <2>4
<1> HIDE DEF x, z
<1> DEFINE y == list[s]
           all == x \o (<<y>> \o z)
<1>3. y \in T
  BY <1>1
<1> HIDE DEF y
<1>4. /\ all \in Seq(T) /\ Len(all) = Len(x) + 1 + Len(z)
      /\ \A i \in 1 .. Len(x) : all[i] = x[i]
      /\ all[Len(x) + 1] = y
      /\ \A i \in 1 .. Len(z) : all[Len(x) + 1 + i] = z[i]
  <2>1. x \in Seq(T) /\ z \in Seq(T)
    BY <1>1, <1>2
  <2> QED
    BY <1>3, <2>1, ThreeLists
<1> HIDE DEF all
<1>5. ASSUME NEW i \in 1 .. n PROVE all[i] = list[i]
  <2>1. CASE i < s
    BY <1>1, <1>4, <2>1
  <2>2. CASE i = s
    BY <1>1, <1>4, <2>2 DEF y
  <2>3. CASE i > s
    <3>1. i - s \in 1 .. Len(z) /\ Len(x) + 1 + (i - s) = i /\ s + (i - s) = i
      BY <1>1, <1>2, <2>3
    <3> QED
      BY <1>2, <1>4, <3>1
  <2> QED
    BY <1>1, <2>1, <2>2, <2>3
<1>6. Len(all) = n
  BY <1>1, <1>2, <1>4
<1>7. all = list
  BY <1>4, <1>5, <1>6, SeqEqual
<1> QED
  BY <1>1, <1>2, <1>3, <1>7 DEF x, y, z, all

\* In a segment with one "*", the "*" makes way for what it stands for.
LEMMA FillStar ==
    ASSUME NEW T, NEW part \in Seq(T), NEW splat \in Seq(T), NEW k \in 1 .. Len(part),
           \A j \in 1 .. Len(part) : part[j] = "*" <=> j = k
    PROVE  FilledSegment(part, splat) =
              SubSeq(part, 1, k - 1) \o (splat \o SubSeq(part, k + 1, Len(part)))
<1> DEFINE x == SubSeq(part, 1, k - 1)
           z == SubSeq(part, k + 1, Len(part))
           n == Len(part)
<1>1. /\ x \in Seq(T) /\ Len(x) = k - 1 /\ \A i \in 1 .. k - 1 : x[i] = part[i]
      /\ z \in Seq(T) /\ Len(z) = n - k /\ \A i \in 1 .. n - k : z[i] = part[k + i]
      /\ n \in Nat /\ k \in 1 .. n
  BY SplitList
<1> HIDE DEF x, z
<1> DEFINE lx == [i \in DOMAIN x |-> <<x[i]>>]
           lz == [i \in DOMAIN z |-> <<z[i]>>]
           lists == [j \in DOMAIN part |-> IF part[j] = "*" THEN splat ELSE <<part[j]>>]
<1>2. /\ lx \in Seq(Seq(T)) /\ Len(lx) = k - 1 /\ \A i \in 1 .. k - 1 : lx[i] = <<part[i]>>
  <2>1. DOMAIN x = 1 .. k - 1 /\ \A i \in 1 .. k - 1 : x[i] \in T
    BY <1>1
  <2> QED
    BY <1>1, <2>1
<1>3. /\ lz \in Seq(Seq(T)) /\ Len(lz) = n - k /\ \A i \in 1 .. n - k : lz[i] = <<part[k + i]>>
  <2>1. DOMAIN z = 1 .. n - k /\ \A i \in 1 .. n - k : z[i] \in T
    BY <1>1
  <2> QED
    BY <1>1, <2>1
<1>4. FlattenSeq(lx) = x /\ FlattenSeq(lz) = z
  BY <1>1, FlattenSingles
<1>5. /\ lists \in Seq(Seq(T)) /\ Len(lists) = n
      /\ \A j \in 1 .. n : lists[j] = IF j = k THEN splat ELSE <<part[j]>>
  <2>1. \A j \in 1 .. n : part[j] \in T
    BY <1>1
  <2>2. lists = [j \in 1 .. n |-> IF j = k THEN splat ELSE <<part[j]>>]
    OBVIOUS
  <2> HIDE DEF lists
  <2>3. \A j \in 1 .. n : (IF j = k THEN splat ELSE <<part[j]>>) \in Seq(T)
    BY <2>1
  <2> QED
    BY <1>1, <2>2, <2>3
<1>6. FilledSegment(part, splat) = FlattenSeq(lists)
  BY DEF FilledSegment
<1> HIDE DEF lx, lz, lists
<1> DEFINE all == lx \o (<<splat>> \o lz)
<1>7. /\ all \in Seq(Seq(T)) /\ Len(all) = Len(lx) + 1 + Len(lz)
      /\ \A i \in 1 .. Len(lx) : all[i] = lx[i]
      /\ all[Len(lx) + 1] = splat
      /\ \A i \in 1 .. Len(lz) : all[Len(lx) + 1 + i] = lz[i]
  <2>1. lx \in Seq(Seq(T)) /\ lz \in Seq(Seq(T))
    BY <1>2, <1>3
  <2> QED
    BY <2>1, ThreeLists
<1> HIDE DEF all
<1>8. ASSUME NEW i \in 1 .. n PROVE all[i] = lists[i]
  <2>1. i \in Nat /\ k \in Nat
    BY <1>1
  <2>2. CASE i < k
    <3>1. i \in 1 .. k - 1 /\ i \in 1 .. Len(lx) /\ i # k
      BY <1>1, <1>2, <2>2
    <3>2. all[i] = <<part[i]>>
      BY ONLY <1>2, <1>7, <3>1
    <3>3. lists[i] = <<part[i]>>
      BY ONLY <1>5, <3>1, i \in 1 .. n
    <3> QED
      BY <3>2, <3>3
  <2>3. CASE i = k
    <3>1. Len(lx) + 1 = i
      BY <1>1, <1>2, <2>3
    <3>2. all[i] = splat
      BY ONLY <1>7, <3>1
    <3>3. lists[i] = splat
      BY ONLY <1>5, <2>3, i \in 1 .. n
    <3> QED
      BY <3>2, <3>3
  <2>4. CASE i > k
    <3>1. /\ i - k \in 1 .. Len(lz) /\ i - k \in 1 .. n - k /\ i # k
          /\ Len(lx) + 1 + (i - k) = i /\ k + (i - k) = i
      BY <1>1, <1>2, <1>3, <2>4
    <3>2. all[i] = lz[i - k]
      BY ONLY <1>7, <3>1
    <3>3. lz[i - k] = <<part[i]>>
      BY ONLY <1>3, <3>1
    <3>4. lists[i] = <<part[i]>>
      BY ONLY <1>5, <3>1, i \in 1 .. n
    <3> QED
      BY <3>2, <3>3, <3>4
  <2> QED
    BY <2>1, <2>2, <2>3, <2>4
<1>9. Len(all) = n
  BY <1>1, <1>2, <1>3, <1>7
<1>10. all = lists
  <2>1. all \in Seq(Seq(T)) /\ lists \in Seq(Seq(T))
    BY <1>5, <1>7
  <2> QED
    BY <1>5, <1>8, <1>9, <2>1, SeqEqual
<1>11. FlattenSeq(all) = x \o (splat \o z)
  <2> DEFINE one == <<splat>>
             w == one \o lz
  <2>1. one \in Seq(Seq(T)) /\ FlattenSeq(one) = splat
    <3>1. one = Append(<<>>, splat) /\ <<>> \in Seq(Seq(T)) /\ one \in Seq(Seq(T))
      OBVIOUS
    <3>2. FlattenSeq(one) = <<>> \o splat
      BY <3>1, FlattenAppend, FlattenEmpty
    <3> QED
      BY <3>1, <3>2, ConcatEmptySeq
  <2> HIDE DEF one
  <2>2. w \in Seq(Seq(T)) /\ FlattenSeq(w) = splat \o z
    <3>1. one \in Seq(Seq(T)) /\ lz \in Seq(Seq(T))
      BY <1>3, <2>1
    <3>2. w \in Seq(Seq(T)) /\ FlattenSeq(w) = FlattenSeq(one) \o FlattenSeq(lz)
      BY <3>1, FlattenConcat, ConcatProperties
    <3> QED
      BY <1>4, <2>1, <3>2
  <2> HIDE DEF w
  <2>3. FlattenSeq(lx \o w) = FlattenSeq(lx) \o FlattenSeq(w)
    <3>1. lx \in Seq(Seq(T)) /\ w \in Seq(Seq(T))
      BY <1>2, <2>2
    <3> QED
      BY <3>1, FlattenConcat
  <2>4. all = lx \o w
    BY DEF all, w, one
  <2> QED
    BY <1>4, <2>2, <2>3, <2>4
<1> QED
  BY <1>6, <1>10, <1>11 DEF x, z

\* The segments, joined, around one of them.
LEMMA SlashedAround ==
    ASSUME NEW T, "/" \in T, NEW parts \in Seq(Seq(T)), NEW s \in 1 .. Len(parts)
    PROVE  /\ Slashed(SubSeq(parts, 1, s - 1)) \in Seq(T)
           /\ Slashed(SubSeq(parts, s + 1, Len(parts))) \in Seq(T)
           /\ Slashed(parts) = Slashed(SubSeq(parts, 1, s - 1)) \o
                  ((Slash \o parts[s]) \o Slashed(SubSeq(parts, s + 1, Len(parts))))
<1> DEFINE a == SubSeq(parts, 1, s - 1)
           b == SubSeq(parts, s + 1, Len(parts))
           y == parts[s]
           one == <<y>>
<1>1. /\ a \in Seq(Seq(T)) /\ b \in Seq(Seq(T)) /\ y \in Seq(T) /\ parts = a \o (one \o b)
  BY SplitList
<1> HIDE DEF a, b, y
<1>2. one \in Seq(Seq(T)) /\ Slashed(one) = Slash \o y
  <2>1. one \in Seq(Seq(T))
    BY <1>1
  <2> QED
    BY <1>1, <2>1, SlashedOne
<1> HIDE DEF one
<1>3. one \o b \in Seq(Seq(T)) /\ Slashed(one \o b) = Slashed(one) \o Slashed(b)
  BY <1>1, <1>2, SlashedConcat, ConcatProperties
<1>4. Slashed(a \o (one \o b)) = Slashed(a) \o Slashed(one \o b)
  <2> DEFINE w == one \o b
  <2>1. a \in Seq(Seq(T)) /\ w \in Seq(Seq(T))
    BY <1>1, <1>3
  <2> HIDE DEF w
  <2>2. Slashed(a \o w) = Slashed(a) \o Slashed(w)
    BY <2>1, SlashedConcat
  <2> QED
    BY <2>2 DEF w
<1>5. Slashed(a) \in Seq(T) /\ Slashed(b) \in Seq(T)
  BY <1>1, SlashedAppend
<1>6. Slashed(parts) = Slashed(a) \o ((Slash \o y) \o Slashed(b))
  BY <1>1, <1>2, <1>3, <1>4
<1> QED
  BY <1>5, <1>6 DEF a, b, y

(***************************************************************************)
(* The one "*" of a pattern.                                               *)
(***************************************************************************)
\* How many characters, slashes included, are in front of a segment.
TextBefore(parts, s) == Len(Slashed(SubSeq(parts, 1, s - 1)))

\* Where the joined text has the characters of a segment.
LEMMA CharacterPlace ==
    ASSUME NEW T, "/" \in T, NEW parts \in Seq(Seq(T)), parts # <<>>,
           NEW s \in 1 .. Len(parts), NEW k \in 1 .. Len(parts[s])
    PROVE  /\ TextBefore(parts, s) \in Nat
           /\ TextBefore(parts, s) + k \in 1 .. Len(Joined(parts))
           /\ Joined(parts)[TextBefore(parts, s) + k] = parts[s][k]
<1> DEFINE a == Slashed(SubSeq(parts, 1, s - 1))
           b == Slashed(SubSeq(parts, s + 1, Len(parts)))
           y == parts[s]
           v == Slash \o y
           text == Joined(parts)
           n == TextBefore(parts, s)
<1>1. a \in Seq(T) /\ b \in Seq(T) /\ Slashed(parts) = a \o (v \o b)
  BY SlashedAround
<1>2. text \in Seq(T) /\ Slashed(parts) = Slash \o text
  BY SlashedJoined
<1>3. y \in Seq(T) /\ k \in 1 .. Len(y)
  OBVIOUS
<1>4. n = Len(a)
  BY DEF TextBefore
<1> HIDE DEF a, b, y, v, text, n
<1>5. v \in Seq(T) /\ Len(v) = Len(y) + 1 /\ Len(y) \in Nat /\ v[k + 1] = y[k]
  BY <1>3, BehindSlash DEF v
<1>6. /\ v \o b \in Seq(T) /\ Len(v \o b) = Len(v) + Len(b) /\ (v \o b)[k + 1] = v[k + 1]
      /\ Len(b) \in Nat
  <2>1. v \in Seq(T) /\ b \in Seq(T) /\ k + 1 \in 1 .. Len(v)
    BY <1>1, <1>3, <1>5
  <2> QED
    BY ONLY <2>1, TwoLists
<1> DEFINE w == v \o b
<1>7. w \in Seq(T) /\ k + 1 \in 1 .. Len(w)
  BY <1>3, <1>5, <1>6
<1>8. /\ Len(a \o w) = Len(a) + Len(w) /\ Len(a) \in Nat
      /\ (a \o w)[Len(a) + (k + 1)] = w[k + 1]
  <2> HIDE DEF w
  <2> QED
    BY ONLY <1>1, <1>7, TwoLists
<1>9. /\ Len(Slash \o text) = Len(text) + 1 /\ Len(text) \in Nat
      /\ \A i \in 1 .. Len(text) : (Slash \o text)[i + 1] = text[i]
  BY ONLY <1>2, BehindSlash, "/" \in T
<1> HIDE DEF w
<1>10. n + k \in 1 .. Len(text) /\ Len(a) + (k + 1) = (n + k) + 1
  <2>1. Slash \o text = a \o w
    BY <1>1, <1>2 DEF w
  <2>2. Len(text) + 1 = Len(a) + Len(w)
    BY <1>8, <1>9, <2>1
  <2> QED
    BY <1>3, <1>4, <1>7, <1>8, <1>9, <2>2
<1>11. text[n + k] = (a \o w)[Len(a) + (k + 1)]
  <2>1. Slash \o text = a \o w
    BY <1>1, <1>2 DEF w
  <2>2. (Slash \o text)[(n + k) + 1] = text[n + k]
    BY <1>9, <1>10
  <2> QED
    BY <1>10, <2>1, <2>2
<1>12. text[n + k] = y[k] /\ n \in Nat
  BY <1>4, <1>5, <1>6, <1>8, <1>11 DEF w
<1> QED
  BY <1>10, <1>12 DEF text, y, n

\* A segment is behind all of the one before it.
LEMMA PlacesGrow ==
    ASSUME NEW T, "/" \in T, NEW parts \in Seq(Seq(T)), NEW s \in 1 .. Len(parts), NEW t \in 1 .. Len(parts),
           s < t
    PROVE  /\ TextBefore(parts, s) \in Nat /\ Len(parts[s]) \in Nat /\ TextBefore(parts, t) \in Nat
           /\ TextBefore(parts, s) + Len(parts[s]) < TextBefore(parts, t)
<1> DEFINE q == SubSeq(parts, 1, t - 1)
           a == SubSeq(parts, 1, s - 1)
<1>1. /\ q \in Seq(Seq(T)) /\ Len(q) = t - 1 /\ \A i \in 1 .. t - 1 : q[i] = parts[i]
      /\ a \in Seq(Seq(T)) /\ Len(a) = s - 1 /\ \A i \in 1 .. s - 1 : a[i] = parts[i]
      /\ s \in Nat /\ t \in Nat
  OBVIOUS
<1>2. parts[s] \in Seq(T) /\ s \in 1 .. t - 1
  BY <1>1
<1> HIDE DEF q, a
<1> DEFINE c == SubSeq(q, 1, s - 1)
           b == Slashed(SubSeq(q, s + 1, Len(q)))
           y == q[s]
           v == Slash \o y
<1>3. s \in 1 .. Len(q) /\ y = parts[s]
  BY <1>1, <1>2
<1>4. Slashed(c) \in Seq(T) /\ b \in Seq(T) /\ Slashed(q) = Slashed(c) \o (v \o b)
  BY ONLY <1>1, <1>3, "/" \in T, SlashedAround
<1>5. c = a
  <2>1. c \in Seq(Seq(T)) /\ Len(c) = s - 1 /\ \A i \in 1 .. s - 1 : c[i] = q[i]
    BY ONLY <1>1, <1>3, SplitList
  <2> HIDE DEF c
  <2>2. Len(c) = Len(a) /\ \A i \in 1 .. Len(c) : c[i] = a[i]
    BY <1>1, <1>2, <2>1
  <2> QED
    BY <1>1, <2>1, <2>2, SeqEqual
<1>6. v \in Seq(T) /\ Len(v) = Len(parts[s]) + 1 /\ Len(parts[s]) \in Nat
  BY <1>2, <1>3, BehindSlash
<1> DEFINE u == Slashed(c)
<1> HIDE DEF c, b, y, v, u
<1>7. v \o b \in Seq(T) /\ Len(v \o b) = Len(v) + Len(b) /\ Len(b) \in Nat
  BY ONLY <1>4, <1>6, TwoLists
<1>8. u \in Seq(T) /\ Slashed(q) = u \o (v \o b) /\ u = Slashed(a)
  BY <1>4, <1>5 DEF u
<1>9. Len(Slashed(q)) = Len(u) + Len(v \o b) /\ Len(u) \in Nat
  <2> DEFINE w == v \o b
  <2>1. w \in Seq(T) /\ Slashed(q) = u \o w
    BY <1>7, <1>8
  <2> HIDE DEF w
  <2>2. Len(u \o w) = Len(u) + Len(w) /\ Len(u) \in Nat
    BY ONLY <1>8, <2>1, TwoLists
  <2> QED
    BY <2>1, <2>2 DEF w
<1>10. TextBefore(parts, s) = Len(u) /\ TextBefore(parts, t) = Len(Slashed(q))
  BY <1>8 DEF TextBefore, a, q
<1> QED
  BY <1>6, <1>7, <1>9, <1>10

\* A pattern with no "*", and one with its only "*" at a place.
Starless(raw) == \A t \in 1 .. Len(raw) : \A j \in 1 .. Len(raw[t]) : raw[t][j] # "*"

StarredAt(raw, s, k) ==
    /\ s \in 1 .. Len(raw) /\ k \in 1 .. Len(raw[s]) /\ raw[s][k] = "*"
    /\ \A t \in 1 .. Len(raw) : \A j \in 1 .. Len(raw[t]) : raw[t][j] = "*" => t = s /\ j = k

\* Every pattern that the parsers accept is one of the two.
LEMMA OneStar ==
    ASSUME NEW T, "/" \in T, NEW raw \in Seq(Seq(T)), raw # <<>>, OneWildcard(Joined(raw))
    PROVE  Starless(raw) \/ \E s, k : StarredAt(raw, s, k)
<1> DEFINE text == Joined(raw)
           stars == {i \in DOMAIN text : text[i] = "*"}
<1>1. text \in Seq(T) /\ Len(text) \in Nat /\ DOMAIN text = 1 .. Len(text)
  <2>1. text \in Seq(T)
    BY SlashedJoined
  <2> HIDE DEF text
  <2> QED
    BY <2>1
<1>2. IsFiniteSet(stars) /\ Cardinality(stars) <= 1
  <2>1. IsFiniteSet(1 .. Len(text))
    BY <1>1, FS_Interval
  <2>2. stars \subseteq 1 .. Len(text)
    BY <1>1
  <2> QED
    BY <2>1, <2>2, FS_Subset DEF OneWildcard
<1>3. ASSUME NEW i \in stars, NEW j \in stars PROVE i = j
  <2> SUFFICES ASSUME i # j PROVE FALSE
    OBVIOUS
  <2>1. IsFiniteSet({i, j}) /\ Cardinality({i, j}) = 2
    BY TwoElements
  <2>2. {i, j} \subseteq stars
    OBVIOUS
  <2> HIDE DEF stars
  <2>3. Cardinality({i, j}) <= Cardinality(stars) /\ Cardinality(stars) \in Nat
    BY <1>2, <2>2, FS_Subset, FS_CardinalityType
  <2> QED
    BY <1>2, <2>1, <2>3
<1>4. ASSUME NEW s \in 1 .. Len(raw), NEW k \in 1 .. Len(raw[s]), raw[s][k] = "*"
      PROVE  TextBefore(raw, s) \in Nat /\ TextBefore(raw, s) + k \in stars
  <2>1. /\ TextBefore(raw, s) \in Nat /\ TextBefore(raw, s) + k \in 1 .. Len(text)
        /\ text[TextBefore(raw, s) + k] = raw[s][k]
    BY CharacterPlace
  <2> HIDE DEF text
  <2> QED
    BY <1>1, <1>4, <2>1
<1> HIDE DEF stars, text
<1>5. ASSUME NEW s \in 1 .. Len(raw), NEW k \in 1 .. Len(raw[s]), raw[s][k] = "*",
             NEW t \in 1 .. Len(raw), NEW j \in 1 .. Len(raw[t]), raw[t][j] = "*"
      PROVE  ~(s < t)
  <2> SUFFICES ASSUME s < t PROVE FALSE
    OBVIOUS
  <2>1. TextBefore(raw, s) + k = TextBefore(raw, t) + j
    <3>1. TextBefore(raw, s) + k \in stars
      BY <1>4, <1>5
    <3>2. TextBefore(raw, t) + j \in stars
      BY <1>4, <1>5
    <3> QED
      BY <1>3, <3>1, <3>2
  <2>2. /\ TextBefore(raw, s) \in Nat /\ TextBefore(raw, t) \in Nat /\ Len(raw[s]) \in Nat
        /\ TextBefore(raw, s) + Len(raw[s]) < TextBefore(raw, t)
    BY PlacesGrow
  <2>3. k \in Nat /\ k <= Len(raw[s]) /\ j \in Nat
    <3>1. raw[s] \in Seq(T) /\ raw[t] \in Seq(T)
      OBVIOUS
    <3> QED
      BY <2>2, <3>1
  <2> QED
    BY <2>1, <2>2, <2>3
<1>6. ASSUME NEW s \in 1 .. Len(raw), NEW k \in 1 .. Len(raw[s]), raw[s][k] = "*"
      PROVE  StarredAt(raw, s, k)
  <2> SUFFICES ASSUME NEW t \in 1 .. Len(raw), NEW j \in 1 .. Len(raw[t]), raw[t][j] = "*"
               PROVE  t = s /\ j = k
    BY <1>6 DEF StarredAt
  <2>1. s = t
    <3>1. ~(s < t) /\ ~(t < s)
      BY <1>5, <1>6
    <3> QED
      BY <3>1
  <2>2. TextBefore(raw, s) + k = TextBefore(raw, s) + j /\ TextBefore(raw, s) \in Nat
    <3>1. TextBefore(raw, s) + k \in stars /\ TextBefore(raw, s) \in Nat
      BY <1>4, <1>6
    <3>2. TextBefore(raw, t) + j \in stars
      BY <1>4
    <3> QED
      BY <1>3, <2>1, <3>1, <3>2
  <2>3. k \in Nat /\ j \in Nat
    <3>1. raw[s] \in Seq(T) /\ raw[t] \in Seq(T)
      OBVIOUS
    <3> QED
      BY <3>1
  <2> QED
    BY <2>1, <2>2, <2>3
<1> QED
  BY <1>6 DEF Starless

(***************************************************************************)
(* The text around the "*".                                                *)
(***************************************************************************)

\* What a text begins with, character by character.
LEMMA Prefix ==
    ASSUME NEW T, NEW s \in Seq(T), NEW t \in Seq(T)
    PROVE  IsPrefix(s, t) <=> /\ Len(s) <= Len(t)
                              /\ \A i \in 1 .. Len(s) : t[i] = s[i]
<1>1. Len(s) \in Nat /\ Len(t) \in Nat
  OBVIOUS
<1>2. SubSeq(s, 1, Len(s)) = s
  BY SubSeqFull
<1>3. ASSUME Len(s) <= Len(t)
      PROVE  (SubSeq(t, 1, Len(s)) = s) <=> \A i \in 1 .. Len(s) : t[i] = s[i]
  <2> DEFINE u == SubSeq(t, 1, Len(s))
  <2>1. u \in Seq(T) /\ Len(u) = Len(s) /\ \A i \in 1 .. Len(s) : u[i] = t[i]
    BY <1>1, <1>3
  <2> HIDE DEF u
  <2>2. (\A i \in 1 .. Len(s) : t[i] = s[i]) => u = s
    BY <2>1, SeqEqual
  <2>3. u = s => \A i \in 1 .. Len(s) : t[i] = s[i]
    BY <2>1
  <2> QED
    BY <2>2, <2>3 DEF u
<1> QED
  BY <1>2, <1>3 DEF IsPrefix

\* What a text ends with, character by character.
LEMMA Suffix ==
    ASSUME NEW T, NEW s \in Seq(T), NEW t \in Seq(T)
    PROVE  IsSuffix(s, t) <=> /\ Len(s) <= Len(t)
                              /\ \A i \in 1 .. Len(s) : t[Len(t) - Len(s) + i] = s[i]
<1> DEFINE rs == Reverse(s)
           rt == Reverse(t)
<1>1. Len(s) \in Nat /\ Len(t) \in Nat
  OBVIOUS
<1>2. rs \in Seq(T) /\ Len(rs) = Len(s) /\ \A i \in 1 .. Len(s) : rs[i] = s[Len(s) - i + 1]
  BY <1>1 DEF Reverse
<1>3. rt \in Seq(T) /\ Len(rt) = Len(t) /\ \A i \in 1 .. Len(t) : rt[i] = t[Len(t) - i + 1]
  BY <1>1 DEF Reverse
<1> HIDE DEF rs, rt
<1>4. IsPrefix(rs, rt) <=> Len(s) <= Len(t) /\ \A i \in 1 .. Len(s) : rt[i] = rs[i]
  <2>1. rs \in Seq(T) /\ rt \in Seq(T)
    BY <1>2, <1>3
  <2>2. IsPrefix(rs, rt) <=> Len(rs) <= Len(rt) /\ \A i \in 1 .. Len(rs) : rt[i] = rs[i]
    BY ONLY <2>1, Prefix
  <2> QED
    BY <1>2, <1>3, <2>2
<1>5. ASSUME Len(s) <= Len(t)
      PROVE  (\A i \in 1 .. Len(s) : rt[i] = rs[i])
                <=> \A i \in 1 .. Len(s) : t[Len(t) - Len(s) + i] = s[i]
  <2>1. ASSUME \A i \in 1 .. Len(s) : rt[i] = rs[i], NEW i \in 1 .. Len(s)
        PROVE  t[Len(t) - Len(s) + i] = s[i]
    <3> DEFINE j == Len(s) - i + 1
    <3>1. /\ j \in 1 .. Len(s) /\ j \in 1 .. Len(t)
          /\ Len(s) - j + 1 = i /\ Len(t) - j + 1 = Len(t) - Len(s) + i
      BY <1>1, <1>5
    <3> HIDE DEF j
    <3>2. rt[j] = rs[j] /\ rs[j] = s[Len(s) - j + 1] /\ rt[j] = t[Len(t) - j + 1]
      BY <1>2, <1>3, <2>1, <3>1
    <3> QED
      BY <3>1, <3>2
  <2>2. ASSUME \A i \in 1 .. Len(s) : t[Len(t) - Len(s) + i] = s[i], NEW j \in 1 .. Len(s)
        PROVE  rt[j] = rs[j]
    <3> DEFINE i == Len(s) - j + 1
    <3>1. /\ i \in 1 .. Len(s) /\ j \in 1 .. Len(t)
          /\ Len(t) - j + 1 = Len(t) - Len(s) + i
      BY <1>1, <1>5
    <3>2. rs[j] = s[i] /\ rt[j] = t[Len(t) - j + 1]
      BY <1>2, <1>3, <3>1
    <3> HIDE DEF i
    <3>3. t[Len(t) - Len(s) + i] = s[i]
      BY <2>2, <3>1
    <3> QED
      BY <3>1, <3>2, <3>3
  <2> QED
    BY <2>1, <2>2
<1> QED
  BY <1>4, <1>5 DEF IsSuffix, rs, rt

\* A text is what it begins with, what is between, and what it ends with.
Inner(text, b, e) == SubSeq(text, Len(b) + 1, Len(text) - Len(e))

\* A text that is long enough for what it begins and ends with is these, around its inner part.
LEMMA BetweenAffixes ==
    ASSUME NEW T, NEW text \in Seq(T), NEW b \in Seq(T), NEW e \in Seq(T),
           IsPrefix(b, text), IsSuffix(e, text), Len(b) + Len(e) <= Len(text)
    PROVE  /\ Inner(text, b, e) \in Seq(T)
           /\ text = (b \o Inner(text, b, e)) \o e
<1> DEFINE x == SubSeq(text, Len(b) + 1, Len(text) - Len(e))
           n == Len(text)
           c == Len(b)
           d == Len(e)
<1>1. n \in Nat /\ c \in Nat /\ d \in Nat /\ c + d <= n /\ \A i \in 1 .. n : text[i] \in T
  OBVIOUS
<1>a. \A i \in 1 .. c : text[i] = b[i]
  BY Prefix
<1>b. \A i \in 1 .. d : text[n - d + i] = e[i]
  BY Suffix
<1>2. x \in Seq(T) /\ Len(x) = n - d - c /\ \A i \in 1 .. n - d - c : x[i] = text[c + i]
  <2>1. \A i \in c + 1 .. n - d : text[i] \in T
    BY <1>1
  <2>2. /\ x \in Seq(T) /\ Len(x) = IF c + 1 <= n - d THEN n - d - (c + 1) + 1 ELSE 0
        /\ \A i \in 1 .. n - d - (c + 1) + 1 : x[i] = text[(c + 1) + i - 1]
    BY <1>1, <2>1, SubSeqProperties
  <2> HIDE DEF x
  <2>3. Len(x) = n - d - c
    BY <1>1, <2>2
  <2>4. \A i \in 1 .. n - d - c : x[i] = text[c + i]
    <3> TAKE i \in 1 .. n - d - c
    <3>1. i \in 1 .. n - d - (c + 1) + 1 /\ (c + 1) + i - 1 = c + i
      BY <1>1
    <3> QED
      BY <2>2, <3>1
  <2> QED
    BY <2>2, <2>3, <2>4
<1> HIDE DEF x
<1> DEFINE bx == b \o x
<1>3. /\ bx \in Seq(T) /\ Len(bx) = n - d
      /\ \A i \in 1 .. c : bx[i] = b[i]
      /\ \A i \in 1 .. n - d - c : bx[c + i] = x[i]
  <2>1. x \in Seq(T)
    BY <1>2
  <2>2. /\ bx \in Seq(T) /\ Len(bx) = Len(b) + Len(x)
        /\ \A i \in 1 .. Len(b) : bx[i] = b[i]
        /\ \A i \in 1 .. Len(x) : bx[Len(b) + i] = x[i]
    BY ONLY <2>1, b \in Seq(T), TwoLists
  <2> HIDE DEF bx
  <2> QED
    BY <1>1, <1>2, <2>2
<1> HIDE DEF bx
<1> DEFINE all == bx \o e
<1>4. /\ all \in Seq(T) /\ Len(all) = n
      /\ \A i \in 1 .. n - d : all[i] = bx[i]
      /\ \A i \in 1 .. d : all[(n - d) + i] = e[i]
  <2>1. bx \in Seq(T)
    BY <1>3
  <2>2. /\ all \in Seq(T) /\ Len(all) = Len(bx) + Len(e)
        /\ \A i \in 1 .. Len(bx) : all[i] = bx[i]
        /\ \A i \in 1 .. Len(e) : all[Len(bx) + i] = e[i]
    BY ONLY <2>1, e \in Seq(T), TwoLists
  <2> HIDE DEF all
  <2> QED
    BY <1>1, <1>3, <2>2
<1> HIDE DEF all
<1>5. ASSUME NEW i \in 1 .. n PROVE all[i] = text[i]
  <2>1. CASE i <= c
    <3>1. i \in 1 .. c /\ i \in 1 .. n - d
      BY <1>1, <2>1
    <3> QED
      BY <1>3, <1>4, <1>a, <3>1
  <2>2. CASE c < i /\ i <= n - d
    <3>1. i - c \in 1 .. n - d - c /\ c + (i - c) = i /\ i \in 1 .. n - d
      BY <1>1, <2>2
    <3>2. all[i] = bx[i]
      BY ONLY <1>4, <3>1
    <3>3. bx[i] = x[i - c]
      BY ONLY <1>3, <3>1
    <3>4. x[i - c] = text[i]
      BY ONLY <1>2, <3>1
    <3> QED
      BY <3>2, <3>3, <3>4
  <2>3. CASE n - d < i
    <3>1. i - (n - d) \in 1 .. d /\ (n - d) + (i - (n - d)) = i
      BY <1>1, <2>3
    <3>2. all[i] = e[i - (n - d)]
      BY ONLY <1>4, <3>1
    <3>3. text[i] = e[i - (n - d)]
      BY ONLY <3>1, <1>b
    <3> QED
      BY <3>2, <3>3
  <2> QED
    BY <1>1, <2>1, <2>2, <2>3
<1>6. all = text
  <2>1. Len(all) = Len(text) /\ \A i \in 1 .. Len(all) : all[i] = text[i]
    BY <1>4, <1>5
  <2> QED
    BY <1>4, <2>1, SeqEqual
<1> QED
  BY <1>2, <1>6 DEF all, bx, x, Inner

\* Texts put together begin and end as they do.
LEMMA AffixesBetween ==
    ASSUME NEW T, NEW b \in Seq(T), NEW x \in Seq(T), NEW e \in Seq(T)
    PROVE  /\ (b \o x) \o e \in Seq(T)
           /\ Len(b) \in Nat /\ Len(e) \in Nat /\ Len(x) \in Nat
           /\ Len((b \o x) \o e) = Len(b) + Len(x) + Len(e)
           /\ IsPrefix(b, (b \o x) \o e)
           /\ IsSuffix(e, (b \o x) \o e)
<1> DEFINE bx == b \o x
           all == bx \o e
<1>1. /\ bx \in Seq(T) /\ Len(b) \in Nat /\ Len(x) \in Nat /\ Len(bx) = Len(b) + Len(x)
      /\ \A i \in 1 .. Len(b) : bx[i] = b[i]
  BY TwoLists
<1> HIDE DEF bx
<1>2. /\ all \in Seq(T) /\ Len(e) \in Nat /\ Len(all) = Len(bx) + Len(e)
      /\ \A i \in 1 .. Len(bx) : all[i] = bx[i]
      /\ \A i \in 1 .. Len(e) : all[Len(bx) + i] = e[i]
  <2>1. bx \in Seq(T)
    BY <1>1
  <2> QED
    BY ONLY <2>1, e \in Seq(T), TwoLists
<1> HIDE DEF all
<1>3. IsPrefix(b, all)
  <2>1. Len(b) <= Len(all) /\ \A i \in 1 .. Len(b) : all[i] = b[i]
    BY <1>1, <1>2
  <2>2. all \in Seq(T) /\ b \in Seq(T)
    BY <1>2
  <2> QED
    BY ONLY <2>1, <2>2, Prefix
<1>4. IsSuffix(e, all)
  <2>1. Len(e) <= Len(all) /\ Len(all) - Len(e) = Len(bx)
    BY <1>1, <1>2
  <2>2. \A i \in 1 .. Len(e) : all[Len(all) - Len(e) + i] = e[i]
    BY <1>2, <2>1
  <2>3. all \in Seq(T) /\ e \in Seq(T)
    BY <1>2
  <2> QED
    BY ONLY <2>1, <2>2, <2>3, Suffix
<1> QED
  BY <1>1, <1>2, <1>3, <1>4 DEF all, bx

\* Another segment in the place of one.
Replaced(parts, s, y) == [parts EXCEPT ![s] = y]

\* With a segment replaced, the text around it stays.
LEMMA SlashedReplaced ==
    ASSUME NEW T, "/" \in T, NEW parts \in Seq(Seq(T)), NEW s \in 1 .. Len(parts), NEW y \in Seq(T)
    PROVE  /\ Replaced(parts, s, y) \in Seq(Seq(T)) /\ Len(Replaced(parts, s, y)) = Len(parts)
           /\ \A i \in 1 .. Len(parts) :
                Replaced(parts, s, y)[i] = IF i = s THEN y ELSE parts[i]
           /\ Slashed(Replaced(parts, s, y)) =
                Slashed(SubSeq(parts, 1, s - 1)) \o
                  ((Slash \o y) \o Slashed(SubSeq(parts, s + 1, Len(parts))))
<1> DEFINE q == Replaced(parts, s, y)
           a == SubSeq(parts, 1, s - 1)
           b == SubSeq(parts, s + 1, Len(parts))
           c == SubSeq(q, 1, s - 1)
           d == SubSeq(q, s + 1, Len(q))
           n == Len(parts)
<1>1. /\ q \in Seq(Seq(T)) /\ Len(q) = n
      /\ \A i \in 1 .. n : q[i] = IF i = s THEN y ELSE parts[i]
      /\ n \in Nat /\ s \in 1 .. n
  BY ExceptSeq DEF Replaced
<1>2. /\ a \in Seq(Seq(T)) /\ Len(a) = s - 1 /\ \A i \in 1 .. s - 1 : a[i] = parts[i]
      /\ b \in Seq(Seq(T)) /\ Len(b) = n - s /\ \A i \in 1 .. n - s : b[i] = parts[s + i]
  BY SplitList
<1> HIDE DEF q, a, b
<1>3. s \in 1 .. Len(q) /\ q[s] = y
  BY <1>1
<1>4. /\ c \in Seq(Seq(T)) /\ Len(c) = s - 1 /\ \A i \in 1 .. s - 1 : c[i] = q[i]
      /\ d \in Seq(Seq(T)) /\ Len(d) = n - s /\ \A i \in 1 .. n - s : d[i] = q[s + i]
  <2>1. Len(q) = n
    BY <1>1
  <2>2. /\ c \in Seq(Seq(T)) /\ Len(c) = s - 1 /\ \A i \in 1 .. s - 1 : c[i] = q[i]
        /\ d \in Seq(Seq(T)) /\ Len(d) = Len(q) - s /\ \A i \in 1 .. Len(q) - s : d[i] = q[s + i]
    BY ONLY <1>1, <1>3, SplitList
  <2> QED
    BY <2>1, <2>2
<1>5. Slashed(q) = Slashed(c) \o ((Slash \o q[s]) \o Slashed(d))
  BY ONLY <1>1, <1>3, "/" \in T, SlashedAround
<1> HIDE DEF c, d
<1>6. c = a
  <2>1. Len(c) = Len(a) /\ \A i \in 1 .. Len(c) : c[i] = a[i]
    <3>1. \A i \in 1 .. s - 1 : i \in 1 .. n /\ i # s
      BY <1>1
    <3> QED
      BY <1>1, <1>2, <1>4, <3>1
  <2> QED
    BY <1>2, <1>4, <2>1, SeqEqual
<1>7. d = b
  <2>1. \A i \in 1 .. n - s : s + i \in 1 .. n /\ s + i # s
    BY <1>1
  <2>2. Len(d) = Len(b) /\ \A i \in 1 .. Len(d) : d[i] = b[i]
    BY <1>1, <1>2, <1>4, <2>1
  <2> QED
    BY <1>2, <1>4, <2>2, SeqEqual
<1> QED
  BY <1>1, <1>3, <1>5, <1>6, <1>7 DEF q, a, b

\* Text in front of the first segment and behind the last.
Preceded(b, mid) == [mid EXCEPT ![1] = b \o mid[1]]

Followed(mid, e) == [mid EXCEPT ![Len(mid)] = mid[Len(mid)] \o e]

Wrapped(b, mid, e) == Followed(Preceded(b, mid), e)

\* A text in front of the first segment is in front of all of them.
LEMMA SlashedPreceded ==
    ASSUME NEW T, "/" \in T, NEW mid \in Seq(Seq(T)), mid # <<>>, NEW b \in Seq(T)
    PROVE  /\ Preceded(b, mid) \in Seq(Seq(T)) /\ Len(Preceded(b, mid)) = Len(mid)
           /\ \A i \in 1 .. Len(mid) : Preceded(b, mid)[i] = IF i = 1 THEN b \o mid[1] ELSE mid[i]
           /\ Slashed(Preceded(b, mid)) = Slash \o (b \o Joined(mid))
<1> DEFINE x == mid[1]
           y == b \o x
           rest == Slashed(SubSeq(mid, 1 + 1, Len(mid)))
           text == Joined(mid)
<1>1. 1 \in 1 .. Len(mid) /\ x \in Seq(T) /\ Slash \in Seq(T)
  BY DEF Slash
<1>2. y \in Seq(T)
  BY <1>1, ConcatProperties
<1> HIDE DEF y
<1>3. SubSeq(mid, 1, 1 - 1) = <<>>
  OBVIOUS
<1>4. /\ Preceded(b, mid) \in Seq(Seq(T)) /\ Len(Preceded(b, mid)) = Len(mid)
      /\ \A i \in 1 .. Len(mid) : Preceded(b, mid)[i] = IF i = 1 THEN y ELSE mid[i]
      /\ Slashed(Preceded(b, mid)) = Slashed(SubSeq(mid, 1, 1 - 1)) \o ((Slash \o y) \o rest)
  <2> DEFINE k == 1
             q == Replaced(mid, k, y)
  <2>1. k \in 1 .. Len(mid) /\ mid \in Seq(Seq(T)) /\ "/" \in T /\ y \in Seq(T)
    BY <1>1, <1>2
  <2>2. q = Preceded(b, mid)
    BY DEF Preceded, Replaced, y
  <2> HIDE DEF k
  <2>3. q \in Seq(Seq(T)) /\ Len(q) = Len(mid)
    BY ONLY <2>1, SlashedReplaced
  <2>4. \A i \in 1 .. Len(mid) : q[i] = IF i = k THEN y ELSE mid[i]
    BY ONLY <2>1, SlashedReplaced
  <2>5. Slashed(q) = Slashed(SubSeq(mid, 1, k - 1)) \o
                       ((Slash \o y) \o Slashed(SubSeq(mid, k + 1, Len(mid))))
    BY ONLY <2>1, SlashedReplaced
  <2> HIDE DEF q
  <2> QED
    BY <2>2, <2>3, <2>4, <2>5 DEF k
<1>5. rest \in Seq(T) /\ Slashed(mid) = Slashed(SubSeq(mid, 1, 1 - 1)) \o ((Slash \o x) \o rest)
  BY <1>1, SlashedAround
<1>6. text \in Seq(T) /\ Slashed(mid) = Slash \o text
  BY SlashedJoined
<1> HIDE DEF x, rest, text
<1>a. x \in Seq(T) /\ Slash \in Seq(T) /\ rest \in Seq(T) /\ b \in Seq(T)
  BY <1>1, <1>5
<1>7. (Slash \o x) \o rest = Slash \o (x \o rest) /\ x \o rest \in Seq(T)
  <2>1. (Slash \o x) \o rest = Slash \o (x \o rest)
    BY ONLY <1>a, ConcatAssociative
  <2>2. x \o rest \in Seq(T)
    BY ONLY <1>a, ConcatProperties
  <2> QED
    BY <2>1, <2>2
<1>8. (Slash \o y) \o rest = Slash \o (b \o (x \o rest))
  <2>1. (Slash \o y) \o rest = Slash \o (y \o rest)
    BY ONLY <1>2, <1>a, ConcatAssociative
  <2>2. (b \o x) \o rest = b \o (x \o rest)
    BY ONLY <1>a, ConcatAssociative
  <2> QED
    BY <2>1, <2>2 DEF y
<1>9. \A z \in Seq(T) : Slashed(<<>>) \o (Slash \o z) = Slash \o z
  <2> TAKE z \in Seq(T)
  <2>1. Slash \o z \in Seq(T)
    BY <1>1, ConcatProperties
  <2> QED
    BY <2>1, SlashedEmpty, ConcatEmptySeq
<1> DEFINE w == x \o rest
<1>10. w \in Seq(T) /\ b \o w \in Seq(T)
  BY <1>7, ConcatProperties
<1>11. Slash \o text = Slash \o w
  BY <1>3, <1>5, <1>6, <1>7, <1>9
<1> HIDE DEF w
<1>12. text = w
  BY <1>1, <1>6, <1>10, <1>11, ConcatSimplifications
<1>13. Slashed(Preceded(b, mid)) = Slash \o (b \o w)
  <2>1. Slashed(Preceded(b, mid)) = Slashed(<<>>) \o (Slash \o (b \o w))
    BY <1>3, <1>4, <1>8 DEF w
  <2> QED
    BY <1>9, <1>10, <2>1
<1> QED
  BY <1>4, <1>12, <1>13 DEF x, y, text

\* A text behind the last segment is behind all of them.
LEMMA SlashedFollowed ==
    ASSUME NEW T, "/" \in T, NEW mid \in Seq(Seq(T)), mid # <<>>, NEW e \in Seq(T)
    PROVE  /\ Followed(mid, e) \in Seq(Seq(T)) /\ Len(Followed(mid, e)) = Len(mid)
           /\ \A i \in 1 .. Len(mid) :
                Followed(mid, e)[i] = IF i = Len(mid) THEN mid[i] \o e ELSE mid[i]
           /\ Slashed(Followed(mid, e)) = Slashed(mid) \o e
<1> DEFINE n == Len(mid)
           x == mid[n]
           y == x \o e
           front == Slashed(SubSeq(mid, 1, n - 1))
<1>1. n \in 1 .. Len(mid) /\ x \in Seq(T) /\ Slash \in Seq(T)
  BY DEF Slash
<1>2. y \in Seq(T)
  BY <1>1, ConcatProperties
<1> HIDE DEF y
<1>3. SubSeq(mid, n + 1, n) = <<>>
  BY <1>1
<1>4. /\ Followed(mid, e) \in Seq(Seq(T)) /\ Len(Followed(mid, e)) = n
      /\ \A i \in 1 .. n : Followed(mid, e)[i] = IF i = n THEN y ELSE mid[i]
      /\ Slashed(Followed(mid, e)) = front \o ((Slash \o y) \o Slashed(SubSeq(mid, n + 1, n)))
  <2> DEFINE k == n
             q == Replaced(mid, k, y)
  <2>1. k \in 1 .. Len(mid) /\ mid \in Seq(Seq(T)) /\ "/" \in T /\ y \in Seq(T)
    BY <1>1, <1>2
  <2>2. q = Followed(mid, e)
    BY DEF Followed, Replaced, y
  <2> HIDE DEF k
  <2>3. q \in Seq(Seq(T)) /\ Len(q) = Len(mid)
    BY ONLY <2>1, SlashedReplaced
  <2>4. \A i \in 1 .. Len(mid) : q[i] = IF i = k THEN y ELSE mid[i]
    BY ONLY <2>1, SlashedReplaced
  <2>5. Slashed(q) = Slashed(SubSeq(mid, 1, k - 1)) \o
                       ((Slash \o y) \o Slashed(SubSeq(mid, k + 1, Len(mid))))
    BY ONLY <2>1, SlashedReplaced
  <2> HIDE DEF q
  <2> QED
    BY <2>2, <2>3, <2>4, <2>5 DEF k
<1>5. front \in Seq(T) /\ Slashed(mid) = front \o ((Slash \o x) \o Slashed(SubSeq(mid, n + 1, n)))
  BY <1>1, SlashedAround
<1> HIDE DEF x, front
<1>6. \A z \in Seq(T) : (Slash \o z) \o Slashed(<<>>) = Slash \o z /\ Slash \o z \in Seq(T)
  <2> TAKE z \in Seq(T)
  <2>1. Slash \o z \in Seq(T)
    BY <1>1, ConcatProperties
  <2> QED
    BY <2>1, SlashedEmpty, ConcatEmptySeq
<1>7. Slashed(mid) = front \o (Slash \o x)
  BY <1>1, <1>3, <1>5, <1>6
<1>8. Slashed(Followed(mid, e)) = front \o (Slash \o y)
  BY <1>2, <1>3, <1>4, <1>6
<1>9. front \o (Slash \o y) = (front \o (Slash \o x)) \o e
  <2> DEFINE v == Slash \o x
  <2>1. v \in Seq(T)
    BY <1>1, <1>6
  <2>a. Slash \in Seq(T) /\ x \in Seq(T) /\ e \in Seq(T) /\ front \in Seq(T)
    BY <1>1, <1>5
  <2>b. (Slash \o x) \o e = Slash \o (x \o e)
    BY ONLY <2>a, ConcatAssociative
  <2>2. Slash \o y = v \o e
    BY <2>b DEF y
  <2> HIDE DEF v
  <2>3. front \o (v \o e) = (front \o v) \o e
    <3>1. front \in Seq(T) /\ v \in Seq(T) /\ e \in Seq(T)
      BY <2>1, <2>a
    <3> QED
      BY ONLY <3>1, ConcatAssociative
  <2> QED
    BY <2>2, <2>3 DEF v
<1> QED
  BY <1>4, <1>7, <1>8, <1>9 DEF x, y

\* The premises of a lemma have a name where its terms are put together.
Wrapping(T, b, mid, e) ==
    "/" \in T /\ mid \in Seq(Seq(T)) /\ mid # <<>> /\ b \in Seq(T) /\ e \in Seq(T)

\* So with both, the texts of the segments are between the two.
LEMMA SlashedWrapped ==
    ASSUME NEW T, NEW b, NEW mid, NEW e, Wrapping(T, b, mid, e)
    PROVE  /\ Wrapped(b, mid, e) \in Seq(Seq(T)) /\ Len(Wrapped(b, mid, e)) = Len(mid)
           /\ \A i \in 1 .. Len(mid) : Wrapped(b, mid, e)[i] =
                IF i = Len(mid) THEN (IF i = 1 THEN b \o mid[i] ELSE mid[i]) \o e
                ELSE IF i = 1 THEN b \o mid[i] ELSE mid[i]
           /\ Slashed(Wrapped(b, mid, e)) = Slash \o (b \o (Joined(mid) \o e))
<1>w. "/" \in T /\ mid \in Seq(Seq(T)) /\ mid # <<>> /\ b \in Seq(T) /\ e \in Seq(T)
  BY DEF Wrapping
<1> DEFINE q == Preceded(b, mid)
           text == Joined(mid)
           n == Len(mid)
<1>1. /\ q \in Seq(Seq(T)) /\ Len(q) = n
      /\ \A i \in 1 .. n : q[i] = IF i = 1 THEN b \o mid[1] ELSE mid[i]
      /\ Slashed(q) = Slash \o (b \o text)
      /\ text \in Seq(T) /\ n \in Nat /\ n # 0
  <2>1. /\ q \in Seq(Seq(T)) /\ Len(q) = n
        /\ \A i \in 1 .. n : q[i] = IF i = 1 THEN b \o mid[1] ELSE mid[i]
        /\ Slashed(q) = Slash \o (b \o text)
    BY <1>w, SlashedPreceded
  <2>2. text \in Seq(T)
    BY <1>w, SlashedJoined
  <2>3. n \in Nat /\ n # 0
    BY <1>w, EmptySeq
  <2> QED
    BY <2>1, <2>2, <2>3
<1> HIDE DEF q, text
<1>2. q # <<>>
  BY <1>1
<1> DEFINE w == Followed(q, e)
<1>3. /\ w \in Seq(Seq(T)) /\ Len(w) = Len(q)
      /\ \A i \in 1 .. Len(q) : w[i] = IF i = Len(q) THEN q[i] \o e ELSE q[i]
      /\ Slashed(w) = Slashed(q) \o e
  <2>1. q \in Seq(Seq(T))
    BY <1>1
  <2>2. e \in Seq(T) /\ "/" \in T
    BY <1>w
  <2> QED
    BY ONLY <1>2, <2>1, <2>2, SlashedFollowed
<1> HIDE DEF w
<1>4. (Slash \o (b \o text)) \o e = Slash \o (b \o (text \o e))
  <2> DEFINE bt == b \o text
  <2>1. Slash \in Seq(T) /\ bt \in Seq(T)
    <3>1. text \in Seq(T) /\ b \in Seq(T)
      BY <1>w, <1>1
    <3>2. bt \in Seq(T)
      BY ONLY <3>1, ConcatProperties
    <3> QED
      BY <1>w, <3>2 DEF Slash
  <2>2. bt \o e = b \o (text \o e)
    <3>1. text \in Seq(T) /\ b \in Seq(T) /\ e \in Seq(T)
      BY <1>w, <1>1
    <3> QED
      BY ONLY <3>1, ConcatAssociative
  <2> HIDE DEF bt
  <2> DEFINE sl == Slash
  <2>3. (sl \o bt) \o e = sl \o (bt \o e)
    <3>1. sl \in Seq(T) /\ bt \in Seq(T) /\ e \in Seq(T)
      BY <1>w, <2>1
    <3> HIDE DEF sl
    <3> QED
      BY ONLY <3>1, ConcatAssociative
  <2> QED
    BY <2>2, <2>3 DEF bt
<1>5. w = Wrapped(b, mid, e)
  BY DEF w, q, Wrapped
<1>6. \A i \in 1 .. n : w[i] = IF i = n THEN (IF i = 1 THEN b \o mid[i] ELSE mid[i]) \o e
                               ELSE IF i = 1 THEN b \o mid[i] ELSE mid[i]
  BY <1>1, <1>3
<1>7. w \in Seq(Seq(T)) /\ Len(w) = n /\ Slashed(w) = Slash \o (b \o (text \o e))
  BY <1>1, <1>3, <1>4
<1> QED
  BY <1>5, <1>6, <1>7 DEF text

(***************************************************************************)
(* What compilePattern makes of a pattern, and what that matches.          *)
(***************************************************************************)

\* A segment has its text, and a slot when it is a placeholder.
LEMMA SegmentSlot ==
    ASSUME NEW T, NEW part \in Seq(T)
    PROVE  /\ PatternSegment(part).literal = part
           /\ PatternSegment(part).slot # NoSlot <=> Len(part) >= 2 /\ part[1] = ":"
<1>1. Len(part) >= 2 => Tail(part) # <<>>
  <2> SUFFICES ASSUME Len(part) >= 2 PROVE Tail(part) # <<>>
    OBVIOUS
  <2>1. part # <<>> /\ Len(part) \in Nat
    OBVIOUS
  <2>2. Len(Tail(part)) = Len(part) - 1
    BY <2>1, HeadTailProperties
  <2>3. Len(Tail(part)) # 0
    BY <2>1, <2>2
  <2> QED
    BY <2>3, EmptySeq
<1> QED
  BY <1>1 DEF PatternSegment, NoSlot

\* A pattern without a "*" is all head.
LEMMA CompileStarless ==
    ASSUME NEW T, NEW raw \in Seq(Seq(T)), Starless(raw)
    PROVE  /\ CompilePattern(raw).raw = raw /\ CompilePattern(raw).fold = FALSE
           /\ CompilePattern(raw).hasSplat = FALSE
           /\ CompilePattern(raw).head = Segments(raw) /\ CompilePattern(raw).tail = <<>>
<1>1. {i \in DOMAIN raw : Contains(raw[i], "*")} = {}
  <2>1. DOMAIN raw = 1 .. Len(raw)
    OBVIOUS
  <2>2. \A i \in DOMAIN raw : ~Contains(raw[i], "*")
    BY <2>1 DEF Contains, Starless
  <2> QED
    BY <2>2
<1> QED
  BY <1>1 DEF CompilePattern

\* What it is compiled to.
StarredPattern(raw, s, k) ==
    [raw |-> raw, fold |-> FALSE, hasSplat |-> TRUE,
     head   |-> Segments(SubSeq(raw, 1, s - 1)),
     tail   |-> Segments(SubSeq(raw, s + 1, Len(raw))),
     before |-> SubSeq(raw[s], 1, k - 1),
     after  |-> SubSeq(raw[s], k + 1, Len(raw[s]))]

\* One with a "*" is split at its segment, and that at the "*".
LEMMA CompileStarred ==
    ASSUME NEW T, NEW raw \in Seq(Seq(T)), NEW s, NEW k, StarredAt(raw, s, k)
    PROVE  CompilePattern(raw) = StarredPattern(raw, s, k)
<1> DEFINE starred == {i \in DOMAIN raw : Contains(raw[i], "*")}
           at == CHOOSE i \in starred : TRUE
           place == CHOOSE j \in DOMAIN raw[at] : raw[at][j] = "*"
<1>1. starred = {s}
  <2>1. DOMAIN raw = 1 .. Len(raw)
    OBVIOUS
  <2> QED
    BY <2>1 DEF StarredAt, Contains
<1>2. at = s
  BY <1>1
<1>3. place = k
  <2>1. s \in 1 .. Len(raw) /\ k \in 1 .. Len(raw[s]) /\ raw[s][k] = "*"
    BY DEF StarredAt
  <2>2. raw[s] \in Seq(T)
    BY <2>1
  <2>3. DOMAIN raw[s] = 1 .. Len(raw[s])
    BY <2>2
  <2>4. \A j \in DOMAIN raw[s] : raw[s][j] = "*" <=> j = k
    BY <2>1, <2>3 DEF StarredAt
  <2>5. \E j \in DOMAIN raw[s] : raw[s][j] = "*"
    BY <2>1, <2>3
  <2> HIDE DEF at
  <2>6. place \in DOMAIN raw[s] /\ raw[s][place] = "*"
    BY <1>2, <2>5
  <2> QED
    BY <2>4, <2>6
<1>4. CompilePattern(raw) =
        [raw |-> raw, fold |-> FALSE, hasSplat |-> TRUE,
         head   |-> Segments(SubSeq(raw, 1, at - 1)),
         tail   |-> Segments(SubSeq(raw, at + 1, Len(raw))),
         before |-> SubSeq(raw[at], 1, place - 1),
         after  |-> SubSeq(raw[at], place + 1, Len(raw[at]))]
  BY <1>1 DEF CompilePattern
<1> HIDE DEF at, place
<1> QED
  BY <1>2, <1>3, <1>4, Zenon DEF StarredPattern

\* A segment that no placeholder is in matches only itself.
Stays(raw, i, part) == i \in Placeholders(raw) \/ part = raw[i]

\* A segment matches when it is kept.
LEMMA SegmentStays ==
    ASSUME NEW T, NEW raw \in Seq(Seq(T)), NEW i \in 1 .. Len(raw), NEW p, p.fold = FALSE, NEW part
    PROVE  SegmentMatch(p, PatternSegment(raw[i]), part) <=> Stays(raw, i, part)
<1>1. raw[i] \in Seq(T) /\ DOMAIN raw = 1 .. Len(raw)
  OBVIOUS
<1>2. /\ PatternSegment(raw[i]).literal = raw[i]
      /\ PatternSegment(raw[i]).slot # NoSlot <=> Len(raw[i]) >= 2 /\ raw[i][1] = ":"
  BY <1>1, SegmentSlot
<1>3. PatternSegment(raw[i]).slot # NoSlot <=> i \in Placeholders(raw)
  BY <1>1, <1>2 DEF Placeholders
<1> QED
  BY <1>2, <1>3 DEF SegmentMatch, Stays

\* The segments a compiled pattern without a "*" has.
LEMMA StarlessSegments ==
    ASSUME NEW T, NEW raw \in Seq(Seq(T)), Starless(raw)
    PROVE  LET p == CompilePattern(raw) IN
           /\ Len(raw) \in Nat /\ p.fold = FALSE /\ p.hasSplat = FALSE /\ p.tail = <<>>
           /\ DOMAIN p.head = 1 .. Len(raw) /\ Len(p.head) = Len(raw)
           /\ \A i \in 1 .. Len(raw) : p.head[i] = PatternSegment(raw[i])
<1> DEFINE p == CompilePattern(raw)
<1>1. /\ p.fold = FALSE /\ p.hasSplat = FALSE /\ p.head = Segments(raw) /\ p.tail = <<>>
  BY CompileStarless
<1> HIDE DEF p
<1>2. p.head = [i \in 1 .. Len(raw) |-> PatternSegment(raw[i])] /\ Len(raw) \in Nat
  BY <1>1 DEF Segments
<1>3. /\ DOMAIN p.head = 1 .. Len(raw) /\ Len(p.head) = Len(raw)
      /\ \A i \in 1 .. Len(raw) : p.head[i] = PatternSegment(raw[i])
  BY <1>2
<1> QED
  BY <1>1, <1>2, <1>3 DEF p

\* A pattern without a "*" matches the paths that keep all of its segments.
LEMMA StarlessMatch ==
    ASSUME NEW T, NEW raw \in Seq(Seq(T)), Starless(raw), NEW path \in Seq(Seq(T))
    PROVE  Match(CompilePattern(raw), path) <=>
             /\ Len(path) = Len(raw)
             /\ \A i \in 1 .. Len(raw) : Stays(raw, i, path[i])
<1> DEFINE p == CompilePattern(raw)
<1>1. p.fold = FALSE /\ p.hasSplat = FALSE
  BY StarlessSegments
<1>2. /\ DOMAIN p.head = 1 .. Len(raw) /\ Len(p.head) = Len(raw)
      /\ \A i \in 1 .. Len(raw) : p.head[i] = PatternSegment(raw[i])
  BY StarlessSegments
<1> HIDE DEF p
<1>3. \A i \in 1 .. Len(raw) : SegmentMatch(p, p.head[i], path[i]) <=> Stays(raw, i, path[i])
  <2> TAKE i \in 1 .. Len(raw)
  <2>1. SegmentMatch(p, PatternSegment(raw[i]), path[i]) <=> Stays(raw, i, path[i])
    BY <1>1, SegmentStays
  <2> QED
    BY <1>2, <2>1
<1>4. HeadMatches(p, path) <=> \A i \in 1 .. Len(raw) : Stays(raw, i, path[i])
  BY <1>2, <1>3 DEF HeadMatches
<1>5. Match(p, path) <=> Len(path) = Len(raw) /\ HeadMatches(p, path)
  BY <1>1, <1>2 DEF Match
<1> QED
  BY <1>4, <1>5 DEF p

\* The segments a compiled pattern with a "*" has in front of it and behind.
LEMMA StarredSegments ==
    ASSUME NEW T, NEW raw \in Seq(Seq(T)), NEW s, NEW k, StarredAt(raw, s, k)
    PROVE  LET p == CompilePattern(raw) IN
           /\ s \in 1 .. Len(raw) /\ Len(raw) \in Nat /\ p.fold = FALSE /\ p.hasSplat = TRUE
           /\ DOMAIN p.head = 1 .. s - 1 /\ Len(p.head) = s - 1
           /\ \A i \in 1 .. s - 1 : p.head[i] = PatternSegment(raw[i])
           /\ DOMAIN p.tail = 1 .. Len(raw) - s /\ Len(p.tail) = Len(raw) - s
           /\ \A i \in 1 .. Len(raw) - s : p.tail[i] = PatternSegment(raw[s + i])
<1> DEFINE p == CompilePattern(raw)
           n == Len(raw)
           a == SubSeq(raw, 1, s - 1)
           b == SubSeq(raw, s + 1, n)
<1>1. p.fold = FALSE /\ p.hasSplat = TRUE /\ p.head = Segments(a) /\ p.tail = Segments(b)
  <2> DEFINE h == Segments(a)
             t == Segments(b)
             f == SubSeq(raw[s], 1, k - 1)
             g == SubSeq(raw[s], k + 1, Len(raw[s]))
  <2>1. p = [raw |-> raw, fold |-> FALSE, hasSplat |-> TRUE, head |-> h, tail |-> t,
             before |-> f, after |-> g]
    BY CompileStarred, Zenon DEF StarredPattern
  <2> HIDE DEF p, h, t, f, g
  <2> QED
    BY <2>1 DEF h, t
<1>2. s \in 1 .. n /\ n \in Nat /\ s \in Nat
  <2>1. s \in 1 .. Len(raw)
    BY DEF StarredAt
  <2> QED
    BY <2>1
<1>3. /\ a \in Seq(Seq(T)) /\ Len(a) = s - 1 /\ \A i \in 1 .. s - 1 : a[i] = raw[i]
      /\ b \in Seq(Seq(T)) /\ Len(b) = n - s /\ \A i \in 1 .. n - s : b[i] = raw[s + i]
  BY <1>2, SplitList
<1> HIDE DEF p, a, b
<1>4. /\ DOMAIN p.head = 1 .. s - 1 /\ Len(p.head) = s - 1
      /\ \A i \in 1 .. s - 1 : p.head[i] = PatternSegment(raw[i])
  <2> DEFINE h == s - 1
  <2>1. p.head = [i \in 1 .. h |-> PatternSegment(a[i])] /\ h \in Nat
    BY <1>1, <1>2, <1>3 DEF Segments
  <2>2. \A i \in 1 .. h : a[i] = raw[i]
    BY <1>3
  <2> HIDE DEF h
  <2>3. DOMAIN p.head = 1 .. h /\ Len(p.head) = h /\ \A i \in 1 .. h : p.head[i] = PatternSegment(raw[i])
    BY <2>1, <2>2
  <2> QED
    BY <2>3 DEF h
<1>5. /\ DOMAIN p.tail = 1 .. n - s /\ Len(p.tail) = n - s
      /\ \A i \in 1 .. n - s : p.tail[i] = PatternSegment(raw[s + i])
  <2>1. p.tail = [i \in 1 .. n - s |-> PatternSegment(b[i])]
    BY <1>1, <1>3 DEF Segments
  <2> QED
    BY <1>2, <1>3, <2>1
<1> QED
  BY <1>1, <1>2, <1>4, <1>5 DEF p

\* One with a "*" matches those that keep the segments around, and the text around the "*".
LEMMA StarredMatch ==
    ASSUME NEW T, NEW raw \in Seq(Seq(T)), NEW s, NEW k, StarredAt(raw, s, k), NEW path \in Seq(Seq(T))
    PROVE  /\ Rest(CompilePattern(raw), path) = SubSeq(path, s, Len(path) - (Len(raw) - s))
           /\ Match(CompilePattern(raw), path) <=>
                /\ Len(path) >= Len(raw)
                /\ \A i \in 1 .. s - 1 : Stays(raw, i, path[i])
                /\ \A i \in s + 1 .. Len(raw) : Stays(raw, i, path[Len(path) - Len(raw) + i])
                /\ Affixes(CompilePattern(raw), Rest(CompilePattern(raw), path))
<1> DEFINE p == CompilePattern(raw)
           n == Len(raw)
           m == Len(path)
<1>1. p.fold = FALSE /\ s \in 1 .. n /\ n \in Nat /\ p.hasSplat = TRUE
  BY StarredSegments
<1>2. s \in 1 .. n /\ n \in Nat /\ m \in Nat /\ s \in Nat
  BY <1>1
<1>4. /\ DOMAIN p.head = 1 .. s - 1 /\ Len(p.head) = s - 1
      /\ \A i \in 1 .. s - 1 : p.head[i] = PatternSegment(raw[i])
  BY StarredSegments
<1>5. /\ DOMAIN p.tail = 1 .. n - s /\ Len(p.tail) = n - s
      /\ \A i \in 1 .. n - s : p.tail[i] = PatternSegment(raw[s + i])
  BY StarredSegments
<1> HIDE DEF p
<1>6. HeadMatches(p, path) <=> \A i \in 1 .. s - 1 : Stays(raw, i, path[i])
  <2>1. ASSUME NEW i \in 1 .. s - 1
        PROVE  SegmentMatch(p, p.head[i], path[i]) <=> Stays(raw, i, path[i])
    <3>1. i \in 1 .. Len(raw)
      BY <1>2
    <3>2. SegmentMatch(p, PatternSegment(raw[i]), path[i]) <=> Stays(raw, i, path[i])
      BY <1>1, <3>1, SegmentStays
    <3> QED
      BY <1>4, <3>2
  <2> QED
    BY <1>4, <2>1 DEF HeadMatches
<1>7. TailMatches(p, path) <=> \A i \in s + 1 .. n : Stays(raw, i, path[m - n + i])
  <2>1. ASSUME NEW i \in 1 .. n - s
        PROVE  SegmentMatch(p, p.tail[i], path[m - (n - s) + i]) <=> Stays(raw, s + i, path[m - n + (s + i)])
    <3>1. s + i \in 1 .. Len(raw) /\ m - (n - s) + i = m - n + (s + i)
      BY <1>2
    <3> DEFINE j == s + i
               part == path[m - n + j]
    <3>2. p.tail[i] = PatternSegment(raw[j]) /\ path[m - (n - s) + i] = part
      BY <1>5, <3>1
    <3> HIDE DEF part, j
    <3>3. SegmentMatch(p, PatternSegment(raw[j]), part) <=> Stays(raw, j, part)
      BY <1>1, <3>1, SegmentStays DEF j
    <3> QED
      BY <3>2, <3>3 DEF part, j
  <2>2. TailMatches(p, path) <=> \A i \in 1 .. n - s : Stays(raw, s + i, path[m - n + (s + i)])
    <3>1. TailMatches(p, path) <=> \A i \in 1 .. n - s : SegmentMatch(p, p.tail[i], path[m - (n - s) + i])
      BY <1>5 DEF TailMatches
    <3> QED
      BY <2>1, <3>1
  <2>3. ASSUME \A i \in 1 .. n - s : Stays(raw, s + i, path[m - n + (s + i)]), NEW j \in s + 1 .. n
        PROVE  Stays(raw, j, path[m - n + j])
    <3>1. j - s \in 1 .. n - s /\ s + (j - s) = j
      BY <1>2
    <3> QED
      BY <2>3, <3>1
  <2>4. ASSUME \A j \in s + 1 .. n : Stays(raw, j, path[m - n + j]), NEW i \in 1 .. n - s
        PROVE  Stays(raw, s + i, path[m - n + (s + i)])
    <3>1. s + i \in s + 1 .. n
      BY <1>2
    <3> QED
      BY <2>4, <3>1
  <2> QED
    BY <2>2, <2>3, <2>4
<1>8. Rest(p, path) = SubSeq(path, s, m - (n - s))
  <2>1. Len(p.head) + 1 = s /\ Len(p.tail) = n - s
    BY <1>2, <1>4, <1>5
  <2> QED
    BY <2>1 DEF Rest
<1>9. Len(path) > Len(p.head) + Len(p.tail) <=> m >= n
  BY <1>2, <1>4, <1>5
<1>10. Match(p, path) <=> /\ m >= n /\ HeadMatches(p, path) /\ TailMatches(p, path)
                          /\ Affixes(p, Rest(p, path))
  BY <1>1, <1>9 DEF Match
<1> QED
  BY <1>6, <1>7, <1>8, <1>10 DEF p

(***************************************************************************)
(* What the "*" stands for.                                                *)
(***************************************************************************)

\* The rest of a text behind, before, and between what surrounds it.
LEMMA BehindPrefix ==
    ASSUME NEW T, NEW text \in Seq(T), NEW b \in Seq(T), IsPrefix(b, text)
    PROVE  /\ SubSeq(text, Len(b) + 1, Len(text) - 0) \in Seq(T)
           /\ text = b \o SubSeq(text, Len(b) + 1, Len(text) - 0)
<1> DEFINE e == <<>>
           x == Inner(text, b, e)
<1>1. /\ e \in Seq(T) /\ Len(e) = 0 /\ Len(b) \in Nat /\ Len(text) \in Nat
      /\ Len(b) <= Len(text) /\ \A i \in 1 .. Len(b) : text[i] = b[i]
  BY Prefix, EmptySeq
<1>2. x = SubSeq(text, Len(b) + 1, Len(text) - 0)
  BY <1>1 DEF Inner
<1> HIDE DEF e
<1>3. Len(b) + Len(e) <= Len(text) /\ IsSuffix(e, text)
  <2>1. Len(e) <= Len(text) /\ \A i \in 1 .. Len(e) : text[Len(text) - Len(e) + i] = e[i]
    BY <1>1
  <2>2. e \in Seq(T)
    BY <1>1
  <2>3. IsSuffix(e, text)
    BY ONLY <2>1, <2>2, text \in Seq(T), Suffix
  <2> QED
    BY <1>1, <2>3
<1>4. x \in Seq(T) /\ text = (b \o x) \o e
  BY <1>1, <1>3, BetweenAffixes
<1> HIDE DEF x
<1>5. b \o x \in Seq(T)
  BY <1>4, ConcatProperties
<1>6. (b \o x) \o e = b \o x
  BY <1>5, ConcatEmptySeq DEF e
<1> QED
  BY <1>2, <1>4, <1>6

\* What is in front of a text's end.
LEMMA BeforeSuffix ==
    ASSUME NEW T, NEW text \in Seq(T), NEW e \in Seq(T), IsSuffix(e, text)
    PROVE  /\ SubSeq(text, 1, Len(text) - Len(e)) \in Seq(T)
           /\ text = SubSeq(text, 1, Len(text) - Len(e)) \o e
<1> DEFINE b == <<>>
           x == Inner(text, b, e)
<1>1. /\ b \in Seq(T) /\ Len(b) = 0 /\ Len(e) \in Nat /\ Len(text) \in Nat
      /\ Len(e) <= Len(text) /\ \A i \in 1 .. Len(e) : text[Len(text) - Len(e) + i] = e[i]
  BY Suffix, EmptySeq
<1>2. x = SubSeq(text, 1, Len(text) - Len(e))
  BY <1>1 DEF Inner
<1> HIDE DEF b
<1>3. Len(b) + Len(e) <= Len(text) /\ IsPrefix(b, text)
  <2>1. Len(b) <= Len(text) /\ \A i \in 1 .. Len(b) : text[i] = b[i]
    BY <1>1
  <2>2. b \in Seq(T)
    BY <1>1
  <2>3. IsPrefix(b, text)
    BY ONLY <2>1, <2>2, text \in Seq(T), Prefix
  <2> QED
    BY <1>1, <2>3
<1>4. x \in Seq(T) /\ text = (b \o x) \o e
  BY <1>1, <1>3, BetweenAffixes
<1> HIDE DEF x
<1>5. b \o x = x
  BY <1>4, ConcatEmptySeq DEF b
<1> QED
  BY <1>2, <1>4, <1>5

\* Splat, of what is around the "*" instead of a pattern.
Between(rest, b, e) ==
    [i \in DOMAIN rest |->
       SubSeq(rest[i], IF i = 1 THEN Len(b) + 1 ELSE 1,
                       Len(rest[i]) - IF i = Len(rest) THEN Len(e) ELSE 0)]

\* The segments that the "*" has a part in are what is around it and that part.
LEMMA AffixesWrap ==
    ASSUME NEW T, "/" \in T, NEW rest \in Seq(Seq(T)), rest # <<>>, NEW b \in Seq(T), NEW e \in Seq(T),
           IsPrefix(b, rest[1]), IsSuffix(e, rest[Len(rest)]),
           Len(rest) = 1 => Len(b) + Len(e) <= Len(rest[1])
    PROVE  /\ Between(rest, b, e) \in Seq(Seq(T)) /\ Between(rest, b, e) # <<>>
           /\ rest = Wrapped(b, Between(rest, b, e), e)
<1> DEFINE mid == Between(rest, b, e)
           n == Len(rest)
           w == Wrapped(b, mid, e)
<1>1. n \in Nat /\ n # 0 /\ DOMAIN rest = 1 .. n /\ \A i \in 1 .. n : rest[i] \in Seq(T)
  BY EmptySeq
<1>2. mid = [i \in 1 .. n |-> SubSeq(rest[i], IF i = 1 THEN Len(b) + 1 ELSE 1,
                                     Len(rest[i]) - IF i = n THEN Len(e) ELSE 0)]
  BY <1>1 DEF Between
<1> HIDE DEF mid
<1>3. ASSUME NEW i \in 1 .. n
      PROVE  /\ mid[i] \in Seq(T)
             /\ rest[i] = IF i = n THEN (IF i = 1 THEN b \o mid[i] ELSE mid[i]) \o e
                          ELSE IF i = 1 THEN b \o mid[i] ELSE mid[i]
  <2> DEFINE text == rest[i]
             x == mid[i]
  <2>1. text \in Seq(T) /\ Len(text) \in Nat
    BY <1>1
  <2>2. x = SubSeq(text, IF i = 1 THEN Len(b) + 1 ELSE 1, Len(text) - IF i = n THEN Len(e) ELSE 0)
    BY <1>2
  <2>3. (i = 1 => IsPrefix(b, text)) /\ (i = n => IsSuffix(e, text))
    OBVIOUS
  <2>4. i = 1 /\ i = n => Len(b) + Len(e) <= Len(text)
    OBVIOUS
  <2> HIDE DEF text, x
  <2>5. CASE i = 1 /\ i = n
    <3>1. x = Inner(text, b, e)
      BY <2>2, <2>5 DEF Inner
    <3>2. /\ text \in Seq(T) /\ b \in Seq(T) /\ e \in Seq(T)
          /\ IsPrefix(b, text) /\ IsSuffix(e, text) /\ Len(b) + Len(e) <= Len(text)
      BY <2>1, <2>3, <2>4, <2>5
    <3>3. Inner(text, b, e) \in Seq(T)
      BY ONLY <3>2, BetweenAffixes
    <3>4. text = (b \o Inner(text, b, e)) \o e
      BY ONLY <3>2, BetweenAffixes
    <3> QED
      BY <2>5, <3>1, <3>3, <3>4 DEF text, x
  <2>6. CASE i = 1 /\ i # n
    <3>1. x = SubSeq(text, Len(b) + 1, Len(text) - 0)
      BY <2>2, <2>6
    <3>2. x \in Seq(T) /\ text = b \o x
      BY <2>1, <2>3, <2>6, <3>1, BehindPrefix
    <3> QED
      BY <2>6, <3>2 DEF text, x
  <2>7. CASE i # 1 /\ i = n
    <3>1. x = SubSeq(text, 1, Len(text) - Len(e))
      BY <2>2, <2>7
    <3>2. x \in Seq(T) /\ text = x \o e
      BY <2>1, <2>3, <2>7, <3>1, BeforeSuffix
    <3> QED
      BY <2>7, <3>2 DEF text, x
  <2>8. CASE i # 1 /\ i # n
    <3>1. x = SubSeq(text, 1, Len(text))
      BY <2>1, <2>2, <2>8
    <3>2. x = text
      BY <2>1, <3>1, SubSeqFull
    <3> QED
      BY <2>1, <2>8, <3>2 DEF text, x
  <2> QED
    BY <2>5, <2>6, <2>7, <2>8
<1>4. mid \in Seq(Seq(T)) /\ Len(mid) = n /\ mid # <<>>
  <2>1. mid \in [1 .. n -> Seq(T)]
    BY <1>2, <1>3
  <2>2. mid \in Seq(Seq(T)) /\ Len(mid) = n
    <3>1. n \in Nat
      BY <1>1
    <3> HIDE DEF n
    <3> QED
      BY ONLY <2>1, <3>1
  <2> QED
    BY <1>1, <2>2, EmptySeq
<1>5. /\ w \in Seq(Seq(T)) /\ Len(w) = Len(mid)
      /\ \A i \in 1 .. Len(mid) : w[i] =
           IF i = Len(mid) THEN (IF i = 1 THEN b \o mid[i] ELSE mid[i]) \o e
           ELSE IF i = 1 THEN b \o mid[i] ELSE mid[i]
  <2>1. mid \in Seq(Seq(T)) /\ mid # <<>>
    BY <1>4
  <2> QED
    <3>1. Wrapping(T, b, mid, e)
      BY <2>1 DEF Wrapping
    <3> QED
      BY ONLY <3>1, SlashedWrapped
<1> HIDE DEF w
<1>6. \A i \in 1 .. n : w[i] = rest[i]
  BY <1>3, <1>4, <1>5
<1>7. w = rest
  BY <1>4, <1>5, <1>6, SeqEqual
<1> QED
  BY <1>4, <1>7 DEF w, mid

\* And what they are put together from, they begin and end with.
LEMMA WrapAffixes ==
    ASSUME NEW T, "/" \in T, NEW mid \in Seq(Seq(T)), mid # <<>>, NEW b \in Seq(T), NEW e \in Seq(T)
    PROVE  LET rest == Wrapped(b, mid, e) IN
           /\ IsPrefix(b, rest[1]) /\ IsSuffix(e, rest[Len(rest)])
           /\ Len(rest) = 1 => Len(b) + Len(e) <= Len(rest[1])
<1> DEFINE w == Wrapped(b, mid, e)
           n == Len(mid)
           x == mid[1]
           z == mid[n]
<1>1. n \in Nat /\ n # 0 /\ 1 \in 1 .. n /\ n \in 1 .. n /\ \A i \in 1 .. n : mid[i] \in Seq(T)
  BY EmptySeq
<1>2. /\ w \in Seq(Seq(T)) /\ Len(w) = n
      /\ \A i \in 1 .. n : w[i] = IF i = n THEN (IF i = 1 THEN b \o mid[i] ELSE mid[i]) \o e
                                  ELSE IF i = 1 THEN b \o mid[i] ELSE mid[i]
  <2>1. Wrapping(T, b, mid, e)
    BY DEF Wrapping
  <2> QED
    BY <2>1, SlashedWrapped
<1> HIDE DEF w
<1>3. x \in Seq(T) /\ z \in Seq(T) /\ <<>> \in Seq(T)
  BY <1>1
<1>4. CASE n = 1
  <2>1. w[1] = (b \o x) \o e
    BY <1>1, <1>2, <1>4
  <2> HIDE DEF x
  <2>2. /\ IsPrefix(b, (b \o x) \o e) /\ IsSuffix(e, (b \o x) \o e)
        /\ Len(b) + Len(e) <= Len((b \o x) \o e)
    <3>1. /\ IsPrefix(b, (b \o x) \o e) /\ IsSuffix(e, (b \o x) \o e)
          /\ Len((b \o x) \o e) = Len(b) + Len(x) + Len(e)
          /\ Len(b) \in Nat /\ Len(x) \in Nat /\ Len(e) \in Nat
      BY <1>3, AffixesBetween
    <3> QED
      BY <3>1
  <2> QED
    BY <1>2, <1>4, <2>1, <2>2 DEF w
<1>5. CASE n # 1
  <2>1. w[1] = b \o x /\ w[n] = z \o e
    BY <1>1, <1>2, <1>5
  <2> HIDE DEF x, z
  <2>2. IsPrefix(b, b \o x)
    <3> DEFINE t == b \o x
    <3>1. t \in Seq(T) /\ Len(b) <= Len(t) /\ \A i \in 1 .. Len(b) : t[i] = b[i]
      BY <1>3, TwoLists
    <3> HIDE DEF t
    <3>2. IsPrefix(b, t)
      BY <3>1, Prefix
    <3> QED
      BY <3>2 DEF t
  <2>3. IsSuffix(e, z \o e)
    <3> DEFINE y == <<>>
    <3>1. y \in Seq(T) /\ y \o z = z
      BY <1>3, ConcatEmptySeq
    <3> HIDE DEF y
    <3>2. IsSuffix(e, (y \o z) \o e)
      BY <1>3, <3>1, AffixesBetween
    <3> QED
      BY <3>1, <3>2
  <2> QED
    BY <1>2, <1>5, <2>1, <2>2, <2>3 DEF w
<1> QED
  BY <1>4, <1>5

ThreeParts(T, a, c, b) ==
    "/" \in T /\ a \in Seq(Seq(T)) /\ c \in Seq(Seq(T)) /\ b \in Seq(Seq(T))

\* A path is some segments in front, some behind, and the rest between them.
LEMMA SlashedThree ==
    ASSUME NEW T, NEW a, NEW c, NEW b, ThreeParts(T, a, c, b)
    PROVE  /\ a \o (c \o b) \in Seq(Seq(T))
           /\ Len(a \o (c \o b)) = Len(a) + Len(c) + Len(b)
           /\ \A i \in 1 .. Len(a) : (a \o (c \o b))[i] = a[i]
           /\ \A i \in 1 .. Len(c) : (a \o (c \o b))[Len(a) + i] = c[i]
           /\ \A i \in 1 .. Len(b) : (a \o (c \o b))[Len(a) + Len(c) + i] = b[i]
           /\ Slashed(a \o (c \o b)) = Slashed(a) \o (Slashed(c) \o Slashed(b))
<1>w. "/" \in T /\ a \in Seq(Seq(T)) /\ c \in Seq(Seq(T)) /\ b \in Seq(Seq(T))
  BY DEF ThreeParts
<1> DEFINE w == c \o b
           all == a \o w
<1>1. /\ w \in Seq(Seq(T)) /\ Len(w) = Len(c) + Len(b) /\ Len(c) \in Nat /\ Len(b) \in Nat
      /\ \A i \in 1 .. Len(c) : w[i] = c[i]
      /\ \A i \in 1 .. Len(b) : w[Len(c) + i] = b[i]
  BY <1>w, TwoLists
<1>2. Slashed(w) = Slashed(c) \o Slashed(b)
  BY <1>w, SlashedConcat
<1> HIDE DEF w
<1>3. w \in Seq(Seq(T))
  BY <1>1
<1>4. /\ all \in Seq(Seq(T)) /\ Len(all) = Len(a) + Len(w) /\ Len(a) \in Nat
      /\ \A i \in 1 .. Len(a) : all[i] = a[i]
      /\ \A i \in 1 .. Len(w) : all[Len(a) + i] = w[i]
  BY ONLY <1>w, <1>3, TwoLists
<1>5. Slashed(all) = Slashed(a) \o Slashed(w)
  BY ONLY <1>w, <1>3, SlashedConcat
<1> HIDE DEF all
<1>6. ASSUME NEW i \in 1 .. Len(c) PROVE all[Len(a) + i] = c[i]
  <2>1. i \in 1 .. Len(w)
    BY <1>1
  <2> QED
    BY <1>1, <1>4, <2>1
<1>7. ASSUME NEW i \in 1 .. Len(b) PROVE all[Len(a) + Len(c) + i] = b[i]
  <2>1. Len(c) + i \in 1 .. Len(w) /\ Len(a) + Len(c) + i = Len(a) + (Len(c) + i)
    BY <1>1, <1>4
  <2>2. all[Len(a) + (Len(c) + i)] = w[Len(c) + i]
    BY <1>4, <2>1
  <2> QED
    BY <1>1, <2>1, <2>2
<1>8. Len(all) = Len(a) + Len(c) + Len(b)
  BY <1>1, <1>4
<1> QED
  BY <1>2, <1>4, <1>5, <1>6, <1>7, <1>8 DEF all, w

(***************************************************************************)
(* The pattern with its placeholders and its "*" filled in.                *)
(***************************************************************************)

\* Without a "*", only the placeholders are filled.
LEMMA FilledStarless ==
    ASSUME NEW T, NEW raw \in Seq(Seq(T)), Starless(raw), NEW value, NEW splat
    PROVE  Filled(raw, value, splat) =
             [i \in 1 .. Len(raw) |-> IF i \in Placeholders(raw) THEN value[i] ELSE raw[i]]
<1>1. DOMAIN raw = 1 .. Len(raw)
  OBVIOUS
<1>2. ASSUME NEW i \in 1 .. Len(raw) PROVE FilledSegment(raw[i], splat) = raw[i]
  <2>1. raw[i] \in Seq(T)
    OBVIOUS
  <2>2. ~Contains(raw[i], "*")
    BY DEF Starless, Contains
  <2> QED
    BY <2>1, <2>2, FillPlain
<1> QED
  BY <1>1, <1>2 DEF Filled

\* A "*" is replaced in its segment, and no other segment has one.
LEMMA FilledAt ==
    ASSUME NEW T, NEW raw \in Seq(Seq(T)), NEW s, NEW k, StarredAt(raw, s, k), s \notin Placeholders(raw),
           NEW value \in [Placeholders(raw) -> Seq(T)], NEW splat \in Seq(T)
    PROVE  /\ Filled(raw, value, splat) \in Seq(Seq(T)) /\ Len(Filled(raw, value, splat)) = Len(raw)
           /\ \A i \in 1 .. Len(raw) : i # s =>
                Filled(raw, value, splat)[i] = IF i \in Placeholders(raw) THEN value[i] ELSE raw[i]
           /\ Filled(raw, value, splat)[s] =
                SubSeq(raw[s], 1, k - 1) \o (splat \o SubSeq(raw[s], k + 1, Len(raw[s])))
           /\ SubSeq(raw[s], 1, k - 1) \in Seq(T) /\ SubSeq(raw[s], k + 1, Len(raw[s])) \in Seq(T)
<1> DEFINE f == Filled(raw, value, splat)
           b == SubSeq(raw[s], 1, k - 1)
           e == SubSeq(raw[s], k + 1, Len(raw[s]))
<1>1. /\ s \in 1 .. Len(raw) /\ k \in 1 .. Len(raw[s]) /\ raw[s] \in Seq(T)
      /\ DOMAIN raw = 1 .. Len(raw) /\ Len(raw) \in Nat
      /\ \A j \in 1 .. Len(raw[s]) : raw[s][j] = "*" <=> j = k
  <2>1. s \in 1 .. Len(raw) /\ k \in 1 .. Len(raw[s])
    BY DEF StarredAt
  <2>2. raw[s] \in Seq(T) /\ DOMAIN raw = 1 .. Len(raw) /\ Len(raw) \in Nat
    BY <2>1
  <2> QED
    BY <2>1, <2>2 DEF StarredAt
<1>2. FilledSegment(raw[s], splat) = b \o (splat \o e)
  <2> DEFINE part == raw[s]
  <2>1. part \in Seq(T) /\ k \in 1 .. Len(part) /\ \A j \in 1 .. Len(part) : part[j] = "*" <=> j = k
    BY <1>1
  <2> HIDE DEF part
  <2>2. FilledSegment(part, splat) =
          SubSeq(part, 1, k - 1) \o (splat \o SubSeq(part, k + 1, Len(part)))
    BY ONLY <2>1, splat \in Seq(T), FillStar
  <2> QED
    BY <2>2 DEF part
<1>3. b \in Seq(T) /\ e \in Seq(T)
  BY <1>1, SplitList
<1>4. b \o (splat \o e) \in Seq(T)
  <2> DEFINE z == splat \o e
  <2>1. z \in Seq(T)
    BY <1>3, ConcatProperties
  <2> HIDE DEF z, b
  <2> QED
    BY <1>3, <2>1, ConcatProperties DEF z
<1>5. ASSUME NEW i \in 1 .. Len(raw), i # s PROVE FilledSegment(raw[i], splat) = raw[i] /\ raw[i] \in Seq(T)
  <2>1. raw[i] \in Seq(T)
    OBVIOUS
  <2>2. ~Contains(raw[i], "*")
    BY <1>5 DEF StarredAt, Contains
  <2> QED
    BY <2>1, <2>2, FillPlain
<1>6. f = [i \in 1 .. Len(raw) |->
             IF i \in Placeholders(raw) THEN value[i] ELSE FilledSegment(raw[i], splat)]
  BY <1>1 DEF Filled
<1> HIDE DEF f, b, e
<1>7. \A i \in 1 .. Len(raw) : i # s => f[i] = IF i \in Placeholders(raw) THEN value[i] ELSE raw[i]
  BY <1>5, <1>6
<1>8. f[s] = b \o (splat \o e)
  BY <1>1, <1>2, <1>6
<1>9. f \in Seq(Seq(T)) /\ Len(f) = Len(raw)
  <2>1. \A i \in 1 .. Len(raw) : f[i] \in Seq(T)
    BY <1>4, <1>5, <1>7, <1>8
  <2>2. f \in [1 .. Len(raw) -> Seq(T)]
    BY <1>6, <2>1
  <2> DEFINE n == Len(raw)
  <2>3. n \in Nat /\ f \in [1 .. n -> Seq(T)]
    BY <1>1, <2>2
  <2> HIDE DEF n
  <2>4. f \in Seq(Seq(T)) /\ Len(f) = n
    BY ONLY <2>3
  <2> QED
    BY <2>4 DEF n
<1> QED
  BY <1>3, <1>7, <1>8, <1>9 DEF f, b, e

\* Paths are known from their texts, and the texts from them behind a slash.
LEMMA JoinedInjective ==
    ASSUME NEW U, "/" \notin U, NEW x \in Seq(Seq(U)), NEW y \in Seq(Seq(U)), x # <<>>, y # <<>>,
           Joined(x) = Joined(y)
    PROVE  x = y
<1> DEFINE T == U \cup {"/"}
<1>1. "/" \in T /\ x \in Seq(Seq(T)) /\ y \in Seq(Seq(T))
  <2>1. U \subseteq T
    OBVIOUS
  <2>2. Seq(U) \subseteq Seq(T)
    BY <2>1, SeqMonotonic
  <2> QED
    BY <2>2, SeqMonotonic
<1> HIDE DEF T
<1>2. Slashed(x) = Slash \o Joined(x) /\ Slashed(y) = Slash \o Joined(y)
  BY <1>1, SlashedJoined
<1> QED
  BY <1>2, SlashedInjective

\* Paths have the same text when they have the same text behind a slash.
LEMMA JoinedSlashed ==
    ASSUME NEW T, "/" \in T, NEW x \in Seq(Seq(T)), NEW y \in Seq(Seq(T)), x # <<>>, y # <<>>
    PROVE  Joined(x) = Joined(y) <=> Slashed(x) = Slashed(y)
<1> DEFINE s == Joined(x)
           t == Joined(y)
<1>1. s \in Seq(T) /\ t \in Seq(T) /\ Slashed(x) = Slash \o s /\ Slashed(y) = Slash \o t
  BY SlashedJoined
<1>2. Slash \in Seq(T)
  BY DEF Slash
<1> HIDE DEF s, t
<1>3. Slash \o s = Slash \o t => s = t
  BY <1>1, <1>2, ConcatSimplifications
<1> QED
  BY <1>1, <1>3 DEF s, t

(***************************************************************************)
(* A pattern without a "*".                                                *)
(***************************************************************************)

\* Where a pattern without a "*" matches, the segments of the path fill it to the path.
LEMMA StarlessFill ==
    ASSUME NEW T, NEW raw \in Seq(Seq(T)), Starless(raw), NEW path \in Seq(Seq(T)), NEW splat,
           Match(CompilePattern(raw), path)
    PROVE  Fill(raw, [i \in Placeholders(raw) |-> path[i]], splat) = Joined(path)
<1> DEFINE value == [i \in Placeholders(raw) |-> path[i]]
           f == Filled(raw, value, splat)
<1>1. Len(path) = Len(raw) /\ \A i \in 1 .. Len(raw) : Stays(raw, i, path[i])
  BY StarlessMatch
<1>2. f = [i \in 1 .. Len(raw) |-> IF i \in Placeholders(raw) THEN value[i] ELSE raw[i]]
  BY FilledStarless
<1> HIDE DEF f
<1>3. \A i \in 1 .. Len(raw) : (IF i \in Placeholders(raw) THEN value[i] ELSE raw[i]) = path[i]
  BY <1>1 DEF Stays
<1>4. path = [i \in 1 .. Len(raw) |-> path[i]]
  BY <1>1
<1>5. f = path
  BY <1>2, <1>3, <1>4
<1> QED
  BY <1>5, FillJoins DEF f

\* A pattern without a "*" matches the path that has its filled text.
LEMMA StarlessReads ==
    ASSUME NEW U, "/" \notin U, NEW raw \in Seq(Seq(U)), raw # <<>>, Starless(raw),
           NEW path \in Seq(Seq(U)), path # <<>>,
           NEW value \in [Placeholders(raw) -> Seq(U)], NEW splat,
           Fill(raw, value, splat) = Joined(path)
    PROVE  Match(CompilePattern(raw), path)
<1> DEFINE f == Filled(raw, value, splat)
           n == Len(raw)
<1>1. f = [i \in 1 .. n |-> IF i \in Placeholders(raw) THEN value[i] ELSE raw[i]]
  BY FilledStarless
<1>2. n \in Nat /\ n # 0 /\ \A i \in 1 .. n : raw[i] \in Seq(U)
  BY EmptySeq
<1> HIDE DEF f, n
<1>3. f \in Seq(Seq(U)) /\ Len(f) = n /\ f # <<>>
  <2>1. \A i \in 1 .. n : (IF i \in Placeholders(raw) THEN value[i] ELSE raw[i]) \in Seq(U)
    BY <1>2
  <2>2. f \in [1 .. n -> Seq(U)]
    BY <1>1, <2>1
  <2>3. f \in Seq(Seq(U)) /\ Len(f) = n
    BY ONLY <1>2, <2>2
  <2> QED
    BY <1>2, <2>3, EmptySeq
<1>4. Joined(f) = Joined(path)
  BY FillJoins DEF f
<1>5. f = path
  BY <1>3, <1>4, JoinedInjective
<1>6. \A i \in 1 .. n : Stays(raw, i, path[i])
  BY <1>1, <1>5 DEF Stays
<1>7. Len(path) = Len(raw) /\ \A i \in 1 .. Len(raw) : Stays(raw, i, path[i])
  BY <1>3, <1>5, <1>6 DEF n
<1> QED
  BY <1>7, StarlessMatch

(***************************************************************************)
(* Where the captured text is in the path.                                 *)
(***************************************************************************)
\* One text and another, by a name of its own: the provers match it better.
Cat(x, y) == x \o y

\* Texts can be put together in any order.
LEMMA CatAssoc ==
    ASSUME NEW T, NEW x \in Seq(T), NEW y \in Seq(T), NEW z \in Seq(T)
    PROVE  Cat(x, y) \in Seq(T) /\ Cat(Cat(x, y), z) = Cat(x, Cat(y, z))
BY ConcatProperties, ConcatAssociative DEF Cat

\* What is put together is empty only when its parts are.
LEMMA CatEmpty ==
    ASSUME NEW T, NEW x \in Seq(T), NEW y \in Seq(T)
    PROVE  Cat(x, y) = <<>> <=> x = <<>> /\ y = <<>>
BY ConcatEqualIffEmpty DEF Cat

\* A part of a text, with something in front of it.
Within(T, x, text) == \E w \in Seq(T), z \in Seq(T) : w # <<>> /\ text = w \o (x \o z)

\* A part, with what is directly around it and what is farther out.
Around(T, u, l, b, x, e, v, text) ==
    /\ u \in Seq(T) /\ l \in Seq(T) /\ l # <<>> /\ b \in Seq(T) /\ x \in Seq(T) /\ e \in Seq(T)
    /\ v \in Seq(T) /\ text = u \o ((l \o (b \o (x \o e))) \o v)

\* Where, in a text that is put together, one of its parts is: not in front.
LEMMA InText ==
    ASSUME NEW T, NEW u, NEW l, NEW b, NEW x, NEW e, NEW v, NEW text, Around(T, u, l, b, x, e, v, text)
    PROVE  Within(T, x, text)
<1> DEFINE w == Cat(u, Cat(l, b))
           z == Cat(e, v)
<1>0. /\ u \in Seq(T) /\ l \in Seq(T) /\ l # <<>> /\ b \in Seq(T) /\ x \in Seq(T) /\ e \in Seq(T)
      /\ v \in Seq(T)
  BY DEF Around
<1>1. Cat(x, e) \in Seq(T) /\ Cat(e, v) \in Seq(T) /\ Cat(l, b) \in Seq(T)
  BY <1>0, CatAssoc
<1>2. Cat(x, Cat(e, v)) \in Seq(T) /\ Cat(u, Cat(l, b)) \in Seq(T)
  BY <1>0, <1>1, CatAssoc
<1>3. Cat(l, Cat(b, Cat(x, e))) = Cat(Cat(l, b), Cat(x, e))
  BY <1>0, <1>1, CatAssoc
<1>4. Cat(Cat(Cat(l, b), Cat(x, e)), v) = Cat(Cat(l, b), Cat(Cat(x, e), v))
  BY <1>0, <1>1, CatAssoc
<1>5. Cat(Cat(x, e), v) = Cat(x, Cat(e, v))
  BY <1>0, CatAssoc
<1>6. Cat(u, Cat(Cat(l, b), Cat(x, Cat(e, v)))) = Cat(Cat(u, Cat(l, b)), Cat(x, Cat(e, v)))
  BY <1>0, <1>1, <1>2, CatAssoc
<1>7. w \in Seq(T) /\ z \in Seq(T)
  BY <1>1, <1>2
<1>8. Cat(u, Cat(Cat(l, Cat(b, Cat(x, e))), v)) = Cat(w, Cat(x, z))
  BY <1>3, <1>4, <1>5, <1>6
<1>9. w # <<>>
  BY <1>0, <1>1, CatEmpty
<1>10. text = Cat(u, Cat(Cat(l, Cat(b, Cat(x, e))), v))
  BY Zenon DEF Cat, Around
<1> HIDE DEF w, z
<1>11. Cat(w, Cat(x, z)) = w \o (x \o z)
  BY Zenon DEF Cat
<1> QED
  BY <1>7, <1>8, <1>9, <1>10, <1>11 DEF Within

Filling(T, raw, s, k, value, splat) ==
    /\ raw \in Seq(Seq(T)) /\ StarredAt(raw, s, k) /\ s \notin Placeholders(raw)
    /\ value \in [Placeholders(raw) -> Seq(T)] /\ splat \in Seq(T)

\* FilledAt for terms that are put together,
LEMMA FillingAt ==
    ASSUME NEW T, NEW raw, NEW s, NEW k, NEW value, NEW splat, Filling(T, raw, s, k, value, splat)
    PROVE  /\ Filled(raw, value, splat) \in Seq(Seq(T)) /\ Len(Filled(raw, value, splat)) = Len(raw)
           /\ \A i \in 1 .. Len(raw) : i # s =>
                Filled(raw, value, splat)[i] = IF i \in Placeholders(raw) THEN value[i] ELSE raw[i]
           /\ Filled(raw, value, splat)[s] =
                SubSeq(raw[s], 1, k - 1) \o (splat \o SubSeq(raw[s], k + 1, Len(raw[s])))
           /\ SubSeq(raw[s], 1, k - 1) \in Seq(T) /\ SubSeq(raw[s], k + 1, Len(raw[s])) \in Seq(T)
<1>1. /\ raw \in Seq(Seq(T)) /\ StarredAt(raw, s, k) /\ s \notin Placeholders(raw)
      /\ value \in [Placeholders(raw) -> Seq(T)] /\ splat \in Seq(T)
  BY DEF Filling
<1> QED
  BY ONLY <1>1, FilledAt

FillingBy(T, raw, s, k, value, splat, b, e) ==
    /\ Filling(T, raw, s, k, value, splat)
    /\ b = SubSeq(raw[s], 1, k - 1) /\ e = SubSeq(raw[s], k + 1, Len(raw[s]))

\* and with names for the text around the "*".
LEMMA FillingStar ==
    ASSUME NEW T, NEW raw, NEW s, NEW k, NEW value, NEW splat, NEW b, NEW e,
           FillingBy(T, raw, s, k, value, splat, b, e)
    PROVE  Filled(raw, value, splat)[s] = b \o (splat \o e) /\ b \in Seq(T) /\ e \in Seq(T)
<1>1. Filling(T, raw, s, k, value, splat)
  BY DEF FillingBy
<1>2. b = SubSeq(raw[s], 1, k - 1) /\ e = SubSeq(raw[s], k + 1, Len(raw[s]))
  BY DEF FillingBy
<1>3. /\ Filled(raw, value, splat) \in Seq(Seq(T)) /\ Len(Filled(raw, value, splat)) = Len(raw)
      /\ \A i \in 1 .. Len(raw) : i # s =>
           Filled(raw, value, splat)[i] = IF i \in Placeholders(raw) THEN value[i] ELSE raw[i]
      /\ Filled(raw, value, splat)[s] =
           SubSeq(raw[s], 1, k - 1) \o (splat \o SubSeq(raw[s], k + 1, Len(raw[s])))
      /\ SubSeq(raw[s], 1, k - 1) \in Seq(T) /\ SubSeq(raw[s], k + 1, Len(raw[s])) \in Seq(T)
  BY ONLY <1>1, FillingAt
<1> QED
  BY ONLY <1>2, <1>3, Zenon

(***************************************************************************)
(* A pattern with a "*".                                                   *)
(***************************************************************************)

\* A path, around the segments that the "*" has a part in.
LEMMA PathThree ==
    ASSUME NEW T, "/" \in T, NEW path \in Seq(Seq(T)), NEW s \in Nat \ {0}, NEW d \in Nat,
           s + d <= Len(path)
    PROVE  /\ SubSeq(path, 1, s - 1) \in Seq(Seq(T)) /\ SubSeq(path, s, Len(path) - d) \in Seq(Seq(T))
           /\ SubSeq(path, Len(path) - d + 1, Len(path)) \in Seq(Seq(T))
           /\ SubSeq(path, s, Len(path) - d) # <<>>
           /\ Slashed(path) = Slashed(SubSeq(path, 1, s - 1)) \o
                (Slashed(SubSeq(path, s, Len(path) - d)) \o
                 Slashed(SubSeq(path, Len(path) - d + 1, Len(path))))
<1> DEFINE m == Len(path)
           h == s - 1
           q == m - d
           a == SubSeq(path, 1, h)
           c == SubSeq(path, s, q)
           b == SubSeq(path, q + 1, m)
           x == SubSeq(path, s, m)
<1>1. m \in Nat /\ h \in Nat /\ h + 1 = s /\ q \in Nat /\ s <= q /\ q <= m
  OBVIOUS
<1>2. a \in Seq(Seq(T)) /\ c \in Seq(Seq(T)) /\ b \in Seq(Seq(T))
  <2>1. \A i \in 1 .. m : path[i] \in Seq(T)
    OBVIOUS
  <2>2. ASSUME NEW u \in 1 .. m + 1, NEW v \in 0 .. m PROVE SubSeq(path, u, v) \in Seq(Seq(T))
    <3>1. u \in Int /\ v \in Int /\ \A i \in u .. v : path[i] \in Seq(T)
      BY <1>1, <2>1
    <3> QED
      BY ONLY <3>1, SubSeqProperties
  <2> QED
    BY <1>1, <2>2
<1>3. c # <<>>
  <2>1. \A i \in s .. q : path[i] \in Seq(T)
    BY <1>1
  <2>2. Len(c) = q - s + 1
    BY <1>1, <2>1, SubSeqProperties
  <2>3. Len(c) # 0
    BY <1>1, <2>2
  <2> QED
    BY <2>3, EmptySeq
<1>4. c \o b = x
  <2>1. s \in 1 .. Len(path) + 1 /\ q \in s - 1 .. Len(path) /\ m \in q .. Len(path)
    BY <1>1
  <2> QED
    BY <2>1, ConcatAdjacentSubSeq
<1>5. a \o x = path
  <2>1. 1 \in 1 .. Len(path) + 1 /\ h \in 1 - 1 .. Len(path) /\ m \in h .. Len(path)
    BY <1>1
  <2>2. a \o SubSeq(path, h + 1, m) = SubSeq(path, 1, m)
    BY <2>1, ConcatAdjacentSubSeq
  <2>3. SubSeq(path, 1, m) = path
    BY SubSeqFull
  <2> QED
    BY <1>1, <2>2, <2>3
<1> HIDE DEF a, b, c, x
<1>6. Slashed(a \o (c \o b)) = Slashed(a) \o (Slashed(c) \o Slashed(b))
  <2>1. Slashed(a \o (c \o b)) = Slashed(a) \o (Slashed(c) \o Slashed(b))
    <3>1. ThreeParts(T, a, c, b)
      BY <1>2 DEF ThreeParts
    <3> QED
      BY ONLY <3>1, SlashedThree
  <2> QED
    BY <2>1
<1>7. path = a \o (c \o b)
  BY <1>4, <1>5
<1> QED
  BY <1>2, <1>3, <1>6, <1>7 DEF a, b, c

\* Where the values of the placeholders are.
Place(raw, path, s, i) == IF i < s THEN i ELSE Len(path) - Len(raw) + i

ValuesOf(raw, path, s) == [i \in Placeholders(raw) |-> path[Place(raw, path, s, i)]]

\* Where a pattern with a "*" matches, what the match captures fills the pattern to the path.
LEMMA StarredFill ==
    ASSUME NEW T, "/" \in T, NEW raw \in Seq(Seq(T)), NEW s, NEW k, StarredAt(raw, s, k),
           s \notin Placeholders(raw), NEW path \in Seq(Seq(T)), Match(CompilePattern(raw), path)
    PROVE  /\ Splat(CompilePattern(raw), path) \in Seq(Seq(T))
           /\ Splat(CompilePattern(raw), path) # <<>>
           /\ ValuesOf(raw, path, s) \in [Placeholders(raw) -> Range(path)]
           /\ Within(T, Joined(Splat(CompilePattern(raw), path)), Slashed(path))
           /\ Fill(raw, ValuesOf(raw, path, s), Joined(Splat(CompilePattern(raw), path)))
                = Joined(path)
<1> DEFINE p == CompilePattern(raw)
           n == Len(raw)
           m == Len(path)
           d == n - s
           a == SubSeq(path, 1, s - 1)
           rest == SubSeq(path, s, m - d)
           c == SubSeq(path, m - d + 1, m)
           b == SubSeq(raw[s], 1, k - 1)
           e == SubSeq(raw[s], k + 1, Len(raw[s]))
           mid == Splat(p, path)
           value == ValuesOf(raw, path, s)
           splat == Joined(mid)
           f == Filled(raw, value, splat)
<1>1. /\ Rest(p, path) = rest /\ m >= n
      /\ \A i \in 1 .. s - 1 : Stays(raw, i, path[i])
      /\ \A i \in s + 1 .. n : Stays(raw, i, path[m - n + i])
      /\ Affixes(p, rest)
  BY StarredMatch
<1>2. p.fold = FALSE /\ p.before = b /\ p.after = e
  <2> DEFINE hd == Segments(SubSeq(raw, 1, s - 1))
             tl == Segments(SubSeq(raw, s + 1, Len(raw)))
  <2>1. p = [raw |-> raw, fold |-> FALSE, hasSplat |-> TRUE, head |-> hd, tail |-> tl,
             before |-> b, after |-> e]
    BY CompileStarred, Zenon DEF StarredPattern
  <2> HIDE DEF p, hd, tl, b, e
  <2> QED
    BY <2>1
<1>3. s \in 1 .. n /\ n \in Nat /\ m \in Nat /\ s \in Nat \ {0} /\ d \in Nat /\ s + d <= m /\ k \in 1 .. Len(raw[s])
  <2>1. s \in 1 .. Len(raw) /\ k \in 1 .. Len(raw[s])
    BY DEF StarredAt
  <2> QED
    BY <1>1, <2>1
<1>4. b \in Seq(T) /\ e \in Seq(T)
  <2>1. raw[s] \in Seq(T)
    BY <1>3
  <2> QED
    BY <1>3, <2>1, SplitList
<1>5. /\ a \in Seq(Seq(T)) /\ rest \in Seq(Seq(T)) /\ c \in Seq(Seq(T)) /\ rest # <<>>
      /\ Slashed(path) = Slashed(a) \o (Slashed(rest) \o Slashed(c))
  <2>1. s \in Nat \ {0} /\ d \in Nat /\ s + d <= Len(path)
    BY <1>3
  <2> HIDE DEF d
  <2> QED
    BY <2>1, PathThree
<1>6. mid = Between(rest, b, e)
  BY <1>1, <1>2 DEF Splat, Between
<1> HIDE DEF p, mid, rest, b, e
<1>7. /\ IsPrefix(b, rest[1]) /\ IsSuffix(e, rest[Len(rest)])
      /\ Len(rest) = 1 => Len(b) + Len(e) <= Len(rest[1])
  BY <1>1, <1>2 DEF Affixes
<1>8. mid \in Seq(Seq(T)) /\ mid # <<>> /\ rest = Wrapped(b, mid, e)
  BY <1>4, <1>5, <1>6, <1>7, AffixesWrap
<1>9. splat \in Seq(T) /\ Slashed(rest) = Slash \o (b \o (splat \o e))
  <2>1. Slashed(Wrapped(b, mid, e)) = Slash \o (b \o (Joined(mid) \o e))
    <3>1. Wrapping(T, b, mid, e)
      BY <1>4, <1>8 DEF Wrapping
    <3> QED
      BY ONLY <3>1, SlashedWrapped
  <2>2. Joined(mid) \in Seq(T)
    BY <1>8, SlashedJoined
  <2> QED
    BY <1>8, <2>1, <2>2
<1>10. value \in [Placeholders(raw) -> Range(path)] /\ value \in [Placeholders(raw) -> Seq(T)]
  <2>1. ASSUME NEW i \in Placeholders(raw) PROVE Place(raw, path, s, i) \in 1 .. m
    <3>1. i \in 1 .. n /\ i # s
      BY DEF Placeholders
    <3> QED
      BY <1>1, <1>3, <3>1 DEF Place
  <2>2. \A j \in 1 .. m : path[j] \in Range(path) /\ path[j] \in Seq(T)
    BY DEF Range
  <2> QED
    BY <2>1, <2>2 DEF ValuesOf
<1> HIDE DEF splat
<1>11. /\ f \in Seq(Seq(T)) /\ Len(f) = n
       /\ \A i \in 1 .. n : i # s => f[i] = IF i \in Placeholders(raw) THEN value[i] ELSE raw[i]
       /\ f[s] = b \o (splat \o e)
  <2>1. Filling(T, raw, s, k, value, splat)
    BY <1>9, <1>10 DEF Filling
  <2> HIDE DEF value, f
  <2>2. /\ Filled(raw, value, splat) \in Seq(Seq(T)) /\ Len(Filled(raw, value, splat)) = Len(raw)
        /\ \A i \in 1 .. Len(raw) : i # s =>
             Filled(raw, value, splat)[i] = IF i \in Placeholders(raw) THEN value[i] ELSE raw[i]
    BY ONLY <2>1, FillingAt
  <2>3. FillingBy(T, raw, s, k, value, splat, b, e)
    BY <2>1 DEF FillingBy, b, e
  <2>4. Filled(raw, value, splat)[s] = b \o (splat \o e)
    BY ONLY <2>3, FillingStar
  <2> QED
    BY <2>2, <2>4 DEF f
<1>12. ASSUME NEW i \in 1 .. n, i # s PROVE f[i] = path[Place(raw, path, s, i)]
  <2>1. CASE i \in Placeholders(raw)
    BY <1>11, <1>12, <2>1 DEF ValuesOf
  <2>2. CASE i \notin Placeholders(raw) /\ i < s
    <3>1. i \in 1 .. s - 1
      BY <1>3, <2>2
    <3> QED
      BY <1>1, <1>11, <1>12, <2>2, <3>1 DEF Stays, Place
  <2>3. CASE i \notin Placeholders(raw) /\ ~(i < s)
    <3>1. i \in s + 1 .. n
      BY <1>3, <1>12, <2>3
    <3> QED
      BY <1>1, <1>11, <1>12, <2>3, <3>1 DEF Stays, Place
  <2> QED
    BY <2>1, <2>2, <2>3
<1> HIDE DEF f, value
<1> DEFINE fa == SubSeq(f, 1, s - 1)
           fc == SubSeq(f, s + 1, Len(f))
           y == f[s]
<1>13. s \in 1 .. Len(f) /\ f \in Seq(Seq(T))
  BY <1>3, <1>11
<1>14. /\ fa \in Seq(Seq(T)) /\ Len(fa) = s - 1 /\ \A i \in 1 .. s - 1 : fa[i] = f[i]
       /\ fc \in Seq(Seq(T)) /\ Len(fc) = Len(f) - s /\ \A i \in 1 .. Len(f) - s : fc[i] = f[s + i]
  BY ONLY <1>13, SplitList
<1>15. Slashed(f) = Slashed(fa) \o ((Slash \o y) \o Slashed(fc))
  BY ONLY <1>13, "/" \in T, SlashedAround
<1> HIDE DEF fa, fc
<1>16. fa = a
  <2>1. Len(a) = s - 1 /\ \A i \in 1 .. s - 1 : a[i] = path[i]
    BY <1>3
  <2>2. \A i \in 1 .. s - 1 : fa[i] = a[i]
    <3> TAKE i \in 1 .. s - 1
    <3>1. i \in 1 .. n /\ i # s /\ i < s
      BY <1>3
    <3> QED
      BY <1>12, <1>14, <2>1, <3>1 DEF Place
  <2> QED
    BY <1>5, <1>14, <2>1, <2>2, SeqEqual
<1>17. fc = c
  <2>1. Len(c) = d /\ \A i \in 1 .. d : c[i] = path[m - d + i]
    <3>1. \A i \in m - d + 1 .. m : path[i] \in Seq(T)
      BY <1>3
    <3>2. /\ Len(c) = IF m - d + 1 <= m THEN m - (m - d + 1) + 1 ELSE 0
          /\ \A i \in 1 .. m - (m - d + 1) + 1 : c[i] = path[(m - d + 1) + i - 1]
      BY <1>3, <3>1, SubSeqProperties
    <3> HIDE DEF c
    <3>3. Len(c) = d
      BY <1>3, <3>2
    <3>4. ASSUME NEW i \in 1 .. d PROVE c[i] = path[m - d + i]
      <4>1. i \in 1 .. m - (m - d + 1) + 1 /\ (m - d + 1) + i - 1 = m - d + i
        BY <1>3
      <4> QED
        BY <3>2, <4>1
    <3> QED
      BY <3>3, <3>4
  <2>2. Len(fc) = d
    BY <1>11, <1>14
  <2>3. \A i \in 1 .. d : fc[i] = c[i]
    <3> TAKE i \in 1 .. d
    <3>1. /\ i \in 1 .. Len(f) - s /\ s + i \in 1 .. n /\ s + i # s /\ ~(s + i < s)
          /\ m - n + (s + i) = m - d + i
      BY <1>3, <1>11
    <3>2. fc[i] = f[s + i]
      BY <1>14, <3>1
    <3>3. f[s + i] = path[m - n + (s + i)]
      BY <1>12, <3>1 DEF Place
    <3> QED
      BY <2>1, <3>1, <3>2, <3>3
  <2> QED
    BY <1>5, <1>14, <2>1, <2>2, <2>3, SeqEqual
<1>18. Slashed(f) = Slashed(path)
  BY <1>5, <1>9, <1>11, <1>15, <1>16, <1>17
<1>19. f # <<>> /\ path # <<>>
  BY <1>3, <1>11, EmptySeq
<1>20. Joined(f) = Joined(path)
  BY <1>11, <1>18, <1>19, JoinedSlashed
<1>21. Fill(raw, value, splat) = Joined(path)
  BY <1>20, FillJoins DEF f
<1>22. Within(T, splat, Slashed(path))
  <2> DEFINE u == Slashed(a)
             v == Slashed(c)
             text == Slashed(path)
             l == Slash
  <2>1. u \in Seq(T) /\ v \in Seq(T)
    <3> HIDE DEF a, c
    <3> QED
      BY <1>5, SlashedAppend
  <2>2. text = u \o ((l \o (b \o (splat \o e))) \o v)
    BY <1>5, <1>9
  <2>3. l \in Seq(T) /\ l # <<>>
    BY DEF Slash
  <2> HIDE DEF u, v, text, l
  <2>4. Within(T, splat, text)
    <3>1. Around(T, u, l, b, splat, e, v, text)
      BY <1>4, <1>9, <2>1, <2>2, <2>3 DEF Around
    <3> QED
      BY ONLY <3>1, InText
  <2> QED
    BY <2>4 DEF text
<1> QED
  BY <1>8, <1>10, <1>21, <1>22 DEF mid, p, splat, value

(***************************************************************************)
(* Back from the text of a path to its segments.                           *)
(***************************************************************************)

\* Texts without a slash are texts.
LEMMA Levels ==
    ASSUME NEW U
    PROVE  /\ "/" \in U \cup {"/"} /\ Seq(U) \subseteq Seq(U \cup {"/"})
           /\ Seq(Seq(U)) \subseteq Seq(Seq(U \cup {"/"}))
<1>1. Seq(U) \subseteq Seq(U \cup {"/"})
  BY SeqMonotonic
<1> DEFINE A == Seq(U)
           B == Seq(U \cup {"/"})
<1>2. A \subseteq B
  BY <1>1
<1> HIDE DEF A, B
<1>3. Seq(A) \subseteq Seq(B)
  BY <1>2, SeqMonotonic
<1> QED
  BY <1>1, <1>3 DEF A, B

\* What surrounds the "*", around segments without a slash, has none.
LEMMA WrappedType ==
    ASSUME NEW U, NEW b \in Seq(U), NEW e \in Seq(U), NEW mid \in Seq(Seq(U)), mid # <<>>
    PROVE  Wrapped(b, mid, e) \in Seq(Seq(U))
<1> DEFINE T == U \cup {"/"}
           w == Wrapped(b, mid, e)
           n == Len(mid)
<1>1. "/" \in T /\ b \in Seq(T) /\ e \in Seq(T) /\ mid \in Seq(Seq(T))
  BY Levels
<1> HIDE DEF T
<1>2. Wrapping(T, b, mid, e)
  BY <1>1 DEF Wrapping
<1>3. /\ w \in Seq(Seq(T)) /\ Len(w) = n
      /\ \A i \in 1 .. n : w[i] = IF i = n THEN (IF i = 1 THEN b \o mid[i] ELSE mid[i]) \o e
                                  ELSE IF i = 1 THEN b \o mid[i] ELSE mid[i]
  BY <1>2, SlashedWrapped
<1> HIDE DEF w
<1>4. ASSUME NEW i \in 1 .. n PROVE w[i] \in Seq(U)
  <2> DEFINE x == mid[i]
             y == b \o x
  <2>1. x \in Seq(U)
    OBVIOUS
  <2> HIDE DEF x
  <2>2. y \in Seq(U)
    BY <2>1, ConcatProperties
  <2>3. x \o e \in Seq(U)
    BY <2>1, ConcatProperties
  <2> HIDE DEF y
  <2>4. y \o e \in Seq(U)
    BY <2>2, ConcatProperties
  <2>5. w[i] = IF i = n THEN (IF i = 1 THEN y ELSE x) \o e ELSE IF i = 1 THEN y ELSE x
    BY <1>3 DEF x, y
  <2> QED
    BY <2>1, <2>2, <2>3, <2>4, <2>5
<1>5. w \in [1 .. n -> Seq(U)] /\ n \in Nat
  <2>1. DOMAIN w = 1 .. n /\ w = [i \in DOMAIN w |-> w[i]]
    BY <1>3
  <2> QED
    BY <1>4, <2>1
<1> HIDE DEF n
<1>6. w \in Seq(Seq(U))
  BY ONLY <1>5
<1> QED
  BY <1>6 DEF w

\* What is around a "*" and what it stands for, and the segments they are together.
Wrappable(U, b, splat, e) ==
    "/" \notin U /\ b \in Seq(U) /\ e \in Seq(U) /\ splat \in Seq(U \cup {"/"})

WrapOf(U, b, splat, e, mid) ==
    /\ mid \in Seq(Seq(U)) /\ mid # <<>> /\ Wrapped(b, mid, e) \in Seq(Seq(U))
    /\ Slashed(Wrapped(b, mid, e)) = Slash \o (b \o (splat \o e))

\* Any text between two is made of segments, the first behind the one, the last before the other.
LEMMA TextWrapped ==
    ASSUME NEW U, NEW b, NEW splat, NEW e, Wrappable(U, b, splat, e)
    PROVE  \E mid : WrapOf(U, b, splat, e, mid)
<1>w. "/" \notin U /\ b \in Seq(U) /\ e \in Seq(U) /\ splat \in Seq(U \cup {"/"})
  BY DEF Wrappable
<1> DEFINE T == U \cup {"/"}
<1>1. "/" \in T /\ b \in Seq(T) /\ e \in Seq(T) /\ Seq(Seq(U)) \subseteq Seq(Seq(T)) /\ splat \in Seq(T)
  BY <1>w, Levels
<1>2. PICK mid \in Seq(Seq(U)) : mid # <<>> /\ Slashed(mid) = Slash \o splat
  BY <1>w, SlashedSplit
<1> HIDE DEF T
<1>3. Wrapping(T, b, mid, e)
  BY <1>1, <1>2 DEF Wrapping
<1>4. Slashed(Wrapped(b, mid, e)) = Slash \o (b \o (Joined(mid) \o e))
  BY <1>3, SlashedWrapped
<1>5. Joined(mid) = splat
  <2> DEFINE s == Joined(mid)
             l == Slash
  <2>1. mid \in Seq(Seq(T)) /\ mid # <<>>
    BY <1>1, <1>2
  <2>2. s \in Seq(T) /\ Slashed(mid) = l \o s
    BY <1>1, <2>1, SlashedJoined
  <2>3. l \in Seq(T) /\ Slashed(mid) = l \o splat
    BY <1>1, <1>2 DEF Slash
  <2> HIDE DEF s, l
  <2>4. s = splat
    BY <1>1, <2>2, <2>3, ConcatSimplifications
  <2> QED
    BY <2>4 DEF s
<1>6. Wrapped(b, mid, e) \in Seq(Seq(U))
  BY <1>w, <1>2, WrappedType
<1> QED
  BY <1>2, <1>4, <1>5, <1>6 DEF WrapOf

\* A filled pattern with a "*" matches the path that has its text.
LEMMA StarredReads ==
    ASSUME NEW U, "/" \notin U, NEW raw \in Seq(Seq(U)), NEW path \in Seq(Seq(U)), path # <<>>,
           NEW s, NEW k, StarredAt(raw, s, k), s \notin Placeholders(raw),
           NEW value \in [Placeholders(raw) -> Seq(U)], NEW splat \in Seq(U \cup {"/"}),
           Fill(raw, value, splat) = Joined(path)
    PROVE  Match(CompilePattern(raw), path)
<1> DEFINE T == U \cup {"/"}
           p == CompilePattern(raw)
           n == Len(raw)
           m == Len(path)
           f == Filled(raw, value, splat)
           b == SubSeq(raw[s], 1, k - 1)
           e == SubSeq(raw[s], k + 1, Len(raw[s]))
           fa == SubSeq(f, 1, s - 1)
           fc == SubSeq(f, s + 1, Len(f))
           y == f[s]
<1>1. /\ "/" \in T /\ Seq(U) \subseteq Seq(T) /\ Seq(Seq(U)) \subseteq Seq(Seq(T)) /\ splat \in Seq(T)
  BY Levels
<1>2. raw \in Seq(Seq(T)) /\ path \in Seq(Seq(T)) /\ value \in [Placeholders(raw) -> Seq(T)]
  BY <1>1
<1> HIDE DEF T
<1>3. s \in 1 .. n /\ n \in Nat /\ m \in Nat /\ k \in 1 .. Len(raw[s]) /\ raw[s] \in Seq(U)
  <2>1. s \in 1 .. Len(raw) /\ k \in 1 .. Len(raw[s])
    BY DEF StarredAt
  <2> QED
    BY <2>1
<1>4. b \in Seq(U) /\ e \in Seq(U)
  BY <1>3, SplitList
<1>5. /\ f \in Seq(Seq(T)) /\ Len(f) = n
      /\ \A i \in 1 .. n : i # s => f[i] = IF i \in Placeholders(raw) THEN value[i] ELSE raw[i]
      /\ y = b \o (splat \o e)
  <2>1. Filling(T, raw, s, k, value, splat)
    BY <1>1, <1>2 DEF Filling
  <2> HIDE DEF f, b, e
  <2>2. /\ Filled(raw, value, splat) \in Seq(Seq(T)) /\ Len(Filled(raw, value, splat)) = Len(raw)
        /\ \A i \in 1 .. Len(raw) : i # s =>
             Filled(raw, value, splat)[i] = IF i \in Placeholders(raw) THEN value[i] ELSE raw[i]
    BY ONLY <2>1, FillingAt
  <2>3. FillingBy(T, raw, s, k, value, splat, b, e)
    BY <2>1 DEF FillingBy, b, e
  <2>4. Filled(raw, value, splat)[s] = b \o (splat \o e)
    BY ONLY <2>3, FillingStar
  <2> QED
    BY <2>2, <2>4 DEF f
<1>6. Joined(f) = Joined(path)
  BY FillJoins DEF f
<1>7. s \in 1 .. Len(f) /\ f \in Seq(Seq(T)) /\ f # <<>>
  BY <1>3, <1>5, EmptySeq
<1> HIDE DEF f
<1>8. Slashed(f) = Slashed(path)
  BY <1>1, <1>2, <1>6, <1>7, JoinedSlashed
<1>9. /\ fa \in Seq(Seq(T)) /\ Len(fa) = s - 1 /\ \A i \in 1 .. s - 1 : fa[i] = f[i]
      /\ fc \in Seq(Seq(T)) /\ Len(fc) = Len(f) - s /\ \A i \in 1 .. Len(f) - s : fc[i] = f[s + i]
  BY ONLY <1>7, SplitList
<1>10. Slashed(f) = Slashed(fa) \o ((Slash \o y) \o Slashed(fc))
  BY ONLY <1>1, <1>7, SlashedAround
<1> HIDE DEF fa, fc, y, b, e
<1>11. ASSUME NEW i \in 1 .. n, i # s PROVE f[i] \in Seq(U)
  <2>1. raw[i] \in Seq(U) /\ (i \in Placeholders(raw) => value[i] \in Seq(U))
    OBVIOUS
  <2>2. f[i] = IF i \in Placeholders(raw) THEN value[i] ELSE raw[i]
    BY <1>5, <1>11
  <2> QED
    BY <2>1, <2>2
<1>12. fa \in Seq(Seq(U)) /\ fc \in Seq(Seq(U))
  <2> DEFINE h == s - 1
             d == n - s
  <2>1. h \in Nat /\ d \in Nat
    BY <1>3
  <2>2. fa \in [1 .. h -> Seq(U)]
    <3>1. \A i \in 1 .. h : fa[i] \in Seq(U)
      <4> TAKE i \in 1 .. h
      <4>1. i \in 1 .. n /\ i # s
        BY <1>3
      <4> QED
        BY <1>9, <1>11, <4>1
    <3>2. fa \in [1 .. h -> Seq(T)]
      BY <1>9
    <3> HIDE DEF h
    <3> QED
      BY <3>1, <3>2
  <2>3. fc \in [1 .. d -> Seq(U)]
    <3>1. \A i \in 1 .. d : fc[i] \in Seq(U)
      <4> TAKE i \in 1 .. d
      <4>1. s \in 1 .. n /\ n \in Nat /\ i \in 1 .. n - s /\ Len(f) = n
        BY <1>3, <1>5
      <4>2. i \in 1 .. Len(f) - s /\ s + i \in 1 .. n /\ s + i # s
        BY ONLY <4>1
      <4> QED
        BY <1>9, <1>11, <4>2
    <3>2. fc \in [1 .. d -> Seq(T)]
      BY <1>5, <1>9
    <3> HIDE DEF d
    <3> QED
      BY <3>1, <3>2
  <2> HIDE DEF h, d
  <2>4. fa \in Seq(Seq(U))
    BY ONLY <2>1, <2>2
  <2>5. fc \in Seq(Seq(U))
    BY ONLY <2>1, <2>3
  <2> QED
    BY <2>4, <2>5
<1>13. PICK mid : WrapOf(U, b, splat, e, mid)
  <2>1. Wrappable(U, b, splat, e)
    BY <1>4 DEF Wrappable
  <2> QED
    BY ONLY <2>1, TextWrapped
<1> DEFINE w == Wrapped(b, mid, e)
           wc == w \o fc
           g == fa \o wc
<1>14. w \in Seq(Seq(U)) /\ Slashed(w) = Slash \o y
  BY <1>5, <1>13 DEF WrapOf
<1>15. Wrapping(T, b, mid, e)
  BY <1>1, <1>4, <1>13 DEF Wrapping, WrapOf
<1>16. Len(w) = Len(mid) /\ Len(mid) \in Nat /\ Len(mid) # 0
  <2>1. Len(w) = Len(mid)
    BY <1>15, SlashedWrapped
  <2> QED
    BY <1>13, <2>1, EmptySeq DEF WrapOf
<1>17. /\ IsPrefix(b, w[1]) /\ IsSuffix(e, w[Len(w)])
       /\ Len(w) = 1 => Len(b) + Len(e) <= Len(w[1])
  <2>1. "/" \in T /\ mid \in Seq(Seq(T)) /\ mid # <<>> /\ b \in Seq(T) /\ e \in Seq(T)
    BY <1>1, <1>4, <1>13 DEF WrapOf
  <2> QED
    BY ONLY <2>1, WrapAffixes
<1> HIDE DEF w
<1>18. ThreeParts(T, fa, w, fc)
  BY <1>1, <1>9, <1>14 DEF ThreeParts
<1>19. /\ Len(g) = Len(fa) + Len(w) + Len(fc)
       /\ \A i \in 1 .. Len(fa) : g[i] = fa[i]
       /\ \A i \in 1 .. Len(w) : g[Len(fa) + i] = w[i]
       /\ \A i \in 1 .. Len(fc) : g[Len(fa) + Len(w) + i] = fc[i]
       /\ Slashed(g) = Slashed(fa) \o (Slashed(w) \o Slashed(fc))
  <2>1. /\ Len(g) = Len(fa) + Len(w) + Len(fc)
        /\ Slashed(g) = Slashed(fa) \o (Slashed(w) \o Slashed(fc))
    BY ONLY <1>18, SlashedThree
  <2>2. \A i \in 1 .. Len(fa) : g[i] = fa[i]
    BY ONLY <1>18, SlashedThree
  <2>3. \A i \in 1 .. Len(w) : g[Len(fa) + i] = w[i]
    BY ONLY <1>18, SlashedThree
  <2>4. \A i \in 1 .. Len(fc) : g[Len(fa) + Len(w) + i] = fc[i]
    BY ONLY <1>18, SlashedThree
  <2> QED
    BY <2>1, <2>2, <2>3, <2>4
<1>20. g = path
  <2>1. wc \in Seq(Seq(U))
    BY ONLY <1>12, <1>14, ConcatProperties
  <2> HIDE DEF wc
  <2>2. g \in Seq(Seq(U))
    BY ONLY <1>12, <2>1, ConcatProperties
  <2>3. Slashed(g) = Slashed(path)
    BY <1>8, <1>10, <1>14, <1>19
  <2> HIDE DEF g
  <2> QED
    BY <2>2, <2>3, SlashedInjective
<1> HIDE DEF g
<1>21. /\ m = s - 1 + Len(w) + (n - s) /\ m >= n
       /\ \A i \in 1 .. s - 1 : path[i] = f[i]
       /\ \A i \in 1 .. Len(w) : path[s - 1 + i] = w[i]
       /\ \A i \in 1 .. n - s : path[s - 1 + Len(w) + i] = f[s + i]
  <2>1. m = s - 1 + Len(w) + (n - s)
    BY <1>5, <1>9, <1>19, <1>20
  <2>2. m >= n
    BY <1>3, <1>16, <2>1
  <2>3. \A i \in 1 .. s - 1 : path[i] = f[i]
    BY <1>9, <1>19, <1>20
  <2>4. \A i \in 1 .. Len(w) : path[s - 1 + i] = w[i]
    BY <1>9, <1>19, <1>20
  <2>5. \A i \in 1 .. n - s : path[s - 1 + Len(w) + i] = f[s + i]
    BY <1>5, <1>9, <1>19, <1>20
  <2> QED
    BY <2>1, <2>2, <2>3, <2>4, <2>5
<1>22. \A i \in 1 .. s - 1 : Stays(raw, i, path[i])
  <2> TAKE i \in 1 .. s - 1
  <2>1. i \in 1 .. n /\ i # s
    BY <1>3
  <2>2. path[i] = IF i \in Placeholders(raw) THEN value[i] ELSE raw[i]
    BY <1>5, <1>21, <2>1
  <2> QED
    BY <2>2 DEF Stays
<1>23. \A i \in s + 1 .. n : Stays(raw, i, path[m - n + i])
  <2> TAKE i \in s + 1 .. n
  <2> DEFINE j == i - s
  <2>1. i \in 1 .. n /\ i # s /\ j \in 1 .. n - s /\ s - 1 + Len(w) + j = m - n + i /\ s + j = i
    BY <1>3, <1>16, <1>21
  <2> HIDE DEF j
  <2>2. path[m - n + i] = f[i]
    BY <1>21, <2>1
  <2>3. path[m - n + i] = IF i \in Placeholders(raw) THEN value[i] ELSE raw[i]
    BY <1>5, <2>1, <2>2
  <2> QED
    BY <2>3 DEF Stays
<1>24. SubSeq(path, s, m - (n - s)) = w
  <2> DEFINE q == m - (n - s)
             x == SubSeq(path, s, q)
  <2>1. q \in Int /\ q = s - 1 + Len(w) /\ s \in Int /\ q <= m
    BY <1>3, <1>16, <1>21
  <2>2. \A i \in s .. q : path[i] \in Seq(U)
    BY <1>3, <2>1
  <2> HIDE DEF q
  <2>3. /\ x \in Seq(Seq(U)) /\ Len(x) = IF s <= q THEN q - s + 1 ELSE 0
        /\ \A i \in 1 .. q - s + 1 : x[i] = path[s + i - 1]
    BY <2>1, <2>2, SubSeqProperties
  <2> HIDE DEF x
  <2>4. Len(x) = Len(w)
    BY <1>16, <2>1, <2>3
  <2>5. \A i \in 1 .. Len(w) : x[i] = w[i]
    <3> TAKE i \in 1 .. Len(w)
    <3>1. i \in 1 .. q - s + 1 /\ s + i - 1 = s - 1 + i
      BY <1>16, <2>1
    <3> QED
      BY <1>21, <2>3, <3>1
  <2>6. x = w
    BY <1>14, <2>3, <2>4, <2>5, SeqEqual
  <2> QED
    BY <2>6 DEF x, q
<1>25. p.fold = FALSE /\ p.before = b /\ p.after = e
  <2> DEFINE hd == Segments(SubSeq(raw, 1, s - 1))
             tl == Segments(SubSeq(raw, s + 1, Len(raw)))
  <2>1. p = [raw |-> raw, fold |-> FALSE, hasSplat |-> TRUE, head |-> hd, tail |-> tl,
             before |-> b, after |-> e]
    BY CompileStarred, Zenon DEF StarredPattern, b, e
  <2> HIDE DEF p, hd, tl
  <2> QED
    BY <2>1
<1>26. Rest(p, path) = w
  <2>1. Rest(p, path) = SubSeq(path, s, m - (n - s))
    BY StarredMatch
  <2> QED
    BY <1>24, <2>1
<1> HIDE DEF p
<1>27. Affixes(p, Rest(p, path))
  BY <1>17, <1>25, <1>26 DEF Affixes
<1> QED
  BY <1>21, <1>22, <1>23, <1>27, StarredMatch DEF p

\* A part of a text behind a slash that is not in front is a part of the text.
LEMMA PartOfText ==
    ASSUME NEW T, "/" \in T, NEW text \in Seq(T), NEW x \in Seq(T), Within(T, x, Slash \o text)
    PROVE  \E first \in 1 .. Len(text) + 1, last \in 0 .. Len(text) : SubSeq(text, first, last) = x
<1> DEFINE all == Slash \o text
<1>1. /\ all \in Seq(T) /\ Len(text) \in Nat /\ Len(all) = Len(text) + 1
      /\ \A i \in 1 .. Len(text) : all[i + 1] = text[i]
  BY BehindSlash
<1>2. PICK w \in Seq(T), z \in Seq(T) : w # <<>> /\ all = w \o (x \o z)
  BY DEF Within
<1> HIDE DEF all
<1> DEFINE y == x \o z
<1>3. /\ y \in Seq(T) /\ Len(y) = Len(x) + Len(z) /\ Len(x) \in Nat /\ Len(z) \in Nat
      /\ \A i \in 1 .. Len(x) : y[i] = x[i]
  BY TwoLists
<1>4. all = w \o y
  BY <1>2
<1> HIDE DEF y
<1>5. /\ Len(all) = Len(w) + Len(y) /\ Len(w) \in Nat /\ Len(w) # 0
      /\ \A i \in 1 .. Len(y) : all[Len(w) + i] = y[i]
  <2>1. Len(w) # 0
    BY <1>2, EmptySeq
  <2>2. w \in Seq(T) /\ y \in Seq(T)
    BY <1>2, <1>3
  <2>3. /\ Len(w \o y) = Len(w) + Len(y) /\ Len(w) \in Nat
        /\ \A i \in 1 .. Len(y) : (w \o y)[Len(w) + i] = y[i]
    BY ONLY <2>2, TwoLists
  <2> QED
    BY <1>4, <2>1, <2>3
<1> DEFINE n == Len(text)
           first == Len(w)
           d == Len(x)
           last == first + d - 1
           part == SubSeq(text, first, last)
<1>6. first \in 1 .. n + 1 /\ last \in 0 .. n /\ n \in Nat /\ d \in Nat
  BY <1>1, <1>3, <1>5
<1>7. ASSUME NEW i \in 1 .. d PROVE text[first + i - 1] = x[i]
  <2> DEFINE j == first + i - 1
  <2>1. j \in 1 .. n /\ j + 1 = first + i /\ i \in 1 .. Len(y)
    BY <1>3, <1>6
  <2> HIDE DEF j
  <2>2. text[j] = all[j + 1]
    BY <1>1, <2>1
  <2>3. all[first + i] = y[i]
    BY <1>5, <2>1
  <2> QED
    BY <1>3, <2>1, <2>2, <2>3 DEF j
<1>8. part = x
  <2>1. \A i \in first .. last : text[i] \in T
    BY <1>6
  <2>2. first \in Int /\ last \in Int /\ last - first + 1 = d
    BY <1>6
  <2> HIDE DEF first, last
  <2>3. /\ part \in Seq(T) /\ Len(part) = IF first <= last THEN last - first + 1 ELSE 0
        /\ \A i \in 1 .. last - first + 1 : part[i] = text[first + i - 1]
    BY ONLY <2>1, <2>2, SubSeqProperties
  <2> HIDE DEF part
  <2>4. Len(part) = Len(x) /\ \A i \in 1 .. Len(x) : part[i] = x[i]
    BY <1>6, <1>7, <2>2, <2>3
  <2> QED
    BY <2>3, <2>4, SeqEqual
<1> HIDE DEF first, last
<1> QED
  BY <1>6, <1>8

(***************************************************************************)
(* What a pattern matches is what it reads as.                             *)
(***************************************************************************)

\* No placeholder has the "*".
LEMMA StarNotHeld ==
    ASSUME NEW T, NEW raw \in Seq(Seq(T)), PlaceholdersAreSegments(raw),
           NEW s, NEW k, StarredAt(raw, s, k)
    PROVE  s \notin Placeholders(raw)
<1>1. s \in 1 .. Len(raw) /\ k \in 1 .. Len(raw[s]) /\ raw[s][k] = "*"
  BY DEF StarredAt
<1>2. raw[s] \in Seq(T) /\ s \in DOMAIN raw
  BY <1>1
<1>3. Contains(raw[s], "*") /\ raw[s] # <<>>
  BY <1>1, <1>2 DEF Contains
<1> QED
  BY <1>2, <1>3 DEF PlaceholdersAreSegments, Placeholders

\* What compilePattern and match make of a pattern is what its text says: a path
\* matches exactly when the text of the pattern, with one segment of the path for
\* each placeholder and some text for the "*", is the text of the path.
THEOREM PatternMeaning ==
    ASSUME NEW U, "/" \notin U, NEW raw \in Seq(Seq(U)), raw # <<>>, OneWildcard(Joined(raw)),
           PlaceholdersAreSegments(raw), NEW path \in Seq(Seq(U)), path # <<>>
    PROVE  Match(CompilePattern(raw), path) <=> Reads(raw, path)
<1> DEFINE T == U \cup {"/"}
           text == Joined(path)
<1>1. "/" \in T /\ raw \in Seq(Seq(T)) /\ path \in Seq(Seq(T))
  BY Levels
<1>t. \A x \in Seq(T) : x \in Seq(U \cup {"/"})
  OBVIOUS
<1> HIDE DEF T
<1>2. Starless(raw) \/ \E s, k : StarredAt(raw, s, k)
  BY <1>1, OneStar
<1>3. ASSUME NEW s, NEW k, StarredAt(raw, s, k) PROVE s \notin Placeholders(raw)
  BY <1>3, StarNotHeld
<1>4. text \in Seq(T) /\ Slashed(path) = Slash \o text
  BY <1>1, SlashedJoined
<1> HIDE DEF text
<1>5. ASSUME Match(CompilePattern(raw), path) PROVE Reads(raw, path)
  <2>1. CASE Starless(raw)
    <3> DEFINE value == [i \in Placeholders(raw) |-> path[i]]
               part == SubSeq(text, 1, 0)
    <3>1. value \in [Placeholders(raw) -> Range(path)]
      <4>1. Len(path) = Len(raw)
        BY <1>5, <2>1, StarlessMatch
      <4>2. \A i \in Placeholders(raw) : i \in DOMAIN path
        BY <4>1 DEF Placeholders
      <4> QED
        BY <4>2 DEF Range
    <3>2. Fill(raw, value, part) = text
      BY <1>5, <2>1, StarlessFill DEF text
    <3>3. 1 \in 1 .. Len(text) + 1 /\ 0 \in 0 .. Len(text)
      BY <1>4
    <3> HIDE DEF value
    <3> QED
      BY <3>1, <3>2, <3>3 DEF Reads, text
  <2>2. ASSUME NEW s, NEW k, StarredAt(raw, s, k) PROVE Reads(raw, path)
    <3> DEFINE splat == Joined(Splat(CompilePattern(raw), path))
               value == ValuesOf(raw, path, s)
    <3>1. /\ Splat(CompilePattern(raw), path) \in Seq(Seq(T)) /\ Splat(CompilePattern(raw), path) # <<>>
          /\ value \in [Placeholders(raw) -> Range(path)]
          /\ Within(T, splat, Slashed(path))
          /\ Fill(raw, value, splat) = text
      BY <1>1, <1>3, <1>5, <2>2, StarredFill DEF text
    <3>2. splat \in Seq(T)
      BY <1>1, <3>1, SlashedJoined
    <3> HIDE DEF splat, value
    <3>3. Within(T, splat, Slash \o text)
      BY <1>4, <3>1
    <3>4. PICK first \in 1 .. Len(text) + 1, last \in 0 .. Len(text) : SubSeq(text, first, last) = splat
      BY <1>1, <1>4, <3>2, <3>3, PartOfText
    <3> QED
      BY <3>1, <3>4 DEF Reads, text
  <2> QED
    BY <1>2, <2>1, <2>2
<1>6. ASSUME Reads(raw, path) PROVE Match(CompilePattern(raw), path)
  <2>1. PICK first \in 1 .. Len(text) + 1, last \in 0 .. Len(text),
             value \in [Placeholders(raw) -> Range(path)] :
               Fill(raw, value, SubSeq(text, first, last)) = text
    BY <1>6, Zenon DEF Reads, text
  <2> DEFINE splat == SubSeq(text, first, last)
  <2>2. splat \in Seq(T)
    <3>1. first \in Int /\ last \in Int /\ \A i \in first .. last : text[i] \in T
      BY <1>4
    <3> QED
      BY ONLY <3>1, SubSeqProperties
  <2>3. splat \in Seq(U \cup {"/"})
    BY <1>t, <2>2
  <2>4. Fill(raw, value, splat) = Joined(path)
    BY <2>1 DEF text
  <2>5. value \in [Placeholders(raw) -> Seq(U)]
    <3>1. Range(path) \subseteq Seq(U)
      BY DEF Range
    <3> QED
      BY <3>1
  <2> HIDE DEF splat
  <2>6. CASE Starless(raw)
    BY <2>4, <2>5, <2>6, StarlessReads
  <2>7. ASSUME NEW s, NEW k, StarredAt(raw, s, k) PROVE Match(CompilePattern(raw), path)
    <3>1. s \notin Placeholders(raw)
      BY <1>3, <2>7
    <3> QED
      BY <2>3, <2>4, <2>5, <2>7, <3>1, StarredReads
  <2> QED
    BY <1>2, <2>6, <2>7
<1> QED
  BY <1>5, <1>6
=============================================================================
