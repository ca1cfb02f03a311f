-------------------------- MODULE HeaderMatchProofs --------------------------
(***************************************************************************)
(* Theorems about HeaderMatch, for any rules and requests: which requests  *)
(* the guard of the configuration file refuses, which path the rules are   *)
(* matched against, and in which order the operations of the rules that    *)
(* match are collected.                                                    *)
(***************************************************************************)
EXTENDS HeaderMatch, PatternProofs

(***************************************************************************)
(* The path as Windows reads it.                                           *)
(***************************************************************************)
\* Trimming leaves a start of the text, all of it if its last character may stay.
LEMMA TrimRightIsStart ==
    ASSUME NEW T, NEW text \in Seq(T), NEW cut
    PROVE  /\ \E n \in 0 .. Len(text) : TrimRight(text, cut) = SubSeq(text, 1, n)
           /\ (text = <<>> \/ text[Len(text)] \notin cut) => TrimRight(text, cut) = text
<1> DEFINE len == Len(text)
           Trimmed(n) == (n = 0 \/ text[n] \notin cut) /\ \A i \in n + 1 .. len : text[i] \in cut
           ends == {n \in 0 .. len : \A i \in n + 1 .. len : text[i] \in cut}
           end == CHOOSE n \in 0 .. len : Trimmed(n)
<1>1. len \in Nat
  OBVIOUS
<1>2. PICK n \in ends : \A m \in ends : n <= m
  <2>1. len \in ends /\ ends \in SUBSET Nat
    BY <1>1
  <2> HIDE DEF ends
  <2> QED
    BY <2>1, LeastNatural
<1>3. n = 0 \/ text[n] \notin cut
  <2> SUFFICES ASSUME n # 0, text[n] \in cut PROVE FALSE
    OBVIOUS
  <2>1. n - 1 \in 0 .. len /\ \A i \in (n - 1) + 1 .. len : i = n \/ i \in n + 1 .. len
    BY <1>1
  <2>2. n - 1 \in ends /\ n \in Nat
    BY <2>1
  <2>3. n <= n - 1
    <3> HIDE DEF ends
    <3> QED
      BY <1>2, <2>2
  <2> QED
    BY <2>2, <2>3
<1>4. n \in 0 .. len /\ Trimmed(n)
  BY <1>3
<1>5. end \in 0 .. len /\ Trimmed(end)
  <2> HIDE DEF Trimmed, len
  <2> QED
    BY <1>4
<1>6. TrimRight(text, cut) = SubSeq(text, 1, end)
  BY DEF TrimRight
<1> HIDE DEF end
<1>7. ASSUME text = <<>> \/ text[len] \notin cut PROVE TrimRight(text, cut) = text
  <2>1. end = len
    <3> SUFFICES ASSUME end < len PROVE FALSE
      BY <1>1, <1>5
    <3>1. len \in end + 1 .. len
      BY <1>1, <1>5
    <3> QED
      BY <1>1, <1>5, <1>7, <3>1
  <2> QED
    BY <1>6, <2>1, SubSeqFull
<1> QED
  BY <1>5, <1>6, <1>7

\* What Windows reads of a segment is a start of it.
LEMMA WindowsSegmentIsStart ==
    ASSUME NEW T, NEW segment \in Seq(T)
    PROVE  /\ \E n \in 0 .. Len(segment) : WindowsSegment(segment) = SubSeq(segment, 1, n)
           /\ ~(segment # <<>> /\ Last(segment) \in {".", " "}) => WindowsSegment(segment) = segment
<1>1. segment # <<>> => Last(segment) = segment[Len(segment)]
  BY DEF Last
<1>2. \A cut \in {{" "}, {".", " "}} :
          /\ \E n \in 0 .. Len(segment) : TrimRight(segment, cut) = SubSeq(segment, 1, n)
          /\ (segment = <<>> \/ segment[Len(segment)] \notin cut) => TrimRight(segment, cut) = segment
  BY TrimRightIsStart
<1> QED
  BY <1>1, <1>2 DEF WindowsSegment

\* A start of a part is a part.
LEMMA StartOfPart ==
    ASSUME NEW T, NEW text \in Seq(T), NEW part, PartOf(part, text), NEW n \in 0 .. Len(part)
    PROVE  PartOf(SubSeq(part, 1, n), text)
<1>1. PICK from \in 1 .. Len(text) + 2, to \in 0 .. Len(text) : part = SubSeq(text, from, to)
  BY DEF PartOf
<1>2. Len(text) \in Nat /\ part \in Seq(T) /\ Len(part) = IF from <= to THEN to - from + 1 ELSE 0
  BY <1>1, SubSeqProperties
<1>3. CASE n = 0
  <2>1. SubSeq(part, 1, n) = <<>> /\ SubSeq(text, 1, 0) = <<>>
    BY <1>2, <1>3, SubSeqEmpty
  <2>2. 1 \in 1 .. Len(text) + 2 /\ 0 \in 0 .. Len(text)
    BY <1>2
  <2> QED
    BY <2>1, <2>2 DEF PartOf
<1>4. CASE n # 0
  <2> DEFINE end == from + n - 1
  <2>1. from <= to /\ end \in 0 .. Len(text) /\ end <= to /\ end >= from
    BY <1>2, <1>4
  <2>2. SubSeq(part, 1, n) = SubSeq(text, from, end)
    BY <1>1, <1>2, <1>4, <2>1
  <2> HIDE DEF end
  <2> QED
    BY <2>1, <2>2 DEF PartOf
<1> QED
  BY <1>3, <1>4

\* What Windows reads of a path are parts of its segments, and the path itself if
\* none of its segments is read differently.
LEMMA WindowsPathParts ==
    ASSUME NEW T, NEW path \in Seq(Seq(T))
    PROVE  /\ WindowsPath(path) \in Seq(Seq(T))
           /\ \A i \in DOMAIN WindowsPath(path) : \E j \in DOMAIN path : PartOf(WindowsPath(path)[i], path[j])
           /\ ~HasWindowsPathQuirks(path) => WindowsPath(path) = path
<1> DEFINE len == Len(path)
           Parts == {w \in Seq(T) : \E j \in DOMAIN path : PartOf(w, path[j])}
           lists == [i \in DOMAIN path |-> SplitAt(path[i], "\\")]
           parts == FlattenSeq(lists)
<1>1. len \in Nat /\ DOMAIN path = 1 .. len /\ \A i \in 1 .. len : path[i] \in Seq(T)
  OBVIOUS
<1>2. ASSUME NEW i \in DOMAIN path PROVE SplitAt(path[i], "\\") \in Seq(Parts)
  <2> DEFINE pieces == SplitAt(path[i], "\\")
  <2>1. pieces \in Seq(Seq(T)) /\ \A n \in DOMAIN pieces : PartOf(pieces[n], path[i])
    BY <1>1, SplitParts
  <2> HIDE DEF pieces
  <2>2. \A n \in 1 .. Len(pieces) : pieces[n] \in Parts
    BY <2>1
  <2> HIDE DEF Parts
  <2>3. pieces \in [1 .. Len(pieces) -> Parts] /\ Len(pieces) \in Nat
    BY <2>1, <2>2
  <2>4. pieces \in Seq(Parts)
    <3> DEFINE m == Len(pieces)
    <3>1. pieces \in [1 .. m -> Parts] /\ m \in Nat
      BY <2>3
    <3> HIDE DEF m
    <3> QED
      BY <3>1
  <2> QED
    BY <2>4 DEF pieces
<1>3. parts \in Seq(Parts)
  <2> HIDE DEF Parts
  <2>1. lists \in Seq(Seq(Parts))
    BY <1>1, <1>2
  <2> HIDE DEF lists
  <2> QED
    BY <2>1, FlattenType
<1>4. WindowsPath(path) = [i \in DOMAIN parts |-> WindowsSegment(parts[i])]
  BY DEF WindowsPath
<1>5. ASSUME NEW w \in Parts PROVE WindowsSegment(w) \in Parts
  <2>1. PICK n \in 0 .. Len(w) : WindowsSegment(w) = SubSeq(w, 1, n)
    BY WindowsSegmentIsStart
  <2>2. PICK j \in DOMAIN path : PartOf(w, path[j])
    OBVIOUS
  <2>3. path[j] \in Seq(T)
    BY <1>1
  <2>4. PartOf(SubSeq(w, 1, n), path[j])
    BY <2>2, <2>3, StartOfPart
  <2>5. SubSeq(w, 1, n) \in Seq(T)
    BY <2>1
  <2> QED
    BY <2>1, <2>4, <2>5
<1>6. WindowsPath(path) \in Seq(Parts)
  <2> HIDE DEF Parts, parts
  <2>1. DOMAIN parts = 1 .. Len(parts) /\ Len(parts) \in Nat
    BY <1>3
  <2>2. \A i \in 1 .. Len(parts) : WindowsSegment(parts[i]) \in Parts
    BY <1>3, <1>5
  <2> QED
    BY <1>4, <2>1, <2>2
<1>7. ASSUME ~HasWindowsPathQuirks(path) PROVE WindowsPath(path) = path
  <2>1. \A i \in DOMAIN path : /\ ~Contains(path[i], "\\")
                               /\ ~(path[i] # <<>> /\ Last(path[i]) \in {".", " "})
    BY <1>7 DEF HasWindowsPathQuirks
  <2>2. \A i \in DOMAIN path : SplitAt(path[i], "\\") = <<path[i]>>
    BY <1>1, <2>1, SplitWhole
  <2>3. parts = path
    <3>1. lists = [i \in DOMAIN path |-> <<path[i]>>]
      BY <2>2
    <3> HIDE DEF lists
    <3> QED
      BY <3>1, FlattenSingles
  <2>4. \A i \in DOMAIN path : WindowsSegment(path[i]) = path[i]
    BY <1>1, <2>1, WindowsSegmentIsStart
  <2>5. path = [i \in DOMAIN path |-> path[i]]
    BY <1>1
  <2> HIDE DEF parts
  <2> QED
    BY <1>4, <2>3, <2>4, <2>5
<1>8. Parts \subseteq Seq(T) /\ \A w \in Parts : \E j \in DOMAIN path : PartOf(w, path[j])
  OBVIOUS
<1> HIDE DEF Parts
<1>9. WindowsPath(path) \in Seq(Seq(T)) /\ \A i \in DOMAIN WindowsPath(path) : WindowsPath(path)[i] \in Parts
  BY <1>6, <1>8
<1> QED
  BY <1>7, <1>8, <1>9

(***************************************************************************)
(* The path that path.Clean leaves: the names that are not undone.         *)
(***************************************************************************)
\* How many names more than ".." there are behind place i, up to place j.
Level(q, i, j) == Cardinality({k \in i + 1 .. j : IsName(q[k])})
                    - Cardinality({k \in i + 1 .. j : q[k] = DotDot})

\* The names that nothing up to place m undoes.
Kept(q, m) == {i \in 1 .. m : IsName(q[i]) /\ \A j \in i + 1 .. m : Level(q, i, j) >= 0}

\* The members of q at some places, in order.
Listed(q, K) == [n \in 1 .. Cardinality(K) |-> q[Nth(K, n)]]

\* No places list nothing.
LEMMA ListedEmpty ==
    ASSUME NEW q
    PROVE  Listed(q, {}) = <<>> /\ Listed(q, Kept(q, 0)) = <<>>
<1>1. Listed(q, {}) = <<>>
  <2>1. Cardinality({}) = 0
    BY FS_EmptySet
  <2> QED
    BY <2>1 DEF Listed
<1>2. Kept(q, 0) = {}
  <2>1. 1 .. 0 = {}
    BY SMT
  <2> QED
    BY <2>1 DEF Kept
<1> QED
  BY <1>1, <1>2

\* A place behind the others adds its member at the end.
LEMMA ListedAppend ==
    ASSUME NEW S, NEW q \in Seq(S), NEW K \in SUBSET (1 .. Len(q)), IsFiniteSet(K),
           NEW g \in 1 .. Len(q), \A k \in K : k < g
    PROVE  /\ Listed(q, K) \in Seq(S)
           /\ Listed(q, K \cup {g}) = Append(Listed(q, K), q[g])
<1> DEFINE count == Cardinality(K)
           L == K \cup {g}
<1>1. count \in Nat /\ IsFiniteSet(L) /\ Cardinality(L) = count + 1 /\ g \notin K
  <2>1. g \notin K
    BY SMT
  <2> QED
    BY <2>1, FS_CardinalityType, FS_AddElement
<1>2. Len(q) \in Nat /\ K \in SUBSET Nat /\ L \in SUBSET Nat /\ \A k \in L : q[k] \in S
  BY SMT
<1>3. ASSUME NEW n \in 1 .. count PROVE Nth(K, n) \in K /\ q[Nth(K, n)] \in S /\ Nth(L, n) = Nth(K, n)
  <2> DEFINE i == Nth(K, n)
  <2>1. i \in K /\ Cardinality(UpTo(K, i)) = n
    BY <1>2, NthHasRank
  <2> HIDE DEF i
  <2>2. UpTo(L, i) = UpTo(K, i) /\ i \in L
    <3>1. i < g /\ i \in Nat
      BY <1>2, <2>1
    <3> QED
      BY <3>1, <2>1 DEF UpTo
  <2>3. Nth(L, Cardinality(UpTo(L, i))) = i
    BY <1>1, <1>2, <2>2, NthOfRank
  <2>4. Nth(L, n) = i
    BY <2>1, <2>2, <2>3
  <2> QED
    BY <1>2, <2>1, <2>4 DEF i
<1>4. Nth(L, count + 1) = g
  <2>1. UpTo(L, g) = L
    <3>1. \A k \in L : k <= g
      BY <1>2, SMT
    <3> HIDE DEF L
    <3> QED
      BY <3>1, Zenon DEF UpTo
  <2>2. Nth(L, Cardinality(UpTo(L, g))) = g
    <3>1. g \in L
      OBVIOUS
    <3> QED
      BY <1>1, <1>2, <3>1, NthOfRank
  <2> QED
    BY <1>1, <2>1, <2>2
<1>5. Listed(q, K) \in Seq(S) /\ Len(Listed(q, K)) = count
      /\ \A n \in 1 .. count : Listed(q, K)[n] = q[Nth(K, n)]
  BY <1>1, <1>3 DEF Listed
<1>6. q[g] \in S
  BY <1>2
<1> DEFINE longer == Append(Listed(q, K), q[g])
<1>7. /\ longer \in Seq(S) /\ Len(longer) = count + 1
      /\ \A n \in 1 .. count : longer[n] = q[Nth(K, n)]
      /\ longer[count + 1] = q[g]
  BY <1>5, <1>6, AppendProperties
<1> HIDE DEF longer, count, L
<1>8. \A n \in 1 .. count + 1 : longer[n] = q[Nth(L, n)]
  <2>1. \A n \in 1 .. count + 1 : n = count + 1 \/ n \in 1 .. count
    BY <1>1
  <2> QED
    BY <1>3, <1>4, <1>7, <2>1
<1>9. longer = [n \in 1 .. count + 1 |-> q[Nth(L, n)]]
  <2>1. longer = [n \in 1 .. count + 1 |-> longer[n]]
    BY <1>1, <1>7
  <2> QED
    BY <1>8, <2>1
<1>10. Listed(q, L) = [n \in 1 .. count + 1 |-> q[Nth(L, n)]]
  BY <1>1 DEF Listed
<1> QED
  BY <1>5, <1>9, <1>10 DEF longer, L

\* The greatest place has the last member.
LEMMA ListedFront ==
    ASSUME NEW S, NEW q \in Seq(S), NEW K \in SUBSET (1 .. Len(q)), IsFiniteSet(K),
           NEW g \in K, \A k \in K : k <= g
    PROVE  Listed(q, K) # <<>> /\ Front(Listed(q, K)) = Listed(q, K \ {g})
<1> DEFINE J == K \ {g}
<1>1. J \in SUBSET (1 .. Len(q)) /\ IsFiniteSet(J) /\ g \in 1 .. Len(q) /\ J \cup {g} = K
  BY FS_RemoveElement
<1>2. \A k \in J : k < g
  BY SMT
<1> HIDE DEF J
<1>3. Listed(q, J) \in Seq(S) /\ Listed(q, K) = Append(Listed(q, J), q[g])
  BY <1>1, <1>2, ListedAppend
<1> DEFINE s == Listed(q, J)
<1>4. q[g] \in S
  BY <1>1
<1> HIDE DEF s
<1>5. Append(s, q[g]) # <<>> /\ SubSeq(Append(s, q[g]), 1, Len(Append(s, q[g])) - 1) = s
  <2>1. s \in Seq(S)
    BY <1>3 DEF s
  <2> DEFINE longer == Append(s, q[g])
  <2>2. /\ longer \in Seq(S) /\ longer # <<>> /\ Len(longer) = Len(s) + 1 /\ Len(s) \in Nat
        /\ \A i \in 1 .. Len(s) : longer[i] = s[i]
    BY <1>4, <2>1, AppendProperties
  <2> HIDE DEF longer
  <2>3. SubSeq(longer, 1, Len(longer) - 1) = s
    <3>1. SubSeq(longer, 1, Len(longer) - 1) = [i \in 1 .. Len(s) |-> longer[i]]
      BY <2>2
    <3>2. s = [i \in 1 .. Len(s) |-> s[i]]
      BY <2>1
    <3> QED
      BY <2>2, <3>1, <3>2
  <2> QED
    BY <2>2, <2>3 DEF longer
<1> QED
  BY <1>3, <1>5 DEF Front, s, J

\* The segments that are no names are three.
LEMMA KindsDiffer ==
    /\ <<>> # Dot /\ <<>> # DotDot /\ Dot # DotDot
    /\ \A segment : /\ segment = DotDot => ~IsName(segment) /\ segment \notin {<<>>, Dot}
                    /\ segment \in {<<>>, Dot} => ~IsName(segment) /\ segment # DotDot
                    /\ IsName(segment) => segment \notin {<<>>, Dot, DotDot}
<1>1. Len(<<>>) = 0 /\ Len(Dot) = 1 /\ Len(DotDot) = 2
  BY DEF Dot, DotDot
<1>2. <<>> # Dot /\ <<>> # DotDot /\ Dot # DotDot
  BY <1>1
<1> QED
  BY <1>2, Zenon DEF IsName

\* One more place counts as what it is.
LEMMA LevelSteps ==
    ASSUME NEW q, NEW i \in Nat, NEW j \in Nat, i <= j
    PROVE  /\ Level(q, i, i) = 0 /\ Level(q, i, j) \in Int
           /\ q[j + 1] = DotDot => Level(q, i, j + 1) = Level(q, i, j) - 1
           /\ IsName(q[j + 1]) => Level(q, i, j + 1) = Level(q, i, j) + 1
           /\ q[j + 1] \in {<<>>, Dot} => Level(q, i, j + 1) = Level(q, i, j)
<1> DEFINE names(l) == {k \in i + 1 .. l : IsName(q[k])}
           ups(l) == {k \in i + 1 .. l : q[k] = DotDot}
<1>1. ASSUME NEW l \in Nat
      PROVE  /\ IsFiniteSet(names(l)) /\ Cardinality(names(l)) \in Nat
             /\ IsFiniteSet(ups(l)) /\ Cardinality(ups(l)) \in Nat
  <2>1. IsFiniteSet(i + 1 .. l) /\ names(l) \subseteq i + 1 .. l /\ ups(l) \subseteq i + 1 .. l
    BY FS_Interval
  <2> HIDE DEF names, ups
  <2>2. IsFiniteSet(names(l)) /\ IsFiniteSet(ups(l))
    BY <2>1, FS_Subset
  <2> QED
    BY <2>2, FS_CardinalityType
<1>2. names(i) = {} /\ ups(i) = {}
  BY SMT
<1>3. \A k : k \in i + 1 .. j + 1 <=> k \in i + 1 .. j \/ k = j + 1
  OBVIOUS
<1>4. names(j + 1) = IF IsName(q[j + 1]) THEN names(j) \cup {j + 1} ELSE names(j)
  BY <1>3, Zenon
<1>5. ups(j + 1) = IF q[j + 1] = DotDot THEN ups(j) \cup {j + 1} ELSE ups(j)
  BY <1>3, Zenon
<1>6. j + 1 \notin names(j) /\ j + 1 \notin ups(j)
  BY SMT
<1>7. \A l : Level(q, i, l) = Cardinality(names(l)) - Cardinality(ups(l))
  BY DEF Level
<1>8. /\ q[j + 1] = DotDot => ~IsName(q[j + 1])
      /\ q[j + 1] \in {<<>>, Dot} => ~IsName(q[j + 1]) /\ q[j + 1] # DotDot
  BY KindsDiffer
<1> HIDE DEF names, ups
<1>9. Cardinality(names(j + 1)) = Cardinality(names(j)) + IF IsName(q[j + 1]) THEN 1 ELSE 0
  <2>1. CASE IsName(q[j + 1])
    <3>1. names(j + 1) = names(j) \cup {j + 1}
      BY <1>4, <2>1, Zenon
    <3>2. Cardinality(names(j) \cup {j + 1}) = Cardinality(names(j)) + 1
      BY <1>1, <1>6, FS_AddElement
    <3> QED
      BY <2>1, <3>1, <3>2, Zenon
  <2>2. CASE ~(IsName(q[j + 1]))
    <3>1. names(j + 1) = names(j) /\ Cardinality(names(j)) + 0 = Cardinality(names(j))
      BY <1>1, <1>4, <2>2
    <3> QED
      BY <2>2, <3>1, Zenon
  <2> QED
    BY <2>1, <2>2
<1>10. Cardinality(ups(j + 1)) = Cardinality(ups(j)) + IF q[j + 1] = DotDot THEN 1 ELSE 0
  <2>1. CASE q[j + 1] = DotDot
    <3>1. ups(j + 1) = ups(j) \cup {j + 1}
      BY <1>5, <2>1, Zenon
    <3>2. Cardinality(ups(j) \cup {j + 1}) = Cardinality(ups(j)) + 1
      BY <1>1, <1>6, FS_AddElement
    <3> QED
      BY <2>1, <3>1, <3>2, Zenon
  <2>2. CASE ~(q[j + 1] = DotDot)
    <3>1. ups(j + 1) = ups(j) /\ Cardinality(ups(j)) + 0 = Cardinality(ups(j))
      BY <1>1, <1>5, <2>2
    <3> QED
      BY <2>2, <3>1, Zenon
  <2> QED
    BY <2>1, <2>2
<1>11. Level(q, i, i) = 0
  BY <1>2, <1>7, FS_EmptySet
<1> DEFINE more == Level(q, i, j + 1) - Level(q, i, j)
<1>12. /\ Level(q, i, j) \in Int /\ Level(q, i, j + 1) \in Int
       /\ more = (IF IsName(q[j + 1]) THEN 1 ELSE 0) - (IF q[j + 1] = DotDot THEN 1 ELSE 0)
  BY <1>1, <1>7, <1>9, <1>10
<1>13. /\ q[j + 1] = DotDot => more = -1
       /\ IsName(q[j + 1]) => more = 1
       /\ q[j + 1] \in {<<>>, Dot} => more = 0
  <2> HIDE DEF more
  <2> QED
    BY <1>8, <1>12
<1> QED
  BY <1>11, <1>12, <1>13

\* The kept names behind place i.
Behind(q, m, i) == {k \in Kept(q, m) : k > i}

\* Behind each name that is kept there are as many more names than ".." as names
\* are kept behind it.
Balanced(q, m) == \A i \in Kept(q, m) : Level(q, i, m) = Cardinality(Behind(q, m, i))

\* The kept names are places, and so are those behind one of them.
LEMMA KeptFinite ==
    ASSUME NEW q, NEW m \in Nat
    PROVE  /\ Kept(q, m) \in SUBSET (1 .. m) /\ IsFiniteSet(Kept(q, m))
           /\ \A i : /\ Behind(q, m, i) \subseteq Kept(q, m) /\ IsFiniteSet(Behind(q, m, i))
                     /\ Cardinality(Behind(q, m, i)) \in Nat
<1>1. Kept(q, m) \in SUBSET (1 .. m) /\ \A i : Behind(q, m, i) \subseteq Kept(q, m)
  BY DEF Kept, Behind
<1>2. IsFiniteSet(Kept(q, m))
  BY <1>1, FS_Interval, FS_Subset
<1>3. \A i : IsFiniteSet(Behind(q, m, i))
  BY <1>1, <1>2, FS_Subset
<1> QED
  BY <1>1, <1>2, <1>3, FS_CardinalityType

\* What one more segment does to the names kept so far: a name is one of them, ".."
\* undoes the last, and nothing else changes them.
LEMMA KeptSteps ==
    ASSUME NEW q, NEW m \in Nat, Balanced(q, m)
    PROVE  /\ Balanced(q, m + 1)
           /\ IsName(q[m + 1]) => Kept(q, m + 1) = Kept(q, m) \cup {m + 1}
           /\ q[m + 1] \in {<<>>, Dot} => Kept(q, m + 1) = Kept(q, m)
           /\ (q[m + 1] = DotDot /\ Kept(q, m) = {}) => Kept(q, m + 1) = {}
           /\ (q[m + 1] = DotDot /\ Kept(q, m) # {}) =>
                \E g \in Kept(q, m) : /\ \A k \in Kept(q, m) : k <= g
                                      /\ Kept(q, m + 1) = Kept(q, m) \ {g}
<1> DEFINE K == Kept(q, m)
           L == Kept(q, m + 1)
<1>1. K \in SUBSET (1 .. m) /\ IsFiniteSet(K) /\ L \in SUBSET (1 .. m + 1)
      /\ \A i : Cardinality(Behind(q, m, i)) \in Nat /\ IsFiniteSet(Behind(q, m, i))
  BY KeptFinite
<1>2. ASSUME NEW i \in 1 .. m
      PROVE  i \in L <=> i \in K /\ Level(q, i, m + 1) >= 0
  <2>1. i \in 1 .. m + 1 /\ \A j : j \in i + 1 .. m + 1 <=> j \in i + 1 .. m \/ j = m + 1
    OBVIOUS
  <2> QED
    BY <2>1, Zenon DEF Kept
<1>3. m + 1 \in L <=> IsName(q[m + 1])
  <2>1. m + 1 \in 1 .. m + 1 /\ (m + 1) + 1 .. m + 1 = {}
    BY SMT
  <2> QED
    BY <2>1 DEF Kept
<1>4. \A i \in 1 .. m + 1 : i \in 1 .. m \/ i = m + 1
  OBVIOUS
<1>5. \A i \in K : Level(q, i, m) = Cardinality(Behind(q, m, i))
  BY DEF Balanced
<1>6. ASSUME NEW i \in 1 .. m
      PROVE  /\ Level(q, i, m) \in Int
             /\ q[m + 1] = DotDot => Level(q, i, m + 1) = Level(q, i, m) - 1
             /\ IsName(q[m + 1]) => Level(q, i, m + 1) = Level(q, i, m) + 1
             /\ q[m + 1] \in {<<>>, Dot} => Level(q, i, m + 1) = Level(q, i, m)
  <2>1. i \in Nat /\ i <= m
    OBVIOUS
  <2> QED
    BY <2>1, LevelSteps
<1>7. CASE IsName(q[m + 1])
  <2>1. q[m + 1] # DotDot /\ q[m + 1] \notin {<<>>, Dot}
    BY <1>7, KindsDiffer
  <2>2. ASSUME NEW i \in K PROVE Level(q, i, m + 1) = Cardinality(Behind(q, m, i)) + 1
    BY <1>1, <1>5, <1>6, <1>7
  <2>3. L = K \cup {m + 1}
    <3>1. \A i \in K : Level(q, i, m + 1) >= 0
      BY <1>1, <2>2
    <3> HIDE DEF K, L
    <3> QED
      BY <1>1, <1>2, <1>3, <1>4, <1>7, <3>1
  <2>4. ASSUME NEW i \in L PROVE Level(q, i, m + 1) = Cardinality(Behind(q, m + 1, i))
    <3>1. CASE i = m + 1
      <4>1. Behind(q, m + 1, i) = {}
        BY <1>1, <3>1 DEF Behind
      <4>2. Level(q, m + 1, m + 1) = 0
        BY LevelSteps
      <4> QED
        BY <3>1, <4>1, <4>2, FS_EmptySet
    <3>2. CASE i \in K
      <4>1. Behind(q, m + 1, i) = Behind(q, m, i) \cup {m + 1}
        <5>1. m + 1 > i
          BY <1>1, <3>2
        <5> QED
          BY <2>3, <5>1 DEF Behind
      <4>2. m + 1 \notin Behind(q, m, i)
        BY <1>1 DEF Behind
      <4> QED
        BY <1>1, <2>2, <3>2, <4>1, <4>2, FS_AddElement
    <3> QED
      BY <2>3, <3>1, <3>2
  <2> QED
    BY <2>1, <2>3, <2>4 DEF Balanced
<1>8. CASE q[m + 1] \in {<<>>, Dot}
  <2>1. q[m + 1] # DotDot /\ ~IsName(q[m + 1])
    BY <1>8, KindsDiffer
  <2>2. ASSUME NEW i \in K PROVE Level(q, i, m + 1) = Cardinality(Behind(q, m, i))
    BY <1>1, <1>5, <1>6, <1>8
  <2>3. L = K
    <3>1. \A i \in K : Level(q, i, m + 1) >= 0
      BY <1>1, <2>2
    <3> HIDE DEF K, L
    <3> QED
      BY <1>1, <1>2, <1>3, <1>4, <2>1, <3>1
  <2> QED
    BY <2>1, <2>2, <2>3 DEF Balanced, Behind
<1>9. CASE q[m + 1] = DotDot
  <2>1. q[m + 1] \notin {<<>>, Dot} /\ ~IsName(q[m + 1])
    BY <1>9, KindsDiffer
  <2>2. ASSUME NEW i \in K PROVE Level(q, i, m + 1) = Cardinality(Behind(q, m, i)) - 1
    BY <1>1, <1>5, <1>6, <1>9
  <2>3. ASSUME K = {} PROVE L = {}
    BY <1>1, <1>2, <1>3, <1>4, <2>1, <2>3
  <2>4. ASSUME K # {}
        PROVE  \E g \in K : (\A k \in K : k <= g) /\ L = K \ {g}
                            /\ \A i \in L : Behind(q, m + 1, i) = Behind(q, m, i) \ {g}
                                            /\ g \in Behind(q, m, i)
    <3>1. PICK g \in K : \A k \in K : k <= g
      <4> HIDE DEF K
      <4>1. K \in SUBSET (0 .. m)
        BY <1>1
      <4> QED
        BY <2>4, <4>1, GreatestNatural
    <3>2. Behind(q, m, g) = {} /\ Level(q, g, m + 1) = -1
      <4>1. Behind(q, m, g) = {}
        <5>1. \A k \in K : ~(k > g)
          BY <1>1, <3>1
        <5> QED
          BY <5>1 DEF Behind
      <4> QED
        BY <2>2, <3>1, <4>1, FS_EmptySet
    <3>3. ASSUME NEW i \in K, i # g PROVE Level(q, i, m + 1) >= 0 /\ g \in Behind(q, m, i)
      <4>1. g > i
        BY <1>1, <3>1, <3>3
      <4>2. g \in Behind(q, m, i)
        BY <3>1, <4>1 DEF Behind
      <4>3. Cardinality(Behind(q, m, i)) # 0
        BY <1>1, <4>2, FS_EmptySet
      <4> QED
        BY <1>1, <2>2, <4>2, <4>3
    <3>4. L = K \ {g}
      <4>1. g \notin L /\ m + 1 \notin L /\ m + 1 \notin K
        <5> HIDE DEF K, L
        <5>1. g \in 1 .. m /\ ~(Level(q, g, m + 1) >= 0)
          BY <1>1, <3>1, <3>2
        <5> QED
          BY <1>1, <1>2, <1>3, <2>1, <5>1
      <4>2. \A i \in 1 .. m : i # g => (i \in L <=> i \in K)
        BY <1>2, <3>3, Zenon
      <4> HIDE DEF K, L
      <4> QED
        BY <1>1, <1>4, <4>1, <4>2
    <3>5. \A i \in L : Behind(q, m + 1, i) = Behind(q, m, i) \ {g} /\ g \in Behind(q, m, i)
      BY <3>3, <3>4 DEF Behind
    <3> QED
      BY <3>1, <3>4, <3>5
  <2>5. ASSUME NEW i \in L PROVE Level(q, i, m + 1) = Cardinality(Behind(q, m + 1, i))
    <3>1. K # {}
      BY <2>3
    <3>2. PICK g \in K : L = K \ {g} /\ Behind(q, m + 1, i) = Behind(q, m, i) \ {g}
                         /\ g \in Behind(q, m, i)
      BY <2>4, <3>1
    <3> QED
      BY <1>1, <2>2, <3>2, FS_RemoveElement
  <2> QED
    BY <2>1, <2>3, <2>4, <2>5, <1>9 DEF Balanced
<1> QED
  BY <1>7, <1>8, <1>9 DEF IsName

\* The counts agree after any number of segments.
LEMMA AlwaysBalanced ==
    ASSUME NEW q, NEW m \in Nat
    PROVE  Balanced(q, m)
<1> DEFINE S == {n \in Nat : Balanced(q, n)}
<1>1. 0 \in S
  <2>1. 1 .. 0 = {}
    BY SMT
  <2>2. Kept(q, 0) = {}
    BY <2>1 DEF Kept
  <2> QED
    BY <2>2 DEF Balanced
<1>2. \A n \in S : n + 1 \in S
  BY KeptSteps
<1>3. S \in SUBSET Nat
  OBVIOUS
<1> HIDE DEF S
<1>4. S = Nat
  BY <1>1, <1>2, <1>3, SetInduction
<1> QED
  BY <1>4 DEF S

\* One iteration of path.Clean.
Entered(entered, segment) ==
    CASE segment \in {<<>>, Dot} -> entered
      [] segment = DotDot        -> IF entered = <<>> THEN <<>> ELSE Front(entered)
      [] OTHER                   -> Append(entered, segment)

\* Each iteration keeps the list of the names kept so far.
LEMMA EnteredIsListed ==
    ASSUME NEW S, NEW q \in Seq(S), NEW m \in Nat, m + 1 <= Len(q)
    PROVE  Listed(q, Kept(q, m + 1)) = Entered(Listed(q, Kept(q, m)), q[m + 1])
<1> DEFINE K == Kept(q, m)
<1>1. Len(q) \in Nat /\ m + 1 \in 1 .. Len(q)
  OBVIOUS
<1>2. K \in SUBSET (1 .. Len(q)) /\ IsFiniteSet(K) /\ \A k \in K : k < m + 1
  <2>1. K \in SUBSET (1 .. m) /\ IsFiniteSet(K)
    BY KeptFinite
  <2> HIDE DEF K
  <2>2. \A k \in K : k \in 1 .. Len(q) /\ k < m + 1
    BY <1>1, <2>1
  <2> QED
    BY <2>1, <2>2
<1>3. Balanced(q, m)
  BY AlwaysBalanced
<1> HIDE DEF K
<1>4. CASE q[m + 1] \in {<<>>, Dot}
  <2>1. Kept(q, m + 1) = K
    BY <1>3, <1>4, KeptSteps DEF K
  <2>2. q[m + 1] # DotDot
    BY <1>4, KindsDiffer
  <2> QED
    BY <1>4, <2>1, <2>2 DEF Entered, K
<1>5. CASE q[m + 1] = DotDot
  <2>1. q[m + 1] \notin {<<>>, Dot}
    BY <1>5, KindsDiffer
  <2>2. CASE K = {}
    <3>1. Kept(q, m + 1) = {}
      BY <1>3, <1>5, <2>2, KeptSteps DEF K
    <3>2. Listed(q, {}) = <<>>
      BY ListedEmpty
    <3> QED
      BY <1>5, <2>1, <2>2, <3>1, <3>2 DEF Entered, K
  <2>3. CASE K # {}
    <3>1. PICK g \in K : (\A k \in K : k <= g) /\ Kept(q, m + 1) = K \ {g}
      BY <1>3, <1>5, <2>3, KeptSteps DEF K
    <3>2. Listed(q, K) # <<>> /\ Front(Listed(q, K)) = Listed(q, K \ {g})
      BY <1>2, <3>1, ListedFront
    <3> QED
      BY <1>5, <2>1, <3>1, <3>2 DEF Entered, K
  <2> QED
    BY <2>2, <2>3
<1>6. CASE IsName(q[m + 1])
  <2>1. q[m + 1] \notin {<<>>, Dot} /\ q[m + 1] # DotDot
    BY <1>6, KindsDiffer
  <2>2. Kept(q, m + 1) = K \cup {m + 1}
    BY <1>3, <1>6, KeptSteps DEF K
  <2>3. Listed(q, K \cup {m + 1}) = Append(Listed(q, K), q[m + 1])
    BY <1>1, <1>2, ListedAppend
  <2> QED
    BY <2>1, <2>2, <2>3 DEF Entered, K
<1> QED
  BY <1>4, <1>5, <1>6 DEF IsName

\* ServedNames lists the names kept in the end.
LEMMA ServedAreListed ==
    ASSUME NEW S, NEW q \in Seq(S)
    PROVE  /\ ServedNames(q) = Listed(q, Kept(q, Len(q)))
           /\ ServedNames(q) \in Seq(S)
           /\ \A n \in DOMAIN ServedNames(q) : \E i \in DOMAIN q : ServedNames(q)[n] = q[i] /\ IsName(q[i])
<1> DEFINE kept == {i \in DOMAIN q : IsName(q[i]) /\ ~Undone(q, i)}
           K == Kept(q, Len(q))
<1>1. Len(q) \in Nat /\ DOMAIN q = 1 .. Len(q) /\ \A i \in 1 .. Len(q) : q[i] \in S
  OBVIOUS
<1>2. ASSUME NEW i \in 1 .. Len(q), NEW j \in i + 1 .. Len(q)
      PROVE  Level(q, i, j) >= 0 <=> ~(Cardinality({k \in i + 1 .. j : q[k] = DotDot})
                                         > Cardinality({k \in i + 1 .. j : IsName(q[k])}))
  <2> DEFINE names == {k \in i + 1 .. j : IsName(q[k])}
             ups == {k \in i + 1 .. j : q[k] = DotDot}
  <2>1. IsFiniteSet(i + 1 .. j) /\ names \subseteq i + 1 .. j /\ ups \subseteq i + 1 .. j
    <3>1. i + 1 \in Int /\ j \in Int
      BY <1>1
    <3> QED
      BY <3>1, FS_Interval
  <2>2. Level(q, i, j) = Cardinality(names) - Cardinality(ups)
    BY DEF Level
  <2> HIDE DEF names, ups
  <2>3. Cardinality(names) \in Nat /\ Cardinality(ups) \in Nat
    BY <2>1, FS_Subset, FS_CardinalityType
  <2>4. Level(q, i, j) >= 0 <=> ~(Cardinality(ups) > Cardinality(names))
    BY <2>2, <2>3
  <2> QED
    BY <2>4 DEF names, ups
<1>3. kept = K
  <2>1. \A i \in 1 .. Len(q) : ~Undone(q, i) <=> \A j \in i + 1 .. Len(q) : Level(q, i, j) >= 0
    BY <1>2, Zenon DEF Undone
  <2> QED
    BY <1>1, <2>1 DEF Kept
<1>4. ServedNames(q) = Listed(q, K)
  BY <1>3 DEF ServedNames, Listed
<1>5. K \in SUBSET (1 .. Len(q)) /\ IsFiniteSet(K) /\ \A k \in K : IsName(q[k])
  BY <1>1, KeptFinite DEF Kept
<1> HIDE DEF K
<1>6. Cardinality(K) \in Nat /\ K \in SUBSET Nat
  BY <1>1, <1>5, FS_CardinalityType
<1>7. ASSUME NEW n \in 1 .. Cardinality(K) PROVE Nth(K, n) \in K /\ q[Nth(K, n)] \in S
  BY <1>1, <1>5, <1>6, NthHasRank
<1>8. Listed(q, K) \in Seq(S) /\ DOMAIN Listed(q, K) = 1 .. Cardinality(K)
      /\ \A n \in 1 .. Cardinality(K) : Listed(q, K)[n] = q[Nth(K, n)]
  BY <1>6, <1>7 DEF Listed
<1> QED
  BY <1>1, <1>4, <1>5, <1>7, <1>8 DEF K

\* path.Clean leaves the names that are not undone, behind a slash.
LEMMA CleanIsServed ==
    ASSUME NEW S, NEW q \in Seq(S)
    PROVE  Clean(q) = << <<>> >> \o IF ServedNames(q) = <<>> THEN << <<>> >> ELSE ServedNames(q)
<1> DEFINE len == Len(q)
           Is(f) == f = [i \in 0 .. len |-> IF i = 0 THEN <<>> ELSE Entered(f[i - 1], q[i])]
           h == CHOOSE f : Is(f)
           list(m) == Listed(q, Kept(q, m))
           f0 == [m \in 0 .. len |-> list(m)]
<1>1. len \in Nat
  OBVIOUS
<1>2. Clean(q) = << <<>> >> \o IF h[len] = <<>> THEN << <<>> >> ELSE h[len]
  BY DEF Clean, Entered
<1>3. list(0) = <<>>
  BY ListedEmpty
<1>4. \A m \in Nat : m + 1 <= len => list(m + 1) = Entered(list(m), q[m + 1])
  BY EnteredIsListed
<1> HIDE DEF list
<1>5. Is(f0)
  <2>1. ASSUME NEW i \in 0 .. len PROVE f0[i] = IF i = 0 THEN <<>> ELSE Entered(f0[i - 1], q[i])
    <3>1. CASE i = 0
      BY <1>1, <1>3, <3>1
    <3>2. CASE i # 0
      <4>1. i - 1 \in Nat /\ i - 1 \in 0 .. len /\ (i - 1) + 1 = i /\ i <= len
        BY <1>1, <3>2
      <4>2. list(i) = Entered(list(i - 1), q[i])
        BY <1>4, <4>1
      <4> QED
        BY <3>2, <4>1, <4>2
    <3> QED
      BY <3>1, <3>2
  <2> QED
    BY <2>1
<1>6. Is(h)
  <2> HIDE DEF Is, f0
  <2> QED
    BY <1>5
<1> HIDE DEF h
<1>7. h[0] = <<>> /\ \A i \in 1 .. len : h[i] = Entered(h[i - 1], q[i])
  <2>1. \A i \in 0 .. len : h[i] = IF i = 0 THEN <<>> ELSE Entered(h[i - 1], q[i])
    BY <1>6
  <2>2. 0 \in 0 .. len /\ \A i \in 1 .. len : i \in 0 .. len /\ i # 0
    BY <1>1
  <2> QED
    BY <2>1, <2>2
<1> DEFINE Same == {m \in Nat : m <= len => h[m] = list(m)}
<1>8. 0 \in Same
  BY <1>3, <1>7
<1>9. ASSUME NEW m \in Same PROVE m + 1 \in Same
  <2> SUFFICES ASSUME m + 1 <= len PROVE h[m + 1] = list(m + 1)
    BY <1>9
  <2>1. m \in Nat /\ m <= len /\ m + 1 \in 1 .. len /\ (m + 1) - 1 = m
    BY <1>1
  <2>2. h[m] = list(m)
    BY <2>1
  <2>3. h[m + 1] = Entered(h[m], q[m + 1])
    BY <1>7, <2>1
  <2>4. list(m + 1) = Entered(list(m), q[m + 1])
    BY <1>4, <2>1
  <2> QED
    BY <2>2, <2>3, <2>4
<1>10. Same = Nat
  <2>1. Same \in SUBSET Nat
    OBVIOUS
  <2> HIDE DEF Same
  <2> QED
    BY <1>8, <1>9, <2>1, SetInduction
<1>11. h[len] = list(len)
  <2>1. len \in Same
    BY <1>1, <1>10
  <2> QED
    BY <2>1, <1>1
<1>12. ServedNames(q) = list(len)
  BY ServedAreListed DEF list
<1> QED
  BY <1>2, <1>11, <1>12

\* Of segments that are all names behind the first slash, all are kept.
LEMMA NamesAreKept ==
    ASSUME NEW S, NEW path \in Seq(S), NEW n \in 1 .. Len(path), path[1] = <<>>,
           \A i \in 2 .. n : IsName(path[i])
    PROVE  << <<>> >> \o Listed(path, Kept(path, n)) = SubSeq(path, 1, n)
<1> DEFINE list(m) == Listed(path, Kept(path, m))
           Same == {m \in Nat : m + 1 <= n => list(m + 1) = SubSeq(path, 2, m + 1)}
<1>1. n \in Nat \ {0} /\ Len(path) \in Nat /\ n <= Len(path) /\ \A i \in 1 .. n : path[i] \in S
  BY SMT
<1>2. ASSUME NEW m \in Nat, m + 1 <= n PROVE list(m + 1) = Entered(list(m), path[m + 1])
  <2>1. m + 1 <= Len(path)
    BY <1>1, <1>2
  <2> QED
    BY <2>1, EnteredIsListed
<1>3. list(1) = <<>>
  <2>1. list(0) = <<>>
    BY ListedEmpty
  <2> HIDE DEF list
  <2>2. list(0 + 1) = Entered(list(0), path[0 + 1])
    <3>1. 0 \in Nat /\ 0 + 1 <= n
      BY <1>1
    <3> QED
      BY <1>2, <3>1
  <2>3. Entered(<<>>, <<>>) = <<>>
    BY KindsDiffer DEF Entered
  <2>4. 0 + 1 = 1
    OBVIOUS
  <2> QED
    BY <2>1, <2>2, <2>3, <2>4
<1> HIDE DEF list
<1>4. 0 \in Same
  <2>1. SubSeq(path, 2, 0 + 1) = <<>>
    BY SubSeqEmpty
  <2>2. 0 + 1 = 1
    OBVIOUS
  <2> QED
    BY <1>3, <2>1, <2>2
<1>5. ASSUME NEW m \in Same PROVE m + 1 \in Same
  <2> SUFFICES ASSUME m + 2 <= n PROVE list(m + 2) = SubSeq(path, 2, m + 2)
    BY <1>5
  <2>1. m \in Nat /\ m + 1 <= n /\ (m + 1) + 1 = m + 2 /\ (m + 2) - 1 = m + 1
        /\ m + 2 \in 2 .. n /\ 2 \in 1 .. Len(path) /\ m + 2 \in 2 .. Len(path)
    BY <1>1
  <2>2. list(m + 1) = SubSeq(path, 2, m + 1)
    BY <2>1
  <2> HIDE DEF Same
  <2>3. list(m + 2) = Entered(list(m + 1), path[m + 2])
    <3>1. m + 1 \in Nat /\ (m + 1) + 1 <= n
      BY <2>1
    <3>2. list((m + 1) + 1) = Entered(list(m + 1), path[(m + 1) + 1])
      BY <1>2, <3>1
    <3> QED
      BY <2>1, <3>2
  <2>4. path[m + 2] \notin {<<>>, Dot} /\ path[m + 2] # DotDot
    <3>1. IsName(path[m + 2])
      BY <2>1
    <3> QED
      BY <3>1, KindsDiffer
  <2>5. list(m + 2) = Append(SubSeq(path, 2, m + 1), path[m + 2])
    BY <2>2, <2>3, <2>4 DEF Entered
  <2>6. SubSeq(path, 2, m + 2) = Append(SubSeq(path, 2, m + 1), path[m + 2])
    <3>1. SubSeq(path, 2, m + 1) \in Seq(S) /\ path[m + 2] \in S
      BY <1>1, <2>1
    <3>2. SubSeq(path, 2, m + 2) = SubSeq(path, 2, (m + 2) - 1) \o <<path[m + 2]>>
      BY <2>1, SubSeqRecursiveSecond
    <3> QED
      BY <2>1, <3>1, <3>2, AppendIsConcat
  <2> QED
    BY <2>5, <2>6
<1>6. Same = Nat
  <2>1. Same \in SUBSET Nat
    OBVIOUS
  <2> HIDE DEF Same
  <2> QED
    BY <1>4, <1>5, <2>1, SetInduction
<1>7. list(n) = SubSeq(path, 2, n)
  <2>1. n - 1 \in Nat /\ (n - 1) + 1 = n
    BY <1>1
  <2>2. n - 1 \in Same
    BY <1>6, <2>1
  <2> QED
    BY <1>1, <2>1, <2>2
<1>8. SubSeq(path, 1, n) = << path[1] >> \o SubSeq(path, 1 + 1, n)
  <2>1. 1 \in 1 .. Len(path) /\ n \in 1 .. Len(path)
    BY <1>1
  <2> QED
    BY <2>1, SubSeqRecursiveFirst
<1> QED
  BY <1>7, <1>8 DEF list

\* A path that needs no cleaning is its names behind slashes, with or without one at
\* its end.
LEMMA UncleanOrServed ==
    ASSUME NEW S, NEW path \in Seq(S), path # <<>>, path[1] = <<>>, ~Unclean(path)
    PROVE  LET served == << <<>> >> \o ServedNames(path) IN
           /\ (Len(path) = 1 \/ path[Len(path)] # <<>>) => path = served
           /\ (Len(path) # 1 /\ path[Len(path)] = <<>>) => path = Append(served, <<>>)
<1> DEFINE len == Len(path)
<1>1. len \in Nat \ {0} /\ \A i \in 1 .. len : path[i] \in S
  BY SMT
<1>2. \A i \in 2 .. len : path[i] \notin {Dot, DotDot} /\ ~(path[i] = <<>> /\ i < len)
  BY Zenon DEF Unclean
<1>3. ServedNames(path) = Listed(path, Kept(path, len))
  BY ServedAreListed
<1>4. ASSUME len = 1 \/ path[len] # <<>> PROVE path = << <<>> >> \o ServedNames(path)
  <2>1. \A i \in 2 .. len : IsName(path[i])
    <3> SUFFICES ASSUME NEW i \in 2 .. len PROVE path[i] # <<>>
      BY <1>2 DEF IsName
    <3>1. i < len \/ i = len
      BY <1>1
    <3>2. len # 1
      BY <1>1
    <3> QED
      BY <1>2, <1>4, <3>1, <3>2
  <2>2. len \in 1 .. len
    BY <1>1
  <2>3. << <<>> >> \o Listed(path, Kept(path, len)) = SubSeq(path, 1, len)
    BY <2>1, <2>2, NamesAreKept, Zenon
  <2> QED
    BY <1>3, <2>3, SubSeqFull
<1>5. ASSUME len # 1, path[len] = <<>> PROVE path = Append(<< <<>> >> \o ServedNames(path), <<>>)
  <2>1. len - 1 \in 1 .. len /\ (len - 1) + 1 = len /\ len - 1 \in Nat /\ len \in 1 .. len /\ 1 \in 1 .. len
    <3>1. len # 1 /\ len \in Nat \ {0}
      BY <1>1, <1>5
    <3> HIDE DEF len
    <3> QED
      BY <3>1
  <2>2. \A i \in 2 .. len - 1 : IsName(path[i])
    <3> SUFFICES ASSUME NEW i \in 2 .. len - 1 PROVE IsName(path[i])
      OBVIOUS
    <3>1. i \in 2 .. len /\ i < len
      <4>1. len \in Nat
        BY <1>1
      <4> HIDE DEF len
      <4> QED
        BY <4>1
    <3> QED
      BY <1>2, <3>1, Zenon DEF IsName
  <2>3. << <<>> >> \o Listed(path, Kept(path, len - 1)) = SubSeq(path, 1, len - 1)
    BY <2>1, <2>2, NamesAreKept, Zenon
  <2>4. Listed(path, Kept(path, len)) = Listed(path, Kept(path, len - 1))
    <3>1. Listed(path, Kept(path, (len - 1) + 1)) = Entered(Listed(path, Kept(path, len - 1)), path[(len - 1) + 1])
      <4>1. (len - 1) + 1 <= len
        BY <1>1
      <4> QED
        BY <2>1, <4>1, EnteredIsListed
    <3>2. \A s : Entered(s, <<>>) = s
      BY KindsDiffer DEF Entered
    <3> QED
      BY <1>5, <2>1, <3>1, <3>2
  <2>5. path = SubSeq(path, 1, len - 1) \o <<path[len]>>
    BY <2>1, SubSeqFull, SubSeqRecursiveSecond
  <2>6. Append(SubSeq(path, 1, len - 1), path[len]) = SubSeq(path, 1, len - 1) \o <<path[len]>>
    <3>1. SubSeq(path, 1, len - 1) \in Seq(S) /\ path[len] \in S
      BY <1>1, <2>1
    <3> QED
      BY <3>1, AppendIsConcat
  <2> QED
    BY <1>3, <1>5, <2>3, <2>4, <2>5, <2>6, Zenon
<1> QED
  BY <1>4, <1>5

(***************************************************************************)
(* The guard of the configuration file.                                    *)
(***************************************************************************)
\* What a pair is, as a sequence.
LEMMA PairProperties ==
    ASSUME NEW T, NEW a \in T, NEW b \in T
    PROVE  /\ <<a, b>> \in Seq(T) /\ Len(<<a, b>>) = 2 /\ DOMAIN <<a, b>> = 1 .. 2
           /\ <<a, b>>[1] = a /\ <<a, b>>[2] = b
<1>1. <<a, b>> \in Seq(T) /\ Len(<<a, b>>) = 2 /\ <<a, b>>[1] = a /\ <<a, b>>[2] = b
  OBVIOUS
<1> DEFINE s == <<a, b>>
<1> HIDE DEF s
<1>2. s \in Seq(T) /\ Len(s) = 2
  BY <1>1 DEF s
<1>3. DOMAIN s = 1 .. 2
  BY <1>2
<1> QED
  BY <1>1, <1>3 DEF s

\* The characters of the configuration file's name.
ConfigRunes == {"_", "s"}

\* That name.  Nothing but its first character is that in some case.
LEMMA ConfigFacts ==
    /\ ConfigName \in Seq(ConfigRunes) /\ Len(ConfigName) = 2 /\ DOMAIN ConfigName = 1 .. 2
    /\ \A c : FoldRune(c) = FoldRune(ConfigName[1]) => c = ConfigName[1]
    /\ IsName(ConfigName)
<1> DEFINE first == "_"
           second == "s"
<1>1. /\ <<first, second>> \in Seq(ConfigRunes) /\ Len(<<first, second>>) = 2
      /\ DOMAIN <<first, second>> = 1 .. 2
      /\ <<first, second>>[1] = first /\ <<first, second>>[2] = second
  <2>1. first \in ConfigRunes /\ second \in ConfigRunes
    BY Zenon DEF ConfigRunes
  <2> HIDE DEF first, second
  <2> QED
    BY <2>1, PairProperties
<1>2. ConfigName = <<first, second>>
  BY Zenon DEF ConfigName
<1>3. /\ first \notin {"A", "B", "S", "longs"} /\ first \notin {"a", "b", "s"}
      /\ first # "."
  BY Zenon
<1>4. DotDot[1] = "." /\ Len(Dot) = 1 /\ DotDot = <<".", ".">>
  <2>1. \A dot : <<dot, dot>>[1] = dot /\ Len(<<dot>>) = 1
    OBVIOUS
  <2> QED
    BY <2>1, Zenon DEF Dot, DotDot
<1>5. FoldRune(first) = first /\ \A c : FoldRune(c) \in {"a", "b", "s"} \/ FoldRune(c) = c
  BY <1>3, Zenon DEF FoldRune
<1> HIDE DEF first, second
<1>6. \A c : FoldRune(c) = FoldRune(first) => c = first
  BY <1>3, <1>5, Zenon
<1>7. Len(ConfigName) = 2 /\ Len(<<>>) = 0 /\ Len(Dot) = 1 /\ ConfigName[1] = first
  <2>1. Len(<<>>) = 0
    OBVIOUS
  <2> QED
    BY <1>1, <1>2, <1>4, <2>1, Zenon
<1>8. ConfigName # <<>> /\ ConfigName # Dot
  BY <1>7
<1>9. ConfigName # DotDot
  BY <1>3, <1>4, <1>7, Zenon
<1>10. IsName(ConfigName)
  BY <1>8, <1>9, Zenon DEF IsName
<1> QED
  BY <1>1, <1>2, <1>6, <1>10, Zenon

\* A name that is the configuration file's in some case has its two characters, the
\* first as it is.
LEMMA FoldEqualConfig ==
    ASSUME NEW T, NEW w \in Seq(T), FoldEqual(w, ConfigName)
    PROVE  Len(w) = 2 /\ w[1] = ConfigName[1]
<1>1. DOMAIN w = 1 .. Len(w) /\ Len(w) \in Nat /\ DOMAIN ConfigName = 1 .. 2
  BY ConfigFacts
<1>2. FoldKey(w) = FoldKey(ConfigName)
  BY DEF FoldEqual
<1>3. DOMAIN FoldKey(w) = DOMAIN w /\ DOMAIN FoldKey(ConfigName) = DOMAIN ConfigName
  BY DEF FoldKey
<1>4. Len(w) = 2
  <2>1. 1 .. Len(w) = 1 .. 2
    BY <1>1, <1>2, <1>3
  <2> DEFINE n == Len(w)
  <2> HIDE DEF n
  <2>2. n \in Nat /\ 1 .. n = 1 .. 2
    BY <1>1, <2>1 DEF n
  <2>3. 2 \in 1 .. n
    <3>1. 2 \in 1 .. 2
      OBVIOUS
    <3> QED
      BY <2>2, <3>1, Zenon
  <2>4. n \in 1 .. n
    BY <2>2, <2>3
  <2>5. n \in 1 .. 2
    BY <2>2, <2>4, Zenon
  <2>6. n = 2
    BY <2>3, <2>5
  <2> QED
    BY <2>6 DEF n
<1>5. FoldRune(w[1]) = FoldRune(ConfigName[1])
  <2>1. 1 \in DOMAIN w /\ 1 \in DOMAIN ConfigName
    <3>1. DOMAIN w = 1 .. 2 /\ 1 \in 1 .. 2
      BY <1>1, <1>4
    <3> QED
      BY <1>1, <3>1
  <2>2. FoldKey(w)[1] = FoldRune(w[1]) /\ FoldKey(ConfigName)[1] = FoldRune(ConfigName[1])
    BY <2>1 DEF FoldKey
  <2> QED
    BY <1>2, <2>2
<1> QED
  BY <1>4, <1>5, ConfigFacts, Zenon

\* A path with such a part is not one of those that need no look.
LEMMA ConfigIsNoticed ==
    ASSUME NEW T, NEW path \in Seq(Seq(T)), NEW j \in DOMAIN path,
           NEW w \in Seq(T), PartOf(w, path[j]), FoldEqual(w, ConfigName)
    PROVE  ~CannotBeConfig(path) /\ path[j] # <<>>
<1> DEFINE text == path[j]
<1>1. text \in Seq(T) /\ Len(text) \in Nat /\ DOMAIN text = 1 .. Len(text) /\ Len(ConfigName) = 2
  BY ConfigFacts
<1>2. Len(w) = 2 /\ w[1] = ConfigName[1]
  BY FoldEqualConfig
<1> HIDE DEF text
<1>3. PICK from \in 1 .. Len(text) + 2, to \in 0 .. Len(text) : w = SubSeq(text, from, to)
  BY DEF PartOf, text
<1>4. from \in 1 .. Len(text) /\ from + 1 <= Len(text) /\ to = from + 1 /\ w[1] = text[from]
  <2>1. Len(w) = IF from <= to THEN to - from + 1 ELSE 0
    BY <1>1, <1>3
  <2>2. to = from + 1 /\ from \in 1 .. Len(text) /\ from + 1 <= Len(text)
    <3>1. from <= to /\ to - from + 1 = 2
      <4>1. 2 = IF from <= to THEN to - from + 1 ELSE 0
        BY <1>2, <2>1, Zenon
      <4> QED
        BY <4>1
    <3> QED
      BY <1>1, <3>1
  <2>3. w[1] = text[from]
    BY <1>1, <1>3, <2>2
  <2> QED
    BY <2>2, <2>3
<1>5. Contains(text, ConfigName[1])
  BY <1>2, <1>4 DEF Contains
<1>6. ContainsFold(path, ConfigName)
  <2>1. from + Len(ConfigName) - 1 = to /\ to <= Len(text)
    BY <1>1, <1>4
  <2>2. FoldEqual(SubSeq(text, from, from + Len(ConfigName) - 1), ConfigName)
    BY <1>3, <2>1
  <2>3. text[from] = ConfigName[1] /\ from \in DOMAIN text
    BY <1>1, <1>2, <1>4
  <2> QED
    BY <2>1, <2>2, <2>3 DEF ContainsFold, text
<1>7. text # <<>>
  BY <1>1, <1>4
<1> QED
  BY <1>5, <1>6, <1>7 DEF CannotBeConfig, text

\* The path of the configuration file, written as it is, names it.
LEMMA ConfigPathNamesIt ==
    ServedNames(WindowsPath(<< <<>>, ConfigName >>)) = <<ConfigName>>
<1> DEFINE path == << <<>>, ConfigName >>
<1>1. /\ path \in Seq(Seq(ConfigRunes)) /\ Len(path) = 2 /\ DOMAIN path = 1 .. 2
      /\ path[1] = <<>> /\ path[2] = ConfigName /\ path # <<>>
  <2>1. <<>> \in Seq(ConfigRunes) /\ ConfigName \in Seq(ConfigRunes)
    <3>1. <<>> \in Seq(ConfigRunes)
      OBVIOUS
    <3> QED
      BY <3>1, ConfigFacts, Zenon
  <2>2. /\ path \in Seq(Seq(ConfigRunes)) /\ Len(path) = 2 /\ DOMAIN path = 1 .. 2
        /\ path[1] = <<>> /\ path[2] = ConfigName
    BY <2>1, PairProperties
  <2> HIDE DEF path
  <2> QED
    BY <2>2
<1> HIDE DEF path
<1>2. IsName(ConfigName) /\ Len(ConfigName) = 2
  BY ConfigFacts, Zenon
<1>3. ~HasWindowsPathQuirks(path)
  <2>1. \A i \in 1 .. 2 : ConfigName[i] \notin {"\\", ".", " "}
    <3> DEFINE first == "_"
               second == "s"
    <3>1. first \notin {"\\", ".", " "} /\ second \notin {"\\", ".", " "}
      BY Zenon
    <3>2. ConfigName = <<first, second>>
      BY Zenon DEF ConfigName
    <3> HIDE DEF first, second
    <3>3. <<first, second>>[1] = first /\ <<first, second>>[2] = second
          /\ \A i \in 1 .. 2 : i = 1 \/ i = 2
      OBVIOUS
    <3> QED
      BY <3>1, <3>2, <3>3, Zenon
  <2>2. ~Contains(ConfigName, "\\")
    BY <1>2, <2>1, Zenon DEF Contains
  <2>3. \A c : ~Contains(<<>>, c)
    BY DEF Contains
  <2>4. Last(ConfigName) \notin {".", " "}
    <3>1. 2 \in 1 .. 2
      OBVIOUS
    <3> QED
      BY <1>2, <2>1, <3>1, Zenon DEF Last
  <2>5. \A i \in DOMAIN path : path[i] = <<>> \/ path[i] = ConfigName
    BY <1>1
  <2> QED
    BY <2>2, <2>3, <2>4, <2>5, Zenon DEF HasWindowsPathQuirks
<1>4. WindowsPath(path) = path
  BY <1>1, <1>3, WindowsPathParts
<1>5. ~Unclean(path)
  <2>1. \A i \in 2 .. Len(path) : path[i] = ConfigName
    BY <1>1
  <2> QED
    BY <1>2, <2>1, KindsDiffer, Zenon DEF Unclean
<1>6. path = << <<>> >> \o ServedNames(path)
  <2>1. path[Len(path)] # <<>>
    BY <1>1, <1>2
  <2> QED
    BY <1>1, <1>5, <2>1, UncleanOrServed
<1>7. ServedNames(path) \in Seq(Seq(ConfigRunes))
  BY <1>1, ServedAreListed
<1>8. ServedNames(path) = <<ConfigName>>
  <2> DEFINE names == ServedNames(path)
  <2>1. << <<>> >> \o names = path /\ names \in Seq(Seq(ConfigRunes))
    BY <1>6, <1>7
  <2> HIDE DEF names
  <2>2. Len(names) = 1 /\ names[1] = ConfigName
    <3>1. Len(<< <<>> >> \o names) = 1 + Len(names) /\ Len(names) \in Nat
      BY <2>1
    <3>2. Len(names) = 1
      <4> DEFINE len == Len(names)
      <4>1. 2 = 1 + len /\ len \in Nat
        BY <1>1, <2>1, <3>1, Zenon
      <4> HIDE DEF len
      <4>2. len = 1
        BY <4>1
      <4> QED
        BY <4>2 DEF len
    <3>3. (<< <<>> >> \o names)[2] = names[1]
      BY <2>1, <3>2
    <3> QED
      BY <1>1, <2>1, <3>2, <3>3
  <2>3. names = <<ConfigName>>
    BY <2>1, <2>2
  <2> QED
    BY <2>3 DEF names
<1> QED
  BY <1>4, <1>8 DEF path

\* The paths of requests: behind the first slash, whatever they are.
Rooted(path) == path \in Seq(Seq(STRING)) /\ path # <<>> /\ path[1] = <<>>

\* The path, read the way Windows reads it, names the configuration file.
NamesConfig(path) ==
    LET names == ServedNames(WindowsPath(path))
    IN Len(names) = 1 /\ FoldEqual(names[1], ConfigName)

\* The guard with its short cuts refuses exactly the paths that name the file.
LEMMA GuardIsExact ==
    ASSUME NEW path, Rooted(path)
    PROVE  IsProtectedConfigPath(path) <=> NamesConfig(path)
<1> DEFINE q == WindowsPath(path)
           names == ServedNames(q)
           cleaned == Clean(q)
<1>1. /\ q \in Seq(Seq(STRING))
      /\ \A i \in DOMAIN q : \E j \in DOMAIN path : PartOf(q[i], path[j])
  BY WindowsPathParts DEF Rooted
<1>2. /\ names \in Seq(Seq(STRING))
      /\ \A n \in DOMAIN names : \E i \in DOMAIN q : names[n] = q[i]
  <2> HIDE DEF q
  <2> QED
    BY <1>1, ServedAreListed
<1>3. cleaned = << <<>> >> \o IF names = <<>> THEN << <<>> >> ELSE names
  <2> HIDE DEF q
  <2> QED
    BY <1>1, CleanIsServed
<1> HIDE DEF q, names, cleaned
<1>4. (Len(cleaned) = 2 /\ FoldEqual(cleaned[2], ConfigName))
        <=> (Len(names) = 1 /\ FoldEqual(names[1], ConfigName))
  <2>1. CASE names = <<>>
    <3>1. cleaned[2] = <<>> /\ Len(names) = 0
      BY <1>3, <2>1
    <3>2. ~FoldEqual(<<>>, ConfigName)
      <4>1. <<>> \in Seq({}) /\ Len(<<>>) # 2
        OBVIOUS
      <4> QED
        BY <4>1, FoldEqualConfig
    <3> QED
      BY <3>1, <3>2
  <2>2. CASE names # <<>>
    <3>1. Len(names) \in Nat \ {0}
      BY <1>2, <2>2
    <3>2. cleaned = << <<>> >> \o names
      BY <1>3, <2>2
    <3>3. Len(cleaned) = 1 + Len(names) /\ cleaned[2] = names[1]
      BY <1>2, <3>1, <3>2
    <3>4. Len(cleaned) = 2 <=> Len(names) = 1
      BY <3>1, <3>3
    <3> QED
      BY <3>3, <3>4
  <2> QED
    BY <2>1, <2>2
<1>5. ASSUME Len(names) = 1, FoldEqual(names[1], ConfigName)
      PROVE  path # << <<>> >> /\ ~CannotBeConfig(path)
  <2>1. names[1] \in Seq(STRING) /\ 1 \in DOMAIN names
    BY <1>2, <1>5
  <2>2. PICK j \in DOMAIN path : PartOf(names[1], path[j])
    BY <1>1, <1>2, <2>1
  <2>3. ~CannotBeConfig(path) /\ path[j] # <<>>
    BY <1>5, <2>1, <2>2, ConfigIsNoticed DEF Rooted
  <2>4. path # << <<>> >>
    BY <2>3
  <2> QED
    BY <2>3, <2>4
<1>6. ASSUME path = << <<>>, ConfigName >>
      PROVE  Len(names) = 1 /\ FoldEqual(names[1], ConfigName)
  <2>1. names = <<ConfigName>>
    BY <1>6, ConfigPathNamesIt DEF names, q
  <2>2. Len(names) = 1 /\ names[1] = ConfigName
    BY <2>1
  <2> QED
    BY <2>2 DEF FoldEqual
<1>7. IsProtectedConfigPath(path)
        <=> \/ path = << <<>>, ConfigName >>
            \/ /\ path # << <<>> >> /\ ~CannotBeConfig(path)
               /\ Len(cleaned) = 2 /\ FoldEqual(cleaned[2], ConfigName)
  BY Zenon DEF IsProtectedConfigPath, cleaned, q
<1>8. NamesConfig(path) <=> Len(names) = 1 /\ FoldEqual(names[1], ConfigName)
  BY Zenon DEF NamesConfig, names, q
<1> QED
  BY <1>4, <1>5, <1>6, <1>7, <1>8

\* The guard of every request is exact.
Answered ==
    request # Nil =>
        /\ request \in Requests /\ pc \in {"refused", "match", "done"}
        /\ pc = "refused" <=> IsProtectedConfigPath(request.path)

\* Nothing else changes what was decided of a request.
LEMMA AnsweredInvariant == Spec => []Answered
<1>1. Init => Answered
  BY DEF Init, Answered
<1>2. Answered /\ [Next]_vars => Answered'
  <2> SUFFICES ASSUME Answered, [Next]_vars PROVE Answered'
    OBVIOUS
  <2>1. ASSUME NEW r \in Requests, ServeHTTP(r) PROVE Answered'
    BY <2>1 DEF ServeHTTP, Answered
  <2>2. CASE CompileExact \/ CompileWildcard \/ Rank
    BY <2>2 DEF CompileExact, CompileWildcard, Rank, answer, Answered
  <2>3. CASE TakeExact \/ TakeWildcard
    BY <2>3 DEF TakeExact, TakeWildcard, Answered
  <2>4. CASE ApplyHeaders
    BY <2>4 DEF ApplyHeaders, Answered
  <2>5. CASE UNCHANGED vars
    BY <2>5 DEF vars, answer, Answered
  <2> QED
    BY <2>1, <2>2, <2>3, <2>4, <2>5 DEF Next
<1> QED
  BY <1>1, <1>2, PTL DEF Spec

\* Exactly the requests whose path names the configuration file, in any case and as
\* Windows reads it, are refused.
THEOREM ConfigFileRefused == Spec => []ConfigFileIsRefused
<1>1. Answered => ConfigFileIsRefused
  <2> SUFFICES ASSUME Answered, request # Nil
               PROVE  pc = "refused" <=> NamesConfig(request.path)
    BY Zenon DEF ConfigFileIsRefused, NamesConfig
  <2>1. Rooted(request.path)
    BY HeaderAssumption DEF HeaderAssumption, Answered, Rooted
  <2> QED
    BY <2>1, GuardIsExact DEF Answered
<1> QED
  BY <1>1, AnsweredInvariant, PTL

(***************************************************************************)
(* The path the rules are matched against.                                 *)
(***************************************************************************)
\* The path of the file that path.Clean finds, with or without a slash at its end.
ServedAs(path) ==
    LET served == << <<>> >> \o ServedNames(path) IN {served, Append(served, <<>>)}

\* Behind the first slash a path has a segment already, or it gets an empty one.
LEMMA NormalizeLong ==
    ASSUME NEW T, NEW path \in Seq(Seq(T)), path # <<>>, path[1] = <<>>
    PROVE  NormalizePath(path) = IF Len(path) = 1 THEN Append(path, <<>>) ELSE path
<1>1. Len(path) \in Nat \ {0}
  OBVIOUS
<1>2. CASE Len(path) = 1
  <2>1. path = << <<>> >>
    BY <1>2
  <2>2. << <<>> >> \o path = Append(path, <<>>)
    <3>1. <<>> \in Seq(T)
      OBVIOUS
    <3>2. Append(path, <<>>) = path \o << <<>> >>
      BY <3>1, AppendIsConcat
    <3> QED
      BY <2>1, <3>2, Zenon
  <2>3. ~(Len(path) >= 2)
    BY <1>2
  <2> QED
    BY <1>2, <2>2, <2>3 DEF NormalizePath
<1>3. CASE Len(path) # 1
  <2>1. Len(path) >= 2
    <3> DEFINE len == Len(path)
    <3>1. len \in Nat \ {0} /\ len # 1
      BY <1>1, <1>3
    <3> HIDE DEF len
    <3>2. len >= 2
      BY <3>1
    <3> QED
      BY <3>2 DEF len
  <2> QED
    BY <1>3, <2>1 DEF NormalizePath
<1> QED
  BY <1>2, <1>3

\* A slash behind the first one.
LEMMA TwoSlashes ==
    << <<>> >> \o <<>> = << <<>> >> /\ Append(<< <<>> >>, <<>>) = << <<>>, <<>> >>
    /\ << <<>> >> \o << <<>> >> = << <<>>, <<>> >>
<1>1. ASSUME NEW e PROVE <<e>> \o <<>> = <<e>> /\ Append(<<e>>, e) = <<e, e>> /\ <<e>> \o <<e>> = <<e, e>>
  <2>1. <<e>> \in Seq({e}) /\ e \in {e}
    OBVIOUS
  <2>2. <<e>> \o <<>> = <<e>> /\ Append(<<e>>, e) = <<e>> \o <<e>>
    BY <2>1, ConcatEmptySeq, AppendIsConcat
  <2> DEFINE s == Append(<<e>>, e)
             t == <<e, e>>
  <2>3. s \in Seq({e}) /\ Len(s) = 2 /\ t \in Seq({e}) /\ Len(t) = 2
    <3>1. Len(<<e>>) = 1
      OBVIOUS
    <3> QED
      BY <2>1, <3>1, AppendProperties, PairProperties
  <2>4. s = t
    <3> HIDE DEF s, t
    <3>1. DOMAIN s = 1 .. 2 /\ DOMAIN t = 1 .. 2 /\ \A i \in 1 .. 2 : s[i] = e /\ t[i] = e
      BY <2>3
    <3>2. s = [i \in 1 .. 2 |-> s[i]] /\ t = [i \in 1 .. 2 |-> t[i]]
      BY <2>3
    <3> QED
      BY <3>1, <3>2
  <2> QED
    BY <2>2, <2>4
<1> QED
  BY <1>1, Zenon

\* A cleaned path is that of the file.
LEMMA CleanPathIsServed ==
    ASSUME NEW T, NEW path \in Seq(Seq(T))
    PROVE  NormalizePath(CleanPath(path)) \in ServedAs(path)
<1> DEFINE names == ServedNames(path)
           served == << <<>> >> \o names
           cleaned == Clean(path)
<1>1. cleaned = << <<>> >> \o IF names = <<>> THEN << <<>> >> ELSE names
  BY CleanIsServed
<1>2. names \in Seq(Seq(T)) /\ <<>> \in Seq(T)
  BY ServedAreListed
<1>3. CleanPath(path) = cleaned \/ (CleanPath(path) = Append(cleaned, <<>>) /\ cleaned # << <<>>, <<>> >>)
  BY Zenon DEF CleanPath
<1> HIDE DEF names, cleaned
<1>4. CASE names = <<>>
  <2>1. served = << <<>> >> /\ Append(served, <<>>) = << <<>>, <<>> >>
    BY <1>4, TwoSlashes, Zenon
  <2>2. cleaned = << <<>>, <<>> >>
    BY <1>1, <1>4, TwoSlashes, Zenon
  <2>3. CleanPath(path) = cleaned
    BY <1>3, <2>2, Zenon
  <2>4. NormalizePath(cleaned) = cleaned
    <3>1. cleaned \in Seq(Seq(T)) /\ cleaned[1] = <<>> /\ Len(cleaned) = 2
      BY <1>2, <2>2, PairProperties
    <3>2. cleaned # <<>> /\ Len(cleaned) # 1
      <4>1. Len(<<>>) # 2 /\ 1 # 2
        OBVIOUS
      <4> QED
        BY <3>1, <4>1, Zenon
    <3> QED
      BY <3>1, <3>2, NormalizeLong, Zenon
  <2> QED
    BY <2>1, <2>2, <2>3, <2>4, Zenon DEF ServedAs, names
<1>5. CASE names # <<>>
  <2>1. cleaned = served
    BY <1>1, <1>5
  <2>2. Len(names) \in Nat \ {0}
    BY <1>2, <1>5
  <2>3. served \in Seq(Seq(T)) /\ served[1] = <<>> /\ Len(served) = Len(names) + 1
    BY <1>2, <2>2
  <2> HIDE DEF served
  <2>4. /\ Append(served, <<>>) \in Seq(Seq(T)) /\ Append(served, <<>>)[1] = <<>>
        /\ Len(Append(served, <<>>)) = Len(served) + 1
    <3>1. 1 \in 1 .. Len(served)
      BY <2>2, <2>3
    <3> QED
      BY <1>2, <2>3, <3>1, AppendProperties
  <2>5. \A p \in {served, Append(served, <<>>)} : NormalizePath(p) = p
    <3>1. ASSUME NEW p \in {served, Append(served, <<>>)} PROVE NormalizePath(p) = p
      <4>1. Len(served) \notin {0, 1} /\ Len(Append(served, <<>>)) \notin {0, 1}
        <5> DEFINE n == Len(names)
        <5>1. n \in Nat \ {0} /\ Len(served) = n + 1 /\ Len(Append(served, <<>>)) = (n + 1) + 1
          BY <2>2, <2>3, <2>4, Zenon
        <5> HIDE DEF n
        <5>2. n + 1 \notin {0, 1} /\ (n + 1) + 1 \notin {0, 1}
          BY <5>1
        <5> QED
          BY <5>1, <5>2, Zenon
      <4>2. p \in Seq(Seq(T)) /\ p[1] = <<>> /\ Len(p) # 1 /\ Len(p) # 0
        BY <2>3, <2>4, <4>1, Zenon
      <4>3. p # <<>>
        <5>1. Len(<<>>) = 0
          OBVIOUS
        <5> QED
          BY <4>2, <5>1, Zenon
      <4> QED
        BY <4>2, <4>3, NormalizeLong, Zenon
    <3> QED
      BY <3>1
  <2>6. CleanPath(path) \in {served, Append(served, <<>>)}
    BY <1>3, <2>1, Zenon
  <2> QED
    BY <2>5, <2>6, Zenon DEF ServedAs, served, names
<1> QED
  BY <1>4, <1>5

\* What cleanRequestPath makes of the path of a request is that of the file, with the
\* path read the way the file system of the handler reads it.
LEMMA CleanRequestPathIsServed ==
    ASSUME NEW path, Rooted(path), NEW windows \in BOOLEAN
    PROVE  NormalizePath(CleanRequestPath(path, windows))
             \in ServedAs(IF windows THEN WindowsPath(path) ELSE path)
<1>1. path \in Seq(Seq(STRING)) /\ path # <<>> /\ path[1] = <<>>
  BY DEF Rooted
<1>2. /\ WindowsPath(path) \in Seq(Seq(STRING))
      /\ ~HasWindowsPathQuirks(path) => WindowsPath(path) = path
  BY <1>1, WindowsPathParts
<1>3. CASE windows /\ HasWindowsPathQuirks(path)
  <2>1. CleanRequestPath(path, windows) = CleanPath(WindowsPath(path))
    BY <1>3, Zenon DEF CleanRequestPath
  <2> QED
    BY <1>2, <1>3, <2>1, CleanPathIsServed
<1>4. CASE ~(windows /\ HasWindowsPathQuirks(path))
  <2>1. (IF windows THEN WindowsPath(path) ELSE path) = path
    BY <1>2, <1>4, Zenon
  <2>2. CASE Unclean(path)
    <3>1. CleanRequestPath(path, windows) = CleanPath(path)
      BY <1>4, <2>2, Zenon DEF CleanRequestPath
    <3> QED
      BY <1>1, <2>1, <3>1, CleanPathIsServed
  <2>3. CASE ~Unclean(path)
    <3> DEFINE served == << <<>> >> \o ServedNames(path)
    <3>1. CleanRequestPath(path, windows) = path
      BY <1>4, <2>3, Zenon DEF CleanRequestPath
    <3>2. NormalizePath(path) = IF Len(path) = 1 THEN Append(path, <<>>) ELSE path
      BY <1>1, NormalizeLong
    <3>3. /\ (Len(path) = 1 \/ path[Len(path)] # <<>>) => path = served
          /\ (Len(path) # 1 /\ path[Len(path)] = <<>>) => path = Append(served, <<>>)
      BY <1>1, <2>3, UncleanOrServed
    <3>4. NormalizePath(path) \in {served, Append(served, <<>>)}
      BY <3>2, <3>3, Zenon
    <3> QED
      BY <2>1, <3>1, <3>4 DEF ServedAs
  <2> QED
    BY <2>2, <2>3
<1> QED
  BY <1>3, <1>4

\* A request that is matched is matched by that path.
Matched ==
    /\ settings \in Settings
    /\ pc \in {"match", "done"} =>
         /\ request \in Requests
         /\ requestPath = NormalizePath(CleanRequestPath(request.path, settings.windows))

\* Nothing else changes what a request is matched by.
LEMMA MatchedInvariant == Spec => []Matched
<1>1. Init => Matched
  BY DEF Init, Matched
<1>2. Matched /\ [Next]_vars => Matched'
  <2> SUFFICES ASSUME Matched, [Next]_vars PROVE Matched'
    OBVIOUS
  <2>1. ASSUME NEW r \in Requests, ServeHTTP(r) PROVE Matched'
    BY <2>1 DEF ServeHTTP, Matched
  <2>2. CASE CompileExact \/ CompileWildcard \/ Rank
    BY <2>2 DEF CompileExact, CompileWildcard, Rank, answer, Matched
  <2>3. CASE TakeExact \/ TakeWildcard
    BY <2>3 DEF TakeExact, TakeWildcard, Matched
  <2>4. CASE ApplyHeaders
    BY <2>4 DEF ApplyHeaders, Matched
  <2>5. CASE UNCHANGED vars
    BY <2>5 DEF vars, answer, Matched
  <2> QED
    BY <2>1, <2>2, <2>3, <2>4, <2>5 DEF Next
<1> QED
  BY <1>1, <1>2, PTL DEF Spec

\* The rules are matched against the path of the file that is served, with or without
\* a slash at its end, whatever the request wrote it as.
THEOREM RulesMatchServedFile == Spec => []RulesOfTheServedFile
<1>1. Matched => RulesOfTheServedFile
  <2> DEFINE named == IF settings.windows THEN WindowsPath(request.path) ELSE request.path
  <2> SUFFICES ASSUME Matched, pc \in {"match", "done"} PROVE requestPath \in ServedAs(named)
    BY Zenon DEF RulesOfTheServedFile, ServedAs
  <2>1. Rooted(request.path) /\ settings.windows \in BOOLEAN
    BY HeaderAssumption DEF HeaderAssumption, Matched, Rooted
  <2> QED
    BY <2>1, CleanRequestPathIsServed DEF Matched
<1> QED
  BY <1>1, MatchedInvariant, PTL

(***************************************************************************)
(* Lists in an order, which is a set of pairs.                             *)
(***************************************************************************)
\* The list has all members, each once, the earlier ones first.
Ordered(list, members, R) ==
    /\ list \in Seq(members) /\ Range(list) = members
    /\ \A n, m \in DOMAIN list : n < m => <<list[n], list[m]>> \in R

\* The empty list is that of no members.
LEMMA NothingOrdered ==
    ASSUME NEW R, NEW members
    PROVE  /\ Ordered(<<>>, {}, R)
           /\ Ordered(<<>>, members, R) => members = {}
BY DEF Ordered, Range

\* What all members precede is appended.
LEMMA AppendInOrder ==
    ASSUME NEW R, NEW members, NEW list, Ordered(list, members, R), NEW x,
           \A y \in members : <<y, x>> \in R
    PROVE  Ordered(Append(list, x), members \cup {x}, R)
<1> DEFINE more == Append(list, x)
           all == members \cup {x}
<1>1. list \in Seq(all) /\ x \in all
  BY DEF Ordered
<1> HIDE DEF all
<1>2. /\ DOMAIN list = 1 .. Len(list) /\ DOMAIN more = 1 .. Len(list) + 1
      /\ Len(list) \in Nat /\ more \in Seq(all)
      /\ \A k \in 1 .. Len(list) : more[k] = list[k]
      /\ more[Len(list) + 1] = x
  BY <1>1, AppendProperties
<1> HIDE DEF more
<1>3. \A k \in 1 .. Len(list) : list[k] \in members
  BY <1>2 DEF Ordered, Range
<1>4. Range(more) = all
  BY <1>2, <1>3 DEF Ordered, Range, all
<1>5. ASSUME NEW n \in DOMAIN more, NEW m \in DOMAIN more, n < m
      PROVE  <<more[n], more[m]>> \in R
  <2>1. n \in DOMAIN list /\ more[n] = list[n] /\ list[n] \in members
    BY <1>2, <1>3, <1>5
  <2>2. CASE m \in DOMAIN list
    BY <1>2, <1>5, <2>1, <2>2 DEF Ordered
  <2>3. CASE m = Len(list) + 1
    BY <1>2, <2>1, <2>3
  <2> QED
    BY <1>2, <2>2, <2>3
<1> QED
  BY <1>2, <1>4, <1>5 DEF Ordered, more, all

\* The first precedes the others, which are the rest of the list.
LEMMA RestInOrder ==
    ASSUME NEW R, NEW members, NEW list, Ordered(list, members, R), list # <<>>,
           \A y : <<y, y>> \notin R
    PROVE  /\ list[1] \in members
           /\ \A y \in members \ {list[1]} : <<list[1], y>> \in R
           /\ Ordered(Tail(list), members \ {list[1]}, R)
<1> DEFINE rest == Tail(list)
           others == members \ {list[1]}
<1>1. /\ list \in Seq(members) /\ Len(list) \in Nat \ {0} /\ DOMAIN list = 1 .. Len(list)
      /\ Range(list) = members
      /\ \A n, m \in DOMAIN list : n < m => <<list[n], list[m]>> \in R
  BY DEF Ordered
<1>2. /\ rest \in Seq(members) /\ DOMAIN rest = 1 .. Len(list) - 1
      /\ \A k \in 1 .. Len(list) - 1 : rest[k] = list[k + 1]
  BY <1>1
<1>3. list[1] \in members
  BY <1>1
<1>4. ASSUME NEW y \in others PROVE <<list[1], y>> \in R /\ y \in Range(rest)
  <2>1. PICK k \in DOMAIN list : list[k] = y
    BY <1>1 DEF Range
  <2>2. k # 1
    BY <2>1
  <2>3. 1 \in DOMAIN list /\ 1 < k /\ k - 1 \in 1 .. Len(list) - 1 /\ (k - 1) + 1 = k
    BY <1>1, <2>2
  <2>4. rest[k - 1] = y
    BY <1>2, <2>1, <2>3
  <2>5. <<list[1], list[k]>> \in R
    BY <1>1, <2>3
  <2> QED
    BY <1>2, <2>1, <2>3, <2>4, <2>5 DEF Range
<1> HIDE DEF rest
<1>5. ASSUME NEW k \in DOMAIN rest PROVE rest[k] \in others
  <2>1. k + 1 \in DOMAIN list /\ 1 \in DOMAIN list /\ 1 < k + 1 /\ rest[k] = list[k + 1]
    BY <1>1, <1>2, <1>5
  <2>2. <<list[1], list[k + 1]>> \in R
    BY <1>1, <2>1
  <2>3. list[k + 1] # list[1]
    BY <2>2
  <2> QED
    BY <1>1, <2>1, <2>3
<1>6. Range(rest) = others
  BY <1>4, <1>5 DEF Range
<1>7. rest \in Seq(others)
  <2>1. rest = [k \in 1 .. Len(list) - 1 |-> rest[k]] /\ Len(list) - 1 \in Nat
    BY <1>1, <1>2
  <2> HIDE DEF others
  <2> QED
    BY <1>2, <1>5, <2>1
<1>8. ASSUME NEW n \in DOMAIN rest, NEW m \in DOMAIN rest, n < m
      PROVE  <<rest[n], rest[m]>> \in R
  <2>1. /\ n + 1 \in DOMAIN list /\ m + 1 \in DOMAIN list /\ n + 1 < m + 1
        /\ rest[n] = list[n + 1] /\ rest[m] = list[m + 1]
    BY <1>1, <1>2, <1>8
  <2> QED
    BY <1>1, <2>1
<1> QED
  BY <1>3, <1>4, <1>6, <1>7, <1>8 DEF Ordered, rest

\* The list is as long as it has members.
LEMMA LengthOfOrdered ==
    ASSUME NEW R, NEW members, NEW list, Ordered(list, members, R), \A y : <<y, y>> \notin R
    PROVE  DOMAIN list = 1 .. Cardinality(members) /\ IsFiniteSet(members)
<1>1. /\ list \in Seq(members) /\ Len(list) \in Nat /\ DOMAIN list = 1 .. Len(list)
      /\ Range(list) = members
      /\ \A n, m \in DOMAIN list : n < m => <<list[n], list[m]>> \in R
  BY DEF Ordered
<1> DEFINE len == Len(list)
<1>2. ASSUME NEW n \in 1 .. len, NEW m \in 1 .. len, list[n] = list[m] PROVE n = m
  <2>1. ~(n < m) /\ ~(m < n)
    BY <1>1, <1>2
  <2> QED
    BY <2>1
<1>3. list \in [1 .. len -> members]
  BY <1>1
<1>4. list \in Bijection(1 .. len, members)
  <2>1. \A y \in members : \E n \in 1 .. len : list[n] = y
    BY <1>1 DEF Range
  <2> HIDE DEF len
  <2> QED
    BY <1>2, <1>3, <2>1 DEF Bijection, Injection, Surjection, IsInjective
<1>5. ExistsBijection(1 .. len, members)
  BY <1>4 DEF ExistsBijection
<1>6. Cardinality(members) = len /\ IsFiniteSet(members)
  BY <1>1, <1>5, FS_CountingElements, FS_NatBijection
<1> QED
  BY <1>1, <1>6

\* A member and those in front of it.
AtMost(members, i, R) == {j \in members : j = i \/ <<j, i>> \in R}

\* Members numbered by how many are not behind them are in order.
LEMMA RankedInOrder ==
    ASSUME NEW members, IsFiniteSet(members), NEW R,
           \A i \in members : <<i, i>> \notin R,
           \A i, j \in members : i = j \/ <<i, j>> \in R \/ <<j, i>> \in R,
           \A i, j, k \in members : <<i, j>> \in R /\ <<j, k>> \in R => <<i, k>> \in R
    PROVE  Ordered([n \in 1 .. Cardinality(members) |->
                      CHOOSE i \in members : Cardinality(AtMost(members, i, R)) = n], members, R)
<1> DEFINE count == Cardinality(members)
           Number(i) == Cardinality(AtMost(members, i, R))
           Member(n) == CHOOSE i \in members : Number(i) = n
           list == [n \in 1 .. count |-> Member(n)]
<1>1. count \in Nat
  BY FS_CardinalityType
<1>2. ASSUME NEW i \in members PROVE Number(i) \in 1 .. count /\ IsFiniteSet(AtMost(members, i, R))
  <2>1. AtMost(members, i, R) \subseteq members /\ i \in AtMost(members, i, R)
    BY DEF AtMost
  <2>2. IsFiniteSet(AtMost(members, i, R)) /\ Number(i) <= count
    BY <2>1, FS_Subset
  <2>3. Number(i) \in Nat /\ Number(i) # 0
    BY <2>1, <2>2, FS_CardinalityType, FS_EmptySet
  <2> HIDE DEF Number, count
  <2> QED
    BY <1>1, <2>2, <2>3
<1>3. ASSUME NEW i \in members, NEW j \in members, <<i, j>> \in R PROVE Number(i) < Number(j)
  <2>1. AtMost(members, i, R) \subseteq AtMost(members, j, R)
    BY <1>3 DEF AtMost
  <2>2. j \in AtMost(members, j, R) /\ j \notin AtMost(members, i, R)
    <3>1. <<j, i>> \notin R /\ j # i
      BY <1>3
    <3> QED
      BY <3>1 DEF AtMost
  <2>3. /\ IsFiniteSet(AtMost(members, j, R)) /\ Number(i) <= Number(j)
        /\ (Number(i) = Number(j) => AtMost(members, i, R) = AtMost(members, j, R))
    BY <1>2, <2>1, FS_Subset
  <2>4. Number(i) # Number(j) /\ Number(i) \in Nat /\ Number(j) \in Nat
    <3>1. AtMost(members, i, R) # AtMost(members, j, R)
      BY <2>2
    <3> QED
      BY <1>2, <2>3, <3>1
  <2> HIDE DEF Number
  <2> QED
    BY <2>3, <2>4
<1> DEFINE f == [i \in members |-> Number(i)]
<1>4. f \in Injection(members, 1 .. count)
  <2> HIDE DEF Number, count
  <2>1. f \in [members -> 1 .. count]
    BY <1>2
  <2>2. ASSUME NEW i \in members, NEW j \in members, f[i] = f[j] PROVE i = j
    <3>1. Number(i) = Number(j) /\ Number(i) \in Nat
      BY <1>1, <1>2, <2>2
    <3>2. <<i, j>> \notin R /\ <<j, i>> \notin R
      BY <1>3, <3>1
    <3> QED
      BY <3>2
  <2> HIDE DEF f
  <2> QED
    BY <2>1, <2>2 DEF Injection, IsInjective
<1>5. ASSUME NEW n \in 1 .. count PROVE \E i \in members : Number(i) = n
  <2>1. IsFiniteSet(1 .. count) /\ Cardinality(1 .. count) = count
    BY <1>1, FS_Interval
  <2>2. f \in Surjection(members, 1 .. count)
    <3> HIDE DEF f
    <3> QED
      BY <1>4, <2>1, FS_Injection
  <2>3. \E i \in members : f[i] = n
    BY <2>2 DEF Surjection
  <2> HIDE DEF Number
  <2> QED
    BY <2>3
<1> HIDE DEF Number, count
<1>6. ASSUME NEW n \in 1 .. count PROVE Member(n) \in members /\ Number(Member(n)) = n
  BY <1>5
<1>7. ASSUME NEW i \in members PROVE Member(Number(i)) = i
  <2> DEFINE j == Member(Number(i))
  <2>1. j \in members /\ Number(j) = Number(i)
    BY <1>2, <1>6
  <2> HIDE DEF j
  <2>2. <<i, j>> \notin R /\ <<j, i>> \notin R
    <3>1. Number(i) \in Nat
      BY <1>1, <1>2
    <3> QED
      BY <1>3, <2>1, <3>1
  <2>3. j = i
    BY <2>1, <2>2
  <2> QED
    BY <2>3 DEF j
<1> HIDE DEF Member
<1>8. list \in Seq(members) /\ DOMAIN list = 1 .. count
  BY <1>1, <1>6
<1>9. Range(list) = members
  <2>1. \A n \in DOMAIN list : list[n] \in members
    BY <1>6
  <2>2. \A i \in members : Number(i) \in DOMAIN list /\ list[Number(i)] = i
    BY <1>2, <1>7
  <2> HIDE DEF list
  <2> QED
    BY <2>1, <2>2 DEF Range
<1>10. ASSUME NEW n \in DOMAIN list, NEW m \in DOMAIN list, n < m
       PROVE  <<list[n], list[m]>> \in R
  <2> DEFINE i == Member(n)
             j == Member(m)
  <2>1. /\ i \in members /\ j \in members /\ Number(i) = n /\ Number(j) = m
        /\ n \in Nat /\ m \in Nat /\ list[n] = i /\ list[m] = j
    BY <1>1, <1>6, <1>8
  <2> HIDE DEF i, j, list
  <2>2. i # j
    BY <1>10, <2>1
  <2>3. <<j, i>> \notin R
    BY <1>3, <1>10, <2>1
  <2> QED
    BY <2>1, <2>2, <2>3
<1>11. list = [n \in 1 .. count |-> CHOOSE i \in members : Cardinality(AtMost(members, i, R)) = n]
  BY Zenon DEF list, Member, Number
<1> HIDE DEF list
<1>12. Ordered(list, members, R)
  BY <1>8, <1>9, <1>10 DEF Ordered
<1> QED
  BY <1>11, <1>12 DEF count

(***************************************************************************)
(* The patterns of the rules.                                              *)
(***************************************************************************)
\* What is in front of the first of some characters is a start of the text.
LEMMA BeforeIsStart ==
    ASSUME NEW T, NEW text \in Seq(T), NEW chars
    PROVE  \E n \in 0 .. Len(text) : Before(text, chars) = SubSeq(text, 1, n)
<1> DEFINE found == {i \in DOMAIN text : text[i] \in chars /\ (i = 1 \/ text[i - 1] # "%")}
           Is(n) == (n = Len(text) \/ n + 1 \in found) /\ \A i \in found : n < i
<1>1. Len(text) \in Nat /\ found \in SUBSET (1 .. Len(text))
  OBVIOUS
<1>2. \E n \in 0 .. Len(text) : Is(n)
  <2> HIDE DEF found
  <2>1. CASE found = {}
    BY <1>1, <2>1
  <2>2. CASE found # {}
    <3>1. found \in SUBSET Nat
      BY <1>1
    <3>2. PICK i \in found : \A j \in found : i <= j
      BY <2>2, <3>1, LeastNatural
    <3>3. i - 1 \in 0 .. Len(text) /\ (i - 1) + 1 = i /\ \A j \in found : i - 1 < j
      BY <1>1, <3>2
    <3> QED
      BY <3>2, <3>3
  <2> QED
    BY <2>1, <2>2
<1> DEFINE n == CHOOSE n \in 0 .. Len(text) : Is(n)
<1>3. n \in 0 .. Len(text)
  <2> HIDE DEF Is
  <2> QED
    BY <1>2
<1>4. Before(text, chars) = SubSeq(text, 1, n)
  BY DEF Before
<1> HIDE DEF n
<1> QED
  BY <1>3, <1>4

\* The text up to there, and the rest of it, are texts.
LEMMA BeforeType ==
    ASSUME NEW T, NEW text \in Seq(T), NEW chars
    PROVE  Before(text, chars) \in Seq(T) /\ From(text, chars) \in Seq(T)
<1>1. PICK n \in 0 .. Len(text) : Before(text, chars) = SubSeq(text, 1, n)
  BY BeforeIsStart
<1>2. Before(text, chars) \in Seq(T) /\ Len(text) \in Nat
  BY <1>1
<1>3. Len(Before(text, chars)) \in Nat /\ Len(Before(text, chars)) <= Len(text)
  BY <1>1
<1>4. From(text, chars) \in Seq(T)
  <2>1. \A m \in Nat : SubSeq(text, m + 1, Len(text)) \in Seq(T)
    BY <1>2
  <2> QED
    BY <1>3, <2>1 DEF From
<1> QED
  BY <1>2, <1>4

\* So is a text without the "%"s of its percent-encoding.
LEMMA UnescapeType ==
    ASSUME NEW T, NEW text \in Seq(T)
    PROVE  Unescape(text) \in Seq(T)
<1> DEFINE kept == [i \in DOMAIN text |-> IF text[i] = "%" THEN <<>> ELSE <<text[i]>>]
<1>1. kept \in Seq(Seq(T))
  <2>1. \A i \in DOMAIN text : kept[i] \in Seq(T)
    <3>1. \A i \in DOMAIN text : <<>> \in Seq(T) /\ <<text[i]>> \in Seq(T)
      OBVIOUS
    <3> QED
      BY <3>1
  <2>2. kept \in [1 .. Len(text) -> Seq(T)] /\ Len(text) \in Nat
    BY <2>1
  <2> HIDE DEF kept
  <2> QED
    BY <2>2
<1>2. FlattenSeq(kept) \in Seq(T)
  BY <1>1, FlattenType
<1>3. Unescape(text) = text \/ Unescape(text) = FlattenSeq(kept)
  BY DEF Unescape
<1> QED
  BY <1>2, <1>3

\* The path of a pattern is a list of texts.
LEMMA PathOfPattern ==
    ASSUME NEW T, "/" \in T, NEW pattern \in Seq(T), pattern # <<>>
    PROVE  ExtractPath(pattern) \in Seq(Seq(T)) /\ ExtractPath(pattern) # <<>>
<1> DEFINE path == Before(From(Tail(pattern), {"/", "?", "#"}), {"?", "#"})
           text == IF ~Absolute(pattern) THEN pattern
                   ELSE IF path = <<>> THEN <<"/">> ELSE Unescape(path)
<1>1. Tail(pattern) \in Seq(T)
  OBVIOUS
<1>2. path \in Seq(T)
  BY <1>1, BeforeType
<1>3. Unescape(path) \in Seq(T) /\ <<"/">> \in Seq(T)
  BY <1>2, UnescapeType
<1>4. text \in Seq(T)
  BY <1>3
<1>5. ExtractPath(pattern) = SplitAt(text, "/")
  BY DEF ExtractPath
<1> HIDE DEF text
<1> QED
  BY <1>4, <1>5, SplitParts

\* What a pattern consists of.
Char == STRING \cup {"/"}

\* What a rule is compiled to.
LEMMA PatternOfText ==
    ASSUME NEW n \in Names, NEW fold \in BOOLEAN
    PROVE  /\ ExtractPath(Texts[n].pattern) \in Seq(Seq(Char))
           /\ ExtractPath(Texts[n].pattern) # <<>>
           /\ Compiled[n][fold].pattern = [CompilePattern(ExtractPath(Texts[n].pattern)) EXCEPT !.fold = fold]
           /\ Compiled[n][fold].pattern.raw = ExtractPath(Texts[n].pattern)
           /\ Compiled[n][fold].specificity = Specificity(ExtractPath(Texts[n].pattern))
<1> DEFINE raw == ExtractPath(Texts[n].pattern)
<1>1. Texts[n].pattern \in Seq(STRING) /\ Texts[n].pattern # <<>>
  BY RuleAssumption DEF RuleAssumption, ValidPattern
<1>2. raw \in Seq(Seq(Char)) /\ raw # <<>>
  <2>1. "/" \in Char /\ Texts[n].pattern \in Seq(Char)
    BY <1>1, Levels, Zenon DEF Char
  <2> QED
    BY <1>1, <2>1, PathOfPattern, Zenon
<1>3. Compiled[n][fold] = Compile(Texts[n], fold)
  BY DEF Compiled
<1>4. /\ Compile(Texts[n], fold).pattern = [CompilePattern(raw) EXCEPT !.fold = fold]
      /\ Compile(Texts[n], fold).specificity = Specificity(raw)
  BY DEF Compile
<1>5. [CompilePattern(raw) EXCEPT !.fold = fold].raw = raw
  BY DEF CompilePattern
<1> QED
  BY <1>2, <1>3, <1>4, <1>5, Zenon

\* The score of a pattern is a number.
LEMMA SpecificityType ==
    ASSUME NEW T, NEW raw \in Seq(Seq(T)), raw # <<>>
    PROVE  Specificity(raw) \in Nat
<1> DEFINE blank == [i \in Placeholders(raw) |-> <<>>]
           some == [i \in DOMAIN raw |->
                      IF i \in Placeholders(raw) THEN blank[i]
                      ELSE FlattenSeq([j \in DOMAIN raw[i] |-> IF raw[i][j] = "*" THEN <<>>
                                                               ELSE <<raw[i][j]>>])]
           T2 == T \cup {"/"}
<1>1. ASSUME NEW i \in DOMAIN raw PROVE some[i] \in Seq(T2)
  <2>1. CASE i \in Placeholders(raw)
    BY <2>1
  <2>2. CASE i \notin Placeholders(raw)
    <3> DEFINE kept == [j \in DOMAIN raw[i] |-> IF raw[i][j] = "*" THEN <<>> ELSE <<raw[i][j]>>]
    <3>1. raw[i] \in Seq(T)
      OBVIOUS
    <3>2. \A j \in DOMAIN raw[i] : <<>> \in Seq(T2) /\ <<raw[i][j]>> \in Seq(T2)
      <4>1. \A j \in DOMAIN raw[i] : raw[i][j] \in T2
        BY <3>1
      <4> QED
        BY <4>1
    <3>k. DOMAIN raw[i] = 1 .. Len(raw[i]) /\ Len(raw[i]) \in Nat
      BY <3>1
    <3>3. kept \in [1 .. Len(raw[i]) -> Seq(T2)] /\ Len(raw[i]) \in Nat
      <4> HIDE DEF T2
      <4> QED
        BY <3>2, <3>k
    <3> HIDE DEF kept, T2
    <3>4. kept \in Seq(Seq(T2))
      BY <3>3
    <3>5. FlattenSeq(kept) \in Seq(T2)
      BY <3>4, FlattenType
    <3>6. some[i] = FlattenSeq(kept)
      BY <2>2 DEF kept
    <3> QED
      BY <3>5, <3>6
  <2> QED
    BY <2>1, <2>2
<1>2. Fill(raw, blank, <<>>) = Joined(some)
  BY DEF Fill
<1> HIDE DEF some
<1>3. DOMAIN some = 1 .. Len(raw) /\ Len(raw) \in Nat \ {0}
  BY DEF some
<1>4. some \in Seq(Seq(T2)) /\ some # <<>>
  <2>1. \A i \in 1 .. Len(raw) : some[i] \in Seq(T2)
    BY <1>1
  <2>2. some = [i \in 1 .. Len(raw) |-> some[i]]
    BY <1>3 DEF some
  <2> HIDE DEF T2
  <2>3. some \in Seq(Seq(T2))
    BY <1>3, <2>1, <2>2
  <2> QED
    BY <1>3, <2>3
<1>5. Joined(some) \in Seq(T2)
  <2>1. "/" \in T2
    OBVIOUS
  <2> HIDE DEF T2
  <2> QED
    BY <1>4, <2>1, SlashedJoined
<1>6. Len(Joined(some)) \in Nat
  BY <1>5
<1>7. LiteralLen(raw) \in Nat
  BY <1>2, <1>6 DEF LiteralLen
<1> QED
  BY <1>7 DEF Specificity

\* What the index takes for the key of a path.
KeyOf(segments, fold) == IF fold THEN FoldPath(segments) ELSE segments

\* An exact pattern matches the paths that have its key.
LEMMA ExactMatchesKey ==
    ASSUME NEW T, NEW raw \in Seq(Seq(T)), NEW path \in Seq(Seq(T)), NEW fold \in BOOLEAN,
           NEW p, p = [CompilePattern(raw) EXCEPT !.fold = fold], Exact(p)
    PROVE  Match(p, path) <=> KeyOf(raw, fold) = KeyOf(path, fold)
<1>1. /\ p.fold = fold /\ p.hasSplat = CompilePattern(raw).hasSplat
      /\ p.head = CompilePattern(raw).head
  BY DEF CompilePattern
<1>2. ~CompilePattern(raw).hasSplat
  BY <1>1 DEF Exact
<1>3. Starless(raw)
  <2>1. {i \in DOMAIN raw : Contains(raw[i], "*")} = {}
    BY <1>2 DEF CompilePattern
  <2>2. DOMAIN raw = 1 .. Len(raw)
    OBVIOUS
  <2> QED
    BY <2>1, <2>2 DEF Contains, Starless
<1>4. p.head = Segments(raw)
  BY <1>1, <1>3, CompileStarless
<1>5. /\ DOMAIN raw = 1 .. Len(raw) /\ Len(raw) \in Nat
      /\ DOMAIN path = 1 .. Len(path) /\ Len(path) \in Nat
  OBVIOUS
<1>6. /\ DOMAIN p.head = 1 .. Len(raw) /\ Len(p.head) = Len(raw)
      /\ \A i \in 1 .. Len(raw) : p.head[i] = PatternSegment(raw[i])
  BY <1>4, <1>5 DEF Segments
<1>7. ASSUME NEW i \in 1 .. Len(raw)
      PROVE  p.head[i].slot = NoSlot /\ p.head[i].literal = raw[i]
  <2>1. p.head[i].slot \in Slots(p)
    BY <1>6 DEF Slots
  <2>2. PatternSegment(raw[i]).literal = raw[i]
    BY DEF PatternSegment
  <2>3. Slots(p) \subseteq {NoSlot}
    BY DEF Exact
  <2> QED
    BY <1>6, <2>1, <2>2, <2>3
<1> DEFINE Same(i) == path[i] = raw[i] \/ (fold /\ FoldEqual(path[i], raw[i]))
<1>8. ASSUME NEW i \in 1 .. Len(raw) PROVE SegmentMatch(p, p.head[i], path[i]) <=> Same(i)
  BY <1>1, <1>7, Zenon DEF SegmentMatch
<1>9. Match(p, path) <=> Len(path) = Len(raw) /\ \A i \in 1 .. Len(raw) : Same(i)
  BY <1>1, <1>2, <1>6, <1>8 DEF Match, HeadMatches
<1>10. CASE fold
  <2>1. \A i \in 1 .. Len(raw) : Same(i) <=> FoldKey(path[i]) = FoldKey(raw[i])
    BY <1>10 DEF FoldEqual
  <2>2. /\ FoldPath(raw) = [i \in 1 .. Len(raw) |-> FoldKey(raw[i])]
        /\ FoldPath(path) = [i \in 1 .. Len(path) |-> FoldKey(path[i])]
    BY <1>5 DEF FoldPath
  <2>3. FoldPath(raw) = FoldPath(path) =>
          Len(path) = Len(raw) /\ \A i \in 1 .. Len(raw) : FoldKey(path[i]) = FoldKey(raw[i])
    <3> SUFFICES ASSUME FoldPath(raw) = FoldPath(path)
                 PROVE  Len(path) = Len(raw) /\ \A i \in 1 .. Len(raw) : FoldKey(path[i]) = FoldKey(raw[i])
      OBVIOUS
    <3>1. /\ FoldPath(raw) \in [1 .. Len(raw) -> {FoldKey(raw[i]) : i \in 1 .. Len(raw)}]
          /\ FoldPath(path) \in [1 .. Len(path) -> {FoldKey(path[i]) : i \in 1 .. Len(path)}]
      BY <2>2
    <3>2. DOMAIN FoldPath(raw) = 1 .. Len(raw) /\ DOMAIN FoldPath(path) = 1 .. Len(path)
      BY <3>1
    <3>3. Len(path) = Len(raw)
      <4>1. ASSUME NEW a \in Nat, NEW b \in Nat, 1 .. a = 1 .. b PROVE a = b
        <5>1. a # 0 => a \in 1 .. b
          BY <4>1
        <5>2. b # 0 => b \in 1 .. a
          BY <4>1
        <5> QED
          BY <5>1, <5>2
      <4>2. 1 .. Len(path) = 1 .. Len(raw)
        BY <3>2
      <4> QED
        BY <1>5, <4>1, <4>2
    <3>4. \A i \in 1 .. Len(raw) : FoldPath(raw)[i] = FoldKey(raw[i]) /\ FoldPath(path)[i] = FoldKey(path[i])
      BY <2>2, <3>3
    <3> QED
      BY <3>3, <3>4
  <2>4. Len(path) = Len(raw) /\ (\A i \in 1 .. Len(raw) : FoldKey(path[i]) = FoldKey(raw[i]))
          => FoldPath(raw) = FoldPath(path)
    BY <2>2
  <2> HIDE DEF Same
  <2> QED
    BY <1>9, <1>10, <2>1, <2>3, <2>4 DEF KeyOf
<1>11. CASE ~fold
  <2>1. (Len(path) = Len(raw) /\ \A i \in 1 .. Len(raw) : path[i] = raw[i]) <=> raw = path
    BY <1>5, SeqEqual
  <2> QED
    BY <1>9, <1>11, <2>1 DEF KeyOf
<1> QED
  BY <1>10, <1>11

(***************************************************************************)
(* The operations of the rules.                                            *)
(***************************************************************************)
Modes == {"set", "remove", "append"}

\* An operation on a header that is known, and a list of them, with any values.
OpsWith(V) == [name : HeaderNames, value : V, mode : Modes]

IsOps(list) == \E V : list \in Seq(OpsWith(V))

\* One more operation.
LEMMA AppendOp ==
    ASSUME NEW list, IsOps(list), NEW V, NEW op \in OpsWith(V)
    PROVE  IsOps(Append(list, op))
<1>1. PICK W : list \in Seq(OpsWith(W))
  BY DEF IsOps
<1> DEFINE S == OpsWith(W)
           B == OpsWith(V \cup W)
<1>2. S \subseteq B /\ op \in B
  BY DEF OpsWith
<1> HIDE DEF S
<1>3. list \in Seq(B)
  <2>1. list \in Seq(S)
    BY <1>1 DEF S
  <2> HIDE DEF B
  <2> QED
    BY <1>2, <2>1, SeqMonotonic
<1>4. Append(list, op) \in Seq(B)
  <2> HIDE DEF B
  <2> QED
    BY <1>2, <1>3, AppendProperties
<1> QED
  BY <1>4 DEF IsOps

\* Another value of one of them.
LEMMA ChangeValue ==
    ASSUME NEW list, IsOps(list), NEW k \in DOMAIN list, NEW v
    PROVE  IsOps([list EXCEPT ![k].value = v])
<1>1. PICK W : list \in Seq(OpsWith(W))
  BY DEF IsOps
<1> DEFINE B == OpsWith(W \cup {v})
           more == [list EXCEPT ![k].value = v]
<1>2. /\ DOMAIN list = 1 .. Len(list) /\ Len(list) \in Nat
      /\ \A j \in 1 .. Len(list) : list[j] \in OpsWith(W)
  BY <1>1
<1>3. more = [j \in 1 .. Len(list) |-> IF j = k THEN [list[k] EXCEPT !.value = v] ELSE list[j]]
  BY <1>2
<1>4. \A j \in 1 .. Len(list) : list[j] \in B /\ [list[j] EXCEPT !.value = v] \in B
  BY <1>2 DEF OpsWith
<1>5. more \in Seq(B)
  <2> HIDE DEF B, more
  <2>1. \A j \in 1 .. Len(list) : (IF j = k THEN [list[k] EXCEPT !.value = v] ELSE list[j]) \in B
    BY <1>4
  <2>2. more \in [1 .. Len(list) -> B]
    BY <1>3, <2>1
  <2> QED
    BY <1>2, <2>2
<1> QED
  BY <1>5 DEF IsOps

\* What a rule says is a list of operations, and so is what is merged of it.
LEMMA MergedType ==
    ASSUME NEW V, NEW source \in Seq(OpsWith(V))
    PROVE  IsOps(MergeRepeated(source))
<1> DEFINE len == Len(source)
           Op == OpsWith(V)
           Current(merged, name) ==
               {k \in DOMAIN merged : /\ merged[k].name = name /\ merged[k].mode = "set"
                                      /\ \A j \in k + 1 .. Len(merged) :
                                           merged[j].name = name => merged[j].mode # "remove"}
           Merge(merged, op) ==
               IF op.mode = "remove" \/ Current(merged, op.name) = {} THEN Append(merged, op)
               ELSE IF op.name = SetCookie THEN Append(merged, [op EXCEPT !.mode = "append"])
               ELSE [merged EXCEPT ![CHOOSE k \in Current(merged, op.name) : TRUE].value =
                       @ \o Literal(Comma) \o op.value]
           Is(f) == f = [k \in 0 .. len |-> IF k = 0 THEN <<>> ELSE Merge(f[k - 1], source[k])]
           result == CHOOSE f : Is(f)
<1>1. MergeRepeated(source) = result[len]
  BY Zenon DEF MergeRepeated
<1>2. len \in Nat /\ \A k \in 1 .. len : source[k] \in Op
  <2> HIDE DEF Op
  <2>1. source \in Seq(Op)
    BY DEF Op
  <2> QED
    BY <2>1
<1>3. ASSUME NEW merged, IsOps(merged), NEW op \in Op PROVE IsOps(Merge(merged, op))
  <2>1. CASE op.mode = "remove" \/ Current(merged, op.name) = {}
    <3>1. Merge(merged, op) = Append(merged, op)
      BY <2>1, Zenon
    <3> HIDE DEF Merge
    <3> QED
      BY <1>3, <3>1, AppendOp
  <2>2. CASE ~(op.mode = "remove" \/ Current(merged, op.name) = {}) /\ op.name = SetCookie
    <3>1. Merge(merged, op) = Append(merged, [op EXCEPT !.mode = "append"])
      BY <2>2, Zenon
    <3>2. [op EXCEPT !.mode = "append"] \in Op
      BY DEF Modes, OpsWith
    <3> HIDE DEF Merge
    <3> QED
      BY <1>3, <3>1, <3>2, AppendOp
  <2>3. CASE ~(op.mode = "remove" \/ Current(merged, op.name) = {}) /\ op.name # SetCookie
    <3> DEFINE k == CHOOSE k \in Current(merged, op.name) : TRUE
               v == merged[k].value \o Literal(Comma) \o op.value
    <3>1. k \in DOMAIN merged
      <4>1. k \in Current(merged, op.name)
        BY <2>3, Zenon
      <4> QED
        BY <4>1
    <3>2. Merge(merged, op) = [merged EXCEPT ![k].value = @ \o Literal(Comma) \o op.value]
      BY <2>3, Zenon
    <3> HIDE DEF k
    <3>3. Merge(merged, op) = [merged EXCEPT ![k].value = v]
      BY <3>2
    <3> HIDE DEF v, Merge
    <3>4. IsOps([merged EXCEPT ![k].value = v])
      BY <1>3, <3>1, ChangeValue
    <3> QED
      BY <3>3, <3>4, Zenon
  <2> QED
    BY <2>1, <2>2, <2>3
<1> HIDE DEF Merge
<1> DEFINE Up(n, f) == /\ f = [k \in 0 .. n |-> f[k]] /\ f[0] = <<>>
                       /\ \A k \in 1 .. n : f[k] = Merge(f[k - 1], source[k])
           S == {n \in Nat : n <= len => \E f : Up(n, f)}
<1>4. 0 \in S
  <2> DEFINE f == [k \in 0 .. 0 |-> <<>>]
  <2>1. f = [k \in 0 .. 0 |-> f[k]] /\ f[0] = <<>> /\ 1 .. 0 = {}
    OBVIOUS
  <2> HIDE DEF f
  <2>2. Up(0, f)
    BY <2>1
  <2> HIDE DEF Up
  <2> QED
    BY <2>2
<1>5. ASSUME NEW n \in S PROVE n + 1 \in S
  <2> SUFFICES ASSUME n + 1 <= len PROVE \E f : Up(n + 1, f)
    BY <1>5
  <2>0. n \in Nat /\ n <= len
    BY <1>2
  <2>1. PICK f : Up(n, f)
    BY <1>5, <2>0
  <2> DEFINE g == [k \in 0 .. n + 1 |-> IF k = n + 1 THEN Merge(f[n], source[n + 1]) ELSE f[k]]
  <2>2. g = [k \in 0 .. n + 1 |-> g[k]] /\ g[0] = <<>>
    BY <2>0, <2>1
  <2>3. ASSUME NEW k \in 1 .. n + 1 PROVE g[k] = Merge(g[k - 1], source[k])
    <3>1. CASE k = n + 1
      <4>1. k - 1 = n /\ n \in 0 .. n + 1 /\ n # n + 1 /\ k \in 0 .. n + 1
        BY <2>0, <3>1
      <4>2. g[k] = Merge(f[n], source[n + 1]) /\ g[k - 1] = f[n]
        BY <3>1, <4>1
      <4> QED
        BY <3>1, <4>2
    <3>2. CASE k # n + 1
      <4>1. k \in 1 .. n /\ k \in 0 .. n + 1 /\ k - 1 \in 0 .. n + 1 /\ k - 1 # n + 1
        BY <2>0, <3>2
      <4>2. g[k] = f[k] /\ g[k - 1] = f[k - 1]
        BY <3>2, <4>1
      <4> QED
        BY <2>1, <4>1, <4>2
    <3> QED
      BY <3>1, <3>2
  <2> HIDE DEF g
  <2>4. Up(n + 1, g)
    BY <2>2, <2>3
  <2> HIDE DEF Up
  <2> QED
    BY <2>4
<1>6. S = Nat
  <2>1. S \in SUBSET Nat
    OBVIOUS
  <2> HIDE DEF S
  <2> QED
    BY <1>4, <1>5, <2>1, SetInduction
<1>7. Is(result)
  <2>1. PICK f : Up(len, f)
    <3>1. len \in S
      BY <1>2, <1>6
    <3> HIDE DEF Up
    <3> QED
      BY <1>2, <3>1
  <2>2. \A k \in 0 .. len : f[k] = IF k = 0 THEN <<>> ELSE Merge(f[k - 1], source[k])
    <3>1. \A k \in 0 .. len : k # 0 => k \in 1 .. len
      BY <1>2
    <3> QED
      BY <2>1, <3>1
  <2>3. Is(f)
    BY <2>1, <2>2
  <2> HIDE DEF Is
  <2> QED
    BY <2>3
<1>8. ASSUME NEW k \in 0 .. len
      PROVE  result[k] = IF k = 0 THEN <<>> ELSE Merge(result[k - 1], source[k])
  BY <1>7
<1> HIDE DEF result, Is, S
<1> DEFINE R == {n \in Nat : n <= len => IsOps(result[n])}
<1>9. 0 \in R
  <2>1. 0 \in 0 .. len
    BY <1>2
  <2>2. result[0] = <<>>
    BY <1>8, <2>1
  <2>3. IsOps(<<>>)
    <3>1. <<>> \in Seq(OpsWith(V))
      BY EmptySeq
    <3> QED
      BY <3>1 DEF IsOps
  <2> QED
    BY <2>2, <2>3
<1>10. ASSUME NEW n \in R PROVE n + 1 \in R
  <2> SUFFICES ASSUME n + 1 <= len PROVE IsOps(result[n + 1])
    BY <1>10
  <2>1. n \in Nat /\ n + 1 \in 0 .. len /\ n + 1 # 0 /\ (n + 1) - 1 = n /\ n + 1 \in 1 .. len
    BY <1>2
  <2>2. IsOps(result[n])
    BY <1>2, <2>1
  <2>3. result[n + 1] = Merge(result[n], source[n + 1])
    BY <1>8, <2>1
  <2> QED
    BY <1>2, <1>3, <2>1, <2>2, <2>3
<1>11. R = Nat
  <2>1. R \in SUBSET Nat
    OBVIOUS
  <2> HIDE DEF R
  <2> QED
    BY <1>9, <1>10, <2>1, SetInduction
<1>12. len \in R
  BY <1>2, <1>11
<1> QED
  BY <1>1, <1>2, <1>12

\* Other values of all of them.
LEMMA ChangeValues ==
    ASSUME NEW list, IsOps(list), NEW v
    PROVE  IsOps([k \in DOMAIN list |-> [list[k] EXCEPT !.value = v[k]]])
<1>1. PICK W : list \in Seq(OpsWith(W))
  BY DEF IsOps
<1> DEFINE B == OpsWith({v[k] : k \in DOMAIN list})
           more == [k \in DOMAIN list |-> [list[k] EXCEPT !.value = v[k]]]
<1>2. /\ DOMAIN list = 1 .. Len(list) /\ Len(list) \in Nat
      /\ \A j \in 1 .. Len(list) : list[j] \in OpsWith(W)
  BY <1>1
<1>3. \A j \in 1 .. Len(list) : [list[j] EXCEPT !.value = v[j]] \in B
  BY <1>2 DEF OpsWith
<1>4. more = [j \in 1 .. Len(list) |-> [list[j] EXCEPT !.value = v[j]]]
  BY <1>2
<1>5. more \in Seq(B)
  <2> HIDE DEF B
  <2> QED
    BY <1>2, <1>3, <1>4
<1> QED
  BY <1>5 DEF IsOps

\* What a rule does is a list of operations, merged or not.
LEMMA CompiledOps ==
    ASSUME NEW n \in Names, NEW fold \in BOOLEAN
    PROVE  IsOps(Compiled[n][fold].ops) /\ IsOps(Compiled[n][fold].dedupOps)
<1> DEFINE raw == ExtractPath(Texts[n].pattern)
           p == [CompilePattern(raw) EXCEPT !.fold = fold]
           source == Texts[n].ops
           len == Len(source)
           compiledOps == CompileOps(source, p)
           V == {CompileTemplate(source[k].value, p) : k \in DOMAIN source}
           Op == OpsWith(V)
<1>1. source \in Seq([name : STRING, value : Seq(STRING), mode : {"set", "remove"}])
  BY RuleAssumption DEF RuleAssumption
<1>2. /\ len \in Nat /\ DOMAIN source = 1 .. len
      /\ \A k \in 1 .. len : source[k] \in [name : STRING, value : Seq(STRING), mode : {"set", "remove"}]
  <2> DEFINE Written == [name : STRING, value : Seq(STRING), mode : {"set", "remove"}]
  <2>1. source \in Seq(Written)
    BY <1>1
  <2> HIDE DEF Written, source
  <2>2. len \in Nat /\ DOMAIN source = 1 .. len /\ \A k \in 1 .. len : source[k] \in Written
    BY <2>1
  <2> QED
    BY <2>2 DEF Written
<1>3. \A k \in 1 .. len : source[k].name \in HeaderNames
  BY <1>2 DEF HeaderNames
<1>4. \A k \in 1 .. len : [source[k] EXCEPT !.value = CompileTemplate(source[k].value, p)] \in Op
  <2> TAKE k \in 1 .. len
  <2>1. CompileTemplate(source[k].value, p) \in V
    BY <1>2
  <2> HIDE DEF V, source, p
  <2> QED
    BY <1>2, <1>3, <2>1 DEF OpsWith, Modes
<1>5. compiledOps = [k \in 1 .. len |-> [source[k] EXCEPT !.value = CompileTemplate(source[k].value, p)]]
  <2> HIDE DEF p
  <2> QED
    BY <1>2 DEF CompileOps
<1>6. compiledOps \in Seq(Op)
  <2> HIDE DEF Op, p, source
  <2> QED
    BY <1>2, <1>4, <1>5
<1>7. Compiled[n][fold].ops = compiledOps /\ Compiled[n][fold].dedupOps = MergeRepeated(compiledOps)
  <2>1. Compiled[n][fold] = Compile(Texts[n], fold)
    BY DEF Compiled
  <2>2. /\ Compile(Texts[n], fold).ops = compiledOps
        /\ Compile(Texts[n], fold).dedupOps = MergeRepeated(compiledOps)
    BY DEF Compile
  <2> HIDE DEF compiledOps
  <2> QED
    BY <2>1, <2>2
<1> HIDE DEF compiledOps, Op
<1>8. IsOps(compiledOps)
  BY <1>6 DEF IsOps, Op
<1>9. IsOps(MergeRepeated(compiledOps))
  BY <1>6, MergedType DEF Op
<1> QED
  BY <1>7, <1>8, <1>9

\* So is what is added to the operations of a request.
LEMMA ExpandedOps ==
    ASSUME rules \in Seq(Names), settings \in [dedup : BOOLEAN, fold : BOOLEAN, windows : BOOLEAN],
           NEW i \in DOMAIN rules
    PROVE  IsOps(ExpandOps(i))
<1> DEFINE source == IF settings.dedup THEN Rule(i).dedupOps ELSE Rule(i).ops
           captured == Capture(Rule(i).pattern, requestPath)
           v == [k \in DOMAIN source |-> Expand(source[k].value, captured)]
<1>1. rules[i] \in Names /\ settings.fold \in BOOLEAN
  OBVIOUS
<1>2. IsOps(source)
  BY <1>1, CompiledOps DEF Rule
<1>3. ExpandOps(i) = [k \in DOMAIN source |-> [source[k] EXCEPT !.value = Expand(@, captured)]]
  BY Zenon DEF ExpandOps
<1> HIDE DEF source, captured
<1>4. ExpandOps(i) = [k \in DOMAIN source |-> [source[k] EXCEPT !.value = v[k]]]
  BY <1>3
<1> HIDE DEF v
<1>5. ASSUME NEW w PROVE IsOps([k \in DOMAIN source |-> [source[k] EXCEPT !.value = w[k]]])
  BY <1>2, ChangeValues
<1>6. IsOps([k \in DOMAIN source |-> [source[k] EXCEPT !.value = v[k]]])
  BY <1>5
<1> QED
  BY <1>4, <1>6, Zenon

(***************************************************************************)
(* The indexes of the rules.                                               *)
(***************************************************************************)
\* The orders of the two indexes.
FileOrder == {pair \in Position \X Position : pair[1] < pair[2]}

RankOrder == {pair \in Position \X Position : RankedBefore(pair[1], pair[2])}

\* The rules indexed so far.
ExactAt(key) == {i \in 1 .. compiled : Exact(Rule(i).pattern) /\ Key(Rule(i).pattern.raw) = key}

NotExact == {i \in 1 .. compiled : ~Exact(Rule(i).pattern)}

\* Every rule that was looked at is in one list, once, and the lists are in order.
Indexed ==
    /\ rules \in Files /\ settings \in Settings
    /\ compiled \in 0 .. Len(rules)
    /\ pc # "compile" => compiled = Len(rules)
    /\ \A key : Ordered(AtKey(key), ExactAt(key), FileOrder)
    /\ Ordered(wildcards, NotExact, FileOrder)
    /\ pc # "compile" => Ordered(bySpecificity, NotExact, RankOrder)

\* What the rules and the settings are.
LEMMA RulesType ==
    ASSUME rules \in Files, settings \in Settings
    PROVE  /\ rules \in Seq(Names) /\ Len(rules) \in Nat /\ DOMAIN rules = Position
           /\ settings \in [dedup : BOOLEAN, fold : BOOLEAN, windows : BOOLEAN]
           /\ \A i \in Position : rules[i] \in Names
<1>1. rules \in Seq(Names)
  BY RuleAssumption DEF RuleAssumption
<1>2. settings \in [dedup : BOOLEAN, fold : BOOLEAN, windows : BOOLEAN]
  BY HeaderAssumption DEF HeaderAssumption
<1> QED
  BY <1>1, <1>2 DEF Position

\* The score of a rule is a number.
LEMMA RuleScore ==
    ASSUME rules \in Files, settings \in Settings, NEW i \in Position
    PROVE  Rule(i).specificity \in Nat
<1>1. rules[i] \in Names /\ settings.fold \in BOOLEAN
  BY RulesType
<1> DEFINE raw == ExtractPath(Texts[rules[i]].pattern)
<1>2. raw \in Seq(Seq(Char)) /\ raw # <<>> /\ Rule(i).specificity = Specificity(raw)
  BY <1>1, PatternOfText DEF Rule
<1> HIDE DEF raw
<1> QED
  BY <1>2, SpecificityType

\* No rule is in front of itself in the file.
LEMMA FileIsOrder ==
    ASSUME rules \in Files, settings \in Settings
    PROVE  \A y : <<y, y>> \notin FileOrder
<1>1. \A i \in Position : i \in Nat
  BY RulesType DEF Position
<1>2. \A i \in Position : ~(i < i)
  <2>1. \A i \in Nat : ~(i < i)
    OBVIOUS
  <2> QED
    BY <1>1, <2>1
<1> QED
  BY <1>2 DEF FileOrder

\* Of two rules one is in front of the other.
LEMMA RankIsOrder ==
    ASSUME rules \in Files, settings \in Settings
    PROVE  /\ \A i \in Position : <<i, i>> \notin RankOrder
           /\ \A i, j \in Position : i = j \/ <<i, j>> \in RankOrder \/ <<j, i>> \in RankOrder
           /\ \A i, j, k \in Position :
                <<i, j>> \in RankOrder /\ <<j, k>> \in RankOrder => <<i, k>> \in RankOrder
<1>1. \A i \in Position : Rule(i).specificity \in Nat /\ i \in Nat
  BY RuleScore, RulesType DEF Position
<1> DEFINE score == [i \in Position |-> Rule(i).specificity]
<1>2. \A i \in Position : score[i] \in Nat
  BY <1>1
<1>3. \A i, j \in Position : <<i, j>> \in RankOrder <=> score[i] < score[j] \/ (score[i] = score[j] /\ i < j)
  BY DEF RankOrder, RankedBefore
<1> HIDE DEF score
<1>4. \A i, j \in Position : i = j \/ i < j \/ j < i
  BY <1>1
<1>5. \A i \in Position : <<i, i>> \notin RankOrder
  BY <1>1, <1>2, <1>3
<1>6. ASSUME NEW i \in Position, NEW j \in Position, i # j
      PROVE  <<i, j>> \in RankOrder \/ <<j, i>> \in RankOrder
  <2>1. \A a, b \in Nat : a < b \/ b < a \/ a = b
    OBVIOUS
  <2>2. score[i] < score[j] \/ score[j] < score[i] \/ score[i] = score[j]
    BY <1>2, <2>1
  <2>3. i < j \/ j < i
    BY <1>4, <1>6
  <2> QED
    BY <1>3, <2>2, <2>3
<1>7. ASSUME NEW i \in Position, NEW j \in Position, NEW k \in Position,
             <<i, j>> \in RankOrder, <<j, k>> \in RankOrder
      PROVE  <<i, k>> \in RankOrder
  BY <1>1, <1>2, <1>3, <1>7
<1> QED
  BY <1>5, <1>6, <1>7

\* Nothing else changes the indexes.
LEMMA IndexStays ==
    ASSUME Indexed, UNCHANGED <<rules, settings, compiled, index>>,
           pc' # "compile" => pc # "compile"
    PROVE  Indexed'
<1>1. FileOrder' = FileOrder /\ RankOrder' = RankOrder /\ NotExact' = NotExact
  BY DEF FileOrder, RankOrder, Position, NotExact, Rule, RankedBefore
<1>2. ASSUME NEW key PROVE AtKey(key)' = AtKey(key) /\ ExactAt(key)' = ExactAt(key)
  BY DEF AtKey, ExactAt, Rule, Key, index
<1>3. \A key : Ordered(AtKey(key)', ExactAt(key)', FileOrder')
  BY <1>1, <1>2 DEF Indexed
<1> QED
  BY <1>1, <1>3 DEF Indexed, index

\* The next rule is behind those indexed so far.
LEMMA NextIsLast ==
    ASSUME Indexed, compiled < Len(rules)
    PROVE  /\ compiled + 1 \in Position /\ compiled + 1 \in Nat
           /\ \A i \in 1 .. compiled : <<i, compiled + 1>> \in FileOrder
           /\ \A i : i \in 1 .. compiled + 1 <=> i \in 1 .. compiled \/ i = compiled + 1
<1>1. compiled \in Nat /\ Len(rules) \in Nat
  BY RulesType DEF Indexed
<1> QED
  BY <1>1 DEF FileOrder, Position

\* An exact rule is indexed.
LEMMA IndexedExact ==
    ASSUME Indexed, CompileExact
    PROVE  Indexed'
<1> DEFINE next == compiled + 1
           at == Key(Rule(next).pattern.raw)
<1>1. /\ pc = "compile" /\ compiled < Len(rules) /\ Exact(Rule(next).pattern)
      /\ compiled' = next /\ UNCHANGED <<rules, settings, wildcards, bySpecificity, pc>>
  BY DEF CompileExact
<1>2. /\ next \in Position /\ next \in Nat
      /\ \A i \in 1 .. compiled : <<i, next>> \in FileOrder
      /\ \A i : i \in 1 .. next <=> i \in 1 .. compiled \/ i = next
  BY <1>1, NextIsLast
<1>3. FileOrder' = FileOrder /\ RankOrder' = RankOrder /\ \A i : Rule(i)' = Rule(i)
  BY <1>1 DEF FileOrder, RankOrder, Position, Rule, RankedBefore
<1>4. NotExact' = NotExact
  <2>1. \A i : i \in NotExact' <=> i \in 1 .. next /\ ~Exact(Rule(i).pattern)
    BY <1>1 DEF NotExact, Rule
  <2>2. \A i : i \in NotExact' <=> i \in NotExact
    BY <1>1, <1>2, <2>1 DEF NotExact
  <2> QED
    BY <2>2
<1>5. ASSUME NEW key PROVE Ordered(AtKey(key)', ExactAt(key)', FileOrder)
  <2>1. Ordered(AtKey(key), ExactAt(key), FileOrder)
    BY DEF Indexed
  <2>2. exactPaths' = [k \in DOMAIN exactPaths \cup {at} |->
                         IF k = at THEN Append(AtKey(k), next) ELSE exactPaths[k]]
    BY DEF CompileExact, NextRule
  <2>3. \A i : i \in ExactAt(key)' <=> /\ i \in 1 .. next /\ Exact(Rule(i).pattern)
                                      /\ Key(Rule(i).pattern.raw) = key
    BY <1>1 DEF ExactAt, Rule, Key
  <2>4. CASE key = at
    <3>1. AtKey(key)' = Append(AtKey(key), next)
      BY <2>2, <2>4 DEF AtKey
    <3>2. ExactAt(key)' = ExactAt(key) \cup {next}
      <4>1. \A i : i \in ExactAt(key)' <=> i \in ExactAt(key) \cup {next}
        BY <1>1, <1>2, <2>3, <2>4 DEF ExactAt
      <4> QED
        BY <4>1
    <3>3. \A y \in ExactAt(key) : <<y, next>> \in FileOrder
      BY <1>2 DEF ExactAt
    <3>4. Ordered(Append(AtKey(key), next), ExactAt(key) \cup {next}, FileOrder)
      BY <2>1, <3>3, AppendInOrder
    <3> QED
      BY <3>1, <3>2, <3>4
  <2>5. CASE key # at
    <3>1. AtKey(key)' = AtKey(key)
      BY <2>2, <2>5 DEF AtKey
    <3>2. ExactAt(key)' = ExactAt(key)
      <4>1. \A i : i \in ExactAt(key)' <=> i \in ExactAt(key)
        BY <1>1, <1>2, <2>3, <2>5 DEF ExactAt
      <4> QED
        BY <4>1
    <3> QED
      BY <2>1, <3>1, <3>2
  <2> QED
    BY <2>4, <2>5
<1>6. \A key : Ordered(AtKey(key)', ExactAt(key)', FileOrder')
  BY <1>3, <1>5
<1>7. Ordered(wildcards, NotExact, FileOrder)'
  BY <1>1, <1>3, <1>4 DEF Indexed
<1>8. rules \in Files /\ settings \in Settings /\ next \in 0 .. Len(rules)
  BY <1>1, <1>2 DEF Indexed, Position
<1> QED
  BY <1>1, <1>6, <1>7, <1>8 DEF Indexed

\* A rule with a wildcard is indexed.
LEMMA IndexedWildcard ==
    ASSUME Indexed, CompileWildcard
    PROVE  Indexed'
<1> DEFINE next == compiled + 1
<1>1. /\ pc = "compile" /\ compiled < Len(rules) /\ ~Exact(Rule(next).pattern)
      /\ compiled' = next /\ wildcards' = Append(wildcards, next)
      /\ UNCHANGED <<rules, settings, exactPaths, bySpecificity, pc>>
  BY DEF CompileWildcard, NextRule
<1>2. /\ next \in Position /\ next \in Nat
      /\ \A i \in 1 .. compiled : <<i, next>> \in FileOrder
      /\ \A i : i \in 1 .. next <=> i \in 1 .. compiled \/ i = next
  BY <1>1, NextIsLast
<1>3. FileOrder' = FileOrder /\ RankOrder' = RankOrder
  BY <1>1 DEF FileOrder, RankOrder, Position, Rule, RankedBefore
<1>4. NotExact' = NotExact \cup {next}
  <2>1. \A i : i \in NotExact' <=> i \in 1 .. next /\ ~Exact(Rule(i).pattern)
    BY <1>1 DEF NotExact, Rule
  <2>2. \A i : i \in NotExact' <=> i \in NotExact \cup {next}
    BY <1>1, <1>2, <2>1 DEF NotExact
  <2> QED
    BY <2>2
<1>5. ASSUME NEW key PROVE AtKey(key)' = AtKey(key) /\ ExactAt(key)' = ExactAt(key)
  <2>1. \A i : i \in ExactAt(key)' <=> /\ i \in 1 .. next /\ Exact(Rule(i).pattern)
                                      /\ Key(Rule(i).pattern.raw) = key
    BY <1>1 DEF ExactAt, Rule, Key
  <2>2. \A i : i \in ExactAt(key)' <=> i \in ExactAt(key)
    BY <1>1, <1>2, <2>1 DEF ExactAt
  <2> QED
    BY <1>1, <2>2 DEF AtKey
<1>6. \A key : Ordered(AtKey(key)', ExactAt(key)', FileOrder')
  BY <1>3, <1>5 DEF Indexed
<1>7. Ordered(Append(wildcards, next), NotExact \cup {next}, FileOrder)
  <2>1. Ordered(wildcards, NotExact, FileOrder) /\ \A y \in NotExact : <<y, next>> \in FileOrder
    BY <1>2 DEF Indexed, NotExact
  <2> QED
    BY <2>1, AppendInOrder
<1>8. Ordered(wildcards, NotExact, FileOrder)'
  BY <1>1, <1>3, <1>4, <1>7
<1>9. rules \in Files /\ settings \in Settings /\ next \in 0 .. Len(rules)
  BY <1>1, <1>2 DEF Indexed, Position
<1> QED
  BY <1>1, <1>6, <1>8, <1>9 DEF Indexed

\* The rules with a wildcard are ranked.
LEMMA IndexedByRank ==
    ASSUME Indexed, Rank
    PROVE  Indexed'
<1>1. /\ pc = "compile" /\ compiled = Len(rules) /\ pc' = "ready"
      /\ UNCHANGED <<rules, settings, compiled, exactPaths, wildcards>>
  BY DEF Rank
<1>2. FileOrder' = FileOrder /\ RankOrder' = RankOrder /\ NotExact' = NotExact
  BY <1>1 DEF FileOrder, RankOrder, Position, Rule, RankedBefore, NotExact
<1>3. \A key : AtKey(key)' = AtKey(key) /\ ExactAt(key)' = ExactAt(key)
  BY <1>1 DEF AtKey, ExactAt, Rule, Key
<1>4. \A key : Ordered(AtKey(key)', ExactAt(key)', FileOrder')
  BY <1>2, <1>3 DEF Indexed
<1>5. NotExact \subseteq Position
  BY <1>1 DEF NotExact, Position
<1>6. /\ Range(wildcards) = NotExact /\ IsFiniteSet(NotExact)
      /\ DOMAIN wildcards = 1 .. Cardinality(NotExact)
  <2>1. Ordered(wildcards, NotExact, FileOrder)
    BY DEF Indexed
  <2>2. \A y : <<y, y>> \notin FileOrder
    BY FileIsOrder DEF Indexed
  <2> QED
    BY <2>1, <2>2, LengthOfOrdered DEF Ordered
<1>7. \A i \in NotExact : RankedUpTo(NotExact, i) = AtMost(NotExact, i, RankOrder)
  <2>1. \A i, j \in NotExact : <<j, i>> \in RankOrder <=> RankedBefore(j, i)
    BY <1>5 DEF RankOrder
  <2> QED
    BY <2>1, Zenon DEF RankedUpTo, AtMost
<1>8. bySpecificity' = [n \in 1 .. Cardinality(NotExact) |->
                          CHOOSE i \in NotExact : Cardinality(AtMost(NotExact, i, RankOrder)) = n]
  BY <1>6, <1>7 DEF Rank
<1>9. Ordered(bySpecificity', NotExact, RankOrder)
  <2>1. rules \in Files /\ settings \in Settings
    BY DEF Indexed
  <2> QED
    BY <1>5, <1>6, <1>8, <2>1, RankIsOrder, RankedInOrder
<1>10. Ordered(wildcards, NotExact, FileOrder)'
  BY <1>1, <1>2 DEF Indexed
<1>11. Ordered(bySpecificity, NotExact, RankOrder)'
  BY <1>2, <1>9
<1> QED
  BY <1>1, <1>4, <1>10, <1>11 DEF Indexed

\* Every index there is was built so.
LEMMA IndexedInvariant == Spec => []Indexed
<1>1. Init => Indexed
  <2> SUFFICES ASSUME Init PROVE Indexed
    OBVIOUS
  <2>1. rules \in Files /\ settings \in Settings /\ compiled = 0 /\ pc = "compile"
        /\ exactPaths = <<>> /\ wildcards = <<>>
    BY DEF Init
  <2>2. 1 .. 0 = {} /\ DOMAIN <<>> = {}
    OBVIOUS
  <2>3. \A key : AtKey(key) = <<>> /\ ExactAt(key) = {}
    BY <2>1, <2>2 DEF AtKey, ExactAt
  <2>4. NotExact = {}
    BY <2>1, <2>2 DEF NotExact
  <2>5. compiled \in 0 .. Len(rules)
    BY <2>1, RulesType
  <2> QED
    BY <2>1, <2>3, <2>4, <2>5, NothingOrdered DEF Indexed
<1>2. Indexed /\ [Next]_vars => Indexed'
  <2> SUFFICES ASSUME Indexed, [Next]_vars PROVE Indexed'
    OBVIOUS
  <2>1. ASSUME NEW r \in Requests, ServeHTTP(r) PROVE Indexed'
    BY <2>1, IndexStays DEF ServeHTTP
  <2>2. CASE CompileExact
    BY <2>2, IndexedExact
  <2>3. CASE CompileWildcard
    BY <2>3, IndexedWildcard
  <2>4. CASE Rank
    BY <2>4, IndexedByRank
  <2>5. CASE TakeExact \/ TakeWildcard
    BY <2>5, IndexStays DEF TakeExact, TakeWildcard
  <2>6. CASE ApplyHeaders
    BY <2>6, IndexStays DEF ApplyHeaders
  <2>7. CASE UNCHANGED vars
    BY <2>7, IndexStays DEF vars
  <2> QED
    BY <2>1, <2>2, <2>3, <2>4, <2>5, <2>6, <2>7 DEF Next
<1> QED
  BY <1>1, <1>2, PTL DEF Spec

(***************************************************************************)
(* Collecting the operations of a request.                                 *)
(***************************************************************************)
\* The order in which rules are looked at.
AnswerOrder == {pair \in Position \X Position : Earlier(pair[1], pair[2])}

\* The rules that are for the request, and those still to be looked at.
Selected == {i \in Position : HostAllows(i) /\ Match(Rule(i).pattern, requestPath)}

Left == Range(exact) \cup Range(wild)

OpsOf(order) == FlattenSeq([n \in DOMAIN order |-> ExpandOps(order[n])])

\* What is left is behind what was taken, and all of that was taken.
Collected ==
    pc \in {"match", "done"} =>
        /\ Left \subseteq Position
        /\ Ordered(exact, Range(exact), AnswerOrder)
        /\ Ordered(wild, Range(wild), AnswerOrder)
        /\ \A i \in Range(exact) : Exact(Rule(i).pattern) /\ Match(Rule(i).pattern, requestPath)
        /\ \A i \in Range(wild) : ~Exact(Rule(i).pattern)
        /\ \E order : Ordered(order, Selected \ Left, AnswerOrder) /\ ops = OpsOf(order)
        /\ \A i \in Selected \ Left, j \in Left : <<i, j>> \in AnswerOrder
        /\ pc = "done" => exact = <<>> /\ wild = <<>>

\* A list in an order is in every order that has its pairs.
LEMMA OrderedToo ==
    ASSUME NEW R, NEW Q, NEW members, NEW list, Ordered(list, members, R),
           \A x, y \in members : <<x, y>> \in R => <<x, y>> \in Q
    PROVE  Ordered(list, members, Q)
<1>1. \A n \in DOMAIN list : list[n] \in members
  BY DEF Ordered, Range
<1> QED
  BY <1>1 DEF Ordered

\* The first of what is left goes to the end of what was taken.
LEMMA TakeNext ==
    ASSUME NEW S, NEW L, NEW R, NEW order, Ordered(order, S \ L, R),
           \A i \in S \ L, j \in L : <<i, j>> \in R,
           NEW x \in L, \A j \in L \ {x} : <<x, j>> \in R
    PROVE  /\ Ordered(IF x \in S THEN Append(order, x) ELSE order, S \ (L \ {x}), R)
           /\ \A i \in S \ (L \ {x}), j \in L \ {x} : <<i, j>> \in R
<1>1. CASE x \in S
  <2>1. S \ (L \ {x}) = (S \ L) \cup {x}
    BY <1>1
  <2>2. \A y \in S \ L : <<y, x>> \in R
    OBVIOUS
  <2>3. Ordered(Append(order, x), (S \ L) \cup {x}, R)
    BY <2>2, AppendInOrder
  <2> QED
    BY <1>1, <2>1, <2>3
<1>2. CASE x \notin S
  <2>1. S \ (L \ {x}) = S \ L
    BY <1>2
  <2> QED
    BY <1>2, <2>1
<1> QED
  BY <1>1, <1>2

\* One more rule adds its operations.
LEMMA OpsOfAppend ==
    ASSUME rules \in Files, settings \in Settings, NEW order \in Seq(Position), NEW x \in Position
    PROVE  OpsOf(Append(order, x)) = OpsOf(order) \o ExpandOps(x)
<1> DEFINE T == UNION {Range(ExpandOps(i)) : i \in Position}
           lists == [n \in DOMAIN order |-> ExpandOps(order[n])]
           more == Append(order, x)
<1>1. ASSUME NEW i \in Position PROVE ExpandOps(i) \in Seq(T)
  <2>1. IsOps(ExpandOps(i))
    BY RulesType, ExpandedOps
  <2> DEFINE e == ExpandOps(i)
  <2>2. PICK V : e \in Seq(OpsWith(V))
    BY <2>1 DEF IsOps
  <2>3. Range(e) \subseteq T
    OBVIOUS
  <2> HIDE DEF e, T
  <2>4. e \in Seq(Range(e))
    <3>1. e \in [1 .. Len(e) -> Range(e)] /\ Len(e) \in Nat
      BY <2>2 DEF Range
    <3> QED
      BY <3>1
  <2>5. e \in Seq(T)
    BY <2>3, <2>4, SeqMonotonic
  <2> QED
    BY <2>5 DEF e
<1> HIDE DEF T
<1>2. /\ Len(order) \in Nat /\ DOMAIN order = 1 .. Len(order)
      /\ \A n \in 1 .. Len(order) : order[n] \in Position
  OBVIOUS
<1>3. lists \in Seq(Seq(T)) /\ Len(lists) = Len(order)
  BY <1>1, <1>2
<1>4. /\ DOMAIN more = 1 .. Len(order) + 1
      /\ \A n \in 1 .. Len(order) : more[n] = order[n]
      /\ more[Len(order) + 1] = x
  BY AppendProperties
<1>5. [n \in DOMAIN more |-> ExpandOps(more[n])] = Append(lists, ExpandOps(x))
  <2> DEFINE longer == Append(lists, ExpandOps(x))
  <2>1. ExpandOps(x) \in Seq(T)
    BY <1>1
  <2>2. /\ longer \in Seq(Seq(T)) /\ Len(longer) = Len(order) + 1
        /\ \A n \in 1 .. Len(order) : longer[n] = lists[n]
        /\ longer[Len(order) + 1] = ExpandOps(x)
    <3> HIDE DEF lists
    <3> QED
      BY <1>3, <2>1, AppendProperties
  <2>3. longer = [n \in 1 .. Len(order) + 1 |-> longer[n]]
    <3> HIDE DEF longer
    <3> QED
      BY <2>2
  <2>4. \A n \in 1 .. Len(order) + 1 : longer[n] = ExpandOps(more[n])
    <3> TAKE n \in 1 .. Len(order) + 1
    <3>1. CASE n = Len(order) + 1
      BY <1>4, <2>2, <3>1
    <3>2. CASE n \in 1 .. Len(order)
      <4>1. lists[n] = ExpandOps(order[n])
        BY <1>2, <3>2
      <4> HIDE DEF longer, lists, more
      <4> QED
        BY <1>4, <2>2, <3>2, <4>1
    <3> QED
      BY <1>2, <3>1, <3>2
  <2> HIDE DEF longer, more
  <2> QED
    BY <1>4, <2>3, <2>4 DEF longer
<1>6. FlattenSeq(Append(lists, ExpandOps(x))) = FlattenSeq(lists) \o ExpandOps(x)
  <2> HIDE DEF lists
  <2> QED
    BY <1>1, <1>3, FlattenAppend
<1> QED
  BY <1>5, <1>6 DEF OpsOf, lists, more

\* Nothing is collected of no rules.
LEMMA OpsOfNone == OpsOf(<<>>)' = <<>>
<1>1. [n \in DOMAIN <<>> |-> ExpandOps(<<>>[n])'] = <<>>
  OBVIOUS
<1> QED
  BY <1>1, FlattenEmpty DEF OpsOf

\* The path of the file is a list of texts.
LEMMA ServedPathType ==
    ASSUME NEW path, Rooted(path), NEW windows \in BOOLEAN
    PROVE  NormalizePath(CleanRequestPath(path, windows)) \in Seq(Seq(Char))
<1> DEFINE q == IF windows THEN WindowsPath(path) ELSE path
           names == ServedNames(q)
           served == << <<>> >> \o names
           S == Seq(STRING)
<1>1. q \in Seq(Seq(STRING))
  BY WindowsPathParts DEF Rooted
<1>2. names \in Seq(S) /\ <<>> \in S
  <2> HIDE DEF q
  <2> QED
    BY <1>1, ServedAreListed
<1>3. NormalizePath(CleanRequestPath(path, windows)) \in {served, Append(served, <<>>)}
  BY CleanRequestPathIsServed, Zenon DEF ServedAs
<1>4. served \in Seq(S) /\ Append(served, <<>>) \in Seq(S)
  <2> HIDE DEF names, S
  <2>1. << <<>> >> \in Seq(S)
    BY <1>2
  <2>2. served \in Seq(S)
    BY <1>2, <2>1, ConcatProperties
  <2> HIDE DEF served
  <2> QED
    BY <1>2, <2>2, AppendProperties
<1>5. Seq(S) \subseteq Seq(Seq(Char))
  BY Levels DEF Char
<1> HIDE DEF served, S
<1> QED
  BY <1>3, <1>4, <1>5

\* The order of two rules depends on which of them has a wildcard.
LEMMA AnswerOrderIs ==
    ASSUME rules \in Files, settings \in Settings
    PROVE  /\ \A y : <<y, y>> \notin AnswerOrder
           /\ \A i, j \in Position : <<i, j>> \in AnswerOrder <=>
                IF ~settings.dedup \/ (Exact(Rule(i).pattern) /\ Exact(Rule(j).pattern)) THEN i < j
                ELSE ~Exact(Rule(i).pattern) /\ (Exact(Rule(j).pattern) \/ RankedBefore(i, j))
<1>1. \A i, j \in Position : <<i, j>> \in AnswerOrder <=> Earlier(i, j)
  BY DEF AnswerOrder
<1>2. ASSUME NEW i \in Position PROVE ~(i < i) /\ ~RankedBefore(i, i)
  <2>1. <<i, i>> \notin FileOrder /\ <<i, i>> \notin RankOrder
    BY FileIsOrder, RankIsOrder
  <2> QED
    BY <2>1 DEF FileOrder, RankOrder
<1>3. \A i \in Position : ~Earlier(i, i)
  BY <1>2 DEF Earlier
<1>4. \A y : <<y, y>> \notin AnswerOrder
  BY <1>3 DEF AnswerOrder
<1> QED
  BY <1>1, <1>4 DEF Earlier

\* A rule that matches the request is in one of the lists it begins with.
LEMMA SelectedIsListed ==
    ASSUME rules \in Files, settings \in Settings, compiled = Len(rules),
           NEW path \in Seq(Seq(Char)), NEW i \in Position, Match(Rule(i).pattern, path)
    PROVE  i \in ExactAt(Key(path)) \cup NotExact
<1>1. rules[i] \in Names /\ settings.fold \in BOOLEAN /\ i \in 1 .. compiled
  BY RulesType DEF Position
<1> DEFINE raw == ExtractPath(Texts[rules[i]].pattern)
           p == Rule(i).pattern
<1>2. raw \in Seq(Seq(Char)) /\ p = [CompilePattern(raw) EXCEPT !.fold = settings.fold] /\ p.raw = raw
  BY <1>1, PatternOfText DEF Rule
<1> HIDE DEF raw, p
<1>3. \A segments : Key(segments) = KeyOf(segments, settings.fold)
  BY DEF Key, KeyOf
<1>4. Exact(p) => KeyOf(raw, settings.fold) = KeyOf(path, settings.fold)
  BY <1>1, <1>2, ExactMatchesKey DEF p
<1>5. Exact(p) => Key(p.raw) = Key(path)
  BY <1>2, <1>3, <1>4
<1> QED
  BY <1>1, <1>5 DEF ExactAt, NotExact, p

\* The exact rules at the key of a path match it.
LEMMA ListedMatches ==
    ASSUME rules \in Files, settings \in Settings, compiled = Len(rules),
           NEW path \in Seq(Seq(Char)), NEW i \in ExactAt(Key(path))
    PROVE  i \in Position /\ Exact(Rule(i).pattern) /\ Match(Rule(i).pattern, path)
<1>1. i \in Position /\ Exact(Rule(i).pattern) /\ Key(Rule(i).pattern.raw) = Key(path)
  BY DEF ExactAt, Position
<1>2. rules[i] \in Names /\ settings.fold \in BOOLEAN
  BY <1>1, RulesType
<1> DEFINE raw == ExtractPath(Texts[rules[i]].pattern)
           p == Rule(i).pattern
<1>3. raw \in Seq(Seq(Char)) /\ p = [CompilePattern(raw) EXCEPT !.fold = settings.fold] /\ p.raw = raw
  BY <1>2, PatternOfText DEF Rule
<1>4. Exact(p) /\ Key(p.raw) = Key(path)
  BY <1>1
<1> HIDE DEF raw, p
<1>5. KeyOf(raw, settings.fold) = KeyOf(path, settings.fold)
  BY <1>3, <1>4 DEF Key, KeyOf
<1>6. Match(p, path)
  BY <1>2, <1>3, <1>4, <1>5, ExactMatchesKey
<1> QED
  BY <1>1, <1>6 DEF p

\* A request begins with all rules that may be for it still to be looked at.
LEMMA CollectedAtStart ==
    ASSUME Indexed, NEW r \in Requests, ServeHTTP(r), pc' = "match"
    PROVE  Collected'
<1>1. /\ rules \in Files /\ settings \in Settings /\ compiled = Len(rules)
      /\ \A key : Ordered(AtKey(key), ExactAt(key), FileOrder)
      /\ Ordered(wildcards, NotExact, FileOrder)
      /\ Ordered(bySpecificity, NotExact, RankOrder)
  <2>1. pc # "compile"
    BY DEF ServeHTTP
  <2> QED
    BY <2>1 DEF Indexed
<1>2. /\ UNCHANGED <<rules, settings, compiled>> /\ ops' = <<>>
      /\ requestPath' = NormalizePath(CleanRequestPath(r.path, settings.windows))
      /\ wild' = IF settings.dedup THEN bySpecificity ELSE wildcards
      /\ exact' = AtKey(Key(requestPath'))
  <2>1. ~IsProtectedConfigPath(r.path)
    BY DEF ServeHTTP
  <2> QED
    BY <2>1 DEF ServeHTTP
<1>3. requestPath' \in Seq(Seq(Char))
  <2>1. Rooted(r.path) /\ settings.windows \in BOOLEAN
    BY <1>1, RulesType, HeaderAssumption DEF HeaderAssumption, Rooted
  <2> QED
    BY <1>2, <2>1, ServedPathType
<1> DEFINE path == requestPath'
           E == ExactAt(Key(path))
<1>4. /\ Position' = Position /\ AnswerOrder' = AnswerOrder /\ \A i : Rule(i)' = Rule(i)
  BY <1>2 DEF Position, AnswerOrder, Earlier, Rule, RankedBefore
<1> HIDE DEF path
<1>5. path \in Seq(Seq(Char)) /\ exact' = AtKey(Key(path))
  BY <1>2, <1>3 DEF path
<1>6. E \subseteq Position /\ NotExact \subseteq Position
  BY <1>1 DEF ExactAt, NotExact, Position
<1>7. \A i \in E : Exact(Rule(i).pattern) /\ Match(Rule(i).pattern, path)
  BY <1>1, <1>5, ListedMatches
<1>8. \A i \in NotExact : ~Exact(Rule(i).pattern)
  BY DEF NotExact
<1>9. Ordered(exact', E, AnswerOrder)
  <2>1. \A x, y \in E : <<x, y>> \in FileOrder => <<x, y>> \in AnswerOrder
    BY <1>1, <1>6, <1>7, AnswerOrderIs DEF FileOrder
  <2>2. Ordered(AtKey(Key(path)), E, FileOrder)
    BY <1>1
  <2> HIDE DEF E
  <2> QED
    BY <1>5, <2>1, <2>2, OrderedToo
<1>10. Ordered(wild', NotExact, AnswerOrder)
  <2>1. CASE settings.dedup
    <3>1. \A x, y \in NotExact : <<x, y>> \in RankOrder => <<x, y>> \in AnswerOrder
      BY <1>1, <1>6, <1>8, <2>1, AnswerOrderIs DEF RankOrder
    <3> QED
      BY <1>1, <1>2, <2>1, <3>1, OrderedToo
  <2>2. CASE ~settings.dedup
    <3>1. \A x, y \in NotExact : <<x, y>> \in FileOrder => <<x, y>> \in AnswerOrder
      BY <1>1, <1>6, <1>8, <2>2, AnswerOrderIs DEF FileOrder
    <3> QED
      BY <1>1, <1>2, <2>2, <3>1, OrderedToo
  <2> QED
    BY <2>1, <2>2
<1>11. Range(exact') = E /\ Range(wild') = NotExact
  BY <1>9, <1>10 DEF Ordered
<1> HIDE DEF E
<1>12. Left' = E \cup NotExact
  BY <1>11 DEF Left
<1>13. Selected' \ Left' = {}
  <2>1. ASSUME NEW i \in Selected' PROVE i \in Left'
    <3>1. i \in Position /\ Match(Rule(i).pattern, path)
      BY <1>4 DEF Selected, path
    <3> QED
      BY <1>1, <1>5, <1>12, <3>1, SelectedIsListed DEF E
  <2> QED
    BY <2>1
<1>14. \E order : Ordered(order, (Selected \ Left)', AnswerOrder') /\ ops' = OpsOf(order)'
  <2>1. Ordered(<<>>, (Selected \ Left)', AnswerOrder')
    BY <1>13, NothingOrdered
  <2>2. OpsOf(<<>>)' = <<>>
    BY OpsOfNone
  <2> QED
    BY <1>2, <2>1, <2>2
<1>15. Ordered(exact', Range(exact'), AnswerOrder') /\ Ordered(wild', Range(wild'), AnswerOrder')
  BY <1>4, <1>9, <1>10, <1>11
<1>16. /\ \A i \in Range(exact') : Exact(Rule(i)'.pattern) /\ Match(Rule(i)'.pattern, requestPath')
       /\ \A i \in Range(wild') : ~Exact(Rule(i)'.pattern)
  BY <1>4, <1>7, <1>8, <1>11 DEF path
<1>17. Left' \subseteq Position'
  BY <1>4, <1>6, <1>12
<1> QED
  BY <1>13, <1>14, <1>15, <1>16, <1>17 DEF Collected

\* One rule is taken from what is left: the first of one list, in front of the other.
Takes(x) ==
    /\ rules \in Files /\ settings \in Settings
    /\ pc = "match" /\ UNCHANGED <<rules, settings, pc, requestPath, requestHost>>
    /\ x \in Left /\ Left' = Left \ {x}
    /\ ops' = IF x \in Selected THEN ops \o ExpandOps(x) ELSE ops
    /\ \A j \in Left \ {x} : <<x, j>> \in AnswerOrder
    /\ Ordered(exact', Range(exact'), AnswerOrder)
    /\ Ordered(wild', Range(wild'), AnswerOrder)
    /\ Range(exact') \subseteq Range(exact) /\ Range(wild') \subseteq Range(wild)

\* Its operations are those of the next of the rules that match.
LEMMA CollectedByTaking ==
    ASSUME Collected, NEW x, Takes(x)
    PROVE  Collected'
<1>1. /\ Position' = Position /\ AnswerOrder' = AnswerOrder /\ \A i : Rule(i)' = Rule(i)
      /\ Selected' = Selected /\ UNCHANGED requestPath /\ pc = "match" /\ pc' = "match"
      /\ \A i : ExpandOps(i)' = ExpandOps(i)
  BY DEF Takes, Position, AnswerOrder, Earlier, Rule, RankedBefore, Selected, HostAllows, ExpandOps
<1>2. PICK order : Ordered(order, Selected \ Left, AnswerOrder) /\ ops = OpsOf(order)
  BY <1>1 DEF Collected
<1> DEFINE new == IF x \in Selected THEN Append(order, x) ELSE order
<1>3. /\ Ordered(new, Selected \ (Left \ {x}), AnswerOrder)
      /\ \A i \in Selected \ (Left \ {x}), j \in Left \ {x} : <<i, j>> \in AnswerOrder
  <2>1. \A i \in Selected \ Left, j \in Left : <<i, j>> \in AnswerOrder
    BY <1>1 DEF Collected
  <2>2. x \in Left /\ \A j \in Left \ {x} : <<x, j>> \in AnswerOrder
    BY DEF Takes
  <2> QED
    BY <1>2, <2>1, <2>2, TakeNext
<1>4. \A l : OpsOf(l)' = OpsOf(l)
  BY <1>1 DEF OpsOf
<1>5. ops' = OpsOf(new)
  <2>1. CASE x \in Selected
    <3>1. order \in Seq(Position) /\ x \in Position
      <4>1. Selected \subseteq Position /\ Selected \ Left \subseteq Position
        BY DEF Selected
      <4>2. order \in Seq(Selected \ Left)
        BY <1>2 DEF Ordered
      <4> QED
        BY <2>1, <4>1, <4>2, SeqMonotonic
    <3>2. OpsOf(Append(order, x)) = OpsOf(order) \o ExpandOps(x)
      BY <3>1, OpsOfAppend DEF Takes
    <3> QED
      BY <1>2, <2>1, <3>2 DEF Takes
  <2>2. CASE x \notin Selected
    BY <1>2, <2>2 DEF Takes
  <2> QED
    BY <2>1, <2>2
<1> HIDE DEF new
<1>6. Left' = Left \ {x} /\ Left' \subseteq Position'
  BY <1>1 DEF Takes, Collected
<1>7. \E l : Ordered(l, (Selected \ Left)', AnswerOrder') /\ ops' = OpsOf(l)'
  <2>1. PICK l : l = new
    OBVIOUS
  <2>2. Ordered(l, (Selected \ Left)', AnswerOrder')
    BY <1>1, <1>3, <1>6, <2>1
  <2>3. ops' = OpsOf(l)'
    BY <1>4, <1>5, <2>1
  <2> QED
    BY <2>2, <2>3
<1>8. \A i \in (Selected \ Left)', j \in Left' : <<i, j>> \in AnswerOrder'
  BY <1>1, <1>3, <1>6
<1>9. /\ \A i \in Range(exact') : Exact(Rule(i)'.pattern) /\ Match(Rule(i)'.pattern, requestPath')
      /\ \A i \in Range(wild') : ~Exact(Rule(i)'.pattern)
  BY <1>1 DEF Takes, Collected
<1>10. Ordered(exact', Range(exact'), AnswerOrder') /\ Ordered(wild', Range(wild'), AnswerOrder')
  BY <1>1 DEF Takes
<1> QED
  BY <1>1, <1>6, <1>7, <1>8, <1>9, <1>10 DEF Collected

\* The first of a list is in front of the others, which are the rest of it.
LEMMA FirstOfList ==
    ASSUME NEW R, \A y : <<y, y>> \notin R, NEW list, Ordered(list, Range(list), R), list # <<>>
    PROVE  /\ list[1] \in Range(list) /\ Range(Tail(list)) = Range(list) \ {list[1]}
           /\ Ordered(Tail(list), Range(Tail(list)), R)
           /\ \A j \in Range(list) \ {list[1]} : <<list[1], j>> \in R
<1> DEFINE members == Range(list)
<1>1. /\ list[1] \in members
      /\ \A y \in members \ {list[1]} : <<list[1], y>> \in R
      /\ Ordered(Tail(list), members \ {list[1]}, R)
  <2> HIDE DEF members
  <2>1. Ordered(list, members, R)
    BY DEF members
  <2> QED
    BY <2>1, RestInOrder
<1>2. Range(Tail(list)) = members \ {list[1]}
  BY <1>1 DEF Ordered
<1> QED
  BY <1>1, <1>2

\* An exact rule is taken when it is in front of the others.
LEMMA TakesExact ==
    ASSUME Indexed, Collected, TakeExact
    PROVE  Takes(exact[1])
<1> DEFINE x == exact[1]
<1>1. /\ pc = "match" /\ exact # <<>>
      /\ wild # <<>> => ~settings.dedup /\ exact[1] < wild[1]
      /\ exact' = Tail(exact) /\ wild' = wild
      /\ ops' = IF HostAllows(x) THEN ops \o ExpandOps(x) ELSE ops
      /\ UNCHANGED <<rules, settings, pc, requestPath, requestHost>>
  BY DEF TakeExact, UseExact
<1>2. /\ rules \in Files /\ settings \in Settings
      /\ Left \subseteq Position
      /\ Ordered(exact, Range(exact), AnswerOrder)
      /\ Ordered(wild, Range(wild), AnswerOrder)
      /\ \A i \in Range(exact) : Exact(Rule(i).pattern) /\ Match(Rule(i).pattern, requestPath)
      /\ \A i \in Range(wild) : ~Exact(Rule(i).pattern)
  BY <1>1 DEF Indexed, Collected
<1>3. /\ x \in Range(exact) /\ Range(exact') = Range(exact) \ {x}
      /\ Ordered(exact', Range(exact'), AnswerOrder)
      /\ \A j \in Range(exact) \ {x} : <<x, j>> \in AnswerOrder
  BY <1>1, <1>2, AnswerOrderIs, FirstOfList
<1>4. x \in Left /\ x \in Position /\ x \notin Range(wild)
  BY <1>2, <1>3 DEF Left
<1>5. Left' = Left \ {x}
  BY <1>1, <1>3, <1>4 DEF Left
<1>6. x \in Selected <=> HostAllows(x)
  BY <1>2, <1>3, <1>4 DEF Selected
<1>7. ASSUME NEW j \in Left \ {x} PROVE <<x, j>> \in AnswerOrder
  <2>1. CASE j \in Range(exact)
    BY <1>3, <1>7, <2>1
  <2>2. CASE j \in Range(wild)
    <3>1. wild # <<>>
      BY <2>2 DEF Range
    <3>2. ~settings.dedup /\ x < wild[1]
      BY <1>1, <3>1
    <3>3. wild[1] \in Range(wild) /\ (j = wild[1] \/ <<wild[1], j>> \in AnswerOrder)
      BY <1>2, <2>2, <3>1, AnswerOrderIs, FirstOfList
    <3>4. j \in Position /\ wild[1] \in Position
      BY <1>2, <2>2, <3>3 DEF Left
    <3>5. j = wild[1] \/ wild[1] < j
      BY <1>2, <3>2, <3>3, <3>4, AnswerOrderIs
    <3>6. x < j
      <4>1. \A i \in Position : i \in Nat
        BY <1>2, RulesType DEF Position
      <4> QED
        BY <1>4, <3>2, <3>4, <3>5, <4>1
    <3> QED
      BY <1>2, <1>4, <3>2, <3>4, <3>6, AnswerOrderIs
  <2> QED
    BY <1>7, <2>1, <2>2 DEF Left
<1> QED
  BY <1>1, <1>2, <1>3, <1>4, <1>5, <1>6, <1>7 DEF Takes

\* So is one with a wildcard.
LEMMA TakesWildcard ==
    ASSUME Indexed, Collected, TakeWildcard
    PROVE  Takes(wild[1])
<1> DEFINE x == wild[1]
<1>1. /\ pc = "match" /\ wild # <<>>
      /\ exact # <<>> => settings.dedup \/ ~(exact[1] < wild[1])
      /\ wild' = Tail(wild) /\ exact' = exact
      /\ ops' = IF HostAllows(x) /\ Match(Rule(x).pattern, requestPath) THEN ops \o ExpandOps(x) ELSE ops
      /\ UNCHANGED <<rules, settings, pc, requestPath, requestHost>>
  BY DEF TakeWildcard, UseExact
<1>2. /\ rules \in Files /\ settings \in Settings
      /\ Left \subseteq Position
      /\ Ordered(exact, Range(exact), AnswerOrder)
      /\ Ordered(wild, Range(wild), AnswerOrder)
      /\ \A i \in Range(exact) : Exact(Rule(i).pattern) /\ Match(Rule(i).pattern, requestPath)
      /\ \A i \in Range(wild) : ~Exact(Rule(i).pattern)
  BY <1>1 DEF Indexed, Collected
<1>3. /\ x \in Range(wild) /\ Range(wild') = Range(wild) \ {x}
      /\ Ordered(wild', Range(wild'), AnswerOrder)
      /\ \A j \in Range(wild) \ {x} : <<x, j>> \in AnswerOrder
  BY <1>1, <1>2, AnswerOrderIs, FirstOfList
<1>4. x \in Left /\ x \in Position /\ x \notin Range(exact) /\ ~Exact(Rule(x).pattern)
  BY <1>2, <1>3 DEF Left
<1>5. Left' = Left \ {x}
  BY <1>1, <1>3, <1>4 DEF Left
<1>6. x \in Selected <=> HostAllows(x) /\ Match(Rule(x).pattern, requestPath)
  BY <1>4 DEF Selected
<1>7. ASSUME NEW j \in Left \ {x} PROVE <<x, j>> \in AnswerOrder
  <2>1. CASE j \in Range(wild)
    BY <1>3, <1>7, <2>1
  <2>2. CASE j \in Range(exact)
    <3>1. exact # <<>> /\ j \in Position /\ Exact(Rule(j).pattern)
      BY <1>2, <2>2 DEF Range, Left
    <3>2. CASE settings.dedup
      BY <1>2, <1>4, <3>1, <3>2, AnswerOrderIs
    <3>3. CASE ~settings.dedup
      <4>1. exact[1] \in Range(exact) /\ (j = exact[1] \/ <<exact[1], j>> \in AnswerOrder)
        BY <1>2, <2>2, <3>1, AnswerOrderIs, FirstOfList
      <4>2. exact[1] \in Position /\ exact[1] # x /\ ~(exact[1] < x)
        BY <1>1, <1>2, <1>4, <3>1, <3>3, <4>1 DEF Left
      <4>3. j = exact[1] \/ exact[1] < j
        BY <1>2, <3>1, <3>3, <4>1, <4>2, AnswerOrderIs
      <4>4. x < j
        <5>1. \A i \in Position : i \in Nat
          BY <1>2, RulesType DEF Position
        <5> QED
          BY <1>4, <3>1, <4>2, <4>3, <5>1
      <4> QED
        BY <1>2, <1>4, <3>1, <3>3, <4>4, AnswerOrderIs
    <3> QED
      BY <3>2, <3>3
  <2> QED
    BY <1>7, <2>1, <2>2 DEF Left
<1> QED
  BY <1>1, <1>2, <1>3, <1>4, <1>5, <1>6, <1>7 DEF Takes

\* Nothing else changes what was collected.
LEMMA CollectedStays ==
    ASSUME Collected, UNCHANGED <<rules, settings, requestPath, requestHost, exact, wild, ops>>,
           pc' \in {"match", "done"} => pc \in {"match", "done"},
           pc' = "done" => exact = <<>> /\ wild = <<>>
    PROVE  Collected'
<1> SUFFICES ASSUME pc' \in {"match", "done"} PROVE Collected'
  BY DEF Collected
<1>1. /\ Position' = Position /\ AnswerOrder' = AnswerOrder /\ \A i : Rule(i)' = Rule(i)
      /\ Selected' = Selected /\ Left' = Left /\ \A i : ExpandOps(i)' = ExpandOps(i)
  BY DEF Position, AnswerOrder, Earlier, Rule, RankedBefore, Selected, HostAllows, ExpandOps, Left
<1>2. \A l : OpsOf(l)' = OpsOf(l)
  BY <1>1 DEF OpsOf
<1>3. \E order : Ordered(order, (Selected \ Left)', AnswerOrder') /\ ops' = OpsOf(order)'
  <2>1. PICK order : Ordered(order, Selected \ Left, AnswerOrder) /\ ops = OpsOf(order)
    BY DEF Collected
  <2> QED
    BY <1>1, <1>2, <2>1
<1>4. Left \subseteq Position /\ \A i \in Selected \ Left, j \in Left : <<i, j>> \in AnswerOrder
  BY DEF Collected
<1>5. /\ Ordered(exact', Range(exact'), AnswerOrder') /\ Ordered(wild', Range(wild'), AnswerOrder')
      /\ \A i \in Range(exact') : Exact(Rule(i)'.pattern) /\ Match(Rule(i)'.pattern, requestPath')
      /\ \A i \in Range(wild') : ~Exact(Rule(i)'.pattern)
  BY <1>1 DEF Collected
<1> QED
  BY <1>1, <1>3, <1>4, <1>5 DEF Collected

\* At every step the operations are those of the rules taken, in order.
LEMMA CollectedInvariant == Spec => []Collected
<1>1. Init => Collected
  BY DEF Init, Collected
<1>2. Indexed /\ Collected /\ [Next]_vars => Collected'
  <2> SUFFICES ASSUME Indexed, Collected, [Next]_vars PROVE Collected'
    OBVIOUS
  <2>1. ASSUME NEW r \in Requests, ServeHTTP(r) PROVE Collected'
    <3>1. pc' = "match" \/ pc' = "refused"
      BY <2>1 DEF ServeHTTP
    <3>2. CASE pc' = "match"
      BY <2>1, <3>2, CollectedAtStart
    <3>3. CASE pc' = "refused"
      BY <3>3 DEF Collected
    <3> QED
      BY <3>1, <3>2, <3>3
  <2>2. CASE CompileExact \/ CompileWildcard \/ Rank
    <3>1. pc' \in {"compile", "ready"}
      BY <2>2 DEF CompileExact, CompileWildcard, Rank
    <3> QED
      BY <3>1 DEF Collected
  <2>3. CASE TakeExact
    BY <2>3, TakesExact, CollectedByTaking
  <2>4. CASE TakeWildcard
    BY <2>4, TakesWildcard, CollectedByTaking
  <2>5. CASE ApplyHeaders
    BY <2>5, CollectedStays DEF ApplyHeaders
  <2>6. CASE UNCHANGED vars
    <3>1. UNCHANGED <<rules, settings, requestPath, requestHost, exact, wild, ops, pc>>
      BY <2>6 DEF vars, answer
    <3>2. pc = "done" => exact = <<>> /\ wild = <<>>
      BY DEF Collected
    <3> QED
      BY <3>1, <3>2, CollectedStays
  <2> QED
    BY <2>1, <2>2, <2>3, <2>4, <2>5, <2>6 DEF Next
<1> QED
  BY <1>1, <1>2, IndexedInvariant, PTL DEF Spec

\* Which index a rule is in does not tell: the operations of a request are those of all
\* rules that match it, in the one order of the file or of the scores.
THEOREM OperationsAreInOrder == Spec => []OperationsInOrder
<1>1. Indexed /\ Collected => OperationsInOrder
  <2> DEFINE matching == {i \in DOMAIN rules : HostAllows(i) /\ Match(Rule(i).pattern, requestPath)}
  <2> SUFFICES ASSUME Indexed, Collected, pc = "done"
               PROVE  \E order \in [1 .. Cardinality(matching) -> matching] :
                        /\ \A n, m \in DOMAIN order : n < m => Earlier(order[n], order[m])
                        /\ ops = FlattenSeq([n \in DOMAIN order |-> ExpandOps(order[n])])
    BY Zenon DEF OperationsInOrder
  <2>1. rules \in Files /\ settings \in Settings /\ matching = Selected
    BY RulesType DEF Indexed, Selected
  <2>2. Left = {}
    BY DEF Collected, Left, Range
  <2>3. PICK order : Ordered(order, Selected \ Left, AnswerOrder) /\ ops = OpsOf(order)
    BY DEF Collected
  <2> HIDE DEF matching
  <2>4. Ordered(order, matching, AnswerOrder)
    BY <2>1, <2>2, <2>3
  <2>5. DOMAIN order = 1 .. Cardinality(matching)
    BY <2>1, <2>4, AnswerOrderIs, LengthOfOrdered
  <2>6. order \in [1 .. Cardinality(matching) -> matching]
    <3>1. order \in Seq(matching) /\ Len(order) \in Nat /\ DOMAIN order = 1 .. Len(order)
      BY <2>4 DEF Ordered
    <3>2. order \in [DOMAIN order -> matching]
      BY <3>1
    <3> QED
      BY <2>5, <3>2
  <2>7. \A n, m \in DOMAIN order : n < m => Earlier(order[n], order[m])
    BY <2>4 DEF Ordered, AnswerOrder
  <2>8. ops = FlattenSeq([n \in DOMAIN order |-> ExpandOps(order[n])])
    BY <2>3 DEF OpsOf
  <2> QED
    BY <2>6, <2>7, <2>8
<1> QED
  BY <1>1, IndexedInvariant, CollectedInvariant, PTL

(***************************************************************************)
(* The operations change the lines of headers, not which there are.        *)
(***************************************************************************)
\* The greatest of some numbers up to one that is among them.
LEMMA MaxIs ==
    ASSUME NEW m \in Nat, NEW s \in SUBSET (1 .. m), s # {}
    PROVE  /\ Max(s) \in s
           /\ m \in s => Max(s) = m
<1>1. s \in SUBSET (0 .. m)
  OBVIOUS
<1>2. PICK k \in s : \A i \in s : i <= k
  BY <1>1, GreatestNatural
<1>3. \A i \in s : i \in Int /\ i <= m
  OBVIOUS
<1>4. k \in s /\ \A i \in s : k >= i
  BY <1>2, <1>3
<1>5. Max(s) \in s /\ \A i \in s : Max(s) >= i
  BY <1>4 DEF Max
<1>6. m \in s => Max(s) >= m /\ Max(s) <= m /\ Max(s) \in Int
  BY <1>3, <1>5
<1> QED
  BY <1>5, <1>6

\* All headers are there after the operations as before them.
LEMMA HeadersStay ==
    ASSUME NEW list, IsOps(list), NEW h
    PROVE  DOMAIN FoldLeft(ApplyHeader, h, list) = DOMAIN h
<1> DEFINE len == Len(list)
           Step(f, s) == IF s = {} THEN h ELSE ApplyHeader(f[s \ {Max(s)}], list[Max(s)])
           Is(f, m) == f = [s \in SUBSET (1 .. m) |-> Step(f, s)]
           iter == CHOOSE f : Is(f, len)
<1>1. len \in Nat /\ DOMAIN list = 1 .. len
  BY DEF IsOps
<1>2. FoldLeft(ApplyHeader, h, list) = iter[1 .. len]
  BY <1>1 DEF FoldLeft, MapThenFoldSet
<1>3. ASSUME NEW m \in Nat, NEW s \in SUBSET (1 .. m), s # {}
      PROVE  Max(s) \in s /\ s \ {Max(s)} \in SUBSET (1 .. m)
  BY <1>3, MaxIs
<1>4. ASSUME NEW a, NEW op PROVE DOMAIN ApplyHeader(a, op) = DOMAIN a
  BY DEF ApplyHeader
<1> DEFINE S == {m \in Nat : \E f : Is(f, m)}
<1>5. 0 \in S
  <2> DEFINE f == [s \in SUBSET (1 .. 0) |-> h]
  <2>1. \A s \in SUBSET (1 .. 0) : s = {}
    OBVIOUS
  <2>2. \A s \in SUBSET (1 .. 0) : Step(f, s) = h
    <3> HIDE DEF f
    <3> QED
      BY <2>1
  <2> HIDE DEF Step
  <2>3. Is(f, 0)
    BY <2>2
  <2> HIDE DEF Is, f
  <2> QED
    BY <2>3
<1>6. ASSUME NEW m \in S PROVE m + 1 \in S
  <2>0. m \in Nat /\ m + 1 \in Nat
    OBVIOUS
  <2>1. PICK f : Is(f, m)
    OBVIOUS
  <2> HIDE DEF S
  <2> DEFINE g == [s \in SUBSET (1 .. m + 1) |->
                     IF m + 1 \in s THEN ApplyHeader(f[s \ {m + 1}], list[m + 1]) ELSE f[s]]
  <2>2. ASSUME NEW s \in SUBSET (1 .. m) PROVE g[s] = f[s] /\ f[s] = Step(f, s)
    <3>1. s \in SUBSET (1 .. m + 1) /\ m + 1 \notin s
      BY <2>0
    <3>2. g[s] = f[s]
      BY <3>1
    <3> HIDE DEF g, Step
    <3> QED
      BY <2>1, <3>2
  <2>3. ASSUME NEW s \in SUBSET (1 .. m + 1) PROVE g[s] = Step(g, s)
    <3>1. CASE m + 1 \in s
      <4>1. Max(s) = m + 1 /\ s # {} /\ s \ {m + 1} \in SUBSET (1 .. m)
        BY <2>0, <3>1, MaxIs
      <4>2. g[s] = ApplyHeader(f[s \ {m + 1}], list[m + 1])
        <5> HIDE DEF Step
        <5> QED
          BY <3>1
      <4>3. g[s \ {m + 1}] = f[s \ {m + 1}]
        BY <2>2, <4>1
      <4> HIDE DEF g
      <4> QED
        BY <4>1, <4>2, <4>3
    <3>2. CASE m + 1 \notin s
      <4>1. s \in SUBSET (1 .. m)
        BY <2>0, <3>2
      <4>2. g[s] = Step(f, s)
        BY <2>2, <4>1
      <4>3. s # {} => g[s \ {Max(s)}] = f[s \ {Max(s)}]
        BY <1>3, <2>0, <2>2, <4>1
      <4> HIDE DEF g
      <4> QED
        BY <4>2, <4>3
    <3> QED
      BY <3>1, <3>2
  <2>4. Is(g, m + 1)
    <3> HIDE DEF Step
    <3>1. g = [s \in SUBSET (1 .. m + 1) |-> g[s]]
      OBVIOUS
    <3> HIDE DEF g
    <3> QED
      BY <2>3, <3>1
  <2> HIDE DEF Is, g
  <2> QED
    BY <2>0, <2>4 DEF S
<1>7. S = Nat
  <2>1. S \in SUBSET Nat
    OBVIOUS
  <2> HIDE DEF S
  <2> QED
    BY <1>5, <1>6, <2>1, SetInduction
<1>8. Is(iter, len)
  <2>1. \E f : Is(f, len)
    BY <1>1, <1>7
  <2> HIDE DEF Is
  <2> QED
    BY <2>1
<1>9. \A s \in SUBSET (1 .. len) : iter[s] = Step(iter, s)
  <2> HIDE DEF Step, iter
  <2> QED
    BY <1>8
<1> HIDE DEF iter, Is, S
<1> DEFINE R == {m \in Nat : m <= len => \A s \in SUBSET (1 .. m) : DOMAIN iter[s] = DOMAIN h}
<1>10. 0 \in R
  <2>1. {} \in SUBSET (1 .. len) /\ \A s \in SUBSET (1 .. 0) : s = {}
    OBVIOUS
  <2>2. iter[{}] = h
    BY <1>9, <2>1
  <2> QED
    BY <2>1, <2>2
<1>11. ASSUME NEW m \in R PROVE m + 1 \in R
  <2> SUFFICES ASSUME m + 1 <= len, NEW s \in SUBSET (1 .. m + 1) PROVE DOMAIN iter[s] = DOMAIN h
    OBVIOUS
  <2>1. m \in Nat /\ m + 1 \in Nat /\ m <= len /\ s \in SUBSET (1 .. len)
    BY <1>1
  <2>2. \A t \in SUBSET (1 .. m) : DOMAIN iter[t] = DOMAIN h
    BY <2>1
  <2>3. CASE m + 1 \in s
    <3>1. Max(s) = m + 1 /\ s # {} /\ s \ {m + 1} \in SUBSET (1 .. m)
      BY <2>1, <2>3, MaxIs
    <3>2. iter[s] = ApplyHeader(iter[s \ {m + 1}], list[m + 1])
      BY <1>9, <2>1, <3>1
    <3> QED
      BY <1>4, <2>2, <3>1, <3>2
  <2>4. CASE m + 1 \notin s
    <3>1. s \in SUBSET (1 .. m)
      BY <2>1, <2>4
    <3> QED
      BY <2>2, <3>1
  <2> QED
    BY <2>3, <2>4
<1>12. R = Nat
  <2>1. R \in SUBSET Nat
    OBVIOUS
  <2> HIDE DEF R
  <2> QED
    BY <1>10, <1>11, <2>1, SetInduction
<1>13. len \in R
  BY <1>1, <1>12
<1> QED
  BY <1>1, <1>2, <1>13

(***************************************************************************)
(* Types.                                                                  *)
(***************************************************************************)
\* Two lists of operations are one.
LEMMA ConcatOps ==
    ASSUME NEW a, NEW b, IsOps(a), IsOps(b)
    PROVE  IsOps(a \o b)
<1>1. PICK V, W : a \in Seq(OpsWith(V)) /\ b \in Seq(OpsWith(W))
  BY DEF IsOps
<1> DEFINE B == OpsWith(V \cup W)
<1>2. OpsWith(V) \subseteq B /\ OpsWith(W) \subseteq B
  BY DEF OpsWith
<1>3. a \in Seq(B) /\ b \in Seq(B)
  <2> HIDE DEF B
  <2> QED
    BY <1>1, <1>2, SeqMonotonic
<1>4. a \o b \in Seq(B)
  <2> HIDE DEF B
  <2> QED
    BY <1>3, ConcatProperties
<1> QED
  BY <1>4 DEF IsOps

\* What is not in the indexes, and the lists that are empty outside of a request.
Kinds ==
    /\ pc \in {"compile", "ready", "refused", "match", "done"}
    /\ pc = "compile" => bySpecificity = <<>>
    /\ pc \notin {"match", "done"} => exact = <<>> /\ wild = <<>>
    /\ request \in Requests \cup {Nil}
    /\ IsOps(ops)
    /\ DOMAIN headers = HeaderNames

\* No step leaves these.
LEMMA KindsInvariant == Spec => []Kinds
<1>0. IsOps(<<>>) /\ DOMAIN NoHeaders = HeaderNames
  <2>1. <<>> \in Seq(OpsWith({}))
    OBVIOUS
  <2> QED
    BY <2>1 DEF IsOps, NoHeaders
<1>1. Init => Kinds
  BY <1>0 DEF Init, Kinds
<1>2. Indexed /\ Collected /\ Kinds /\ [Next]_vars => Kinds'
  <2> SUFFICES ASSUME Indexed, Collected, Kinds, [Next]_vars PROVE Kinds'
    OBVIOUS
  <2>1. ASSUME NEW r \in Requests, ServeHTTP(r) PROVE Kinds'
    BY <1>0, <2>1 DEF ServeHTTP, Kinds
  <2>2. CASE CompileExact \/ CompileWildcard
    BY <2>2 DEF CompileExact, CompileWildcard, answer, Kinds
  <2>3. CASE Rank
    BY <2>3 DEF Rank, answer, Kinds
  <2>4. CASE TakeExact \/ TakeWildcard
    <3>1. PICK x \in Position : IsOps(ExpandOps(x)) /\ ops' \in {ops, ops \o ExpandOps(x)}
      <4>1. rules \in Files /\ settings \in Settings /\ Left \subseteq Position
        BY <2>4 DEF Indexed, Collected, TakeExact, TakeWildcard
      <4>2. \A x \in Position : IsOps(ExpandOps(x))
        BY <4>1, RulesType, ExpandedOps
      <4>3. CASE TakeExact
        <5>1. exact[1] \in Left
          BY <4>3, TakesExact DEF Takes
        <5> QED
          BY <4>1, <4>2, <4>3, <5>1 DEF TakeExact
      <4>4. CASE TakeWildcard
        <5>1. wild[1] \in Left
          BY <4>4, TakesWildcard DEF Takes
        <5> QED
          BY <4>1, <4>2, <4>4, <5>1 DEF TakeWildcard
      <4> QED
        BY <2>4, <4>3, <4>4
    <3>2. IsOps(ops \o ExpandOps(x)) /\ IsOps(ops)
      BY <3>1, ConcatOps DEF Kinds
    <3>3. IsOps(ops')
      BY <3>1, <3>2
    <3> QED
      BY <2>4, <3>3 DEF TakeExact, TakeWildcard, Kinds
  <2>5. CASE ApplyHeaders
    <3>1. headers' = FoldLeft(ApplyHeader, headers, ops)
      BY <2>5 DEF ApplyHeaders
    <3>2. DOMAIN FoldLeft(ApplyHeader, headers, ops) = DOMAIN headers
      BY HeadersStay DEF Kinds
    <3>3. DOMAIN headers' = HeaderNames
      BY <3>1, <3>2 DEF Kinds
    <3> QED
      BY <2>5, <3>3 DEF ApplyHeaders, Kinds
  <2>6. CASE UNCHANGED vars
    BY <2>6 DEF vars, index, answer, Kinds
  <2> QED
    BY <2>1, <2>2, <2>3, <2>4, <2>5, <2>6 DEF Next
<1> QED
  BY <1>1, <1>2, IndexedInvariant, CollectedInvariant, PTL DEF Spec

\* The indexes and what is left of them are lists of positions, the operations are on
\* headers that are known, and no header appears or disappears.
THEOREM HeaderTypes == Spec => []TypeOK
<1>1. Indexed /\ Collected /\ Kinds => TypeOK
  <2> SUFFICES ASSUME Indexed, Collected, Kinds PROVE TypeOK
    OBVIOUS
  <2>1. rules \in Files /\ settings \in Settings /\ compiled \in 0 .. Len(rules)
    BY DEF Indexed
  <2>2. ASSUME NEW members \in SUBSET Position, NEW list, NEW R, Ordered(list, members, R)
        PROVE  list \in Seq(Position)
    <3>1. list \in Seq(members)
      BY <2>2 DEF Ordered
    <3> QED
      BY <3>1, SeqMonotonic
  <2>3. NotExact \subseteq Position /\ \A key : ExactAt(key) \subseteq Position
    <3>1. 1 .. compiled \subseteq Position
      BY <2>1, RulesType DEF Position
    <3> QED
      BY <3>1 DEF NotExact, ExactAt
  <2>4. \A key \in DOMAIN exactPaths : exactPaths[key] \in Seq(Position)
    <3> TAKE key \in DOMAIN exactPaths
    <3>1. Ordered(exactPaths[key], ExactAt(key), FileOrder)
      BY DEF Indexed, AtKey
    <3> QED
      BY <2>2, <2>3, <3>1
  <2>5. <<>> \in Seq(Position)
    OBVIOUS
  <2>6. wildcards \in Seq(Position) /\ bySpecificity \in Seq(Position)
    <3>1. wildcards \in Seq(Position)
      BY <2>2, <2>3 DEF Indexed
    <3>2. bySpecificity \in Seq(Position)
      BY <2>2, <2>3, <2>5 DEF Indexed, Kinds
    <3> QED
      BY <3>1, <3>2
  <2>7. exact \in Seq(Position) /\ wild \in Seq(Position)
    <3>1. CASE pc \in {"match", "done"}
      <4>1. /\ Range(exact) \in SUBSET Position /\ Range(wild) \in SUBSET Position
            /\ Ordered(exact, Range(exact), AnswerOrder) /\ Ordered(wild, Range(wild), AnswerOrder)
        BY <3>1 DEF Collected, Left
      <4> QED
        BY <2>2, <4>1
    <3>2. CASE pc \notin {"match", "done"}
      BY <2>5, <3>2 DEF Kinds
    <3> QED
      BY <3>1, <3>2
  <2>8. \A k \in DOMAIN ops : ops[k].name \in HeaderNames /\ ops[k].mode \in {"set", "remove", "append"}
    <3>1. PICK V : ops \in Seq(OpsWith(V))
      BY DEF Kinds, IsOps
    <3>2. \A k \in DOMAIN ops : ops[k] \in OpsWith(V)
      <4> DEFINE B == OpsWith(V)
      <4> HIDE DEF B
      <4>1. ops \in Seq(B)
        BY <3>1 DEF B
      <4>2. \A k \in DOMAIN ops : ops[k] \in B
        BY <4>1
      <4> QED
        BY <4>2 DEF B
    <3> QED
      BY <3>2 DEF OpsWith, Modes
  <2> QED
    BY <2>1, <2>4, <2>6, <2>7, <2>8 DEF TypeOK, Kinds
<1> QED
  BY <1>1, IndexedInvariant, CollectedInvariant, KindsInvariant, PTL
=============================================================================
