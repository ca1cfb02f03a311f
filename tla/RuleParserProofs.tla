-------------------------- MODULE RuleParserProofs --------------------------
(***************************************************************************)
(* Theorems about RuleParser, for any limits of the directive and any      *)
(* number of lines of any lengths: what the parsers keep of a file and what *)
(* they warn of, wherever it is cut.                                       *)
(*                                                                         *)
(* The scan knows only the byte it is at, so the proofs are about ScanInv,  *)
(* which says where that is among the lines; CurrentInv, RulesInv,         *)
(* HeadersInv and WarnInv then relate what was collected to the lines       *)
(* above it.                                                               *)
(***************************************************************************)
EXTENDS RuleParser, NaturalSets

(***************************************************************************)
(* Why they hold, while the file is scanned.                               *)
(***************************************************************************)
\* The scan is at the end of a line, or in the one a read error cuts.
ScanInv ==
    /\ totalBytes <= Available
    /\ outcome = "scanning" =>
         /\ totalBytes <= MaxFileSize
         /\ \/ totalBytes = Offset[lineNum]
            \/ /\ lineNum > 0 /\ failAt # Nil /\ totalBytes = failAt
               /\ Offset[lineNum - 1] <= totalBytes /\ totalBytes < Offset[lineNum]

\* The current rule is the one the next line stands under, unless it was rejected or
\* an overlong comment ended it.
CurrentInv == outcome = "scanning" =>
    /\ current # 0 => format = "headers"
    /\ (format = "headers" /\ totalBytes < Available) =>
         \A k \in DOMAIN rules :
           current = k <=> /\ rules[k].line = Owner(lineNum + 1)
                           /\ LongComments(rules[k].line, lineNum) = {}

Scanned == {n \in RuleLines : n <= lineNum}

\* As long as no cut line was used, the rules are those of the lines read,
RulesInv == (outcome = "scanning" /\ \A n \in Used : Whole(n)) =>
    /\ {rules[k].line : k \in DOMAIN rules} = Scanned
    /\ Len(rules) = Cardinality(Scanned)
    /\ \A k \in DOMAIN rules : k > 1 => rules[k - 1].line < rules[k].line

\* and each has the headers of them that are its own.
HeadersInv == (outcome = "scanning" /\ format = "headers" /\ \A n \in Used : Whole(n)) =>
    \A k \in DOMAIN rules :
        LET m == rules[k].line IN
        Range(rules[k].ops) = {n \in Headers(m) : n <= lineNum /\ LongComments(m, n) = {}}

\* The headers of a rule are in the order of the file.
OrderInv == \A k \in DOMAIN rules : InFileOrder(rules[k].ops)

Flawed(n) == \/ file[n].length > MaxLineLength \/ file[n].text = "invalid"
             \/ file[n].text = "valid" /\ ~IsRuleText(n) /\ Owner(n) = 0

\* What is warned of is in the lines read, and at the end in the file.
WarnInv ==
    /\ (outcome = "scanning" /\ totalBytes = Offset[lineNum]) =>
         (StrictError <=> \E n \in 1 .. lineNum : Flawed(n))
    /\ outcome = "parsed" => (StrictError <=> ~Clean)

(***************************************************************************)
(* Where the lines of a file begin.                                        *)
(***************************************************************************)
\* A line takes at least one byte.
LEMMA SizeType ==
    ASSUME file \in Seq(Line(format)), EndsInBytes, NEW n \in 1 .. Len(file)
    PROVE  Size(n) \in Nat /\ Size(n) >= 1
<1>1. file[n] \in Line(format) /\ Len(file) \in Nat
  OBVIOUS
<1>2. file[n].length \in Nat
  BY <1>1, ParserAssumption DEF Line
<1>3. n = Len(file) /\ ~terminated => file[n].length # 0
  BY <1>1 DEF EndsInBytes
<1> QED
  BY <1>1, <1>2, <1>3 DEF Size

\* Offset is what its definition says.
LEMMA OffsetIsSum ==
    ASSUME file \in Seq(Line(format)), EndsInBytes
    PROVE  Offset = [n \in 0 .. Len(file) |-> IF n = 0 THEN 0 ELSE Offset[n - 1] + Size(n)]
<1> DEFINE n == Len(file)
           step == [k \in 1 .. n |-> [sum \in Nat |-> sum + Size(k)]]
           Is(f) == f = [k \in 0 .. n |-> IF k = 0 THEN 0 ELSE f[k - 1] + Size(k)]
<1>1. n \in Nat /\ \A k \in 1 .. n : Size(k) \in Nat
  BY SizeType
<1>2. PICK f : IsRecursion(f, Nat, 0, n, step)
  <2>1. step \in [1 .. n -> [Nat -> Nat]] /\ 0 \in Nat
    BY <1>1
  <2> HIDE DEF step, n, Is
  <2> QED
    BY <1>1, <2>1, RecursionExists
<1>r. f \in [0 .. n -> Nat] /\ f[0] = 0 /\ \A k \in 1 .. n : f[k] = step[k][f[k - 1]]
  BY <1>2 DEF IsRecursion
<1>3. \A k \in 0 .. n : f[k] = IF k = 0 THEN 0 ELSE f[k - 1] + Size(k)
  <2> TAKE k \in 0 .. n
  <2>1. CASE k = 0
    BY <1>r, <2>1
  <2>2. CASE k # 0
    <3>1. k \in 1 .. n /\ k - 1 \in 0 .. n
      BY <1>1, <2>2
    <3>2. f[k - 1] \in Nat
      BY <1>r, <3>1
    <3>3. step[k][f[k - 1]] = f[k - 1] + Size(k)
      BY <3>1, <3>2
    <3> QED
      BY <1>r, <2>2, <3>1, <3>3
  <2> QED
    BY <2>1, <2>2
<1>4. Is(f)
  BY <1>r, <1>3
<1>5. Offset = CHOOSE g : Is(g)
  BY DEF Offset
<1> HIDE DEF Is
<1>6. Is(Offset)
  BY <1>4, <1>5
<1> QED
  BY <1>6 DEF Is

\* Lines follow each other, and each takes some bytes.
LEMMA OffsetFacts ==
    ASSUME file \in Seq(Line(format)), EndsInBytes
    PROVE  /\ Len(file) \in Nat /\ DOMAIN file = 1 .. Len(file)
           /\ Offset \in [0 .. Len(file) -> Nat] /\ Offset[0] = 0
           /\ \A n \in 1 .. Len(file) : Offset[n] = Offset[n - 1] + Size(n)
           /\ \A m, n \in 0 .. Len(file) : m < n => Offset[m] < Offset[n]
<1> DEFINE last == Len(file)
           S == {n \in Nat : n <= last => Offset[n] \in Nat}
<1>1. last \in Nat /\ DOMAIN file = 1 .. last
  OBVIOUS
<1> HIDE DEF last
<1>2. Offset = [n \in 0 .. last |-> IF n = 0 THEN 0 ELSE Offset[n - 1] + Size(n)]
  BY OffsetIsSum DEF last
<1>3. Offset[0] = 0 /\ \A n \in 1 .. last : Offset[n] = Offset[n - 1] + Size(n)
  <2>1. \A n \in 0 .. last : Offset[n] = IF n = 0 THEN 0 ELSE Offset[n - 1] + Size(n)
    BY <1>2
  <2> QED
    BY <1>1, <2>1
<1>4. \A n \in 1 .. last : Size(n) \in Nat /\ Size(n) >= 1
  BY SizeType DEF last
<1>5. S = Nat
  <2>1. 0 \in S
    BY <1>3
  <2>2. ASSUME NEW n \in S PROVE n + 1 \in S
    <3> SUFFICES ASSUME n + 1 <= last PROVE Offset[n + 1] \in Nat
      BY <2>2
    <3>1. n + 1 \in 1 .. last /\ (n + 1) - 1 = n /\ Offset[n] \in Nat
      BY <1>1, <2>2
    <3> QED
      BY <1>3, <1>4, <3>1
  <2>3. S \in SUBSET Nat
    OBVIOUS
  <2> HIDE DEF S
  <2> QED
    BY <2>1, <2>2, <2>3, SetInduction
<1>6. \A n \in 0 .. last : Offset[n] \in Nat
  BY <1>1, <1>5
<1>7. Offset \in [0 .. last -> Nat]
  <2>1. DOMAIN Offset = 0 .. last
    BY <1>2
  <2>2. Offset = [n \in 0 .. last |-> Offset[n]]
    BY <1>2, <2>1
  <2> QED
    BY <1>6, <2>2
<1>8. ASSUME NEW m \in 0 .. last, NEW n \in 0 .. last, m < n PROVE Offset[m] < Offset[n]
  <2> DEFINE T == {k \in Nat : m + 1 + k <= last => Offset[m] < Offset[m + 1 + k]}
  <2>1. 0 \in T
    <3> SUFFICES ASSUME m + 1 <= last PROVE Offset[m] < Offset[m + 1]
      BY <1>8
    <3>1. m + 1 \in 1 .. last /\ (m + 1) - 1 = m /\ Offset[m] \in Nat
      BY <1>1, <1>6
    <3> QED
      BY <1>3, <1>4, <3>1
  <2>2. ASSUME NEW k \in T PROVE k + 1 \in T
    <3> DEFINE j == m + 1 + k
    <3> SUFFICES ASSUME j + 1 <= last PROVE Offset[m] < Offset[j + 1]
      BY <2>2
    <3>1. /\ j + 1 \in 1 .. last /\ (j + 1) - 1 = j /\ Offset[m] < Offset[j]
          /\ Offset[m] \in Nat /\ Offset[j] \in Nat
      BY <1>1, <1>6, <2>2
    <3> HIDE DEF j
    <3>2. Offset[j + 1] = Offset[j] + Size(j + 1) /\ Size(j + 1) \in Nat
      BY <1>3, <1>4, <3>1
    <3> QED
      BY <3>1, <3>2
  <2>3. T = Nat
    <3>1. T \in SUBSET Nat
      OBVIOUS
    <3> HIDE DEF T
    <3> QED
      BY <2>1, <2>2, <3>1, SetInduction
  <2> DEFINE k == n - m - 1
  <2>4. k \in Nat /\ m + 1 + k = n /\ n <= last
    BY <1>1, <1>8
  <2> HIDE DEF k
  <2>5. k \in T
    BY <2>3, <2>4
  <2> QED
    BY <2>4, <2>5
<1> QED
  BY <1>1, <1>3, <1>7, <1>8 DEF last

\* The least of some numbers is one of them.
LEMMA MinIsLeast ==
    ASSUME NEW S \in SUBSET Nat, S # {}
    PROVE  Min(S) \in S /\ \A n \in S : Min(S) <= n
BY LeastNatural DEF Min

\* The last of some lines is the Max of their numbers.
LEMMA MaxIsLast ==
    ASSUME NEW S \in SUBSET Nat, NEW n \in S, \A m \in S : m <= n
    PROVE  Max(S) = n
<1>1. Max(S) \in S /\ \A m \in S : m <= Max(S)
  BY DEF Max
<1>2. Max(S) \in Nat /\ n \in Nat /\ n <= Max(S) /\ Max(S) <= n
  BY <1>1
<1> QED
  BY <1>2

(***************************************************************************)
(* What can be read of the file, and reading its next line.                *)
(***************************************************************************)
\* The bytes that can be read end with the file, the limit or the error.
LEMMA AvailableFacts ==
    ASSUME TypeOK
    PROVE  /\ FileSize \in Nat /\ Available \in Nat
           /\ Available <= FileSize /\ Available <= Limit
           /\ failAt # Nil => failAt \in Nat /\ failAt <= FileSize /\ Available <= failAt
           /\ \/ Available = FileSize \/ Available = Limit
              \/ failAt # Nil /\ Available = failAt
<1> DEFINE S == {FileSize, Limit} \cup IF failAt = Nil THEN {} ELSE {failAt}
<1>1. FileSize \in Nat /\ MaxFileSize \in Nat
  <2>1. file \in Seq(Line(format)) /\ EndsInBytes
    BY DEF TypeOK
  <2>2. Offset \in [0 .. Len(file) -> Nat] /\ Len(file) \in 0 .. Len(file)
    BY <2>1, OffsetFacts
  <2> QED
    BY <2>2, ParserAssumption DEF FileSize
<1>2. failAt # Nil => failAt \in Nat /\ failAt <= FileSize
  BY <1>1 DEF TypeOK
<1>3. S \in SUBSET Nat /\ S # {}
  BY <1>1, <1>2 DEF Limit
<1>4. Available = Min(S)
  BY DEF Available
<1>5. Available \in S /\ \A x \in S : Available <= x
  BY <1>3, <1>4, MinIsLeast
<1> QED
  BY <1>1, <1>2, <1>3, <1>5

\* A line is only read where there is one.  It is read to its end, or cut by the limit
\* or the error.
LEMMA ReadFacts ==
    ASSUME TypeOK, ScanInv, outcome = "scanning", totalBytes < Available
    PROVE  /\ lineNum \in Nat /\ lineNum + 1 \in 1 .. Len(file)
           /\ totalBytes = Offset[lineNum] /\ totalBytes \in Nat
           /\ Bytes \in Nat /\ Bytes >= 1 /\ totalBytes + Bytes <= Available
           /\ \/ Bytes = Size(lineNum + 1) /\ totalBytes + Bytes = Offset[lineNum + 1]
              \/ /\ Bytes < Size(lineNum + 1) /\ totalBytes + Bytes < Offset[lineNum + 1]
                 /\ totalBytes + Bytes = Available
                 /\ totalBytes + Bytes <= MaxFileSize =>
                      failAt # Nil /\ failAt = totalBytes + Bytes
<1>1. /\ file \in Seq(Line(format)) /\ EndsInBytes /\ lineNum \in 0 .. Len(file) /\ totalBytes \in Nat
      /\ MaxFileSize \in Nat
  <2>1. FileSize \in Nat /\ totalBytes \in 0 .. FileSize
    BY AvailableFacts DEF TypeOK
  <2> QED
    BY <2>1, ParserAssumption DEF TypeOK
<1>2. /\ Available \in Nat /\ Available <= FileSize
      /\ failAt # Nil => failAt \in Nat /\ Available <= failAt
      /\ \/ Available = FileSize \/ Available = MaxFileSize + 1
         \/ failAt # Nil /\ Available = failAt
  BY AvailableFacts DEF Limit
<1>3. totalBytes = Offset[lineNum]
  BY <1>1, <1>2 DEF ScanInv
<1>4. FileSize = Offset[Len(file)]
  BY DEF FileSize
<1>5. lineNum + 1 \in 1 .. Len(file) /\ Len(file) \in Nat
  BY <1>1, <1>2, <1>3, <1>4, OffsetFacts
<1> DEFINE n == lineNum + 1
<1>6. n \in 1 .. Len(file) /\ n - 1 = lineNum
  BY <1>1, <1>5
<1> HIDE DEF n
<1>7. /\ Size(n) \in Nat /\ Size(n) >= 1
      /\ Offset[n] = totalBytes + Size(n) /\ Offset[n] \in Nat
  BY <1>1, <1>3, <1>6, OffsetFacts, SizeType
<1>8. Offset[n] <= FileSize
  <2>1. n = Len(file) \/ n < Len(file)
    BY <1>5, <1>6
  <2>2. Offset[n] \in Nat /\ (n < Len(file) => Offset[n] < Offset[Len(file)])
    BY <1>1, <1>5, <1>6, OffsetFacts
  <2> QED
    BY <1>4, <2>1, <2>2, AvailableFacts
<1>9. /\ Bytes \in {Size(n), Available - totalBytes}
      /\ Bytes <= Size(n) /\ Bytes <= Available - totalBytes
  <2> DEFINE S == {Size(n), Available - totalBytes}
  <2>1. S \in SUBSET Nat /\ S # {}
    BY <1>1, <1>2, <1>7
  <2>2. Bytes = Min(S)
    BY DEF Bytes, n
  <2> QED
    BY <2>1, <2>2, MinIsLeast
<1>10. FileSize \in Nat
  BY AvailableFacts
<1>11. Bytes \in Nat /\ Bytes >= 1 /\ totalBytes + Bytes <= Available
  BY <1>1, <1>2, <1>7, <1>9
<1>12. CASE Bytes = Size(n)
  BY <1>1, <1>3, <1>5, <1>7, <1>11, <1>12 DEF n
<1>13. CASE Bytes # Size(n)
  <2>1. /\ Bytes = Available - totalBytes /\ Bytes < Size(n)
        /\ totalBytes + Bytes = Available /\ totalBytes + Bytes < Offset[n]
    BY <1>1, <1>2, <1>7, <1>9, <1>11, <1>13
  <2>2. totalBytes + Bytes <= MaxFileSize => failAt # Nil /\ failAt = totalBytes + Bytes
    <3>1. Available < FileSize
      BY <1>2, <1>7, <1>8, <1>10, <2>1
    <3> QED
      BY <1>1, <1>2, <2>1, <3>1
  <2> QED
    BY <1>1, <1>3, <1>5, <1>11, <2>1, <2>2 DEF n
<1> QED
  BY <1>12, <1>13

\* A line that is cut is indented as the whole one, and has some text.
LEMMA NextLineFacts ==
    ASSUME file[lineNum + 1] \in Line(format), NEW line \in NextLine
    PROVE  line.indented = file[lineNum + 1].indented /\ line.text \in Texts(format)
<1> DEFINE R    == [text : Texts(format), length : Lengths,
                    indented : IF format = "headers" THEN BOOLEAN ELSE {FALSE}]
           full == file[lineNum + 1]
<1>1. full \in R /\ "skip" \in Texts(format)
  BY DEF Line, Texts
<1>2. \/ line = full
      \/ \E text \in Texts(format) : line = [full EXCEPT !.length = Bytes, !.text = text]
  BY <1>1 DEF NextLine
<1> HIDE DEF full
<1>3. CASE line = full
  BY <1>1, <1>3 DEF full
<1>4. ASSUME NEW text \in Texts(format), line = [full EXCEPT !.length = Bytes, !.text = text]
      PROVE  line.indented = full.indented /\ line.text = text
  BY <1>1, <1>4
<1> QED
  BY <1>2, <1>3, <1>4 DEF full

\* A line read to its end is the one in the file.
LEMMA WholeLineIsRead ==
    ASSUME TypeOK, lineNum + 1 \in 1 .. Len(file), Bytes = Size(lineNum + 1)
    PROVE  NextLine = {file[lineNum + 1]}
<1>1. Size(lineNum + 1) \in Nat /\ file[lineNum + 1] \in Line(format)
  BY SizeType DEF TypeOK
<1>2. file[lineNum + 1].length \in Nat
  BY <1>1, ParserAssumption DEF Line
<1>3. Bytes >= file[lineNum + 1].length
  BY <1>1, <1>2 DEF Size
<1> QED
  BY <1>3 DEF NextLine

\* What the text of the file says stays what it is,
LEMMA FileStays ==
    ASSUME UNCHANGED input
    PROVE  /\ format' = format /\ maxRules' = maxRules /\ file' = file
           /\ terminated' = terminated /\ EndsInBytes' = EndsInBytes
           /\ Offset' = Offset /\ FileSize' = FileSize /\ \A n : Owner(n)' = Owner(n)
<1>1. format' = format /\ maxRules' = maxRules /\ file' = file /\ terminated' = terminated
  BY DEF input
<1>2. Offset' = Offset
  BY <1>1 DEF Offset, Size
<1> QED
  BY <1>1, <1>2 DEF FileSize, Owner, EndsInBytes

\* and so does what can be read of it, where no error happens.
LEMMA ReadableStays ==
    ASSUME UNCHANGED <<input, failAt>>
    PROVE  /\ Available' = Available /\ RuleLines' = RuleLines /\ Kept' = Kept
           /\ Clean' = Clean
           /\ \A n : /\ Whole(n)' = Whole(n) /\ Headers(n)' = Headers(n)
                     /\ Flawed(n)' = Flawed(n)
                     /\ \A m : LongComments(m, n)' = LongComments(m, n)
<1>1. /\ format' = format /\ maxRules' = maxRules /\ file' = file /\ terminated' = terminated
      /\ Offset' = Offset /\ FileSize' = FileSize /\ \A n : Owner(n)' = Owner(n)
      /\ failAt' = failAt
  BY FileStays
<1>2. /\ Available' = Available /\ \A n : Whole(n)' = Whole(n)
      /\ \A m, n : LongComments(m, n)' = LongComments(m, n)
      /\ \A n : Flawed(n)' = Flawed(n)
  BY <1>1 DEF Available, Whole, Limit, LongComments, Flawed, IsRuleText
<1>3. \A n : Usable(n)' = Usable(n) /\ IsRuleText(n)' = IsRuleText(n)
  BY <1>1, <1>2 DEF Usable, IsRuleText
<1>4. RuleLines' = RuleLines
  BY <1>1, <1>3 DEF RuleLines
<1>5. \A n : Before(n)' = Before(n)
  BY <1>1, <1>4 DEF Before
<1>6. Kept' = Kept /\ \A m : Headers(m)' = Headers(m)
  BY <1>1, <1>3, <1>4, <1>5 DEF Kept, Headers
<1>7. Clean' = Clean
  BY <1>1, <1>3, <1>4 DEF Clean
<1> QED
  BY <1>2, <1>4, <1>6, <1>7

(***************************************************************************)
(* The types of the variables, and where the scan is.                      *)
(***************************************************************************)
RuleSeq(n)    == Seq([line : 1 .. n, ops : Seq(1 .. n)])
WarningSeq(n) == Seq([line : 0 .. n, nonStrict : BOOLEAN])

\* Rules and warnings of the first lines are some of the first lines and the next.
LEMMA MoreLines ==
    ASSUME NEW n \in Nat
    PROVE  RuleSeq(n) \subseteq RuleSeq(n + 1) /\ WarningSeq(n) \subseteq WarningSeq(n + 1)
<1>1. 1 .. n \subseteq 1 .. n + 1 /\ 0 .. n \subseteq 0 .. n + 1
  OBVIOUS
<1>2. Seq(1 .. n) \subseteq Seq(1 .. n + 1)
  BY <1>1
<1>3. [line : 1 .. n, ops : Seq(1 .. n)] \subseteq [line : 1 .. n + 1, ops : Seq(1 .. n + 1)]
  BY <1>1, <1>2
<1>4. [line : 0 .. n, nonStrict : BOOLEAN] \subseteq [line : 0 .. n + 1, nonStrict : BOOLEAN]
  BY <1>1
<1>5. \A S, T : S \subseteq T => Seq(S) \subseteq Seq(T)
  OBVIOUS
<1> QED
  BY <1>3, <1>4, <1>5 DEF RuleSeq, WarningSeq

\* What every step that reads a line has in common.
LEMMA ReadTypes ==
    ASSUME TypeOK, ScanInv, ReadLine
    PROVE  /\ UNCHANGED <<input, failAt, strict>>
           /\ Offset' = Offset /\ FileSize' = FileSize
           /\ lineNum \in Nat /\ lineNum' = lineNum + 1 /\ lineNum' \in 1 .. Len(file)
           /\ totalBytes' = totalBytes + Bytes /\ totalBytes' \in 0 .. FileSize
           /\ rules \in RuleSeq(lineNum') /\ warnings \in WarningSeq(lineNum')
<1>1. /\ UNCHANGED <<input, failAt, strict>> /\ outcome = "scanning" /\ totalBytes < Available
      /\ lineNum' = lineNum + 1 /\ totalBytes' = totalBytes + Bytes
  BY DEF ReadLine, Scanning
<1>2. /\ lineNum \in Nat /\ lineNum + 1 \in 1 .. Len(file) /\ totalBytes \in Nat /\ Bytes \in Nat
      /\ totalBytes + Bytes <= Available
  BY <1>1, ReadFacts
<1>3. Available <= FileSize /\ FileSize \in Nat /\ Available \in Nat
  BY AvailableFacts
<1>4. totalBytes' \in 0 .. FileSize
  BY <1>1, <1>2, <1>3
<1>5. rules \in RuleSeq(lineNum) /\ warnings \in WarningSeq(lineNum)
  BY DEF TypeOK, RuleSeq, WarningSeq
<1> QED
  BY <1>1, <1>2, <1>4, <1>5, MoreLines, FileStays

\* Reading keeps the types.
LEMMA TypeRead ==
    ASSUME TypeOK, ScanInv, ReadLine,
           rules' \in RuleSeq(lineNum'), Len(rules') <= maxRules,
           warnings' \in WarningSeq(lineNum'), current' \in 0 .. Len(rules'),
           outcome' \in {"scanning", "parsed"}
    PROVE  TypeOK'
<1>1. /\ UNCHANGED <<input, failAt, strict>> /\ FileSize' = FileSize
      /\ lineNum' \in 1 .. Len(file) /\ totalBytes' \in 0 .. FileSize
  BY ReadTypes
<1>2. lineNum' \in 0 .. Len(file) /\ EndsInBytes' = EndsInBytes
  BY <1>1, FileStays
<1> QED
  BY <1>1, <1>2 DEF TypeOK, RuleSeq, WarningSeq, input

\* A warning of the line read.
LEMMA WarningType ==
    ASSUME TypeOK, NEW n \in Nat, warnings \in WarningSeq(n), NEW m \in 0 .. n
    PROVE  Warn(m) \in WarningSeq(n) /\ WarnOnly(m) \in WarningSeq(n)
BY DEF WarningSeq, Warn, WarnOnly

\* A header of the line read.
LEMMA AddOpType ==
    ASSUME NEW n \in Nat, NEW list \in RuleSeq(n + 1), NEW k \in 1 .. Len(list)
    PROVE  /\ [list EXCEPT ![k].ops = Append(@, n + 1)] \in RuleSeq(n + 1)
           /\ Len([list EXCEPT ![k].ops = Append(@, n + 1)]) = Len(list)
<1> DEFINE R == [line : 1 .. n + 1, ops : Seq(1 .. n + 1)]
           more == [list[k] EXCEPT !.ops = Append(@, n + 1)]
<1>1. list \in Seq(R) /\ RuleSeq(n + 1) = Seq(R)
  BY DEF RuleSeq
<1>2. list[k] \in R
  <2> HIDE DEF R
  <2> QED
    BY <1>1
<1>3. Append(list[k].ops, n + 1) \in Seq(1 .. n + 1)
  <2>1. list[k].ops \in Seq(1 .. n + 1) /\ n + 1 \in 1 .. n + 1
    BY <1>2
  <2> QED
    BY <2>1
<1>4. more \in R
  BY <1>2, <1>3
<1>5. [list EXCEPT ![k].ops = Append(@, n + 1)] = [list EXCEPT ![k] = more]
  OBVIOUS
<1> HIDE DEF R, more
<1>6. [list EXCEPT ![k] = more] \in Seq(R) /\ Len([list EXCEPT ![k] = more]) = Len(list)
  BY <1>1, <1>4
<1> QED
  BY <1>1, <1>5, <1>6

\* Every step keeps the types.
LEMMA TypeStep ==
    ASSUME TypeOK, ScanInv, [Next]_vars
    PROVE  TypeOK'
<1>1. /\ Len(rules) \in Nat /\ current \in 0 .. Len(rules) /\ Len(rules) <= maxRules
      /\ maxRules \in Nat
  BY ParserAssumption DEF TypeOK
<1>2. ASSUME ReadLine, rules' = rules, current' \in {0, current},
             warnings' \in {warnings, Warn(lineNum + 1), WarnOnly(lineNum + 1)},
             outcome' \in {"scanning", "parsed"}
      PROVE  TypeOK'
  <2>1. /\ rules' \in RuleSeq(lineNum') /\ warnings \in WarningSeq(lineNum')
        /\ lineNum' = lineNum + 1 /\ lineNum \in Nat
    BY <1>2, ReadTypes
  <2>2. warnings' \in WarningSeq(lineNum')
    BY <1>2, <2>1, WarningType
  <2> QED
    BY <1>1, <1>2, <2>1, <2>2, TypeRead
<1>3. ASSUME NEW byte \in 0 .. FileSize, ReadFails(byte) PROVE TypeOK'
  <2>1. FileSize' = FileSize /\ file' = file /\ format' = format /\ maxRules' = maxRules
        /\ terminated' = terminated /\ EndsInBytes' = EndsInBytes
    BY <1>3, FileStays DEF ReadFails
  <2> QED
    BY <1>3, <2>1 DEF ReadFails, TypeOK
<1>4. CASE EndOfFile
  <2>1. FileSize' = FileSize /\ file' = file /\ format' = format /\ maxRules' = maxRules
        /\ terminated' = terminated /\ EndsInBytes' = EndsInBytes
    BY <1>4, FileStays DEF EndOfFile, Scanning
  <2>2. warnings' \in WarningSeq(lineNum)
    <3>1. warnings \in WarningSeq(lineNum) /\ lineNum \in Nat
      BY DEF TypeOK, WarningSeq
    <3> QED
      BY <1>4, <3>1, WarningType DEF EndOfFile
  <2> QED
    BY <1>4, <2>1, <2>2 DEF EndOfFile, Scanning, TypeOK, WarningSeq
<1>5. CASE FileTooLarge
  BY <1>2, <1>5 DEF FileTooLarge
<1>6. CASE OverlongLine
  BY <1>2, <1>6 DEF OverlongLine, CurrentAfterOverlong, ReadLine, Scanning
<1>7. CASE SkipLine
  BY <1>2, <1>7 DEF SkipLine, Parsing, ReadLine, Scanning
<1>8. CASE OrphanHeader
  BY <1>2, <1>8 DEF OrphanHeader, Parsing, ReadLine, Scanning
<1>9. CASE InvalidHeader
  BY <1>2, <1>9 DEF InvalidHeader, Parsing, ReadLine, Scanning
<1>10. CASE AddHeader
  <2>1. ReadLine /\ current # 0 /\ outcome' = "scanning"
        /\ rules' = [rules EXCEPT ![current].ops = Append(@, lineNum + 1)]
        /\ warnings' = warnings /\ current' = current
    BY <1>10 DEF AddHeader, Parsing, ReadLine, Scanning
  <2>2. /\ rules \in RuleSeq(lineNum') /\ warnings \in WarningSeq(lineNum')
        /\ lineNum' = lineNum + 1 /\ lineNum \in Nat
    BY <2>1, ReadTypes
  <2>3. rules' \in RuleSeq(lineNum') /\ Len(rules') = Len(rules)
    <3>1. current \in 1 .. Len(rules) /\ lineNum' \in Nat
      BY <1>1, <2>1, <2>2
    <3> QED
      BY <2>1, <2>2, <3>1, AddOpType
  <2> QED
    BY <1>1, <2>1, <2>2, <2>3, TypeRead
<1>11. CASE InvalidRule
  BY <1>2, <1>11 DEF InvalidRule, Parsing, ReadLine, Scanning, CurrentAfterReject
<1>12. CASE UnsupportedRule
  BY <1>2, <1>12 DEF UnsupportedRule, Parsing, ReadLine, Scanning
<1>13. CASE TooManyRules
  BY <1>2, <1>13 DEF TooManyRules, Parsing
<1>14. CASE AddRule
  <2>1. ReadLine /\ outcome' = "scanning" /\ Len(rules) < maxRules
        /\ rules' = Append(rules, [line |-> lineNum + 1, ops |-> <<>>])
        /\ warnings' = warnings /\ current' \in {0, Len(rules) + 1}
    BY <1>1, <1>14 DEF AddRule, Parsing, ReadLine, Scanning, Full
  <2>2. /\ rules \in RuleSeq(lineNum') /\ warnings \in WarningSeq(lineNum')
        /\ lineNum' = lineNum + 1 /\ lineNum \in Nat
    BY <2>1, ReadTypes
  <2>3. rules' \in RuleSeq(lineNum') /\ Len(rules') = Len(rules) + 1
    BY <2>1, <2>2 DEF RuleSeq
  <2> QED
    BY <1>1, <2>1, <2>2, <2>3, TypeRead
<1>15. CASE Load
  <2>1. FileSize' = FileSize /\ file' = file /\ format' = format /\ maxRules' = maxRules
        /\ terminated' = terminated /\ EndsInBytes' = EndsInBytes
    BY <1>15, FileStays DEF Load
  <2> QED
    BY <1>15, <2>1 DEF Load, TypeOK
<1>16. CASE UNCHANGED vars
  <2>1. FileSize' = FileSize /\ file' = file /\ format' = format /\ maxRules' = maxRules
        /\ terminated' = terminated /\ EndsInBytes' = EndsInBytes
    BY <1>16, FileStays DEF vars
  <2> QED
    BY <1>16, <2>1 DEF vars, TypeOK
<1> QED
  BY <1>3, <1>4, <1>5, <1>6, <1>7, <1>8, <1>9, <1>10, <1>11, <1>12, <1>13, <1>14, <1>15,
     <1>16 DEF Next

\* A line that is parsed ends at the end of a line, or where reading failed.
LEMMA ScanRead ==
    ASSUME TypeOK, ScanInv, ReadLine
    PROVE  /\ totalBytes' <= Available'
           /\ totalBytes' <= MaxFileSize =>
                \/ totalBytes' = Offset'[lineNum']
                \/ /\ lineNum' > 0 /\ failAt' # Nil /\ totalBytes' = failAt'
                   /\ Offset'[lineNum' - 1] <= totalBytes' /\ totalBytes' < Offset'[lineNum']
<1>1. /\ UNCHANGED <<input, failAt>> /\ Offset' = Offset
      /\ lineNum \in Nat /\ lineNum' = lineNum + 1 /\ totalBytes' = totalBytes + Bytes
  BY ReadTypes
<1>2. outcome = "scanning" /\ totalBytes < Available
  BY DEF ReadLine, Scanning
<1>3. Available' = Available /\ lineNum' - 1 = lineNum
  BY <1>1, ReadableStays
<1>4. /\ totalBytes = Offset[lineNum] /\ totalBytes \in Nat
      /\ Bytes \in Nat /\ totalBytes + Bytes <= Available
      /\ \/ totalBytes + Bytes = Offset[lineNum + 1]
         \/ /\ totalBytes + Bytes < Offset[lineNum + 1]
            /\ totalBytes + Bytes <= MaxFileSize =>
                 failAt # Nil /\ failAt = totalBytes + Bytes
  BY <1>2, ReadFacts
<1> QED
  BY <1>1, <1>3, <1>4

\* The scan stays where ScanInv says.
LEMMA ScanStep ==
    ASSUME TypeOK, ScanInv, [Next]_vars
    PROVE  ScanInv'
<1>1. ASSUME NEW byte \in 0 .. FileSize, ReadFails(byte) PROVE ScanInv'
  <2>1. /\ outcome = "scanning" /\ failAt = Nil /\ failAt' = byte /\ byte >= totalBytes
        /\ lineNum' = lineNum /\ totalBytes' = totalBytes /\ outcome' = outcome
        /\ UNCHANGED input
    <3>1. lineNum # Len(file) => byte \in totalBytes .. totalBytes + Size(lineNum + 1) - 1
      BY <1>1 DEF ReadFails
    <3>2. totalBytes \in Nat
      BY AvailableFacts DEF TypeOK
    <3>3. byte >= totalBytes
      BY <1>1, <3>1, <3>2 DEF ReadFails
    <3> QED
      BY <1>1, <3>3 DEF ReadFails
  <2>2. totalBytes <= MaxFileSize /\ totalBytes = Offset[lineNum] /\ totalBytes <= Available
    BY <2>1 DEF ScanInv
  <2>3. Offset' = Offset /\ FileSize' = FileSize
    BY <2>1, FileStays
  <2>4. totalBytes <= Available'
    <3> DEFINE S == {FileSize, Limit, byte}
    <3>1. /\ FileSize \in Nat /\ Limit \in Nat /\ Available \in Nat /\ totalBytes \in Nat
          /\ Available <= FileSize /\ Available <= Limit
      <4>1. totalBytes \in 0 .. FileSize /\ MaxFileSize \in Nat
        BY ParserAssumption DEF TypeOK
      <4>2. /\ FileSize \in Nat /\ Available \in Nat
            /\ Available <= FileSize /\ Available <= Limit
        BY AvailableFacts
      <4> QED
        BY <4>1, <4>2 DEF Limit
    <3>2. byte \in Nat /\ byte # Nil
      BY <3>1, ParserAssumption
    <3>3. Available' = Min(S)
      BY <2>1, <2>3, <3>2 DEF Available, Limit
    <3>4. Min(S) \in S
      BY <3>1, <3>2, MinIsLeast
    <3> QED
      BY <2>1, <2>2, <3>1, <3>2, <3>3, <3>4
  <2> QED
    BY <2>1, <2>2, <2>3, <2>4 DEF ScanInv
<1>2. CASE EndOfFile
  BY <1>2, ReadableStays DEF EndOfFile, Scanning, ScanInv
<1>3. CASE FileTooLarge
  <2>1. ReadLine /\ outcome' = "parsed"
    BY <1>3 DEF FileTooLarge
  <2> QED
    BY <2>1, ScanRead DEF ScanInv
<1>4. ASSUME ReadLine, totalBytes + Bytes <= MaxFileSize PROVE ScanInv'
  <2>1. totalBytes' = totalBytes + Bytes
    BY <1>4 DEF ReadLine
  <2> QED
    BY <1>4, <2>1, ScanRead DEF ScanInv
<1>5. CASE OverlongLine
  BY <1>4, <1>5 DEF OverlongLine
<1>6. ASSUME NEW text, Parsing(text) PROVE ScanInv'
  BY <1>4, <1>6 DEF Parsing
<1>7. CASE Load
  BY <1>7, ReadableStays DEF Load, ScanInv
<1>8. CASE UNCHANGED vars
  <2>1. Available' = Available /\ Offset' = Offset
    BY <1>8, ReadableStays, FileStays DEF vars
  <2> QED
    BY <1>8, <2>1 DEF vars, ScanInv
<1> QED
  BY <1>1, <1>2, <1>3, <1>5, <1>6, <1>7, <1>8 DEF Next, SkipLine, OrphanHeader, InvalidHeader,
     AddHeader, InvalidRule, UnsupportedRule, TooManyRules, AddRule

\* A scan starts at the first line.
LEMMA ScanStarts == Init => TypeOK /\ ScanInv
<1> SUFFICES ASSUME Init PROVE TypeOK /\ ScanInv
  OBVIOUS
<1>1. file \in Seq(Line(format)) /\ EndsInBytes /\ maxRules \in Nat /\ MaxFileSize \in Nat
  <2>1. PICK m \in 0 .. MaxLines : file \in [1 .. m -> Line(format)]
    BY DEF Init, BoundedSeq, SeqOf
  <2>2. file \in Seq(Line(format)) /\ EndsInBytes
    BY <2>1, ParserAssumption DEF Init
  <2> QED
    BY <2>2, ParserAssumption DEF Init
<1>2. FileSize \in Nat /\ Offset[0] = 0 /\ Limit \in Nat
  BY <1>1, OffsetFacts DEF FileSize, Limit
<1>3. TypeOK
  BY <1>1, <1>2, OffsetFacts DEF Init, TypeOK
<1>4. 0 <= Available
  BY <1>3, AvailableFacts
<1> QED
  BY <1>1, <1>2, <1>3, <1>4 DEF Init, ScanInv

\* Both hold throughout.
LEMMA ScanHolds == Spec => [](TypeOK /\ ScanInv)
<1>1. Init => TypeOK /\ ScanInv
  BY ScanStarts
<1>2. TypeOK /\ ScanInv /\ [Next]_vars => (TypeOK /\ ScanInv)'
  BY TypeStep, ScanStep
<1> QED
  BY <1>1, <1>2, PTL DEF Spec

\* Every variable keeps its type: no rule, header or warning names a line that was not read,
\* and there are never more rules than the limit.
THEOREM ParserTypes == Spec => []TypeOK
BY ScanHolds, PTL

(***************************************************************************)
(* The rule a line stands under.                                           *)
(***************************************************************************)
\* The owner of a line is above it.
LEMMA OwnerFacts ==
    ASSUME NEW n \in Nat, n >= 1
    PROVE  \/ /\ Owner(n) = 0
              /\ \A m \in 1 .. n - 1 : file[m].indented \/ file[m].text = "skip"
           \/ /\ Owner(n) \in 1 .. n - 1
              /\ ~file[Owner(n)].indented /\ file[Owner(n)].text # "skip"
<1> DEFINE above == {m \in 1 .. n - 1 : ~file[m].indented /\ file[m].text # "skip"}
<1>1. Owner(n) = IF above = {} THEN 0 ELSE Max(above)
  BY DEF Owner
<1>2. CASE above = {}
  BY <1>1, <1>2
<1>3. CASE above # {}
  <2>1. above \in SUBSET (0 .. n) /\ above \in SUBSET Nat
    OBVIOUS
  <2>2. PICK k \in above : \A m \in above : m <= k
    <3> HIDE DEF above
    <3> QED
      BY <1>3, <2>1, GreatestNatural
  <2>3. Max(above) = k
    <3> HIDE DEF above
    <3> QED
      BY <2>1, <2>2, MaxIsLast
  <2> QED
    BY <1>1, <1>3, <2>2, <2>3
<1> QED
  BY <1>2, <1>3

\* A line that is neither indented nor blank nor a comment owns the next; any other
\* leaves it to its own owner.
LEMMA OwnerOfNext ==
    ASSUME NEW n \in Nat, n >= 1
    PROVE  Owner(n + 1) = IF ~file[n].indented /\ file[n].text # "skip" THEN n ELSE Owner(n)
<1> DEFINE above(k) == {m \in 1 .. k - 1 : ~file[m].indented /\ file[m].text # "skip"}
<1>1. \A k : Owner(k) = IF above(k) = {} THEN 0 ELSE Max(above(k))
  BY DEF Owner
<1>2. (n + 1) - 1 = n /\ \A m : m \in 1 .. n <=> m \in 1 .. n - 1 \/ m = n
  OBVIOUS
<1>3. CASE ~file[n].indented /\ file[n].text # "skip"
  <2>1. above(n + 1) \in SUBSET Nat /\ n \in above(n + 1) /\ \A m \in above(n + 1) : m <= n
    BY <1>2, <1>3
  <2>2. Max(above(n + 1)) = n
    <3> DEFINE S == above(n + 1)
    <3> HIDE DEF S
    <3>1. S \in SUBSET Nat /\ n \in S /\ \A m \in S : m <= n
      BY <2>1 DEF S
    <3>2. Max(S) = n
      BY <3>1, MaxIsLast
    <3> QED
      BY <3>2 DEF S
  <2> QED
    BY <1>1, <1>3, <2>1, <2>2
<1>4. CASE file[n].indented \/ file[n].text = "skip"
  <2>1. above(n + 1) = above(n)
    BY <1>2, <1>4
  <2> QED
    BY <1>1, <1>4, <2>1
<1> QED
  BY <1>3, <1>4

\* A header that comes next would stand under the same rule, unless the line in between is a
\* pattern or an overlong comment.
LEMMA UnderTheRule ==
    ASSUME file \in Seq(Line(format)), format = "headers", NEW n \in 1 .. Len(file),
           NEW m \in 1 .. n - 1
    PROVE  (Owner(n + 1) = m /\ LongComments(m, n) = {}) <=>
             /\ Owner(n) = m /\ LongComments(m, n - 1) = {}
             /\ \/ file[n].indented
                \/ file[n].text = "skip" /\ file[n].length <= MaxLineLength
<1>1. /\ n \in Nat /\ n >= 1 /\ m # n
      /\ \A j : j \in m .. n <=> j \in m .. n - 1 \/ j = n
  OBVIOUS
<1>2. file[n] \in Line(format)
  OBVIOUS
<1>3. file[n].indented \in BOOLEAN /\ file[n].length \in Nat /\ MaxLineLength \in Nat
  BY <1>2, ParserAssumption DEF Line
<1>4. Owner(n + 1) = IF ~file[n].indented /\ file[n].text # "skip" THEN n ELSE Owner(n)
  BY <1>1, OwnerOfNext
<1> DEFINE long(j) == /\ file[j].text = "skip" /\ ~file[j].indented
                      /\ file[j].length > MaxLineLength
<1>5. LongComments(m, n) = {} <=> LongComments(m, n - 1) = {} /\ ~long(n)
  <2>1. \A k : LongComments(m, k) = {j \in m .. k : long(j)}
    BY DEF LongComments
  <2> HIDE DEF long
  <2> QED
    BY <1>1, <2>1
<1> QED
  BY <1>1, <1>3, <1>4, <1>5

(***************************************************************************)
(* Lines read to their end.                                                *)
(***************************************************************************)
\* A line is whole when it ends within the limit and before the error.
LEMMA WholeFacts ==
    ASSUME TypeOK
    PROVE  \A n : Offset[n] \in Nat =>
             (Whole(n) <=> /\ Offset[n] <= MaxFileSize
                           /\ failAt # Nil => Offset[n] <= failAt)
<1> SUFFICES ASSUME NEW n, Offset[n] \in Nat
             PROVE  Whole(n) <=> /\ Offset[n] <= MaxFileSize
                                 /\ failAt # Nil => Offset[n] <= failAt
  OBVIOUS
<1> DEFINE S == {MaxFileSize} \cup IF failAt = Nil THEN {} ELSE {failAt}
<1>1. MaxFileSize \in Nat /\ (failAt # Nil => failAt \in Nat)
  BY AvailableFacts, ParserAssumption
<1>2. S \in SUBSET Nat /\ S # {}
  BY <1>1
<1>3. Min(S) \in S /\ \A x \in S : Min(S) <= x
  BY <1>2, MinIsLeast
<1>4. Whole(n) <=> Offset[n] <= Min(S)
  BY DEF Whole
<1> QED
  BY <1>1, <1>3, <1>4

\* Of the lines read only the last can have been cut, by the error.
LEMMA OnlyTheLastIsCut ==
    ASSUME TypeOK, ScanInv, outcome = "scanning", NEW n \in 1 .. lineNum
    PROVE  \/ Whole(n)
           \/ /\ n = lineNum /\ failAt # Nil /\ failAt = totalBytes
              /\ failAt <= MaxFileSize /\ totalBytes < Offset[lineNum]
<1>1. /\ file \in Seq(Line(format)) /\ EndsInBytes /\ lineNum \in 0 .. Len(file) /\ totalBytes \in Nat
      /\ MaxFileSize \in Nat /\ Available \in Nat /\ Len(file) \in Nat
      /\ failAt # Nil => failAt \in Nat /\ Available <= failAt
  <2>1. totalBytes \in 0 .. FileSize /\ FileSize \in Nat
    BY AvailableFacts DEF TypeOK
  <2> QED
    BY <2>1, AvailableFacts, ParserAssumption DEF TypeOK
<1>2. totalBytes <= Available /\ totalBytes <= MaxFileSize
  BY DEF ScanInv
<1>3. n \in 0 .. Len(file) /\ lineNum \in Nat
  BY <1>1
<1>4. Offset[n] \in Nat /\ Offset[lineNum] \in Nat
  BY <1>1, <1>3, OffsetFacts
<1>5. ASSUME NEW k \in 0 .. lineNum, n <= k, Offset[k] <= totalBytes PROVE Whole(n)
  <2>1. k \in 0 .. Len(file) /\ n \in Nat
    BY <1>1
  <2>2. Offset[k] \in Nat /\ (n < k => Offset[n] < Offset[k])
    BY <1>1, <1>3, <2>1, OffsetFacts
  <2>3. Offset[n] <= totalBytes
    BY <1>1, <1>4, <1>5, <2>1, <2>2
  <2> QED
    BY <1>1, <1>2, <1>4, <2>3, WholeFacts
<1>6. CASE totalBytes = Offset[lineNum]
  BY <1>3, <1>4, <1>5, <1>6
<1>7. CASE /\ lineNum > 0 /\ failAt # Nil /\ totalBytes = failAt
           /\ Offset[lineNum - 1] <= totalBytes /\ totalBytes < Offset[lineNum]
  <2>1. n <= lineNum - 1 => Whole(n)
    BY <1>3, <1>5, <1>7
  <2> QED
    BY <1>2, <1>3, <1>7, <2>1
<1> QED
  BY <1>6, <1>7 DEF ScanInv

\* A line that is read is read as it is, or cut by the limit or the error.
LEMMA ReadCases ==
    ASSUME TypeOK, ScanInv, ReadLine
    PROVE  /\ lineNum + 1 \in 1 .. Len(file) /\ file[lineNum + 1] \in Line(format)
           /\ \/ NextLine = {file[lineNum + 1]} /\ totalBytes' = Offset[lineNum + 1]
              \/ /\ totalBytes' < Offset[lineNum + 1] /\ totalBytes' = Available
                 /\ ~Whole(lineNum + 1)
                 /\ totalBytes' <= MaxFileSize => failAt # Nil
<1>1. outcome = "scanning" /\ totalBytes < Available /\ totalBytes' = totalBytes + Bytes
  BY DEF ReadLine, Scanning
<1> DEFINE n == lineNum + 1
<1>2. n \in 1 .. Len(file) /\ totalBytes \in Nat /\ Bytes \in Nat
  BY <1>1, ReadFacts
<1>3. file \in Seq(Line(format)) /\ EndsInBytes
  BY DEF TypeOK
<1>4. file[n] \in Line(format)
  BY <1>2, <1>3
<1>5. CASE Bytes = Size(n)
  <2>1. totalBytes' = Offset[n]
    <3>1. Size(n) \in Nat /\ ~(Bytes < Size(n))
      BY <1>2, <1>5
    <3> QED
      BY <1>1, <1>5, <3>1, ReadFacts
  <2> QED
    BY <1>2, <1>4, <1>5, <2>1, WholeLineIsRead
<1>6. CASE Bytes # Size(n)
  <2>1. /\ totalBytes' < Offset[n] /\ totalBytes' = Available
        /\ totalBytes' <= MaxFileSize => failAt # Nil /\ failAt = totalBytes'
    BY <1>1, <1>6, ReadFacts
  <2>2. Offset[n] \in Nat /\ MaxFileSize \in Nat
    <3>1. n \in 0 .. Len(file)
      BY <1>2
    <3> QED
      BY <1>3, <3>1, OffsetFacts, ParserAssumption
  <2>3. ~Whole(n)
    BY <1>1, <1>2, <2>1, <2>2, WholeFacts
  <2> QED
    BY <1>2, <1>4, <2>1, <2>3
<1> QED
  BY <1>5, <1>6

(***************************************************************************)
(* Headers stay with their pattern.                                        *)
(***************************************************************************)
\* Every rule is of a line that was read.
LEMMA RuleFacts ==
    ASSUME TypeOK
    PROVE  /\ Len(rules) \in Nat /\ DOMAIN rules = 1 .. Len(rules)
           /\ \A k \in DOMAIN rules :
                /\ rules[k].line \in 1 .. lineNum
                /\ rules[k].ops \in Seq(1 .. lineNum)
<1> DEFINE R == [line : 1 .. lineNum, ops : Seq(1 .. lineNum)]
<1>1. rules \in Seq(R)
  BY DEF TypeOK
<1>2. \A r \in R : r.line \in 1 .. lineNum /\ r.ops \in Seq(1 .. lineNum)
  OBVIOUS
<1> HIDE DEF R
<1>3. \A k \in DOMAIN rules : rules[k] \in R
  BY <1>1
<1> QED
  BY <1>1, <1>2, <1>3

\* What CurrentInv says of the state after a step is about the same file.
LEMMA NextOwner ==
    ASSUME UNCHANGED input
    PROVE  /\ Owner(lineNum + 1)' = Owner(lineNum' + 1)
           /\ \A k : LongComments(rules[k].line, lineNum)' = LongComments(rules'[k].line, lineNum')
BY DEF input, Owner, LongComments

\* What a step that parses a line leaves of CurrentInv to show.
LEMMA CurrentRead ==
    ASSUME TypeOK, ScanInv, CurrentInv, ReadLine, totalBytes' < Available', format = "headers"
    PROVE  /\ NextLine = {file[lineNum + 1]}
           /\ \A k \in DOMAIN rules :
                (/\ rules[k].line = Owner(lineNum' + 1)
                 /\ LongComments(rules[k].line, lineNum') = {}) <=>
                  /\ current = k
                  /\ \/ file[lineNum + 1].indented
                     \/ /\ file[lineNum + 1].text = "skip"
                        /\ file[lineNum + 1].length <= MaxLineLength
<1>1. /\ UNCHANGED <<input, failAt>> /\ lineNum' = lineNum + 1 /\ lineNum \in Nat
  BY ReadTypes
<1>2. outcome = "scanning" /\ totalBytes < Available
  BY DEF ReadLine, Scanning
<1>3. Available' = Available /\ Available \in Nat
  BY <1>1, ReadableStays, AvailableFacts
<1>4. NextLine = {file[lineNum + 1]}
  BY <1>3, ReadCases
<1>5. ASSUME NEW k \in DOMAIN rules
      PROVE  (/\ rules[k].line = Owner(lineNum + 1 + 1)
              /\ LongComments(rules[k].line, lineNum + 1) = {}) <=>
               /\ current = k
               /\ \/ file[lineNum + 1].indented
                  \/ /\ file[lineNum + 1].text = "skip"
                     /\ file[lineNum + 1].length <= MaxLineLength
  <2> DEFINE n == lineNum + 1
             m == rules[k].line
  <2>1. n \in 1 .. Len(file) /\ n - 1 = lineNum /\ m \in 1 .. n - 1
    BY <1>1, <1>5, ReadCases, RuleFacts
  <2>2. file \in Seq(Line(format)) /\ EndsInBytes
    BY DEF TypeOK
  <2>3. current = k <=> m = Owner(n) /\ LongComments(m, lineNum) = {}
    BY <1>2, <1>5 DEF CurrentInv
  <2> HIDE DEF n, m
  <2>4. (Owner(n + 1) = m /\ LongComments(m, n) = {}) <=>
          /\ Owner(n) = m /\ LongComments(m, n - 1) = {}
          /\ \/ file[n].indented
             \/ file[n].text = "skip" /\ file[n].length <= MaxLineLength
    BY <2>1, <2>2, UnderTheRule
  <2>5. (m = Owner(n + 1) /\ LongComments(m, n) = {}) <=>
          /\ current = k
          /\ \/ file[n].indented
             \/ file[n].text = "skip" /\ file[n].length <= MaxLineLength
    BY <2>1, <2>3, <2>4
  <2> QED
    BY <2>5 DEF m, n
<1> QED
  BY <1>1, <1>4, <1>5

\* A line that adds no rule keeps CurrentInv, when it does with the current rule what
\* UnderTheRule says.
LEMMA SameRules ==
    ASSUME TypeOK, ScanInv, CurrentInv, ReadLine,
           DOMAIN rules' = DOMAIN rules, \A k \in DOMAIN rules : rules'[k].line = rules[k].line,
           current' # 0 => format = "headers",
           (format = "headers" /\ NextLine = {file[lineNum + 1]}) =>
             \A k \in DOMAIN rules :
               current' = k <=> /\ current = k
                                /\ \/ file[lineNum + 1].indented
                                   \/ /\ file[lineNum + 1].text = "skip"
                                      /\ file[lineNum + 1].length <= MaxLineLength
    PROVE  CurrentInv'
<1>1. format' = format /\ UNCHANGED input
  BY ReadTypes DEF input
<1>2. Owner(lineNum + 1)' = Owner(lineNum' + 1)
  BY <1>1, NextOwner
<1>3. \A k : LongComments(rules[k].line, lineNum)' = LongComments(rules'[k].line, lineNum')
  BY <1>1, NextOwner
<1>4. ASSUME format = "headers", totalBytes' < Available', NEW k \in DOMAIN rules
      PROVE  current' = k <=> /\ rules'[k].line = Owner(lineNum' + 1)
                              /\ LongComments(rules'[k].line, lineNum') = {}
  <2>1. rules'[k].line = rules[k].line
    OBVIOUS
  <2>2. current' = k <=> /\ current = k
                         /\ \/ file[lineNum + 1].indented
                            \/ /\ file[lineNum + 1].text = "skip"
                               /\ file[lineNum + 1].length <= MaxLineLength
    BY <1>4, CurrentRead
  <2>3. (/\ rules[k].line = Owner(lineNum' + 1)
         /\ LongComments(rules[k].line, lineNum') = {}) <=>
          /\ current = k
          /\ \/ file[lineNum + 1].indented
             \/ /\ file[lineNum + 1].text = "skip"
                /\ file[lineNum + 1].length <= MaxLineLength
    BY <1>4, CurrentRead
  <2> QED
    BY <2>1, <2>2, <2>3
<1> QED
  BY <1>1, <1>2, <1>3, <1>4 DEF CurrentInv

\* A new rule is the current one.
LEMMA CurrentAdd ==
    ASSUME TypeOK, ScanInv, CurrentInv, AddRule
    PROVE  CurrentInv'
<1>1. /\ ReadLine /\ rules' = Append(rules, [line |-> lineNum + 1, ops |-> <<>>])
      /\ ~IsHeader /\ current' = IF format = "headers" THEN Len(rules) + 1 ELSE 0
      /\ \E line \in NextLine : Fits(line) /\ line.text = "valid"
  BY DEF AddRule, Parsing
<1>2. /\ format' = format /\ UNCHANGED input
      /\ lineNum' = lineNum + 1 /\ lineNum \in Nat
  BY <1>1, ReadTypes DEF input
<1>3. Owner(lineNum + 1)' = Owner(lineNum' + 1)
  BY <1>2, NextOwner
<1>4. \A k : LongComments(rules[k].line, lineNum)' = LongComments(rules'[k].line, lineNum')
  BY <1>2, NextOwner
<1>5. Len(rules) \in Nat /\ DOMAIN rules = 1 .. Len(rules) /\ rules \in RuleSeq(lineNum)
  BY RuleFacts DEF TypeOK, RuleSeq
<1>6. /\ DOMAIN rules' = 1 .. Len(rules) + 1 /\ \A k \in DOMAIN rules : rules'[k] = rules[k]
      /\ rules'[Len(rules) + 1] = [line |-> lineNum + 1, ops |-> <<>>]
  BY <1>1, <1>5 DEF RuleSeq
<1>7. ASSUME format = "headers", totalBytes' < Available', NEW k \in 1 .. Len(rules) + 1
      PROVE  current' = k <=> /\ rules'[k].line = Owner(lineNum' + 1)
                              /\ LongComments(rules'[k].line, lineNum') = {}
  <2>1. NextLine = {file[lineNum + 1]}
    BY <1>1, <1>7, CurrentRead
  <2>2. file[lineNum + 1].text = "valid" /\ ~file[lineNum + 1].indented
    BY <1>1, <1>7, <2>1 DEF IsHeader
  <2>3. Owner(lineNum' + 1) = lineNum + 1
    <3>1. lineNum + 1 \in Nat /\ lineNum + 1 >= 1
      BY <1>2
    <3> QED
      BY <1>2, <2>2, <3>1, OwnerOfNext
  <2>4. CASE k = Len(rules) + 1
    <3>1. rules'[k].line = lineNum + 1
      BY <1>6, <2>4
    <3>2. LongComments(lineNum + 1, lineNum + 1) = {}
      BY <1>2, <2>2 DEF LongComments
    <3> QED
      BY <1>1, <1>2, <1>7, <2>3, <2>4, <3>1, <3>2
  <2>5. CASE k # Len(rules) + 1
    <3>1. k \in DOMAIN rules /\ rules'[k] = rules[k]
      BY <1>5, <1>6, <1>7, <2>5
    <3>2. rules[k].line \in 1 .. lineNum
      BY <3>1, RuleFacts
    <3> QED
      BY <1>1, <1>2, <1>7, <2>3, <2>5, <3>1, <3>2
  <2> QED
    BY <2>4, <2>5
<1>8. current' # 0 => format' = "headers"
  BY <1>1, <1>2
<1> QED
  BY <1>2, <1>3, <1>4, <1>6, <1>7, <1>8 DEF CurrentInv

\* CurrentInv is inductive.
LEMMA CurrentStep ==
    ASSUME TypeOK, ScanInv, CurrentInv, [Next]_vars
    PROVE  CurrentInv'
<1>1. ASSUME NEW byte \in 0 .. FileSize, ReadFails(byte) PROVE CurrentInv'
  <2>1. /\ failAt = Nil /\ failAt' = byte /\ UNCHANGED input /\ outcome = "scanning"
        /\ UNCHANGED <<lineNum, totalBytes, rules, current, outcome>>
    BY <1>1 DEF ReadFails
  <2>2. format' = format /\ FileSize' = FileSize
    BY <2>1, FileStays
  <2>3. Owner(lineNum + 1)' = Owner(lineNum + 1)
    BY <2>1, NextOwner
  <2>4. \A k : LongComments(rules[k].line, lineNum)' = LongComments(rules[k].line, lineNum)
    BY <2>1, NextOwner
  <2>5. totalBytes < Available' => totalBytes < Available
    <3> DEFINE S == {FileSize, Limit, byte}
    <3>1. /\ FileSize \in Nat /\ Limit \in Nat /\ Available \in Nat /\ totalBytes \in Nat
          /\ Available = FileSize \/ Available = Limit
      <4>1. totalBytes \in 0 .. FileSize /\ MaxFileSize \in Nat
        BY ParserAssumption DEF TypeOK
      <4>2. /\ FileSize \in Nat /\ Available \in Nat
            /\ Available = FileSize \/ Available = Limit
        BY <2>1, AvailableFacts
      <4> QED
        BY <4>1, <4>2 DEF Limit
    <3>2. byte \in Nat /\ byte # Nil
      BY <3>1, ParserAssumption
    <3>3. Available' = Min(S)
      BY <2>1, <2>2, <3>2 DEF Available, Limit
    <3>4. Min(S) \in S /\ \A x \in S : Min(S) <= x
      BY <3>1, <3>2, MinIsLeast
    <3> QED
      BY <3>1, <3>2, <3>3, <3>4
  <2> QED
    BY <2>1, <2>2, <2>3, <2>4, <2>5 DEF CurrentInv
<1>2. CASE EndOfFile
  BY <1>2 DEF EndOfFile, CurrentInv
<1>3. CASE FileTooLarge \/ TooManyRules
  BY <1>3 DEF FileTooLarge, TooManyRules, CurrentInv
<1>4. CASE Load
  BY <1>4 DEF Load, CurrentInv
<1>5. ASSUME ReadLine, NEW line, line \in NextLine, UNCHANGED <<rules, current>>,
             \/ line.text = "skip" /\ Fits(line)
             \/ IsHeader
             \/ format = "redirects"
      PROVE  CurrentInv'
  <2>1. outcome = "scanning"
    BY <1>5 DEF ReadLine, Scanning
  <2>2. current' # 0 => format = "headers"
    BY <1>5, <2>1 DEF CurrentInv
  <2> QED
    BY <1>5, <2>2, SameRules DEF IsHeader, Fits
<1>6. ASSUME ReadLine, NEW line, line \in NextLine, UNCHANGED rules, current' = 0,
             ~file[lineNum + 1].indented, line.text = "skip" => ~Fits(line)
      PROVE  CurrentInv'
  <2>1. \A k \in DOMAIN rules : current' # k
    BY <1>6, RuleFacts
  <2> QED
    BY <1>6, <2>1, SameRules DEF Fits
<1>7. CASE OverlongLine
  <2>1. PICK line \in NextLine : ~Fits(line) /\ current' = CurrentAfterOverlong(line)
    BY <1>7 DEF OverlongLine
  <2>2. ReadLine /\ rules' = rules
    BY <1>7 DEF OverlongLine
  <2>3. line.indented = file[lineNum + 1].indented
    <3>1. file[lineNum + 1] \in Line(format)
      BY <2>2, ReadCases
    <3> QED
      BY <2>1, <3>1, NextLineFacts
  <2>4. CASE format = "headers" /\ ~line.indented
    BY <1>6, <2>1, <2>2, <2>3, <2>4 DEF CurrentAfterOverlong
  <2>5. CASE format = "headers" /\ line.indented
    BY <1>5, <2>1, <2>2, <2>3, <2>5 DEF CurrentAfterOverlong, IsHeader
  <2>6. CASE format # "headers"
    <3>1. format = "redirects"
      BY <2>6 DEF TypeOK
    <3> QED
      BY <1>5, <2>1, <2>2, <3>1 DEF CurrentAfterOverlong
  <2> QED
    BY <2>4, <2>5, <2>6
<1>8. CASE SkipLine
  BY <1>5, <1>8 DEF SkipLine, Parsing
<1>9. CASE OrphanHeader
  BY <1>5, <1>9 DEF OrphanHeader, Parsing
<1>10. CASE InvalidHeader
  BY <1>5, <1>10 DEF InvalidHeader, Parsing
<1>11. CASE AddHeader
  <2>1. /\ ReadLine /\ IsHeader /\ current' = current
        /\ rules' = [rules EXCEPT ![current].ops = Append(@, lineNum + 1)]
    BY <1>11 DEF AddHeader, Parsing
  <2>2. DOMAIN rules' = DOMAIN rules /\ \A k \in DOMAIN rules : rules'[k].line = rules[k].line
    BY <2>1
  <2> QED
    BY <2>1, <2>2, SameRules DEF IsHeader
<1>12. CASE InvalidRule
  <2>1. PICK line \in NextLine : line.text = "invalid"
    BY <1>12 DEF InvalidRule, Parsing
  <2>2. ReadLine /\ rules' = rules /\ current' = 0 /\ ~IsHeader
    BY <1>12 DEF InvalidRule, Parsing, CurrentAfterReject
  <2>3. file[lineNum + 1].indented \in BOOLEAN
    BY <2>2, ReadCases DEF Line
  <2>4. CASE format = "headers"
    BY <1>6, <2>1, <2>2, <2>3, <2>4 DEF IsHeader
  <2>5. CASE format # "headers"
    BY <2>2, <2>5, SameRules
  <2> QED
    BY <2>4, <2>5
<1>13. CASE UnsupportedRule
  <2>1. PICK line \in NextLine : line.text = "unsupported"
    BY <1>13 DEF UnsupportedRule, Parsing
  <2>2. ReadLine /\ UNCHANGED <<rules, current>>
    BY <1>13 DEF UnsupportedRule, Parsing
  <2>3. format = "redirects"
    <3>1. file[lineNum + 1] \in Line(format)
      BY <2>2, ReadCases
    <3> QED
      BY <2>1, <3>1, NextLineFacts DEF Texts, TypeOK
  <2> QED
    BY <1>5, <2>1, <2>2, <2>3
<1>14. CASE AddRule
  BY <1>14, CurrentAdd
<1>15. CASE UNCHANGED vars
  <2>1. UNCHANGED <<input, failAt, lineNum, totalBytes, rules, current, outcome>>
    BY <1>15 DEF vars
  <2>2. Available' = Available /\ format' = format
    BY <2>1, ReadableStays DEF input
  <2>3. Owner(lineNum + 1)' = Owner(lineNum + 1)
    BY <2>1, NextOwner
  <2>4. \A k : LongComments(rules[k].line, lineNum)' = LongComments(rules[k].line, lineNum)
    BY <2>1, NextOwner
  <2> QED
    BY <2>1, <2>2, <2>3, <2>4 DEF CurrentInv
<1> QED
  BY <1>1, <1>2, <1>3, <1>4, <1>7, <1>8, <1>9, <1>10, <1>11, <1>12, <1>13, <1>14, <1>15 DEF Next

\* Adding a header changes the headers of the current rule.
LEMMA AddHeaderFacts ==
    ASSUME TypeOK, AddHeader
    PROVE  /\ current \in DOMAIN rules /\ DOMAIN rules' = DOMAIN rules
           /\ rules'[current].line = rules[current].line
           /\ rules'[current].ops = Append(rules[current].ops, lineNum + 1)
           /\ \A k \in DOMAIN rules : k # current => rules'[k] = rules[k]
<1> DEFINE R == [line : 1 .. lineNum, ops : Seq(1 .. lineNum)]
           r == rules[current]
<1>1. current \in DOMAIN rules
  BY RuleFacts DEF TypeOK, AddHeader
<1>2. r \in R
  <2>1. rules \in Seq(R)
    BY DEF TypeOK
  <2> HIDE DEF R
  <2> QED
    BY <1>1, <2>1
<1>3. rules' = [rules EXCEPT ![current] = [r EXCEPT !.ops = Append(@, lineNum + 1)]]
  BY DEF AddHeader
<1> HIDE DEF r
<1>4. /\ [r EXCEPT !.ops = Append(@, lineNum + 1)].line = r.line
      /\ [r EXCEPT !.ops = Append(@, lineNum + 1)].ops = Append(r.ops, lineNum + 1)
  BY <1>2
<1>5. rules'[current] = [r EXCEPT !.ops = Append(@, lineNum + 1)]
  BY <1>1, <1>3
<1> QED
  BY <1>1, <1>3, <1>4, <1>5 DEF r

\* A header is only added to the rule it stands under.
LEMMA HeadersStep ==
    ASSUME TypeOK, ScanInv, CurrentInv, HeadersStayWithTheirPattern, [Next]_vars
    PROVE  HeadersStayWithTheirPattern'
<1>1. \A n : Owner(n)' = Owner(n)
  BY FileStays DEF Next, ReadFails, EndOfFile, FileTooLarge, OverlongLine, SkipLine, OrphanHeader,
     InvalidHeader, AddHeader, InvalidRule, UnsupportedRule, TooManyRules, AddRule, Load, Parsing,
     ReadLine, Scanning, vars
<1> DEFINE Of(list) == \A k \in DOMAIN list : \A i \in DOMAIN list[k].ops :
                         Owner(list[k].ops[i]) = list[k].line
<1>2. Of(rules)
  BY DEF HeadersStayWithTheirPattern
<1>3. Of(rules') => HeadersStayWithTheirPattern'
  BY <1>1 DEF HeadersStayWithTheirPattern
<1>4. CASE AddHeader
  <2>1. ReadLine /\ format = "headers"
    BY <1>4 DEF AddHeader, Parsing, IsHeader
  <2>2. outcome = "scanning" /\ totalBytes < Available
    BY <2>1 DEF ReadLine, Scanning
  <2>3. /\ current \in DOMAIN rules /\ DOMAIN rules' = DOMAIN rules
        /\ rules'[current].line = rules[current].line
        /\ rules'[current].ops = Append(rules[current].ops, lineNum + 1)
        /\ \A k \in DOMAIN rules : k # current => rules'[k] = rules[k]
    BY <1>4, AddHeaderFacts
  <2>4. Owner(lineNum + 1) = rules[current].line
    BY <2>1, <2>2, <2>3 DEF CurrentInv
  <2>5. ASSUME NEW k \in DOMAIN rules, NEW i \in DOMAIN rules'[k].ops
        PROVE  Owner(rules'[k].ops[i]) = rules'[k].line
    <3>1. CASE k = current
      <4>1. /\ rules'[k].line = rules[k].line
            /\ rules'[k].ops = Append(rules[k].ops, lineNum + 1)
        BY <2>3, <3>1
      <4>2. rules[k].ops \in Seq(1 .. lineNum)
        BY <2>5, RuleFacts
      <4>3. \/ i \in DOMAIN rules[k].ops /\ rules'[k].ops[i] = rules[k].ops[i]
            \/ rules'[k].ops[i] = lineNum + 1
        BY <2>5, <4>1, <4>2
      <4> QED
        BY <1>2, <2>4, <2>5, <3>1, <4>1, <4>3
    <3>2. CASE k # current
      <4>1. rules'[k] = rules[k]
        BY <2>3, <2>5, <3>2
      <4> QED
        BY <1>2, <2>5, <4>1
    <3> QED
      BY <3>1, <3>2
  <2> QED
    BY <1>3, <2>3, <2>5
<1>5. CASE AddRule
  <2>1. rules' = Append(rules, [line |-> lineNum + 1, ops |-> <<>>])
    BY <1>5 DEF AddRule
  <2>2. DOMAIN rules = 1 .. Len(rules) /\ Len(rules) \in Nat /\ rules \in RuleSeq(lineNum)
    BY RuleFacts DEF TypeOK, RuleSeq
  <2>3. \A k \in DOMAIN rules' : \/ k \in DOMAIN rules /\ rules'[k] = rules[k]
                                 \/ rules'[k] = [line |-> lineNum + 1, ops |-> <<>>]
    BY <2>1, <2>2 DEF RuleSeq
  <2>4. DOMAIN (<<>>) = {}
    OBVIOUS
  <2>5. Of(rules')
    <3> SUFFICES ASSUME NEW k \in DOMAIN rules', NEW i \in DOMAIN rules'[k].ops
                 PROVE  Owner(rules'[k].ops[i]) = rules'[k].line
      OBVIOUS
    <3>1. k \in DOMAIN rules /\ rules'[k] = rules[k]
      BY <2>3, <2>4
    <3> QED
      BY <1>2, <3>1
  <2> QED
    BY <1>3, <2>5
<1>6. CASE UNCHANGED rules
  BY <1>2, <1>3, <1>6
<1> QED
  BY <1>4, <1>5, <1>6 DEF Next, ReadFails, EndOfFile, FileTooLarge, OverlongLine, SkipLine,
     OrphanHeader, InvalidHeader, InvalidRule, UnsupportedRule, TooManyRules, Load, vars

\* A header is only ever added to the rule it stands under, however the lines above it failed
\* to parse, for any file and any limits.
THEOREM HeadersStay == Spec => []HeadersStayWithTheirPattern
<1>1. Init => TypeOK /\ ScanInv /\ CurrentInv /\ HeadersStayWithTheirPattern
  <2> SUFFICES ASSUME Init PROVE TypeOK /\ ScanInv /\ CurrentInv /\ HeadersStayWithTheirPattern
    OBVIOUS
  <2>1. DOMAIN rules = {} /\ current = 0
    BY DEF Init
  <2> QED
    BY <2>1, ScanStarts DEF CurrentInv, HeadersStayWithTheirPattern
<1>2. TypeOK /\ ScanInv /\ CurrentInv /\ HeadersStayWithTheirPattern /\ [Next]_vars =>
        (TypeOK /\ ScanInv /\ CurrentInv /\ HeadersStayWithTheirPattern)'
  BY TypeStep, ScanStep, CurrentStep, HeadersStep
<1> QED
  BY <1>1, <1>2, PTL DEF Spec

(***************************************************************************)
(* Cut lines are not trusted.                                              *)
(***************************************************************************)
\* Only lines that were read are used.
LEMMA UsedAreRead ==
    ASSUME TypeOK
    PROVE  Used \subseteq 1 .. lineNum
<1> SUFFICES ASSUME NEW k \in DOMAIN rules, NEW n \in UsedBy(k) PROVE n \in 1 .. lineNum
  BY DEF Used
<1>1. rules[k].line \in 1 .. lineNum /\ rules[k].ops \in Seq(1 .. lineNum)
  BY RuleFacts
<1>2. Range(rules[k].ops) \subseteq 1 .. lineNum
  <2> DEFINE ops == rules[k].ops
             S == 1 .. lineNum
  <2>1. ops \in Seq(S)
    BY <1>1
  <2> HIDE DEF ops, S
  <2>2. \A i \in DOMAIN ops : ops[i] \in S
    BY <2>1
  <2>3. Range(ops) \subseteq S
    BY <2>2 DEF Range
  <2> QED
    BY <2>3 DEF ops, S
<1> QED
  BY <1>1, <1>2 DEF UsedBy

\* A line that was used, but not whole, is the last one read, and the error cut it.
LEMMA UsedOrCut ==
    ASSUME TypeOK, ScanInv, outcome = "scanning", NEW n \in Used, ~Whole(n)
    PROVE  /\ n = lineNum /\ failAt # Nil /\ failAt = totalBytes /\ failAt <= MaxFileSize
           /\ totalBytes < Offset[lineNum]
BY UsedAreRead, OnlyTheLastIsCut

\* While a next line can be read, every line used was whole.
LEMMA UsedAreWhole ==
    ASSUME TypeOK, ScanInv, outcome = "scanning", totalBytes < Available
    PROVE  \A n \in Used : Whole(n)
<1>1. totalBytes = Offset[lineNum] /\ totalBytes \in Nat
  BY ReadFacts
<1> QED
  BY <1>1, UsedOrCut

\* The warning that follows a cut line fails strict mode.
LEMMA CutStep ==
    ASSUME TypeOK, ScanInv, CutLinesAreNotTrusted, [Next]_vars
    PROVE  CutLinesAreNotTrusted'
<1>1. ASSUME UNCHANGED <<input, failAt, rules>>
      PROVE  Used' = Used /\ \A n : Whole(n)' = Whole(n)
  BY <1>1, ReadableStays DEF Used, UsedBy
<1>2. CASE EndOfFile
  <2>1. /\ UNCHANGED <<input, failAt, rules, lineNum, totalBytes>> /\ outcome = "scanning"
        /\ totalBytes = Available
        /\ warnings' = IF failAt = Available THEN Warn(0) ELSE warnings
    BY <1>2 DEF EndOfFile, Scanning
  <2>2. ASSUME NEW n \in Used, ~Whole(n)
        PROVE  n = lineNum' /\ failAt' # Nil /\ failAt' <= MaxFileSize /\ StrictError'
    <3>1. n = lineNum /\ failAt # Nil /\ failAt = totalBytes /\ failAt <= MaxFileSize
      BY <2>1, <2>2, UsedOrCut
    <3>2. warnings' = Append(warnings, [line |-> 0, nonStrict |-> FALSE])
      BY <2>1, <3>1 DEF Warn
    <3>3. StrictError'
      <4>1. warnings \in WarningSeq(lineNum)
        BY DEF TypeOK, WarningSeq
      <4>2. /\ Len(warnings) + 1 \in DOMAIN warnings'
            /\ warnings'[Len(warnings) + 1] = [line |-> 0, nonStrict |-> FALSE]
        BY <3>2, <4>1 DEF WarningSeq
      <4> QED
        BY <4>2 DEF StrictError
    <3> QED
      BY <2>1, <3>1, <3>3
  <2> QED
    BY <1>1, <2>1, <2>2 DEF CutLinesAreNotTrusted
<1>3. CASE FileTooLarge \/ TooManyRules
  <2>1. /\ UNCHANGED <<input, failAt, rules>>
        /\ outcome = "scanning" /\ totalBytes < Available
    BY <1>3 DEF FileTooLarge, TooManyRules, Parsing, ReadLine, Scanning
  <2> QED
    BY <1>1, <2>1, UsedAreWhole DEF CutLinesAreNotTrusted
<1>4. CASE Load
  <2>1. /\ UNCHANGED <<input, failAt, rules, lineNum, warnings>> /\ Parsed
    BY <1>4 DEF Load, Parsed
  <2> QED
    BY <1>1, <2>1 DEF CutLinesAreNotTrusted, StrictError
<1>5. CASE UNCHANGED vars
  <2>1. UNCHANGED <<input, failAt, rules, lineNum, warnings, outcome>>
    BY <1>5 DEF vars
  <2> QED
    BY <1>1, <2>1 DEF CutLinesAreNotTrusted, StrictError, Parsed
<1>6. CASE outcome' = "scanning"
  BY <1>6 DEF CutLinesAreNotTrusted, Parsed
<1> QED
  BY <1>2, <1>3, <1>4, <1>5, <1>6 DEF Next, ReadFails, OverlongLine, SkipLine, OrphanHeader,
     InvalidHeader, AddHeader, InvalidRule, UnsupportedRule, AddRule, Parsing, ReadLine, Scanning

\* No line the limit cuts is used, and one a read error cuts only as the last and with a
\* warning that fails strict mode, wherever in the file the error is.
THEOREM CutLinesFailStrictMode == Spec => []CutLinesAreNotTrusted
<1>1. Init => CutLinesAreNotTrusted
  BY DEF Init, CutLinesAreNotTrusted, Parsed
<1>2. TypeOK /\ ScanInv /\ CutLinesAreNotTrusted /\ [Next]_vars => CutLinesAreNotTrusted'
  BY CutStep
<1> QED
  BY <1>1, <1>2, ScanHolds, PTL DEF Spec

(***************************************************************************)
(* The lines that have become rules and headers.                           *)
(***************************************************************************)
\* The headers that a rule has when the lines read so far are.
Own(m) == {n \in Headers(m) : n <= lineNum /\ LongComments(m, n) = {}}

\* The rule lines are lines of the file, and finitely many.
LEMMA RuleLineFacts ==
    ASSUME TypeOK
    PROVE  /\ RuleLines \subseteq 1 .. Len(file) /\ IsFiniteSet(RuleLines)
           /\ IsFiniteSet(Scanned) /\ Cardinality(Scanned) \in Nat
           /\ Cardinality(Scanned) <= Cardinality(RuleLines) /\ Cardinality(RuleLines) \in Nat
           /\ \A n : /\ IsFiniteSet({m \in RuleLines : m <= n})
                     /\ Cardinality({m \in RuleLines : m <= n}) \in Nat
<1>1. Len(file) \in Nat /\ DOMAIN file = 1 .. Len(file)
  BY DEF TypeOK
<1>2. RuleLines \subseteq 1 .. Len(file)
  BY <1>1 DEF RuleLines
<1>3. IsFiniteSet(1 .. Len(file))
  BY <1>1, FS_Interval
<1>4. IsFiniteSet(RuleLines)
  BY <1>2, <1>3, FS_Subset
<1>5. ASSUME NEW S \in SUBSET RuleLines
      PROVE  /\ IsFiniteSet(S) /\ Cardinality(S) \in Nat
             /\ Cardinality(S) <= Cardinality(RuleLines)
  BY <1>4, FS_Subset, FS_CardinalityType
<1>6. Scanned \in SUBSET RuleLines /\ \A n : {m \in RuleLines : m <= n} \in SUBSET RuleLines
  BY DEF Scanned
<1> QED
  BY <1>2, <1>4, <1>5, <1>6, FS_CardinalityType

\* Reading a line adds it to the rule lines scanned, when it is one,
LEMMA ScannedNext ==
    ASSUME TypeOK, ScanInv, ReadLine
    PROVE  Scanned' = Scanned \cup {n \in RuleLines : n = lineNum + 1}
<1>1. UNCHANGED <<input, failAt>> /\ lineNum' = lineNum + 1 /\ lineNum \in Nat
  BY ReadTypes
<1>2. RuleLines' = RuleLines
  BY <1>1, ReadableStays
<1>3. \A n \in RuleLines : n \in Nat
  BY RuleLineFacts
<1>4. \A n \in RuleLines : n <= lineNum + 1 <=> n <= lineNum \/ n = lineNum + 1
  BY <1>1, <1>3
<1> QED
  BY <1>1, <1>2, <1>4 DEF Scanned

\* and to the headers of a rule, when it is one of them.
LEMMA OwnNext ==
    ASSUME TypeOK, ScanInv, ReadLine, NEW m
    PROVE  Own(m)' = Own(m) \cup {n \in Headers(m) : n = lineNum + 1 /\ LongComments(m, n) = {}}
<1>1. UNCHANGED <<input, failAt>> /\ lineNum' = lineNum + 1 /\ lineNum \in Nat
  BY ReadTypes
<1>2. Headers(m)' = Headers(m) /\ \A n : LongComments(m, n)' = LongComments(m, n)
  BY <1>1, ReadableStays
<1>3. \A n \in Headers(m) : n \in Nat
  BY DEF Headers, TypeOK
<1>4. \A n \in Headers(m) : n <= lineNum + 1 <=> n <= lineNum \/ n = lineNum + 1
  BY <1>1, <1>3
<1> QED
  BY <1>1, <1>2, <1>4 DEF Own

\* HeadersInv is about what each rule owns.
LEMMA OwnIsEnough ==
    ASSUME \A k \in DOMAIN rules' : \A m : m = rules'[k].line => Range(rules'[k].ops) = Own(m)'
    PROVE  HeadersInv'
BY DEF HeadersInv, Own, Headers, LongComments

\* Where reading fails, the lines read stay what they are.
LEMMA FailFacts ==
    ASSUME TypeOK, ScanInv, NEW byte \in 0 .. FileSize, ReadFails(byte)
    PROVE  /\ Scanned' = Scanned
           /\ \A m : Own(m)' = Own(m)
           /\ \A n \in Used : Whole(n)
<1>1. /\ outcome = "scanning" /\ failAt = Nil /\ failAt' = byte
      /\ UNCHANGED <<input, lineNum, totalBytes, rules>>
  BY DEF ReadFails
<1>2. /\ file' = file /\ format' = format /\ maxRules' = maxRules /\ Offset' = Offset
      /\ \A n : Owner(n)' = Owner(n)
  BY <1>1, FileStays
<1>3. /\ file \in Seq(Line(format)) /\ EndsInBytes /\ lineNum \in 0 .. Len(file) /\ Len(file) \in Nat
      /\ MaxFileSize \in Nat /\ totalBytes \in Nat /\ byte \in Nat /\ byte # Nil
  <2>1. totalBytes \in 0 .. FileSize /\ FileSize \in Nat
    BY AvailableFacts DEF TypeOK
  <2> QED
    BY <2>1, ParserAssumption DEF TypeOK
<1>4. /\ totalBytes = Offset[lineNum] /\ totalBytes <= MaxFileSize
  BY <1>1 DEF ScanInv
<1>5. totalBytes <= byte
  <2>1. lineNum # Len(file) => byte \in totalBytes .. totalBytes + Size(lineNum + 1) - 1
    BY DEF ReadFails
  <2>2. lineNum = Len(file) => byte = totalBytes
    BY DEF ReadFails
  <2>3. lineNum # Len(file) => Size(lineNum + 1) \in Nat
    BY <1>3, SizeType
  <2> QED
    BY <1>3, <2>1, <2>2, <2>3
<1>6. ASSUME NEW n \in 1 .. lineNum PROVE Whole(n) /\ Whole(n)'
  <2>1. Whole(n)
    BY <1>1, OnlyTheLastIsCut
  <2>2. Offset[n] \in Nat /\ Offset[n] <= totalBytes
    <3>1. n \in 0 .. Len(file) /\ (n = lineNum \/ n < lineNum)
      BY <1>3
    <3>2. Offset[n] \in Nat /\ (n < lineNum => Offset[n] < Offset[lineNum])
      BY <1>3, <3>1, OffsetFacts
    <3> QED
      BY <1>3, <1>4, <3>1, <3>2
  <2> DEFINE S     == {MaxFileSize} \cup {byte}
             least == Min(S)
  <2>3. Whole(n)' <=> Offset[n] <= least
    BY <1>1, <1>2, <1>3 DEF Whole
  <2>4. least = MaxFileSize \/ least = byte
    <3>1. S \in SUBSET Nat /\ S # {} /\ \A x \in S : x = MaxFileSize \/ x = byte
      BY <1>3
    <3> HIDE DEF S
    <3> QED
      BY <3>1, MinIsLeast
  <2> HIDE DEF least
  <2> QED
    BY <1>3, <1>4, <1>5, <2>1, <2>2, <2>3, <2>4
<1>7. ASSUME NEW n \in 1 .. lineNum PROVE Usable(n)' <=> Usable(n)
  BY <1>2, <1>6 DEF Usable
<1>8. \A n : IsRuleText(n)' <=> IsRuleText(n)
  BY <1>2 DEF IsRuleText
<1>9. /\ 1 .. lineNum \subseteq DOMAIN file
      /\ \A n \in DOMAIN file : n <= lineNum <=> n \in 1 .. lineNum
  BY <1>3
<1>10. ASSUME NEW n, n \in 1 .. lineNum
       PROVE  {m \in RuleLines : m <= n}' = {m \in RuleLines : m <= n}
  <2>1. \A m \in DOMAIN file : m <= n => m \in 1 .. lineNum
    BY <1>3, <1>10
  <2> QED
    BY <1>2, <1>7, <1>8, <2>1 DEF RuleLines
<1>11. Scanned' = Scanned
  BY <1>1, <1>2, <1>7, <1>8, <1>9 DEF Scanned, RuleLines
<1>12. ASSUME NEW n \in 1 .. lineNum PROVE Before(n)' <=> Before(n)
  BY <1>2, <1>10 DEF Before
<1>13. ASSUME NEW m PROVE Own(m)' = Own(m)
  <2>1. \A n : LongComments(m, n)' = LongComments(m, n)
    BY <1>2 DEF LongComments
  <2> QED
    BY <1>1, <1>2, <1>7, <1>8, <1>9, <1>12, <2>1 DEF Own, Headers
<1>14. \A n \in Used : Whole(n)
  BY <1>6, UsedAreRead
<1> QED
  BY <1>11, <1>13, <1>14

\* The rules are those of these lines, in their order.
RulesAre(list, lines) ==
    /\ {list[k].line : k \in DOMAIN list} = lines
    /\ Len(list) = Cardinality(lines)
    /\ \A k \in DOMAIN list : k > 1 => list[k - 1].line < list[k].line

\* A line that is no rule adds none.
LEMMA NoRule ==
    ASSUME TypeOK, ScanInv, RulesInv, ReadLine, lineNum + 1 \notin RuleLines,
           DOMAIN rules' = DOMAIN rules, Len(rules') = Len(rules),
           \A k \in DOMAIN rules : rules'[k].line = rules[k].line
    PROVE  RulesInv'
<1>1. RulesAre(rules, Scanned)
  BY UsedAreWhole DEF RulesInv, RulesAre, ReadLine, Scanning
<1>2. Scanned' = Scanned
  BY ScannedNext
<1>3. \A k \in DOMAIN rules : k > 1 => k - 1 \in DOMAIN rules
  BY RuleFacts
<1>4. RulesAre(rules', Scanned)
  BY <1>1, <1>3 DEF RulesAre
<1> QED
  BY <1>2, <1>4 DEF RulesInv, RulesAre

\* A usable line is read as it is.
LEMMA UsableIsRead ==
    ASSUME TypeOK, ScanInv, ReadLine, Usable(lineNum + 1), NEW line \in NextLine
    PROVE  line = file[lineNum + 1] /\ Fits(line) /\ line.text = "valid"
<1>1. NextLine = {file[lineNum + 1]}
  BY ReadCases DEF Usable
<1> QED
  BY <1>1 DEF Usable, Fits

\* A line that is used, when every line used is whole, is read as it is, too.
LEMMA WholeIsRead ==
    ASSUME TypeOK, ScanInv, ReadLine, Whole(lineNum + 1), NEW line \in NextLine,
           Fits(line), line.text = "valid"
    PROVE  Usable(lineNum + 1)
<1>1. NextLine = {file[lineNum + 1]}
  BY ReadCases
<1> QED
  BY <1>1 DEF Usable, Fits

\* A rule line is a line of the file that is usable and no header.
LEMMA RuleLineIs ==
    ASSUME TypeOK, ScanInv, ReadLine
    PROVE  lineNum + 1 \in RuleLines <=> Usable(lineNum + 1) /\ ~IsHeader
<1>1. lineNum + 1 \in DOMAIN file /\ file[lineNum + 1].indented \in BOOLEAN
  <2>1. lineNum + 1 \in 1 .. Len(file) /\ file[lineNum + 1] \in Line(format)
    BY ReadCases
  <2>2. format \in {"headers", "redirects"} /\ DOMAIN file = 1 .. Len(file)
    BY DEF TypeOK
  <2>3. file[lineNum + 1].indented \in BOOLEAN
    BY <2>1, <2>2 DEF Line
  <2> QED
    BY <2>1, <2>2, <2>3
<1>2. IsRuleText(lineNum + 1) <=> ~IsHeader
  BY <1>1 DEF IsRuleText, IsHeader, TypeOK
<1> QED
  BY <1>1, <1>2 DEF RuleLines

\* A line that is one adds its rule, after the others.
LEMMA OneMoreRule ==
    ASSUME TypeOK, ScanInv, RulesInv, AddRule
    PROVE  RulesInv'
<1>1. /\ ReadLine /\ ~IsHeader /\ rules' = Append(rules, [line |-> lineNum + 1, ops |-> <<>>])
      /\ \E line \in NextLine : Fits(line) /\ line.text = "valid"
  BY DEF AddRule, Parsing
<1>2. UNCHANGED <<input, failAt>> /\ lineNum' = lineNum + 1 /\ lineNum \in Nat
  BY <1>1, ReadTypes
<1>3. Len(rules) \in Nat /\ DOMAIN rules = 1 .. Len(rules)
  BY RuleFacts
<1>4. /\ DOMAIN rules' = 1 .. Len(rules) + 1 /\ Len(rules') = Len(rules) + 1
      /\ \A k \in DOMAIN rules : rules'[k] = rules[k]
      /\ rules'[Len(rules) + 1] = [line |-> lineNum + 1, ops |-> <<>>]
  <2>1. rules \in RuleSeq(lineNum)
    BY DEF TypeOK, RuleSeq
  <2> QED
    BY <1>1, <1>3, <2>1 DEF RuleSeq
<1>5. RulesAre(rules, Scanned)
  BY <1>1, UsedAreWhole DEF RulesInv, RulesAre, ReadLine, Scanning
<1>6. ASSUME \A n \in Used' : Whole(n)' PROVE lineNum + 1 \in RuleLines
  <2>1. lineNum + 1 \in Used'
    <3>1. rules'[Len(rules) + 1].line = lineNum + 1 /\ Len(rules) + 1 \in DOMAIN rules'
      BY <1>3, <1>4
    <3> QED
      BY <3>1 DEF Used, UsedBy
  <2>2. Whole(lineNum + 1)
    <3>1. \A n : Whole(n)' = Whole(n)
      BY <1>2, ReadableStays
    <3> QED
      BY <1>6, <2>1, <3>1
  <2> QED
    BY <1>1, <2>2, WholeIsRead, RuleLineIs
<1>7. ASSUME lineNum + 1 \in RuleLines PROVE RulesAre(rules', Scanned')
  <2>1. Scanned' = Scanned \cup {lineNum + 1}
    BY <1>1, <1>7, ScannedNext
  <2>2. lineNum + 1 \notin Scanned /\ \A n \in Scanned : n <= lineNum
    BY <1>2 DEF Scanned
  <2>3. Cardinality(Scanned') = Cardinality(Scanned) + 1
    BY <2>1, <2>2, RuleLineFacts, FS_AddElement
  <2>4. {rules'[k].line : k \in DOMAIN rules'} = Scanned'
    <3>1. rules'[Len(rules) + 1].line = lineNum + 1
      BY <1>4
    <3>2. \A k : k \in DOMAIN rules' <=> k \in DOMAIN rules \/ k = Len(rules) + 1
      BY <1>3, <1>4
    <3> QED
      BY <1>4, <1>5, <2>1, <3>1, <3>2 DEF RulesAre
  <2>5. ASSUME NEW k \in DOMAIN rules', k > 1 PROVE rules'[k - 1].line < rules'[k].line
    <3>1. k - 1 \in DOMAIN rules
      BY <1>3, <1>4, <2>5
    <3>2. CASE k \in DOMAIN rules
      BY <1>4, <1>5, <2>5, <3>1, <3>2 DEF RulesAre
    <3>3. CASE k \notin DOMAIN rules
      <4>1. k = Len(rules) + 1
        BY <1>3, <1>4, <3>3
      <4>2. rules[k - 1].line \in 1 .. lineNum
        BY <3>1, RuleFacts
      <4> QED
        BY <1>2, <1>4, <3>1, <4>1, <4>2
    <3> QED
      BY <3>2, <3>3
  <2> QED
    BY <1>4, <1>5, <2>3, <2>4, <2>5 DEF RulesAre
<1> QED
  BY <1>6, <1>7 DEF RulesInv, RulesAre

\* RulesInv is inductive.
LEMMA RulesStep ==
    ASSUME TypeOK, ScanInv, RulesInv, [Next]_vars
    PROVE  RulesInv'
<1>1. ASSUME NEW byte \in 0 .. FileSize, ReadFails(byte) PROVE RulesInv'
  <2>1. UNCHANGED <<rules, outcome>> /\ outcome = "scanning"
    BY <1>1 DEF ReadFails
  <2>2. Scanned' = Scanned /\ \A n \in Used : Whole(n)
    BY <1>1, FailFacts
  <2> QED
    BY <2>1, <2>2 DEF RulesInv
<1>2. CASE EndOfFile \/ FileTooLarge \/ TooManyRules \/ Load
  BY <1>2 DEF EndOfFile, FileTooLarge, TooManyRules, Load, RulesInv
<1>3. ASSUME ReadLine, UNCHANGED rules, lineNum + 1 \notin RuleLines PROVE RulesInv'
  BY <1>3, NoRule
<1>4. CASE OverlongLine
  <2>1. ReadLine /\ UNCHANGED rules /\ \E line \in NextLine : ~Fits(line)
    BY <1>4 DEF OverlongLine
  <2> QED
    BY <1>3, <2>1, UsableIsRead, RuleLineIs
<1>5. CASE SkipLine \/ InvalidRule \/ UnsupportedRule
  <2>1. ReadLine /\ UNCHANGED rules /\ \E line \in NextLine : line.text # "valid"
    BY <1>5 DEF SkipLine, InvalidRule, UnsupportedRule, Parsing
  <2> QED
    BY <1>3, <2>1, UsableIsRead, RuleLineIs
<1>6. CASE OrphanHeader \/ InvalidHeader
  <2>1. ReadLine /\ UNCHANGED rules /\ IsHeader
    BY <1>6 DEF OrphanHeader, InvalidHeader, Parsing
  <2> QED
    BY <1>3, <2>1, RuleLineIs
<1>7. CASE AddHeader
  <2>1. ReadLine /\ IsHeader
    BY <1>7 DEF AddHeader, Parsing
  <2>2. DOMAIN rules' = DOMAIN rules /\ \A k \in DOMAIN rules : rules'[k].line = rules[k].line
    BY <1>7, AddHeaderFacts
  <2>3. Len(rules') = Len(rules)
    <3>1. rules \in RuleSeq(lineNum)
      BY DEF TypeOK, RuleSeq
    <3> QED
      BY <1>7, <3>1 DEF AddHeader, RuleSeq
  <2> QED
    BY <2>1, <2>2, <2>3, NoRule, RuleLineIs
<1>8. CASE AddRule
  BY <1>8, OneMoreRule
<1>9. CASE UNCHANGED vars
  <2>1. UNCHANGED <<input, failAt, lineNum, rules, outcome>>
    BY <1>9 DEF vars
  <2>2. RuleLines' = RuleLines /\ \A n : Whole(n)' = Whole(n)
    BY <2>1, ReadableStays
  <2> QED
    BY <2>1, <2>2 DEF RulesInv, Scanned, Used, UsedBy
<1> QED
  BY <1>1, <1>2, <1>4, <1>5, <1>6, <1>7, <1>8, <1>9 DEF Next

\* A line that belongs to a rule's headers is added to them.
LEMMA OwnHeaderIsAdded ==
    ASSUME TypeOK, ScanInv, CurrentInv, ReadLine, NEW k \in DOMAIN rules,
           lineNum + 1 \in Headers(rules[k].line),
           LongComments(rules[k].line, lineNum + 1) = {}
    PROVE  Usable(lineNum + 1) /\ IsHeader /\ current = k
<1> DEFINE n == lineNum + 1
           m == rules[k].line
<1>1. /\ outcome = "scanning" /\ totalBytes < Available /\ lineNum \in Nat
      /\ format = "headers" \/ format = "redirects"
  BY ReadTypes DEF ReadLine, Scanning, TypeOK
<1>2. Usable(n) /\ ~IsRuleText(n) /\ Owner(n) = m
  BY DEF Headers
<1>3. IsHeader
  BY <1>1, <1>2 DEF IsHeader, IsRuleText
<1>4. LongComments(m, lineNum) = {}
  <2>1. m .. lineNum \subseteq m .. lineNum + 1
    BY <1>1, RuleFacts
  <2> QED
    BY <2>1 DEF LongComments
<1>5. current = k
  BY <1>1, <1>2, <1>3, <1>4 DEF CurrentInv, IsHeader
<1> QED
  BY <1>2, <1>3, <1>5

\* A line that is no header adds none.
LEMMA NoHeader ==
    ASSUME TypeOK, ScanInv, CurrentInv, HeadersInv, ReadLine, rules' = rules, format = "headers",
           ~(Usable(lineNum + 1) /\ IsHeader /\ current # 0)
    PROVE  HeadersInv'
<1>1. ASSUME NEW k \in DOMAIN rules, NEW m, m = rules[k].line
      PROVE  Range(rules[k].ops) = Own(m)'
  <2>1. Range(rules[k].ops) = Own(m)
    BY <1>1, UsedAreWhole DEF HeadersInv, ReadLine, Scanning, Own
  <2>2. ~(lineNum + 1 \in Headers(m) /\ LongComments(m, lineNum + 1) = {})
    BY <1>1, OwnHeaderIsAdded, RuleFacts
  <2> QED
    BY <2>1, <2>2, OwnNext
<1> QED
  BY <1>1, OwnIsEnough

\* A header line adds its header, to the rule that owns it.
LEMMA OneMoreHeader ==
    ASSUME TypeOK, ScanInv, CurrentInv, RulesInv, HeadersInv, AddHeader
    PROVE  HeadersInv'
<1> SUFFICES ASSUME \A n \in Used' : Whole(n)' PROVE HeadersInv'
  BY DEF HeadersInv
<1> DEFINE n == lineNum + 1
<1>1. /\ ReadLine /\ IsHeader /\ \E line \in NextLine : Fits(line) /\ line.text = "valid"
      /\ outcome = "scanning" /\ totalBytes < Available
  BY DEF AddHeader, Parsing, ReadLine, Scanning
<1>2. /\ current \in DOMAIN rules /\ DOMAIN rules' = DOMAIN rules
      /\ rules'[current].line = rules[current].line
      /\ rules'[current].ops = Append(rules[current].ops, n)
      /\ \A k \in DOMAIN rules : k # current => rules'[k] = rules[k]
  BY AddHeaderFacts
<1>3. UNCHANGED <<input, failAt>> /\ lineNum \in Nat /\ n \in DOMAIN file
  <2>1. lineNum + 1 \in 1 .. Len(file)
    BY <1>1, ReadCases
  <2> QED
    BY <1>1, <2>1, ReadTypes DEF TypeOK
<1>4. rules[current].ops \in Seq(1 .. lineNum)
  BY <1>2, RuleFacts
<1>5. Range(rules'[current].ops) = Range(rules[current].ops) \cup {n}
  <2> DEFINE ops == rules[current].ops
             S   == 1 .. lineNum
  <2>1. ops \in Seq(S)
    BY <1>4
  <2> HIDE DEF ops, S, n
  <2>2. Len(ops) \in Nat /\ DOMAIN ops = 1 .. Len(ops)
    BY <2>1
  <2>3. /\ DOMAIN Append(ops, n) = 1 .. Len(ops) + 1
        /\ Append(ops, n)[Len(ops) + 1] = n
        /\ \A i \in 1 .. Len(ops) : Append(ops, n)[i] = ops[i]
    BY <2>1, <2>2
  <2>4. \A i : i \in 1 .. Len(ops) + 1 <=> i \in 1 .. Len(ops) \/ i = Len(ops) + 1
    BY <2>2
  <2> HIDE DEF ops
  <2>5. Range(Append(ops, n)) = Range(ops) \cup {n}
    BY <2>2, <2>3, <2>4 DEF Range
  <2> QED
    BY <1>2, <2>5 DEF ops
<1>6. Usable(n)
  <2>1. n \in Range(rules'[current].ops)
    BY <1>5
  <2>2. n \in Used'
    <3>1. Used' = UNION {{rules'[k].line} \cup Range(rules'[k].ops) : k \in DOMAIN rules'}
      BY DEF Used, UsedBy
    <3>2. n \in {rules'[current].line} \cup Range(rules'[current].ops)
      BY <2>1
    <3> QED
      BY <1>2, <3>1, <3>2
  <2>3. \A x : Whole(x)' = Whole(x)
    BY <1>3, ReadableStays
  <2>4. Whole(n)
    BY <2>2, <2>3
  <2>5. PICK line \in NextLine : Fits(line) /\ line.text = "valid"
    BY <1>1
  <2> QED
    BY <1>1, <2>4, <2>5, WholeIsRead
<1>7. ~IsRuleText(n)
  BY <1>1 DEF IsHeader, IsRuleText
<1>8. Owner(n) = rules[current].line /\ LongComments(rules[current].line, lineNum) = {}
  BY <1>1, <1>2 DEF CurrentInv, IsHeader
<1>9. Before(n)
  <2>1. \A x \in RuleLines : x \in Nat /\ x # n
    BY <1>7, RuleLineFacts DEF RuleLines
  <2>2. {x \in RuleLines : x <= n} = Scanned
    BY <1>3, <2>1 DEF Scanned
  <2>3. Len(rules) = Cardinality(Scanned) /\ Len(rules) <= maxRules
    BY <1>1, UsedAreWhole DEF RulesInv, TypeOK
  <2> QED
    BY <2>2, <2>3 DEF Before
<1>10. LongComments(rules[current].line, n) = {}
  <2>1. file[n].indented
    BY <1>1 DEF IsHeader
  <2>2. rules[current].line \in 1 .. lineNum
    BY <1>2, RuleFacts
  <2>3. \A x : x \in rules[current].line .. n <=> x \in rules[current].line .. lineNum \/ x = n
    BY <1>3, <2>2
  <2> QED
    BY <1>8, <2>1, <2>3 DEF LongComments
<1>11. n \in Headers(rules[current].line)
  BY <1>3, <1>6, <1>7, <1>8, <1>9 DEF Headers
<1>12. ASSUME NEW k \in DOMAIN rules, NEW m, m = rules'[k].line
       PROVE  Range(rules'[k].ops) = Own(m)'
  <2>1. m = rules[k].line
    BY <1>2, <1>12
  <2>2. Range(rules[k].ops) = Own(m)
    BY <1>1, <2>1, UsedAreWhole DEF HeadersInv, Own, IsHeader
  <2>3. Own(m)' = Own(m) \cup {x \in Headers(m) : x = n /\ LongComments(m, x) = {}}
    BY <1>1, OwnNext
  <2>4. CASE k = current
    BY <1>5, <1>10, <1>11, <2>1, <2>2, <2>3, <2>4
  <2>5. CASE k # current
    <3>1. ~(n \in Headers(m) /\ LongComments(m, n) = {})
      BY <1>1, <2>1, <2>5, OwnHeaderIsAdded
    <3> QED
      BY <1>2, <2>2, <2>3, <2>5, <3>1
  <2> QED
    BY <2>4, <2>5
<1> QED
  BY <1>2, <1>12, OwnIsEnough

\* A new rule has no headers yet.
LEMMA NoHeadersYet ==
    ASSUME TypeOK, ScanInv, CurrentInv, HeadersInv, AddRule, format = "headers"
    PROVE  HeadersInv'
<1>1. /\ ReadLine /\ ~IsHeader /\ rules' = Append(rules, [line |-> lineNum + 1, ops |-> <<>>])
      /\ outcome = "scanning" /\ totalBytes < Available
  BY DEF AddRule, Parsing, ReadLine, Scanning
<1>2. Len(rules) \in Nat /\ DOMAIN rules = 1 .. Len(rules) /\ lineNum \in Nat
  BY <1>1, RuleFacts, ReadTypes
<1>3. /\ DOMAIN rules' = 1 .. Len(rules) + 1
      /\ \A k \in DOMAIN rules : rules'[k] = rules[k]
      /\ rules'[Len(rules) + 1] = [line |-> lineNum + 1, ops |-> <<>>]
  <2>1. rules \in RuleSeq(lineNum)
    BY DEF TypeOK, RuleSeq
  <2> QED
    BY <1>1, <1>2, <2>1 DEF RuleSeq
<1>4. ASSUME NEW k \in DOMAIN rules', NEW m, m = rules'[k].line
      PROVE  Range(rules'[k].ops) = Own(m)'
  <2>1. Own(m)' = Own(m) \cup {x \in Headers(m) : x = lineNum + 1 /\ LongComments(m, x) = {}}
    BY <1>1, OwnNext
  <2>2. CASE k \in DOMAIN rules
    <3>1. m = rules[k].line /\ rules'[k] = rules[k]
      BY <1>3, <1>4, <2>2
    <3>2. Range(rules[k].ops) = Own(m)
      BY <1>1, <2>2, <3>1, UsedAreWhole DEF HeadersInv, Own
    <3>3. ~(lineNum + 1 \in Headers(m) /\ LongComments(m, lineNum + 1) = {})
      BY <1>1, <2>2, <3>1, OwnHeaderIsAdded
    <3> QED
      BY <2>1, <3>1, <3>2, <3>3
  <2>3. CASE k \notin DOMAIN rules
    <3>1. m = lineNum + 1 /\ rules'[k].ops = <<>>
      BY <1>2, <1>3, <1>4, <2>3
    <3>2. Range(<<>>) = {}
      BY DEF Range
    <3>3. \A x \in Headers(m) : x > m
      <4> SUFFICES ASSUME NEW x \in Headers(m) PROVE x > m
        OBVIOUS
      <4>1. x \in Nat /\ x >= 1 /\ Owner(x) = m
        BY DEF Headers, TypeOK
      <4> QED
        BY <1>2, <3>1, <4>1, OwnerFacts
    <3>4. \A x \in Headers(m) : x \in Nat
      BY DEF Headers, TypeOK
    <3>5. \A x \in Headers(m) : ~(x <= lineNum) /\ x # lineNum + 1
      BY <1>2, <3>1, <3>3, <3>4
    <3> QED
      BY <2>1, <3>1, <3>2, <3>5 DEF Own
  <2> QED
    BY <2>2, <2>3
<1> QED
  BY <1>4, OwnIsEnough

\* HeadersInv is inductive.
LEMMA OwnStep ==
    ASSUME TypeOK, ScanInv, CurrentInv, RulesInv, HeadersInv, [Next]_vars
    PROVE  HeadersInv'
<1>1. ASSUME NEW byte \in 0 .. FileSize, ReadFails(byte) PROVE HeadersInv'
  <2>1. UNCHANGED <<input, rules, outcome>> /\ outcome = "scanning"
    BY <1>1 DEF ReadFails
  <2>2. (\A m : Own(m)' = Own(m)) /\ \A n \in Used : Whole(n)
    BY <1>1, FailFacts
  <2>3. CASE format = "headers"
    <3>1. \A k \in DOMAIN rules' : \A m : m = rules'[k].line => Range(rules'[k].ops) = Own(m)'
      BY <2>1, <2>2, <2>3 DEF HeadersInv, Own
    <3> QED
      BY <3>1, OwnIsEnough
  <2>4. CASE format # "headers"
    BY <2>1, <2>4 DEF HeadersInv, input
  <2> QED
    BY <2>3, <2>4
<1>2. CASE EndOfFile \/ FileTooLarge \/ TooManyRules \/ Load
  BY <1>2 DEF EndOfFile, FileTooLarge, TooManyRules, Load, HeadersInv
<1>3. ASSUME ReadLine, rules' = rules, ~(Usable(lineNum + 1) /\ IsHeader /\ current # 0)
      PROVE  HeadersInv'
  <2>1. format' = format
    BY <1>3, ReadTypes DEF input
  <2> QED
    BY <1>3, <2>1, NoHeader DEF HeadersInv
<1>4. CASE OverlongLine
  <2>1. ReadLine /\ rules' = rules /\ \E line \in NextLine : ~Fits(line)
    BY <1>4 DEF OverlongLine
  <2> QED
    BY <1>3, <2>1, UsableIsRead
<1>5. CASE SkipLine \/ InvalidHeader \/ InvalidRule \/ UnsupportedRule
  <2>1. ReadLine /\ rules' = rules /\ \E line \in NextLine : line.text # "valid"
    BY <1>5 DEF SkipLine, InvalidHeader, InvalidRule, UnsupportedRule, Parsing
  <2> QED
    BY <1>3, <2>1, UsableIsRead
<1>6. CASE OrphanHeader
  <2>1. ReadLine /\ rules' = rules /\ current = 0
    BY <1>6 DEF OrphanHeader, Parsing
  <2> QED
    BY <1>3, <2>1
<1>7. CASE AddHeader
  BY <1>7, OneMoreHeader
<1>8. CASE AddRule
  <2>1. CASE format = "headers"
    BY <1>8, <2>1, NoHeadersYet
  <2>2. CASE format # "headers"
    <3>1. format' = format
      BY <1>8, ReadTypes DEF AddRule, Parsing, input
    <3> QED
      BY <2>2, <3>1 DEF HeadersInv
  <2> QED
    BY <2>1, <2>2
<1>9. CASE UNCHANGED vars
  <2>1. UNCHANGED <<input, failAt, lineNum, rules, outcome>>
    BY <1>9 DEF vars
  <2>2. /\ \A n : /\ Whole(n)' = Whole(n) /\ Headers(n)' = Headers(n)
                  /\ \A m : LongComments(m, n)' = LongComments(m, n)
        /\ format' = format
    BY <2>1, ReadableStays DEF input
  <2>3. (\A m : Own(m)' = Own(m)) /\ Used' = Used
    BY <2>1, <2>2 DEF Own, Used, UsedBy
  <2>4. CASE outcome = "scanning" /\ format = "headers" /\ \A n \in Used : Whole(n)
    <3>1. \A k \in DOMAIN rules' : \A m : m = rules'[k].line => Range(rules'[k].ops) = Own(m)'
      BY <2>1, <2>3, <2>4 DEF HeadersInv, Own
    <3> QED
      BY <3>1, OwnIsEnough
  <2>5. CASE ~(outcome = "scanning" /\ format = "headers" /\ \A n \in Used : Whole(n))
    BY <2>1, <2>2, <2>3, <2>5 DEF HeadersInv
  <2> QED
    BY <2>4, <2>5
<1> QED
  BY <1>1, <1>2, <1>4, <1>5, <1>6, <1>7, <1>8, <1>9 DEF Next

\* The header of the next line comes behind those of the lines read.
LEMMA OrderStep ==
    ASSUME TypeOK, OrderInv, [Next]_vars
    PROVE  OrderInv'
<1>1. CASE AddHeader
  <2>1. /\ current \in DOMAIN rules /\ DOMAIN rules' = DOMAIN rules
        /\ rules'[current].ops = Append(rules[current].ops, lineNum + 1)
        /\ \A k \in DOMAIN rules : k # current => rules'[k] = rules[k]
    BY <1>1, AddHeaderFacts
  <2>2. rules[current].ops \in Seq(1 .. lineNum) /\ lineNum \in Nat
    BY <2>1, RuleFacts DEF TypeOK
  <2> DEFINE ops == rules[current].ops
  <2>3. InFileOrder(Append(ops, lineNum + 1))
    <3>1. /\ ops \in Seq(1 .. lineNum) /\ Len(ops) \in Nat
          /\ \A i, j \in 1 .. Len(ops) : i < j => ops[i] < ops[j]
      <4>1. ops \in Seq(1 .. lineNum) /\ Len(ops) \in Nat /\ DOMAIN ops = 1 .. Len(ops)
        BY <2>2
      <4>2. InFileOrder(ops)
        BY <2>1 DEF OrderInv
      <4> QED
        BY <4>1, <4>2 DEF InFileOrder
    <3> HIDE DEF ops
    <3>2. /\ DOMAIN Append(ops, lineNum + 1) = 1 .. Len(ops) + 1
          /\ Append(ops, lineNum + 1)[Len(ops) + 1] = lineNum + 1
          /\ \A i \in 1 .. Len(ops) : Append(ops, lineNum + 1)[i] = ops[i]
      BY <2>2, <3>1
    <3>3. \A i \in 1 .. Len(ops) : ops[i] \in Nat /\ ops[i] < lineNum + 1
      BY <2>2, <3>1
    <3>4. ASSUME NEW i \in 1 .. Len(ops) + 1, NEW j \in 1 .. Len(ops) + 1, i < j
          PROVE  Append(ops, lineNum + 1)[i] < Append(ops, lineNum + 1)[j]
      <4>1. i \in 1 .. Len(ops) /\ (j \in 1 .. Len(ops) \/ j = Len(ops) + 1)
        BY <3>1, <3>4
      <4> QED
        BY <3>1, <3>2, <3>3, <3>4, <4>1
    <3> QED
      BY <3>2, <3>4 DEF InFileOrder
  <2> QED
    BY <2>1, <2>3 DEF OrderInv
<1>2. CASE AddRule
  <2>1. rules' = Append(rules, [line |-> lineNum + 1, ops |-> <<>>]) /\ rules \in RuleSeq(lineNum)
    BY <1>2 DEF AddRule, TypeOK, RuleSeq
  <2>2. \A k \in DOMAIN rules' : (k \in DOMAIN rules /\ rules'[k] = rules[k]) \/ rules'[k].ops = <<>>
    BY <2>1 DEF RuleSeq
  <2> QED
    BY <2>2 DEF OrderInv, InFileOrder
<1>3. CASE rules' = rules
  BY <1>3 DEF OrderInv
<1> QED
  BY <1>1, <1>2, <1>3 DEF Next, ReadFails, EndOfFile, FileTooLarge, OverlongLine, SkipLine,
     OrphanHeader, InvalidHeader, InvalidRule, UnsupportedRule, TooManyRules, Load, vars

(***************************************************************************)
(* Where the scan ends.                                                    *)
(***************************************************************************)
\* The rest of the file is not read: no line of it is whole,
LEMMA NothingMoreToRead ==
    ASSUME TypeOK, ScanInv, outcome = "scanning", totalBytes = Available,
           NEW n \in DOMAIN file, n > lineNum
    PROVE  ~Whole(n)
<1>1. /\ file \in Seq(Line(format)) /\ EndsInBytes /\ lineNum \in 0 .. Len(file) /\ Len(file) \in Nat
      /\ MaxFileSize \in Nat /\ n \in 0 .. Len(file) /\ n \in Nat /\ lineNum \in Nat
  BY ParserAssumption DEF TypeOK
<1>2. /\ FileSize \in Nat /\ Available \in Nat
      /\ failAt # Nil => failAt \in Nat /\ Available <= failAt
      /\ \/ Available = FileSize \/ Available = MaxFileSize + 1
         \/ failAt # Nil /\ Available = failAt
  BY AvailableFacts DEF Limit
<1>3. Offset[n] \in Nat /\ Offset[lineNum] \in Nat /\ Offset[lineNum] < Offset[n]
  BY <1>1, OffsetFacts
<1>4. Offset[n] <= FileSize
  <2>1. n = Len(file) \/ n < Len(file)
    BY <1>1
  <2>2. Len(file) \in 0 .. Len(file)
    BY <1>1
  <2>3. n < Len(file) => Offset[n] < Offset[Len(file)]
    BY <1>1, <2>2, OffsetFacts
  <2> QED
    BY <1>2, <1>3, <2>1, <2>3 DEF FileSize
<1>5. totalBytes < Offset[n] /\ totalBytes <= MaxFileSize
  BY <1>2, <1>3 DEF ScanInv
<1>6. failAt # Nil /\ totalBytes = failAt
  BY <1>1, <1>2, <1>3, <1>4, <1>5
<1> QED
  BY <1>2, <1>3, <1>5, <1>6, WholeFacts

\* or, at the limit of the size,
LEMMA NothingFits ==
    ASSUME TypeOK, ScanInv, FileTooLarge, NEW n \in DOMAIN file, n > lineNum
    PROVE  ~Whole(n)
<1>1. ReadLine /\ totalBytes + Bytes > MaxFileSize
  BY DEF FileTooLarge
<1>2. /\ file \in Seq(Line(format)) /\ EndsInBytes /\ lineNum \in Nat /\ Len(file) \in Nat
      /\ MaxFileSize \in Nat /\ n \in 0 .. Len(file) /\ lineNum + 1 \in 0 .. Len(file)
  <2>1. lineNum + 1 \in 1 .. Len(file) /\ lineNum \in Nat
    BY <1>1, ReadCases, ReadTypes
  <2>2. file \in Seq(Line(format)) /\ EndsInBytes /\ MaxFileSize \in Nat
    BY ParserAssumption DEF TypeOK
  <2>3. Len(file) \in Nat /\ DOMAIN file = 1 .. Len(file)
    BY <2>2
  <2>4. n \in 0 .. Len(file) /\ lineNum + 1 \in 0 .. Len(file)
    BY <2>1, <2>3
  <2> QED
    BY <2>1, <2>2, <2>3, <2>4
<1>3. /\ totalBytes + Bytes \in Nat
      /\ totalBytes + Bytes <= Offset[lineNum + 1]
      /\ Offset[lineNum + 1] \in Nat /\ Offset[n] \in Nat
  <2>1. outcome = "scanning" /\ totalBytes < Available
    BY <1>1 DEF ReadLine, Scanning
  <2>2. totalBytes \in Nat /\ Bytes \in Nat
    BY <2>1, ReadFacts
  <2>3. \/ totalBytes + Bytes = Offset[lineNum + 1]
        \/ totalBytes + Bytes < Offset[lineNum + 1]
    BY <2>1, ReadFacts
  <2>4. Offset[lineNum + 1] \in Nat /\ Offset[n] \in Nat
    BY <1>2, OffsetFacts
  <2> QED
    BY <2>2, <2>3, <2>4
<1>4. n = lineNum + 1 \/ Offset[lineNum + 1] < Offset[n]
  <2>1. n = lineNum + 1 \/ lineNum + 1 < n
    BY <1>2
  <2> QED
    BY <1>2, <2>1, OffsetFacts
<1> QED
  BY <1>1, <1>2, <1>3, <1>4, WholeFacts

\* or it is after the rule that is one too many.
LEMMA NoRoom ==
    ASSUME TypeOK, ScanInv, RulesInv, TooManyRules, Whole(lineNum + 1),
           NEW n \in Nat, n > lineNum
    PROVE  ~Before(n) /\ Cardinality(RuleLines) > maxRules
<1>1. /\ ReadLine /\ ~IsHeader /\ Len(rules) >= maxRules
      /\ \E line \in NextLine : Fits(line) /\ line.text = "valid"
  BY DEF TooManyRules, Parsing, Full
<1>2. lineNum + 1 \in RuleLines /\ lineNum \in Nat
  BY <1>1, WholeIsRead, RuleLineIs, ReadTypes
<1>3. Len(rules) = Cardinality(Scanned) /\ Len(rules) \in Nat /\ maxRules \in Nat
  BY <1>1, UsedAreWhole, RuleFacts, ParserAssumption DEF RulesInv, ReadLine, Scanning, TypeOK
<1> DEFINE S == Scanned \cup {lineNum + 1}
<1>4. IsFiniteSet(Scanned) /\ lineNum + 1 \notin Scanned
  BY <1>2, RuleLineFacts DEF Scanned
<1>5. Cardinality(S) = Cardinality(Scanned) + 1
  BY <1>4, FS_AddElement
<1>6. \A x \in RuleLines : x \in Nat
  BY RuleLineFacts
<1>7. S \subseteq {m \in RuleLines : m <= n} /\ S \subseteq RuleLines
  BY <1>2, <1>6 DEF Scanned
<1>8. /\ Cardinality(S) <= Cardinality({m \in RuleLines : m <= n})
      /\ Cardinality(S) <= Cardinality(RuleLines)
  BY <1>7, RuleLineFacts, FS_Subset
<1>9. /\ Cardinality({m \in RuleLines : m <= n}) \in Nat
      /\ Cardinality(RuleLines) \in Nat
  BY RuleLineFacts
<1> QED
  BY <1>1, <1>3, <1>5, <1>8, <1>9 DEF Before

\* What NothingElseIsDropped says of the rules.
Complete ==
    /\ {rules[k].line : k \in DOMAIN rules} = Kept
    /\ \A k \in DOMAIN rules :
         /\ k > 1 => rules[k - 1].line < rules[k].line
         /\ format = "headers" =>
              LET m == rules[k].line IN
              /\ Range(rules[k].ops) = {n \in Headers(m) : LongComments(m, n) = {}}
              /\ InFileOrder(rules[k].ops)

\* When no line that follows counts, all have been looked at.
LEMMA ScanIsComplete ==
    ASSUME TypeOK, RulesInv, HeadersInv, OrderInv,
           outcome = "scanning", \A n \in Used : Whole(n),
           \A n \in DOMAIN file : n > lineNum => ~(Whole(n) /\ Before(n))
    PROVE  Complete
<1>1. RulesAre(rules, Scanned)
  BY DEF RulesInv, RulesAre
<1>2. Len(rules) <= maxRules /\ maxRules \in Nat /\ lineNum \in Nat
  BY ParserAssumption DEF TypeOK
<1>3. \A n \in DOMAIN file : n \in Nat
  BY DEF TypeOK
<1>4. Kept = Scanned
  <2>1. ASSUME NEW n \in Scanned PROVE Before(n)
    <3>1. \A m \in RuleLines : m \in Nat
      BY RuleLineFacts
    <3>2. {m \in RuleLines : m <= n} \subseteq Scanned
      BY <1>2, <3>1 DEF Scanned
    <3>3. Cardinality({m \in RuleLines : m <= n}) <= Cardinality(Scanned)
      BY <3>2, RuleLineFacts, FS_Subset
    <3>4. /\ Cardinality(Scanned) \in Nat
          /\ Cardinality({m \in RuleLines : m <= n}) \in Nat
      BY RuleLineFacts
    <3>5. Cardinality(Scanned) <= maxRules
      BY <1>1, <1>2 DEF RulesAre
    <3>6. Cardinality({m \in RuleLines : m <= n}) <= maxRules
      BY <1>2, <3>3, <3>4, <3>5
    <3> QED
      BY <3>6 DEF Before
  <2>2. \A n \in RuleLines : Whole(n) /\ n \in DOMAIN file
    BY DEF RuleLines, Usable
  <2>3. \A n \in RuleLines : Before(n) => n <= lineNum
    BY <1>2, <1>3, <2>2
  <2> QED
    BY <2>1, <2>3 DEF Kept, Scanned
<1>5. ASSUME NEW k \in DOMAIN rules, format = "headers"
      PROVE  Range(rules[k].ops)
               = {n \in Headers(rules[k].line) : LongComments(rules[k].line, n) = {}}
  <2> DEFINE m == rules[k].line
  <2>1. Range(rules[k].ops) = {n \in Headers(m) : n <= lineNum /\ LongComments(m, n) = {}}
    BY <1>5 DEF HeadersInv
  <2>2. \A n \in Headers(m) : n \in DOMAIN file /\ Whole(n) /\ Before(n)
    BY DEF Headers, Usable
  <2>3. \A n \in Headers(m) : n <= lineNum
    BY <1>2, <1>3, <2>2
  <2> QED
    BY <2>1, <2>3
<1> QED
  BY <1>1, <1>4, <1>5 DEF RulesAre, Complete, OrderInv

\* At the end of the scan nothing else has been dropped.
LEMMA DroppedStep ==
    ASSUME TypeOK, ScanInv, RulesInv, HeadersInv, OrderInv, NothingElseIsDropped, [Next]_vars
    PROVE  NothingElseIsDropped'
<1>1. ASSUME UNCHANGED <<input, failAt, rules>>
      PROVE  /\ Used' = Used /\ \A n : Whole(n)' = Whole(n)
             /\ Complete => Complete'
  <2>1. /\ Kept' = Kept /\ format' = format
        /\ \A n : /\ Whole(n)' = Whole(n) /\ Headers(n)' = Headers(n)
                  /\ \A m : LongComments(m, n)' = LongComments(m, n)
    BY <1>1, ReadableStays DEF input
  <2>2. \A m : {n \in Headers(m) : LongComments(m, n) = {}}'
                 = {n \in Headers(m) : LongComments(m, n) = {}}
    BY <2>1
  <2>3. ASSUME NEW m, NEW k, m = rules[k].line
        PROVE  {n \in Headers(rules[k].line) : LongComments(rules[k].line, n) = {}}'
                 = {n \in Headers(m) : LongComments(m, n) = {}}'
    BY <1>1, <2>3 DEF Headers, LongComments
  <2> QED
    BY <1>1, <2>1, <2>2, <2>3 DEF Used, UsedBy, Complete
<1>2. NothingElseIsDropped' <=> (Parsed' /\ (\A n \in Used : Whole(n))' => Complete')
  BY DEF NothingElseIsDropped, Complete
<1>3. ASSUME UNCHANGED <<input, failAt, rules>>, outcome = "scanning",
             (\A n \in Used : Whole(n)) =>
               \A n \in DOMAIN file : n > lineNum => ~(Whole(n) /\ Before(n))
      PROVE  NothingElseIsDropped'
  BY <1>1, <1>2, <1>3, ScanIsComplete
<1>4. CASE EndOfFile
  <2>1. UNCHANGED <<input, failAt, rules>> /\ outcome = "scanning" /\ totalBytes = Available
    BY <1>4 DEF EndOfFile, Scanning
  <2> QED
    BY <1>3, <2>1, NothingMoreToRead
<1>5. CASE FileTooLarge
  <2>1. UNCHANGED <<input, failAt, rules>> /\ outcome = "scanning"
    BY <1>5 DEF FileTooLarge, ReadLine, Scanning
  <2> QED
    BY <1>3, <1>5, <2>1, NothingFits
<1>6. CASE TooManyRules
  <2>1. UNCHANGED <<input, failAt, rules>> /\ outcome = "scanning" /\ ReadLine
    BY <1>6 DEF TooManyRules, Parsing, ReadLine, Scanning
  <2>2. ASSUME NEW n \in DOMAIN file, n > lineNum, Whole(n), Before(n) PROVE FALSE
    <3>1. n \in Nat /\ n \in 0 .. Len(file) /\ lineNum \in Nat /\ lineNum + 1 \in 0 .. Len(file)
          /\ file \in Seq(Line(format)) /\ EndsInBytes /\ MaxFileSize \in Nat
      <4>1. lineNum + 1 \in 1 .. Len(file)
        BY <2>1, ReadCases
      <4> QED
        BY <2>1, <2>2, <4>1, ReadTypes, ParserAssumption DEF TypeOK
    <3>2. n = lineNum + 1 \/ lineNum + 1 < n
      BY <2>2, <3>1
    <3>3. Offset[n] \in Nat /\ Offset[lineNum + 1] \in Nat /\ Offset[lineNum + 1] <= Offset[n]
      <4>1. Offset[n] \in Nat /\ Offset[lineNum + 1] \in Nat
        BY <3>1, OffsetFacts
      <4>2. lineNum + 1 < n => Offset[lineNum + 1] < Offset[n]
        BY <3>1, OffsetFacts
      <4> QED
        BY <3>2, <4>1, <4>2
    <3>4. Whole(lineNum + 1)
      <4>1. failAt # Nil => failAt \in Nat
        BY AvailableFacts
      <4> QED
        BY <2>2, <3>1, <3>3, <4>1, WholeFacts
    <3> QED
      BY <1>6, <2>2, <3>1, <3>4, NoRoom
  <2> QED
    BY <1>3, <2>1, <2>2
<1>7. CASE Load \/ UNCHANGED vars
  <2>1. UNCHANGED <<input, failAt, rules>> /\ (Parsed' => Parsed)
    BY <1>7 DEF Load, vars, Parsed
  <2>2. Parsed /\ (\A n \in Used : Whole(n)) => Complete
    BY DEF NothingElseIsDropped, Complete
  <2> QED
    BY <1>1, <1>2, <2>1, <2>2
<1>8. CASE outcome' = "scanning"
  BY <1>8 DEF NothingElseIsDropped, Parsed
<1> QED
  BY <1>4, <1>5, <1>6, <1>7, <1>8 DEF Next, ReadFails, OverlongLine, SkipLine, OrphanHeader,
     InvalidHeader, AddHeader, InvalidRule, UnsupportedRule, AddRule, Parsing, ReadLine, Scanning

(***************************************************************************)
(* What is warned of.                                                      *)
(***************************************************************************)
\* A warning fails strict mode, unless it says that it does not.
LEMMA WarningFacts ==
    ASSUME TypeOK, NEW n
    PROVE  /\ warnings' = Warn(n) => StrictError'
           /\ warnings' = WarnOnly(n) => (StrictError' <=> StrictError)
           /\ warnings' = warnings => (StrictError' <=> StrictError)
<1>1. Len(warnings) \in Nat /\ DOMAIN warnings = 1 .. Len(warnings)
  BY DEF TypeOK
<1>2. ASSUME NEW w, warnings' = Append(warnings, w)
      PROVE  /\ DOMAIN warnings' = 1 .. Len(warnings) + 1
             /\ warnings'[Len(warnings) + 1] = w
             /\ \A i \in DOMAIN warnings : warnings'[i] = warnings[i]
  <2>1. warnings \in WarningSeq(lineNum)
    BY DEF TypeOK, WarningSeq
  <2> QED
    BY <1>1, <1>2, <2>1 DEF WarningSeq
<1>3. \A i : i \in 1 .. Len(warnings) + 1 <=> i \in DOMAIN warnings \/ i = Len(warnings) + 1
  BY <1>1
<1>4. warnings' = Warn(n) => StrictError'
  <2> SUFFICES ASSUME warnings' = Warn(n) PROVE StrictError'
    OBVIOUS
  <2> DEFINE w == [line |-> n, nonStrict |-> FALSE]
  <2>1. warnings'[Len(warnings) + 1] = w /\ DOMAIN warnings' = 1 .. Len(warnings) + 1
    BY <1>2 DEF Warn
  <2>2. ~warnings'[Len(warnings) + 1].nonStrict
    BY <2>1
  <2> QED
    BY <1>3, <2>1, <2>2 DEF StrictError
<1>5. warnings' = WarnOnly(n) => (StrictError' <=> StrictError)
  <2> SUFFICES ASSUME warnings' = WarnOnly(n) PROVE StrictError' <=> StrictError
    OBVIOUS
  <2> DEFINE w == [line |-> n, nonStrict |-> TRUE]
  <2>1. /\ warnings'[Len(warnings) + 1] = w /\ DOMAIN warnings' = 1 .. Len(warnings) + 1
        /\ \A i \in DOMAIN warnings : warnings'[i] = warnings[i]
    BY <1>2 DEF WarnOnly
  <2>2. warnings'[Len(warnings) + 1].nonStrict = TRUE
    BY <2>1
  <2> QED
    BY <1>3, <2>1, <2>2 DEF StrictError
<1>6. warnings' = warnings => (StrictError' <=> StrictError)
  BY DEF StrictError
<1> QED
  BY <1>4, <1>5, <1>6

\* A header has no rule only where it, or something above it, is flawed.
LEMMA OrphanIsFlawed ==
    ASSUME TypeOK, ScanInv, CurrentInv, RulesInv, ReadLine, IsHeader, current = 0,
           file[lineNum + 1].text # "skip"
    PROVE  \E x \in 1 .. lineNum + 1 : Flawed(x)
<1> SUFFICES ASSUME \A x \in 1 .. lineNum + 1 : ~Flawed(x) PROVE FALSE
  OBVIOUS
<1> DEFINE n == lineNum + 1
<1>1. /\ lineNum \in Nat /\ n \in 1 .. Len(file) /\ file \in Seq(Line(format)) /\ EndsInBytes
      /\ format = "headers" /\ outcome = "scanning" /\ totalBytes < Available
  BY ReadTypes, ReadCases DEF ReadLine, Scanning, IsHeader, TypeOK
<1>2. ASSUME NEW x \in 1 .. n
      PROVE  /\ file[x].length <= MaxLineLength
             /\ \/ file[x].text = "skip"
                \/ file[x].text = "valid" /\ (IsRuleText(x) \/ Owner(x) # 0)
  <2>1. x \in 1 .. Len(file)
    BY <1>1
  <2>2. file[x] \in Line(format)
    BY <1>1, <2>1
  <2>3. file[x].length \in Nat /\ MaxLineLength \in Nat /\ file[x].text \in Texts("headers")
    BY <1>1, <2>2, ParserAssumption DEF Line
  <2>4. ~Flawed(x)
    OBVIOUS
  <2> QED
    BY <2>3, <2>4 DEF Flawed, Texts
<1>3. ~IsRuleText(n)
  BY DEF IsHeader, IsRuleText
<1> DEFINE m == Owner(n)
<1>4. m # 0
  BY <1>1, <1>2, <1>3
<1>5. m \in 1 .. lineNum /\ ~file[m].indented /\ file[m].text # "skip"
  <2>1. n \in Nat /\ n >= 1 /\ n - 1 = lineNum
    BY <1>1
  <2> HIDE DEF n
  <2> QED
    BY <1>4, <2>1, OwnerFacts
<1> HIDE DEF m
<1>6. m \in Scanned
  <2>1. Whole(m)
    <3>1. totalBytes = Offset[lineNum] /\ totalBytes \in Nat
      BY <1>1, ReadFacts
    <3> QED
      BY <1>1, <1>5, <3>1, OnlyTheLastIsCut
  <2>2. m \in DOMAIN file /\ m <= lineNum
    BY <1>1, <1>5
  <2>3. m \in 1 .. n
    BY <1>1, <1>5
  <2>4. file[m].length <= MaxLineLength /\ file[m].text = "valid"
    BY <1>2, <1>5, <2>3
  <2> QED
    BY <1>5, <2>1, <2>2, <2>4 DEF Scanned, RuleLines, Usable, IsRuleText
<1>7. PICK k \in DOMAIN rules : rules[k].line = m
  BY <1>1, <1>6, UsedAreWhole DEF RulesInv
<1>8. LongComments(m, lineNum) = {}
  <2>1. \A j \in m .. lineNum : j \in 1 .. n
    BY <1>1, <1>5
  <2>2. \A j \in m .. lineNum : ~(file[j].length > MaxLineLength)
    <3> SUFFICES ASSUME NEW j \in m .. lineNum PROVE ~(file[j].length > MaxLineLength)
      OBVIOUS
    <3>1. j \in 1 .. n
      BY <2>1
    <3>2. ~Flawed(j)
      BY <3>1
    <3> QED
      BY <3>2 DEF Flawed
  <2> QED
    BY <2>2 DEF LongComments
<1>9. current = k
  BY <1>1, <1>7, <1>8 DEF CurrentInv, m
<1> QED
  BY <1>9, RuleFacts

\* A line that is read to its end is warned of when it is flawed, or when a line above it is.
LEMMA WarnRead ==
    ASSUME TypeOK, ScanInv, WarnInv, ReadLine, outcome' = "scanning",
           NextLine = {file[lineNum + 1]} =>
             \/ warnings' = Warn(lineNum + 1) /\ \E x \in 1 .. lineNum + 1 : Flawed(x)
             \/ (StrictError' <=> StrictError) /\ ~Flawed(lineNum + 1)
    PROVE  WarnInv'
<1>1. /\ UNCHANGED <<input, failAt>> /\ Offset' = Offset
      /\ lineNum' = lineNum + 1 /\ lineNum \in Nat
  BY ReadTypes
<1>2. \A x : Flawed(x)' = Flawed(x)
  BY <1>1, ReadableStays
<1>3. outcome = "scanning" /\ totalBytes < Available
  BY DEF ReadLine, Scanning
<1>4. StrictError <=> \E x \in 1 .. lineNum : Flawed(x)
  BY <1>3, ReadFacts DEF WarnInv
<1>5. totalBytes' = Offset[lineNum + 1] => NextLine = {file[lineNum + 1]}
  <2>1. /\ file \in Seq(Line(format)) /\ EndsInBytes /\ lineNum + 1 \in 0 .. Len(file)
        /\ totalBytes' \in 0 .. FileSize
    BY ReadTypes, ReadCases DEF TypeOK
  <2>2. Offset[lineNum + 1] \in Nat
    BY <2>1, OffsetFacts
  <2> QED
    BY <2>2, ReadCases
<1>6. totalBytes' = Offset[lineNum + 1] =>
        (StrictError' <=> \E x \in 1 .. lineNum + 1 : Flawed(x))
  <2>1. \A x : x \in 1 .. lineNum + 1 <=> x \in 1 .. lineNum \/ x = lineNum + 1
    BY <1>1
  <2>2. warnings' = Warn(lineNum + 1) => StrictError'
    BY WarningFacts
  <2> QED
    BY <1>4, <1>5, <2>1, <2>2
<1>7. (\E x \in 1 .. lineNum : Flawed(x))' <=> \E x \in 1 .. lineNum + 1 : Flawed(x)
  BY <1>1, <1>2
<1> QED
  BY <1>1, <1>6, <1>7 DEF WarnInv

\* Reading a line keeps WarnInv.
LEMMA WarnReads ==
    ASSUME TypeOK, ScanInv, CurrentInv, RulesInv, WarnInv, ReadLine, outcome' = "scanning",
           [Next]_vars
    PROVE  WarnInv'
<1> DEFINE n == lineNum + 1
<1>1. /\ lineNum \in Nat /\ n \in 1 .. n /\ n \in 1 .. Len(file)
      /\ outcome = "scanning" /\ totalBytes < Available
      /\ lineNum' # lineNum
  <2>1. lineNum \in Nat /\ n \in 1 .. Len(file) /\ lineNum' = lineNum + 1
    BY ReadTypes, ReadCases
  <2> QED
    BY <2>1 DEF ReadLine, Scanning
<1>2. file[n].length \in Nat /\ MaxLineLength \in Nat
  <2>1. file[n] \in Line(format)
    BY ReadCases
  <2> QED
    BY <2>1, ParserAssumption DEF Line
<1>3. ASSUME NEW line \in NextLine, NextLine = {file[n]} PROVE line = file[n]
  BY <1>3
<1>4. ASSUME warnings' = Warn(n), NextLine = {file[n]} => \E x \in 1 .. n : Flawed(x)
      PROVE  WarnInv'
  BY <1>4, WarnRead
<1>5. ASSUME StrictError' <=> StrictError, NextLine = {file[n]} => ~Flawed(n)
      PROVE  WarnInv'
  BY <1>5, WarnRead
<1>6. CASE OverlongLine
  <2>1. PICK line \in NextLine : ~Fits(line)
    BY <1>6 DEF OverlongLine
  <2>2. NextLine = {file[n]} => Flawed(n)
    BY <1>2, <1>3, <2>1 DEF Fits, Flawed
  <2>3. warnings' = Warn(n)
    BY <1>6 DEF OverlongLine
  <2> QED
    BY <1>1, <1>4, <2>2, <2>3
<1>7. CASE SkipLine
  <2>1. PICK line \in NextLine : Fits(line) /\ line.text = "skip"
    BY <1>7 DEF SkipLine, Parsing
  <2>2. NextLine = {file[n]} => ~Flawed(n)
    BY <1>2, <1>3, <2>1 DEF Fits, Flawed
  <2>3. StrictError' <=> StrictError
    BY <1>7, WarningFacts DEF SkipLine
  <2> QED
    BY <1>5, <2>2, <2>3
<1>8. CASE OrphanHeader
  <2>1. PICK line \in NextLine : line.text # "skip"
    BY <1>8 DEF OrphanHeader, Parsing
  <2>2. NextLine = {file[n]} => \E x \in 1 .. n : Flawed(x)
    BY <1>3, <1>8, <2>1, OrphanIsFlawed DEF OrphanHeader
  <2>3. warnings' = Warn(n)
    BY <1>8 DEF OrphanHeader
  <2> QED
    BY <1>4, <2>2, <2>3
<1>9. CASE InvalidHeader \/ InvalidRule
  <2>1. PICK line \in NextLine : line.text = "invalid"
    BY <1>9 DEF InvalidHeader, InvalidRule, Parsing
  <2>2. NextLine = {file[n]} => Flawed(n)
    BY <1>3, <2>1 DEF Flawed
  <2>3. warnings' = Warn(n)
    BY <1>9 DEF InvalidHeader, InvalidRule
  <2> QED
    BY <1>1, <1>4, <2>2, <2>3
<1>10. CASE AddHeader
  <2>1. PICK line \in NextLine : Fits(line) /\ line.text = "valid"
    BY <1>10 DEF AddHeader, Parsing
  <2>2. Owner(n) # 0
    <3>1. current \in DOMAIN rules
      BY <1>10, AddHeaderFacts
    <3>2. rules[current].line = Owner(n) /\ rules[current].line \in 1 .. lineNum
      BY <1>1, <1>10, <3>1, RuleFacts DEF CurrentInv, AddHeader, IsHeader
    <3> QED
      BY <3>2
  <2>3. NextLine = {file[n]} => ~Flawed(n)
    BY <1>2, <1>3, <2>1, <2>2 DEF Fits, Flawed
  <2>4. StrictError' <=> StrictError
    BY <1>10, WarningFacts DEF AddHeader
  <2> QED
    BY <1>5, <2>3, <2>4
<1>11. CASE UnsupportedRule
  <2>1. PICK line \in NextLine : Fits(line) /\ line.text = "unsupported"
    BY <1>11 DEF UnsupportedRule, Parsing
  <2>2. NextLine = {file[n]} => ~Flawed(n)
    BY <1>2, <1>3, <2>1 DEF Fits, Flawed
  <2>3. StrictError' <=> StrictError
    BY <1>11, WarningFacts DEF UnsupportedRule
  <2> QED
    BY <1>5, <2>2, <2>3
<1>12. CASE AddRule
  <2>1. PICK line \in NextLine : Fits(line) /\ line.text = "valid"
    BY <1>12 DEF AddRule, Parsing
  <2>2. IsRuleText(n)
    <3>1. file[n].indented \in BOOLEAN /\ format \in {"headers", "redirects"}
      <4>1. file[n] \in Line(format)
        BY ReadCases
      <4>2. format \in {"headers", "redirects"}
        BY DEF TypeOK
      <4> QED
        BY <4>1, <4>2 DEF Line
    <3>2. ~IsHeader
      BY <1>12 DEF AddRule
    <3> QED
      BY <3>1, <3>2 DEF IsHeader, IsRuleText
  <2>3. NextLine = {file[n]} => ~Flawed(n)
    BY <1>2, <1>3, <2>1, <2>2 DEF Fits, Flawed
  <2>4. StrictError' <=> StrictError
    BY <1>12, WarningFacts DEF AddRule
  <2> QED
    BY <1>5, <2>3, <2>4
<1> QED
  BY <1>1, <1>6, <1>7, <1>8, <1>9, <1>10, <1>11, <1>12 DEF Next, vars, ReadFails, EndOfFile,
     FileTooLarge, TooManyRules, Load

\* At the end of a file that was read without error, all its lines have been.
LEMMA WarnEnd ==
    ASSUME TypeOK, ScanInv, RulesInv, WarnInv, EndOfFile
    PROVE  StrictError' <=> ~Clean
<1>1. /\ outcome = "scanning" /\ totalBytes = Available
      /\ warnings' = IF failAt = Available THEN Warn(0) ELSE warnings
  BY DEF EndOfFile, Scanning
<1>2. /\ FileSize \in Nat /\ Available \in Nat /\ Available <= FileSize
      /\ failAt # Nil => failAt \in Nat /\ failAt <= FileSize /\ Available <= failAt
      /\ \/ Available = FileSize \/ Available = MaxFileSize + 1
         \/ failAt # Nil /\ Available = failAt
      /\ MaxFileSize \in Nat /\ Nil \notin Nat
  BY AvailableFacts, ParserAssumption DEF Limit
<1>3. totalBytes <= MaxFileSize
  BY <1>1 DEF ScanInv
<1>4. CASE failAt # Nil
  <2>1. failAt = Available
    BY <1>1, <1>2, <1>3, <1>4
  <2> QED
    BY <1>1, <1>4, <2>1, WarningFacts DEF Clean
<1>5. CASE failAt = Nil
  <2>1. totalBytes = Offset[lineNum] /\ Available = FileSize /\ FileSize <= MaxFileSize
    BY <1>1, <1>2, <1>3, <1>5 DEF ScanInv
  <2>2. /\ lineNum \in 0 .. Len(file) /\ Len(file) \in Nat /\ file \in Seq(Line(format)) /\ EndsInBytes
        /\ DOMAIN file = 1 .. Len(file)
    BY DEF TypeOK
  <2>3. lineNum = Len(file)
    <3>1. lineNum < Len(file) => Offset[lineNum] < Offset[Len(file)]
      BY <2>2, OffsetFacts
    <3>2. Offset[lineNum] = FileSize /\ Offset[Len(file)] = FileSize
      BY <1>1, <2>1 DEF FileSize
    <3>3. ~(lineNum < Len(file))
      BY <1>2, <3>1, <3>2
    <3> DEFINE last == Len(file)
    <3>4. lineNum \in 0 .. last /\ last \in Nat /\ ~(lineNum < last)
      BY <2>2, <3>3
    <3> HIDE DEF last
    <3>5. lineNum = last
      BY <3>4
    <3> QED
      BY <3>5 DEF last
  <2>4. StrictError <=> \E n \in DOMAIN file : Flawed(n)
    BY <1>1, <2>1, <2>2, <2>3 DEF WarnInv
  <2>5. StrictError' <=> StrictError
    BY <1>1, <1>2, <1>5, WarningFacts
  <2>6. Cardinality(RuleLines) <= maxRules
    <3>1. \A n \in Used : Whole(n)
      BY <1>1, <1>5, UsedOrCut
    <3>2. RuleLines = Scanned
      BY <2>2, <2>3, RuleLineFacts DEF Scanned
    <3> QED
      BY <1>1, <3>1, <3>2 DEF RulesInv, TypeOK
  <2>7. ASSUME NEW n \in DOMAIN file
        PROVE  ~Flawed(n) <=> /\ file[n].length <= MaxLineLength /\ file[n].text # "invalid"
                              /\ file[n].text = "valid" /\ ~IsRuleText(n) => Owner(n) # 0
    <3>1. file[n] \in Line(format)
      BY <2>2
    <3>2. file[n].length \in Nat /\ MaxLineLength \in Nat
      BY <3>1, ParserAssumption DEF Line
    <3> QED
      BY <3>2 DEF Flawed
  <2> QED
    BY <1>5, <2>1, <2>4, <2>5, <2>6, <2>7 DEF Clean
<1> QED
  BY <1>4, <1>5

\* WarnInv is inductive.
LEMMA WarnStep ==
    ASSUME TypeOK, ScanInv, CurrentInv, RulesInv, WarnInv, [Next]_vars
    PROVE  WarnInv'
<1>1. ASSUME UNCHANGED <<input, failAt>> PROVE Clean' = Clean
  BY <1>1, ReadableStays
<1>2. ASSUME UNCHANGED <<input, lineNum, totalBytes, warnings, outcome>>, outcome = "scanning"
      PROVE  WarnInv'
  <2>1. /\ Offset' = Offset /\ \A n : Owner(n)' = Owner(n)
        /\ file' = file /\ format' = format
    BY <1>2, FileStays
  <2>2. \A n : Flawed(n)' = Flawed(n)
    BY <2>1 DEF Flawed, IsRuleText
  <2> QED
    BY <1>2, <2>1, <2>2 DEF WarnInv, StrictError
<1>3. ASSUME NEW byte \in 0 .. FileSize, ReadFails(byte) PROVE WarnInv'
  BY <1>2, <1>3 DEF ReadFails
<1>4. CASE EndOfFile
  <2>1. UNCHANGED <<input, failAt>> /\ outcome' = "parsed"
    BY <1>4 DEF EndOfFile, Scanning
  <2> QED
    BY <1>1, <1>4, <2>1, WarnEnd DEF WarnInv
<1>5. CASE FileTooLarge
  <2>1. /\ UNCHANGED <<input, failAt>> /\ outcome' = "parsed"
        /\ warnings' = Warn(lineNum + 1) /\ totalBytes + Bytes > MaxFileSize
        /\ outcome = "scanning" /\ totalBytes < Available
    BY <1>5 DEF FileTooLarge, ReadLine, Scanning
  <2>2. ~(FileSize <= MaxFileSize)
    <3>1. totalBytes + Bytes <= Available /\ totalBytes + Bytes \in Nat
      BY <2>1, ReadFacts
    <3>2. /\ Available <= FileSize /\ FileSize \in Nat /\ Available \in Nat
          /\ MaxFileSize \in Nat
      BY AvailableFacts, ParserAssumption
    <3> QED
      BY <2>1, <3>1, <3>2
  <2>3. ~Clean
    BY <2>2 DEF Clean
  <2> QED
    BY <1>1, <2>1, <2>3, WarningFacts DEF WarnInv
<1>6. CASE TooManyRules
  <2>1. /\ UNCHANGED <<input, failAt>> /\ outcome' = "parsed" /\ ReadLine
        /\ warnings' = Warn(lineNum + 1) /\ totalBytes + Bytes <= MaxFileSize
        /\ totalBytes' = totalBytes + Bytes
    BY <1>6 DEF TooManyRules, Parsing, ReadLine, Scanning
  <2>2. ~Clean
    <3>1. CASE Whole(lineNum + 1)
      <4>1. lineNum + 1 \in Nat /\ lineNum + 1 > lineNum
        BY <2>1, ReadTypes
      <4>2. Cardinality(RuleLines) > maxRules
        BY <1>6, <3>1, <4>1, NoRoom
      <4>3. Cardinality(RuleLines) \in Nat /\ maxRules \in Nat
        BY RuleLineFacts, ParserAssumption DEF TypeOK
      <4>4. ~(Cardinality(RuleLines) <= maxRules)
        BY <4>2, <4>3
      <4> QED
        BY <4>4 DEF Clean
    <3>2. CASE ~Whole(lineNum + 1)
      <4> SUFFICES ASSUME failAt = Nil, FileSize <= MaxFileSize PROVE FALSE
        BY DEF Clean
      <4>1. /\ file \in Seq(Line(format)) /\ EndsInBytes /\ lineNum + 1 \in 1 .. Len(file) /\ Len(file) \in Nat
        BY <2>1, ReadCases DEF TypeOK
      <4>2. totalBytes' = Offset[lineNum + 1]
        BY <2>1, <3>2, ReadCases
      <4>3. Offset[lineNum + 1] \in Nat
        BY <4>1, OffsetFacts
      <4> QED
        BY <2>1, <3>2, <4>2, <4>3, WholeFacts
    <3> QED
      BY <3>1, <3>2
  <2> QED
    BY <1>1, <2>1, <2>2, WarningFacts DEF WarnInv
<1>7. CASE Load
  BY <1>7 DEF Load, WarnInv
<1>8. CASE UNCHANGED vars
  <2>1. UNCHANGED <<input, failAt, lineNum, totalBytes, warnings, outcome>>
    BY <1>8 DEF vars
  <2>2. Clean' = Clean /\ Offset' = Offset /\ \A n : Flawed(n)' = Flawed(n)
    BY <2>1, ReadableStays, FileStays
  <2> QED
    BY <2>1, <2>2 DEF WarnInv, StrictError
<1>9. CASE ReadLine /\ outcome' = "scanning"
  BY <1>9, WarnReads
<1> QED
  BY <1>3, <1>4, <1>5, <1>6, <1>7, <1>8, <1>9 DEF Next, OverlongLine, SkipLine, OrphanHeader,
     InvalidHeader, AddHeader, InvalidRule, UnsupportedRule, AddRule, Parsing, ReadLine, Scanning

(***************************************************************************)
(* Nothing else is dropped, and what is dropped is warned of.              *)
(***************************************************************************)
\* The scan keeps all of it.
ParserInv == TypeOK /\ ScanInv /\ CurrentInv /\ RulesInv /\ HeadersInv /\ OrderInv /\ WarnInv

\* It holds when a scan starts,
LEMMA InvStarts == Init => ParserInv
<1> SUFFICES ASSUME Init PROVE ParserInv
  OBVIOUS
<1>1. /\ TypeOK /\ ScanInv /\ DOMAIN rules = {} /\ Len(rules) = 0 /\ current = 0 /\ lineNum = 0
      /\ DOMAIN warnings = {} /\ outcome = "scanning"
  BY ScanStarts DEF Init
<1>2. Scanned = {}
  <2>1. \A n \in RuleLines : n \in 1 .. Len(file)
    BY <1>1, RuleLineFacts
  <2> QED
    BY <1>1, <2>1 DEF Scanned
<1>3. RulesInv
  BY <1>1, <1>2, FS_EmptySet DEF RulesInv
<1>4. CurrentInv /\ HeadersInv /\ OrderInv
  BY <1>1 DEF CurrentInv, HeadersInv, OrderInv
<1>5. WarnInv
  BY <1>1 DEF WarnInv, StrictError
<1> QED
  BY <1>1, <1>3, <1>4, <1>5 DEF ParserInv

\* and after each step.
LEMMA InvStep == ParserInv /\ [Next]_vars => ParserInv'
BY TypeStep, ScanStep, CurrentStep, RulesStep, OwnStep, OrderStep, WarnStep DEF ParserInv

\* The parsers keep every line that is valid, whole and within the limits, in file order, and
\* put every header under its own pattern, for any file and any limits.
THEOREM NothingElseDropped == Spec => []NothingElseIsDropped
<1>1. Init => ParserInv /\ NothingElseIsDropped
  BY InvStarts DEF Init, NothingElseIsDropped, Parsed
<1>2. ParserInv /\ NothingElseIsDropped /\ [Next]_vars => (ParserInv /\ NothingElseIsDropped)'
  BY InvStep, DroppedStep DEF ParserInv
<1> QED
  BY <1>1, <1>2, PTL DEF Spec

\* Strict mode rejects a file exactly when something in it would be dropped.
THEOREM StrictIsExact == Spec => []StrictLoadsExactlyCleanFiles
<1>1. Init => ParserInv /\ StrictLoadsExactlyCleanFiles
  BY InvStarts DEF Init, StrictLoadsExactlyCleanFiles
<1>2. ASSUME ParserInv, StrictLoadsExactlyCleanFiles, [Next]_vars
      PROVE  StrictLoadsExactlyCleanFiles'
  <2>1. CASE Load
    <3>1. /\ outcome = "parsed" /\ strict' \in BOOLEAN /\ UNCHANGED <<input, failAt>>
          /\ outcome' = IF strict' /\ StrictError THEN "rejected" ELSE "loaded"
      BY <2>1 DEF Load
    <3>2. (StrictError <=> ~Clean) /\ Clean' = Clean
      BY <1>2, <3>1, ReadableStays DEF ParserInv, WarnInv
    <3> QED
      BY <3>1, <3>2 DEF StrictLoadsExactlyCleanFiles
  <2>2. CASE UNCHANGED vars
    <3>1. UNCHANGED <<input, failAt, strict, outcome>>
      BY <2>2 DEF vars
    <3>2. Clean' = Clean
      BY <3>1, ReadableStays
    <3> QED
      BY <1>2, <3>1, <3>2 DEF StrictLoadsExactlyCleanFiles
  <2>3. CASE outcome' \in {"scanning", "parsed"}
    BY <2>3 DEF StrictLoadsExactlyCleanFiles
  <2> QED
    BY <1>2, <2>1, <2>2, <2>3 DEF Next, ReadFails, EndOfFile, FileTooLarge, OverlongLine,
       SkipLine, OrphanHeader, InvalidHeader, AddHeader, InvalidRule, UnsupportedRule,
       TooManyRules, AddRule, Parsing, ReadLine, Scanning
<1>3. ParserInv /\ StrictLoadsExactlyCleanFiles /\ [Next]_vars =>
        (ParserInv /\ StrictLoadsExactlyCleanFiles)'
  BY <1>2, InvStep
<1> QED
  BY <1>1, <1>3, PTL DEF Spec
=============================================================================
