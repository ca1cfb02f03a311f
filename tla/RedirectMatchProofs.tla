------------------------ MODULE RedirectMatchProofs ------------------------
(***************************************************************************)
(* Theorems about RedirectMatch, for all rules, rule lists and requests:   *)
(* the buckets list what belongs to them, and the merge of two of them,    *)
(* with the early stop, answers with the first rule that matches; the      *)
(* answer is one whose pattern reads as the path, and the path is the      *)
(* pattern's text with what was captured.                                  *)
(***************************************************************************)
EXTENDS RedirectMatch, PatternProofs

(***************************************************************************)
(* Why the first match wins: each bucket lists, in file order, the rules   *)
(* indexed so far that belong to it,                                       *)
(***************************************************************************)
Lists(bucket, positions) ==
    /\ Range(bucket) = positions
    /\ \A i, j \in DOMAIN bucket : i < j => bucket[i] < bucket[j]

IndexInv ==
    /\ pc # "compile" => compiled = Len(rules)
    /\ \A key \in Patterns \cup Paths :
         Lists(exactRedirects[key], {i \in 1 .. compiled : Exact(Pat(i)) /\ Pat(i).raw = key})
    /\ \A segment \in FirstSegments :
         Lists(byFirstSegment[segment],
               {i \in 1 .. compiled : /\ ~Exact(Pat(i)) /\ segment # Nil
                                      /\ FirstSegment(Pat(i)) = segment})
    /\ Lists(anyFirstSegment,
             {i \in 1 .. compiled : ~Exact(Pat(i)) /\ FirstSegment(Pat(i)) = Nil})

\* and while they are merged, every rule that matches is the exact match, behind it,
\* or still in a bucket.
MergeInv == pc = "merge" =>
    /\ Lists(a, Range(a)) /\ Lists(b, Range(b))
    /\ bestExact # 0 => Match(Pat(bestExact), requestPath)
    /\ \A i \in Matching(requestPath) :
         IF Exact(Pat(i)) THEN bestExact # 0 /\ bestExact <= i
         ELSE i \in Range(a) \cup Range(b)

(***************************************************************************)
(* Lists of positions, in increasing order.                                *)
(***************************************************************************)
\* The first of a list is the least.
LEMMA FirstIsLeast ==
    ASSUME NEW bucket \in Seq(Nat), Lists(bucket, Range(bucket)), bucket # <<>>
    PROVE  bucket[1] \in Range(bucket) /\ \A i \in Range(bucket) : bucket[1] <= i
<1>1. Len(bucket) \in Nat \ {0} /\ DOMAIN bucket = 1 .. Len(bucket)
  OBVIOUS
<1>2. \A k \in DOMAIN bucket : bucket[1] <= bucket[k]
  <2> SUFFICES ASSUME NEW k \in DOMAIN bucket PROVE bucket[1] <= bucket[k]
    OBVIOUS
  <2>1. CASE k = 1
    BY <1>1, <2>1
  <2>2. CASE k # 1
    BY <1>1, <2>2 DEF Lists
  <2> QED
    BY <2>1, <2>2
<1> QED
  BY <1>1, <1>2 DEF Range

\* The others are the rest of the list.
LEMMA RestOfList ==
    ASSUME NEW bucket \in Seq(Nat), Lists(bucket, Range(bucket)), bucket # <<>>
    PROVE  /\ Lists(Tail(bucket), Range(Tail(bucket)))
           /\ Range(bucket) = Range(Tail(bucket)) \cup {bucket[1]}
<1>1. /\ Len(bucket) \in Nat \ {0} /\ DOMAIN bucket = 1 .. Len(bucket)
      /\ DOMAIN Tail(bucket) = 1 .. Len(bucket) - 1
      /\ \A k \in 1 .. Len(bucket) - 1 : Tail(bucket)[k] = bucket[k + 1]
  OBVIOUS
<1>2. Lists(Tail(bucket), Range(Tail(bucket)))
  BY <1>1 DEF Lists
<1>3. ASSUME NEW k \in DOMAIN bucket PROVE bucket[k] \in Range(Tail(bucket)) \cup {bucket[1]}
  <2>1. CASE k = 1
    BY <2>1
  <2>2. CASE k # 1
    <3>1. k - 1 \in DOMAIN Tail(bucket) /\ Tail(bucket)[k - 1] = bucket[k]
      BY <1>1, <2>2
    <3> QED
      BY <3>1 DEF Range
  <2> QED
    BY <2>1, <2>2
<1>4. Range(Tail(bucket)) \cup {bucket[1]} \subseteq Range(bucket)
  BY <1>1 DEF Range
<1> QED
  BY <1>2, <1>3, <1>4 DEF Range

\* A position that is later than all listed is appended.
LEMMA AppendToList ==
    ASSUME NEW bucket \in Seq(Nat), NEW positions, Lists(bucket, positions),
           NEW n \in Nat, \A i \in positions : i < n
    PROVE  Lists(Append(bucket, n), positions \cup {n})
<1> DEFINE more == Append(bucket, n)
<1>1. /\ DOMAIN bucket = 1 .. Len(bucket) /\ DOMAIN more = 1 .. Len(bucket) + 1
      /\ Len(bucket) \in Nat
      /\ \A k \in 1 .. Len(bucket) : more[k] = bucket[k]
      /\ more[Len(bucket) + 1] = n
  OBVIOUS
<1> HIDE DEF more
<1>2. Range(more) = positions \cup {n}
  BY <1>1 DEF Lists, Range
<1>3. ASSUME NEW i \in DOMAIN more, NEW j \in DOMAIN more, i < j PROVE more[i] < more[j]
  <2>1. i \in DOMAIN bucket /\ more[i] = bucket[i] /\ bucket[i] \in positions
    BY <1>1, <1>3 DEF Lists, Range
  <2>2. CASE j \in DOMAIN bucket
    BY <1>1, <1>3, <2>1, <2>2 DEF Lists
  <2>3. CASE j = Len(bucket) + 1
    BY <1>1, <2>1, <2>3
  <2> QED
    BY <1>1, <2>2, <2>3
<1> QED
  BY <1>2, <1>3 DEF Lists, more

(***************************************************************************)
(* What the index relies on of a pattern.                                  *)
(***************************************************************************)
\* A compiled pattern keeps its text.
LEMMA CompileKeepsText ==
    ASSUME NEW raw PROVE CompilePattern(raw).raw = raw /\ CompilePattern(raw).fold = FALSE
BY DEF CompilePattern

\* A pattern with a "*" has the segments in front of it as its head.
LEMMA CompileSplat ==
    ASSUME NEW raw, {i \in DOMAIN raw : Contains(raw[i], "*")} # {}
    PROVE  /\ CompilePattern(raw).hasSplat
           /\ \E s \in DOMAIN raw : CompilePattern(raw).head = Segments(SubSeq(raw, 1, s - 1))
<1> DEFINE starred == {i \in DOMAIN raw : Contains(raw[i], "*")}
           s == CHOOSE i \in starred : TRUE
           k == CHOOSE j \in DOMAIN raw[s] : raw[s][j] = "*"
<1>1. CompilePattern(raw)
      = [raw |-> raw, fold |-> FALSE, hasSplat |-> TRUE,
         head   |-> Segments(SubSeq(raw, 1, s - 1)),
         tail   |-> Segments(SubSeq(raw, s + 1, Len(raw))),
         before |-> SubSeq(raw[s], 1, k - 1),
         after  |-> SubSeq(raw[s], k + 1, Len(raw[s]))]
  BY Zenon DEF CompilePattern
<1>2. s \in DOMAIN raw
  OBVIOUS
<1> HIDE DEF s, k
<1> QED
  BY <1>1, <1>2

\* An exact pattern matches its own text and nothing else.
LEMMA ExactMatchesItsText ==
    ASSUME NEW S, NEW raw \in Seq(S), NEW path \in Seq(S), Exact(CompilePattern(raw))
    PROVE  Match(CompilePattern(raw), path) <=> path = raw
<1> DEFINE p == CompilePattern(raw)
<1>1. ~p.hasSplat /\ Slots(p) \subseteq {NoSlot}
  BY DEF Exact
<1>2. p.head = Segments(raw) /\ p.fold = FALSE
  <2>1. CASE {i \in DOMAIN raw : Contains(raw[i], "*")} = {}
    BY <2>1 DEF CompilePattern
  <2>2. CASE {i \in DOMAIN raw : Contains(raw[i], "*")} # {}
    <3>1. CompilePattern(raw).hasSplat
      BY <2>2, CompileSplat
    <3> QED
      BY <1>1, <3>1
  <2> QED
    BY <2>1, <2>2
<1> HIDE DEF p
<1>3. /\ DOMAIN raw = 1 .. Len(raw) /\ Len(raw) \in Nat
      /\ DOMAIN path = 1 .. Len(path) /\ Len(path) \in Nat
  OBVIOUS
<1>4. /\ Len(p.head) = Len(raw) /\ DOMAIN p.head = 1 .. Len(raw)
      /\ \A i \in 1 .. Len(raw) : p.head[i] = PatternSegment(raw[i])
  BY <1>2, <1>3 DEF Segments
<1>5. ASSUME NEW i \in 1 .. Len(raw)
      PROVE  p.head[i].slot = NoSlot /\ p.head[i].literal = raw[i]
  <2>1. p.head[i].slot \in Slots(p)
    BY <1>4 DEF Slots
  <2>2. PatternSegment(raw[i]).literal = raw[i]
    BY DEF PatternSegment
  <2> QED
    BY <1>1, <1>4, <2>1, <2>2
<1>6. Match(p, path) <=> Len(path) = Len(raw) /\ \A i \in 1 .. Len(raw) : path[i] = raw[i]
  BY <1>1, <1>2, <1>4, <1>5 DEF Match, HeadMatches, SegmentMatch
<1>7. (Len(path) = Len(raw) /\ \A i \in 1 .. Len(raw) : path[i] = raw[i]) <=> path = raw
  BY <1>3, SeqEqual
<1> QED
  BY <1>6, <1>7 DEF p

\* What a pattern with a first segment matches has that segment.
LEMMA FirstSegmentIsMatched ==
    ASSUME NEW S, NEW raw \in Seq(S), NEW path, FirstSegment(CompilePattern(raw)) # Nil,
           Match(CompilePattern(raw), path)
    PROVE  path[2] = FirstSegment(CompilePattern(raw))
<1> DEFINE p == CompilePattern(raw)
<1>1. \E part \in Seq(S) : p.head = Segments(part)
  <2> DEFINE starred == {i \in DOMAIN raw : Contains(raw[i], "*")}
  <2>1. CASE starred = {}
    BY <2>1 DEF CompilePattern
  <2>2. CASE starred # {}
    <3>1. PICK s \in DOMAIN raw : p.head = Segments(SubSeq(raw, 1, s - 1))
      BY <2>2, CompileSplat
    <3>2. s \in 1 .. Len(raw)
      OBVIOUS
    <3>3. SubSeq(raw, 1, s - 1) \in Seq(S)
      BY <3>2
    <3> QED
      BY <3>1, <3>3
  <2> QED
    BY <2>1, <2>2
<1>2. p.fold = FALSE
  BY CompileKeepsText
<1> HIDE DEF p
<1>3. Len(p.head) >= 2 /\ p.head[2].slot = NoSlot /\ FirstSegment(p) = p.head[2].literal
  BY DEF FirstSegment, p
<1>4. DOMAIN p.head = 1 .. Len(p.head) /\ Len(p.head) \in Nat
  <2>1. PICK part \in Seq(S) : p.head = Segments(part)
    BY <1>1
  <2>2. DOMAIN part = 1 .. Len(part) /\ Len(part) \in Nat
    OBVIOUS
  <2>3. p.head = [i \in 1 .. Len(part) |-> PatternSegment(part[i])]
    BY <2>1, <2>2 DEF Segments
  <2> QED
    BY <2>2, <2>3
<1>5. SegmentMatch(p, p.head[2], path[2])
  <2>1. HeadMatches(p, path)
    BY DEF Match, p
  <2>2. 2 \in DOMAIN p.head
    BY <1>3, <1>4
  <2> QED
    BY <2>1, <2>2 DEF HeadMatches
<1> QED
  BY <1>2, <1>3, <1>5 DEF SegmentMatch, p

(***************************************************************************)
(* The rules and the paths.                                                *)
(***************************************************************************)
\* The pattern of a rule is compiled from its text, which it keeps.
LEMMA PatternOfRule ==
    ASSUME NEW n \in Names
    PROVE  /\ Compiled[n].pattern = CompilePattern(Texts[n].from)
           /\ Compiled[n].pattern.raw = Texts[n].from
           /\ Texts[n].from \in Patterns
BY CompileKeepsText, Zenon DEF Compiled, Patterns

\* What a segment consists of.
Char == STRING \ {"/"}

\* A path the rules are matched against is one or more segments.
LEMMA PathIsSplit ==
    ASSUME NEW path \in Paths
    PROVE  path \in Seq(Seq(Char)) /\ path # <<>>
<1>1. PICK given \in Requests : path = NormalizePath(given)
  BY DEF Paths
<1> DEFINE S == Seq(Char)
<1>2. given \in Seq(S) /\ given # <<>>
  BY RedirectAssumption DEF IsSplit, Char
<1>3. <<>> \in S
  BY EmptySeq
<1> HIDE DEF S
<1>4. << <<>> >> \o given \in Seq(S) /\ << <<>> >> \o given # <<>>
  <2>1. \A first \in S, rest \in Seq(S) : <<first>> \o rest \in Seq(S) /\ <<first>> \o rest # <<>>
    OBVIOUS
  <2> QED
    BY <1>2, <1>3, <2>1
<1>5. path = given \/ path = << <<>> >> \o given
  BY <1>1 DEF NormalizePath
<1> QED
  BY <1>2, <1>4, <1>5 DEF S

\* So is the pattern of a rule.
LEMMA PatternIsSplit ==
    ASSUME NEW n \in Names
    PROVE  /\ Texts[n].from \in Seq(Seq(Char)) /\ Texts[n].from # <<>>
           /\ OneWildcard(Joined(Texts[n].from)) /\ PlaceholdersAreSegments(Texts[n].from)
BY RedirectAssumption DEF IsSplit, ValidFrom, Char

\* An exact rule matches the path that it spells.
LEMMA ExactRule ==
    ASSUME NEW n \in Names, NEW path \in Paths, Exact(Compiled[n].pattern)
    PROVE  Match(Compiled[n].pattern, path) <=> path = Compiled[n].pattern.raw
<1> DEFINE raw == Texts[n].from
           S == Seq(Char)
<1>1. raw \in Seq(S) /\ path \in Seq(S)
  BY PathIsSplit, PatternIsSplit
<1> HIDE DEF raw, S
<1>2. Compiled[n].pattern = CompilePattern(raw) /\ Compiled[n].pattern.raw = raw
  BY PatternOfRule DEF raw
<1>3. Exact(CompilePattern(raw))
  BY <1>2
<1>4. Match(CompilePattern(raw), path) <=> path = raw
  BY <1>1, <1>3, ExactMatchesItsText
<1> QED
  BY <1>2, <1>4

\* A rule with a first segment matches only paths that have it.
LEMMA SegmentRule ==
    ASSUME NEW n \in Names, NEW path, FirstSegment(Compiled[n].pattern) # Nil,
           Match(Compiled[n].pattern, path)
    PROVE  path[2] = FirstSegment(Compiled[n].pattern)
<1>1. Texts[n].from \in Seq(Seq(Char))
  BY PatternIsSplit
<1>2. Compiled[n].pattern = CompilePattern(Texts[n].from)
  BY PatternOfRule
<1> QED
  BY <1>1, <1>2, FirstSegmentIsMatched

\* The rules are names of texts.
LEMMA RulesAreNames ==
    ASSUME TypeOK
    PROVE  /\ Len(rules) \in Nat /\ DOMAIN rules = 1 .. Len(rules)
           /\ \A i \in 1 .. Len(rules) : rules[i] \in Names
<1>1. rules \in Seq(Names)
  BY RedirectAssumption DEF TypeOK
<1> QED
  BY <1>1

(***************************************************************************)
(* The types of the variables.                                             *)
(***************************************************************************)
\* The first of a bucket is a rule, and so are the others.
LEMMA BucketOfRules ==
    ASSUME NEW n \in Nat, NEW bucket \in Seq(1 .. n), bucket # <<>>
    PROVE  bucket[1] \in 1 .. n /\ Tail(bucket) \in Seq(1 .. n)
OBVIOUS

\* A rule is indexed, the positions of the file staying what they are.
LEMMA NextRuleIsRule ==
    ASSUME TypeOK, CompileRule
    PROVE  /\ compiled + 1 \in 1 .. Len(rules)
           /\ rules[compiled + 1] \in Names
           /\ compiled' \in 0 .. Len(rules)
           /\ rules' = rules /\ pc' = pc /\ request' = request
<1>1. Len(rules) \in Nat /\ compiled \in 0 .. Len(rules) /\ compiled < Len(rules)
  BY RulesAreNames DEF TypeOK, CompileRule
<1>2. compiled + 1 \in 1 .. Len(rules) /\ compiled' \in 0 .. Len(rules)
  BY <1>1 DEF CompileRule
<1>3. rules[compiled + 1] \in Names
  BY <1>2, RulesAreNames
<1> QED
  BY <1>2, <1>3 DEF CompileRule, request

\* What the types of the initial state are.
LEMMA TypesInitially == Init => TypeOK
<1> SUFFICES ASSUME Init PROVE TypeOK
  OBVIOUS
<1>1. rules \in Seq(Names)
  BY RedirectAssumption DEF Init
<1>2. compiled \in 0 .. Len(rules) /\ {bestExact, answer} \subseteq 0 .. Len(rules)
  BY <1>1 DEF Init
<1>3. <<>> \in Bucket
  BY DEF Bucket
<1> QED
  BY <1>2, <1>3 DEF Init, TypeOK, Respond

\* Indexing keeps the types.
LEMMA TypesCompile ==
    ASSUME TypeOK, CompileExact \/ CompileFirstSegment \/ CompileAnySegment
    PROVE  TypeOK'
<1> DEFINE n == compiled + 1
<1>1. /\ n \in 1 .. Len(rules) /\ rules[n] \in Names /\ compiled' \in 0 .. Len(rules)
      /\ rules' = rules /\ pc' = pc /\ request' = request
  <2>1. CompileRule
    BY DEF CompileExact, CompileFirstSegment, CompileAnySegment
  <2> QED
    BY <2>1, NextRuleIsRule
<1> HIDE DEF n
<1>2. \A bucket \in Bucket : Append(bucket, n) \in Bucket
  BY <1>1 DEF Bucket
<1>3. /\ exactRedirects' \in [Patterns \cup Paths -> Bucket]
      /\ byFirstSegment' \in [FirstSegments -> Bucket]
      /\ {wildcards', anyFirstSegment'} \subseteq Bucket
  <2>1. CASE CompileExact
    BY <1>2, <2>1 DEF CompileExact, TypeOK, NextRule, n
  <2>2. CASE CompileFirstSegment
    BY <1>2, <2>2 DEF CompileFirstSegment, TypeOK, NextRule, n
  <2>3. CASE CompileAnySegment
    BY <1>2, <2>3 DEF CompileAnySegment, TypeOK, NextRule, n
  <2> QED
    BY <2>1, <2>2, <2>3
<1> QED
  BY <1>1, <1>3 DEF TypeOK, Bucket, request

\* A request starts with the buckets of its path.
LEMMA TypesMatchFirst ==
    ASSUME TypeOK, NEW path \in Requests, MatchFirst(path)
    PROVE  TypeOK' /\ requestPath' \in Paths
<1>1. requestPath' \in Paths
  BY DEF MatchFirst, Paths
<1>2. FirstPathSegment(requestPath') \in FirstSegments
  BY <1>1 DEF FirstSegments, FirstPathSegment
<1>3. {a', b'} \subseteq Bucket
  BY <1>2 DEF MatchFirst, TypeOK
<1>4. bestExact' \in 0 .. Len(rules)
  <2>1. exactRedirects[requestPath'] \in Seq(1 .. Len(rules)) /\ Len(rules) \in Nat
    BY <1>1, RulesAreNames DEF TypeOK, Bucket
  <2>2. CASE exactRedirects[requestPath'] = <<>>
    BY <2>1, <2>2 DEF MatchFirst
  <2>3. CASE exactRedirects[requestPath'] # <<>>
    <3>1. exactRedirects[requestPath'][1] \in 1 .. Len(rules)
      BY <2>1, <2>3, BucketOfRules
    <3> QED
      BY <2>1, <2>3, <3>1 DEF MatchFirst
  <2> QED
    BY <2>2, <2>3
<1>5. /\ rules' = rules /\ compiled' = compiled /\ index' = index
      /\ answer' = 0 /\ response' = Respond("none") /\ pc' = "merge"
  BY DEF MatchFirst, index
<1>6. 0 \in 0 .. Len(rules)
  BY RulesAreNames
<1> QED
  BY <1>1, <1>3, <1>4, <1>5, <1>6 DEF TypeOK, Bucket, index, Respond

\* The rule compared next is one of the file, and the rest of its bucket a bucket.
LEMMA CandidateIsRule ==
    ASSUME TypeOK, Merging
    PROVE  Candidate \in 1 .. Len(rules)
<1>1. a \in Seq(1 .. Len(rules)) /\ b \in Seq(1 .. Len(rules)) /\ Len(rules) \in Nat
  BY RulesAreNames DEF TypeOK, Bucket
<1>2. CASE TakeFromA
  <2>1. a # <<>>
    BY <1>2 DEF TakeFromA, Merging
  <2>2. a[1] \in 1 .. Len(rules)
    BY <1>1, <2>1, BucketOfRules
  <2> QED
    BY <1>2, <2>2 DEF Candidate
<1>3. CASE ~TakeFromA
  <2>1. b # <<>>
    BY <1>3 DEF TakeFromA
  <2>2. b[1] \in 1 .. Len(rules)
    BY <1>1, <2>1, BucketOfRules
  <2> QED
    BY <1>3, <2>2 DEF Candidate
<1> QED
  BY <1>2, <1>3

\* Answering keeps the types, and never answers that the file is refused.
LEMMA TypesAnswer ==
    ASSUME TypeOK, NEW i \in 0 .. Len(rules), Answer(i)
    PROVE  TypeOK' /\ response'.status \in {"next", "redirect"}
<1>1. response'.status \in {"next", "redirect"}
  <2>1. CASE i = 0
    BY <2>1 DEF Answer, Respond
  <2>2. CASE i # 0
    <3>1. response' = Destination(i, captured')
      BY <2>2 DEF Answer
    <3>2. \A values : Destination(i, values).status \in {"next", "redirect"}
      BY DEF Destination, Respond
    <3> QED
      BY <3>1, <3>2
  <2> QED
    BY <2>1, <2>2
<1>2. /\ rules' = rules /\ compiled' = compiled /\ index' = index /\ requestPath' = requestPath
      /\ bestExact' = bestExact /\ a' = a /\ b' = b /\ answer' = i /\ pc' = "done"
  BY DEF Answer, index
<1> QED
  BY <1>1, <1>2 DEF TypeOK, Bucket, index

\* Every step keeps the types.
LEMMA TypesStep ==
    ASSUME TypeOK, [Next]_vars
    PROVE  TypeOK'
<1>1. CASE CompileExact \/ CompileFirstSegment \/ CompileAnySegment
  BY <1>1, TypesCompile
<1>2. CASE CompileEnds
  BY <1>2 DEF CompileEnds, TypeOK, Bucket, index, request
<1>3. ASSUME NEW path \in Requests, RefuseConfigFile(path) PROVE TypeOK'
  <2>1. requestPath' \in Paths
    BY <1>3 DEF RefuseConfigFile, Paths
  <2>2. 0 \in 0 .. Len(rules) /\ <<>> \in Bucket
    BY RulesAreNames DEF Bucket
  <2> QED
    BY <1>3, <2>1, <2>2 DEF RefuseConfigFile, TypeOK, Bucket, index, Respond
<1>4. ASSUME NEW path \in Requests, MatchFirst(path) PROVE TypeOK'
  BY <1>4, TypesMatchFirst
<1>5. CASE AnswerExact
  <2>1. bestExact \in 0 .. Len(rules)
    BY DEF TypeOK
  <2> QED
    BY <1>5, <2>1, TypesAnswer DEF AnswerExact
<1>6. CASE AnswerWildcard
  <2>1. Candidate \in 0 .. Len(rules)
    BY <1>6, CandidateIsRule, RulesAreNames DEF AnswerWildcard
  <2> QED
    BY <1>6, <2>1, TypesAnswer DEF AnswerWildcard
<1>7. CASE SkipWildcard
  <2>1. a \in Seq(1 .. Len(rules)) /\ b \in Seq(1 .. Len(rules)) /\ Len(rules) \in Nat
    BY RulesAreNames DEF TypeOK, Bucket
  <2>2. a' \in Bucket /\ b' \in Bucket
    <3>1. CASE TakeFromA
      <4>1. a # <<>>
        BY <1>7, <3>1 DEF SkipWildcard, TakeFromA, Merging
      <4> QED
        BY <1>7, <2>1, <3>1, <4>1, BucketOfRules DEF SkipWildcard, Bucket
    <3>2. CASE ~TakeFromA
      <4>1. b # <<>>
        BY <3>2 DEF TakeFromA
      <4> QED
        BY <1>7, <2>1, <3>2, <4>1, BucketOfRules DEF SkipWildcard, Bucket
    <3> QED
      BY <3>1, <3>2
  <2> QED
    BY <1>7, <2>2 DEF SkipWildcard, TypeOK, Bucket, index
<1>8. CASE UNCHANGED vars
  BY <1>8 DEF vars, TypeOK, Bucket, index, request
<1> QED
  BY <1>1, <1>2, <1>3, <1>4, <1>5, <1>6, <1>7, <1>8 DEF Next

\* Only rules of the file are indexed, merged and answered with, under the keys
\* that patterns and requests can have.
THEOREM RedirectTypes == Spec => []TypeOK
<1>1. Init => TypeOK
  BY TypesInitially
<1>2. TypeOK /\ [Next]_vars => TypeOK'
  BY TypesStep
<1> QED
  BY <1>1, <1>2, PTL DEF Spec

(***************************************************************************)
(* The index.                                                              *)
(***************************************************************************)
\* Nothing is indexed at first.
LEMMA IndexInitially == Init => IndexInv
<1> SUFFICES ASSUME Init PROVE IndexInv
  OBVIOUS
<1>1. 1 .. compiled = {}
  BY DEF Init
<1>2. Lists(<<>>, {})
  BY DEF Lists, Range
<1> QED
  BY <1>1, <1>2 DEF Init, IndexInv

\* A rule is appended to the bucket it belongs to, and to no other.
LEMMA IndexCompile ==
    ASSUME TypeOK, IndexInv, CompileExact \/ CompileFirstSegment \/ CompileAnySegment
    PROVE  IndexInv'
<1> DEFINE n == compiled + 1
           ExactUpTo(m, key) == {i \in 1 .. m : Exact(Pat(i)) /\ Pat(i).raw = key}
           SegmentUpTo(m, segment) ==
             {i \in 1 .. m : ~Exact(Pat(i)) /\ segment # Nil /\ FirstSegment(Pat(i)) = segment}
           AnyUpTo(m) == {i \in 1 .. m : ~Exact(Pat(i)) /\ FirstSegment(Pat(i)) = Nil}
<1>1. /\ n \in 1 .. Len(rules) /\ rules[n] \in Names /\ compiled \in Nat
      /\ rules' = rules /\ pc' = "compile" /\ compiled' = n
  <2>1. CompileRule
    BY DEF CompileExact, CompileFirstSegment, CompileAnySegment
  <2> QED
    BY <2>1, NextRuleIsRule, RulesAreNames DEF CompileRule, TypeOK
<1>2. /\ \A key \in Patterns \cup Paths : Lists(exactRedirects[key], ExactUpTo(compiled, key))
      /\ \A segment \in FirstSegments :
           Lists(byFirstSegment[segment], SegmentUpTo(compiled, segment))
      /\ Lists(anyFirstSegment, AnyUpTo(compiled))
  BY DEF IndexInv
<1>3. ASSUME /\ \A key \in Patterns \cup Paths : Lists(exactRedirects'[key], ExactUpTo(n, key))
             /\ \A segment \in FirstSegments :
                  Lists(byFirstSegment'[segment], SegmentUpTo(n, segment))
             /\ Lists(anyFirstSegment', AnyUpTo(n))
      PROVE  IndexInv'
  BY <1>1, <1>3 DEF IndexInv, Pat
<1>4. \A bucket \in Seq(1 .. Len(rules)) : \A positions :
        Lists(bucket, positions) /\ (\A i \in positions : i < n)
          => Lists(Append(bucket, n), positions \cup {n})
  <2> SUFFICES ASSUME NEW bucket \in Seq(1 .. Len(rules)), NEW positions,
                      Lists(bucket, positions), \A i \in positions : i < n
               PROVE  Lists(Append(bucket, n), positions \cup {n})
    OBVIOUS
  <2>1. bucket \in Seq(Nat) /\ n \in Nat
    BY <1>1
  <2> HIDE DEF n
  <2> QED
    BY <2>1, AppendToList
<1>5. 1 .. n = (1 .. compiled) \cup {n} /\ \A i \in 1 .. compiled : i < n
  BY <1>1
<1>6. /\ exactRedirects \in [Patterns \cup Paths -> Seq(1 .. Len(rules))]
      /\ byFirstSegment \in [FirstSegments -> Seq(1 .. Len(rules))]
      /\ anyFirstSegment \in Seq(1 .. Len(rules))
  BY DEF TypeOK, Bucket
<1>7. Pat(n).raw \in Patterns
  BY <1>1, PatternOfRule DEF Pat
<1> HIDE DEF n
<1>8. /\ \A key : ExactUpTo(n, key) = ExactUpTo(compiled, key)
                     \cup {i \in {n} : Exact(Pat(i)) /\ Pat(i).raw = key}
      /\ \A segment : SegmentUpTo(n, segment) = SegmentUpTo(compiled, segment)
           \cup {i \in {n} : ~Exact(Pat(i)) /\ segment # Nil /\ FirstSegment(Pat(i)) = segment}
      /\ AnyUpTo(n) = AnyUpTo(compiled)
           \cup {i \in {n} : ~Exact(Pat(i)) /\ FirstSegment(Pat(i)) = Nil}
  BY <1>5
<1>9. /\ \A key : \A i \in ExactUpTo(compiled, key) : i < n
      /\ \A segment : \A i \in SegmentUpTo(compiled, segment) : i < n
      /\ \A i \in AnyUpTo(compiled) : i < n
  BY <1>5
<1> HIDE DEF ExactUpTo, SegmentUpTo, AnyUpTo
<1>10. CASE CompileExact
  <2>1. /\ Exact(Pat(n)) /\ byFirstSegment' = byFirstSegment
        /\ anyFirstSegment' = anyFirstSegment
        /\ exactRedirects' = [exactRedirects EXCEPT ![Pat(n).raw] = Append(@, n)]
    BY <1>10 DEF CompileExact, NextRule, n
  <2>2. /\ \A segment : SegmentUpTo(n, segment) = SegmentUpTo(compiled, segment)
        /\ AnyUpTo(n) = AnyUpTo(compiled)
        /\ \A key : key # Pat(n).raw => ExactUpTo(n, key) = ExactUpTo(compiled, key)
        /\ ExactUpTo(n, Pat(n).raw) = ExactUpTo(compiled, Pat(n).raw) \cup {n}
    BY <1>8, <2>1
  <2>3. ASSUME NEW key \in Patterns \cup Paths
        PROVE  Lists(exactRedirects'[key], ExactUpTo(n, key))
    <3>1. CASE key = Pat(n).raw
      <4>1. exactRedirects'[key] = Append(exactRedirects[key], n)
        BY <1>6, <2>1, <3>1
      <4>2. Lists(Append(exactRedirects[key], n), ExactUpTo(compiled, key) \cup {n})
        BY <1>2, <1>4, <1>6, <1>9
      <4> QED
        BY <2>2, <3>1, <4>1, <4>2
    <3>2. CASE key # Pat(n).raw
      BY <1>2, <1>6, <2>1, <2>2, <3>2
    <3> QED
      BY <3>1, <3>2
  <2> QED
    BY <1>2, <1>3, <2>1, <2>2, <2>3
<1>11. CASE CompileFirstSegment
  <2> DEFINE first == FirstSegment(Pat(n))
  <2>1. /\ ~Exact(Pat(n)) /\ first # Nil /\ exactRedirects' = exactRedirects
        /\ anyFirstSegment' = anyFirstSegment
        /\ byFirstSegment' = [byFirstSegment EXCEPT ![first] = Append(@, n)]
    BY <1>11 DEF CompileFirstSegment, NextRule, n
  <2>2. first \in FirstSegments
    BY <1>1, <2>1 DEF FirstSegments, Pat
  <2> HIDE DEF first
  <2>3. /\ \A segment : segment # first => SegmentUpTo(n, segment) = SegmentUpTo(compiled, segment)
        /\ SegmentUpTo(n, first) = SegmentUpTo(compiled, first) \cup {n}
        /\ AnyUpTo(n) = AnyUpTo(compiled)
        /\ \A key : ExactUpTo(n, key) = ExactUpTo(compiled, key)
    BY <1>8, <2>1 DEF first
  <2>4. ASSUME NEW segment \in FirstSegments
        PROVE  Lists(byFirstSegment'[segment], SegmentUpTo(n, segment))
    <3>1. CASE segment = first
      <4>1. byFirstSegment'[segment] = Append(byFirstSegment[segment], n)
        BY <1>6, <2>1, <3>1
      <4>2. Lists(Append(byFirstSegment[segment], n), SegmentUpTo(compiled, segment) \cup {n})
        BY <1>2, <1>4, <1>6, <1>9
      <4> QED
        BY <2>3, <3>1, <4>1, <4>2
    <3>2. CASE segment # first
      BY <1>2, <1>6, <2>1, <2>3, <3>2
    <3> QED
      BY <3>1, <3>2
  <2> QED
    BY <1>2, <1>3, <2>1, <2>3, <2>4
<1>12. CASE CompileAnySegment
  <2>1. /\ ~Exact(Pat(n)) /\ FirstSegment(Pat(n)) = Nil /\ exactRedirects' = exactRedirects
        /\ byFirstSegment' = byFirstSegment /\ anyFirstSegment' = Append(anyFirstSegment, n)
    BY <1>12 DEF CompileAnySegment, NextRule, n
  <2>2. /\ \A segment : SegmentUpTo(n, segment) = SegmentUpTo(compiled, segment)
        /\ AnyUpTo(n) = AnyUpTo(compiled) \cup {n}
        /\ \A key : ExactUpTo(n, key) = ExactUpTo(compiled, key)
    BY <1>8, <2>1
  <2> QED
    BY <1>2, <1>3, <1>4, <1>6, <1>9, <2>1, <2>2
<1> QED
  BY <1>10, <1>11, <1>12

\* Every step keeps the index complete and in file order.
LEMMA IndexStep ==
    ASSUME TypeOK, IndexInv, [Next]_vars
    PROVE  IndexInv'
<1>1. CASE CompileExact \/ CompileFirstSegment \/ CompileAnySegment
  BY <1>1, IndexCompile
<1>2. CASE rules' = rules /\ compiled' = compiled /\ index' = index
           /\ (pc' # "compile" => compiled = Len(rules))
  BY <1>2 DEF IndexInv, Pat, index
<1>3. CASE CompileEnds
  BY <1>2, <1>3 DEF CompileEnds
<1>4. ASSUME NEW path \in Requests, RefuseConfigFile(path) \/ MatchFirst(path)
      PROVE  IndexInv'
  BY <1>2, <1>4 DEF RefuseConfigFile, MatchFirst, IndexInv
<1>5. CASE AnswerExact \/ AnswerWildcard \/ SkipWildcard
  BY <1>2, <1>5 DEF AnswerExact, AnswerWildcard, Answer, SkipWildcard, Merging, IndexInv
<1>6. CASE UNCHANGED vars
  BY <1>2, <1>6 DEF vars, IndexInv
<1> QED
  BY <1>1, <1>3, <1>4, <1>5, <1>6 DEF Next

(***************************************************************************)
(* The merge.                                                              *)
(***************************************************************************)
\* The buckets that a request merges hold every rule that matches its path, but
\* for the exact ones, of which bestExact is the first.
LEMMA MergeStarts ==
    ASSUME TypeOK, IndexInv, NEW path \in Requests, MatchFirst(path)
    PROVE  MergeInv'
<1> DEFINE q == requestPath'
           exact == exactRedirects[q]
<1>1. q \in Paths /\ TypeOK'
  BY TypesMatchFirst
<1>2. /\ rules' = rules /\ compiled = Len(rules) /\ pc' = "merge"
      /\ a' = byFirstSegment[q[2]] /\ b' = anyFirstSegment
      /\ bestExact' = IF exact = <<>> THEN 0 ELSE exact[1]
  BY DEF MatchFirst, FirstPathSegment, IndexInv
<1>3. q[2] \in FirstSegments /\ q \in Patterns \cup Paths
  BY <1>1 DEF FirstSegments
<1> HIDE DEF q
<1>4. /\ Lists(exact, {i \in 1 .. Len(rules) : Exact(Pat(i)) /\ Pat(i).raw = q})
      /\ Lists(a', {i \in 1 .. Len(rules) : /\ ~Exact(Pat(i)) /\ q[2] # Nil
                                            /\ FirstSegment(Pat(i)) = q[2]})
      /\ Lists(b', {i \in 1 .. Len(rules) : ~Exact(Pat(i)) /\ FirstSegment(Pat(i)) = Nil})
  BY <1>2, <1>3 DEF IndexInv
<1>5. exact \in Seq(Nat) /\ Len(rules) \in Nat /\ DOMAIN rules = 1 .. Len(rules)
  <2>1. exact \in Seq(1 .. Len(rules))
    BY <1>3 DEF TypeOK, Bucket
  <2> QED
    BY <2>1, RulesAreNames
<1> HIDE DEF exact
<1>6. \A i \in 1 .. Len(rules) : rules[i] \in Names /\ Pat(i) = Compiled[rules[i]].pattern
  BY RulesAreNames DEF Pat
<1>7. exact # <<>> => exact[1] \in Range(exact) /\ \A i \in Range(exact) : exact[1] <= i
  BY <1>4, <1>5, FirstIsLeast DEF Lists
<1>8. bestExact' # 0 => Match(Pat(bestExact'), q)
  <2> SUFFICES ASSUME bestExact' # 0 PROVE Match(Pat(bestExact'), q)
    OBVIOUS
  <2>1. bestExact' \in 1 .. Len(rules) /\ Exact(Pat(bestExact')) /\ Pat(bestExact').raw = q
    BY <1>2, <1>4, <1>7 DEF Lists
  <2> QED
    BY <1>1, <1>6, <2>1, ExactRule
<1>9. ASSUME NEW i \in 1 .. Len(rules), Match(Pat(i), q)
      PROVE  IF Exact(Pat(i)) THEN bestExact' # 0 /\ bestExact' <= i
             ELSE i \in Range(a') \cup Range(b')
  <2>1. CASE Exact(Pat(i))
    <3>1. Pat(i).raw = q
      BY <1>1, <1>6, <1>9, <2>1, ExactRule
    <3>2. i \in Range(exact)
      BY <1>4, <2>1, <3>1 DEF Lists
    <3>3. exact # <<>>
      BY <3>2 DEF Range
    <3>4. exact[1] \in 1 .. Len(rules)
      BY <1>4, <1>7, <3>3 DEF Lists
    <3> QED
      BY <1>2, <1>7, <2>1, <3>2, <3>3, <3>4
  <2>2. CASE ~Exact(Pat(i)) /\ FirstSegment(Pat(i)) = Nil
    BY <1>4, <2>2 DEF Lists
  <2>3. CASE ~Exact(Pat(i)) /\ FirstSegment(Pat(i)) # Nil
    <3>1. FirstSegment(Pat(i)) = q[2]
      BY <1>6, <1>9, <2>3, SegmentRule
    <3> QED
      BY <1>4, <2>3, <3>1 DEF Lists
  <2> QED
    BY <2>1, <2>2, <2>3
<1>10. Lists(a', Range(a')) /\ Lists(b', Range(b'))
  BY <1>4 DEF Lists
<1>11. /\ bestExact' # 0 => Match(Compiled[rules'[bestExact']].pattern, requestPath')
       /\ Matching(requestPath)' = {i \in 1 .. Len(rules) : Match(Pat(i), q)}
       /\ \A i : Pat(i)' = Pat(i)
  BY <1>2, <1>5, <1>8 DEF Pat, Matching, q
<1> QED
  BY <1>9, <1>10, <1>11 DEF MergeInv, Pat

\* The rule compared next is the first of the two buckets.
LEMMA CandidateIsFirst ==
    ASSUME TypeOK, Merging, Lists(a, Range(a)), Lists(b, Range(b))
    PROVE  /\ Candidate \in Range(a) \cup Range(b)
           /\ \A i \in Range(a) \cup Range(b) : Candidate <= i
<1>1. /\ a \in Seq(1 .. Len(rules)) /\ b \in Seq(1 .. Len(rules)) /\ Len(rules) \in Nat
  BY RulesAreNames DEF TypeOK, Bucket
<1>2. a \in Seq(Nat) /\ b \in Seq(Nat) /\ Range(a) \subseteq Nat /\ Range(b) \subseteq Nat
  BY <1>1 DEF Range
<1>3. a # <<>> => a[1] \in Range(a) /\ \A i \in Range(a) : a[1] <= i
  BY <1>2, FirstIsLeast
<1>4. b # <<>> => b[1] \in Range(b) /\ \A i \in Range(b) : b[1] <= i
  BY <1>2, FirstIsLeast
<1>5. (a = <<>> => Range(a) = {}) /\ (b = <<>> => Range(b) = {})
  BY DEF Range
<1>6. a # <<>> \/ b # <<>>
  BY DEF Merging
<1>7. CASE a = <<>> \/ b = <<>>
  BY <1>3, <1>4, <1>5, <1>6, <1>7 DEF Candidate, TakeFromA
<1>8. CASE a # <<>> /\ b # <<>> /\ a[1] < b[1]
  <2>1. Candidate = a[1]
    BY <1>8 DEF Candidate, TakeFromA
  <2>2. a[1] \in Nat /\ b[1] \in Nat /\ \A i \in Range(b) : a[1] <= i
    BY <1>2, <1>3, <1>4, <1>8
  <2> QED
    BY <1>3, <1>8, <2>1, <2>2
<1>9. CASE a # <<>> /\ b # <<>> /\ ~(a[1] < b[1])
  <2>1. Candidate = b[1]
    BY <1>9 DEF Candidate, TakeFromA
  <2>2. a[1] \in Nat /\ b[1] \in Nat /\ \A i \in Range(a) : b[1] <= i
    BY <1>2, <1>3, <1>4, <1>9
  <2> QED
    BY <1>4, <1>9, <2>1, <2>2
<1> QED
  BY <1>7, <1>8, <1>9

\* A rule that does not match is all that is dropped from them.
LEMMA MergeSkips ==
    ASSUME TypeOK, MergeInv, SkipWildcard
    PROVE  MergeInv'
<1>1. /\ pc = "merge" /\ rules' = rules /\ requestPath' = requestPath
      /\ bestExact' = bestExact /\ ~Match(Pat(Candidate), requestPath)
  BY DEF SkipWildcard, Merging
<1>2. Lists(a, Range(a)) /\ Lists(b, Range(b))
  BY <1>1 DEF MergeInv
<1>3. a \in Seq(Nat) /\ b \in Seq(Nat)
  <2>1. a \in Seq(1 .. Len(rules)) /\ b \in Seq(1 .. Len(rules)) /\ Len(rules) \in Nat
    BY RulesAreNames DEF TypeOK, Bucket
  <2> QED
    BY <2>1
<1>4. /\ Lists(a', Range(a')) /\ Lists(b', Range(b'))
      /\ Range(a) \cup Range(b) = Range(a') \cup Range(b') \cup {Candidate}
  <2>1. CASE TakeFromA
    <3>1. a # <<>>
      BY <2>1 DEF SkipWildcard, TakeFromA, Merging
    <3>2. Lists(Tail(a), Range(Tail(a))) /\ Range(a) = Range(Tail(a)) \cup {a[1]}
      BY <1>2, <1>3, <3>1, RestOfList
    <3>3. a' = Tail(a) /\ b' = b /\ Candidate = a[1]
      BY <2>1 DEF SkipWildcard, Candidate
    <3> QED
      BY <1>2, <3>2, <3>3
  <2>2. CASE ~TakeFromA
    <3>1. b # <<>>
      BY <2>2 DEF TakeFromA
    <3>2. Lists(Tail(b), Range(Tail(b))) /\ Range(b) = Range(Tail(b)) \cup {b[1]}
      BY <1>2, <1>3, <3>1, RestOfList
    <3>3. b' = Tail(b) /\ a' = a /\ Candidate = b[1]
      BY <2>2 DEF SkipWildcard, Candidate
    <3> QED
      BY <1>2, <3>2, <3>3
  <2> QED
    BY <2>1, <2>2
<1>5. \A i \in DOMAIN rules : Match(Pat(i), requestPath) =>
        IF Exact(Pat(i)) THEN bestExact # 0 /\ bestExact <= i
        ELSE i \in Range(a') \cup Range(b')
  BY <1>1, <1>4 DEF MergeInv, Matching
<1>6. \A i : Pat(i)' = Pat(i)
  BY <1>1 DEF Pat
<1> QED
  BY <1>1, <1>4, <1>5, <1>6 DEF MergeInv, Matching, Pat

\* Every step keeps what the merge relies on.
LEMMA MergeStep ==
    ASSUME TypeOK, IndexInv, MergeInv, [Next]_vars
    PROVE  MergeInv'
<1>1. CASE pc' # "merge"
  BY <1>1 DEF MergeInv
<1>2. ASSUME NEW path \in Requests, MatchFirst(path) PROVE MergeInv'
  BY <1>2, MergeStarts
<1>3. CASE SkipWildcard
  BY <1>3, MergeSkips
<1>4. CASE UNCHANGED vars
  BY <1>4 DEF vars, index, request, MergeInv, Matching, Pat
<1>5. ASSUME NEW path \in Requests, RefuseConfigFile(path) PROVE pc' # "merge"
  BY <1>5 DEF RefuseConfigFile
<1>6. CASE CompileExact \/ CompileFirstSegment \/ CompileAnySegment \/ CompileEnds
           \/ AnswerExact \/ AnswerWildcard
  BY <1>1, <1>6 DEF CompileExact, CompileFirstSegment, CompileAnySegment, CompileRule,
                    CompileEnds, AnswerExact, AnswerWildcard, Answer
<1> QED
  BY <1>1, <1>2, <1>3, <1>4, <1>5, <1>6 DEF Next

(***************************************************************************)
(* The answer.                                                             *)
(***************************************************************************)
\* The least of a set is its Min.
LEMMA LeastIsMin ==
    ASSUME NEW S \in SUBSET Nat, NEW i \in S, \A j \in S : i <= j
    PROVE  S # {} /\ i = Min(S)
<1>1. Min(S) \in S /\ \A j \in S : Min(S) <= j
  BY DEF Min
<1>2. Min(S) \in Nat /\ i \in Nat /\ i <= Min(S) /\ Min(S) <= i
  BY <1>1
<1>3. S # {}
  OBVIOUS
<1> QED
  BY <1>2, <1>3

\* MatchFirst answers with the first rule that matches.
LEMMA AnswerIsFirst ==
    ASSUME TypeOK, MergeInv, AnswerExact \/ AnswerWildcard
    PROVE  FirstMatchWins'
<1> DEFINE matching == Matching(requestPath)
<1>1. /\ pc = "merge" /\ rules' = rules /\ requestPath' = requestPath
  BY DEF AnswerExact, AnswerWildcard, Answer, Merging
<1>2. Matching(requestPath)' = matching
  BY <1>1 DEF Matching, Pat
<1>3. /\ matching \in SUBSET Nat /\ matching \subseteq 1 .. Len(rules)
      /\ bestExact \in 0 .. Len(rules) /\ Len(rules) \in Nat
  BY RulesAreNames DEF Matching, TypeOK
<1>4. bestExact # 0 => bestExact \in matching
  BY <1>1, <1>3, RulesAreNames DEF MergeInv, Matching
<1>5. \A i \in matching : \/ bestExact # 0 /\ bestExact <= i
                          \/ i \in Range(a) \cup Range(b)
  BY <1>1 DEF MergeInv
<1>6. Merging => /\ Candidate \in 1 .. Len(rules)
                 /\ \A i \in Range(a) \cup Range(b) : Candidate <= i
  BY <1>1, CandidateIsRule, CandidateIsFirst DEF MergeInv
<1> HIDE DEF matching
<1>7. ASSUME NEW i \in matching, \A j \in matching : i <= j, answer' = i
      PROVE  FirstMatchWins'
  <2>1. matching # {} /\ i = Min(matching)
    BY <1>3, <1>7, LeastIsMin
  <2> QED
    BY <1>2, <1>7, <2>1 DEF FirstMatchWins
<1>8. CASE AnswerWildcard
  <2>1. /\ Merging /\ ~StopBefore(Candidate) /\ Match(Pat(Candidate), requestPath)
        /\ answer' = Candidate
    BY <1>8 DEF AnswerWildcard, Answer
  <2>2. Candidate \in matching
    BY <1>6, <2>1, RulesAreNames DEF matching, Matching
  <2>3. bestExact # 0 => Candidate <= bestExact
    BY <1>3, <1>6, <2>1 DEF StopBefore
  <2>4. \A j \in matching : Candidate <= j
    BY <1>3, <1>5, <1>6, <2>1, <2>3
  <2> QED
    BY <1>7, <2>1, <2>2, <2>4
<1>9. CASE AnswerExact
  <2>1. /\ answer' = bestExact
        /\ \/ Merging /\ StopBefore(Candidate)
           \/ a = <<>> /\ b = <<>>
    BY <1>9 DEF AnswerExact, Answer
  <2>2. CASE bestExact # 0
    <3>1. \A j \in matching : bestExact <= j
      <4>1. CASE Merging /\ StopBefore(Candidate)
        BY <1>3, <1>5, <1>6, <4>1 DEF StopBefore
      <4>2. CASE a = <<>> /\ b = <<>>
        BY <1>5, <4>2 DEF Range
      <4> QED
        BY <2>1, <4>1, <4>2
    <3> QED
      BY <1>4, <1>7, <2>1, <2>2, <3>1
  <2>3. CASE bestExact = 0
    <3>1. a = <<>> /\ b = <<>>
      BY <2>1, <2>3 DEF StopBefore
    <3>2. matching = {}
      BY <1>5, <2>3, <3>1 DEF Range
    <3> QED
      BY <1>2, <2>1, <2>3, <3>2 DEF FirstMatchWins
  <2> QED
    BY <2>2, <2>3
<1> QED
  BY <1>8, <1>9

\* Every step keeps the answer the first match.
LEMMA AnswerStep ==
    ASSUME TypeOK, MergeInv, FirstMatchWins, [Next]_vars
    PROVE  FirstMatchWins'
<1>1. CASE ~Answered'
  BY <1>1 DEF FirstMatchWins
<1>2. CASE AnswerExact \/ AnswerWildcard
  BY <1>2, AnswerIsFirst
<1>3. CASE UNCHANGED vars
  BY <1>3 DEF vars, index, request, FirstMatchWins, Answered, Matching, Pat
<1>4. ASSUME NEW path \in Requests, RefuseConfigFile(path) \/ MatchFirst(path)
      PROVE  ~Answered'
  BY <1>4 DEF RefuseConfigFile, MatchFirst, Answered, Respond
<1>5. CASE CompileExact \/ CompileFirstSegment \/ CompileAnySegment \/ CompileEnds
           \/ SkipWildcard
  BY <1>1, <1>5 DEF CompileExact, CompileFirstSegment, CompileAnySegment, CompileRule,
                    CompileEnds, SkipWildcard, Merging, Answered
<1> QED
  BY <1>1, <1>2, <1>3, <1>4, <1>5 DEF Next

\* First match wins, whatever the rules are and whichever buckets they are in.
THEOREM FirstRuleAnswers == Spec => []FirstMatchWins
<1> DEFINE Inv == TypeOK /\ IndexInv /\ MergeInv /\ FirstMatchWins
<1>1. Init => Inv
  BY TypesInitially, IndexInitially DEF Init, MergeInv, FirstMatchWins, Answered
<1>2. Inv /\ [Next]_vars => Inv'
  BY TypesStep, IndexStep, MergeStep, AnswerStep
<1>3. Inv => FirstMatchWins
  OBVIOUS
<1> QED
  BY <1>1, <1>2, <1>3, PTL DEF Spec

(***************************************************************************)
(* What a match captures.                                                  *)
(***************************************************************************)
\* Where no name is used twice, each placeholder has a slot of its own.
LEMMA SlotOfOne ==
    ASSUME NEW T, NEW raw \in Seq(Seq(T)), ~Repeats(raw), NEW i \in Placeholders(raw),
           NEW j \in 1 .. Len(raw)
    PROVE  /\ Tail(raw[i]) # NoSlot
           /\ PatternSegment(raw[j]).slot = Tail(raw[i]) <=> j = i
<1> DEFINE x == raw[i]
           y == raw[j]
<1>1. x \in Seq(T) /\ y \in Seq(T) /\ Len(x) >= 2 /\ x[1] = ":" /\ i \in DOMAIN raw /\ j \in DOMAIN raw
  BY DEF Placeholders
<1>2. j \in Placeholders(raw) <=> Len(y) >= 2 /\ y[1] = ":"
  BY <1>1 DEF Placeholders
<1>3. PatternSegment(y).slot = IF Len(y) >= 2 /\ y[1] = ":" THEN Tail(y) ELSE NoSlot
  BY DEF PatternSegment
<1>4. x # y \/ i = j \/ j \notin Placeholders(raw)
  BY DEF Repeats
<1> HIDE DEF x, y
<1>5. ASSUME NEW z \in Seq(T), Len(z) >= 2
      PROVE  /\ Tail(z) \in Seq(T) /\ Len(Tail(z)) = Len(z) - 1 /\ Tail(z) # <<>> /\ Len(z) \in Nat
             /\ \A k \in 1 .. Len(z) - 1 : Tail(z)[k] = z[k + 1]
  <2>1. z # <<>>
    BY <1>5
  <2>2. /\ Tail(z) \in Seq(T) /\ Len(Tail(z)) = Len(z) - 1 /\ Len(z) \in Nat
        /\ \A k \in 1 .. Len(z) - 1 : Tail(z)[k] = z[k + 1]
    BY <2>1, HeadTailProperties
  <2>3. Tail(z) # <<>>
    <3> DEFINE t == Tail(z)
    <3>1. Len(t) = Len(z) - 1 /\ Len(z) \in Nat /\ Len(z) >= 2 /\ Len(<<>>) = 0
      BY <1>5, <2>2
    <3> HIDE DEF t
    <3>2. t # <<>>
      BY <3>1
    <3> QED
      BY <3>2 DEF t
  <2> QED
    BY <2>2, <2>3
<1>6. Tail(x) # NoSlot
  BY <1>1, <1>5 DEF NoSlot
<1>7. ASSUME Len(y) >= 2, y[1] = ":", Tail(y) = Tail(x) PROVE y = x
  <2> DEFINE u == Tail(x)
             v == Tail(y)
  <2>1. /\ Len(u) = Len(x) - 1 /\ Len(x) \in Nat /\ \A k \in 1 .. Len(x) - 1 : u[k] = x[k + 1]
        /\ Len(v) = Len(y) - 1 /\ Len(y) \in Nat /\ \A k \in 1 .. Len(y) - 1 : v[k] = y[k + 1]
    BY <1>1, <1>5, <1>7
  <2>2. u = v
    BY <1>7
  <2> HIDE DEF u, v
  <2>3. Len(x) = Len(y)
    BY <2>1, <2>2
  <2>4. \A k \in 1 .. Len(x) : x[k] = y[k]
    <3> TAKE k \in 1 .. Len(x)
    <3>1. CASE k = 1
      BY <1>1, <1>7, <3>1
    <3>2. CASE k # 1
      <4> DEFINE h == k - 1
      <4>1. h \in 1 .. Len(x) - 1 /\ h \in 1 .. Len(y) - 1 /\ h + 1 = k
        BY <2>1, <2>3, <3>2
      <4> HIDE DEF h
      <4> QED
        BY <2>1, <2>2, <4>1
    <3> QED
      BY <3>1, <3>2
  <2> QED
    BY <1>1, <2>3, <2>4, SeqEqual
<1>8. PatternSegment(y).slot = Tail(x) <=> j = i
  <2>1. CASE j = i
    BY <1>1, <1>3, <2>1 DEF x, y
  <2>2. CASE j # i
    BY <1>2, <1>3, <1>4, <1>6, <1>7, <2>2
  <2> QED
    BY <2>1, <2>2
<1> QED
  BY <1>6, <1>8 DEF x, y

\* The value captured for a placeholder is its segment of the path: without a "*",
LEMMA StarlessValue ==
    ASSUME NEW T, NEW raw \in Seq(Seq(T)), ~Repeats(raw), Starless(raw), NEW i \in Placeholders(raw),
           NEW path
    PROVE  Values(CompilePattern(raw), path)[Tail(raw[i])] = path[i]
<1> DEFINE p == CompilePattern(raw)
           slot == Tail(raw[i])
           n == Len(raw)
<1>1. /\ p.tail = <<>> /\ DOMAIN p.head = 1 .. n /\ n \in Nat
      /\ \A j \in 1 .. n : p.head[j] = PatternSegment(raw[j])
  BY StarlessSegments
<1>2. i \in 1 .. n
  BY DEF Placeholders
<1>3. slot # NoSlot /\ \A j \in 1 .. n : PatternSegment(raw[j]).slot = slot <=> j = i
  <2>1. \A j \in 1 .. Len(raw) : PatternSegment(raw[j]).slot = Tail(raw[i]) <=> j = i
    BY SlotOfOne
  <2>2. Tail(raw[i]) # NoSlot
    BY <1>2, SlotOfOne
  <2> QED
    BY <2>1, <2>2
<1> HIDE DEF p, slot, n
<1> DEFINE inHead == {j \in DOMAIN p.head : p.head[j].slot = slot}
           inTail == {j \in DOMAIN p.tail : p.tail[j].slot = slot}
<1>4. inHead = {i} /\ inTail = {}
  <2>1. inHead = {i}
    BY <1>1, <1>2, <1>3
  <2>2. DOMAIN p.tail = {}
    BY <1>1
  <2> QED
    BY <2>1, <2>2
<1>5. Value(p, path, slot) =
        IF inTail # {}
        THEN path[Len(path) - Len(p.tail) + CHOOSE x \in inTail : \A y \in inTail : x <= y]
        ELSE path[CHOOSE x \in inHead : \A y \in inHead : y <= x]
  BY DEF Value
<1>6. i \in Nat
  BY <1>1, <1>2
<1>7. slot \in Slots(p) \ {NoSlot}
  <2>1. p.head[i].slot = slot
    BY <1>1, <1>2, <1>3
  <2> QED
    BY <1>1, <1>2, <1>3, <2>1 DEF Slots
<1> HIDE DEF inHead, inTail
<1>8. (CHOOSE x \in inHead : \A y \in inHead : y <= x) = i
  BY <1>4, <1>6
<1>9. Value(p, path, slot) = path[i]
  BY <1>4, <1>5, <1>8
<1> QED
  BY <1>7, <1>9 DEF Values, p, slot

\* and with one.
LEMMA StarredValue ==
    ASSUME NEW T, NEW raw \in Seq(Seq(T)), ~Repeats(raw), NEW s, NEW k, StarredAt(raw, s, k),
           s \notin Placeholders(raw), NEW i \in Placeholders(raw), NEW path \in Seq(Seq(T))
    PROVE  Values(CompilePattern(raw), path)[Tail(raw[i])] = path[Place(raw, path, s, i)]
<1> DEFINE p == CompilePattern(raw)
           slot == Tail(raw[i])
           n == Len(raw)
           m == Len(path)
<1>1. s \in 1 .. n /\ n \in Nat /\ m \in Nat
  <2>1. s \in 1 .. Len(raw) /\ Len(raw) \in Nat
    BY StarredSegments
  <2> QED
    BY <2>1
<1>2. DOMAIN p.head = 1 .. s - 1 /\ \A j \in 1 .. s - 1 : p.head[j] = PatternSegment(raw[j])
  BY StarredSegments
<1>3. /\ DOMAIN p.tail = 1 .. n - s /\ Len(p.tail) = n - s
      /\ \A j \in 1 .. n - s : p.tail[j] = PatternSegment(raw[s + j])
  BY StarredSegments
<1>4. i \in 1 .. n /\ i # s
  BY DEF Placeholders
<1>5. slot # NoSlot /\ \A j \in 1 .. n : PatternSegment(raw[j]).slot = slot <=> j = i
  <2>1. \A j \in 1 .. Len(raw) : PatternSegment(raw[j]).slot = Tail(raw[i]) <=> j = i
    BY SlotOfOne
  <2>2. Tail(raw[i]) # NoSlot
    BY <1>4, SlotOfOne
  <2> QED
    BY <2>1, <2>2
<1>6. Place(raw, path, s, i) = IF i < s THEN i ELSE m - n + i
  BY DEF Place
<1> HIDE DEF p, slot, n, m
<1> DEFINE inHead == {j \in DOMAIN p.head : p.head[j].slot = slot}
           inTail == {j \in DOMAIN p.tail : p.tail[j].slot = slot}
           first == CHOOSE x \in inTail : \A y \in inTail : x <= y
           last == CHOOSE x \in inHead : \A y \in inHead : y <= x
<1>7. Value(p, path, slot) = IF inTail # {} THEN path[m - Len(p.tail) + first] ELSE path[last]
  BY DEF Value, m
<1>8. ASSUME NEW j \in 1 .. s - 1 PROVE p.head[j].slot = slot <=> j = i
  <2>1. j \in 1 .. n
    BY <1>1
  <2> QED
    BY <1>2, <1>5, <2>1
<1>9. ASSUME NEW j \in 1 .. n - s PROVE p.tail[j].slot = slot <=> s + j = i
  <2>1. s + j \in 1 .. n
    BY <1>1
  <2> QED
    BY <1>3, <1>5, <2>1
<1>10. CASE i < s
  <2>1. i \in 1 .. s - 1 /\ i \in Nat
    BY <1>1, <1>4, <1>10
  <2>2. inHead = {i}
    BY <1>2, <1>8, <2>1
  <2>3. inTail = {}
    <3>1. \A j \in 1 .. n - s : s + j # i
      BY <1>1, <1>10
    <3> QED
      BY <1>3, <1>9, <3>1
  <2>4. slot \in Slots(p)
    <3>1. p.head[i].slot = slot /\ i \in DOMAIN p.head
      BY <1>2, <1>8, <2>1
    <3> QED
      BY <3>1 DEF Slots
  <2> HIDE DEF inHead, inTail
  <2>5. last = i
    BY <2>1, <2>2
  <2>6. Value(p, path, slot) = path[i]
    BY <1>7, <2>3, <2>5
  <2> QED
    BY <1>5, <1>6, <1>10, <2>4, <2>6 DEF Values, p, slot
<1>11. CASE ~(i < s)
  <2> DEFINE q == i - s
  <2>1. q \in 1 .. n - s /\ s + q = i /\ q \in Nat /\ m - (n - s) + q = m - n + i
    BY <1>1, <1>4, <1>11
  <2>2. inTail = {q}
    <3>1. \A j \in 1 .. n - s : s + j = i <=> j = q
      <4> TAKE j \in 1 .. n - s
      <4>1. s \in Nat /\ n \in Nat /\ j \in Nat /\ i \in Nat
        BY <1>1, <1>4
      <4> QED
        BY ONLY <4>1 DEF q
    <3> HIDE DEF q
    <3> QED
      BY <1>3, <1>9, <2>1, <3>1
  <2> HIDE DEF q
  <2>3. slot \in Slots(p)
    <3>1. p.tail[q].slot = slot /\ q \in DOMAIN p.tail
      BY <1>3, <1>9, <2>1
    <3> QED
      BY <3>1 DEF Slots
  <2> HIDE DEF inHead, inTail
  <2>4. first = q
    BY <2>1, <2>2
  <2>5. Value(p, path, slot) = path[m - n + i]
    BY <1>3, <1>7, <2>1, <2>2, <2>4
  <2> QED
    BY <1>5, <1>6, <1>11, <2>3, <2>5 DEF Values, p, slot
<1> QED
  BY <1>10, <1>11

(***************************************************************************)
(* The answer and its captures, by the text of the patterns.               *)
(***************************************************************************)
\* The path of a request that is matched or answered is one.
RequestInv == pc \in {"merge", "done"} => requestPath \in Paths

\* Every step keeps it.
LEMMA RequestStep ==
    ASSUME RequestInv, [Next]_vars
    PROVE  RequestInv'
<1>1. CASE UNCHANGED vars
  BY <1>1 DEF vars, request, RequestInv
<1>2. ASSUME NEW path \in Requests, RefuseConfigFile(path) \/ MatchFirst(path)
      PROVE  RequestInv'
  BY <1>2 DEF RefuseConfigFile, MatchFirst, RequestInv, Paths
<1>3. CASE CompileExact \/ CompileFirstSegment \/ CompileAnySegment
  BY <1>3 DEF CompileExact, CompileFirstSegment, CompileAnySegment, CompileRule, request, RequestInv
<1>4. CASE CompileEnds
  BY <1>4 DEF CompileEnds, RequestInv
<1>5. CASE AnswerExact \/ AnswerWildcard \/ SkipWildcard
  BY <1>5 DEF AnswerExact, AnswerWildcard, SkipWildcard, Merging, Answer, RequestInv
<1> QED
  BY <1>1, <1>2, <1>3, <1>4, <1>5 DEF Next

\* A rule matches the paths its text reads as.
LEMMA RuleMeans ==
    ASSUME NEW n \in Names, NEW path \in Paths
    PROVE  Match(Compiled[n].pattern, path) <=> path \in Means[n]
<1> DEFINE raw == Texts[n].from
<1>1. /\ raw \in Seq(Seq(Char)) /\ raw # <<>> /\ OneWildcard(Joined(raw))
      /\ PlaceholdersAreSegments(raw) /\ path \in Seq(Seq(Char)) /\ path # <<>>
  BY PathIsSplit, PatternIsSplit
<1>2. "/" \notin Char
  BY DEF Char
<1>3. Compiled[n].pattern = CompilePattern(raw)
  BY PatternOfRule
<1>4. path \in Means[n] <=> Reads(raw, path)
  BY DEF Means
<1> HIDE DEF raw
<1>5. Match(CompilePattern(raw), path) <=> Reads(raw, path)
  BY ONLY <1>1, <1>2, PatternMeaning
<1> QED
  BY <1>3, <1>4, <1>5

\* A rule found is the first that matches.
LEMMA AnswerIsMatching ==
    ASSUME TypeOK, FirstMatchWins, Answered
    PROVE  /\ answer # 0 => answer \in Matching(requestPath)
           /\ \A i \in DOMAIN rules : (answer = 0 \/ i < answer) => i \notin Matching(requestPath)
<1> DEFINE S == Matching(requestPath)
<1>1. S \subseteq Nat /\ 0 \notin S
  BY RulesAreNames DEF Matching
<1>2. IF S = {} THEN answer = 0 ELSE answer = Min(S)
  BY DEF FirstMatchWins
<1> HIDE DEF S
<1>3. CASE S = {}
  BY <1>2, <1>3 DEF S
<1>4. CASE S # {}
  <2>1. PICK least \in S : \A m \in S : least <= m
    BY <1>1, <1>4, LeastNatural
  <2>2. least = Min(S)
    BY <1>1, <2>1, LeastIsMin
  <2>3. answer \in S /\ answer # 0 /\ \A m \in S : answer <= m
    BY <1>1, <1>2, <1>4, <2>1, <2>2
  <2>4. \A i \in DOMAIN rules : i < answer => i \notin S
    <3> SUFFICES ASSUME NEW i \in S, i < answer PROVE FALSE
      OBVIOUS
    <3>1. i \in Nat /\ answer \in Nat /\ answer <= i
      BY <1>1, <2>3
    <3> QED
      BY <3>1
  <2> QED
    BY <2>3, <2>4 DEF S
<1> QED
  BY <1>3, <1>4

\* So the answer reads as the path, and no rule before it.
LEMMA AnswerReads ==
    ASSUME TypeOK, RequestInv, FirstMatchWins
    PROVE  AnswerReadsAsThePath
<1> SUFFICES ASSUME Answered
             PROVE  /\ answer # 0 => requestPath \in Means[rules[answer]]
                    /\ \A i \in DOMAIN rules :
                         (answer = 0 \/ i < answer) => requestPath \notin Means[rules[i]]
  BY DEF AnswerReadsAsThePath
<1>1. requestPath \in Paths
  BY DEF Answered, RequestInv
<1>2. ASSUME NEW i \in DOMAIN rules
      PROVE  i \in Matching(requestPath) <=> requestPath \in Means[rules[i]]
  <2>1. rules[i] \in Names
    BY RulesAreNames
  <2>2. Match(Compiled[rules[i]].pattern, requestPath) <=> requestPath \in Means[rules[i]]
    BY <1>1, <2>1, RuleMeans
  <2> QED
    BY <2>2 DEF Matching, Pat
<1>3. answer # 0 => answer \in DOMAIN rules
  BY AnswerIsMatching DEF Matching
<1> QED
  BY <1>2, <1>3, AnswerIsMatching

\* The rule that answers is the first of the file whose text, its placeholders and its
\* "*" filled in, is the text of the requested path.
THEOREM AnswerMeansThePath == Spec => []AnswerReadsAsThePath
<1> DEFINE Inv == TypeOK /\ IndexInv /\ MergeInv /\ FirstMatchWins /\ RequestInv
<1>1. Init => Inv
  BY TypesInitially, IndexInitially DEF Init, MergeInv, FirstMatchWins, Answered, RequestInv
<1>2. Inv /\ [Next]_vars => Inv'
  BY TypesStep, IndexStep, MergeStep, AnswerStep, RequestStep
<1>3. Inv => AnswerReadsAsThePath
  BY AnswerReads
<1> QED
  BY <1>1, <1>2, <1>3, PTL DEF Spec

\* What is captured is what the rule found captures from the requested path.
CaptureInv == Expanded => captured = Capture(Pat(answer), requestPath)

\* Every step keeps it.
LEMMA CaptureStep ==
    ASSUME CaptureInv, [Next]_vars
    PROVE  CaptureInv'
<1>1. CASE UNCHANGED vars
  BY <1>1 DEF vars, request, CaptureInv, Expanded, Answered, Pat
<1>2. ASSUME NEW path \in Requests, RefuseConfigFile(path) \/ MatchFirst(path)
      PROVE  CaptureInv'
  BY <1>2 DEF RefuseConfigFile, MatchFirst, CaptureInv, Expanded, Answered, Respond
<1>3. CASE CompileExact \/ CompileFirstSegment \/ CompileAnySegment
  BY <1>3 DEF CompileExact, CompileFirstSegment, CompileAnySegment, CompileRule, CaptureInv,
              Expanded, Answered
<1>4. CASE CompileEnds \/ SkipWildcard
  BY <1>4 DEF CompileEnds, SkipWildcard, Merging, CaptureInv, Expanded, Answered
<1>5. ASSUME NEW i, Answer(i) PROVE CaptureInv'
  <2>1. rules' = rules /\ requestPath' = requestPath /\ answer' = i
    BY <1>5 DEF Answer
  <2>2. CASE i # 0 /\ Dynamic(Compiled[rules[i]].to)
    <3>1. captured' = Capture(Pat(i), requestPath)
      BY <1>5, <2>2 DEF Answer
    <3> QED
      BY <2>1, <3>1 DEF CaptureInv, Pat
  <2>3. CASE ~(i # 0 /\ Dynamic(Compiled[rules[i]].to))
    BY <2>1, <2>3 DEF CaptureInv, Expanded
  <2> QED
    BY <2>2, <2>3
<1> QED
  BY <1>1, <1>2, <1>3, <1>4, <1>5 DEF Next, AnswerExact, AnswerWildcard

\* What a match captures fills the pattern to the path.
LEMMA CaptureFills ==
    ASSUME NEW U, "/" \notin U, NEW raw \in Seq(Seq(U)), raw # <<>>, OneWildcard(Joined(raw)),
           PlaceholdersAreSegments(raw), ~Repeats(raw), NEW path \in Seq(Seq(U)), path # <<>>,
           Match(CompilePattern(raw), path)
    PROVE  LET c == Capture(CompilePattern(raw), path)
               value == [i \in Placeholders(raw) |-> c.values[Tail(raw[i])]]
               splat == IF c.splat = <<>> THEN <<>> ELSE Joined(c.splat)
           IN Fill(raw, value, splat) = Joined(path)
<1> DEFINE T == U \cup {"/"}
           p == CompilePattern(raw)
           c == Capture(p, path)
           value == [i \in Placeholders(raw) |-> c.values[Tail(raw[i])]]
           splat == IF c.splat = <<>> THEN <<>> ELSE Joined(c.splat)
<1>1. "/" \in T /\ raw \in Seq(Seq(T)) /\ path \in Seq(Seq(T))
  BY Levels
<1> HIDE DEF T
<1>2. c.values = Values(p, path) /\ c.splat = IF p.hasSplat THEN Splat(p, path) ELSE <<>>
  BY DEF Capture
<1> HIDE DEF c
<1>3. value = [i \in Placeholders(raw) |-> Values(p, path)[Tail(raw[i])]]
  BY <1>2
<1>4. ASSUME Starless(raw) PROVE Fill(raw, value, splat) = Joined(path)
  <2>1. value = [i \in Placeholders(raw) |-> path[i]]
    BY <1>3, <1>4, StarlessValue
  <2>2. Fill(raw, [i \in Placeholders(raw) |-> path[i]], splat) = Joined(path)
    <3> HIDE DEF splat
    <3> QED
      BY <1>4, StarlessFill
  <2> QED
    BY <2>1, <2>2
<1>5. ASSUME NEW s, NEW k, StarredAt(raw, s, k) PROVE Fill(raw, value, splat) = Joined(path)
  <2>1. s \notin Placeholders(raw)
    BY <1>1, <1>5, StarNotHeld
  <2>2. value = ValuesOf(raw, path, s)
    BY <1>1, <1>3, <1>5, <2>1, StarredValue DEF ValuesOf
  <2>3. p.hasSplat = TRUE
    BY <1>1, <1>5, StarredSegments
  <2>4. /\ Splat(p, path) # <<>>
        /\ Fill(raw, ValuesOf(raw, path, s), Joined(Splat(p, path))) = Joined(path)
    BY <1>1, <1>5, <2>1, StarredFill
  <2>5. splat = Joined(Splat(p, path))
    BY <1>2, <2>3, <2>4
  <2> HIDE DEF value, splat, p
  <2> QED
    BY <2>2, <2>4, <2>5
<1>6. Starless(raw) \/ \E s, k : StarredAt(raw, s, k)
  BY <1>1, OneStar
<1>7. Fill(raw, value, splat) = Joined(path)
  BY <1>4, <1>5, <1>6
<1> QED
  BY <1>7 DEF c

\* So what expand gets of a request is all of its path.
LEMMA AnswerCaptures ==
    ASSUME TypeOK, RequestInv, FirstMatchWins, CaptureInv
    PROVE  CapturesRebuildThePath
<1> SUFFICES ASSUME Expanded, ~Repeats(Pat(answer).raw)
             PROVE  LET raw == Pat(answer).raw
                        value == [i \in Placeholders(raw) |-> captured.values[Tail(raw[i])]]
                        splat == IF captured.splat = <<>> THEN <<>> ELSE Joined(captured.splat)
                    IN Fill(raw, value, splat) = Joined(requestPath)
  BY DEF CapturesRebuildThePath
<1> DEFINE n == rules[answer]
           raw == Texts[n].from
<1>1. answer \in Matching(requestPath) /\ requestPath \in Paths
  BY AnswerIsMatching DEF Expanded, Answered, RequestInv
<1>2. n \in Names /\ Match(Compiled[n].pattern, requestPath)
  BY <1>1, RulesAreNames DEF Matching, Pat
<1>3. Compiled[n].pattern = CompilePattern(raw) /\ Compiled[n].pattern.raw = raw
  BY <1>2, PatternOfRule
<1>4. captured = Capture(CompilePattern(raw), requestPath) /\ Pat(answer).raw = raw
  BY <1>3 DEF CaptureInv, Pat
<1>5. /\ raw \in Seq(Seq(Char)) /\ raw # <<>> /\ OneWildcard(Joined(raw))
      /\ PlaceholdersAreSegments(raw) /\ requestPath \in Seq(Seq(Char)) /\ requestPath # <<>>
      /\ "/" \notin Char /\ ~Repeats(raw) /\ Match(CompilePattern(raw), requestPath)
  BY <1>1, <1>2, <1>3, <1>4, PathIsSplit, PatternIsSplit DEF Char
<1> HIDE DEF raw, n
<1> DEFINE c == Capture(CompilePattern(raw), requestPath)
<1>6. Fill(raw, [i \in Placeholders(raw) |-> c.values[Tail(raw[i])]],
           IF c.splat = <<>> THEN <<>> ELSE Joined(c.splat)) = Joined(requestPath)
  BY ONLY <1>5, CaptureFills
<1> HIDE DEF c
<1>7. captured = c
  BY <1>4 DEF c
<1> QED
  BY <1>4, <1>6, <1>7

\* For every rule without a repeated name that a destination refers to, what the match
\* captures, put back into the pattern, is the requested path.
THEOREM CapturesAreThePath == Spec => []CapturesRebuildThePath
<1> DEFINE Inv == TypeOK /\ IndexInv /\ MergeInv /\ FirstMatchWins /\ RequestInv /\ CaptureInv
<1>1. Init => Inv
  BY TypesInitially, IndexInitially
     DEF Init, MergeInv, FirstMatchWins, Answered, RequestInv, CaptureInv, Expanded
<1>2. Inv /\ [Next]_vars => Inv'
  BY TypesStep, IndexStep, MergeStep, AnswerStep, RequestStep, CaptureStep
<1>3. Inv => CapturesRebuildThePath
  BY AnswerCaptures
<1> QED
  BY <1>1, <1>2, <1>3, PTL DEF Spec
=============================================================================
