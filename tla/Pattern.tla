------------------------------ MODULE Pattern ------------------------------
(***************************************************************************)
(* URL path patterns (src/pattern.go): what compilePattern makes of the    *)
(* text of a pattern, which paths the compiled pattern matches, and what   *)
(* it captures from them.                                                  *)
(*                                                                         *)
(* A pattern or a path is a sequence of segments, the texts between its    *)
(* slashes; "/a/" is << <<>>, <<"a">>, <<>> >>.  A segment is a sequence   *)
(* of characters, and of a pattern it may have one "*" or begin with ":".  *)
(***************************************************************************)
EXTENDS Naturals, SequencesExt

CONSTANT Nil

(***************************************************************************)
(* Text.  Characters are strings; those with case variants are listed, and *)
(* all others are their own.  "longs" is U+017F, whose upper case is S.    *)
(***************************************************************************)
FoldRune(c) ==
    CASE c = "A" -> "a" [] c = "B" -> "b" [] c \in {"S", "longs"} -> "s" [] OTHER -> c

FoldKey(text) == [i \in DOMAIN text |-> FoldRune(text[i])]

FoldEqual(s, t) == FoldKey(s) = FoldKey(t)

\* The n-th of some numbers, from the least.  (SetToSortSeq is sorted by an operator
\* that only TLC knows.)
Nth(numbers, n) == CHOOSE i \in numbers : Cardinality({k \in numbers : k <= i}) = n

\* strings.Split by a character.
SplitAt(text, c) ==
    LET cuts == {0, Len(text) + 1} \cup {i \in DOMAIN text : text[i] = c}
    IN [n \in 1 .. Cardinality(cuts) - 1 |->
          SubSeq(text, Nth(cuts, n) + 1, Nth(cuts, n + 1) - 1)]

\* What it gives for "/", of a pattern or a path: texts without it, one at least.
IsSplit(parts) == parts # <<>> /\ parts \in Seq(Seq(STRING \ {"/"}))

\* strings.Join with "/": the text of a pattern or a path.
Joined(parts) == Tail(FlattenSeq([i \in DOMAIN parts |-> <<"/">> \o parts[i]]))

\* An empty path is "/", and one without its slash gets it.
NormalizePath(path) ==
    IF Len(path) >= 2 /\ path[1] = <<>> THEN path ELSE << <<>> >> \o path

(***************************************************************************)
(* What the parsers of both files require of a pattern.                    *)
(***************************************************************************)
OneWildcard(text) == Cardinality({i \in DOMAIN text : text[i] = "*"}) <= 1

PlaceholdersAreSegments(parts) == \A i \in DOMAIN parts :
    parts[i] # <<>> /\ parts[i][1] = ":" => ~Contains(parts[i], "*")

(***************************************************************************)
(* Compiling a pattern.                                                    *)
(***************************************************************************)
NoSlot == <<>>

\* A ":" with a name after it is a placeholder.  Equal names share a slot, so
\* the name stands for the slot.
PatternSegment(part) ==
    [literal |-> part,
     slot    |-> IF Len(part) >= 2 /\ part[1] = ":" THEN Tail(part) ELSE NoSlot]

Segments(parts) == [i \in DOMAIN parts |-> PatternSegment(parts[i])]

CompilePattern(raw) ==
    LET starred == {i \in DOMAIN raw : Contains(raw[i], "*")} IN
    IF starred = {}
    THEN [raw |-> raw, fold |-> FALSE, hasSplat |-> FALSE, head |-> Segments(raw), tail |-> <<>>,
          before |-> <<>>, after |-> <<>>]
    ELSE LET s == CHOOSE i \in starred : TRUE
             k == CHOOSE j \in DOMAIN raw[s] : raw[s][j] = "*"
         IN [raw |-> raw, fold |-> FALSE, hasSplat |-> TRUE,
             head   |-> Segments(SubSeq(raw, 1, s - 1)),
             tail   |-> Segments(SubSeq(raw, s + 1, Len(raw))),
             before |-> SubSeq(raw[s], 1, k - 1),
             after  |-> SubSeq(raw[s], k + 1, Len(raw[s]))]

Slots(p) == {p.head[i].slot : i \in DOMAIN p.head} \cup {p.tail[i].slot : i \in DOMAIN p.tail}

\* The pattern only matches its own text.
Exact(p) == ~p.hasSplat /\ Slots(p) \subseteq {NoSlot}

FirstSegmentAnyLiteral(p) ==    \* variant: a literal segment behind a placeholder
    IF Len(p.head) < 2 \/ p.head[Len(p.head)].slot # NoSlot
    THEN Nil ELSE p.head[Len(p.head)].literal

\* The literal first segment every match must have, if there is one.
FirstSegment(p) ==
    IF p.fold \/ Len(p.head) < 2 \/ p.head[1].slot # NoSlot \/ p.head[1].literal # <<>>
                       \/ p.head[2].slot # NoSlot
    THEN Nil ELSE p.head[2].literal

(***************************************************************************)
(* Matching a path: the head from its start, the tail from its end, within *)
(* what the head left, and the text around the "*" within the rest.        *)
(***************************************************************************)
SegmentMatchExactly(p, segment, part) ==    \* variant: no case folding
    segment.slot # NoSlot \/ part = segment.literal

SegmentMatch(p, segment, part) ==
    segment.slot # NoSlot \/ part = segment.literal
                          \/ (p.fold /\ FoldEqual(part, segment.literal))

HeadMatches(p, path) == \A i \in DOMAIN p.head : SegmentMatch(p, p.head[i], path[i])

TailMatches(p, path) ==
    \A i \in DOMAIN p.tail : SegmentMatch(p, p.tail[i], path[Len(path) - Len(p.tail) + i])

Rest(p, path) == SubSeq(path, Len(p.head) + 1, Len(path) - Len(p.tail))

OverlappingAffixes(p, rest) ==  \* variant: before and after may share characters
    /\ IsPrefix(p.before, rest[1])
    /\ IsSuffix(p.after, rest[Len(rest)])

\* With p.fold the comparison is folded; what it covers is as long.
Affixes(p, rest) ==
    LET Key(text) == IF p.fold THEN FoldKey(text) ELSE text IN
    /\ IsPrefix(Key(p.before), Key(rest[1]))
    /\ IsSuffix(Key(p.after), Key(rest[Len(rest)]))
    /\ Len(rest) = 1 => Len(p.before) + Len(p.after) <= Len(rest[1])

Match(p, path) ==
    IF p.hasSplat
    THEN /\ Len(path) > Len(p.head) + Len(p.tail)
         /\ HeadMatches(p, path) /\ TailMatches(p, path)
         /\ Affixes(p, Rest(p, path))
    ELSE Len(path) = Len(p.head) /\ HeadMatches(p, path)

(***************************************************************************)
(* What a match captures.  The head is walked forwards and the tail        *)
(* backwards, and every segment of a slot overwrites its value.            *)
(***************************************************************************)
Value(p, path, slot) ==
    LET inHead == {i \in DOMAIN p.head : p.head[i].slot = slot}
        inTail == {i \in DOMAIN p.tail : p.tail[i].slot = slot}
    IN IF inTail # {}
       THEN path[Len(path) - Len(p.tail) + CHOOSE i \in inTail : \A j \in inTail : i <= j]
       ELSE path[CHOOSE i \in inHead : \A j \in inHead : j <= i]

Values(p, path) == [slot \in Slots(p) \ {NoSlot} |-> Value(p, path, slot)]

SplatWithAfter(p, path) ==      \* variant: the text after the "*" is left on it
    LET rest == Rest(p, path)
    IN [rest EXCEPT ![1] = SubSeq(@, Len(p.before) + 1, Len(@))]

\* The segments the "*" stands for, the first and the last of them in part.
Splat(p, path) ==
    LET rest == Rest(p, path)
    IN [i \in DOMAIN rest |->
          SubSeq(rest[i], IF i = 1 THEN Len(p.before) + 1 ELSE 1,
                          Len(rest[i]) - IF i = Len(rest) THEN Len(p.after) ELSE 0)]

Capture(p, path) ==
    [values |-> Values(p, path), splat |-> IF p.hasSplat THEN Splat(p, path) ELSE <<>>]

(***************************************************************************)
(* What a pattern means, by its text: the path is the pattern with each    *)
(* placeholder replaced by one segment and the "*" by any text.            *)
(***************************************************************************)
Placeholders(raw) == {i \in DOMAIN raw : Len(raw[i]) >= 2 /\ raw[i][1] = ":"}

Fill(raw, value, splat) ==
    Joined([i \in DOMAIN raw |->
        IF i \in Placeholders(raw) THEN value[i]
        ELSE FlattenSeq([j \in DOMAIN raw[i] |-> IF raw[i][j] = "*" THEN splat
                                                 ELSE <<raw[i][j]>>])])

Reads(raw, path) ==
    LET text == Joined(path) IN
    \E first \in 1 .. Len(text) + 1, last \in 0 .. Len(text) :
    \E value \in [Placeholders(raw) -> Range(path)] :
        Fill(raw, value, SubSeq(text, first, last)) = text
=============================================================================
