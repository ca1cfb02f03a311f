------------------------------ MODULE Template ------------------------------
(***************************************************************************)
(* Header values and redirect destinations (src/pattern.go: template): how *)
(* the references to a pattern are found in a text, and what is put in     *)
(* their place.                                                            *)
(*                                                                         *)
(* A text is a sequence of characters; "https://" and "http://", which can *)
(* only start one, are a character each.  A percent-encoded character is   *)
(* the two characters "%" and what it encodes.                             *)
(***************************************************************************)
EXTENDS Pattern

Schemes == {"https://", "http://"}

\* The slot of :splat.  No placeholder has this name.
SplatSlot == <<"*">>

(***************************************************************************)
(* compileTemplate: one part per literal character or reference.           *)
(***************************************************************************)
Token(slot) == <<":">> \o (IF slot = SplatSlot THEN <<"s", "p", "l", "a", "t">> ELSE slot)

References(p) == (Slots(p) \ {NoSlot}) \cup (IF p.hasSplat THEN {SplatSlot} ELSE {})

TokensAt(raw, i, p) ==
    {slot \in References(p) : IsPrefix(Token(slot), SubSeq(raw, i, Len(raw)))}

\* The longest token at i, and :splat before a placeholder of that name.
TokenAt(raw, i, p) ==
    CHOOSE slot \in TokensAt(raw, i, p) :
        \A other \in TokensAt(raw, i, p) :
            \/ Len(Token(other)) < Len(Token(slot))
            \/ Token(other) = Token(slot) /\ (other = slot \/ slot = SplatSlot)

ContextForgetsQuery(c, ctx) ==    \* variant: a "?" starts no query
    CASE c \in {"/", "\\", "?"} -> [ctx EXCEPT !.host = FALSE]
      [] c = "#"               -> [query |-> FALSE, fragment |-> TRUE, host |-> FALSE]
      [] c \in {" ", "<", ">"} -> [query |-> FALSE, fragment |-> FALSE, host |-> FALSE]
      [] OTHER                 -> ctx

\* Where in a URL the text goes on behind the literal character c.
ContextAfter(c, ctx) ==
    CASE c \in {"/", "\\"}     -> [ctx EXCEPT !.host = FALSE]
      [] c = "?"               -> [ctx EXCEPT !.query = ~ctx.fragment, !.host = FALSE]
      [] c = "#"               -> [query |-> FALSE, fragment |-> TRUE, host |-> FALSE]
      [] c \in {" ", "<", ">"} -> [query |-> FALSE, fragment |-> FALSE, host |-> FALSE]
      [] OTHER                 -> ctx

Part(slot, char, ctx) == [slot |-> slot, char |-> char, query |-> ctx.query, host |-> ctx.host]

\* Position i of the scan; those inside a token were skipped with it.
ScanAt(raw, p, scan, i) ==
    IF i < scan.next THEN scan
    ELSE IF TokensAt(raw, i, p) # {}
    THEN LET slot == TokenAt(raw, i, p)
         IN [scan EXCEPT !.next = i + Len(Token(slot)),
                         !.parts = Append(@, Part(slot, "", scan.ctx))]
    ELSE [next  |-> i + 1,
          ctx   |-> ContextAfter(raw[i], scan.ctx),
          parts |-> Append(scan.parts, Part(NoSlot, raw[i], scan.ctx))]

\* A scheme at the start is what puts the scan in a host.
CompileTemplate(raw, p) ==
    LET start == [next |-> 1, parts |-> <<>>,
                  ctx |-> [query |-> FALSE, fragment |-> FALSE,
                           host |-> raw # <<>> /\ raw[1] \in Schemes]]
        scan[i \in 0 .. Len(raw)] == IF i = 0 THEN start ELSE ScanAt(raw, p, scan[i - 1], i)
    IN scan[Len(raw)].parts

Dynamic(t) == \E i \in DOMAIN t : t[i].slot # NoSlot

(***************************************************************************)
(* expand: url.QueryEscape in a query, url.PathEscape elsewhere.           *)
(***************************************************************************)
Letters == {"a", "b", "s", "A", "B", "S", "0", "1"}    \* and digits

Escape(text, safe, space) ==
    FlattenSeq([i \in DOMAIN text |->
        CASE text[i] \in Letters \cup safe -> <<text[i]>>
          [] text[i] = " "                -> space
          [] OTHER                        -> <<"%", text[i]>>])

QueryEscape(text) == Escape(text, {"-", "_", ".", "~"}, <<"+">>)

PathEscape(text) ==
    Escape(text, {"-", "_", ".", "~", "$", "&", "+", "=", ":", "@"}, <<"%", " ">>)

SplatUnescaped(splat) == Joined(splat)      \* variant: only placeholders are escaped

EscapeSplat(splat) == Joined([i \in DOMAIN splat |-> PathEscape(splat[i])])

Substituted(part, captured) ==
    CASE part.slot = NoSlot -> <<part.char>>
      [] part.slot = SplatSlot ->
           IF part.query THEN QueryEscape(Joined(captured.splat)) ELSE EscapeSplat(captured.splat)
      [] OTHER ->
           IF part.query THEN QueryEscape(captured.values[part.slot])
                         ELSE PathEscape(captured.values[part.slot])

Expand(t, captured) == FlattenSeq([i \in DOMAIN t |-> Substituted(t[i], captured)])

\* Values that go into a host are labels: letters, digits and hyphens.
HostValuesValid(t, captured) == \A i \in DOMAIN t :
    (t[i].host /\ t[i].slot # NoSlot) =>
        LET value == IF t[i].slot = SplatSlot THEN Joined(captured.splat)
                     ELSE captured.values[t[i].slot]
        IN Range(value) \subseteq Letters \cup {"-"}

(***************************************************************************)
(* How a client reads a URL: the characters that structure it.             *)
(***************************************************************************)
\* The text with the percent-encoded characters blanked out.
Plain(text) == [i \in DOMAIN text |->
    IF i > 1 /\ text[i - 1] = "%" THEN "%" ELSE text[i]]

FirstOf(text, chars, from) ==
    Min({i \in from .. Len(text) : text[i] \in chars} \cup {Len(text) + 1})

UrlShape(url) ==
    LET text == Plain(url)
        hash == FirstOf(text, {"#"}, 1)
        mark == Min({FirstOf(text, {"?"}, 1), hash})
        slashes == text # <<>> /\ text[1] = "/" /\ Len(text) > 1 /\ text[2] \in {"/", "\\"}
        from == IF text # <<>> /\ text[1] \in Schemes THEN 2 ELSE IF slashes THEN 3 ELSE 1
        authority == SubSeq(text, from, FirstOf(text, {"/", "\\", "?", "#"}, from) - 1)
    IN [absolute   |-> from > 1,
        labels     |-> IF from > 1 THEN Len(SplitAt(authority, ".")) ELSE 0,
        userinfo   |-> from > 1 /\ Contains(authority, "@"),
        parameters |-> IF mark < hash THEN Len(SplitAt(SubSeq(text, mark + 1, hash - 1), "&")) ELSE 0,
        fragment   |-> hash <= Len(text)]
=============================================================================
