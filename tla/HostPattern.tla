---------------------------- MODULE HostPattern ----------------------------
(***************************************************************************)
(* Patterns that are absolute URLs (src/pattern.go: splitURLPattern,       *)
(* matchHost).  A host or a pattern is a sequence of characters, and       *)
(* "https://" is one of them; see Template.                                *)
(***************************************************************************)
EXTENDS Pattern

Digits == {"0", "1"}

Https == "https://"

Absolute(pattern) == pattern[1] = Https

ValidPattern(pattern) ==
    /\ pattern # <<>> /\ OneWildcard(pattern)
    /\ PlaceholdersAreSegments(SplitAt(IF Absolute(pattern) THEN Tail(pattern) ELSE pattern, "/"))

(***************************************************************************)
(* splitURLPattern.                                                        *)
(***************************************************************************)
\* Up to the first of chars; a percent-encoded one does not count.
Before(text, chars) ==
    LET found == {i \in DOMAIN text : text[i] \in chars /\ (i = 1 \/ text[i - 1] # "%")}
    IN SubSeq(text, 1, CHOOSE n \in 0 .. Len(text) :
                           /\ n = Len(text) \/ n + 1 \in found
                           /\ \A i \in found : n < i)

From(text, chars) == SubSeq(text, Len(Before(text, chars)) + 1, Len(text))

\* url.PathUnescape; an invalid escape leaves the text as it is.
Unescape(text) ==
    IF \E i \in DOMAIN text : text[i] = "%" /\ (i = Len(text) \/ text[i + 1] = "%")
    THEN text ELSE FlattenSeq([i \in DOMAIN text |-> IF text[i] = "%" THEN <<>> ELSE <<text[i]>>])

AnyColonIsPort(host) ==         \* variant: what follows any colon is taken for a port
    Before(host, {":"})

\* A colon with anything but digits behind it starts a placeholder, not a port.
StripPatternPort(host) ==
    LET port == Last(SplitAt(host, ":")) IN
    IF host # <<>> /\ host[1] = "["
    THEN IF Contains(host, "]") THEN Tail(Before(host, {"]"})) ELSE host
    ELSE IF Contains(host, ":") /\ Range(port) \subseteq Digits
    THEN SubSeq(host, 1, Len(host) - Len(port) - 1)
    ELSE host

Authority(pattern) == Before(Tail(pattern), {"/", "?", "#"})

\* The host, without userinfo and port; empty for a pattern that is only a path.
ExtractHost(pattern) ==
    IF ~Absolute(pattern) THEN <<>>
    ELSE StripPatternPort(Last(SplitAt(Authority(pattern), "@")))

\* The path, as segments.
ExtractPath(pattern) ==
    LET path == Before(From(Tail(pattern), {"/", "?", "#"}), {"?", "#"})
    IN SplitAt(IF ~Absolute(pattern) THEN pattern
               ELSE IF path = <<>> THEN <<"/">> ELSE Unescape(path), "/")

(***************************************************************************)
(* matchHost.  An IPv6 address is digits and at least two colons.          *)
(***************************************************************************)
IsAddress(host) ==
    /\ Range(host) \subseteq Digits \cup {":"}
    /\ Len(SplitAt(host, ":")) > 2

\* The host net.SplitHostPort finds, or all of it.
DropPort(host) ==
    IF host # <<>> /\ host[1] = "["
    THEN IF Contains(host, "]") /\ Last(host) # "]" THEN Tail(Before(host, {"]"})) ELSE host
    ELSE IF Len(SplitAt(host, ":")) = 2 THEN Before(host, {":"}) ELSE host

WithoutBrackets(host) == SelectSeq(host, LAMBDA c : c \notin {"[", "]"})

AddressesAsLabels(pattern, host) ==     \* variant: addresses are not told apart
    LET labels == SplitAt(pattern, ".")
        asked == SplitAt(DropPort(host), ".")
    IN IF ~Contains(pattern, ":") THEN FoldEqual(pattern, DropPort(host))
       ELSE /\ Len(labels) = Len(asked)
            /\ \A i \in DOMAIN labels :
                 (labels[i] # <<>> /\ labels[i][1] = ":") \/ FoldEqual(labels[i], asked[i])

\* Labels are compared one by one, and a placeholder is any label.
MatchHost(pattern, host) ==
    LET labels == SplitAt(pattern, ".")
        asked == SplitAt(DropPort(host), ".")
    IN IF IsAddress(pattern) THEN pattern = WithoutBrackets(DropPort(host))
       ELSE IF ~Contains(pattern, ":") THEN FoldEqual(pattern, DropPort(host))
       ELSE /\ Len(labels) = Len(asked)
            /\ \A i \in DOMAIN labels :
                 (labels[i] # <<>> /\ labels[i][1] = ":") \/ FoldEqual(labels[i], asked[i])

(***************************************************************************)
(* What a host means: name or address, then perhaps a port; in the pattern *)
(* a label with a ":" in front is any label.                               *)
(***************************************************************************)
Readings(text) == {name \in {SubSeq(text, 1, n) : n \in 0 .. Len(text)} :
    \/ name = text
    \/ /\ text[Len(name) + 1] = ":" /\ Len(name) + 1 < Len(text)
       /\ Range(SubSeq(text, Len(name) + 2, Len(text))) \subseteq Digits}

HostReads(pattern, host) ==
    ~Absolute(pattern) \/
    \E name \in Readings(Last(SplitAt(Authority(pattern), "@"))), asked \in Readings(host) :
        IF name # <<>> /\ name[1] = "[" THEN name = asked
        ELSE LET labels == SplitAt(name, ".")
                 given == SplitAt(asked, ".")
             IN /\ Len(labels) = Len(given)
                /\ \A i \in DOMAIN labels :
                     (labels[i] # <<>> /\ labels[i][1] = ":") \/ FoldEqual(labels[i], given[i])
=============================================================================
