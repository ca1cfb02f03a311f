--------------------------- MODULE RedirectMatch ---------------------------
(***************************************************************************)
(* The static_redirects handler: indexing the rules of a file, finding the *)
(* first one that matches a request and expanding its destination          *)
(* (src/redirects.go: compileRedirects, ServeHTTP, MatchFirst, expand).    *)
(*                                                                         *)
(* One compiled rule list answers any number of requests.  Each iteration  *)
(* of a loop is a step; a rule is named by its position in the file.       *)
(***************************************************************************)
EXTENDS Template, PathAccess

CONSTANTS
    Texts,      \* the rules there may be, by name: [from, to]
    Files,      \* rule lists: sequences of their names
    Requests    \* request paths

Names == DOMAIN Texts

Patterns == {Texts[n].from : n \in Names}

ValidFrom(raw) == /\ Len(raw) >= 2 /\ raw[1] = <<>>
                  /\ OneWildcard(Joined(raw)) /\ PlaceholdersAreSegments(raw)

ValidTo(to) == to # <<>> /\ to[1] \in {"/"} \cup Schemes

ASSUME RedirectAssumption ==
    /\ \A path \in Requests : IsSplit(path) /\ path[1] = <<>>
    /\ Files \subseteq Seq(Names)
    /\ \A n \in Names : /\ IsSplit(Texts[n].from) /\ ValidFrom(Texts[n].from)
                        /\ ValidTo(Texts[n].to)

Paths == {NormalizePath(path) : path \in Requests}

VARIABLES
    rules,             \* the parsed rules
    compiled,          \* how many of them are indexed
    exactRedirects, wildcards, byFirstSegment, anyFirstSegment,
    pc,
    requestPath,
    bestExact,         \* the first exact rule for requestPath, or 0
    a, b,              \* what is left of the two buckets MatchFirst merges
    answer,            \* the rule found, or 0
    captured,          \* what expand captures for it
    response           \* [status, location]: to the client, or "next" handler

index   == <<exactRedirects, wildcards, byFirstSegment, anyFirstSegment>>
request == <<requestPath, bestExact, a, b, answer, captured, response>>
vars    == <<rules, compiled, index, pc, request>>

Compiled == [n \in Names |->
    LET p == CompilePattern(Texts[n].from)
    IN [pattern |-> p, to |-> CompileTemplate(Texts[n].to, p)]]

FirstSegments == {path[2] : path \in Paths} \cup
                 ({FirstSegment(Compiled[n].pattern) : n \in Names} \ {Nil})

Bucket == Seq(1 .. Len(rules))

TypeOK ==
    /\ rules \in Files
    /\ compiled \in 0 .. Len(rules)
    /\ exactRedirects \in [Patterns \cup Paths -> Bucket]
    /\ byFirstSegment \in [FirstSegments -> Bucket]
    /\ {wildcards, anyFirstSegment, a, b} \subseteq Bucket
    /\ pc \in {"compile", "ready", "merge", "done"}
    /\ requestPath \in Paths \cup {Nil}
    /\ {bestExact, answer} \subseteq 0 .. Len(rules)
    /\ response.status \in {"none", "next", "redirect", "notFound"}

NothingCaptured == [values |-> <<>>, splat |-> <<>>]

Respond(status) == [status |-> status, location |-> <<>>]

Init ==
    /\ rules \in Files
    /\ compiled = 0
    /\ exactRedirects = [key \in Patterns \cup Paths |-> <<>>]
    /\ wildcards = <<>>
    /\ byFirstSegment = [segment \in FirstSegments |-> <<>>]
    /\ anyFirstSegment = <<>>
    /\ pc = "compile"
    /\ requestPath = Nil
    /\ bestExact = 0
    /\ a = <<>> /\ b = <<>>
    /\ answer = 0
    /\ captured = NothingCaptured
    /\ response = Respond("none")

(***************************************************************************)
(* compileRedirects.                                                       *)
(***************************************************************************)
Pat(i) == Compiled[rules[i]].pattern

NextRuleFromZero == compiled    \* variant: rules numbered one less than they are

NextRule == compiled + 1

CompileRule ==
    /\ pc = "compile" /\ compiled < Len(rules)
    /\ compiled' = compiled + 1
    /\ UNCHANGED <<rules, pc, request>>

CompileExact ==
    /\ CompileRule /\ Exact(Pat(compiled + 1))
    /\ exactRedirects' = [exactRedirects EXCEPT ![Pat(compiled + 1).raw] = Append(@, NextRule)]
    /\ UNCHANGED <<wildcards, byFirstSegment, anyFirstSegment>>

CompileFirstSegment ==
    /\ CompileRule /\ ~Exact(Pat(compiled + 1)) /\ FirstSegment(Pat(compiled + 1)) # Nil
    /\ wildcards' = Append(wildcards, NextRule)
    /\ byFirstSegment' =
         [byFirstSegment EXCEPT ![FirstSegment(Pat(compiled + 1))] = Append(@, NextRule)]
    /\ UNCHANGED <<exactRedirects, anyFirstSegment>>

CompileAnySegment ==
    /\ CompileRule /\ ~Exact(Pat(compiled + 1)) /\ FirstSegment(Pat(compiled + 1)) = Nil
    /\ wildcards' = Append(wildcards, NextRule)
    /\ anyFirstSegment' = Append(anyFirstSegment, NextRule)
    /\ UNCHANGED <<exactRedirects, byFirstSegment>>

CompileEnds ==
    /\ pc = "compile" /\ compiled = Len(rules)
    /\ pc' = "ready"
    /\ UNCHANGED <<rules, compiled, index, request>>

(***************************************************************************)
(* ServeHTTP and MatchFirst.                                               *)
(***************************************************************************)
RefuseConfigFile(path) ==
    /\ pc \in {"ready", "done"} /\ IsProtectedConfigPath(path)
    /\ requestPath' = NormalizePath(path)
    /\ bestExact' = 0 /\ a' = <<>> /\ b' = <<>>
    /\ answer' = 0 /\ captured' = NothingCaptured
    /\ response' = Respond("notFound")
    /\ pc' = "done"
    /\ UNCHANGED <<rules, compiled, index>>

FirstPathSegment(path) == path[2]

MatchFirst(path) ==
    /\ pc \in {"ready", "done"} /\ ~IsProtectedConfigPath(path)
    /\ requestPath' = NormalizePath(path)
    /\ bestExact' = IF exactRedirects[requestPath'] = <<>> THEN 0
                    ELSE exactRedirects[requestPath'][1]
    /\ a' = byFirstSegment[FirstPathSegment(requestPath')]
    /\ b' = anyFirstSegment
    /\ answer' = 0 /\ captured' = NothingCaptured /\ response' = Respond("none")
    /\ pc' = "merge"
    /\ UNCHANGED <<rules, compiled, index>>

BucketByBucket == a # <<>>      \* variant: one bucket after the other, unmerged

TakeFromA == b = <<>> \/ (a # <<>> /\ a[1] < b[1])

Candidate == IF TakeFromA THEN a[1] ELSE b[1]

StopPastNothing(i) == FALSE     \* variant: no comparison with the exact match

\* No rule after the exact match can beat it.
StopBefore(i) == bestExact # 0 /\ i > bestExact

Merging == pc = "merge" /\ (a # <<>> \/ b # <<>>)

AsExpanded(raw, to) == to       \* variant: slashes in front are left

\* Slashes in front that expansion introduced are merged.
OneSlash(raw, to) ==
    LET Doubled(text) == IsPrefix(<<"/", "/">>, text)
        kept == {i \in DOMAIN to : to[i] # "/"}
    IN IF ~Doubled(to) \/ Doubled(raw) THEN to
       ELSE <<"/">> \o IF kept = {} THEN <<>> ELSE SubSeq(to, Min(kept), Len(to))

\* expand, and what ServeHTTP makes of it.
Destination(i, values) ==
    LET to == Compiled[rules[i]].to
        raw == Texts[rules[i]].to
    IN IF ~Dynamic(to) THEN [status |-> "redirect", location |-> raw]
       ELSE IF ~HostValuesValid(to, values) THEN Respond("next")
       ELSE [status |-> "redirect", location |-> OneSlash(raw, Expand(to, values))]

\* MatchFirst returns rule i, or none.
Answer(i) ==
    /\ answer' = i
    /\ captured' = IF i = 0 \/ ~Dynamic(Compiled[rules[i]].to) THEN NothingCaptured
                   ELSE Capture(Pat(i), requestPath)
    /\ response' = IF i = 0 THEN Respond("next") ELSE Destination(i, captured')
    /\ pc' = "done"
    /\ UNCHANGED <<rules, compiled, index, requestPath, bestExact, a, b>>

AnswerExact ==
    /\ \/ Merging /\ StopBefore(Candidate)
       \/ pc = "merge" /\ a = <<>> /\ b = <<>>
    /\ Answer(bestExact)

AnswerWildcard ==
    /\ Merging /\ ~StopBefore(Candidate) /\ Match(Pat(Candidate), requestPath)
    /\ Answer(Candidate)

SkipWildcard ==
    /\ Merging /\ ~StopBefore(Candidate) /\ ~Match(Pat(Candidate), requestPath)
    /\ IF TakeFromA THEN a' = Tail(a) /\ b' = b ELSE b' = Tail(b) /\ a' = a
    /\ UNCHANGED <<rules, compiled, index, pc, requestPath, bestExact, answer, captured, response>>

Next ==
    \/ CompileExact \/ CompileFirstSegment \/ CompileAnySegment \/ CompileEnds
    \/ \E path \in Requests : RefuseConfigFile(path) \/ MatchFirst(path)
    \/ AnswerExact \/ AnswerWildcard \/ SkipWildcard

Spec == Init /\ [][Next]_vars

(***************************************************************************)
(* Properties.                                                             *)
(***************************************************************************)
Answered == pc = "done" /\ response.status # "notFound"

Matching(path) == {i \in DOMAIN rules : Match(Pat(i), path)}

\* First match wins: through the three buckets, the early stop at the exact
\* match and the merge, MatchFirst answers with the first rule of the file that
\* matches, and with none only when none does.
FirstMatchWins ==
    Answered => IF Matching(requestPath) = {} THEN answer = 0
                ELSE answer = Min(Matching(requestPath))

Means == [n \in Names |-> {path \in Paths : Reads(Texts[n].from, path)}]

\* The answer is right by the text of the patterns, not only by compiledPattern:
\* the rule reads as the path, and no rule before it does.
AnswerReadsAsThePath ==
    Answered =>
        /\ answer # 0 => requestPath \in Means[rules[answer]]
        /\ \A i \in DOMAIN rules : (answer = 0 \/ i < answer) => requestPath \notin Means[rules[i]]

\* The pattern of a rule found whose captures are used.
Expanded == Answered /\ answer # 0 /\ Dynamic(Compiled[rules[answer]].to)

Repeats(raw) == \E i, j \in Placeholders(raw) : i # j /\ raw[i] = raw[j]

\* The captured values, put back into the rule's pattern, give the requested path:
\* the destination is expanded from all of the path and nothing else of it.
CapturesRebuildThePath ==
    (Expanded /\ ~Repeats(Pat(answer).raw)) =>
        LET raw == Pat(answer).raw
            value == [i \in Placeholders(raw) |-> captured.values[Tail(raw[i])]]
            splat == IF captured.splat = <<>> THEN <<>> ELSE Joined(captured.splat)
        IN Fill(raw, value, splat) = Joined(requestPath)

\* A redirect goes where its rule says: to the same kind of URL, with as many
\* labels in its host and parameters in its query, whatever the path puts in it.
DestinationKeepsItsShape == response.status = "redirect" =>
    UrlShape(response.location) = UrlShape(Texts[rules[answer]].to)

\* "A name used twice shares one slot, so the later segment's value wins"
\* (src/pattern.go, the comment of segments).
LaterSegmentWins ==
    Expanded =>
        LET raw == Pat(answer).raw
            FromEnd(i) == IF Pat(answer).hasSplat /\ i > Len(Pat(answer).head)
                          THEN Len(requestPath) - Len(raw) + i ELSE i
        IN \A i \in Placeholders(raw) :
             (\A j \in Placeholders(raw) : raw[i] = raw[j] => j <= i)
                => captured.values[Tail(raw[i])] = requestPath[FromEnd(i)]
=============================================================================
