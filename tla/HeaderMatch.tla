---------------------------- MODULE HeaderMatch ----------------------------
(***************************************************************************)
(* The static_headers handler: indexing the rules of a file, collecting    *)
(* the operations of those that match a request, and applying them to the  *)
(* response (src/headers_compile.go; ServeHTTP and applyHeaders in         *)
(* src/headers.go).                                                        *)
(*                                                                         *)
(* One compiled file answers any number of requests.  Each iteration of a  *)
(* loop over rules is a step; a rule is named by its position in the file. *)
(***************************************************************************)
EXTENDS Template, PathAccess, HostPattern

CONSTANTS
    Texts,      \* the rules there may be, by name: [pattern, ops]
    Files,      \* rule lists: sequences of their names
    Settings,   \* [dedup, fold, windows]: the handler's, and its file system's
    Requests,   \* [path, host]
    Upstream    \* response headers set before this handler

SetCookie == "Set-Cookie"

\* As the parser accepts them.
ASSUME HeaderAssumption ==
    /\ Settings \subseteq [dedup : BOOLEAN, fold : BOOLEAN, windows : BOOLEAN]
    /\ \A r \in Requests : r.path \in Seq(Seq(STRING)) \ {<<>>} /\ r.path[1] = <<>>

Names == DOMAIN Texts

\* The parser would also take a pattern with no slash, which matches nothing
\* unless it starts with a "*".
ASSUME RuleAssumption ==
    /\ Files \subseteq Seq(Names)
    /\ \A n \in Names :
         /\ ValidPattern(Texts[n].pattern) /\ Texts[n].pattern[1] \in {"/", Https}
         /\ Texts[n].pattern \in Seq(STRING)
         /\ Texts[n].ops \in Seq([name : STRING, value : Seq(STRING), mode : {"set", "remove"}])

HeaderNames == DOMAIN Upstream \cup UNION {
    {Texts[n].ops[k].name : k \in DOMAIN Texts[n].ops} : n \in Names}

VARIABLES
    rules, settings,
    compiled,                        \* how many of the rules are indexed
    exactPaths, wildcards, bySpecificity,
    pc, request,
    requestPath, requestHost,        \* what the rules are matched against
    exact, wild,                     \* what is left of the rules to look at
    ops,                             \* the operations collected
    headers                          \* the lines of each response header

index  == <<exactPaths, wildcards, bySpecificity>>
answer == <<request, requestPath, requestHost, exact, wild, ops, headers>>
vars   == <<rules, settings, compiled, index, pc, answer>>

Position == 1 .. Len(rules)

TypeOK ==
    /\ rules \in Files /\ settings \in Settings
    /\ compiled \in 0 .. Len(rules)
    /\ \A key \in DOMAIN exactPaths : exactPaths[key] \in Seq(Position)
    /\ {wildcards, bySpecificity, exact, wild} \subseteq Seq(Position)
    /\ pc \in {"compile", "ready", "refused", "match", "done"}
    /\ request \in Requests \cup {Nil}
    /\ \A k \in DOMAIN ops : ops[k].name \in HeaderNames /\ ops[k].mode \in {"set", "remove", "append"}
    /\ DOMAIN headers = HeaderNames

NoHeaders == [name \in HeaderNames |-> IF name \in DOMAIN Upstream THEN Upstream[name] ELSE <<>>]

Init ==
    /\ rules \in Files /\ settings \in Settings
    /\ compiled = 0
    /\ exactPaths = <<>> /\ wildcards = <<>> /\ bySpecificity = <<>>
    /\ pc = "compile"
    /\ request = Nil
    /\ requestPath = <<>> /\ requestHost = <<>>
    /\ exact = <<>> /\ wild = <<>> /\ ops = <<>>
    /\ headers = NoHeaders

(***************************************************************************)
(* compileRules.                                                           *)
(***************************************************************************)
CompileOps(source, p) ==
    [k \in DOMAIN source |-> [source[k] EXCEPT !.value = CompileTemplate(@, p)]]

Literal(text) == CompileTemplate(text, CompilePattern(<< <<>> >>))

Comma == <<",", " ">>

MergeOverRemoves(source) ==     \* variant: a remove does not reset the header
    LET SetOf(merged, name) ==
            {k \in DOMAIN merged : merged[k].name = name /\ merged[k].mode = "set"}
        Merge(merged, op) ==
            IF op.mode = "remove" \/ SetOf(merged, op.name) = {} THEN Append(merged, op)
            ELSE IF op.name = SetCookie THEN Append(merged, [op EXCEPT !.mode = "append"])
            ELSE [merged EXCEPT ![CHOOSE k \in SetOf(merged, op.name) : TRUE].value =
                    @ \o Literal(Comma) \o op.value]
        result[k \in 0 .. Len(source)] == IF k = 0 THEN <<>> ELSE Merge(result[k - 1], source[k])
    IN result[Len(source)]

\* mergeRepeated.  current is the set of the name since its last remove.
MergeRepeated(source) ==
    LET Current(merged, name) ==
            {k \in DOMAIN merged : /\ merged[k].name = name /\ merged[k].mode = "set"
                                   /\ \A j \in k + 1 .. Len(merged) :
                                        merged[j].name = name => merged[j].mode # "remove"}
        Merge(merged, op) ==
            IF op.mode = "remove" \/ Current(merged, op.name) = {} THEN Append(merged, op)
            ELSE IF op.name = SetCookie THEN Append(merged, [op EXCEPT !.mode = "append"])
            ELSE [merged EXCEPT ![CHOOSE k \in Current(merged, op.name) : TRUE].value =
                    @ \o Literal(Comma) \o op.value]
        result[k \in 0 .. Len(source)] == IF k = 0 THEN <<>> ELSE Merge(result[k - 1], source[k])
    IN result[Len(source)]

\* The characters not taken by placeholders or the "*".
LiteralLen(raw) == Len(Fill(raw, [i \in Placeholders(raw) |-> <<>>], <<>>))

LengthOnly(raw) == LiteralLen(raw)      \* variant: a splat ranks like a placeholder

\* computeSpecificity of a pattern that is not exact.
Specificity(raw) == LiteralLen(raw) * 2 + (IF CompilePattern(raw).hasSplat THEN 0 ELSE 1)

Compile(rule, fold) ==
    LET raw == ExtractPath(rule.pattern)
        p == [CompilePattern(raw) EXCEPT !.fold = fold]
        compiledOps == CompileOps(rule.ops, p)
    IN [pattern |-> p, host |-> ExtractHost(rule.pattern),
        ops |-> compiledOps, dedupOps |-> MergeRepeated(compiledOps),
        specificity |-> Specificity(raw)]

Compiled == [n \in Names |-> [fold \in BOOLEAN |-> Compile(Texts[n], fold)]]

Rule(i) == Compiled[rules[i]][settings.fold]

FoldPath(segments) == [i \in DOMAIN segments |-> FoldKey(segments[i])]

KeyUnfolded(segments) == segments       \* variant: exact paths do not fold

Key(segments) == IF settings.fold THEN FoldPath(segments) ELSE segments

AtKey(key) == IF key \in DOMAIN exactPaths THEN exactPaths[key] ELSE <<>>

NextRuleFromZero == compiled    \* variant: rules numbered one less than they are

NextRule == compiled + 1

CompileExact ==
    /\ pc = "compile" /\ compiled < Len(rules) /\ Exact(Rule(compiled + 1).pattern)
    /\ compiled' = compiled + 1
    /\ LET key == Key(Rule(compiled + 1).pattern.raw)
       IN exactPaths' = [k \in DOMAIN exactPaths \cup {key} |->
                           IF k = key THEN Append(AtKey(k), NextRule) ELSE exactPaths[k]]
    /\ UNCHANGED <<rules, settings, wildcards, bySpecificity, pc, answer>>

CompileWildcard ==
    /\ pc = "compile" /\ compiled < Len(rules) /\ ~Exact(Rule(compiled + 1).pattern)
    /\ compiled' = compiled + 1
    /\ wildcards' = Append(wildcards, NextRule)
    /\ UNCHANGED <<rules, settings, exactPaths, bySpecificity, pc, answer>>

\* The wildcards, least specific first, those of equal rank in file order.
RankedBefore(i, j) ==
    \/ Rule(i).specificity < Rule(j).specificity
    \/ Rule(i).specificity = Rule(j).specificity /\ i < j

UpToByFile(positions, i) ==     \* variant: the wildcards stay in file order
    {j \in positions : j <= i}

RankedUpTo(positions, i) == {j \in positions : j = i \/ RankedBefore(j, i)}

Rank ==
    /\ pc = "compile" /\ compiled = Len(rules)
    /\ bySpecificity' = [n \in DOMAIN wildcards |->
         CHOOSE i \in Range(wildcards) : Cardinality(RankedUpTo(Range(wildcards), i)) = n]
    /\ pc' = "ready"
    /\ UNCHANGED <<rules, settings, compiled, exactPaths, wildcards, answer>>

(***************************************************************************)
(* ServeHTTP: the configuration file is refused, everything else is        *)
(* matched by MatchOrdered or, with dedup, MatchBySpecificity.             *)
(***************************************************************************)
ServeHTTP(r) ==
    /\ pc \in {"ready", "refused", "done"}
    /\ request' = r
    /\ requestPath' = NormalizePath(CleanRequestPath(r.path, settings.windows))
    /\ requestHost' = DropPort(r.host)
    /\ IF IsProtectedConfigPath(r.path)
       THEN pc' = "refused" /\ exact' = <<>> /\ wild' = <<>>
       ELSE /\ pc' = "match"
            /\ exact' = AtKey(Key(requestPath'))
            /\ wild' = IF settings.dedup THEN bySpecificity ELSE wildcards
    /\ ops' = <<>> /\ headers' = NoHeaders
    /\ UNCHANGED <<rules, settings, compiled, index>>

WildcardsFirst == exact # <<>> /\ wild = <<>>   \* variant: no merge by file position

\* By file position; with dedup the exact rules come last.  The loops for one
\* list only are this one when the other is empty.
UseExact ==
    /\ exact # <<>>
    /\ wild # <<>> => (~settings.dedup /\ exact[1] < wild[1])

HostAllows(i) == Rule(i).host = <<>> \/ MatchHost(Rule(i).host, requestHost)

ExpandOps(i) ==
    LET source == IF settings.dedup THEN Rule(i).dedupOps ELSE Rule(i).ops
        captured == Capture(Rule(i).pattern, requestPath)
    IN [k \in DOMAIN source |-> [source[k] EXCEPT !.value = Expand(@, captured)]]

TakeExact ==
    /\ pc = "match" /\ UseExact
    /\ exact' = Tail(exact)
    /\ ops' = IF HostAllows(exact[1]) THEN ops \o ExpandOps(exact[1]) ELSE ops
    /\ UNCHANGED <<rules, settings, compiled, index, pc, request, requestPath, requestHost, wild, headers>>

TakeWildcard ==
    /\ pc = "match" /\ wild # <<>> /\ ~UseExact
    /\ wild' = Tail(wild)
    /\ ops' = IF HostAllows(wild[1]) /\ Match(Rule(wild[1]).pattern, requestPath)
              THEN ops \o ExpandOps(wild[1]) ELSE ops
    /\ UNCHANGED <<rules, settings, compiled, index, pc, request, requestPath, requestHost, exact, headers>>

(***************************************************************************)
(* applyHeaders.                                                           *)
(***************************************************************************)
FirstLine(lines) == IF lines = <<>> THEN <<>> ELSE lines[1]

JoinAll(h, op) ==            \* variant: cookies are comma-joined like the rest
    [h EXCEPT ![op.name] =
       CASE op.mode = "remove" -> <<>>
         [] op.mode = "append" -> Append(@, op.value)
         [] settings.dedup \/ FirstLine(@) = <<>> -> <<op.value>>
         [] OTHER -> <<FirstLine(@) \o Comma \o op.value>>]

ApplyHeader(h, op) ==
    [h EXCEPT ![op.name] =
       CASE op.mode = "remove" -> <<>>
         [] op.mode = "append" -> Append(@, op.value)
         [] op.mode = "set" /\ settings.dedup -> <<op.value>>
         [] op.mode = "set" /\ ~settings.dedup /\ op.name = SetCookie -> Append(@, op.value)
         [] OTHER -> IF FirstLine(@) = <<>> THEN <<op.value>>
                     ELSE <<FirstLine(@) \o Comma \o op.value>>]

ApplyHeaders ==
    /\ pc = "match" /\ exact = <<>> /\ wild = <<>>
    /\ headers' = FoldLeft(ApplyHeader, headers, ops)
    /\ pc' = "done"
    /\ UNCHANGED <<rules, settings, compiled, index, request, requestPath, requestHost, exact, wild, ops>>

Next ==
    \/ CompileExact \/ CompileWildcard \/ Rank
    \/ \E r \in Requests : ServeHTTP(r)
    \/ TakeExact \/ TakeWildcard \/ ApplyHeaders

Spec == Init /\ [][Next]_vars

(***************************************************************************)
(* Properties.                                                             *)
(***************************************************************************)
\* Exactly the requests whose path, read the way Windows reads it, names the
\* configuration file in any case are refused: the short cuts in front of
\* path.Clean decide what path.Clean would.
ConfigFileIsRefused == request # Nil =>
    LET names == ServedNames(WindowsPath(request.path))
    IN pc = "refused" <=> Len(names) = 1 /\ FoldEqual(names[1], ConfigName)

\* The rules are matched against the path of the file that is served, with or
\* without a slash at its end, whatever the request wrote it as.
RulesOfTheServedFile == pc \in {"match", "done"} =>
    LET named == IF settings.windows THEN WindowsPath(request.path) ELSE request.path
        served == << <<>> >> \o ServedNames(named)
    IN requestPath \in {served, Append(served, <<>>)}

\* Rule i comes before rule j: in the file or, with dedup, as the less specific of
\* two with a wildcard, and before the exact ones.
Earlier(i, j) ==
    IF ~settings.dedup \/ (Exact(Rule(i).pattern) /\ Exact(Rule(j).pattern)) THEN i < j
    ELSE ~Exact(Rule(i).pattern) /\ (Exact(Rule(j).pattern) \/ RankedBefore(i, j))

\* Which index a rule is in does not tell: the operations of a request are those of
\* all rules that match it, in the one order of the file or of the scores.
OperationsInOrder == pc = "done" =>
    LET matching == {i \in DOMAIN rules : HostAllows(i) /\ Match(Rule(i).pattern, requestPath)}
    IN \E order \in [1 .. Cardinality(matching) -> matching] :
         /\ \A n, m \in DOMAIN order : n < m => Earlier(order[n], order[m])
         /\ ops = FlattenSeq([n \in DOMAIN order |-> ExpandOps(order[n])])

Served == {NormalizePath(CleanRequestPath(r.path, w)) : r \in Requests, w \in BOOLEAN}

Means == [n \in Names |-> [fold \in BOOLEAN |-> {p \in Served :
    LET raw == ExtractPath(Texts[n].pattern)
    IN IF fold THEN Reads(FoldPath(raw), FoldPath(p)) ELSE Reads(raw, p)}]]

Asks == [n \in Names |-> {r.host : r \in {s \in Requests : HostReads(Texts[n].pattern, s.host)}}]

\* Whether rule i concerns the request, by its text.
Concerns(i) == request.host \in Asks[rules[i]] /\ requestPath \in Means[rules[i]][settings.fold]

\* What a rule says of each header: its operations, with their values expanded.
Said == [n \in Names |-> [fold \in BOOLEAN |-> [p \in Means[n][fold] |-> [name \in HeaderNames |->
    LET pattern == Compiled[n][fold].pattern
        mine == SelectSeq(Texts[n].ops, LAMBDA op : op.name = name)
        captured == Capture(pattern, p)
    IN [k \in DOMAIN mine |->
          [mine[k] EXCEPT !.value = Expand(CompileTemplate(@, pattern), captured)]]]]]]

Says(i, name) == Said[rules[i]][settings.fold][requestPath][name]

SaysInOrder(name) ==
    FlattenSeq([i \in DOMAIN rules |-> IF Concerns(i) THEN Says(i, name) ELSE <<>>])

LastRemove(said) == Max({k \in DOMAIN said : said[k].mode = "remove"} \cup {0})

ValuesLeft(said) ==
    [k \in 1 .. Len(said) - LastRemove(said) |-> said[LastRemove(said) + k].value]

CommaJoined(values) ==
    IF values = <<>> THEN <<>>
    ELSE <<Tail(Tail(FlattenSeq([k \in DOMAIN values |-> Comma \o values[k]])))>>

WithoutEmptyStart(values) ==
    LET full == {k \in DOMAIN values : values[k] # <<>>}
    IN IF full = {} THEN SubSeq(values, 1, Min({1, Len(values)}))
       ELSE SubSeq(values, Min(full), Len(values))

\* Without dedup each header is what all rules of the file that concern the
\* request say of it, one after the other: values comma-joined behind the last
\* removal, cookies on lines of their own.  What it had upstream stays in front
\* of them, of a header that is not a cookie the first line only; a header no
\* rule says anything of keeps all its lines.
EveryRuleInFileOrder == (pc = "done" /\ ~settings.dedup) => \A name \in HeaderNames :
    LET said == SaysInOrder(name)
        before == IF LastRemove(said) = 0 THEN NoHeaders[name] ELSE <<>>
    IN headers[name] =
         IF said = <<>> THEN NoHeaders[name]
         ELSE IF name = SetCookie THEN before \o ValuesLeft(said)
         ELSE LET values == SubSeq(before, 1, Min({1, Len(before)})) \o ValuesLeft(said)
              IN CommaJoined(WithoutEmptyStart(values))

\* Enough paths to tell which of two patterns is the narrower.
Probes == LET parts == {<<>>, <<"a">>, <<"b">>, <<"A">>, <<"a", "b">>, <<"b", "a">>} IN
    {<< <<>> >> \o rest : rest \in BoundedSeq(parts, 3) \ {<<>>}}

Language == [n \in Names |-> [fold \in BOOLEAN |->
    {probe \in Probes : Match(Compiled[n][fold].pattern, probe)}]]

\* Rule n is for fewer paths than rule m.
Narrower(n, m, fold) ==
    Language[n][fold] \subseteq Language[m][fold] /\ Language[n][fold] # Language[m][fold]

SamePaths(n, m, fold) == Language[n][fold] = Language[m][fold]

\* With dedup each header is what one of those rules alone says of it, and no
\* rule that says something of it is for fewer paths than that one, or for the
\* same paths and further down in the file.
NarrowestRuleWins == (pc = "done" /\ settings.dedup) => \A name \in HeaderNames :
    LET speak == {i \in DOMAIN rules : Concerns(i) /\ Says(i, name) # <<>>}
        Alone(i) == IF name = SetCookie THEN ValuesLeft(Says(i, name))
                    ELSE CommaJoined(ValuesLeft(Says(i, name)))
        Beats(j, i) == \/ Narrower(rules[j], rules[i], settings.fold)
                       \/ SamePaths(rules[j], rules[i], settings.fold) /\ j > i
    IN IF speak = {} THEN headers[name] = NoHeaders[name]
       ELSE \E i \in speak : /\ headers[name] = Alone(i)
                             /\ \A j \in speak : ~Beats(j, i)

Separators(text) == SelectSeq(Plain(text), LAMBDA c : c \in {",", ";", "<", ">"})

\* No request can add a list item or an attribute to a header: the separators of
\* the expanded values are those written in the file.
ValuesKeepTheirShape == (pc = "done" /\ ~settings.dedup) =>
    LET written == [i \in DOMAIN rules |-> IF ~Concerns(i) THEN <<>>
                      ELSE FlattenSeq([k \in DOMAIN Texts[rules[i]].ops |-> Texts[rules[i]].ops[k].value])]
    IN Separators(FlattenSeq([k \in DOMAIN ops |-> ops[k].value]))
         = Separators(FlattenSeq(written))
=============================================================================
