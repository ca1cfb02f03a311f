---------------------------- MODULE RuleParser ----------------------------
(***************************************************************************)
(* Reading a rule file (src/scan.go, src/headers_parser.go,                *)
(* src/redirects_parser.go) and deciding whether it is loaded               *)
(* (firstStrictError and the loadFn of both handlers).                     *)
(*                                                                         *)
(* A step of the scan is one line.  Of a line the model keeps what the     *)
(* parsers branch on: its length, whether it is indented, and what its     *)
(* text is.  Rules and headers are named by their line numbers.            *)
(***************************************************************************)
EXTENDS Naturals, SequencesExt

CONSTANTS
    Nil,
    MaxFileSize, MaxLineLength,   \* limits of the directive
    RuleLimits,                   \* the settings of its max_rules
    Lengths,                      \* line lengths a file may have
    MaxLines                      \* bound on the lines of a file

ASSUME ParserAssumption ==
    /\ Nil \notin Nat
    /\ {MaxFileSize, MaxLineLength} \cup RuleLimits \subseteq Nat \ {0} /\ Lengths \subseteq Nat
    /\ MaxLines \in Nat

VARIABLES
    format,      \* "headers" or "redirects"
    maxRules,
    file,        \* its lines
    terminated,  \* whether the last one ends in a newline
    failAt,      \* the byte at which reading the file failed, or Nil
    lineNum, totalBytes, rules, warnings,
    current,     \* the rule header lines belong to, as an index of rules, or 0
    strict,      \* the directive's setting, once it is looked at
    outcome

input == <<format, maxRules, file, terminated>>
vars  == <<input, failAt, lineNum, totalBytes, rules, warnings, current, strict, outcome>>

\* "skip" is a blank line or a comment; "unsupported" a redirect with status 404
\* or 410.
Texts(f) == {"skip", "valid", "invalid"} \cup IF f = "redirects" THEN {"unsupported"} ELSE {}

\* The indentation of a _redirects line is trimmed.  A line of no bytes is blank.
Line(f) ==
    {line \in [text : Texts(f), indented : IF f = "headers" THEN BOOLEAN ELSE {FALSE},
               length : Lengths] :
       line.length = 0 => line.text = "skip" /\ ~line.indented}

\* Behind the last newline there is a line only if there are bytes.
EndsInBytes == (file # <<>> /\ ~terminated) => file[Len(file)].length # 0

\* The bytes of line n, with its newline, and those before it.
Size(n) == file[n].length + IF n < Len(file) \/ terminated THEN 1 ELSE 0

Offset == LET before[n \in 0 .. Len(file)] == IF n = 0 THEN 0 ELSE before[n - 1] + Size(n)
          IN before

FileSize == Offset[Len(file)]

TypeOK ==
    /\ format \in {"headers", "redirects"} /\ maxRules \in RuleLimits /\ terminated \in BOOLEAN
    /\ file \in Seq(Line(format)) /\ EndsInBytes
    /\ failAt \in 0 .. FileSize \cup {Nil}
    /\ lineNum \in 0 .. Len(file) /\ totalBytes \in 0 .. FileSize
    /\ rules \in Seq([line : 1 .. lineNum, ops : Seq(1 .. lineNum)]) /\ Len(rules) <= maxRules
    /\ warnings \in Seq([line : 0 .. lineNum, nonStrict : BOOLEAN])
    /\ current \in 0 .. Len(rules)
    /\ strict \in BOOLEAN \cup {Nil}
    /\ outcome \in {"scanning", "parsed", "loaded", "rejected"}

Init ==
    /\ format \in {"headers", "redirects"} /\ maxRules \in RuleLimits /\ terminated \in BOOLEAN
    /\ file \in BoundedSeq(Line(format), MaxLines) /\ EndsInBytes
    /\ failAt = Nil
    /\ lineNum = 0 /\ totalBytes = 0
    /\ rules = <<>> /\ warnings = <<>>
    /\ current = 0
    /\ strict = Nil /\ outcome = "scanning"

(***************************************************************************)
(* scanLines.                                                              *)
(***************************************************************************)
LimitWithoutExtra == MaxFileSize    \* variant: the byte that shows an excess is not read

\* The LimitReader's.
Limit == MaxFileSize + 1

\* The bytes that can be read.
Available == Min({FileSize, Limit} \cup IF failAt = Nil THEN {} ELSE {failAt})

\* The next line as it is read: cut short, it may have become another one.
Bytes == Min({Size(lineNum + 1), Available - totalBytes})

NextLine ==
    LET line == file[lineNum + 1] IN
    IF Bytes >= line.length THEN {line}
    ELSE {[line EXCEPT !.length = Bytes, !.text = text] :
            text \in IF line.text = "skip" THEN {"skip"} ELSE Texts(format)}

Warn(n)     == Append(warnings, [line |-> n, nonStrict |-> FALSE])
WarnOnly(n) == Append(warnings, [line |-> n, nonStrict |-> TRUE])

\* Reading fails before the end of the next line.
ReadFails(byte) ==
    /\ outcome = "scanning" /\ failAt = Nil
    /\ IF lineNum = Len(file) THEN byte = totalBytes
       ELSE byte \in totalBytes .. totalBytes + Size(lineNum + 1) - 1
    /\ failAt' = byte
    /\ UNCHANGED <<input, lineNum, totalBytes, rules, warnings, current, strict, outcome>>

Scanning == outcome = "scanning" /\ UNCHANGED <<input, failAt, strict>>

EndOfFile ==
    /\ Scanning /\ totalBytes = Available
    /\ warnings' = IF failAt = Available THEN Warn(0) ELSE warnings
    /\ outcome' = "parsed"
    /\ UNCHANGED <<lineNum, totalBytes, rules, current>>

ReadLine ==
    /\ Scanning /\ totalBytes < Available
    /\ lineNum' = lineNum + 1
    /\ totalBytes' = totalBytes + Bytes

FileTooLarge ==
    /\ ReadLine /\ totalBytes + Bytes > MaxFileSize
    /\ warnings' = Warn(lineNum + 1)
    /\ outcome' = "parsed"
    /\ UNCHANGED <<rules, current>>

FitsBelow(line) == line.length < MaxLineLength   \* variant: off by one

Fits(line) == line.length <= MaxLineLength

OverlongSkipsAll(line) == current  \* variant: skipped is not called

\* skipped: an overlong line that is not indented ends the rule.
CurrentAfterOverlong(line) ==
    IF format = "headers" /\ ~line.indented THEN 0 ELSE current

OverlongLine ==
    /\ ReadLine /\ totalBytes + Bytes <= MaxFileSize
    /\ \E line \in NextLine :
         ~Fits(line) /\ current' = CurrentAfterOverlong(line)
    /\ warnings' = Warn(lineNum + 1)
    /\ UNCHANGED <<rules, outcome>>

\* fn is called with the line.
Parsing(text) ==
    /\ ReadLine /\ totalBytes + Bytes <= MaxFileSize
    /\ \E line \in NextLine : Fits(line) /\ line.text = text

SkipLine == Parsing("skip") /\ UNCHANGED <<rules, warnings, current, outcome>>

(***************************************************************************)
(* The callbacks of Parse and ParseRedirects.  A header line is an         *)
(* indented line of a _headers file; every other one is a rule's.          *)
(***************************************************************************)
IsHeader == format = "headers" /\ file[lineNum + 1].indented

OrphanHeader ==
    /\ Parsing("valid") \/ Parsing("invalid")
    /\ IsHeader /\ current = 0
    /\ warnings' = Warn(lineNum + 1)
    /\ UNCHANGED <<rules, current, outcome>>

InvalidHeader ==
    /\ Parsing("invalid") /\ IsHeader /\ current # 0
    /\ warnings' = Warn(lineNum + 1)
    /\ UNCHANGED <<rules, current, outcome>>

HeaderInFront ==   \* variant: the headers of a rule are collected in reverse
    /\ Parsing("valid") /\ IsHeader /\ current # 0
    /\ rules' = [rules EXCEPT ![current].ops = <<lineNum + 1>> \o @]
    /\ UNCHANGED <<warnings, current, outcome>>

AddHeader ==
    /\ Parsing("valid") /\ IsHeader /\ current # 0
    /\ rules' = [rules EXCEPT ![current].ops = Append(@, lineNum + 1)]
    /\ UNCHANGED <<warnings, current, outcome>>

RejectKeepsCurrent == current   \* variant: the rejected rule's headers go to the previous one

CurrentAfterReject == 0

InvalidRule ==
    /\ Parsing("invalid") /\ ~IsHeader
    /\ warnings' = Warn(lineNum + 1)
    /\ current' = CurrentAfterReject
    /\ UNCHANGED <<rules, outcome>>

UnsupportedRule ==
    /\ Parsing("unsupported")
    /\ warnings' = WarnOnly(lineNum + 1)
    /\ UNCHANGED <<rules, current, outcome>>

FullAfterOneMore == Len(rules) > maxRules   \* variant: off by one

Full == Len(rules) >= maxRules

TooManyRules ==
    /\ Parsing("valid") /\ ~IsHeader /\ Full
    /\ warnings' = Warn(lineNum + 1)
    /\ outcome' = "parsed"
    /\ UNCHANGED <<rules, current>>

AddRule ==
    /\ Parsing("valid") /\ ~IsHeader /\ ~Full
    /\ rules' = Append(rules, [line |-> lineNum + 1, ops |-> <<>>])
    /\ current' = IF format = "headers" THEN Len(rules) + 1 ELSE 0
    /\ UNCHANGED <<warnings, outcome>>

(***************************************************************************)
(* loadFile and loadRedirectFile, after the parse.                         *)
(***************************************************************************)
AnyWarningFails == warnings # <<>>   \* variant: NonStrict is not looked at

StrictError == \E i \in DOMAIN warnings : ~warnings[i].nonStrict

Load ==
    /\ outcome = "parsed"
    /\ strict' \in BOOLEAN
    /\ outcome' = IF strict' /\ StrictError THEN "rejected" ELSE "loaded"
    /\ UNCHANGED <<input, failAt, lineNum, totalBytes, rules, warnings, current>>

Next ==
    \/ \E byte \in 0 .. FileSize : ReadFails(byte)
    \/ EndOfFile \/ FileTooLarge \/ OverlongLine \/ SkipLine
    \/ OrphanHeader \/ InvalidHeader \/ AddHeader
    \/ InvalidRule \/ UnsupportedRule \/ TooManyRules \/ AddRule
    \/ Load

Spec == Init /\ [][Next]_vars

(***************************************************************************)
(* What a file says, by its text alone.                                    *)
(***************************************************************************)
IsRuleText(n) == format = "redirects" \/ ~file[n].indented

\* The line whose headers line n is among: the last that is neither indented nor
\* blank nor a comment.
Owner(n) ==
    LET above == {m \in 1 .. n - 1 : ~file[m].indented /\ file[m].text # "skip"}
    IN IF above = {} THEN 0 ELSE Max(above)

Whole(n) == Offset[n] <= Min({MaxFileSize} \cup IF failAt = Nil THEN {} ELSE {failAt})

Usable(n) == Whole(n) /\ file[n].length <= MaxLineLength /\ file[n].text = "valid"

RuleLines == {n \in DOMAIN file : Usable(n) /\ IsRuleText(n)}

\* The scan ends at the rule that is one too many.
Before(n) == Cardinality({m \in RuleLines : m <= n}) <= maxRules

Kept == {n \in RuleLines : Before(n)}

Headers(m) == {n \in DOMAIN file : ~IsRuleText(n) /\ Usable(n) /\ Before(n) /\ Owner(n) = m}

LongComments(m, n) == 
    {j \in m .. n : file[j].text = "skip" /\ ~file[j].indented /\ file[j].length > MaxLineLength}

Parsed == outcome # "scanning"

UsedBy(k) == {rules[k].line} \cup Range(rules[k].ops)

Used == UNION {UsedBy(k) : k \in DOMAIN rules}

InFileOrder(lines) == \A i, j \in DOMAIN lines : i < j => lines[i] < lines[j]

(***************************************************************************)
(* Properties.                                                             *)
(***************************************************************************)
\* A header is only ever added to the rule it stands under: never to an earlier
\* one because the pattern above it was invalid or overlong.
HeadersStayWithTheirPattern ==
    \A k \in DOMAIN rules : \A i \in DOMAIN rules[k].ops : Owner(rules[k].ops[i]) = rules[k].line

\* An invalid or overlong line is skipped and drops nothing but itself, and its
\* headers when it is a pattern: the parsers keep every other line up to the
\* limits, rules in file order and the headers of each in file order.  (An
\* overlong comment ends the rule above it.)
NothingElseIsDropped ==
    (Parsed /\ \A n \in Used : Whole(n)) =>
        /\ {rules[k].line : k \in DOMAIN rules} = Kept
        /\ \A k \in DOMAIN rules :
             /\ k > 1 => rules[k - 1].line < rules[k].line
             /\ format = "headers" =>
                  LET m == rules[k].line IN
                  /\ Range(rules[k].ops) = {n \in Headers(m) : LongComments(m, n) = {}}
                  /\ InFileOrder(rules[k].ops)

\* A line the size limit cuts is never parsed.  One a read error cuts may be, as
\* the last one, and then with a warning that fails strict mode.
CutLinesAreNotTrusted ==
    Parsed => \A n \in Used : ~Whole(n) =>
        n = lineNum /\ failAt # Nil /\ failAt <= MaxFileSize /\ StrictError

Clean ==
    /\ FileSize <= MaxFileSize /\ failAt = Nil
    /\ Cardinality(RuleLines) <= maxRules
    /\ \A n \in DOMAIN file :
         /\ file[n].length <= MaxLineLength /\ file[n].text # "invalid"
         /\ file[n].text = "valid" /\ ~IsRuleText(n) => Owner(n) # 0

\* Strict mode rejects a file exactly when something in it would be dropped:
\* "any parse warning rejects the whole file", except that rules with status 404
\* or 410 never do, and a file at its limits has no warning.
StrictLoadsExactlyCleanFiles ==
    outcome \in {"loaded", "rejected"} => (outcome = "loaded" <=> ~strict \/ Clean)

\* "An overlong header line only drops that header, an overlong pattern line its
\* whole rule" (src/headers_parser.go, the skipped callback of Parse): a header
\* that is usable, under a rule that is kept, is kept, whatever comments are
\* between them.
OnlyPatternsEndRules ==
    (Parsed /\ format = "headers" /\ \A n \in Used : Whole(n)) =>
        \A k \in DOMAIN rules : Headers(rules[k].line) \subseteq Range(rules[k].ops)
=============================================================================
