----------------------------- MODULE PathAccess -----------------------------
(***************************************************************************)
(* The paths the handlers treat apart (src/path_access.go and              *)
(* cleanRequestPath in src/headers.go): which requests could be served     *)
(* the configuration file, and which path the rules are matched against.   *)
(* A path is a sequence of segments; see Pattern.                          *)
(***************************************************************************)
EXTENDS Pattern

ConfigName == <<"_", "s">>      \* for "_headers" and "_redirects"

NotASCII == {"longs"}

(***************************************************************************)
(* windowsPath, and what of it path.Clean and caddyhttp.CleanPath make.    *)
(***************************************************************************)
TrimRight(text, cut) ==
    SubSeq(text, 1, CHOOSE n \in 0 .. Len(text) :
        /\ n = 0 \/ text[n] \notin cut
        /\ \A i \in n + 1 .. Len(text) : text[i] \in cut)

Dot    == <<".">>
DotDot == <<".", ".">>

WindowsSegment(segment) ==
    IF TrimRight(segment, {" "}) \in {Dot, DotDot} THEN TrimRight(segment, {" "})
    ELSE TrimRight(segment, {".", " "})

WindowsPath(path) ==
    LET parts == FlattenSeq([i \in DOMAIN path |-> SplitAt(path[i], "\\")])
    IN [i \in DOMAIN parts |-> WindowsSegment(parts[i])]

\* path.Clean of a path that starts with a slash.
Clean(path) ==
    LET Enter(entered, segment) ==
            CASE segment \in {<<>>, Dot} -> entered
              [] segment = DotDot        -> IF entered = <<>> THEN <<>> ELSE Front(entered)
              [] OTHER                   -> Append(entered, segment)
        names[i \in 0 .. Len(path)] == IF i = 0 THEN <<>> ELSE Enter(names[i - 1], path[i])
    IN << <<>> >> \o IF names[Len(path)] = <<>> THEN << <<>> >> ELSE names[Len(path)]

\* caddyhttp.CleanPath with collapsed slashes: a trailing slash is kept.
CleanPath(path) ==
    IF Last(path) = <<>> /\ Clean(path) # << <<>>, <<>> >>
    THEN Append(Clean(path), <<>>) ELSE Clean(path)

(***************************************************************************)
(* cleanRequestPath.                                                       *)
(***************************************************************************)
QuirksButSpaces(path) ==        \* variant: trailing spaces are overlooked
    \E i \in DOMAIN path : Contains(path[i], "\\") \/ (path[i] # <<>> /\ Last(path[i]) = ".")

HasWindowsPathQuirks(path) == \E i \in DOMAIN path :
    Contains(path[i], "\\") \/ (path[i] # <<>> /\ Last(path[i]) \in {".", " "})

Unclean(path) == \E i \in 2 .. Len(path) :
    path[i] \in {Dot, DotDot} \/ (path[i] = <<>> /\ i < Len(path))

CleanRequestPath(path, windows) ==
    IF windows /\ HasWindowsPathQuirks(path) THEN CleanPath(WindowsPath(path))
    ELSE IF Unclean(path) THEN CleanPath(path) ELSE path

(***************************************************************************)
(* isProtectedConfigPath.  strings.EqualFold and strings.ToUpper together  *)
(* relate the characters of these names that FoldRune does.                *)
(***************************************************************************)
ContainsFold(path, name) == \E i \in DOMAIN path : \E j \in DOMAIN path[i] :
    /\ path[i][j] = name[1] /\ j + Len(name) - 1 <= Len(path[i])
    /\ FoldEqual(SubSeq(path[i], j, j + Len(name) - 1), name)

IsASCII(path) == \A i \in DOMAIN path : Range(path[i]) \cap NotASCII = {}

SkipCleanNames(path) ==         \* variant: a path that needs no cleaning is let through
    ~Unclean(path) \/ \A i \in DOMAIN path : ~Contains(path[i], ConfigName[1])

\* A path without the name needs no normalization, if it is ASCII.
CannotBeConfig(path) ==
    \/ \A i \in DOMAIN path : ~Contains(path[i], ConfigName[1])
    \/ IsASCII(path) /\ ~ContainsFold(path, ConfigName)

IsProtectedConfigPath(path) ==
    \/ path = << <<>>, ConfigName >>
    \/ /\ path # << <<>> >> /\ ~CannotBeConfig(path)
       /\ LET cleaned == Clean(WindowsPath(path))
          IN Len(cleaned) = 2 /\ FoldEqual(cleaned[2], ConfigName)

(***************************************************************************)
(* Which file a path names, without path.Clean: a segment that is a name   *)
(* stays unless, behind it, there are more ".." than names up to some      *)
(* place.                                                                  *)
(***************************************************************************)
IsName(segment) == segment \notin {<<>>, Dot, DotDot}

Undone(path, i) == \E j \in i + 1 .. Len(path) :
    Cardinality({k \in i + 1 .. j : path[k] = DotDot})
      > Cardinality({k \in i + 1 .. j : IsName(path[k])})

ServedNames(path) ==
    LET kept == {i \in DOMAIN path : IsName(path[i]) /\ ~Undone(path, i)}
    IN [n \in 1 .. Cardinality(kept) |-> path[Nth(kept, n)]]
=============================================================================
