------------------------------ MODULE RuleCache ------------------------------
(***************************************************************************)
(* What a fileHandler promises to the site: a bounded cache that holds,    *)
(* for each path, the rules of a version of its file that was valid when   *)
(* it was read, and that watches cached paths only, until it ends.         *)
(* FileHandler implements it.                                              *)
(***************************************************************************)
EXTENDS Naturals, FiniteSets

CONSTANTS Paths, Nil, MaxCached

VARIABLES
    site,      \* of each path, the version to be read, if any, and whether
               \* the file is gone
    read,      \* the version read and not yet stored or discarded
    cached,    \* the paths with an entry
    rules,     \* the version whose rules each of them has, if any
    watching,  \* the paths whose changes are reported
    ended

vars == <<site, read, cached, rules, watching, ended>>

Init ==
    /\ DOMAIN site = Paths
    /\ read = [p \in Paths |-> Nil]
    /\ cached = {}
    /\ rules = [p \in Paths |-> Nil]
    /\ watching = {}
    /\ ended = FALSE

\* Anything may happen to a file.
Deploy(p) ==
    /\ DOMAIN site' = Paths /\ \A q \in Paths \ {p} : site'[q] = site[q]
    /\ UNCHANGED <<read, cached, rules, watching, ended>>

Read(p) ==
    /\ site[p].version # Nil
    /\ read' = [read EXCEPT ![p] = site[p].version]
    /\ UNCHANGED <<site, cached, rules, watching, ended>>

Discard(p) ==
    /\ read' = [read EXCEPT ![p] = Nil]
    /\ UNCHANGED <<site, cached, rules, watching, ended>>

Load(p) ==
    /\ p \in cached /\ read[p] # Nil
    /\ rules' = [rules EXCEPT ![p] = read[p]]
    /\ read' = [read EXCEPT ![p] = Nil]
    /\ UNCHANGED <<site, cached, watching, ended>>

Drop(p) ==
    /\ site[p].gone
    /\ rules' = [rules EXCEPT ![p] = Nil]
    /\ UNCHANGED <<site, read, cached, watching, ended>>

\* A path is cached with the rules just read, or with none.
Add(p) ==
    /\ p \notin cached /\ Cardinality(cached) < MaxCached
    /\ cached' = cached \cup {p}
    /\ rules' = [rules EXCEPT ![p] = read[p]]
    /\ read' = [read EXCEPT ![p] = Nil]
    /\ UNCHANGED <<site, watching, ended>>

\* A full cache lets go of one path and its watch, one without rules if there is.
Replace(p, v) ==
    /\ p \notin cached /\ v \in cached /\ Cardinality(cached) = MaxCached
    /\ rules[v] # Nil => \A q \in cached : rules[q] # Nil
    /\ cached' = (cached \ {v}) \cup {p}
    /\ rules' = [rules EXCEPT ![v] = Nil, ![p] = read[p]]
    /\ read' = [read EXCEPT ![p] = Nil]
    /\ watching' = watching \ {v}
    /\ UNCHANGED <<site, ended>>

Watch(p) ==
    /\ ~ended
    /\ watching' = watching \cup {p}
    /\ UNCHANGED <<site, read, cached, rules, ended>>

\* A watch may be lost at any time.
Unwatch(p) ==
    /\ watching' = watching \ {p}
    /\ UNCHANGED <<site, read, cached, rules, ended>>

End ==
    /\ ended' = TRUE
    /\ watching' = {}
    /\ UNCHANGED <<site, read, cached, rules>>

Next ==
    \/ \E p \in Paths :
         \/ Deploy(p) \/ Read(p) \/ Discard(p) \/ Load(p) \/ Drop(p)
         \/ Add(p) \/ Watch(p) \/ Unwatch(p)
         \/ \E v \in Paths : Replace(p, v)
    \/ End

Spec == Init /\ [][Next]_vars
=============================================================================
