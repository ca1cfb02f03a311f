---------------------------- MODULE MCWatchHub ----------------------------
(* WatchHub for TLC.  The third path, when there is one, leads to the      *)
(* second directory only: a real directory next to two symlinks.           *)
EXTENDS WatchHub, TLC

CONSTANTS i1, i2, d3

MCLeads == [d \in Dirs |-> IF d = d3 THEN {i2} ELSE Inodes]

HubSymmetry == Permutations(Handlers)
=============================================================================
