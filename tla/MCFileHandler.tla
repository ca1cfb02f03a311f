--------------------------- MODULE MCFileHandler ---------------------------
(* FileHandler for TLC.  Requests are interchangeable in the safety runs,  *)
(* and so are paths; entries are not (they are chosen with CHOOSE).        *)
EXTENDS FileHandler, TLC

HandlerSymmetry == Permutations(Requests) \cup Permutations(Paths)
=============================================================================
