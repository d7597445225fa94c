--------------------------- MODULE MCTokenSession ---------------------------
(* Instances of TokenSession for TLC.                                      *)
EXTENDS TokenSession, TLC

\* The values are interchangeable: nothing orders or names them.
SameValues == Permutations(Values)
=============================================================================
