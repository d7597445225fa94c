----------------------------- MODULE MCPairing -----------------------------
(* Instances of Pairing for TLC.                                           *)
EXTENDS Pairing, TLC

CONSTANTS a, b, right, wrong

\* The user of b may have mistyped.
TypedWrong == a :> right @@ b :> wrong

\* One of them tries again.
TwoAndOne == a :> 2 @@ b :> 1
=============================================================================
