------------------------------ MODULE MCTrust ------------------------------
(* Instances of Trust for TLC. *)
EXTENDS Trust, TLC

CONSTANTS a, b, c
MCThreeNonces == {a, b, c}
Sym3 == Permutations(MCThreeNonces)
=============================================================================
