---------------------------- MODULE MCRateLimit ----------------------------
(* Instances of RateLimit for TLC. *)
EXTENDS RateLimit, TLC

CONSTANTS p1, p2, b1, b2
Sym == Permutations({p1, p2}) \cup Permutations({b1, b2})
=============================================================================
