---------------------------- MODULE MCMembership ----------------------------
(* Instances of Membership for TLC. *)
EXTENDS Membership, TLC

CONSTANTS n1, n2, c1, c2, t1, t2
MCNodes == {n1, n2}
MCCodes == {c1, c2}
MCTokens == {t1, t2}
Sym == Permutations(MCNodes) \cup Permutations(MCCodes) \cup Permutations(MCTokens)
=============================================================================
