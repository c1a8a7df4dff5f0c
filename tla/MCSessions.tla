----------------------------- MODULE MCSessions -----------------------------
(* Instances of Sessions for TLC. *)
EXTENDS Sessions

CONSTANTS n1, n2, c1, c2, c3, r1, h1
TwoNodes == {n1, n2}
OneNode == {n1}
ThreeConns == {c1, c2, c3}
=============================================================================
