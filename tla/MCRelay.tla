------------------------------ MODULE MCRelay ------------------------------
(* Instances of Relay for TLC. *)
EXTENDS Relay

CONSTANTS m1, m2
TwoMessages == {m1, m2}
=============================================================================
