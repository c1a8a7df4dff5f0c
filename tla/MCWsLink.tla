------------------------------ MODULE MCWsLink ------------------------------
(* Instances of WsLink for TLC. *)
EXTENDS WsLink

CONSTANTS s1, s2, s3, e1
=============================================================================
