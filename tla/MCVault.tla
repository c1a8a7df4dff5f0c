------------------------------ MODULE MCVault ------------------------------
(* Instances of Vault for TLC. *)
EXTENDS Vault

CONSTANTS n1, t1
MCNodes == {n1}
MCOneTask == {t1}
=============================================================================
