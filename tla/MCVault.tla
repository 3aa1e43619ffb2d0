------------------------------ MODULE MCVault -------------------------------
(* Instances of Vault for TLC.                                             *)
EXTENDS Vault, TLC

CONSTANTS x1, x2, a1, a2, q1, q2, checker

Alike == Permutations(Secrets) \cup Permutations(Recipients)

=============================================================================
