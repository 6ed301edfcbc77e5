------------------------------ MODULE MCVault ------------------------------
(* The instance of Vault that TLC checks: two requests of every kind, on     *)
(* the same key, on crossing keys and into the archive.                      *)
EXTENDS Vault, TLC

RequestSymmetry == Permutations(Requests)

=============================================================================
