---------------------------- MODULE MCVaultPage ----------------------------
(* The instance of VaultPage that TLC checks: two keys, one of which two     *)
(* overlapping views list, so that it can be deleted in one and be stale in  *)
(* the other; two deletes at a time, of two keys or twice of one.            *)
EXTENDS VaultPage, TLC

CONSTANTS k1, k2, v1, v2, d1, d2

Interchangeable == Permutations({d1, d2})

MCWithin == (v1 :> {k1, k2}) @@ (v2 :> {k2})

=============================================================================
