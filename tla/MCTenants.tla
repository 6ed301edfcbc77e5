----------------------------- MODULE MCTenants -----------------------------
(* The instances of Tenants that TLC checks: two tenants, the name of one    *)
(* the beginning of the other's and a category as well.  MCTenants.cfg has   *)
(* two clears that may be of the same tenant, pages of one or two keys, and  *)
(* a key of one tenant that the vault copies onto and deletes.               *)
EXTENDS Tenants, TLC

a == 97
MCSlugs == {<<a, a>>, <<a, a, a>>}
MCCategories == {<<a, a, a>>}
TwoNames == {<<n>> : n \in 98..99}
MCVaultKeys == {Compose(<<a, a>>, <<98>>)}

=============================================================================
