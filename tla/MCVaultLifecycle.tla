-------------------------- MODULE MCVaultLifecycle --------------------------
(* Instances of VaultLifecycle for TLC.                                    *)
EXTENDS VaultLifecycle, TLC

CONSTANTS v1, s1, k1

\* A secret and a key of the same vault.
OneVault == [i \in Items |-> v1]
SecretAndKey == [i \in Items |-> IF i = s1 THEN 1 ELSE 2]

GlobalRetention == [v \in Vaults |-> 0]
AllOps == Ops

ClientSymmetry == Permutations(Clients)
=============================================================================
