-------------------------- MODULE MCAuthorization --------------------------
(* Authorization with interchangeable requests, tenants and vaults.        *)
EXTENDS Authorization, TLC

Symmetry == {f @@ g @@ h : f \in Permutations(Calls), g \in Permutations(Principals \ Admins),
                           h \in Permutations(Vaults)}
=============================================================================
