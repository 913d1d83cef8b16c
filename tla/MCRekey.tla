------------------------------ MODULE MCRekey ------------------------------
(* Rekey with three rows in the first target and one in the second.        *)
EXTENDS Rekey, TLC

CONSTANTS r1, r2, r3, r4

MCRows == {r1, r2, r3, r4}

MCTarget == [r \in MCRows |-> IF r = r4 THEN 2 ELSE 1]

Symmetry == {f @@ g : f \in Permutations({r1, r2, r3}),
                      g \in Permutations(Runs)}
=============================================================================
