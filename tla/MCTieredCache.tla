--------------------------- MODULE MCTieredCache ---------------------------
(* TieredCache with interchangeable calls and keys.                        *)
EXTENDS TieredCache, TLC

Symmetry == {f @@ g : f \in Permutations(Calls), g \in Permutations(Keys)}
=============================================================================
