----------------------------- MODULE MCSessions -----------------------------
(* Sessions with interchangeable calls, passwords and roles.               *)
EXTENDS Sessions, TLC

Symmetry == {f @@ g @@ h : f \in Permutations(Requests),
                           g \in Permutations(Passwords),
                           h \in Permutations(Roles)}
=============================================================================
