---------------------------- MODULE SealedStore ----------------------------
(* What the sealed columns promise whatever key seals them: a row holds    *)
(* the last value the server wrote to it, and nothing but the server       *)
(* writes or deletes one.                                                  *)
EXTENDS Naturals

CONSTANTS Rows,     \* rows of the sealed columns
          Absent    \* the value of a row that does not exist

VARIABLES value,    \* the number of the write each row holds
          writes    \* writes and deletes so far

Init == /\ value \in [Rows -> {0, Absent}]
        /\ writes = 0

Put(r) == /\ writes' = writes + 1
          /\ value' = [value EXCEPT ![r] = writes']

Delete(r) == /\ writes' = writes + 1
             /\ value' = [value EXCEPT ![r] = Absent]

Next == \E r \in Rows : Put(r) \/ Delete(r)

Spec == Init /\ [][Next]_<<value, writes>>
=============================================================================
