--------------------------- MODULE VersionHistory ---------------------------
(***************************************************************************)
(* What a history of versions promises: numbers are given in order, what   *)
(* stands under a number stays, until a purge takes all of an item at once *)
(* and for good.                                                           *)
(***************************************************************************)
EXTENDS Naturals, Sequences

CONSTANTS Items,    \* what has versions
          Versions  \* what a version is

VARIABLES versions, \* the versions of each item, by number
          purged    \* the items that were purged

historyVars == <<versions, purged>>

HistoryInit == /\ versions \in [Items -> {<<>>} \cup [1 .. 1 -> Versions]]
               /\ purged = {}

\* t is u with one more version.
Extends(t, u) == /\ DOMAIN t = 1 .. Len(u) + 1
                 /\ \A n \in 1 .. Len(u) : t[n] = u[n]
                 /\ t[Len(u) + 1] \in Versions

Add(i) == /\ i \notin purged
          /\ Extends(versions'[i], versions[i])
          /\ versions' = [versions EXCEPT ![i] = versions'[i]]
          /\ UNCHANGED purged

Purge(i) == /\ i \notin purged /\ versions[i] # <<>>
            /\ versions' = [versions EXCEPT ![i] = <<>>]
            /\ purged' = purged \cup {i}

HistoryNext == \E i \in Items : Add(i) \/ Purge(i)

HistorySpec == HistoryInit /\ [][HistoryNext]_historyVars
=============================================================================
