----------------------------- MODULE AuditTrail -----------------------------
(***************************************************************************)
(* What the audit log promises: a chain of numbered rows that grows at one *)
(* end by rows that name the one before, and loses rows only from the      *)
(* other end and never the last; a backup puts back a chain it had taken.  *)
(***************************************************************************)
EXTENDS Naturals

CONSTANT Rows   \* records with a hash, and the hash they were computed from in prev

VARIABLES
    trail,      \* the rows, by number
    copy        \* the trail of the last backup

trailVars == <<trail, copy>>

Last(t) == CHOOSE n \in DOMAIN t : \A m \in DOMAIN t : m <= n

\* t is u from some row on.
Suffix(t, u) ==
    /\ DOMAIN t # {}
    /\ \A m \in DOMAIN t :
        /\ m \in DOMAIN u /\ t[m] = u[m]
        /\ \A n \in DOMAIN u : m <= n => n \in DOMAIN t

\* t is u with one more row, which follows u's last.
Extends(t, u) ==
    LET n == IF DOMAIN u = {} THEN 1 ELSE Last(u) + 1 IN
    /\ DOMAIN t = DOMAIN u \cup {n}
    /\ \A m \in DOMAIN u : t[m] = u[m]
    /\ t[n] \in Rows
    /\ DOMAIN u # {} => t[n].prev = u[Last(u)].hash

TrailInit == DOMAIN trail = {} /\ DOMAIN copy = {}

Grow == Extends(trail', trail) /\ UNCHANGED copy
Shed == Suffix(trail', trail) /\ UNCHANGED copy
Take == copy' = trail /\ UNCHANGED trail
PutBack == trail' = copy /\ UNCHANGED copy

TrailNext == Grow \/ Shed \/ Take \/ PutBack

TrailSpec == TrailInit /\ [][TrailNext]_trailVars
=============================================================================
