--------------------------- MODULE Authorization ---------------------------
(***************************************************************************)
(* Who may do what with a vault: provisioning grants, access policies and  *)
(* role assignments, and the calls that are decided by them, among them    *)
(* the ones that create vaults and hand out roles.                         *)
(*                                                                         *)
(* A call reads the policies, then the grant or the roles, and acts after  *)
(* that: other calls, and the administrators, act in between.  A lookup    *)
(* may fail.  The creation within a quota is one transaction that holds    *)
(* the row of the grant.                                                   *)
(***************************************************************************)
EXTENDS Naturals, FiniteSets

CONSTANTS Principals,
          Admins,      \* the principals whose account has the admin role
          Vaults,
          Quotas,      \* quotas an administrator grants
          Calls,       \* the requests
          None,        \* no quota; no creator; no row
          Gone,        \* the creator of a purged vault
          Anywhere,    \* the vault of a global policy
          MaxChanges   \* bound on what administrators change

ASSUME AuthorizationAssumption ==
  /\ Admins \subseteq Principals /\ Quotas \subseteq Nat /\ MaxChanges \in Nat
  /\ None \notin Nat \cup Principals /\ Gone \notin Principals \cup {None}
  /\ Anywhere \notin Vaults /\ None \notin Calls /\ IsFiniteSet(Vaults)

Roles == {"Administrator", "DataAccessAdministrator", "PurgeOperator"}

\* What a role grants in its vault: the use of items, the management of role
\* assignments, or the purge of the vault.
Actions(role) == CASE role = "Administrator"           -> {"use"}
                   [] role = "DataAccessAdministrator" -> {"assign", "revoke"}
                   [] role = "PurgeOperator"           -> {"purge"}

\* The roles that a caller who is no administrator hands out or takes back.
nonAdminGrantableRoles == {"Administrator"}

Policies == [who : Principals, vault : Vaults \cup {Anywhere},
             on : {"vaults", "items"}, effect : {"allow", "deny"}]

\* The id of an assignment is the call that made it.
Rows == [id : Calls \cup {None}, who : Principals, role : Roles, vault : Vaults, by : Principals]

Stages == {"idle", "policies", "roles", "grant", "lock", "count", "insert",
           "create", "find", "assign", "get", "remove", "managed", "purge",
           "unpolicy", "unassign", "used", "done"}

CallStates == [at : Stages, op : {"use", "manage", "assign", "revoke", "purge", "create"},
               who : Principals \cup {None}, vault : Vaults \cup {Anywhere},
               whom : Principals \cup {None}, role : Roles, row : Calls \cup {None},
               quota : Nat, denied : BOOLEAN, failed : BOOLEAN]

\* A call that does nothing now.
Resting(stage) ==
  [at |-> stage, op |-> "use", who |-> None, vault |-> Anywhere, whom |-> None,
   role |-> "Administrator", row |-> None, quota |-> 0, denied |-> FALSE, failed |-> FALSE]

VARIABLES users,     \* the principals that have an account
          grants,    \* the quota of each provisioning grant
          lock,      \* the transaction that holds the row of a grant
          vaults,    \* the creator of each vault
          policies,  \* the table access_policies
          rows,      \* the table role_assignments
          call,      \* the requests
          changes,   \* what administrators changed so far
          trusted,   \* history: who was entrusted with a vault, by whom it was
                     \* entrusted to, from its creator and the administrators on
          bounded    \* history: the vaults that were created within a quota

tables == <<users, grants, lock, vaults, policies, rows>>
vars   == <<users, grants, lock, vaults, policies, rows, call, changes, trusted, bounded>>

\* What an administrator entrusts with a policy.
Entrusted(policy) == IF policy.effect = "allow" /\ policy.vault # Anywhere
                     THEN {<<policy.who, policy.vault>>} ELSE {}

\* Administrators may have issued grants, created a vault and assigned a role
\* in it before.
Init ==
  /\ users = Principals /\ changes = 0 /\ bounded = {} /\ policies = {}
  /\ \E tenants \in SUBSET (Principals \ Admins), quota \in Quotas :
       grants = [p \in Principals |-> IF p \in tenants THEN quota ELSE None]
  /\ lock = [p \in Principals |-> None]
  /\ \E v \in Vaults, a \in Admins, p \in Principals, role \in Roles :
       \/ vaults = [w \in Vaults |-> None] /\ rows = {}
       \/ /\ vaults = [w \in Vaults |-> IF w = v THEN a ELSE None]
          /\ rows \in {{}, {[id |-> None, who |-> p, role |-> role, vault |-> v, by |-> a]}}
  /\ trusted = {<<row.who, row.vault>> : row \in rows}
  /\ call = [c \in Calls |-> Resting("idle")]

-----------------------------------------------------------------------------
(* The decision.                                                           *)

\* FindEffects: the policies for a vault are its own and the global ones.
Effects(table, p, on, v) ==
  {policy \in table : policy.who = p /\ policy.on = on /\ policy.vault \in {v, Anywhere}}

Denies(table, p, on, v) == \E policy \in Effects(table, p, on, v) : policy.effect = "deny"

\* A deny wins; anything else that matches allows.
CheckAccess(table, p, on, v) ==
  IF Denies(table, p, on, v) THEN "denied"
  ELSE IF Effects(table, p, on, v) # {} THEN "allowed" ELSE "fallback"

\* Mutant: a global allow is one for every vault.
CheckVaultScopedAccess_Global(table, p, on, v) == CheckAccess(table, p, on, v)

\* A global policy denies, and does not allow.
CheckVaultScopedAccess(table, p, on, v) ==
  IF Denies(table, p, on, v) THEN "denied"
  ELSE IF \E policy \in Effects(table, p, on, v) : policy.vault = v
       THEN "allowed" ELSE "fallback"

HasDataAction(p, v, action) ==
  \E row \in rows : row.who = p /\ row.vault = v /\ action \in Actions(row.role)

\* What a call does once it is let through.
Through(op) == CASE op = "use"    -> "used"
                 [] op = "manage" -> "managed"
                 [] op = "assign" -> "find"
                 [] op = "revoke" -> "get"
                 [] op = "purge"  -> "purge"
                 [] op = "create" -> "create"

\* What the policies are about that a call is decided by.
On(op) == IF op = "use" THEN "items" ELSE "vaults"

\* The admin role is let through at once, except to the items.  A purge is
\* not decided by policies.
Starts(p, op) == IF p \in Admins /\ op # "use" THEN Through(op)
                 ELSE IF op = "purge" THEN "roles" ELSE "policies"

Begin(c) ==
  /\ call[c].at = "idle"
  /\ \E p \in users, op \in {"use", "manage", "assign", "revoke", "purge", "create"} :
     \E v \in IF op = "create" THEN {Anywhere} ELSE {w \in Vaults : vaults[w] \notin {None, Gone}} :
       call' = [call EXCEPT ![c].at = Starts(p, op), ![c].op = op, ![c].who = p,
                  ![c].vault = v, ![c].denied = Denies(policies, p, On(op), v)]
  /\ UNCHANGED <<tables, changes, trusted, bounded>>

\* The decision on the policies: CanManageVault, CanManageRoleAssignments,
\* CanCreateVault and RequireDataPlaneAccess.
Decided(op, access) ==
  CASE access = "denied"                          -> "done"
    [] access = "fallback" /\ op = "manage"       -> "done"
    [] access = "fallback" /\ op = "create"       -> "grant"
    [] access = "allowed" /\ op # "use"           -> Through(op)
    [] OTHER                                      -> "roles"

Goto(c, stage) ==
  call' = [call EXCEPT ![c] = IF stage = "done" THEN Resting("done") ELSE [@ EXCEPT !.at = stage]]

\* A failed lookup denies, except that the decision on role assignments goes
\* on to the roles.
ReadPolicies(c) ==
  LET r == call[c]
      access == IF r.op \in {"use", "create"}
                THEN CheckAccess(policies, r.who, On(r.op), r.vault)
                ELSE CheckVaultScopedAccess(policies, r.who, "vaults", r.vault)
  IN  /\ r.at = "policies"
      /\ \/ Goto(c, Decided(r.op, access))
         \/ IF r.op \in {"assign", "revoke"}
            THEN call' = [call EXCEPT ![c].at = "roles", ![c].failed = TRUE]
            ELSE Goto(c, "done")
      /\ UNCHANGED <<tables, changes, trusted, bounded>>

ReadRoles(c) ==
  LET r == call[c]
  IN  /\ r.at = "roles"
      /\ \/ HasDataAction(r.who, r.vault, r.op) /\ Goto(c, Through(r.op))
         \/ Goto(c, "done")
      /\ UNCHANGED <<tables, changes, trusted, bounded>>

ReadGrant(c) ==
  /\ call[c].at = "grant"
  /\ \/ grants[call[c].who] # None /\ Goto(c, "lock")
     \/ Goto(c, "done")
  /\ UNCHANGED <<tables, changes, trusted, bounded>>

\* The handler of the request itself is not part of this module.
Use(c) == /\ call[c].at \in {"used", "managed"}
          /\ Goto(c, "done")
          /\ UNCHANGED <<tables, changes, trusted, bounded>>

-----------------------------------------------------------------------------
(* Creation: within a quota, with the rights of its creator, or plain.      *)

Created(p) == {v \in Vaults : vaults[v] = p}

\* Mutant: the quota is read without the lock.
Waits_Not(p) == FALSE

\* Another transaction holds the row of the grant.
Waits(p) == lock[p] # None

\* LockAndReadQuotaTx: a grant that was revoked since refuses the creation.
Lock(c) ==
  LET p == call[c].who
  IN  /\ call[c].at = "lock"
      /\ ~Waits(p)
      /\ \/ /\ grants[p] # None
            /\ lock' = [lock EXCEPT ![p] = c]
            /\ call' = [call EXCEPT ![c].at = "count", ![c].quota = grants[p]]
         \/ grants[p] = None /\ Goto(c, "done") /\ UNCHANGED lock
      /\ UNCHANGED <<users, grants, vaults, policies, rows, changes, trusted, bounded>>

\* The transaction ends, whatever its outcome.
Unlocked(c) == [p \in Principals |-> IF lock[p] = c THEN None ELSE lock[p]]

Count(c) ==
  /\ call[c].at = "count"
  /\ \/ /\ Cardinality(Created(call[c].who)) < call[c].quota
        /\ Goto(c, "insert") /\ UNCHANGED lock
     \/ Goto(c, "done") /\ lock' = Unlocked(c)
  /\ UNCHANGED <<users, grants, vaults, policies, rows, changes, trusted, bounded>>

\* The vault and the rights of its creator, in one transaction.
Insert(c) ==
  LET p == call[c].who
  IN  /\ call[c].at \in {"insert", "create"}
      /\ call[c].at = "create" => p \notin Admins
      /\ \/ \E v \in Vaults :
              /\ vaults[v] = None
              /\ vaults' = [vaults EXCEPT ![v] = p]
              /\ policies' = policies \cup
                   {[who |-> p, vault |-> v, on |-> "vaults", effect |-> "allow"]}
              /\ rows' = rows \cup 
                   {[id |-> c, who |-> p, role |-> "Administrator", vault |-> v, by |-> p]}
              /\ trusted' = trusted \cup {<<p, v>>}
              /\ bounded' = bounded \cup IF call[c].at = "insert" THEN {v} ELSE {}
         \/ UNCHANGED <<vaults, policies, rows, trusted, bounded>>
      /\ Goto(c, "done") /\ lock' = Unlocked(c)
      /\ UNCHANGED <<users, grants, changes>>

\* An administrator creates without a quota and gets no rights.
CreateVault(c) ==
  /\ call[c].at = "create" /\ call[c].who \in Admins
  /\ \/ \E v \in Vaults : vaults[v] = None /\ vaults' = [vaults EXCEPT ![v] = call[c].who]
     \/ UNCHANGED vaults
  /\ Goto(c, "done")
  /\ UNCHANGED <<users, grants, lock, policies, rows, changes, trusted, bounded>>

-----------------------------------------------------------------------------
(* Role assignments.                                                       *)

Same(row, p, role, v) == row.who = p /\ row.role = role /\ row.vault = v

\* A principal given by its id is not looked up.
Find(c) ==
  LET r == call[c]
  IN  /\ r.at = "find"
      /\ \/ \E p \in Principals, role \in Roles :
              /\ r.who \in Admins \/ role \in nonAdminGrantableRoles
              /\ ~\E row \in rows : Same(row, p, role, r.vault)
              /\ call' = [call EXCEPT ![c].at = "assign", ![c].whom = p, ![c].role = role]
         \/ Goto(c, "done")
      /\ UNCHANGED <<tables, changes, trusted, bounded>>

\* An assignment is unique to its principal, role and vault.  On SQLite it
\* may be one in a vault that is gone.
Assign(c) ==
  LET r == call[c]
  IN  /\ r.at = "assign"
      /\ \/ /\ ~\E row \in rows : Same(row, r.whom, r.role, r.vault)
            /\ rows' = rows \cup 
                 {[id |-> c, who |-> r.whom, role |-> r.role, vault |-> r.vault, by |-> r.who]}
            /\ trusted' = trusted \cup
                 IF r.who \in Admins \/ <<r.who, r.vault>> \in trusted
                 THEN {<<r.whom, r.vault>>} ELSE {}
         \/ UNCHANGED <<rows, trusted>>
      /\ Goto(c, "done")
      /\ UNCHANGED <<users, grants, lock, vaults, policies, changes, bounded>>

Get(c) ==
  LET r == call[c]
  IN  /\ r.at = "get"
      /\ \/ \E row \in rows :
              /\ row.vault = r.vault
              /\ r.who \in Admins \/ row.role \in nonAdminGrantableRoles
              /\ call' = [call EXCEPT ![c].at = "remove", ![c].row = row.id]
         \/ Goto(c, "done")
      /\ UNCHANGED <<tables, changes, trusted, bounded>>

Remove(c) == /\ call[c].at = "remove"
             /\ \/ rows' = {row \in rows : row.id # call[c].row}
                \/ UNCHANGED rows
             /\ Goto(c, "done")
             /\ UNCHANGED <<users, grants, lock, vaults, policies, changes, trusted, bounded>>

-----------------------------------------------------------------------------
(* The purge of a vault, a statement after the other.                      *)

\* What remains of the denies a decision started under.
Watched(calls, table) ==
  [c \in Calls |-> [calls[c] EXCEPT !.denied =
     @ /\ Denies(table, calls[c].who, On(calls[c].op), calls[c].vault)]]

Purge(c) == /\ call[c].at = "purge"
            /\ \/ /\ vaults[call[c].vault] # Gone
                  /\ vaults' = [vaults EXCEPT ![call[c].vault] = Gone]
                  /\ Goto(c, "unpolicy")
               \/ UNCHANGED vaults /\ Goto(c, "done")
            /\ UNCHANGED <<users, grants, lock, policies, rows, changes, trusted, bounded>>

Unpolicy(c) ==
  /\ call[c].at = "unpolicy"
  /\ \/ /\ policies' = {policy \in policies : policy.vault # call[c].vault}
        /\ call' = Watched([call EXCEPT ![c].at = "unassign"], policies')
     \/ UNCHANGED policies /\ Goto(c, "done")
  /\ UNCHANGED <<users, grants, lock, vaults, rows, changes, trusted, bounded>>

Unassign(c) ==
  /\ call[c].at = "unassign"
  /\ \/ rows' = {row \in rows : row.vault # call[c].vault}
     \/ UNCHANGED rows
  /\ Goto(c, "done")
  /\ UNCHANGED <<users, grants, lock, vaults, policies, changes, trusted, bounded>>

-----------------------------------------------------------------------------
(* What administrators change.  A statement on a grant waits for its row.   *)

SetPolicies(table) == policies' = table /\ call' = Watched(call, table)

AddPolicy == /\ \E policy \in Policies :
                  /\ SetPolicies(policies \cup {policy})
                  /\ trusted' = trusted \cup Entrusted(policy)
             /\ UNCHANGED <<users, grants, lock, vaults, rows, bounded>>

DropPolicy == /\ \E policy \in policies : SetPolicies(policies \ {policy})
              /\ UNCHANGED <<users, grants, lock, vaults, rows, trusted, bounded>>

SetGrant == /\ \E p \in Principals, quota \in Quotas \cup {None} :
                 /\ lock[p] = None
                 /\ grants' = [grants EXCEPT ![p] = quota]
            /\ UNCHANGED <<users, lock, vaults, policies, rows, call, trusted, bounded>>

\* deletePrincipalGrants: a principal loses all it was granted with its account.
DeleteUser == /\ \E p \in users :
                   /\ lock[p] = None
                   /\ users' = users \ {p}
                   /\ rows' = {row \in rows : row.who # p}
                   /\ SetPolicies({policy \in policies : policy.who # p})
                   /\ grants' = [grants EXCEPT ![p] = None]
              /\ UNCHANGED <<lock, vaults, trusted, bounded>>

Change == /\ changes < MaxChanges
          /\ changes' = changes + 1
          /\ AddPolicy \/ DropPolicy \/ SetGrant \/ DeleteUser

Step(c) == \/ Begin(c) \/ ReadPolicies(c) \/ ReadRoles(c) \/ ReadGrant(c) \/ Use(c)
           \/ Lock(c) \/ Count(c) \/ Insert(c) \/ CreateVault(c) \/ Find(c) \/ Assign(c)
           \/ Get(c) \/ Remove(c) \/ Purge(c) \/ Unpolicy(c) \/ Unassign(c)

Next == Change \/ \E c \in Calls : Step(c)

Spec == Init /\ [][Next]_vars

-----------------------------------------------------------------------------

\* Every variable keeps its type.
TypeOK == /\ users \subseteq Principals /\ changes \in 0..MaxChanges
          /\ grants \in [Principals -> Quotas \cup {None}]
          /\ lock \in [Principals -> Calls \cup {None}]
          /\ vaults \in [Vaults -> Principals \cup {None, Gone}]
          /\ policies \subseteq Policies /\ rows \subseteq Rows
          /\ call \in [Calls -> CallStates]
          /\ trusted \subseteq Principals \X Vaults /\ bounded \subseteq Vaults

\* The calls that were let through, and are not done.
LetThrough(c) ==
  call[c].at \in {"used", "managed", "find", "assign", "get", "remove", "purge",
                  "unpolicy", "unassign"}

\* However many creations run at once, and whatever happens to the grant
\* meanwhile, a creation within a quota leaves its creator with no more vaults
\* of that kind than the quota the grant has (LockAndReadQuotaTx).
QuotaKept ==
  [][\A p \in Principals :
       LET Within(table) == Cardinality({v \in bounded' : table[v] = p})
           held == Cardinality({v \in bounded : vaults[v] = p})
       IN  Within(vaults') > held => grants[p] # None /\ Within(vaults') <= grants[p]]_vars

\* Nobody is let through to a vault, or holds a role in it, who was not
\* entrusted with it along a chain that starts at an administrator or at its
\* creator; a role that is reserved to administrators is given by one; and no
\* call is let through under a deny that stood all along, when no lookup failed
\* (CanManageVault, CanManageRoleAssignments, RequireDataPlaneAccess).
Entitled ==
  /\ \A row \in rows : /\ <<row.who, row.vault>> \in trusted
                       /\ row.role \in nonAdminGrantableRoles \/ row.by \in Admins
  /\ \A c \in Calls :
       LetThrough(c) /\ ~(call[c].who \in Admins /\ call[c].op # "use") =>
         /\ <<call[c].who, call[c].vault>> \in trusted
         /\ call[c].op # "purge" /\ ~call[c].failed => ~call[c].denied

\* What CanManageRoleAssignments says of itself: an explicit deny is never
\* outvoted by a role, and a service error denies.
DenyWins ==
  \A c \in Calls :
    call[c].at \in {"find", "get"} /\ call[c].who \notin Admins => ~call[c].denied
=============================================================================
