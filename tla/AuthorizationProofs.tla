------------------------ MODULE AuthorizationProofs ------------------------
(***************************************************************************)
(* Theorems about Authorization, for any principals, vaults, policies and  *)
(* calls: nobody acts, or is given a role, who was not entrusted with the  *)
(* vault along a chain, and creations keep within a quota.                 *)
(***************************************************************************)
EXTENDS Authorization, FiniteSetTheorems, TLAPS

\* The stages of a call.
LEMMA StagesGiven ==
  /\ {"idle", "policies", "roles", "grant", "lock", "count", "insert", "create", "find",
      "assign", "get", "remove", "managed", "purge", "unpolicy", "unassign", "used",
      "done"} \subseteq Stages
  /\ \A op \in {"use", "manage", "assign", "revoke", "purge", "create"} :
       Through(op) \in Stages
BY DEF Stages, Through

\* A call that rests or moves on is a call.
LEMMA CallTyped ==
  ASSUME call \in [Calls -> CallStates], NEW c \in Calls, NEW stage \in Stages
  PROVE  /\ Resting(stage) \in CallStates
         /\ Goto(c, stage) => call' \in [Calls -> CallStates]
         /\ [call EXCEPT ![c].at = stage] \in [Calls -> CallStates]
         /\ \A t \in BOOLEAN :
              [call EXCEPT ![c].at = stage, ![c].failed = t] \in [Calls -> CallStates]
         /\ \A q \in Nat :
              [call EXCEPT ![c].at = stage, ![c].quota = q] \in [Calls -> CallStates]
         /\ \A p \in Principals, role \in Roles :
              [call EXCEPT ![c].at = stage, ![c].whom = p, ![c].role = role]
                \in [Calls -> CallStates]
         /\ \A id \in Calls \cup {None} :
              [call EXCEPT ![c].at = stage, ![c].row = id] \in [Calls -> CallStates]
<1>1. Resting(stage) \in CallStates
      BY DEF Resting, CallStates, Roles
<1>2. [call[c] EXCEPT !.at = stage] \in CallStates
      BY DEF CallStates
<1>3. Goto(c, stage) => call' \in [Calls -> CallStates]
      BY <1>1, <1>2, StagesGiven DEF Goto, CallStates, Resting, Roles
<1>4. \A t \in BOOLEAN : [call[c] EXCEPT !.at = stage, !.failed = t] \in CallStates
      BY DEF CallStates
<1>5. \A q \in Nat : [call[c] EXCEPT !.at = stage, !.quota = q] \in CallStates
      BY DEF CallStates
<1>6. \A p \in Principals, role \in Roles :
        [call[c] EXCEPT !.at = stage, !.whom = p, !.role = role] \in CallStates
      BY DEF CallStates
<1>7. \A id \in Calls \cup {None} : [call[c] EXCEPT !.at = stage, !.row = id] \in CallStates
      BY DEF CallStates
<1>8. [call EXCEPT ![c].at = stage] \in [Calls -> CallStates]
      BY <1>2
<1>9. \A t \in BOOLEAN :
         [call EXCEPT ![c].at = stage, ![c].failed = t] \in [Calls -> CallStates]
       BY <1>4
<1>10. \A q \in Nat :
         [call EXCEPT ![c].at = stage, ![c].quota = q] \in [Calls -> CallStates]
       BY <1>5
<1>11. \A p \in Principals, role \in Roles :
         [call EXCEPT ![c].at = stage, ![c].whom = p, ![c].role = role]
           \in [Calls -> CallStates]
       BY <1>6
<1>12. \A id \in Calls \cup {None} :
         [call EXCEPT ![c].at = stage, ![c].row = id] \in [Calls -> CallStates]
       BY <1>7
<1>13. QED
       BY <1>1, <1>3, <1>8, <1>9, <1>10, <1>11, <1>12

\* What the removal of policies leaves of the calls is calls.
LEMMA WatchedTyped ==
  ASSUME NEW calls \in [Calls -> CallStates], NEW table
  PROVE  Watched(calls, table) \in [Calls -> CallStates]
<1>1. ASSUME NEW c \in Calls, NEW t \in BOOLEAN
      PROVE  [calls[c] EXCEPT !.denied = @ /\ t] \in CallStates
      BY DEF CallStates
<1>2. \A c \in Calls : Denies(table, calls[c].who, On(calls[c].op), calls[c].vault) \in BOOLEAN
      BY DEF Denies
<1>3. QED
      BY <1>1, <1>2 DEF Watched

\* Where a call goes is a stage.
LEMMA NextStages ==
  ASSUME NEW op \in {"use", "manage", "assign", "revoke", "purge", "create"}
  PROVE  /\ \A access \in {"allowed", "denied", "fallback"} : Decided(op, access) \in Stages
         /\ \A p \in Principals : Starts(p, op) \in Stages
BY StagesGiven DEF Decided, Starts

\* The decision is one of three.
LEMMA Decisions ==
  ASSUME NEW p, NEW on, NEW v
  PROVE  /\ CheckAccess(policies, p, on, v) \in {"allowed", "denied", "fallback"}
         /\ CheckVaultScopedAccess(policies, p, on, v) \in {"allowed", "denied", "fallback"}
BY DEF CheckAccess, CheckVaultScopedAccess

\* What a call is at while it is served.
LEMMA Fields ==
  ASSUME TypeOK, NEW c \in Calls
  PROVE  /\ call[c].at \in Stages /\ call[c].who \in Principals \cup {None}
         /\ call[c].op \in {"use", "manage", "assign", "revoke", "purge", "create"}
         /\ call[c].vault \in Vaults \cup {Anywhere} /\ call[c].quota \in Nat
         /\ call[c].whom \in Principals \cup {None} /\ call[c].role \in Roles
         /\ call[c].denied \in BOOLEAN /\ call[c].failed \in BOOLEAN
BY DEF TypeOK, CallStates

-----------------------------------------------------------------------------
(* The invariant.                                                          *)

\* A call under way knows its caller, and the vault it is about; the stages of
\* a creation are its own.
Served(c) ==
  LET r == call[c] IN
  /\ r.at \notin {"idle", "done"} =>
       r.who \in Principals /\ (r.op # "create" => r.vault \in Vaults)
  /\ r.at \in {"grant", "lock", "count", "insert", "create"} => r.op = "create"
  /\ r.at = "policies" => r.op # "purge"
  /\ LetThrough(c) => r.op # "create"
  /\ r.at \in {"find", "assign"} => r.op = "assign"
  /\ r.at = "assign" =>
       /\ r.whom \in Principals
       /\ r.who \in Admins \/ r.role \in nonAdminGrantableRoles

\* A call that is decided by policies and roles.
Decidable(c) == ~(call[c].who \in Admins /\ call[c].op # "use")

\* A deny that was there when a call began and stood all along is still there,
\* and stops the call at the policies; who is let through was entrusted.
Cleared(c) ==
  LET r == call[c] IN
  /\ r.denied => Denies(policies, r.who, On(r.op), r.vault)
  /\ Decidable(c) /\ LetThrough(c) => <<r.who, r.vault>> \in trusted
  /\ Decidable(c) /\ (r.at = "roles" \/ LetThrough(c)) /\ r.op # "purge" /\ ~r.failed =>
       ~r.denied

\* The creation within a quota keeps the row of the grant as it was read.
Locking(c) ==
  LET r == call[c] IN
  r.at \in {"count", "insert"} =>
    lock[r.who] = c /\ grants[r.who] # None /\ grants[r.who] = r.quota

\* What a policy allows in a vault, and every role in one, was entrusted.
Chained ==
  /\ \A policy \in policies : policy.effect = "allow" /\ policy.vault # Anywhere =>
       <<policy.who, policy.vault>> \in trusted
  /\ \A row \in rows : /\ <<row.who, row.vault>> \in trusted
                       /\ row.role \in nonAdminGrantableRoles \/ row.by \in Admins

\* The vaults of p that were created within a quota.
Within(p) == {v \in bounded : vaults[v] = p}

\* A creation that has counted leaves room for its vault until it inserts it.
Room == /\ \A v \in bounded : vaults[v] # None
        /\ \A c \in Calls : call[c].at = "insert" =>
             Cardinality(Within(call[c].who)) < call[c].quota

IInv == /\ TypeOK /\ Chained /\ Room
        /\ \A c \in Calls : Served(c) /\ Cleared(c) /\ Locking(c)

-----------------------------------------------------------------------------
(* The calls.                                                              *)

\* A step leaves the other calls where they were.
Unmoved(d) ==
  /\ call'[d].at = call[d].at /\ call'[d].op = call[d].op /\ call'[d].who = call[d].who
  /\ call'[d].vault = call[d].vault /\ call'[d].whom = call[d].whom
  /\ call'[d].role = call[d].role /\ call'[d].quota = call[d].quota
  /\ call'[d].failed = call[d].failed
  /\ call'[d].denied => call[d].denied

\* Also when it rewrites what is known of the denies.
LEMMA WatchedUnmoved ==
  ASSUME TypeOK, NEW calls \in [Calls -> CallStates], NEW table, NEW d \in Calls
  PROVE  /\ Watched(calls, table)[d].at = calls[d].at
         /\ Watched(calls, table)[d].op = calls[d].op
         /\ Watched(calls, table)[d].who = calls[d].who
         /\ Watched(calls, table)[d].vault = calls[d].vault
         /\ Watched(calls, table)[d].whom = calls[d].whom
         /\ Watched(calls, table)[d].role = calls[d].role
         /\ Watched(calls, table)[d].quota = calls[d].quota
         /\ Watched(calls, table)[d].failed = calls[d].failed
         /\ Watched(calls, table)[d].denied <=>
              calls[d].denied /\ Denies(table, calls[d].who, On(calls[d].op), calls[d].vault)
<1>1. Watched(calls, table)[d] =
        [calls[d] EXCEPT !.denied = @ /\ Denies(table, calls[d].who, On(calls[d].op), calls[d].vault)]
      BY DEF Watched
<1>2. calls[d] \in CallStates
      OBVIOUS
<1> DEFINE t == Denies(table, calls[d].who, On(calls[d].op), calls[d].vault)
           e == calls[d]
<1>3. Watched(calls, table)[d] = [e EXCEPT !.denied = e.denied /\ t]
      BY <1>1, <1>2 DEF CallStates
<1>4. e \in CallStates
      BY <1>2
<1> HIDE DEF t, e
<1>5. QED
      BY <1>3, <1>4 DEF CallStates, t, e

\* A call that rests or moves on, whichever it is.
LEMMA WentTo ==
  ASSUME TypeOK, NEW c \in Calls, NEW stage \in Stages, Goto(c, stage)
  PROVE  /\ call' \in [Calls -> CallStates]
         /\ \A d \in Calls \ {c} : call'[d] = call[d]
         /\ stage = "done" => call'[c] = Resting("done")
         /\ stage # "done" => call'[c] = [call[c] EXCEPT !.at = stage]
         /\ call'[c].at = stage
<1>1. /\ call' \in [Calls -> CallStates]
      /\ \A d \in Calls \ {c} : call'[d] = call[d]
      /\ stage = "done" => call'[c] = Resting("done")
      /\ stage # "done" => call'[c] = [call[c] EXCEPT !.at = stage]
      BY CallTyped DEF TypeOK, Goto
<1>2. Resting("done").at = "done"
      BY DEF Resting
<1>3. [call[c] EXCEPT !.at = stage].at = stage
      BY DEF TypeOK, CallStates
<1>4. QED
      BY <1>1, <1>2, <1>3

\* A call that moves on keeps the rest of what it has.
LEMMA Moved ==
  ASSUME TypeOK, NEW c \in Calls, NEW stage \in Stages, Goto(c, stage), stage # "done"
  PROVE  /\ call'[c].at = stage /\ call'[c].op = call[c].op /\ call'[c].who = call[c].who
         /\ call'[c].vault = call[c].vault /\ call'[c].whom = call[c].whom
         /\ call'[c].role = call[c].role /\ call'[c].quota = call[c].quota
         /\ call'[c].denied = call[c].denied /\ call'[c].failed = call[c].failed
<1>1. call'[c] = [call[c] EXCEPT !.at = stage] /\ call[c] \in CallStates
      BY WentTo DEF TypeOK
<1>2. QED
      BY <1>1 DEF CallStates

\* A call that comes to rest has nothing left to answer for.
LEMMA RestFit ==
  ASSUME NEW c \in Calls, call'[c] = Resting("done")
  PROVE  Served(c)' /\ Cleared(c)' /\ Locking(c)'
<1>1. call'[c].at = "done" /\ call'[c].denied = FALSE
      BY DEF Resting
<1>2. QED
      BY <1>1 DEF Served, Cleared, Locking, LetThrough

\* What a deny stops stays stopped while the policies only grow.
LEMMA DeniesStay ==
  ASSUME NEW p, NEW on, NEW v, policies \subseteq policies', Denies(policies, p, on, v)
  PROVE  Denies(policies', p, on, v)
BY DEF Denies, Effects

\* The calls that do not step stay fit, whatever is entrusted.
LEMMA Bystanders ==
  ASSUME NEW d \in Calls, Unmoved(d), Served(d), Cleared(d), trusted \subseteq trusted',
         call'[d].denied => Denies(policies', call[d].who, On(call[d].op), call[d].vault)
  PROVE  Served(d)' /\ Cleared(d)'
<1>1. Served(d)'
      BY DEF Unmoved, Served, LetThrough
<1>2. Cleared(d)'
      BY DEF Unmoved, Cleared, LetThrough, Decidable
<1>3. QED
      BY <1>1, <1>2

\* The calls that do not step, when a step leaves them alone.
LEMMA Others ==
  ASSUME NEW c \in Calls, \A d \in Calls \ {c} : call'[d] = call[d],
         \A d \in Calls : Served(d) /\ Cleared(d),
         policies \subseteq policies', trusted \subseteq trusted'
  PROVE  \A d \in Calls \ {c} : Served(d)' /\ Cleared(d)'
<1> TAKE d \in Calls \ {c}
<1>1. Unmoved(d)
      BY DEF Unmoved
<1>2. call'[d].denied => Denies(policies', call[d].who, On(call[d].op), call[d].vault)
      BY DeniesStay DEF Cleared
<1>3. QED
      BY <1>1, <1>2, Bystanders

\* A call moves on if it has what the next stage asks for.
LEMMA MoveFit ==
  ASSUME TypeOK, NEW c \in Calls, NEW stage \in Stages, Goto(c, stage),
         Served(c), Cleared(c), policies \subseteq policies', trusted \subseteq trusted',
         call[c].at \notin {"idle", "done"},
         stage \notin {"idle", "policies", "assign"},
         stage \in {"grant", "lock", "count", "insert", "create"} => call[c].op = "create",
         stage = "find" => call[c].op = "assign",
         stage \in {"used", "managed", "find", "get", "remove", "purge", "unpolicy", "unassign"} =>
           call[c].op # "create" /\ (Decidable(c) => <<call[c].who, call[c].vault>> \in trusted),
         stage \in {"roles", "used", "managed", "find", "get", "remove", "purge", "unpolicy",
                    "unassign"} /\ Decidable(c) /\ call[c].op # "purge" /\ ~call[c].failed =>
           ~call[c].denied
  PROVE  Served(c)' /\ Cleared(c)'
<1>1. CASE stage = "done"
      BY <1>1, WentTo, RestFit
<1>2. CASE stage # "done"
  <2>1. /\ call'[c].at = stage /\ call'[c].op = call[c].op /\ call'[c].who = call[c].who
        /\ call'[c].vault = call[c].vault /\ call'[c].denied = call[c].denied
        /\ call'[c].failed = call[c].failed
        BY <1>2, Moved
  <2>2. Served(c)'
        BY <2>1 DEF Served, LetThrough
  <2>3. call[c].denied => Denies(policies', call[c].who, On(call[c].op), call[c].vault)
        BY DeniesStay DEF Cleared
  <2>4. Decidable(c)' <=> Decidable(c)
        BY <2>1 DEF Decidable
  <2>5. Cleared(c)'
        BY <2>1, <2>3, <2>4 DEF Cleared, LetThrough
  <2>6. QED
        BY <2>2, <2>5
<1>3. QED
      BY <1>1, <1>2

\* What the tables are given has its type.
LEMMA Granted ==
  ASSUME NEW p \in Principals, NEW v \in Vaults, NEW c \in Calls
  PROVE  /\ [who |-> p, vault |-> v, on |-> "vaults", effect |-> "allow"] \in Policies
         /\ \A q \in Principals, role \in Roles :
              [id |-> c, who |-> p, role |-> role, vault |-> v, by |-> q] \in Rows
         /\ "Administrator" \in Roles
BY DEF Policies, Rows, Roles

\* Every call has what it is served for.
Fit == /\ call \in [Calls -> CallStates]
       /\ \A c \in Calls : Served(c) /\ Cleared(c)

\* A call that starts.
LEMMA BeginStep ==
  ASSUME TypeOK, Fit, NEW c \in Calls, Begin(c)
  PROVE  Fit' /\ call'[c].at \notin {"count", "insert"}
<1>1. PICK p \in Principals, op \in {"use", "manage", "assign", "revoke", "purge", "create"},
           v \in Vaults \cup {Anywhere} :
        /\ op # "create" => v \in Vaults
        /\ call' = [call EXCEPT ![c].at = Starts(p, op), ![c].op = op, ![c].who = p,
                      ![c].vault = v, ![c].denied = Denies(policies, p, On(op), v)]
  <2>1. PICK p \in users, op \in {"use", "manage", "assign", "revoke", "purge", "create"} :
          \E v \in IF op = "create" THEN {Anywhere}
                   ELSE {w \in Vaults : vaults[w] \notin {None, Gone}} :
            call' = [call EXCEPT ![c].at = Starts(p, op), ![c].op = op, ![c].who = p,
                       ![c].vault = v, ![c].denied = Denies(policies, p, On(op), v)]
        BY Zenon DEF Begin
  <2>2. PICK v \in IF op = "create" THEN {Anywhere}
                   ELSE {w \in Vaults : vaults[w] \notin {None, Gone}} :
          call' = [call EXCEPT ![c].at = Starts(p, op), ![c].op = op, ![c].who = p,
                     ![c].vault = v, ![c].denied = Denies(policies, p, On(op), v)]
        BY <2>1, Zenon
  <2>3. p \in Principals /\ v \in Vaults \cup {Anywhere} /\ (op # "create" => v \in Vaults)
        BY DEF TypeOK
  <2>4. QED
        BY <2>2, <2>3, Zenon
<1>2. Starts(p, op) \in Stages /\ Denies(policies, p, On(op), v) \in BOOLEAN
      BY NextStages DEF Denies
<1>3. PICK stage \in Stages, t \in BOOLEAN :
        /\ stage = Starts(p, op) /\ t = Denies(policies, p, On(op), v)
        /\ call' = [call EXCEPT ![c].at = stage, ![c].op = op, ![c].who = p, ![c].vault = v,
                      ![c].denied = t]
      BY <1>1, <1>2, Zenon
<1>4. /\ stage \notin {"idle", "done", "assign", "count", "insert"}
      /\ stage \in {"grant", "lock", "create"} => op = "create"
      /\ stage = "policies" => op # "purge"
      /\ op = "create" => stage \in {"create", "policies"}
      /\ stage = "find" => op = "assign"
      /\ stage = "roles" => op = "purge"
      /\ stage \notin {"policies", "roles"} => p \in Admins /\ op # "use"
      BY <1>3 DEF Starts, Through
<1>5. call \in [Calls -> CallStates]
      BY DEF TypeOK
<1> DEFINE new == [call[c] EXCEPT !.at = stage, !.op = op, !.who = p, !.vault = v, !.denied = t]
<1>6. new \in CallStates
      BY <1>5 DEF CallStates
<1>7. new.at = stage /\ new.op = op /\ new.who = p /\ new.vault = v /\ new.denied = t
      BY <1>5 DEF CallStates
<1>8. call' = [call EXCEPT ![c] = new]
      BY <1>3
<1> HIDE DEF new
<1>9. /\ call' \in [Calls -> CallStates]
      /\ \A d \in Calls \ {c} : call'[d] = call[d]
      /\ call'[c] = new
      BY <1>5, <1>6, <1>8
<1>10. UNCHANGED <<policies, trusted>>
       BY Zenon DEF Begin, tables
<1>11. Served(c)'
       BY <1>1, <1>4, <1>7, <1>9 DEF Served, LetThrough
<1>12. Cleared(c)'
       BY <1>3, <1>4, <1>7, <1>9, <1>10 DEF Cleared, LetThrough, Decidable
<1>13. QED
       BY <1>4, <1>7, <1>9, <1>10, <1>11, <1>12, Others DEF Fit

\* A call that a step leaves at rest, or lets move on.
LEMMA GotoStep ==
  ASSUME TypeOK, Fit, NEW c \in Calls, NEW stage \in Stages, Goto(c, stage),
         policies \subseteq policies', trusted \subseteq trusted', Served(c)' /\ Cleared(c)'
  PROVE  Fit'
BY WentTo, Others DEF Fit

\* A decision on the policies that is no denial finds no deny, and one that
\* allows more than the items finds who was entrusted with the vault.
LEMMA Decides ==
  ASSUME TypeOK, Chained, NEW p, NEW v \in Vaults \cup {Anywhere},
         NEW op \in {"use", "manage", "assign", "revoke", "create"}
  PROVE  LET access == IF op \in {"use", "create"}
                       THEN CheckAccess(policies, p, On(op), v)
                       ELSE CheckVaultScopedAccess(policies, p, "vaults", v)
         IN  /\ access \in {"allowed", "denied", "fallback"}
             /\ access # "denied" => ~Denies(policies, p, On(op), v)
             /\ access = "allowed" /\ op \notin {"use", "create"} /\ v \in Vaults =>
                  <<p, v>> \in trusted
<1>1. CASE op \in {"use", "create"}
      BY <1>1 DEF CheckAccess
<1>2. CASE op \notin {"use", "create"}
  <2> DEFINE access == CheckVaultScopedAccess(policies, p, "vaults", v)
  <2>1. On(op) = "vaults"
        BY <1>2 DEF On
  <2>2. access \in {"allowed", "denied", "fallback"}
        BY DEF CheckVaultScopedAccess
  <2>3. access # "denied" => ~Denies(policies, p, "vaults", v)
        BY DEF CheckVaultScopedAccess
  <2>4. ASSUME access = "allowed", v \in Vaults PROVE <<p, v>> \in trusted
    <3>1. PICK policy \in Effects(policies, p, "vaults", v) : policy.vault = v
          BY <2>4 DEF CheckVaultScopedAccess
    <3>2. policy.effect # "deny"
          BY <2>3, <2>4 DEF Denies
    <3>3. policy \in policies /\ policy.who = p /\ policy.effect \in {"allow", "deny"}
          BY DEF Effects, TypeOK, Policies
    <3>4. QED
          BY <2>4, <3>1, <3>2, <3>3, AuthorizationAssumption DEF Chained
  <2>5. QED
        BY <1>2, <2>1, <2>2, <2>3, <2>4
<1>3. QED
      BY <1>1, <1>2

\* The decision on the policies.
LEMMA ReadPoliciesStep ==
  ASSUME TypeOK, Fit, Chained, NEW c \in Calls, ReadPolicies(c)
  PROVE  Fit' /\ call'[c].at \notin {"count", "insert"}
<1> DEFINE op == call[c].op
           p == call[c].who
           v == call[c].vault
           access == IF op \in {"use", "create"}
                     THEN CheckAccess(policies, p, On(op), v)
                     ELSE CheckVaultScopedAccess(policies, p, "vaults", v)
<1>1. /\ call[c].at = "policies" /\ UNCHANGED <<policies, trusted>>
      /\ \/ Goto(c, Decided(op, access))
         \/ op \in {"assign", "revoke"} /\ call' = [call EXCEPT ![c].at = "roles", ![c].failed = TRUE]
         \/ Goto(c, "done")
      BY Zenon DEF ReadPolicies, tables
<1>2. /\ op \in {"use", "manage", "assign", "revoke", "create"} /\ p \in Principals
      /\ v \in Vaults \cup {Anywhere} /\ (op # "create" => v \in Vaults)
      /\ Served(c) /\ Cleared(c)
      BY <1>1, Fields DEF Fit, Served
<1>3. /\ access \in {"allowed", "denied", "fallback"}
      /\ access # "denied" => ~call[c].denied
      /\ access = "allowed" /\ op \notin {"use", "create"} => <<p, v>> \in trusted
      BY <1>2, Decides DEF Cleared
<1> HIDE DEF access
<1>4. CASE Goto(c, Decided(op, access))
  <2>1. Decided(op, access) \in Stages
        BY <1>2, <1>3, NextStages
  <2>2. PICK stage \in Stages : stage = Decided(op, access)
        BY <2>1
  <2>3. /\ stage \in {"done", "grant", "create", "roles", "managed", "find", "get"}
        /\ stage \in {"grant", "create"} => op = "create"
        /\ stage = "find" => op = "assign"
        /\ stage \in {"managed", "find", "get"} =>
             access = "allowed" /\ op \in {"manage", "assign", "revoke"}
        /\ stage = "roles" => access # "denied"
        BY <1>2, <1>3, <2>2 DEF Decided, Through
  <2>4. Goto(c, stage)
        BY <1>4, <2>2
  <2>5. Served(c)' /\ Cleared(c)'
        BY <1>1, <1>2, <1>3, <2>3, <2>4, MoveFit
  <2>6. Fit'
        BY <1>1, <2>4, <2>5, GotoStep
  <2>7. call'[c].at = stage
        BY <2>4, WentTo
  <2>8. QED
        BY <2>3, <2>6, <2>7
<1>5. CASE /\ op \in {"assign", "revoke"}
           /\ call' = [call EXCEPT ![c].at = "roles", ![c].failed = TRUE]
  <2>1. call' \in [Calls -> CallStates]
        BY <1>5, StagesGiven, CallTyped DEF TypeOK
  <2>2. \A d \in Calls \ {c} : call'[d] = call[d]
        BY <1>5 DEF TypeOK
  <2>3. /\ call'[c].at = "roles" /\ call'[c].failed /\ call'[c].op = op /\ call'[c].who = p
        /\ call'[c].vault = v /\ call'[c].denied = call[c].denied
    <3>1. call'[c] = [call[c] EXCEPT !.at = "roles", !.failed = TRUE] /\ call[c] \in CallStates
          BY <1>5 DEF TypeOK
    <3>2. QED
          BY <3>1 DEF CallStates
  <2>4. Served(c)'
        BY <1>2, <1>5, <2>3 DEF Served, LetThrough
  <2>5. Cleared(c)'
        BY <1>1, <1>2, <2>3 DEF Cleared, LetThrough, Decidable
  <2>6. QED
        BY <1>1, <2>1, <2>2, <2>3, <2>4, <2>5, Others DEF Fit
<1>6. CASE Goto(c, "done")
  <2>1. "done" \in Stages
        BY StagesGiven
  <2>2. call'[c] = Resting("done") /\ call'[c].at = "done"
        BY <1>6, <2>1, WentTo
  <2>3. Served(c)' /\ Cleared(c)'
        BY <2>2, RestFit
  <2>4. QED
        BY <1>1, <1>6, <2>1, <2>2, <2>3, GotoStep
<1>7. QED
      BY <1>1, <1>4, <1>5, <1>6

\* The decision on the roles.
LEMMA ReadRolesStep ==
  ASSUME TypeOK, Fit, Chained, NEW c \in Calls, ReadRoles(c)
  PROVE  Fit' /\ call'[c].at \notin {"count", "insert"}
<1>1. call[c].at = "roles" /\ UNCHANGED <<policies, trusted>> /\ Served(c) /\ Cleared(c)
      BY Zenon DEF ReadRoles, tables, Fit
<1>2. PICK stage \in Stages :
        /\ Goto(c, stage)
        /\ \/ stage = "done"
           \/ /\ stage = Through(call[c].op)
              /\ HasDataAction(call[c].who, call[c].vault, call[c].op)
      BY StagesGiven, Fields, Zenon DEF ReadRoles
<1>3. stage # "done" => /\ stage \in {"used", "find", "get", "purge"}
                        /\ stage = "find" => call[c].op = "assign"
                        /\ call[c].op # "create"
                        /\ <<call[c].who, call[c].vault>> \in trusted
  <2> SUFFICES ASSUME stage # "done"
               PROVE  /\ stage \in {"used", "find", "get", "purge"}
                      /\ stage = "find" => call[c].op = "assign"
                      /\ call[c].op # "create"
                      /\ <<call[c].who, call[c].vault>> \in trusted
      OBVIOUS
  <2>1. PICK row \in rows : /\ row.who = call[c].who /\ row.vault = call[c].vault
                            /\ call[c].op \in Actions(row.role)
        BY <1>2 DEF HasDataAction
  <2>2. row.role \in Roles
        BY DEF TypeOK, Rows
  <2>3. call[c].op \in {"use", "assign", "revoke", "purge"}
        BY <2>1, <2>2 DEF Actions, Roles
  <2>4. QED
        BY <1>2, <2>1, <2>3 DEF Through, Chained
<1>4. Served(c)' /\ Cleared(c)'
  <2>1. Decidable(c) /\ call[c].op # "purge" /\ ~call[c].failed => ~call[c].denied
        BY <1>1 DEF Cleared
  <2>2. QED
        BY <1>1, <1>2, <1>3, <2>1, MoveFit
<1>5. Fit'
      BY <1>1, <1>2, <1>4, GotoStep
<1>6. call'[c].at = stage
      BY <1>2, WentTo
<1>7. QED
      BY <1>3, <1>5, <1>6

\* The steps that only move a call on or end it, whatever they write.
LEMMA PlainSteps ==
  ASSUME TypeOK, Fit, NEW c \in Calls,
         \/ ReadGrant(c) \/ Use(c) \/ Count(c) \/ Insert(c) \/ CreateVault(c)
         \/ Assign(c) \/ Remove(c) \/ Purge(c) \/ Unassign(c)
  PROVE  /\ Fit'
         /\ \E stage \in {"done", "lock", "insert", "unpolicy"} :
              Goto(c, stage) /\ (stage = "insert" => Count(c))
<1>1. policies \subseteq policies' /\ trusted \subseteq trusted'
  <2>1. CASE Insert(c)
        BY <2>1 DEF Insert
  <2>2. CASE Assign(c)
        BY <2>2 DEF Assign
  <2>3. CASE \/ ReadGrant(c) \/ Use(c) \/ Count(c) \/ CreateVault(c) \/ Remove(c)
             \/ Purge(c) \/ Unassign(c)
        BY <2>3 DEF ReadGrant, Use, Count, CreateVault, Remove, Purge, Unassign, tables
  <2>4. QED
        BY <2>1, <2>2, <2>3
<1>2. /\ call[c].at \notin {"idle", "done"} /\ Served(c) /\ Cleared(c)
      BY DEF ReadGrant, Use, Count, Insert, CreateVault, Assign, Remove, Purge, Unassign, Fit
<1>3. PICK stage \in {"done", "lock", "insert", "unpolicy"} :
        /\ Goto(c, stage)
        /\ stage = "lock" => call[c].at = "grant"
        /\ stage = "insert" => call[c].at = "count" /\ Count(c)
        /\ stage = "unpolicy" => call[c].at = "purge"
  <2>1. CASE Insert(c) \/ CreateVault(c) \/ Assign(c) \/ Remove(c) \/ Unassign(c) \/ Use(c)
    <3>1. Goto(c, "done")
          BY <2>1, Zenon DEF Insert, CreateVault, Assign, Remove, Unassign, Use
    <3>2. QED
          BY <3>1
  <2>2. CASE ReadGrant(c)
        BY <2>2, Zenon DEF ReadGrant
  <2>3. CASE Count(c)
        BY <2>3, Zenon DEF Count
  <2>4. CASE Purge(c)
        BY <2>4, Zenon DEF Purge
  <2>5. QED
        BY <2>1, <2>2, <2>3, <2>4
<1>4. stage \in Stages
      BY StagesGiven
<1>5. /\ stage \in {"lock", "insert"} => call[c].op = "create"
      /\ stage = "unpolicy" =>
           /\ call[c].op # "create"
           /\ Decidable(c) => <<call[c].who, call[c].vault>> \in trusted
           /\ Decidable(c) /\ call[c].op # "purge" /\ ~call[c].failed => ~call[c].denied
      BY <1>2, <1>3 DEF Served, Cleared, LetThrough
<1>6. Served(c)' /\ Cleared(c)'
      BY <1>1, <1>2, <1>3, <1>4, <1>5, MoveFit
<1>7. QED
      BY <1>1, <1>3, <1>4, <1>6, GotoStep

\* A call that moves on and learns a quota, whom to assign to, or a row.
LEMMA LearnStep ==
  ASSUME TypeOK, Fit, NEW c \in Calls, Lock(c) \/ Find(c) \/ Get(c), ~Goto(c, "done")
  PROVE  /\ Fit' /\ \A d \in Calls \ {c} : call'[d] = call[d]
         /\ call'[c].who = call[c].who
         /\ call'[c].at \in {"count", "assign", "remove"}
         /\ call'[c].at = "count" => Lock(c) /\ call'[c].quota = grants[call[c].who]
<1>1. /\ UNCHANGED <<policies, trusted>> /\ Served(c) /\ Cleared(c)
      BY Zenon DEF Lock, Find, Get, tables, Fit
<1>2. call \in [Calls -> CallStates] /\ call[c] \in CallStates
      BY DEF TypeOK
<1>3. PICK new \in CallStates :
        /\ call' = [call EXCEPT ![c] = new]
        /\ new.op = call[c].op /\ new.who = call[c].who /\ new.vault = call[c].vault
        /\ new.denied = call[c].denied /\ new.failed = call[c].failed
        /\ \/ /\ new.at = "count" /\ call[c].at = "lock" /\ Lock(c)
              /\ new.quota = grants[call[c].who]
           \/ /\ new.at = "assign" /\ call[c].at = "find" /\ new.whom \in Principals
              /\ new.who \in Admins \/ new.role \in nonAdminGrantableRoles
           \/ new.at = "remove" /\ call[c].at = "get"
  <2>1. CASE Lock(c)
    <3>1. /\ call[c].at = "lock" /\ grants[call[c].who] # None
          /\ call' = [call EXCEPT ![c].at = "count", ![c].quota = grants[call[c].who]]
          BY <2>1, Zenon DEF Lock
    <3>2. call[c].who \in Principals
          BY <1>1, <3>1 DEF Served
    <3>3. PICK q \in Nat : q = grants[call[c].who]
          BY <3>1, <3>2, AuthorizationAssumption DEF TypeOK
    <3> DEFINE n == [call[c] EXCEPT !.at = "count", !.quota = q]
    <3>4. /\ n \in CallStates
          /\ n.at = "count" /\ n.quota = q /\ n.op = call[c].op /\ n.who = call[c].who
          /\ n.vault = call[c].vault /\ n.denied = call[c].denied /\ n.failed = call[c].failed
          BY <1>2, StagesGiven DEF CallStates
    <3>5. call' = [call EXCEPT ![c] = n]
          BY <3>1, <3>3
    <3> HIDE DEF n
    <3>6. QED
          BY <2>1, <3>1, <3>3, <3>4, <3>5
  <2>2. CASE Find(c)
    <3>1. call[c].at = "find"
          BY <2>2 DEF Find
    <3>2. PICK p \in Principals, role \in Roles :
            /\ call[c].who \in Admins \/ role \in nonAdminGrantableRoles
            /\ call' = [call EXCEPT ![c].at = "assign", ![c].whom = p, ![c].role = role]
          BY <2>2, Zenon DEF Find
    <3> DEFINE n == [call[c] EXCEPT !.at = "assign", !.whom = p, !.role = role]
    <3>4. /\ n \in CallStates
          /\ n.at = "assign" /\ n.whom = p /\ n.role = role /\ n.op = call[c].op
          /\ n.who = call[c].who /\ n.vault = call[c].vault /\ n.denied = call[c].denied
          /\ n.failed = call[c].failed
          BY <1>2, StagesGiven DEF CallStates
    <3>5. call' = [call EXCEPT ![c] = n]
          BY <3>2
    <3> HIDE DEF n
    <3>6. QED
          BY <3>1, <3>2, <3>4, <3>5
  <2>3. CASE Get(c)
    <3>1. call[c].at = "get"
          BY <2>3 DEF Get
    <3>2. PICK row \in rows : call' = [call EXCEPT ![c].at = "remove", ![c].row = row.id]
          BY <2>3, Zenon DEF Get
    <3>3. PICK id \in Calls \cup {None} : id = row.id
          BY DEF TypeOK, Rows
    <3> DEFINE n == [call[c] EXCEPT !.at = "remove", !.row = id]
    <3>4. /\ n \in CallStates
          /\ n.at = "remove" /\ n.op = call[c].op
          /\ n.who = call[c].who /\ n.vault = call[c].vault /\ n.denied = call[c].denied
          /\ n.failed = call[c].failed
          BY <1>2, StagesGiven DEF CallStates
    <3>5. call' = [call EXCEPT ![c] = n]
          BY <3>2, <3>3
    <3> HIDE DEF n
    <3>6. QED
          BY <3>1, <3>4, <3>5
  <2>4. QED
        BY <2>1, <2>2, <2>3
<1>4. /\ call' \in [Calls -> CallStates] /\ call'[c] = new
      /\ \A d \in Calls \ {c} : call'[d] = call[d]
      BY <1>2, <1>3
<1>5. Served(c)'
      BY <1>1, <1>3, <1>4 DEF Served, LetThrough
<1>6. Cleared(c)'
      BY <1>1, <1>3, <1>4 DEF Cleared, LetThrough, Decidable
<1>7. QED
      BY <1>1, <1>3, <1>4, <1>5, <1>6, Others DEF Fit

\* A call that ends.
LEMMA RestStep ==
  ASSUME TypeOK, Fit, NEW c \in Calls, Goto(c, "done"),
         policies \subseteq policies', trusted \subseteq trusted'
  PROVE  Fit' /\ call'[c].at = "done"
<1>1. "done" \in Stages
      BY StagesGiven
<1>2. call'[c] = Resting("done") /\ call'[c].at = "done"
      BY <1>1, WentTo
<1>3. Served(c)' /\ Cleared(c)'
      BY <1>2, RestFit
<1>4. QED
      BY <1>1, <1>2, <1>3, GotoStep

\* A change of the policies.
LEMMA WatchedStep ==
  ASSUME TypeOK, Fit, call' = Watched(call, policies'), trusted \subseteq trusted'
  PROVE  Fit' /\ \A d \in Calls : Unmoved(d)
<1>1. call \in [Calls -> CallStates]
      BY DEF TypeOK
<1>2. call' \in [Calls -> CallStates]
      BY <1>1, WatchedTyped
<1>3. ASSUME NEW d \in Calls
      PROVE  /\ Unmoved(d)
             /\ call'[d].denied => Denies(policies', call[d].who, On(call[d].op), call[d].vault)
      BY <1>1, WatchedUnmoved DEF Unmoved
<1>4. QED
      BY <1>2, <1>3, Bystanders DEF Fit

\* The removal of a vault's policies.
LEMMA UnpolicyStep ==
  ASSUME TypeOK, Fit, NEW c \in Calls, Unpolicy(c)
  PROVE  Fit' /\ call'[c].at \in {"done", "unassign"} /\ \A d \in Calls \ {c} : Unmoved(d)
<1>1. /\ call[c].at = "unpolicy" /\ UNCHANGED trusted
      /\ \/ call' = Watched([call EXCEPT ![c].at = "unassign"], policies')
         \/ UNCHANGED policies /\ Goto(c, "done")
      BY Zenon DEF Unpolicy
<1>2. CASE UNCHANGED policies /\ Goto(c, "done")
      BY <1>1, <1>2, RestStep, WentTo, StagesGiven DEF Unmoved
<1>3. CASE call' = Watched([call EXCEPT ![c].at = "unassign"], policies')
  <2>1. PICK calls \in [Calls -> CallStates] : calls = [call EXCEPT ![c].at = "unassign"]
        BY StagesGiven, CallTyped DEF TypeOK
  <2>2. /\ \A d \in Calls \ {c} : calls[d] = call[d]
        /\ calls[c] = [call[c] EXCEPT !.at = "unassign"] /\ call[c] \in CallStates
        BY <2>1 DEF TypeOK
  <2>3. /\ calls[c].at = "unassign" /\ calls[c].op = call[c].op /\ calls[c].who = call[c].who
        /\ calls[c].vault = call[c].vault /\ calls[c].denied = call[c].denied
        /\ calls[c].failed = call[c].failed
        BY <2>2 DEF CallStates
  <2>4. call' = Watched(calls, policies')
        BY <1>3, <2>1
  <2>5. call' \in [Calls -> CallStates]
        BY <2>4, WatchedTyped
  <2>6. ASSUME NEW d \in Calls \ {c}
        PROVE  /\ Unmoved(d)
               /\ call'[d].denied => Denies(policies', call[d].who, On(call[d].op), call[d].vault)
        BY <2>2, <2>4, WatchedUnmoved DEF Unmoved
  <2>7. /\ call'[c].at = "unassign" /\ call'[c].op = call[c].op /\ call'[c].who = call[c].who
        /\ call'[c].vault = call[c].vault /\ call'[c].failed = call[c].failed
        /\ call'[c].denied <=>
             call[c].denied /\ Denies(policies', call[c].who, On(call[c].op), call[c].vault)
        BY <2>3, <2>4, WatchedUnmoved
  <2>8. Served(c)'
        BY <1>1, <2>7 DEF Fit, Served, LetThrough
  <2>9. Cleared(c)'
        BY <1>1, <2>7 DEF Fit, Cleared, LetThrough, Decidable
  <2>10. QED
         BY <1>1, <2>5, <2>6, <2>7, <2>8, <2>9, Bystanders DEF Fit
<1>4. QED
      BY <1>1, <1>2, <1>3

\* Every step keeps the calls fit.
LEMMA FitNext == TypeOK /\ Fit /\ Chained /\ [Next]_vars => Fit'
<1> SUFFICES ASSUME TypeOK, Fit, Chained, [Next]_vars PROVE Fit'
    OBVIOUS
<1>1. ASSUME NEW c \in Calls, Step(c) PROVE Fit'
  <2>1. CASE Lock(c) \/ Find(c) \/ Get(c)
    <3>1. UNCHANGED <<policies, trusted>>
          BY <2>1, Zenon DEF Lock, Find, Get, tables
    <3>2. QED
          BY <2>1, <3>1, LearnStep, RestStep
  <2>2. QED
        BY <1>1, <2>1, BeginStep, ReadPoliciesStep, ReadRolesStep, PlainSteps, UnpolicyStep
           DEF Step
<1>2. CASE Change
  <2>1. CASE AddPolicy \/ DropPolicy \/ DeleteUser
    <3>1. call' = Watched(call, policies') /\ trusted \subseteq trusted'
          BY <2>1 DEF AddPolicy, DropPolicy, DeleteUser, SetPolicies
    <3>2. QED
          BY <3>1, WatchedStep
  <2>2. CASE SetGrant
        BY <2>2 DEF SetGrant, Fit, Served, Cleared, LetThrough, Decidable
  <2>3. QED
        BY <1>2, <2>1, <2>2 DEF Change
<1>3. CASE UNCHANGED vars
      BY <1>3 DEF vars, Fit, Served, Cleared, LetThrough, Decidable
<1>4. QED
      BY <1>1, <1>2, <1>3 DEF Next

-----------------------------------------------------------------------------
(* The tables.                                                             *)

\* Every step keeps the types of the tables.
LEMMA TablesTyped == TypeOK /\ Fit /\ [Next]_vars =>
  /\ users' \subseteq Principals /\ changes' \in 0..MaxChanges
  /\ grants' \in [Principals -> Quotas \cup {None}]
  /\ lock' \in [Principals -> Calls \cup {None}]
  /\ vaults' \in [Vaults -> Principals \cup {None, Gone}]
  /\ policies' \subseteq Policies /\ rows' \subseteq Rows
  /\ trusted' \subseteq Principals \X Vaults /\ bounded' \subseteq Vaults
<1> DEFINE Typed ==
      /\ users \subseteq Principals /\ changes \in 0..MaxChanges
      /\ grants \in [Principals -> Quotas \cup {None}]
      /\ lock \in [Principals -> Calls \cup {None}]
      /\ vaults \in [Vaults -> Principals \cup {None, Gone}]
      /\ policies \subseteq Policies /\ rows \subseteq Rows
      /\ trusted \subseteq Principals \X Vaults /\ bounded \subseteq Vaults
<1> SUFFICES ASSUME TypeOK, Fit, [Next]_vars PROVE Typed'
    OBVIOUS
<1>0. Typed
      BY DEF TypeOK
<1>1. ASSUME NEW c \in Calls, Step(c) PROVE Typed'
  <2>0. Served(c) /\ (call[c].at = "assign" => call[c].role \in Roles)
        BY Fields DEF Fit
  <2>1. CASE \/ Begin(c) \/ ReadPolicies(c) \/ ReadRoles(c) \/ ReadGrant(c) \/ Use(c)
             \/ Find(c) \/ Get(c)
    <3>1. UNCHANGED <<tables, changes, trusted, bounded>>
          BY <2>1, Zenon DEF Begin, ReadPolicies, ReadRoles, ReadGrant, Use, Find, Get
    <3>2. QED
          BY <1>0, <3>1 DEF tables
  <2>2. CASE Lock(c)
    <3>1. /\ UNCHANGED <<users, grants, vaults, policies, rows, changes, trusted, bounded>>
          /\ lock' = lock \/ lock' = [lock EXCEPT ![call[c].who] = c]
          BY <2>2, Zenon DEF Lock
    <3>2. QED
          BY <1>0, <3>1
  <2>3. Unlocked(c) \in [Principals -> Calls \cup {None}]
        BY <1>0 DEF Unlocked
  <2>4. CASE Count(c)
    <3>1. /\ UNCHANGED <<users, grants, vaults, policies, rows, changes, trusted, bounded>>
          /\ lock' = lock \/ lock' = Unlocked(c)
          BY <2>4, Zenon DEF Count
    <3>2. QED
          BY <1>0, <2>3, <3>1
  <2>5. CASE Insert(c)
    <3>1. /\ UNCHANGED <<users, grants, changes>> /\ lock' = Unlocked(c)
          /\ call[c].at \in {"insert", "create"}
          BY <2>5 DEF Insert
    <3>2. call[c].who \in Principals
          BY <2>0, <3>1 DEF Served
    <3>3. CASE UNCHANGED <<vaults, policies, rows, trusted, bounded>>
          BY <1>0, <2>3, <3>1, <3>3
    <3>4. ASSUME NEW v \in Vaults,
                 vaults' = [vaults EXCEPT ![v] = call[c].who],
                 policies' = policies \cup
                   {[who |-> call[c].who, vault |-> v, on |-> "vaults", effect |-> "allow"]},
                 rows' = rows \cup
                   {[id |-> c, who |-> call[c].who, role |-> "Administrator", vault |-> v,
                     by |-> call[c].who]},
                 trusted' = trusted \cup {<<call[c].who, v>>},
                 bounded' = bounded \cup IF call[c].at = "insert" THEN {v} ELSE {}
          PROVE  Typed'
      <4> DEFINE policy == [who |-> call[c].who, vault |-> v, on |-> "vaults", effect |-> "allow"]
                 row == [id |-> c, who |-> call[c].who, role |-> "Administrator", vault |-> v,
                         by |-> call[c].who]
      <4>0. policy \in Policies /\ row \in Rows
            BY <3>2, Granted
      <4>a. policies' = policies \cup {policy} /\ rows' = rows \cup {row}
            BY <3>4
      <4> HIDE DEF policy, row
      <4>1. policies' \subseteq Policies /\ rows' \subseteq Rows
            BY <1>0, <4>0, <4>a
      <4>2. vaults' \in [Vaults -> Principals \cup {None, Gone}]
            BY <1>0, <3>2, <3>4
      <4>3. trusted' \subseteq Principals \X Vaults /\ bounded' \subseteq Vaults
            BY <1>0, <3>2, <3>4
      <4>4. QED
            BY <1>0, <2>3, <3>1, <4>1, <4>2, <4>3
    <3>5. QED
          BY <2>5, <3>3, <3>4, Zenon DEF Insert
  <2>6. CASE CreateVault(c)
    <3>1. /\ UNCHANGED <<users, grants, lock, policies, rows, changes, trusted, bounded>>
          /\ call[c].who \in Principals
          /\ UNCHANGED vaults \/ \E v \in Vaults : vaults' = [vaults EXCEPT ![v] = call[c].who]
          BY <2>6, AuthorizationAssumption, Zenon DEF CreateVault
    <3>2. QED
          BY <1>0, <3>1
  <2>7. CASE Assign(c)
    <3>1. /\ UNCHANGED <<users, grants, lock, vaults, policies, changes, bounded>>
          /\ call[c].at = "assign"
          BY <2>7 DEF Assign
    <3>2. /\ call[c].who \in Principals /\ call[c].vault \in Vaults
          /\ call[c].whom \in Principals /\ call[c].role \in Roles
          BY <2>0, <3>1 DEF Served
    <3>3. /\ \/ rows' = rows
             \/ rows' = rows \cup {[id |-> c, who |-> call[c].whom, role |-> call[c].role,
                                    vault |-> call[c].vault, by |-> call[c].who]}
          /\ trusted' \in {trusted, trusted \cup {<<call[c].whom, call[c].vault>>}}
          BY <2>7 DEF Assign
    <3>4. rows' \subseteq Rows
      <4> DEFINE row == [id |-> c, who |-> call[c].whom, role |-> call[c].role,
                         vault |-> call[c].vault, by |-> call[c].who]
      <4>1. row \in Rows
            BY <3>2, Granted
      <4>2. rows' = rows \/ rows' = rows \cup {row}
            BY <3>3
      <4> HIDE DEF row
      <4>3. QED
            BY <1>0, <4>1, <4>2
    <3>5. QED
          BY <1>0, <3>1, <3>2, <3>3, <3>4
  <2>8. CASE Remove(c) \/ Unassign(c)
    <3>1. /\ UNCHANGED <<users, grants, lock, vaults, policies, changes, trusted, bounded>>
          /\ rows' \subseteq rows
          BY <2>8 DEF Remove, Unassign
    <3>2. QED
          BY <1>0, <3>1
  <2>9. CASE Purge(c)
    <3>1. /\ UNCHANGED <<users, grants, lock, policies, rows, changes, trusted, bounded>>
          /\ UNCHANGED vaults \/ vaults' = [vaults EXCEPT ![call[c].vault] = Gone]
          BY <2>9 DEF Purge
    <3>2. QED
          BY <1>0, <3>1
  <2>10. CASE Unpolicy(c)
    <3>1. /\ UNCHANGED <<users, grants, lock, vaults, rows, changes, trusted, bounded>>
          /\ policies' \subseteq policies
          BY <2>10 DEF Unpolicy
    <3>2. QED
          BY <1>0, <3>1
  <2>11. QED
         BY <1>1, <2>1, <2>2, <2>4, <2>5, <2>6, <2>7, <2>8, <2>9, <2>10 DEF Step
<1>2. CASE Change
  <2>1. changes' \in 0..MaxChanges
        BY <1>0, <1>2, AuthorizationAssumption DEF Change
  <2>2. CASE AddPolicy
    <3>1. PICK policy \in Policies : /\ policies' = policies \cup {policy}
                                     /\ trusted' = trusted \cup Entrusted(policy)
          BY <2>2 DEF AddPolicy, SetPolicies
    <3>2. Entrusted(policy) \subseteq Principals \X Vaults
          BY DEF Entrusted, Policies
    <3>3. QED
          BY <1>0, <2>1, <2>2, <3>1, <3>2 DEF AddPolicy
  <2>3. CASE DropPolicy
        BY <1>0, <2>1, <2>3 DEF DropPolicy, SetPolicies
  <2>4. CASE SetGrant
        BY <1>0, <2>1, <2>4 DEF SetGrant
  <2>5. CASE DeleteUser
        BY <1>0, <2>1, <2>5 DEF DeleteUser, SetPolicies
  <2>6. QED
        BY <1>2, <2>2, <2>3, <2>4, <2>5 DEF Change
<1>3. CASE UNCHANGED vars
      BY <1>0, <1>3 DEF vars
<1>4. QED
      BY <1>1, <1>2, <1>3 DEF Next

\* A step but the removal of policies changes its own call alone.
LEMMA OwnCall ==
  ASSUME TypeOK, Fit, Chained, NEW c \in Calls, Step(c), ~Unpolicy(c)
  PROVE  \A d \in Calls \ {c} : call'[d] = call[d]
<1>0. call \in [Calls -> CallStates]
      BY DEF TypeOK
<1>1. ASSUME NEW stage, Goto(c, stage)
      PROVE  \A d \in Calls \ {c} : call'[d] = call[d]
      BY <1>0, <1>1 DEF Goto
<1>2. CASE Begin(c)
      BY <1>0, <1>2 DEF Begin
<1>3. CASE ReadPolicies(c)
      BY <1>0, <1>1, <1>3 DEF ReadPolicies
<1>4. CASE ReadRoles(c)
      BY <1>1, <1>4 DEF ReadRoles
<1>5. CASE Lock(c) \/ Find(c) \/ Get(c)
      BY <1>1, <1>5, LearnStep
<1>6. CASE \/ ReadGrant(c) \/ Use(c) \/ Count(c) \/ Insert(c) \/ CreateVault(c)
           \/ Assign(c) \/ Remove(c) \/ Purge(c) \/ Unassign(c)
      BY <1>1, <1>6, PlainSteps
<1>7. QED
      BY <1>2, <1>3, <1>4, <1>5, <1>6 DEF Step

\* Only the lock leads to the count, and the count to the insertion.
LEMMA NotCreating ==
  ASSUME TypeOK, Fit, Chained, NEW c \in Calls, Step(c), ~Lock(c), ~Count(c)
  PROVE  call'[c].at \notin {"count", "insert"}
<1>1. CASE Find(c) \/ Get(c)
  <2>1. ~Goto(c, "done") => call'[c].at \in {"assign", "remove"}
        BY <1>1, LearnStep
  <2>2. Goto(c, "done") => call'[c].at = "done"
        BY StagesGiven, WentTo
  <2>3. QED
        BY <2>1, <2>2
<1>2. CASE \/ ReadGrant(c) \/ Use(c) \/ Insert(c) \/ CreateVault(c)
           \/ Assign(c) \/ Remove(c) \/ Purge(c) \/ Unassign(c)
  <2>1. PICK stage \in {"done", "lock", "insert", "unpolicy"} :
          Goto(c, stage) /\ (stage = "insert" => Count(c))
        BY <1>2, PlainSteps
  <2>2. stage \in {"done", "lock", "unpolicy"} /\ stage \in Stages
        BY <2>1, StagesGiven
  <2>3. QED
        BY <2>1, <2>2, WentTo
<1>3. QED
      BY <1>1, <1>2, BeginStep, ReadPoliciesStep, ReadRolesStep, UnpolicyStep DEF Step

\* Every step keeps what is entrusted a chain: a role is handed out in a vault
\* by an administrator, or by who was entrusted with it (Assign).
LEMMA ChainedNext == TypeOK /\ Fit /\ Chained /\ [Next]_vars => Chained'
<1> SUFFICES ASSUME TypeOK, Fit, Chained, [Next]_vars PROVE Chained'
    OBVIOUS
<1>1. ASSUME policies' \subseteq policies, rows' \subseteq rows, trusted \subseteq trusted'
      PROVE  Chained'
      BY <1>1 DEF Chained
<1>2. ASSUME NEW c \in Calls, Step(c) PROVE Chained'
  <2>0. Served(c) /\ Cleared(c)
        BY DEF Fit
  <2>1. CASE Insert(c)
    <3>1. CASE UNCHANGED <<policies, rows, trusted>>
          BY <1>1, <3>1
    <3>2. ASSUME NEW v \in Vaults,
                 policies' = policies \cup
                   {[who |-> call[c].who, vault |-> v, on |-> "vaults", effect |-> "allow"]},
                 rows' = rows \cup
                   {[id |-> c, who |-> call[c].who, role |-> "Administrator", vault |-> v,
                     by |-> call[c].who]},
                 trusted' = trusted \cup {<<call[c].who, v>>}
          PROVE  Chained'
          BY <3>2 DEF Chained, nonAdminGrantableRoles
    <3>3. QED
          BY <2>1, <3>1, <3>2, Zenon DEF Insert
  <2>2. CASE Assign(c)
    <3>1. call[c].at = "assign" /\ policies' = policies
          BY <2>2 DEF Assign
    <3>2. CASE UNCHANGED <<rows, trusted>>
          BY <1>1, <3>1, <3>2
    <3>3. CASE /\ rows' = rows \cup
                    {[id |-> c, who |-> call[c].whom, role |-> call[c].role,
                      vault |-> call[c].vault, by |-> call[c].who]}
               /\ trusted' = trusted \cup
                    IF call[c].who \in Admins \/ <<call[c].who, call[c].vault>> \in trusted
                    THEN {<<call[c].whom, call[c].vault>>} ELSE {}
      <4>1. call[c].who \in Admins \/ <<call[c].who, call[c].vault>> \in trusted
            BY <2>0, <3>1 DEF Cleared, Decidable, LetThrough
      <4>2. trusted' = trusted \cup {<<call[c].whom, call[c].vault>>}
            BY <3>3, <4>1
      <4>3. call[c].who \in Admins \/ call[c].role \in nonAdminGrantableRoles
            BY <2>0, <3>1 DEF Served
      <4>4. QED
            BY <3>1, <3>3, <4>2, <4>3 DEF Chained
    <3>4. QED
          BY <2>2, <3>2, <3>3, Zenon DEF Assign
  <2>3. CASE \/ Begin(c) \/ ReadPolicies(c) \/ ReadRoles(c) \/ ReadGrant(c) \/ Use(c)
             \/ Find(c) \/ Get(c) \/ Lock(c) \/ Count(c) \/ CreateVault(c) \/ Remove(c)
             \/ Purge(c) \/ Unpolicy(c) \/ Unassign(c)
    <3>1. policies' \subseteq policies /\ rows' \subseteq rows /\ trusted' = trusted
      <4>1. CASE Remove(c) \/ Unpolicy(c) \/ Unassign(c)
            BY <4>1 DEF Remove, Unpolicy, Unassign
      <4>2. CASE Lock(c) \/ Count(c) \/ CreateVault(c) \/ Purge(c)
            BY <4>2 DEF Lock, Count, CreateVault, Purge
      <4>3. CASE \/ Begin(c) \/ ReadPolicies(c) \/ ReadRoles(c) \/ ReadGrant(c) \/ Use(c)
                 \/ Find(c) \/ Get(c)
            BY <4>3, Zenon DEF Begin, ReadPolicies, ReadRoles, ReadGrant, Use, Find, Get, tables
      <4>4. QED
            BY <2>3, <4>1, <4>2, <4>3
    <3>2. QED
          BY <1>1, <3>1
  <2>4. QED
        BY <1>2, <2>1, <2>2, <2>3 DEF Step
<1>3. CASE Change
  <2>1. CASE AddPolicy
        BY <2>1 DEF AddPolicy, SetPolicies, Entrusted, Chained
  <2>2. CASE DropPolicy \/ SetGrant \/ DeleteUser
    <3>1. policies' \subseteq policies /\ rows' \subseteq rows /\ trusted' = trusted
          BY <2>2 DEF DropPolicy, SetGrant, DeleteUser, SetPolicies
    <3>2. QED
          BY <1>1, <3>1
  <2>3. QED
        BY <1>3, <2>1, <2>2 DEF Change
<1>4. CASE UNCHANGED vars
      BY <1>1, <1>4 DEF vars
<1>5. QED
      BY <1>2, <1>3, <1>4 DEF Next

\* Whoever steps, the other calls stay.
LEMMA OthersUnmoved ==
  ASSUME TypeOK, Fit, Chained
  PROVE  /\ \A c \in Calls : Step(c) => \A d \in Calls \ {c} : Unmoved(d)
         /\ Change \/ UNCHANGED vars => \A d \in Calls : Unmoved(d)
<1>1. ASSUME NEW c \in Calls, Step(c) PROVE \A d \in Calls \ {c} : Unmoved(d)
  <2>1. CASE Unpolicy(c)
        BY <2>1, UnpolicyStep
  <2>2. CASE ~Unpolicy(c)
    <3>1. \A d \in Calls \ {c} : call'[d] = call[d]
          BY <1>1, <2>2, OwnCall
    <3>2. QED
          BY <3>1 DEF Unmoved
  <2>3. QED
        BY <2>1, <2>2
<1>2. ASSUME Change \/ UNCHANGED vars PROVE \A d \in Calls : Unmoved(d)
  <2>1. CASE AddPolicy \/ DropPolicy \/ DeleteUser
    <3>1. call' = Watched(call, policies') /\ trusted \subseteq trusted'
          BY <2>1 DEF AddPolicy, DropPolicy, DeleteUser, SetPolicies
    <3>2. QED
          BY <3>1, WatchedStep
  <2>2. CASE call' = call
        BY <2>2 DEF Unmoved
  <2>3. QED
        BY <1>2, <2>1, <2>2 DEF Change, SetGrant, vars
<1>3. QED
      BY <1>1, <1>2

-----------------------------------------------------------------------------
(* The quota.                                                              *)

\* The calls that do not step keep the row of the grant they lock.
LEMMA LockStays ==
  ASSUME NEW d \in Calls, Locking(d), Unmoved(d),
         call[d].at \in {"count", "insert"} =>
           lock'[call[d].who] = d /\ grants'[call[d].who] = grants[call[d].who]
  PROVE  Locking(d)'
BY DEF Unmoved, Locking

\* A step leaves the row of a grant to the transaction that holds it.
LEMMA LockingNext ==
  TypeOK /\ Fit /\ Chained /\ (\A c \in Calls : Locking(c)) /\ [Next]_vars =>
    \A c \in Calls : Locking(c)'
<1> SUFFICES ASSUME TypeOK, Fit, Chained, \A c \in Calls : Locking(c), [Next]_vars
             PROVE  \A c \in Calls : Locking(c)'
    OBVIOUS
<1>0. /\ \A d \in Calls : call[d].at \in {"count", "insert"} => call[d].who \in Principals
      /\ \A d \in Calls : d # None
      BY AuthorizationAssumption DEF Fit, Served
<1>1. ASSUME NEW c \in Calls, Step(c) PROVE \A d \in Calls : Locking(d)'
  <2>1. \A d \in Calls \ {c} : Unmoved(d)
        BY <1>1, OthersUnmoved
  <2>2. /\ grants' = grants
        /\ \/ lock' = lock \/ lock' = Unlocked(c)
           \/ lock[call[c].who] = None /\ lock' = [lock EXCEPT ![call[c].who] = c]
    <3>1. CASE Lock(c)
          BY <3>1, Zenon DEF Lock, Waits
    <3>2. CASE Count(c) \/ Insert(c)
          BY <3>2 DEF Count, Insert
    <3>3. CASE CreateVault(c) \/ Assign(c) \/ Remove(c) \/ Purge(c) \/ Unpolicy(c) \/ Unassign(c)
          BY <3>3 DEF CreateVault, Assign, Remove, Purge, Unpolicy, Unassign
    <3>4. CASE \/ Begin(c) \/ ReadPolicies(c) \/ ReadRoles(c) \/ ReadGrant(c) \/ Use(c)
               \/ Find(c) \/ Get(c)
          BY <3>4, Zenon DEF Begin, ReadPolicies, ReadRoles, ReadGrant, Use, Find, Get, tables
    <3>5. QED
          BY <1>1, <3>1, <3>2, <3>3, <3>4 DEF Step
  <2>3. ASSUME NEW d \in Calls \ {c}, call[d].at \in {"count", "insert"}
        PROVE  lock'[call[d].who] = d
        BY <1>0, <2>2, <2>3 DEF TypeOK, Locking, Unlocked
  <2>4. \A d \in Calls \ {c} : Locking(d)'
        BY <2>1, <2>2, <2>3, LockStays
  <2>5. Locking(c)'
    <3>1. CASE call'[c].at \notin {"count", "insert"}
          BY <3>1 DEF Locking
    <3>2. CASE call'[c].at \in {"count", "insert"}
      <4>1. CASE Lock(c)
        <5>1. ~Goto(c, "done")
              BY <3>2, StagesGiven, WentTo
        <5>2. /\ call'[c].who = call[c].who /\ call'[c].at = "count"
              /\ call'[c].quota = grants[call[c].who]
              BY <3>2, <4>1, <5>1, LearnStep
        <5>3. /\ lock' = [lock EXCEPT ![call[c].who] = c] /\ grants[call[c].who] # None
              /\ call[c].at = "lock"
              BY <4>1, <5>1, Zenon DEF Lock
        <5>4. call[c].who \in Principals
              BY <5>3 DEF Fit, Served
        <5>5. QED
              BY <2>2, <5>2, <5>3, <5>4 DEF Locking, TypeOK
      <4>2. CASE Count(c)
        <5>1. PICK stage \in {"done", "insert"} :
                Goto(c, stage) /\ (stage = "insert" => lock' = lock) /\ call[c].at = "count"
              BY <4>2, Zenon DEF Count
        <5>2. stage \in Stages
              BY StagesGiven
        <5>3. stage = "insert"
              BY <3>2, <5>1, <5>2, WentTo
        <5>4. call'[c].who = call[c].who /\ call'[c].quota = call[c].quota
              BY <5>1, <5>2, <5>3, Moved
        <5>5. QED
              BY <2>2, <5>1, <5>3, <5>4 DEF Locking
      <4>3. CASE ~Lock(c) /\ ~Count(c)
        <5>1. call'[c].at \notin {"count", "insert"}
              BY <1>1, <4>3, NotCreating
        <5>2. QED
              BY <3>2, <5>1
      <4>4. QED
            BY <4>1, <4>2, <4>3
    <3>3. QED
          BY <3>1, <3>2
  <2>6. QED
        BY <2>4, <2>5
<1>2. CASE Change
  <2>1. CASE AddPolicy \/ DropPolicy \/ DeleteUser
    <3>1. lock' = lock
          BY <2>1 DEF AddPolicy, DropPolicy, DeleteUser
    <3>2. \A d \in Calls : Unmoved(d)
          BY <1>2, OthersUnmoved
    <3>3. \A p \in Principals : lock[p] # None => grants'[p] = grants[p]
          BY <2>1 DEF AddPolicy, DropPolicy, DeleteUser, TypeOK
    <3>4. QED
          BY <1>0, <3>1, <3>2, <3>3, LockStays DEF Locking
  <2>2. CASE SetGrant
    <3>1. /\ call' = call /\ lock' = lock
          /\ \A p \in Principals : lock[p] # None => grants'[p] = grants[p]
          BY <2>2 DEF SetGrant, TypeOK
    <3>2. QED
          BY <1>0, <3>1 DEF Locking
  <2>3. QED
        BY <1>2, <2>1, <2>2 DEF Change
<1>3. CASE UNCHANGED vars
      BY <1>3 DEF vars, Locking
<1>4. QED
      BY <1>1, <1>2, <1>3 DEF Next

-----------------------------------------------------------------------------
(* What was created within a quota.                                        *)

\* There is no more of it than there are vaults.
LEMMA Counted ==
  ASSUME TypeOK, NEW p
  PROVE  IsFiniteSet(Within(p)) /\ Cardinality(Within(p)) \in Nat
<1>1. Within(p) \subseteq Vaults
      BY DEF Within, TypeOK
<1>2. IsFiniteSet(Within(p))
      BY <1>1, AuthorizationAssumption, FS_Subset
<1>3. QED
      BY <1>2, FS_CardinalityType

\* A creation within a quota: the transaction that has counted inserts v.
Fills(c, p, v) ==
  /\ call[c].at = "insert" /\ call[c].who = p /\ Step(c)
  /\ Within(p)' = Within(p) \cup {v}

\* A vault that was created within a quota is never free again, and what a
\* principal holds of that kind grows only as its own creation inserts.
LEMMA WithinNext ==
  ASSUME TypeOK, Fit, \A v \in bounded : vaults[v] # None, [Next]_vars
  PROVE  /\ \A v \in bounded' : vaults'[v] # None
         /\ \A p \in Principals : \/ Within(p)' \subseteq Within(p)
                                  \/ \E c \in Calls, v \in Vaults : Fills(c, p, v)
<1>0. vaults \in [Vaults -> Principals \cup {None, Gone}] /\ bounded \subseteq Vaults
      BY DEF TypeOK
<1>a. None \notin Principals /\ Gone \notin Principals /\ None # Gone
      BY AuthorizationAssumption
<1> DEFINE Kept == /\ \A v \in bounded' : vaults'[v] # None
                   /\ \A p \in Principals : Within(p)' \subseteq Within(p)
<1>1. ASSUME bounded' = bounded,
             \A v \in bounded : vaults'[v] = vaults[v] \/ vaults'[v] = Gone
      PROVE  Kept
      BY <1>0, <1>a, <1>1 DEF Within
<1>2. ASSUME NEW v \in Vaults, NEW p \in Principals, vaults[v] = None,
             vaults' = [vaults EXCEPT ![v] = p], bounded' = bounded
      PROVE  Kept
  <2>1. v \notin bounded
        BY <1>2
  <2>2. \A w \in bounded : vaults'[w] = vaults[w]
        BY <1>0, <1>2, <2>1
  <2>3. QED
        BY <1>1, <1>2, <2>2
<1> DEFINE Grows(c) ==
      /\ \A v \in bounded' : vaults'[v] # None
      /\ \A p \in Principals : \/ Within(p)' \subseteq Within(p)
                               \/ \E v \in Vaults : Fills(c, p, v)
<1>3. ASSUME NEW c \in Calls, Step(c)
      PROVE  Kept \/ Grows(c)
  <2>0. Served(c)
        BY DEF Fit
  <2>1. CASE Insert(c)
    <3>1. PICK p \in Principals : p = call[c].who
          BY <2>0, <2>1 DEF Insert, Served
    <3>2. CASE UNCHANGED <<vaults, bounded>>
          BY <1>1, <3>2
    <3>3. ASSUME NEW v \in Vaults, vaults[v] = None,
                 vaults' = [vaults EXCEPT ![v] = p],
                 bounded' = bounded \cup IF call[c].at = "insert" THEN {v} ELSE {}
          PROVE  Kept \/ Grows(c)
      <4>1. CASE call[c].at # "insert"
        <5>1. bounded' = bounded
              BY <3>3, <4>1
        <5>2. QED
              BY <1>2, <3>1, <3>3, <5>1
      <4>2. CASE call[c].at = "insert"
        <5>1. bounded' = bounded \cup {v} /\ v \notin bounded
              BY <3>3, <4>2
        <5>2. vaults'[v] = p /\ \A w \in bounded : vaults'[w] = vaults[w]
              BY <1>0, <3>3, <5>1
        <5>3. \A w \in bounded' : vaults'[w] # None
              BY <1>a, <3>1, <5>1, <5>2
        <5>4. Within(p)' = Within(p) \cup {v}
              BY <5>1, <5>2 DEF Within
        <5>5. \A q \in Principals : q # p => Within(q)' \subseteq Within(q)
              BY <5>1, <5>2 DEF Within
        <5>6. Fills(c, p, v)
              BY <1>3, <3>1, <4>2, <5>4 DEF Fills
        <5>7. QED
              BY <5>3, <5>5, <5>6
      <4>3. QED
            BY <4>1, <4>2
    <3>4. QED
          BY <2>1, <3>1, <3>2, <3>3, Zenon DEF Insert
  <2>2. CASE CreateVault(c)
    <3>1. bounded' = bounded /\ call[c].who \in Principals
          BY <2>2, AuthorizationAssumption DEF CreateVault
    <3>2. CASE vaults' = vaults
          BY <1>1, <3>1, <3>2
    <3>3. CASE \E v \in Vaults : vaults[v] = None /\ vaults' = [vaults EXCEPT ![v] = call[c].who]
          BY <1>2, <3>1, <3>3
    <3>4. QED
          BY <2>2, <3>2, <3>3 DEF CreateVault
  <2>3. CASE Purge(c)
    <3>1. /\ bounded' = bounded
          /\ vaults' = vaults \/ vaults' = [vaults EXCEPT ![call[c].vault] = Gone]
          BY <2>3 DEF Purge
    <3>2. QED
          BY <1>0, <1>1, <3>1
  <2>4. CASE ~Insert(c) /\ ~CreateVault(c) /\ ~Purge(c)
    <3>1. UNCHANGED <<vaults, bounded>>
      <4>1. CASE Lock(c) \/ Count(c)
            BY <4>1 DEF Lock, Count
      <4>2. CASE Assign(c) \/ Remove(c) \/ Unpolicy(c) \/ Unassign(c)
            BY <4>2 DEF Assign, Remove, Unpolicy, Unassign
      <4>3. CASE \/ Begin(c) \/ ReadPolicies(c) \/ ReadRoles(c) \/ ReadGrant(c) \/ Use(c)
                 \/ Find(c) \/ Get(c)
            BY <4>3, Zenon DEF Begin, ReadPolicies, ReadRoles, ReadGrant, Use, Find, Get, tables
      <4>4. QED
            BY <1>3, <2>4, <4>1, <4>2, <4>3 DEF Step
    <3>2. QED
          BY <1>1, <3>1
  <2>5. QED
        BY <2>1, <2>2, <2>3, <2>4
<1>4. CASE Change \/ UNCHANGED vars
  <2>1. UNCHANGED <<vaults, bounded>>
        BY <1>4 DEF Change, AddPolicy, DropPolicy, SetGrant, DeleteUser, vars
  <2>2. QED
        BY <1>1, <2>1
<1>5. QED
      BY <1>3, <1>4 DEF Next

\* A principal holds no more than it held, or one more.
LEMMA Counts ==
  ASSUME TypeOK, TypeOK', NEW p
  PROVE  /\ Cardinality(Within(p)) \in Nat /\ Cardinality(Within(p)') \in Nat
         /\ Within(p)' \subseteq Within(p) => Cardinality(Within(p)') <= Cardinality(Within(p))
         /\ \A v : Within(p)' = Within(p) \cup {v} =>
                     Cardinality(Within(p)') <= Cardinality(Within(p)) + 1
<1>0. Cardinality(Within(p)') \in Nat
  <2>1. Within(p)' \subseteq Vaults
        BY DEF Within, TypeOK
  <2>2. QED
        BY <2>1, AuthorizationAssumption, FS_Subset, FS_CardinalityType
<1>1. IsFiniteSet(Within(p)) /\ Cardinality(Within(p)) \in Nat
      BY Counted
<1>2. Within(p)' \subseteq Within(p) => Cardinality(Within(p)') <= Cardinality(Within(p))
      BY <1>1, FS_Subset
<1>3. ASSUME NEW v, Within(p)' = Within(p) \cup {v}
      PROVE  Cardinality(Within(p)') <= Cardinality(Within(p)) + 1
  <2>1. Cardinality(Within(p) \cup {v}) =
          IF v \in Within(p) THEN Cardinality(Within(p)) ELSE Cardinality(Within(p)) + 1
        BY <1>1, FS_AddElement
  <2>2. QED
        BY <1>1, <1>3, <2>1
<1>4. QED
      BY <1>0, <1>1, <1>2, <1>3

\* A creation that has counted is not overtaken: another one of its principal
\* waits for the row of the grant (Lock).
LEMMA RoomNext ==
  TypeOK /\ TypeOK' /\ Fit /\ Chained /\ Room /\ (\A c \in Calls : Locking(c)) /\ [Next]_vars =>
    Room'
<1> SUFFICES ASSUME TypeOK, TypeOK', Fit, Chained, Room, \A c \in Calls : Locking(c), [Next]_vars
             PROVE  Room'
    OBVIOUS
<1>1. /\ \A v \in bounded' : vaults'[v] # None
      /\ \A p \in Principals : \/ Within(p)' \subseteq Within(p)
                               \/ \E c \in Calls, v \in Vaults : Fills(c, p, v)
      BY WithinNext DEF Room
<1>2. ASSUME NEW d \in Calls, NEW p \in Principals, call'[d].at = "insert", call'[d].who = p
      PROVE  Cardinality(Within(p)') < call'[d].quota
  <2>1. CASE Unmoved(d)
    <3>1. call[d].at = "insert" /\ call[d].who = p /\ call'[d].quota = call[d].quota
          BY <1>2, <2>1 DEF Unmoved
    <3>2. lock[p] = d /\ Cardinality(Within(p)) < call[d].quota
          BY <3>1 DEF Locking, Room
    <3>3. ASSUME NEW c \in Calls, NEW v \in Vaults, Fills(c, p, v)
          PROVE  FALSE
      <4>1. lock[p] = c /\ Insert(c)
        <5>1. call[c].at = "insert" /\ call[c].who = p /\ Step(c)
              BY <3>3 DEF Fills
        <5>2. QED
              BY <5>1 DEF Locking, Step, Begin, ReadPolicies, ReadRoles, ReadGrant, Use, Lock,
                          Count, CreateVault, Find, Assign, Get, Remove, Purge, Unpolicy, Unassign
      <4>2. c = d
            BY <3>2, <4>1
      <4>3. Goto(d, "done")
            BY <4>1, <4>2 DEF Insert
      <4>4. call'[d].at = "done"
            BY <4>3, StagesGiven, WentTo
      <4>5. QED
            BY <1>2, <4>4
    <3>4. Within(p)' \subseteq Within(p)
          BY <1>1, <3>3
    <3>5. Cardinality(Within(p)') <= Cardinality(Within(p))
          BY <3>4, Counts
    <3>6. /\ Cardinality(Within(p)') \in Nat /\ Cardinality(Within(p)) \in Nat
          /\ call[d].quota \in Nat
          BY Counts, Fields
    <3>7. QED
          BY <3>1, <3>2, <3>5, <3>6
  <2>2. CASE Step(d) /\ ~Unmoved(d)
    <3>1. Count(d)
      <4>1. CASE Lock(d)
        <5>1. ~Goto(d, "done")
              BY <1>2, StagesGiven, WentTo
        <5>2. QED
              BY <1>2, <4>1, <5>1, LearnStep
      <4>2. CASE ~Lock(d)
            BY <1>2, <2>2, <4>2, NotCreating
      <4>3. QED
            BY <4>1, <4>2
    <3>2. PICK stage \in {"done", "insert"} :
            /\ Goto(d, stage)
            /\ stage = "insert" => Cardinality(Created(call[d].who)) < call[d].quota
          BY <3>1, Zenon DEF Count
    <3>3. stage \in Stages
          BY StagesGiven
    <3>4. stage = "insert"
          BY <1>2, <3>2, <3>3, WentTo
    <3>5. call[d].who = p /\ call'[d].quota = call[d].quota
          BY <1>2, <3>2, <3>3, <3>4, Moved
    <3>6. Within(p)' \subseteq Created(p)
          BY <3>1 DEF Count, Within, Created, TypeOK
    <3>7. IsFiniteSet(Created(p))
          BY AuthorizationAssumption, FS_Subset DEF Created
    <3>8. /\ Cardinality(Within(p)') <= Cardinality(Created(p))
          /\ Cardinality(Within(p)') \in Nat /\ Cardinality(Created(p)) \in Nat
          BY <3>6, <3>7, FS_Subset, FS_CardinalityType
    <3>9. QED
          BY <3>2, <3>4, <3>5, <3>8, Fields
  <2>3. QED
        BY <2>1, <2>2, OthersUnmoved DEF Next
<1>3. \A d \in Calls : call'[d].at = "insert" => call'[d].who \in Principals
      BY FitNext DEF Fit, Served
<1>4. QED
      BY <1>1, <1>2, <1>3 DEF Room

-----------------------------------------------------------------------------
(* The theorems.                                                           *)

\* The invariant holds at the start.
LEMMA Start == Init => IInv
<1> SUFFICES ASSUME Init PROVE IInv
    OBVIOUS
<1>1. call = [c \in Calls |-> Resting("idle")] /\ bounded = {}
      BY DEF Init
<1>2. Resting("idle") \in CallStates /\ Resting("idle").at = "idle" /\ Resting("idle").denied = FALSE
      BY DEF Resting, CallStates, Stages, Roles
<1>3. \A c \in Calls : Served(c) /\ Cleared(c) /\ Locking(c)
      BY <1>1, <1>2 DEF Served, Cleared, Locking, LetThrough
<1>4. Room
      BY <1>1, <1>2 DEF Room
<1>5. PICK v \in Vaults, a \in Admins, p \in Principals, role \in Roles :
        \/ vaults = [w \in Vaults |-> None] /\ rows = {}
        \/ /\ vaults = [w \in Vaults |-> IF w = v THEN a ELSE None]
           /\ rows \in {{}, {[id |-> None, who |-> p, role |-> role, vault |-> v, by |-> a]}}
      BY DEF Init
<1>6. a \in Principals
      BY AuthorizationAssumption
<1>7. vaults \in [Vaults -> Principals \cup {None, Gone}]
      BY <1>5, <1>6
<1> DEFINE row == [id |-> None, who |-> p, role |-> role, vault |-> v, by |-> a]
<1>8. row \in Rows /\ row.by \in Admins /\ rows \in {{}, {row}}
      BY <1>5, <1>6 DEF Rows
<1> HIDE DEF row
<1>9. /\ rows \subseteq Rows /\ \A r \in rows : r.by \in Admins
      /\ trusted = {<<r.who, r.vault>> : r \in rows}
      BY <1>8 DEF Init
<1>10. /\ \A r \in rows : <<r.who, r.vault>> \in trusted
       /\ trusted \subseteq Principals \X Vaults
       BY <1>9 DEF Rows
<1>11. Chained
       BY <1>9, <1>10 DEF Chained, Init
<1>12. /\ users \subseteq Principals /\ changes \in 0..MaxChanges /\ policies \subseteq Policies
       /\ grants \in [Principals -> Quotas \cup {None}]
       /\ lock \in [Principals -> Calls \cup {None}]
       BY AuthorizationAssumption DEF Init
<1>13. TypeOK
       BY <1>1, <1>2, <1>7, <1>9, <1>10, <1>12 DEF TypeOK
<1>14. QED
       BY <1>3, <1>4, <1>11, <1>13 DEF IInv

\* And every step keeps it.
LEMMA Inductive == IInv /\ [Next]_vars => IInv'
<1> SUFFICES ASSUME IInv, [Next]_vars PROVE IInv'
    OBVIOUS
<1>1. TypeOK /\ Chained /\ Room /\ Fit /\ \A c \in Calls : Locking(c)
      BY DEF IInv, Fit, TypeOK
<1>2. Fit' /\ Chained'
      BY <1>1, FitNext, ChainedNext
<1>3. TypeOK'
      BY <1>1, <1>2, TablesTyped DEF TypeOK, Fit
<1>4. Room' /\ \A c \in Calls : Locking(c)'
      BY <1>1, <1>3, LockingNext, RoomNext
<1>5. QED
      BY <1>2, <1>3, <1>4 DEF IInv, Fit

LEMMA Invariant == Spec => []IInv
BY Start, Inductive, PTL DEF Spec

\* Every variable keeps its type.
THEOREM TypeCorrect == Spec => []TypeOK
<1>1. IInv => TypeOK
      BY DEF IInv
<1>2. QED
      BY <1>1, Invariant, PTL

\* Nobody is let through to a vault, or holds a role in it, but along a chain
\* of trust from an administrator or its creator, whatever is granted, denied,
\* removed and purged between the reads of a decision and what it leads to
\* (CanManageVault, CanManageRoleAssignments, RequireDataPlaneAccess).
THEOREM EntitledAlways == Spec => []Entitled
<1>1. IInv => Entitled
  <2> SUFFICES ASSUME IInv PROVE Entitled
      OBVIOUS
  <2>1. Chained /\ \A c \in Calls : Cleared(c)
        BY DEF IInv
  <2>2. \A c \in Calls : LetThrough(c) /\ Decidable(c) =>
          /\ <<call[c].who, call[c].vault>> \in trusted
          /\ call[c].op # "purge" /\ ~call[c].failed => ~call[c].denied
        BY <2>1 DEF Cleared
  <2>3. QED
        BY <2>1, <2>2 DEF Entitled, Chained, Decidable
<1>2. QED
      BY <1>1, Invariant, PTL

\* However many creations of a principal run at once, each leaves it within
\* the quota of its grant: the count and the insertion are one transaction
\* that holds the row of the grant (LockAndReadQuotaTx).
THEOREM QuotasKept == Spec => QuotaKept
<1>1. ASSUME IInv, [Next]_vars, NEW p \in Principals,
             Cardinality(Within(p)') > Cardinality(Within(p))
      PROVE  grants[p] # None /\ Cardinality(Within(p)') <= grants[p]
  <2>0. /\ TypeOK /\ TypeOK' /\ Chained /\ Room /\ Fit /\ \A c \in Calls : Locking(c)
        /\ \A v \in bounded : vaults[v] # None
        BY <1>1, Inductive DEF IInv, Fit, Room, TypeOK
  <2>1. ~(Within(p)' \subseteq Within(p))
        BY <1>1, <2>0, Counts
  <2>2. PICK c \in Calls, v \in Vaults : Fills(c, p, v)
        BY <1>1, <2>0, <2>1, WithinNext
  <2>3. /\ grants[p] # None /\ grants[p] = call[c].quota
        /\ Cardinality(Within(p)) < call[c].quota
        BY <2>0, <2>2 DEF Fills, Locking, Room
  <2>4. Cardinality(Within(p)') <= Cardinality(Within(p)) + 1
        BY <2>0, <2>2, Counts DEF Fills
  <2>5. call[c].quota \in Nat /\ Cardinality(Within(p)) \in Nat /\ Cardinality(Within(p)') \in Nat
        BY <2>0, Counts, Fields
  <2>6. QED
        BY <2>3, <2>4, <2>5
<1> DEFINE Keeps ==
      \A p \in Principals :
        LET Held(table) == Cardinality({v \in bounded' : table[v] = p})
            held == Cardinality({v \in bounded : vaults[v] = p})
        IN  Held(vaults') > held => grants[p] # None /\ Held(vaults') <= grants[p]
<1>2. IInv /\ [Next]_vars => Keeps
      BY <1>1 DEF Within
<1>3. QED
      BY <1>2, Invariant, PTL DEF Spec, QuotaKept
=============================================================================
