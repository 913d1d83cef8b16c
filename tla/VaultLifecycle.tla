--------------------------- MODULE VaultLifecycle ---------------------------
(***************************************************************************)
(* The life of a vault and of the secrets, keys and certificates it holds: *)
(* create, protect, soft-delete with cascade, recover with cascade, purge, *)
(* and the daily purge scheduler (internal/services/vaults,                *)
(* internal/repositories/item_lifecycle.go, internal/services/softdelete). *)
(*                                                                         *)
(* A request is a process.  Every SQL statement that stands alone is a     *)
(* step of its own; the statements of one transaction are one step.        *)
(* Instants are natural numbers.  A statement that stamps a row moves the  *)
(* clock on, as no two statements read the same nanosecond.                *)
(***************************************************************************)
EXTENDS Naturals, Sequences

CONSTANTS
    Vaults,                \* vaults other than the default one, whose name
                           \* DeleteVault and PurgeVault refuse at once
    Items,                 \* rows of the three content tables
    VaultOf,               \* the vault_id of each item
    TableOf,               \* the content table (1..3) of each item
    Clients,               \* API or CLI requests running at the same time
    Scheduler,             \* the purge scheduler's goroutine
    Existing,              \* vaults and items there when the instance starts
    NoVault, NoItem,       \* "no value" in an idle request
    GlobalPurgeProtection, \* soft_delete.purge_protection
    RetentionDays,         \* soft_delete.retention_days
    VaultRetention,        \* retention_days of each vault, 0 when unset
    SchedulerOn,           \* whether the scheduler runs in this instance
    MayFail,               \* whether requests may fail half-way, and restarts
    Serial,                \* bound: one request or sweep at a time
    Workload,              \* operations the clients issue in this instance
    MaxRequests,           \* bound on the requests issued
    MaxTime                \* bound on the ticks of the clock

\* The order in which purgeVaultRows and purgeExpired visit the tables.
Tables == 1 .. 3              \* secrets, keys, certificates
LastTable == 3
Dependents == {"policies", "roles", "webhook"}
Actors == Clients \cup {Scheduler}

ItemOps == {"CreateItem", "DeleteItem", "RecoverItem", "PurgeItem", "ProtectItem"}
VaultOps == {"CreateVault", "UpdateVault", "DeleteVault", "RecoverVault", "PurgeVault"}
Ops == ItemOps \cup VaultOps

ASSUME ConstantsAssumption ==
    /\ VaultOf \in [Items -> Vaults]
    /\ TableOf \in [Items -> Tables]
    /\ VaultRetention \in [Vaults -> Nat]
    /\ RetentionDays \in Nat
    /\ MaxTime \in Nat
    /\ MaxRequests \in Nat
    /\ Scheduler \notin Clients
    /\ NoVault \notin Vaults
    /\ NoItem \notin Items
    /\ Existing \subseteq Vaults \cup Items
    /\ Workload \subseteq Ops
    /\ {GlobalPurgeProtection, SchedulerOn, MayFail, Serial} \subseteq BOOLEAN

VARIABLES
    vault,      \* rows of table vaults
    dependents, \* vault-scoped rows of the tables purgeVaultRows clears last
    item,       \* rows of the content tables
    cause,      \* who put the deletion stamp on an item (history)
    cache,      \* vaultcache: the cached purge_protection, {} when absent
    req,        \* the requests in flight
    sweep,      \* where the purge scheduler is
    attempts,   \* "attempt" rows of the audit log
    issued,     \* requests issued so far (bound only)
    now

vars == <<vault, dependents, item, cause, cache, req, sweep, attempts, issued, now>>

Never == 0                    \* deleted_at IS NULL
Row == [phase : {"new", "row", "gone"}, deletedAt : Nat, protected : BOOLEAN]

Stages == {"idle", "lookup", "fill", "body", "protect", "attempt", "check", "erase",
           "write", "evict", "find", "vet", "row", "drop", "contents", "trailing"}
Wants == {"keep", "on", "off"}

Contents(v) == {i \in Items : VaultOf[i] = v}

\* The statements a request of each kind runs.
StagesOf(op) == CASE op \in {"CreateItem", "ProtectItem"} -> {"lookup", "fill", "body", "protect"}
                  [] op \in {"DeleteItem", "RecoverItem"} -> {"lookup", "fill", "body"}
                  [] op = "PurgeItem" -> {"lookup", "fill", "body", "attempt", "check", "erase"}
                  [] op = "CreateVault" -> {"body"}
                  [] op = "UpdateVault" -> {"lookup", "fill", "body", "evict"}
                  [] op = "DeleteVault" -> {"lookup", "fill", "attempt", "write", "evict"}
                  [] op = "RecoverVault" -> {"find", "write", "evict"}
                  [] op = "PurgeVault" -> {"find", "lookup", "fill", "vet", "attempt", "row",
                                           "drop", "contents", "trailing"}

Request == [op : Ops \cup {"none"}, at : Stages, vault : Vaults \cup {NoVault},
            item : Items \cup {NoItem}, want : Wants, prot : BOOLEAN,
            stamp : Nat, table : Tables]
RequestOK(r) == r.at # "idle" =>
    /\ r.op \in Ops /\ r.at \in StagesOf(r.op)
    /\ r.vault \in Vaults
    /\ r.op \in ItemOps => r.item \in Contents(r.vault)

Idle == [op |-> "none", at |-> "idle", vault |-> NoVault, item |-> NoItem,
         want |-> "keep", prot |-> FALSE, stamp |-> Never, table |-> 1]

AttemptRows == ({"delete_vault", "purge_vault"} \X Vaults)
                 \cup ({"purge_item"} \X Items) \cup ({"auto_purge"} \X Tables)

SweepStages == {"idle", "count", "audit", "delete", "list", "vaults"}

TypeOK ==
    /\ vault \in [Vaults -> Row]
    /\ dependents \in [Vaults -> SUBSET Dependents]
    /\ item \in [Items -> Row]
    /\ cause \in [Items -> {"none", "user", "cascade"}]
    /\ cache \in [Vaults -> SUBSET BOOLEAN]
    /\ req \in [Actors -> Request] /\ \A a \in Actors : RequestOK(req[a])
    /\ sweep \in [at : SweepStages, table : Tables, since : Nat, due : SUBSET Vaults]
    /\ attempts \subseteq AttemptRows
    /\ issued \in 0 .. MaxRequests
    /\ now \in Nat \ {0}

-----------------------------------------------------------------------------
(* Predicates on rows, as the WHERE clauses state them.                    *)

Exists(r) == r.phase = "row"
Active(r) == Exists(r) /\ r.deletedAt = Never
SoftDeleted(r) == Exists(r) /\ r.deletedAt # Never
NewRow == [phase |-> "new", deletedAt |-> Never, protected |-> FALSE]
LiveRow == [NewRow EXCEPT !.phase = "row"]
GoneRow == [NewRow EXCEPT !.phase = "gone"]

\* deleted_at IS NOT NULL AND deleted_at < cutoff AND purge_protection = FALSE,
\* where cutoff is the sweep's own start less the global retention.
Expired(r, since) == SoftDeleted(r) /\ ~r.protected /\ r.deletedAt + RetentionDays < since

\* A vault's own retention_days overrides the global one when it is set.
KeepFor(v) == IF VaultRetention[v] > 0 THEN VaultRetention[v] ELSE RetentionDays
VaultDue(v) == /\ SoftDeleted(vault[v]) /\ ~vault[v].protected
               /\ vault[v].deletedAt + KeepFor(v) < now
HasProtectedContent(v, t) == \E i \in Contents(v) :
                                TableOf[i] = t /\ Exists(item[i]) /\ item[i].protected

Init ==
    /\ vault = [v \in Vaults |-> IF v \in Existing THEN LiveRow ELSE NewRow]
    /\ dependents = [v \in Vaults |-> IF v \in Existing THEN Dependents ELSE {}]
    /\ item = [i \in Items |-> IF i \in Existing THEN LiveRow ELSE NewRow]
    /\ cause = [i \in Items |-> "none"]
    /\ cache = [v \in Vaults |-> {}]
    /\ req = [a \in Actors |-> Idle]
    /\ sweep = [at |-> "idle", table |-> 1, since |-> Never, due |-> {}]
    /\ attempts = {}
    /\ issued = 0
    /\ now = 1

-----------------------------------------------------------------------------
(* Steps every request takes.                                              *)

Goto(a, stage) == req' = [req EXCEPT ![a].at = stage]
Finish(a) == req' = [req EXCEPT ![a] = Idle]
At(a, stage, ops) == req[a].at = stage /\ req[a].op \in ops

rows == <<vault, dependents, item, cause>>
others == <<issued, now>>

\* What a request may ask of purge_protection.
WantsOf(op) == CASE op \in {"CreateItem", "CreateVault"} -> {"keep", "on"}
                 [] op = "ProtectItem" -> {"on", "off"}
                 [] op = "UpdateVault" -> Wants
                 [] OTHER -> {"keep"}

\* Item routes and the two vault operations that take an active vault resolve
\* it by name first.  A purge is refused at once under global protection.
FirstStage(op) == CASE op = "CreateVault" -> "body"
                    [] op \in {"RecoverVault", "PurgeVault"} -> "find"
                    [] OTHER -> "lookup"

Quiet == \A a \in Actors : req[a] = Idle

Issue(c) ==
    /\ req[c] = Idle
    /\ Serial => Quiet /\ sweep.at = "idle"
    /\ issued < MaxRequests
    /\ \E op \in Workload :
         /\ ~(GlobalPurgeProtection /\ op \in {"PurgeItem", "PurgeVault"})
         /\ \E w \in WantsOf(op), v \in Vaults, i \in Items \cup {NoItem} :
              /\ IF op \in ItemOps THEN i \in Contents(v) ELSE i = NoItem
              /\ req' = [req EXCEPT ![c] = [Idle EXCEPT !.op = op, !.at = FirstStage(op),
                                               !.vault = v, !.item = i, !.want = w]]
    /\ issued' = issued + 1
    /\ UNCHANGED <<rows, cache, sweep, attempts, now>>

\* Where a request goes on once getByName has answered.
AfterLookup(op) == CASE op = "PurgeVault" -> "vet"
                     [] op = "DeleteVault" -> "attempt"
                     [] OTHER -> "body"

LookupHit(a) ==
    /\ req[a].at = "lookup"
    /\ \E p \in cache[req[a].vault] :
         req' = [req EXCEPT ![a].prot = p, ![a].at = AfterLookup(req[a].op)]
    /\ UNCHANGED <<rows, cache, sweep, attempts, others>>

LookupRead(a) ==
    LET v == req[a].vault IN
    /\ req[a].at = "lookup"
    /\ cache[v] = {}
    /\ Active(vault[v])
    /\ req' = [req EXCEPT ![a].prot = vault[v].protected, ![a].at = "fill"]
    /\ UNCHANGED <<rows, cache, sweep, attempts, others>>

LookupMiss(a) ==
    /\ req[a].at = "lookup"
    /\ cache[req[a].vault] = {}
    /\ ~Active(vault[req[a].vault])
    /\ Finish(a)
    /\ UNCHANGED <<rows, cache, sweep, attempts, others>>

\* vaultCache.Set after the read: the row may have changed in between.
Fill(a) ==
    /\ req[a].at = "fill"
    /\ cache' = [cache EXCEPT ![req[a].vault] = {req[a].prot}]
    /\ Goto(a, AfterLookup(req[a].op))
    /\ UNCHANGED <<rows, sweep, attempts, others>>

CacheExpire(v) ==
    /\ cache[v] # {}
    /\ cache' = [cache EXCEPT ![v] = {}]
    /\ UNCHANGED <<rows, req, sweep, attempts, others>>

\* The audit row that must be durable before a critical operation.
AttemptOf(r) == CASE r.op = "DeleteVault" -> <<"delete_vault", r.vault>>
                  [] r.op = "PurgeVault" -> <<"purge_vault", r.vault>>
                  [] OTHER -> <<"purge_item", r.item>>
AfterAttempt(op) == CASE op = "DeleteVault" -> "write"
                      [] op = "PurgeVault" -> "row"
                      [] OTHER -> "check"

\* Mutant: the operation goes on when the attempt row cannot be written.
RecordAttempt_FailsOpen(a) ==
    /\ req[a].at = "attempt"
    /\ attempts' \in {attempts, attempts \cup {AttemptOf(req[a])}}
    /\ Goto(a, AfterAttempt(req[a].op))
    /\ UNCHANGED <<rows, cache, sweep, others>>

RecordAttempt(a) ==
    /\ req[a].at = "attempt"
    /\ attempts' = attempts \cup {AttemptOf(req[a])}
    /\ Goto(a, AfterAttempt(req[a].op))
    /\ UNCHANGED <<rows, cache, sweep, others>>

-----------------------------------------------------------------------------
(* Secrets, keys and certificates.                                         *)

CreateItem(a) ==
    LET i == req[a].item IN
    /\ At(a, "body", {"CreateItem"})
    /\ IF item[i].phase = "new"
         THEN /\ item' = [item EXCEPT ![i] = LiveRow]
              /\ IF req[a].want = "keep" THEN Finish(a) ELSE Goto(a, "protect")
         ELSE item' = item /\ Finish(a)
    /\ UNCHANGED <<vault, dependents, cause, cache, sweep, attempts, others>>

\* The scoped read that authorises a change of protection.
ReadItem(a) ==
    /\ At(a, "body", {"ProtectItem"})
    /\ IF Active(item[req[a].item]) THEN Goto(a, "protect") ELSE Finish(a)
    /\ UNCHANGED <<rows, cache, sweep, attempts, others>>

\* UPDATE ... SET purge_protection = ? WHERE id = ?
SetPurgeProtection(a) ==
    LET i == req[a].item IN
    /\ req[a].at = "protect"
    /\ item' = IF Exists(item[i])
                 THEN [item EXCEPT ![i].protected = (req[a].want = "on")] ELSE item
    /\ Finish(a)
    /\ UNCHANGED <<vault, dependents, cause, cache, sweep, attempts, others>>

DeleteItem(a) ==
    LET i == req[a].item IN
    /\ At(a, "body", {"DeleteItem"})
    /\ IF Active(item[i])
         THEN /\ item' = [item EXCEPT ![i].deletedAt = now]
              /\ cause' = [cause EXCEPT ![i] = "user"]
              /\ now' = now + 1
         ELSE UNCHANGED <<item, cause, now>>
    /\ Finish(a)
    /\ UNCHANGED <<vault, dependents, cache, sweep, attempts, issued>>

RecoverItem(a) ==
    LET i == req[a].item IN
    /\ At(a, "body", {"RecoverItem"})
    /\ IF SoftDeleted(item[i])
         THEN /\ item' = [item EXCEPT ![i].deletedAt = Never]
              /\ cause' = [cause EXCEPT ![i] = "none"]
         ELSE UNCHANGED <<item, cause>>
    /\ Finish(a)
    /\ UNCHANGED <<vault, dependents, cache, sweep, attempts, others>>

\* softDeletedInScope and the vault's own protection, read fresh.  The item is
\* read again by CheckItem, so the two reads here are one step.
VetItem(a) ==
    LET v == req[a].vault IN
    /\ At(a, "body", {"PurgeItem"})
    /\ IF SoftDeleted(item[req[a].item]) /\ Exists(vault[v]) /\ ~vault[v].protected
         THEN Goto(a, "attempt") ELSE Finish(a)
    /\ UNCHANGED <<rows, cache, sweep, attempts, others>>

\* purgeItem: the status check, then the DELETE in a transaction of its own.
CheckItem(a) ==
    LET i == req[a].item IN
    /\ req[a].at = "check"
    /\ IF SoftDeleted(item[i]) /\ ~item[i].protected THEN Goto(a, "erase") ELSE Finish(a)
    /\ UNCHANGED <<rows, cache, sweep, attempts, others>>

Erase(gone) ==
    /\ item' = [i \in Items |-> IF i \in gone THEN GoneRow ELSE item[i]]
    /\ cause' = [i \in Items |-> IF i \in gone THEN "none" ELSE cause[i]]

EraseItem(a) ==
    /\ req[a].at = "erase"
    /\ Erase({i \in {req[a].item} : Exists(item[i])})
    /\ Finish(a)
    /\ UNCHANGED <<vault, dependents, cache, sweep, attempts, others>>

-----------------------------------------------------------------------------
(* Vaults.                                                                 *)

\* The vault and, for a creator who is not an admin, its two grants.
CreateVault(a) ==
    LET v == req[a].vault IN
    /\ At(a, "body", {"CreateVault"})
    /\ IF vault[v].phase = "new"
         THEN /\ vault' = [vault EXCEPT ![v] = [LiveRow EXCEPT !.protected = (req[a].want = "on")]]
              /\ dependents' \in {[dependents EXCEPT ![v] = g] : g \in {{}, {"policies", "roles"}}}
         ELSE UNCHANGED <<vault, dependents>>
    /\ Finish(a)
    /\ UNCHANGED <<item, cause, cache, sweep, attempts, others>>

\* Mutant: the cached vault is not invalidated after an update.
UpdateVault_NoEvict(a) ==
    LET v == req[a].vault IN
    /\ At(a, "body", {"UpdateVault"})
    /\ vault' = IF Exists(vault[v]) /\ req[a].want # "keep"
                  THEN [vault EXCEPT ![v].protected = (req[a].want = "on")] ELSE vault
    /\ Finish(a)
    /\ UNCHANGED <<dependents, item, cause, cache, sweep, attempts, others>>

\* The UPDATE names the row by id only and writes every column, so it restores
\* the protection the request's snapshot had when it asks for no change.
UpdateVault(a) ==
    LET v == req[a].vault
        p == IF req[a].want = "keep" THEN req[a].prot ELSE req[a].want = "on" IN
    /\ At(a, "body", {"UpdateVault"})
    /\ vault' = IF Exists(vault[v]) THEN [vault EXCEPT ![v].protected = p] ELSE vault
    /\ Goto(a, "evict")
    /\ UNCHANGED <<dependents, item, cause, cache, sweep, attempts, others>>

\* Mutant: the cascade reads the clock again instead of taking the vault's stamp.
SoftDeleteVault_OwnStamp(a) ==
    LET v == req[a].vault
        hit == {i \in Contents(v) : Active(item[i])} IN
    /\ At(a, "write", {"DeleteVault"})
    /\ vault' = IF Active(vault[v]) THEN [vault EXCEPT ![v].deletedAt = now] ELSE vault
    /\ item' = [i \in Items |-> IF i \in hit
                                  THEN [item[i] EXCEPT !.deletedAt = now + 1] ELSE item[i]]
    /\ cause' = [i \in Items |-> IF i \in hit THEN "cascade" ELSE cause[i]]
    /\ now' = now + 2
    /\ Goto(a, "evict")
    /\ UNCHANGED <<dependents, cache, sweep, attempts, issued>>

\* One transaction.  A vault already deleted keeps its stamp, and the cascade
\* stamps with it whatever is active by then; a purged vault rolls back.
SoftDeleteVault(a) ==
    LET v == req[a].vault
        stamp == IF Active(vault[v]) THEN now ELSE vault[v].deletedAt
        hit == {i \in Contents(v) : Active(item[i])} IN
    /\ At(a, "write", {"DeleteVault"})
    /\ IF Exists(vault[v])
         THEN /\ vault' = [vault EXCEPT ![v].deletedAt = stamp]
              /\ item' = [i \in Items |-> IF i \in hit
                                            THEN [item[i] EXCEPT !.deletedAt = stamp] ELSE item[i]]
              /\ cause' = [i \in Items |-> IF i \in hit THEN "cascade" ELSE cause[i]]
              /\ now' = IF Active(vault[v]) THEN now + 1 ELSE now
              /\ Goto(a, "evict")
         ELSE UNCHANGED <<vault, item, cause, now>> /\ Finish(a)
    /\ UNCHANGED <<dependents, cache, sweep, attempts, issued>>

Evict(a) ==
    /\ req[a].at = "evict"
    /\ cache' = [cache EXCEPT ![req[a].vault] = {}]
    /\ Finish(a)
    /\ UNCHANGED <<rows, sweep, attempts, others>>

\* findDeleted.  Only PurgeVault goes on to look for an active vault.
FindDeleted(a) ==
    LET v == req[a].vault IN
    /\ req[a].at = "find"
    /\ IF SoftDeleted(vault[v])
         THEN IF req[a].op = "RecoverVault"
                THEN req' = [req EXCEPT ![a].stamp = vault[v].deletedAt, ![a].at = "write"]
                ELSE req' = [req EXCEPT ![a].prot = vault[v].protected, ![a].at = "vet"]
         ELSE IF req[a].op = "RecoverVault" THEN Finish(a) ELSE Goto(a, "lookup")
    /\ UNCHANGED <<rows, cache, sweep, attempts, others>>

\* Mutant: recovery restores every deleted row of the vault.
RecoverVault_AllContents(a) ==
    LET v == req[a].vault
        hit == {i \in Contents(v) : SoftDeleted(item[i])} IN
    /\ At(a, "write", {"RecoverVault"})
    /\ vault' = IF SoftDeleted(vault[v]) THEN [vault EXCEPT ![v].deletedAt = Never] ELSE vault
    /\ item' = [i \in Items |-> IF i \in hit THEN [item[i] EXCEPT !.deletedAt = Never] ELSE item[i]]
    /\ cause' = [i \in Items |-> IF i \in hit THEN "none" ELSE cause[i]]
    /\ Goto(a, "evict")
    /\ UNCHANGED <<dependents, cache, sweep, attempts, others>>

\* One transaction: the vault if it is still deleted, and the contents that
\* carry the stamp FindDeleted read.
RecoverVault(a) ==
    LET v == req[a].vault
        hit == {i \in Contents(v) : SoftDeleted(item[i]) /\ item[i].deletedAt = req[a].stamp} IN
    /\ At(a, "write", {"RecoverVault"})
    /\ vault' = IF SoftDeleted(vault[v]) THEN [vault EXCEPT ![v].deletedAt = Never] ELSE vault
    /\ item' = [i \in Items |-> IF i \in hit THEN [item[i] EXCEPT !.deletedAt = Never] ELSE item[i]]
    /\ cause' = [i \in Items |-> IF i \in hit THEN "none" ELSE cause[i]]
    /\ Goto(a, "evict")
    /\ UNCHANGED <<dependents, cache, sweep, attempts, others>>

\* The snapshot's protection, then HasProtectedContent one table at a time.
VetVault(a) ==
    LET r == req[a] IN
    /\ r.at = "vet"
    /\ IF r.prot \/ HasProtectedContent(r.vault, r.table)
         THEN Finish(a)
         ELSE req' = [req EXCEPT ![a] = IF r.table = LastTable
                                          THEN [r EXCEPT !.at = "attempt", !.table = 1]
                                          ELSE [r EXCEPT !.table = @ + 1]]
    /\ UNCHANGED <<rows, cache, sweep, attempts, others>>

\* purgeVaultRows, which has no transaction: the row, the cache entry, the
\* three content tables and the dependent tables, a statement each.
PurgeVaultRow(a) ==
    LET v == req[a].vault IN
    /\ req[a].at = "row"
    /\ vault' = IF Exists(vault[v]) THEN [vault EXCEPT ![v] = GoneRow] ELSE vault
    /\ Goto(a, "drop")
    /\ UNCHANGED <<dependents, item, cause, cache, sweep, attempts, others>>

DropCached(a) ==
    /\ req[a].at = "drop"
    /\ cache' = [cache EXCEPT ![req[a].vault] = {}]
    /\ Goto(a, "contents")
    /\ UNCHANGED <<rows, sweep, attempts, others>>

PurgeContents(a) ==
    LET r == req[a] IN
    /\ r.at = "contents"
    /\ Erase({i \in Contents(r.vault) : TableOf[i] = r.table /\ Exists(item[i])})
    /\ req' = [req EXCEPT ![a] = IF r.table = LastTable
                                   THEN [r EXCEPT !.at = "trailing", !.table = 1]
                                   ELSE [r EXCEPT !.table = @ + 1]]
    /\ UNCHANGED <<vault, dependents, cache, sweep, attempts, others>>

DependentTable == <<"policies", "roles", "webhook">>

\* Mutant: the role assignments and the webhook are forgotten.
PurgeDependents_PoliciesOnly(a) ==
    LET r == req[a] IN
    /\ r.at = "trailing"
    /\ dependents' = [dependents EXCEPT ![r.vault] = @ \ {DependentTable[r.table]}]
    /\ Finish(a)
    /\ UNCHANGED <<vault, item, cause, cache, sweep, attempts, others>>

PurgeDependents(a) ==
    LET r == req[a] IN
    /\ r.at = "trailing"
    /\ dependents' = [dependents EXCEPT ![r.vault] = @ \ {DependentTable[r.table]}]
    /\ IF r.table = Len(DependentTable) THEN Finish(a)
         ELSE req' = [req EXCEPT ![a].table = @ + 1]
    /\ UNCHANGED <<vault, item, cause, cache, sweep, attempts, others>>

-----------------------------------------------------------------------------
(* The purge scheduler.                                                    *)

\* Mutant: a sweep ends after the tables and never reaches the vaults.
NextTable_NoVaults == IF sweep.table = LastTable
                        THEN [sweep EXCEPT !.at = "idle", !.table = 1]
                        ELSE [sweep EXCEPT !.at = "count", !.table = @ + 1]

NextTable == IF sweep.table = LastTable
               THEN [sweep EXCEPT !.at = "list", !.table = 1]
               ELSE [sweep EXCEPT !.at = "count", !.table = @ + 1]
ExpiredIn(t) == {i \in Items : TableOf[i] = t /\ Expired(item[i], sweep.since)}

\* purgeExpired skips the whole sweep under global protection.
SweepStart ==
    /\ SchedulerOn /\ ~GlobalPurgeProtection
    /\ sweep.at = "idle"
    /\ Serial => Quiet
    /\ sweep' = [sweep EXCEPT !.at = "count", !.since = now]
    /\ UNCHANGED <<rows, cache, req, attempts, others>>

SweepCount ==
    /\ sweep.at = "count"
    /\ sweep' = IF ExpiredIn(sweep.table) = {} THEN NextTable ELSE [sweep EXCEPT !.at = "audit"]
    /\ UNCHANGED <<rows, cache, req, attempts, others>>

SweepAttempt ==
    /\ sweep.at = "audit"
    /\ attempts' = attempts \cup {<<"auto_purge", sweep.table>>}
    /\ sweep' = [sweep EXCEPT !.at = "delete"]
    /\ UNCHANGED <<rows, cache, req, others>>

\* Mutant: the DELETE relies on the COUNT and takes every deleted row.
SweepDelete_TrustsCount ==
    /\ sweep.at = "delete"
    /\ Erase({i \in Items : TableOf[i] = sweep.table /\ SoftDeleted(item[i])})
    /\ sweep' = NextTable
    /\ UNCHANGED <<vault, dependents, cache, req, attempts, others>>

\* The DELETE evaluates the same WHERE clause again.
SweepDelete ==
    /\ sweep.at = "delete"
    /\ Erase(ExpiredIn(sweep.table))
    /\ sweep' = NextTable
    /\ UNCHANGED <<vault, dependents, cache, req, attempts, others>>

\* A count, an attempt row or a DELETE that fails: on to the next table.
SweepFails ==
    /\ MayFail
    /\ sweep.at \in {"count", "audit", "delete"}
    /\ sweep' = NextTable
    /\ UNCHANGED <<rows, cache, req, attempts, others>>

SweepList ==
    /\ sweep.at = "list"
    /\ sweep' = [sweep EXCEPT !.at = "vaults", !.due = {v \in Vaults : VaultDue(v)}]
    /\ UNCHANGED <<rows, cache, req, attempts, others>>

\* PurgeVault by name, one due vault after the other.
SweepVault(v) ==
    /\ sweep.at = "vaults" /\ v \in sweep.due
    /\ req[Scheduler] = Idle
    /\ req' = [req EXCEPT ![Scheduler] =
                  [Idle EXCEPT !.op = "PurgeVault", !.at = FirstStage("PurgeVault"), !.vault = v]]
    /\ sweep' = [sweep EXCEPT !.due = @ \ {v}]
    /\ UNCHANGED <<rows, cache, attempts, others>>

SweepDone ==
    /\ sweep.at = "vaults" /\ sweep.due = {}
    /\ req[Scheduler] = Idle
    /\ sweep' = [sweep EXCEPT !.at = "idle", !.since = Never]
    /\ UNCHANGED <<rows, cache, req, attempts, others>>

-----------------------------------------------------------------------------
(* Failures, time, and the whole.                                          *)

\* A statement or an audit write fails and the request returns an error.
\* Evicting a cache entry cannot fail.
Fail(a) ==
    /\ MayFail
    /\ req[a].at \notin {"idle", "fill", "evict", "drop"}
    /\ Finish(a)
    /\ UNCHANGED <<rows, cache, sweep, attempts, others>>

\* The process dies: rows and audit rows survive, nothing else does.
Restart ==
    /\ MayFail
    /\ \/ \E a \in Actors : req[a] # Idle
       \/ sweep.at # "idle"
       \/ \E v \in Vaults : cache[v] # {}
    /\ req' = [a \in Actors |-> Idle]
    /\ sweep' = [at |-> "idle", table |-> 1, since |-> Never, due |-> {}]
    /\ cache' = [v \in Vaults |-> {}]
    /\ UNCHANGED <<rows, attempts, others>>

Tick ==
    /\ now <= MaxTime
    /\ now' = now + 1
    /\ UNCHANGED <<rows, cache, req, sweep, attempts, issued>>

Step(a) ==
    \/ LookupHit(a) \/ LookupRead(a) \/ LookupMiss(a) \/ Fill(a) \/ RecordAttempt(a)
    \/ CreateItem(a) \/ ReadItem(a) \/ SetPurgeProtection(a) \/ DeleteItem(a)
    \/ RecoverItem(a) \/ VetItem(a) \/ CheckItem(a) \/ EraseItem(a)
    \/ CreateVault(a) \/ UpdateVault(a) \/ SoftDeleteVault(a) \/ Evict(a)
    \/ FindDeleted(a) \/ RecoverVault(a) \/ VetVault(a)
    \/ PurgeVaultRow(a) \/ DropCached(a) \/ PurgeContents(a) \/ PurgeDependents(a)

Sweep ==
    \/ SweepStart \/ SweepCount \/ SweepAttempt \/ SweepDelete
    \/ SweepList \/ (\E v \in Vaults : SweepVault(v)) \/ SweepDone

Next ==
    \/ \E c \in Clients : Issue(c)
    \/ \E a \in Actors : Step(a) \/ Fail(a)
    \/ Sweep \/ SweepFails
    \/ \E v \in Vaults : CacheExpire(v)
    \/ Restart
    \/ Tick

Spec == Init /\ [][Next]_vars

-----------------------------------------------------------------------------
(* Properties.                                                             *)

\* Nothing is removed, and no vault deleted, that an audit "attempt" row did
\* not announce first, whatever fails or restarts in between (runCritical,
\* WithCritical and auditedPurgeTable write it before they act).
AuditedRemoval ==
    /\ \A v \in Vaults :
         /\ vault[v].phase = "gone" => <<"purge_vault", v>> \in attempts
         /\ SoftDeleted(vault[v]) => <<"delete_vault", v>> \in attempts
    /\ \A i \in Items : item[i].phase = "gone" =>
         \/ <<"purge_item", i>> \in attempts
         \/ <<"purge_vault", VaultOf[i]>> \in attempts
         \/ <<"auto_purge", TableOf[i]>> \in attempts

\* An item its user deleted comes back only by a RecoverItem request for it:
\* a vault's recovery tells the contents it deleted by their stamp
\* (recoverVaultContents, WHERE deleted_at = ?).
UserDeletionStep ==
    \A i \in Items : SoftDeleted(item[i]) /\ cause[i] = "user" /\ Active(item'[i]) =>
        \E a \in Actors : At(a, "body", {"RecoverItem"}) /\ req[a].item = i
UserDeletionSticks == [][UserDeletionStep]_vars

\* The sweep removes no row that was restored, protected, or deleted again
\* more recently than the retention allows, though all of that may happen
\* between its COUNT and its DELETE (auditedPurgeTable).
SweepSparesRecoverable ==
    [][sweep.at = "delete" /\ req' = req => \A i \in Items :
         Exists(item[i]) /\ ~Exists(item'[i]) =>
            SoftDeleted(item[i]) /\ ~item[i].protected
              /\ item[i].deletedAt + RetentionDays < now]_vars

\* With no request in flight, a deleted vault has no active item, each item its
\* cascade deleted bears the vault's stamp, and an active vault has exactly the
\* items deleted that users deleted (softDeleteVault, RecoverVault).
CascadeExact ==
    Quiet => \A i \in Items : Exists(item[i]) =>
        LET v == VaultOf[i] IN
        /\ SoftDeleted(vault[v]) => SoftDeleted(item[i])
        /\ Active(vault[v]) => (SoftDeleted(item[i]) <=> cause[i] = "user")
        /\ Exists(vault[v]) /\ cause[i] = "cascade" => item[i].deletedAt = vault[v].deletedAt

\* With no request in flight, the cached vault is the row (vaultCache is
\* invalidated by every operation that writes the vault).
CacheFresh ==
    Quiet => \A v \in Vaults : cache[v] # {} =>
        Active(vault[v]) /\ cache[v] = {vault[v].protected}

\* With no request in flight, a purged vault has left nothing behind
\* (purgeVaultRows: "or they'd be stranded permanently").
NoStrandedRows ==
    Quiet => \A v \in Vaults : vault[v].phase = "gone" =>
        dependents[v] = {} /\ \A i \in Contents(v) : ~Exists(item[i])

-----------------------------------------------------------------------------
(* Liveness, when no statement fails.  The server keeps running a request  *)
(* it has begun, the ticker keeps starting sweeps, and time passes.        *)

FairSpec == /\ Spec
            /\ \A a \in Actors : WF_vars(Step(a))
            /\ WF_vars(Sweep)
            /\ WF_vars(Tick)

\* A row past its retention does not stay: it is purged, restored or protected
\* (purgeExpired, purgeExpiredVaults).  A vault with a protected item is kept.
ExpiredAreRemoved ==
    /\ \A i \in Items : []<>~Expired(item[i], now)
    /\ \A v \in Vaults :
         []<>~(VaultDue(v) /\ \A t \in Tables : ~HasProtectedContent(v, t))

=============================================================================
