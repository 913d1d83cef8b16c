--------------------------- MODULE SecretVersions ---------------------------
(***************************************************************************)
(* The value of one secret, its version rows and its cached view: updates, *)
(* manual and scheduled rotations, soft-deletion, recovery and cached reads*)
(* (internal/services/secrets, internal/services/cache).                   *)
(*                                                                         *)
(* A request is a process, and each SQL statement it runs is a step.  None *)
(* of these operations opens a transaction, and the row is written whole,  *)
(* from the copy the request read.  Values are numbered in the order they  *)
(* are written; encryption keeps them apart and is left out, as are tags,  *)
(* names and audit rows.                                                   *)
(***************************************************************************)
EXTENDS Naturals

CONSTANTS
    Clients,     \* API requests running at the same time
    Scheduler,   \* the rotation scheduler's goroutine
    MaxRequests  \* bound on the requests issued, scheduled rotations included

Actors == Clients \cup {Scheduler}

ASSUME VersionsAssumption == Scheduler \notin Clients /\ MaxRequests \in Nat

VARIABLES
    secret,    \* the row of table secrets
    versions,  \* rows of secret_versions: no constraint makes a version unique
    cached,    \* the secret's view in the secret cache, {} when absent
    due,       \* next_rotation_at has passed
    req,       \* the requests in flight
    held,      \* every version and value the row has had (history)
    fresh,     \* number of the next value
    issued,    \* requests issued so far (bound only)
    mode       \* fixed for a behaviour: whether requests run one at a time,
               \* and whether statements fail and the process restarts

vars == <<secret, versions, cached, due, req, held, fresh, issued, mode>>

Ops == {"update", "rotate", "delete", "recover", "get"}
Stages == {"idle", "read", "archive", "write", "extras", "evict", "schedule", "body",
           "lookup", "load", "fill"}
Wants == {"value", "on", "off"}   \* what an update sets: the value or Enabled
Row == [value : Nat, version : Nat \ {0}, enabled : BOOLEAN, deleted : BOOLEAN]
Version == [version : Nat \ {0}, value : Nat]
Request == [op : Ops \cup {"none"}, at : Stages, want : Wants, snap : Row]

First == [value |-> 0, version |-> 1, enabled |-> TRUE, deleted |-> FALSE]
Idle == [op |-> "none", at |-> "idle", want |-> "value", snap |-> First]

\* The version row a copy of the secret is archived as.
VersionOf(row) == [version |-> row.version, value |-> row.value]

TypeOK ==
    /\ secret \in Row
    /\ versions \subseteq Version
    /\ cached \subseteq Row
    /\ due \in BOOLEAN
    /\ req \in [Actors -> Request]
    /\ held \subseteq Version
    /\ fresh \in Nat
    /\ issued \in 0 .. MaxRequests
    /\ mode \in [serial : BOOLEAN, fails : BOOLEAN]

Init ==
    /\ secret = First
    /\ versions = {}
    /\ cached = {}
    /\ due = FALSE
    /\ req = [a \in Actors |-> Idle]
    /\ held = {VersionOf(First)}
    /\ fresh = 1
    /\ issued = 0
    /\ mode \in [serial : BOOLEAN, fails : BOOLEAN]

Quiet == \A a \in Actors : req[a] = Idle
Goto(a, stage) == req' = [req EXCEPT ![a].at = stage]
Finish(a) == req' = [req EXCEPT ![a] = Idle]

-----------------------------------------------------------------------------
(* How requests begin.                                                     *)

FirstStage(op) == CASE op \in {"update", "rotate"} -> "read"
                    [] op \in {"delete", "recover"} -> "body"
                    [] op = "get" -> "lookup"

Begin(a, op, want) ==
    /\ req[a] = Idle
    /\ issued < MaxRequests
    /\ mode.serial => Quiet
    /\ req' = [req EXCEPT ![a] = [Idle EXCEPT !.op = op, !.at = FirstStage(op), !.want = want]]
    /\ issued' = issued + 1
    /\ UNCHANGED <<secret, versions, cached, due, held, fresh, mode>>

Issue(c) == \/ \E w \in Wants : Begin(c, "update", w)
            \/ \E op \in Ops \ {"update"} : Begin(c, op, "value")

\* performAutomaticRotation, for a secret GetDueRotations lists.
AutoRotate == due /\ Begin(Scheduler, "rotate", "value")

-----------------------------------------------------------------------------
(* UpdateSecret and PerformManualRotation.                                 *)

Read(a) ==
    /\ req[a].at = "read"
    /\ IF secret.deleted THEN Finish(a)
         ELSE req' = [req EXCEPT ![a].snap = secret, ![a].at = "archive"]
    /\ UNCHANGED <<secret, versions, cached, due, held, fresh, issued, mode>>

\* Mutants: the row is archived under the next version's number; a version
\* row that cannot be written is not an error.
Archive_NextNumber(a) ==
    /\ req[a].at = "archive"
    /\ IF secret.deleted THEN versions' = versions /\ Finish(a)
         ELSE /\ versions' = versions \cup {[VersionOf(req[a].snap) EXCEPT !.version = @ + 1]}
              /\ Goto(a, "write")
    /\ UNCHANGED <<secret, cached, due, held, fresh, issued, mode>>
Archive_BestEffort(a) ==
    /\ req[a].at = "archive"
    /\ versions' \in {versions, versions \cup {VersionOf(req[a].snap)}}
    /\ Goto(a, "write")
    /\ UNCHANGED <<secret, cached, due, held, fresh, issued, mode>>

\* CreateVersion, which looks for the secret once more.
Archive(a) ==
    /\ req[a].at = "archive"
    /\ IF secret.deleted THEN versions' = versions /\ Finish(a)
         ELSE versions' = versions \cup {VersionOf(req[a].snap)} /\ Goto(a, "write")
    /\ UNCHANGED <<secret, cached, due, held, fresh, issued, mode>>

\* Mutant: the version number stays.
Updated_SameVersion(r) ==
    [r.snap EXCEPT !.deleted = secret.deleted,
                   !.value = IF r.want = "value" THEN fresh ELSE @,
                   !.enabled = IF r.want = "value" THEN @ ELSE r.want = "on"]

\* applySecretUpdate, and the same fields in replaceSecretValue: the copy with
\* the change and the next version.  deleted_at is not among the columns.
Updated(r) ==
    [r.snap EXCEPT !.version = @ + 1, !.deleted = secret.deleted,
                   !.value = IF r.want = "value" THEN fresh ELSE @,
                   !.enabled = IF r.want = "value" THEN @ ELSE r.want = "on"]

\* UPDATE secrets SET ... WHERE id = ?, without a look at the stored version.
Write(a) ==
    /\ req[a].at = "write"
    /\ secret' = Updated(req[a])
    /\ held' = held \cup {VersionOf(secret')}
    /\ fresh' = fresh + 1
    /\ Goto(a, IF req[a].op = "update" THEN "extras" ELSE "evict")
    /\ UNCHANGED <<versions, cached, due, issued, mode>>

\* Purge protection and tags, which follow the write and may fail.
WriteExtras(a) ==
    /\ req[a].at = "extras"
    /\ Goto(a, "evict")
    /\ UNCHANGED <<secret, versions, cached, due, held, fresh, issued, mode>>

\* DeleteByID, by CachedSecretService after the operation has succeeded, or by
\* the rotation itself.
Evict(a) ==
    /\ req[a].at = "evict"
    /\ cached' = {}
    /\ IF req[a].op = "rotate" THEN Goto(a, "schedule") ELSE Finish(a)
    /\ UNCHANGED <<secret, versions, due, held, fresh, issued, mode>>

\* UpdateSecretPolicyRotation.  A failure is logged: the secret stays due.
Reschedule(a) ==
    /\ req[a].at = "schedule"
    /\ due' = FALSE
    /\ Finish(a)
    /\ UNCHANGED <<secret, versions, cached, held, fresh, issued, mode>>

-----------------------------------------------------------------------------
(* DeleteSecret, RecoverSecret and GetSecret.                              *)

SoftDelete(a) ==
    /\ req[a].at = "body" /\ req[a].op = "delete"
    /\ IF secret.deleted THEN secret' = secret /\ Finish(a)
         ELSE secret' = [secret EXCEPT !.deleted = TRUE] /\ Goto(a, "evict")
    /\ UNCHANGED <<versions, cached, due, held, fresh, issued, mode>>

Recover(a) ==
    /\ req[a].at = "body" /\ req[a].op = "recover"
    /\ IF ~secret.deleted THEN secret' = secret /\ Finish(a)
         ELSE secret' = [secret EXCEPT !.deleted = FALSE] /\ Goto(a, "evict")
    /\ UNCHANGED <<versions, cached, due, held, fresh, issued, mode>>

Accessible(row) == ~row.deleted /\ row.enabled

\* A hit is checked again; an entry that is not accessible is evicted.
Lookup(a) ==
    /\ req[a].at = "lookup"
    /\ IF \E row \in cached : Accessible(row)
         THEN cached' = cached /\ Finish(a)
         ELSE cached' = {} /\ Goto(a, "load")
    /\ UNCHANGED <<secret, versions, due, held, fresh, issued, mode>>

Load(a) ==
    /\ req[a].at = "load"
    /\ IF Accessible(secret)
         THEN req' = [req EXCEPT ![a].snap = secret, ![a].at = "fill"]
         ELSE Finish(a)
    /\ UNCHANGED <<secret, versions, cached, due, held, fresh, issued, mode>>

Fill(a) ==
    /\ req[a].at = "fill"
    /\ cached' = {req[a].snap}
    /\ Finish(a)
    /\ UNCHANGED <<secret, versions, due, held, fresh, issued, mode>>

CacheExpire ==
    /\ cached # {} /\ cached' = {}
    /\ UNCHANGED <<secret, versions, due, req, held, fresh, issued, mode>>

-----------------------------------------------------------------------------
(* Failures, time, and the whole.                                          *)

Fail(a) ==
    /\ mode.fails
    /\ req[a].at \in {"read", "archive", "write", "extras", "schedule", "body", "load"}
    /\ Finish(a)
    /\ UNCHANGED <<secret, versions, cached, due, held, fresh, issued, mode>>

\* The process dies, and with it its requests and its cache.
Restart ==
    /\ mode.fails
    /\ ~Quiet \/ cached # {}
    /\ req' = [a \in Actors |-> Idle]
    /\ cached' = {}
    /\ UNCHANGED <<secret, versions, due, held, fresh, issued, mode>>

BecomeDue ==
    /\ ~due /\ due' = TRUE
    /\ UNCHANGED <<secret, versions, cached, req, held, fresh, issued, mode>>

Step(a) ==
    \/ Read(a) \/ Archive(a) \/ Write(a) \/ WriteExtras(a) \/ Evict(a) \/ Reschedule(a)
    \/ SoftDelete(a) \/ Recover(a) \/ Lookup(a) \/ Load(a) \/ Fill(a) \/ Fail(a)

Next ==
    \/ \E c \in Clients : Issue(c)
    \/ AutoRotate
    \/ \E a \in Actors : Step(a)
    \/ CacheExpire \/ Restart \/ BecomeDue

Spec == Init /\ [][Next]_vars

-----------------------------------------------------------------------------
(* Properties.                                                             *)

\* A version row tells the truth: the secret did have that value at that
\* version, however updates and rotations overlap, fail or restart
\* (CreateVersion is given the version and value of one read).
ArchivedIsTrue == versions \subseteq held

\* What rotation_service.go:146 speaks of: "rotation must never overwrite a
\* secret it has not first written to a version row".  Requests that overlap
\* do; what keeps and what is lost is stated below.
Overwrites == secret'.value # secret.value

\* What no interleaving breaks: a writer has archived the copy it read before
\* it writes (UpdateSecret, replaceSecretValue).
WriterArchives ==
    \A a \in Actors : req[a].at = "write" => VersionOf(req[a].snap) \in versions

\* Requests that run one at a time lose no value, though they fail half-way
\* and the process restarts.
SerialArchivedFirst == [][mode.serial /\ Overwrites => VersionOf(secret) \in versions]_vars

\* Requests that run one at a time give a version number to one value only,
\* retries after a failure included (GetVersion answers with any row).
SerialVersionsDistinct ==
    mode.serial => \A x, y \in versions \cup {VersionOf(secret)} :
                       x.version = y.version => x = y

\* With requests one at a time, only an update that says so enables a secret
\* again or disables it: no rotation does.
SerialEnabledKept ==
    [][mode.serial /\ secret'.enabled # secret.enabled =>
         \E a \in Actors : req[a].op = "update" /\ req[a].want # "value"]_vars

\* With requests one at a time and none failing, the cached view is the row
\* (CachedSecretService, invalidateCache).
SerialCacheFresh ==
    mode.serial /\ ~mode.fails /\ Quiet => cached \subseteq {secret}
=============================================================================
