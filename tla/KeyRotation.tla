---------------------------- MODULE KeyRotation -----------------------------
(***************************************************************************)
(* One software key: its row, its version rows and the cache of decrypted  *)
(* material, under rotations by clients and by the rotation executor,      *)
(* crypto operations, exports, updates, deletion and recovery              *)
(* (internal/services/keys, key_repository.go, internal/keycache).         *)
(*                                                                         *)
(* A request is a process and each of its SQL statements is a step: none   *)
(* of these operations opens a transaction.  Material is a number, given   *)
(* out when it is generated.  Revocation, the enabled flag and the validity*)
(* window are one flag, "usable"; scopes, tags, audit rows and HSM keys,   *)
(* which are never cached, are left out.                                   *)
(***************************************************************************)
EXTENDS Naturals, FiniteSets

CONSTANTS
    Clients,     \* API requests running at the same time
    Executor,    \* the RotationExecutor's goroutine
    MaxRequests  \* bound on the requests issued, scheduled rotations included

Actors == Clients \cup {Executor}

ASSUME KeyAssumption == Executor \notin Clients /\ MaxRequests \in Nat

VARIABLES
    key,     \* the row of table keys
    rows,    \* key_versions: the material of each version that has a row
    cached,  \* the key cache: decrypted material by version
    due,     \* the rotation policy's next_rotation_at has passed
    req,     \* the requests in flight
    used,    \* the material each operation used, with the version it answered
    held,    \* every material the row has had (history)
    fresh,   \* the next material
    issued,  \* requests issued so far (bound only)
    mode     \* fixed for a behaviour: whether requests run one at a time,
             \* and whether statements fail and the process restarts

vars == <<key, rows, cached, due, req, used, held, fresh, issued, mode>>

Ops == {"rotate", "sign", "export", "revoke", "restore", "delete", "recover"}
Stages == {"idle", "read", "list", "first", "archive", "write", "evict", "mark", "body",
           "current", "fetch", "fallback", "use"}
Row == [value : Nat, usable : BOOLEAN, deleted : BOOLEAN]
Label == [version : Nat \ {0}, value : Nat]
Use == [op : {"sign", "export"}, is : Label]
Request == [op : Ops \cup {"none"}, at : Stages, version : Nat, value : Nat, snap : Row]

First == [value |-> 0, usable |-> TRUE, deleted |-> FALSE]
Idle == [op |-> "none", at |-> "idle", version |-> 0, value |-> 0, snap |-> First]

TypeOK ==
    /\ key \in Row
    /\ DOMAIN rows \subseteq Nat \ {0} /\ IsFiniteSet(DOMAIN rows)
    /\ \A v \in DOMAIN rows : rows[v] \in Nat
    /\ cached \subseteq Label
    /\ due \in BOOLEAN
    /\ req \in [Actors -> Request]
    /\ used \subseteq Use
    /\ held \subseteq Nat
    /\ fresh \in Nat
    /\ issued \in 0 .. MaxRequests
    /\ mode \in [serial : BOOLEAN, fails : BOOLEAN]

Init ==
    /\ key = First
    /\ rows = [v \in {} |-> 0]
    /\ cached = {}
    /\ due = FALSE
    /\ req = [a \in Actors |-> Idle]
    /\ used = {}
    /\ held = {First.value}
    /\ fresh = 1
    /\ issued = 0
    /\ mode \in [serial : BOOLEAN, fails : BOOLEAN]

Versions == DOMAIN rows
Quiet == \A a \in Actors : req[a] = Idle
Goto(a, stage) == req' = [req EXCEPT ![a].at = stage]
Finish(a) == req' = [req EXCEPT ![a] = Idle]

-----------------------------------------------------------------------------
(* How requests begin.  "version" is the version asked for, 0 the current. *)

Begin(a, op, version) ==
    /\ req[a] = Idle
    /\ issued < MaxRequests
    /\ mode.serial => Quiet
    /\ req' = [req EXCEPT ![a] = [Idle EXCEPT !.op = op, !.version = version,
                                   !.at = IF op \in {"delete", "recover"} THEN "body" ELSE "read"]]
    /\ issued' = issued + 1
    /\ UNCHANGED <<key, rows, cached, due, used, held, fresh, mode>>

Issue(c) == \/ \E op \in {"sign", "export"}, v \in 0 .. 2 : Begin(c, op, v)
            \/ \E op \in Ops \ {"sign", "export"} : Begin(c, op, 0)

\* RotationExecutor.Check, for a key GetDuePolicies lists.
AutoRotate == due /\ ~key.deleted /\ Begin(Executor, "rotate", 0)

-----------------------------------------------------------------------------
(* RotateKey, UpdateKey, DeleteKey and RecoverKey.                         *)

\* The scoped read.  Crypto operations and exports need a usable key;
\* rotation and update do not.
Read(a) ==
    /\ req[a].at = "read"
    /\ IF key.deleted \/ (req[a].op \in {"sign", "export"} /\ ~key.usable) THEN Finish(a)
         ELSE req' = [req EXCEPT ![a].snap = key,
                                 ![a].at = CASE req[a].op = "rotate" -> "list"
                                             [] req[a].op \in {"revoke", "restore"} -> "write"
                                             [] OTHER -> "current"]
    /\ UNCHANGED <<key, rows, cached, due, used, held, fresh, issued, mode>>

\* Mutant: the original is counted whether it has a row or not.
List_CountsOriginal(a) ==
    /\ req[a].at = "list"
    /\ req' = [req EXCEPT ![a].version = Cardinality(Versions) + 2,
                         ![a].at = IF Versions = {} THEN "first" ELSE "archive"]
    /\ UNCHANGED <<key, rows, cached, due, used, held, fresh, issued, mode>>

\* ListVersions: the next version, and whether the original needs a row first.
List(a) ==
    /\ req[a].at = "list"
    /\ req' = IF Versions = {} THEN [req EXCEPT ![a].version = 2, ![a].at = "first"]
              ELSE [req EXCEPT ![a].version = Cardinality(Versions) + 1, ![a].at = "archive"]
    /\ UNCHANGED <<key, rows, cached, due, used, held, fresh, issued, mode>>

\* INSERT INTO key_versions, whose primary key is (key_id, version).
Insert(v, material) == rows' = [u \in Versions \cup {v} |-> IF u = v THEN material ELSE rows[u]]

ArchiveFirst(a) ==
    /\ req[a].at = "first"
    /\ IF 1 \in Versions THEN rows' = rows /\ Finish(a)
         ELSE Insert(1, req[a].snap.value) /\ Goto(a, "archive")
    /\ UNCHANGED <<key, cached, due, used, held, fresh, issued, mode>>

\* Mutant: a row of that version is replaced, as an upsert would.
ArchiveNew_Upsert(a) ==
    /\ req[a].at = "archive"
    /\ Insert(req[a].version, fresh)
    /\ req' = [req EXCEPT ![a].value = fresh, ![a].at = "write"]
    /\ fresh' = fresh + 1
    /\ UNCHANGED <<key, cached, due, used, held, issued, mode>>

\* The new material's row, ahead of the policy lookup and of the key's own.
ArchiveNew(a) ==
    /\ req[a].at = "archive"
    /\ IF req[a].version \in Versions THEN UNCHANGED <<rows, fresh>> /\ Finish(a)
         ELSE /\ Insert(req[a].version, fresh)
              /\ req' = [req EXCEPT ![a].value = fresh, ![a].at = "write"]
              /\ fresh' = fresh + 1
    /\ UNCHANGED <<key, cached, due, used, held, issued, mode>>

\* The row a rotation or an update stores: its copy, with the change.
Updated(r) ==
    [r.snap EXCEPT !.deleted = key.deleted, !.value = IF r.op = "rotate" THEN r.value ELSE @,
                   !.usable = IF r.op = "rotate" THEN @ ELSE r.op = "restore"]

\* UPDATE keys SET value = ?, revoked = ?, enabled = ?, ... WHERE id = ?
Write(a) ==
    /\ req[a].at = "write"
    /\ key' = Updated(req[a])
    /\ held' = held \cup {key'.value}
    /\ Goto(a, "evict")
    /\ UNCHANGED <<rows, cached, due, used, fresh, issued, mode>>

\* keyCache.Invalidate.
Evict(a) ==
    /\ req[a].at = "evict"
    /\ cached' = {}
    /\ IF a = Executor THEN Goto(a, "mark") ELSE Finish(a)
    /\ UNCHANGED <<key, rows, due, used, held, fresh, issued, mode>>

\* MarkRotated.  A failure is logged: the policy stays due.
Mark(a) ==
    /\ req[a].at = "mark"
    /\ due' = FALSE
    /\ Finish(a)
    /\ UNCHANGED <<key, rows, cached, used, held, fresh, issued, mode>>

SoftDelete(a) ==
    /\ req[a].at = "body" /\ req[a].op = "delete"
    /\ IF key.deleted THEN key' = key /\ Finish(a)
         ELSE key' = [key EXCEPT !.deleted = TRUE] /\ Goto(a, "evict")
    /\ UNCHANGED <<rows, cached, due, used, held, fresh, issued, mode>>

Recover(a) ==
    /\ req[a].at = "body" /\ req[a].op = "recover"
    /\ key' = [key EXCEPT !.deleted = FALSE]
    /\ Finish(a)
    /\ UNCHANGED <<rows, cached, due, used, held, fresh, issued, mode>>

-----------------------------------------------------------------------------
(* Crypto operations and exports.                                          *)

\* COALESCE(MAX(version), 1).
CurrentVersion == IF Versions = {} THEN 1 ELSE CHOOSE v \in Versions : \A u \in Versions : u <= v

\* Mutant: an export of the current version takes the copy's material, as a
\* crypto operation does.
Current_CopyForExport(a) ==
    LET v == IF req[a].version = 0 THEN CurrentVersion ELSE req[a].version
    IN  /\ req[a].at = "current"
        /\ IF v = CurrentVersion
             THEN req' = [req EXCEPT ![a].version = v, ![a].value = req[a].snap.value, ![a].at = "use"]
             ELSE req' = [req EXCEPT ![a].version = v, ![a].at = "fetch"]
        /\ UNCHANGED <<key, rows, cached, due, used, held, fresh, issued, mode>>

\* resolveVersionValue takes the current version's material from the copy of
\* the key read before; ExportKey always reads the version's own row.
Current(a) ==
    LET v == IF req[a].version = 0 THEN CurrentVersion ELSE req[a].version
    IN  /\ req[a].at = "current"
        /\ IF req[a].op = "sign" /\ v = CurrentVersion
             THEN req' = [req EXCEPT ![a].version = v, ![a].value = req[a].snap.value, ![a].at = "use"]
             ELSE IF req[a].op = "export" /\ v > CurrentVersion THEN Finish(a)
             ELSE req' = [req EXCEPT ![a].version = v, ![a].at = "fetch"]
        /\ UNCHANGED <<key, rows, cached, due, used, held, fresh, issued, mode>>

\* ReadVersionValue, and its second query for a version 1 without a row.
Fetch(a) ==
    /\ req[a].at = "fetch"
    /\ IF req[a].version \in Versions
         THEN req' = [req EXCEPT ![a].value = rows[req[a].version], ![a].at = "use"]
         ELSE IF req[a].version = 1 THEN Goto(a, "fallback") ELSE Finish(a)
    /\ UNCHANGED <<key, rows, cached, due, used, held, fresh, issued, mode>>

Fallback(a) ==
    /\ req[a].at = "fallback"
    /\ req' = [req EXCEPT ![a].value = key.value, ![a].at = "use"]
    /\ UNCHANGED <<key, rows, cached, due, used, held, fresh, issued, mode>>

LabelOf(r) == [version |-> r.version, value |-> r.value]

\* Mutant: the cache has one entry for a key, whatever the version.
Hits_AnyVersion(r) == {e \in cached : e.version \in Nat}

Hits(r) == {e \in cached : e.version = r.version}

\* resolveKeyMaterial: cached material of that version is used instead of what
\* was resolved, which is cached otherwise.
Sign(a) ==
    /\ req[a].at = "use" /\ req[a].op = "sign"
    /\ \E e \in IF Hits(req[a]) = {} THEN {LabelOf(req[a])} ELSE Hits(req[a]) :
          /\ used' = used \cup {[op |-> "sign", is |-> [LabelOf(req[a]) EXCEPT !.value = e.value]]}
          /\ cached' = cached \cup {e}
    /\ Finish(a)
    /\ UNCHANGED <<key, rows, due, held, fresh, issued, mode>>

\* ExportKey never touches the cache.
Export(a) ==
    /\ req[a].at = "use" /\ req[a].op = "export"
    /\ used' = used \cup {[op |-> "export", is |-> LabelOf(req[a])]}
    /\ Finish(a)
    /\ UNCHANGED <<key, rows, cached, due, held, fresh, issued, mode>>

CacheExpire ==
    /\ \E e \in cached : cached' = cached \ {e}
    /\ UNCHANGED <<key, rows, due, req, used, held, fresh, issued, mode>>

-----------------------------------------------------------------------------
(* Failures, time, and the whole.                                          *)

\* A statement fails.  UpdateKey alone has one between its write and its
\* eviction (SetPurgeProtection).
Fail(a) ==
    /\ mode.fails
    /\ \/ req[a].at \in Stages \ {"idle", "evict", "use"}
       \/ req[a].at = "evict" /\ req[a].op \in {"revoke", "restore"}
    /\ Finish(a)
    /\ UNCHANGED <<key, rows, cached, due, used, held, fresh, issued, mode>>

\* The process dies, and with it its requests and its cache.
Restart ==
    /\ mode.fails
    /\ ~Quiet \/ cached # {}
    /\ req' = [a \in Actors |-> Idle]
    /\ cached' = {}
    /\ UNCHANGED <<key, rows, due, used, held, fresh, issued, mode>>

BecomeDue ==
    /\ ~due /\ due' = TRUE
    /\ UNCHANGED <<key, rows, cached, req, used, held, fresh, issued, mode>>

Step(a) ==
    \/ Read(a) \/ List(a) \/ ArchiveFirst(a) \/ ArchiveNew(a) \/ Write(a) \/ Evict(a) \/ Mark(a)
    \/ SoftDelete(a) \/ Recover(a)
    \/ Current(a) \/ Fetch(a) \/ Fallback(a) \/ Sign(a) \/ Export(a) \/ Fail(a)

Next ==
    \/ \E c \in Clients : Issue(c)
    \/ AutoRotate
    \/ \E a \in Actors : Step(a)
    \/ CacheExpire \/ Restart \/ BecomeDue

Spec == Init /\ [][Next]_vars

-----------------------------------------------------------------------------
(* Properties.                                                             *)

\* Version numbers have no gap, on which numbering by the count of rows rests,
\* however rotations overlap and fail (rotateKeyMaterial: len(versions) + 1).
VersionsContiguous == Versions = 1 .. Cardinality(Versions)

\* No material is lost: what the row has held, it still holds or a version row
\* does, so that what was encrypted with it can be decrypted.
MaterialKept == held \subseteq {key.value} \cup {rows[v] : v \in Versions}

\* The version rows are a history: material is added under the next number,
\* whatever number a rotation read before, and stays there.
History == INSTANCE VersionHistory
           WITH Items <- {"key"}, Versions <- Nat, versions <- [item \in {"key"} |-> rows],
                purged <- {}

\* What a version number stands for never changes and no number is skipped,
\* however rotations overlap, fail and restart (CreateVersion, whose primary key
\* refuses a number that is taken).
HistoryKept == History!HistorySpec

\* An answer is true if the version it names has that material.
IsTrue(l) == IF l.version \in Versions THEN l.value = rows[l.version]
             ELSE l.version = 1 /\ l.value = key.value

\* An exported version that the fallback to keys.value does not answer for is
\* true, however exports and rotations overlap (ExportKey).
ExportsTrue == \A u \in used : u.op = "export" /\ u.is.version > 1 => IsTrue(u.is)

\* The labels are true when requests run one at a time and none fails, in the
\* answers and in the cache.
SerialLabelsTrue ==
    mode.serial /\ ~mode.fails =>
        (\A u \in used : IsTrue(u.is)) /\ (\A e \in cached : IsTrue(e))

\* One at a time, only an update revokes a key or makes it usable again: the
\* whole-row write of a rotation does not.
SerialUsableKept ==
    [][mode.serial /\ key'.usable # key.usable =>
         \E a \in Actors : req[a].op \in {"revoke", "restore"}]_vars
=============================================================================
