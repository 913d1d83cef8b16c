----------------------------- MODULE AuditChain -----------------------------
(***************************************************************************)
(* The hash-chained audit log and the operations that must not happen      *)
(* without a row in it: appends by every replica under the lock of the     *)
(* head row, WithCritical, retention, backup and restore, and the          *)
(* reconciliation of the head at startup (audit_repository.go, critical.go,*)
(* compliance_report_service.go, audit_chain_head.go, backup.go).          *)
(*                                                                         *)
(* An append transaction is two steps: it takes the head row's lock and    *)
(* reads, and it inserts, advances the head and commits.  A hash is a      *)
(* number given out once, so that a row verifies only against the very row *)
(* it was computed from.  Rows from before the chain, and what an event    *)
(* says, are left out.                                                     *)
(***************************************************************************)
EXTENDS Naturals, FiniteSets

CONSTANTS
    Writers,    \* requests and jobs, of any replica, that append rows
    Replicas,   \* processes that start while others run
    Idle,       \* a writer with nothing to do
    NoTx,       \* no append under way
    NoTip,      \* a replica that is not starting
    Retention,  \* ticks for which PurgeExpiredLogs keeps a row
    MaxRows,    \* bound: rows ever appended
    MaxTime     \* bound: the clock

Row == [seq : Nat \ {0}, hash : Nat \ {0}, prev : Nat, time : Nat]
Head == [seq : Nat, hash : Nat]
Append == [seq : Nat \ {0}, prev : Nat, time : Nat]

\* The record of a request without an attempt row.
NoRow == [seq |-> 0, hash |-> 0, prev |-> 0, time |-> 0]

Kinds == {"event", "critical", "purge"}
Stages == {"attempt", "run", "result"}
Request == [kind : Kinds, stage : Stages, since : Nat, attempt : Row \cup {NoRow}]

ASSUME ChainAssumption ==
    /\ Retention \in Nat
    /\ NoTx \notin Append
    /\ NoTip \notin Head
    /\ Idle \notin Request

VARIABLES
    log,     \* audit_logs
    head,    \* the row of audit_chain_head
    effects, \* the attempt rows of the critical operations that took effect
    req,     \* what each writer is doing
    tx,      \* what each open append transaction has read; it holds the lock
    tip,     \* the newest row, as a starting replica has read it
    saved,   \* the last backup
    hashes,  \* hashes given out so far
    clock    \* the database's clock

chainVars == <<log, head, effects, req, tx, tip, saved, hashes, clock>>

\* Types of the variables.
ChainTypeOK ==
    /\ log \subseteq Row
    /\ head \in Head
    /\ effects \subseteq Row
    /\ req \in [Writers -> Request \cup {Idle}]
    /\ tx \in [Writers -> Append \cup {NoTx}]
    /\ tip \in [Replicas -> Head \cup {NoTip}]
    /\ saved \in [log : SUBSET Row, effects : SUBSET Row]
    /\ hashes \in Nat /\ clock \in Nat

\* A fresh installation: SeedAuditChainHead has created the head.
ChainInit ==
    /\ log = {} /\ effects = {}
    /\ saved = [log |-> {}, effects |-> {}]
    /\ head = [seq |-> 0, hash |-> 0]
    /\ req = [w \in Writers |-> Idle]
    /\ tx = [w \in Writers |-> NoTx]
    /\ tip = [r \in Replicas |-> NoTip]
    /\ hashes = 0 /\ clock = 0

-----------------------------------------------------------------------------
(* AppendChained.                                                          *)

Unlocked == \A w \in Writers : tx[w] = NoTx

\* RecordEvent, also of an operation's result: one row.
ResultRow == [kind |-> "event", stage |-> "result", since |-> 0, attempt |-> NoRow]

\* A purge computes its cutoff; it and WithCritical start with an attempt row.
Start(kind) ==
    CASE kind = "event" -> ResultRow
      [] kind = "critical" -> [kind |-> kind, stage |-> "attempt", since |-> 0, attempt |-> NoRow]
      [] kind = "purge" -> [kind |-> kind, stage |-> "attempt", since |-> clock, attempt |-> NoRow]

Begin(w, kind) ==
    /\ req[w] = Idle
    /\ req' = [req EXCEPT ![w] = Start(kind)]
    /\ UNCHANGED <<log, head, effects, tx, tip, saved, hashes, clock>>

Appending(w) == req[w] # Idle /\ req[w].stage # "run"

\* Mutant: a purge dates its attempt row itself.
Lock_TimeFirst(w) ==
    /\ Appending(w) /\ Unlocked /\ hashes < MaxRows
    /\ tx' = [tx EXCEPT ![w] = [seq |-> head.seq + 1, prev |-> head.hash, 
                               time |-> IF req[w].kind = "purge" THEN req[w].since ELSE clock]]
    /\ UNCHANGED <<log, head, effects, req, tip, saved, hashes, clock>>

\* The no-op UPDATE takes the lock; then the head and the database time.
Lock(w) ==
    /\ Appending(w) /\ Unlocked /\ hashes < MaxRows
    /\ tx' = [tx EXCEPT ![w] = [seq |-> head.seq + 1, prev |-> head.hash, time |-> clock]]
    /\ UNCHANGED <<log, head, effects, req, tip, saved, hashes, clock>>

RowOf(t) == [seq |-> t.seq, hash |-> hashes + 1, prev |-> t.prev, time |-> t.time]

\* After its attempt row a request goes on to run, after its result row it ends.
Recorded(q, row) ==
    IF q.stage = "attempt" THEN [q EXCEPT !.stage = "run", !.attempt = row] ELSE Idle

\* INSERT, which the unique index on seq may refuse, head advance and COMMIT.
Commit(w) ==
    /\ tx[w] # NoTx
    /\ \A r \in log : r.seq # tx[w].seq
    /\ log' = log \cup {RowOf(tx[w])}
    /\ head' = [seq |-> tx[w].seq, hash |-> hashes + 1]
    /\ hashes' = hashes + 1
    /\ req' = [req EXCEPT ![w] = Recorded(req[w], RowOf(tx[w]))]
    /\ tx' = [tx EXCEPT ![w] = NoTx]
    /\ UNCHANGED <<effects, tip, saved, clock>>

\* Mutant: the operation goes on without its attempt row.
Fail_GoesOn(w) ==
    /\ req[w] # Idle
    /\ req' = [req EXCEPT ![w] = IF req[w].stage = "attempt"
                                 THEN [req[w] EXCEPT !.stage = "run"] ELSE Idle]
    /\ tx' = [tx EXCEPT ![w] = NoTx]
    /\ UNCHANGED <<log, head, effects, tip, saved, hashes, clock>>

\* A statement of the append fails and the transaction rolls back: without its
\* attempt row an operation is refused, without its result row it ends.  Or
\* the process dies, wherever it is.
Fail(w) ==
    /\ req[w] # Idle
    /\ req' = [req EXCEPT ![w] = Idle]
    /\ tx' = [tx EXCEPT ![w] = NoTx]
    /\ UNCHANGED <<log, head, effects, tip, saved, hashes, clock>>

-----------------------------------------------------------------------------
(* WithCritical and PurgeExpiredLogs, between their two rows.              *)

Finish(w) == req' = [req EXCEPT ![w] = ResultRow]

Running(w) == req[w] # Idle /\ req[w].stage = "run"

\* A critical operation takes effect, or fails.
Run(w) ==
    /\ Running(w) /\ req[w].kind = "critical"
    /\ effects' \in {effects, effects \cup {req[w].attempt}}
    /\ Finish(w)
    /\ UNCHANGED <<log, head, tx, tip, saved, hashes, clock>>

\* Mutant: the cutoff is the time of the purge.
Expired_Now(r, since) == r.time < since

\* Older than the cutoff, which was computed before the attempt row.
Expired(r, since) == r.time + Retention < since

\* DeleteBefore succeeds, or fails.
Purge(w) ==
    /\ Running(w) /\ req[w].kind = "purge"
    /\ log' \in {log, {r \in log : ~Expired(r, req[w].since)}}
    /\ Finish(w)
    /\ UNCHANGED <<head, effects, tx, tip, saved, hashes, clock>>

-----------------------------------------------------------------------------
(* Startup, backup and restore.                                            *)

Newest(rows) == CHOOSE r \in rows : \A s \in rows : s.seq <= r.seq

\* AuditChainTip.
TipOf(rows) == IF rows = {} THEN [seq |-> 0, hash |-> 0]
               ELSE [seq |-> Newest(rows).seq, hash |-> Newest(rows).hash]

ReadTip(r) ==
    /\ tip[r] = NoTip
    /\ tip' = [tip EXCEPT ![r] = TipOf(log)]
    /\ UNCHANGED <<log, head, effects, req, tx, saved, hashes, clock>>

\* ReconcileAuditChainHead: UPDATE ... WHERE last_seq < ?, which waits for the
\* lock.
Reconcile(r) ==
    /\ tip[r] # NoTip /\ Unlocked
    /\ head' = IF head.seq < tip[r].seq THEN tip[r] ELSE head
    /\ tip' = [tip EXCEPT ![r] = NoTip]
    /\ UNCHANGED <<log, effects, req, tx, saved, hashes, clock>>

\* CreateBackup reads every table in one transaction.
Backup ==
    /\ saved' = [log |-> log, effects |-> effects]
    /\ UNCHANGED <<log, head, effects, req, tx, tip, hashes, clock>>

\* The server is stopped for a restore, as the guide asks.
Stopped == (\A w \in Writers : req[w] = Idle) /\ \A r \in Replicas : tip[r] = NoTip

\* Mutant: the live head is kept.
Restore_HeadStays ==
    /\ Stopped
    /\ log' = saved.log /\ effects' = saved.effects
    /\ UNCHANGED <<head, req, tx, tip, saved, hashes, clock>>

\* RestoreBackup replaces the tables and recomputes the head.
Restore ==
    /\ Stopped
    /\ log' = saved.log /\ effects' = saved.effects
    /\ head' = TipOf(saved.log)
    /\ UNCHANGED <<req, tx, tip, saved, hashes, clock>>

Tick ==
    /\ clock < MaxTime
    /\ clock' = clock + 1
    /\ UNCHANGED <<log, head, effects, req, tx, tip, saved, hashes>>

ChainNext ==
    \/ \E w \in Writers :
        \/ \E kind \in Kinds : Begin(w, kind)
        \/ Lock(w) \/ Commit(w) \/ Fail(w) \/ Run(w) \/ Purge(w)
    \/ \E r \in Replicas : ReadTip(r) \/ Reconcile(r)
    \/ Backup \/ Restore \/ Tick

ChainSpec == ChainInit /\ [][ChainNext]_chainVars

-----------------------------------------------------------------------------
(* Properties.                                                             *)

\* verifyChain's check of a row against the next older one.
Verifies(newer, older) == newer.seq = older.seq + 1 /\ newer.prev = older.hash

Adjacent(newer, older, rows) ==
    older.seq < newer.seq /\ \A r \in rows : ~(older.seq < r.seq /\ r.seq < newer.seq)

\* Every page of the log verifies: however appends, purges, backups, restores
\* and startups interleave, the integrity check finds no break in a log nobody
\* touched.
ChainVerifies ==
    \A newer, older \in log : Adjacent(newer, older, log) => Verifies(newer, older)

\* The head always names the newest row: a purge leaves that row, a startup
\* does not move the head back behind rows appended meanwhile, and a restore
\* moves it to the restored rows, so that no later append is refused.
HeadIsTip == head = TipOf(log)

\* Every critical operation that took effect has its attempt row in the log,
\* until retention ends, across failed appends, purges and restores
\* (WithCritical).
AttemptLogged == \A a \in effects : a \in log \/ a.time + Retention < clock

\* The log by number, for AuditTrail.
ByNumber(rows) == [n \in {r.seq : r \in rows} |-> CHOOSE r \in rows : r.seq = n]

Trail == INSTANCE AuditTrail WITH
    Rows <- Row, trail <- ByNumber(log), copy <- ByNumber(saved.log)

\* The log implements AuditTrail: rows are only ever added after the last one,
\* lost from the oldest end, or put back as a whole from a backup.
KeepsTrail == Trail!TrailSpec
=============================================================================
