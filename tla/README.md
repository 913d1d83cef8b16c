# RocketVault: TLA+ models and proofs

RocketVault is a self-hosted vault for secrets, keys and certificates: a Go
server with a REST API, a CLI and an MCP server, over SQLite or PostgreSQL.
This directory models the parts of it whose correctness depends on the order of
steps: TLC checks the models on small instances, TLAPS proves theorems about
them for every value of the constants. `PROJECT.json` lists the runs, the
source lines behind every definition, the hazards and the theorems.

    tlc -workers 2 -config VaultRaces.cfg MCVaultLifecycle   # one run
    tlapm VaultLifecycleProofs.tla                           # one proof module

## 1. The system

A request passes the middleware (authentication, vault resolution, roles), then
a service, then a repository, which issues SQL statements. Most operations are
several statements without a transaction around them, and several replicas may
share one database, so two requests interleave at the statements. Between
service and repository sit in-process caches, optionally backed by a cache
server shared by the replicas. Four schedulers run in every server: the purge
sweep, secret rotation, key rotation and certificate renewal. Deletions, purges
and key operations are "critical": an attempt row goes into the audit log
before they act.

| Component | State | Operations | What is hard | What makes it correct |
| --- | --- | --- | --- | --- |
| Vault life cycle, purge sweep | rows of vaults, items and dependent tables; vault cache; sweep position | create, update, delete, recover and purge of a vault and of an item; daily sweep | deletion cascades told apart by a time stamp; purges without a transaction; list-then-purge | only what is expired is swept; a recovery brings back what the deletion took; every removal was announced |
| Circuit breaker and retry | state, failure count, trial slots | admit, success, failure, client error, timeout | late outcomes of calls of an earlier period | the cap on trials, the timeout of an open breaker, never stuck |
| Secret versions, rotation, cache | row, version rows, cache, rotation policy | read, update, rotate, delete, recover, scheduled rotation | read-archive-write without a transaction | no value overwritten that no version row holds; rows are true |
| Keys, rotation, crypto, export | row, version rows, key cache, policy | rotate, crypto, export, update, delete, recover | number and material come from different reads | a version label names its material; no material is lost |
| Audit chain, critical operations | log, head, backup copy | append, purge by age, start-up reconciliation, backup, restore | appends of many replicas, failed appends, a restored head | the chain verifies; nothing takes effect unlogged |
| Sessions, TOTP, users, login throttle | account row, sessions, used TOTP step, failure count, tokens | sign-in by password and code or from outside, refresh, validate, revoke, update and delete of a user | sign-in racing a password change; codes used twice; a call repeated after a fault that took effect | a change of user ends every session; one session per code; what ended stays ended |
| Authorization, provisioning grants | policies, role assignments, grants, vaults and their creators | decide, assign and revoke roles, set policies and grants, create within a quota | policies, grants and roles are separate reads; failing lookups; many creations at once | nobody acts who was not entrusted along a chain; the quota is kept |
| Master-key rotation | every sealed column | plan a target, write it in guarded batches | interruptions, two runs, a server that still writes | no plaintext changes; success leaves nothing under the old key; a column is refused as a whole |
| Two-level caches, cache client | first level per process, second level shared and failing | get, set, invalidate, list keys, drop all | copies back from the second level | staleness bounded by both lifetimes |
| Certificates and renewal | certificate and version rows, keys, owner's rights | create, renew, scheduled renewal, version lifecycle, update, delete, recover, purge, export | renewal racing other renewals, updates, purges, revoked keys | versions and exports are true; nothing signed without its grounds; what is due is renewed |
| Scheduler runner | goroutine, stop channel, ticker | start, stop, tick | a restart before the old goroutine has ended | one loop at a time |
| Item backup, signing keys, OAuth2, OIDC, webhooks, middleware, MCP, CLI | see the notes in `PROJECT.json` | | | |

All but the last two rows are modelled. `PROJECT.json` says of every component
what is modelled and what is not; section 8 is the plan for the rest.

The components meet in four places. Every critical operation (deletions,
purges, exports, key operations) writes through the audit chain:
`VaultLifecycle` has the attempt row as a step that may fail, `AuditChain` has
the log. A user's deletion ends sessions (`Sessions`) and removes role
assignments (`Authorization`). Certificates sign with keys that `KeyRotation`
rotates and disables: in `Certificates` that is the environment's step
`Change`. And secrets, keys and vaults are read through caches, which their
modules keep as one level and `TieredCache` as two.

## 2. The modules

| Module | Contents |
| --- | --- |
| `VaultLifecycle`, `MCVaultLifecycle` | vaults and items from creation to purge, the sweep, the vault cache, the audit gate |
| `VaultLifecycleProofs` | types, announced removals, user deletions kept, the sweep's DELETE; cascades, cache and purges when requests take turns |
| `CircuitBreaker` | the breaker with calls in flight |
| `SecretVersions`, `SecretVersionsProofs` | one secret, its version rows, its cache and the rotation scheduler |
| `KeyRotation`, `KeyRotationProofs` | one key, its version rows, its cache, crypto and export, implementing `VersionHistory` |
| `AuditTrail` | what the audit log promises: rows are added at the end, shed from the start, taken and put back by a backup |
| `AuditChain`, `MCAuditChain` | the hash chain that implements it |
| `Sessions`, `MCSessions`, `SessionsProofs` | one account: sign-in, throttle, TOTP steps, sessions, tokens, user update and deletion |
| `Authorization`, `MCAuthorization`, `AuthorizationProofs` | decisions over policies, roles and grants, and the calls that act on them |
| `SealedStore` | what sealed columns promise whatever key seals them |
| `Rekey`, `MCRekey` | the master key rotation that leaves that promise alone |
| `ChainBreakerRekeyProofs` | the theorems about `AuditChain`, `CircuitBreaker` and `Rekey`, which share no state and no name |
| `TieredCache`, `MCTieredCache`, `TieredCacheProofs` | a cache of the process before one on the network |
| `VersionHistory` | what numbered versions promise: they are added, never changed, and purged all at once |
| `Certificates`, `MCCertificates`, `CertificatesProofs` | a CA and certificates it signs, their versions, renewal and export, implementing that history |

The modules share one shape. A request in flight is a record `req[a]` with the
operation, the stage it is at (`at`) and its local variables; a handler is a
chain of actions, one for each statement that other requests can see between.
A transaction, or a single statement, is one action. `Issue` or `Begin` starts
a request, `Finish` is a return, `Fail` an error return from a statement, and
`Restart` a crash, which keeps the tables and forgets requests and caches.
Variables that the code does not have (`cause`, `held`, `used`, `effects`) are
history: no guard of a modelled statement reads them.

**VaultLifecycle.** `vault[v]` and `item[i]` are rows with a phase, a deletion
stamp and the purge-protection flag; `dependents` stands for access policies,
role assignments and the webhook, `cache` for the vault cache. Items live in
the three tables the sweep walks. `LookupHit`, `LookupRead`, `LookupMiss`,
`Fill` are `getByName`; `RecordAttempt` is the row `WithCritical` writes;
`SoftDeleteVault` and `RecoverVault` are their transactions, cascade and stamp
included; `VetVault` to `PurgeDependents` are `PurgeVault` statement by
statement. `SweepStart` to `SweepDone` are the purge scheduler: count, attempt
and DELETE for each table, then the list of due vaults, each purged by the same
service code with the scheduler as its caller. `now` counts days for the
retention; two deletions have different stamps, as they do in nanoseconds.

**CircuitBreaker.** `call[c]` says how a call in flight was admitted, as an
ordinary call or as a trial, and how often it was retried. `Admit` is `admit`;
`PlainSucceeds` to `TrialRejected` are the outcomes `executeClosed` and
`finishHalfOpen` record. Each runs under the mutex and is one action; the
guarded calls between them overlap. Of time, one event is kept: the timeout
since the last failure has passed (`TimeoutElapses`). `mode` says whether errors
are classified and whether a call may outlive the timeout.

**SecretVersions.** An update or rotation reads the row, archives that copy as a
version row, writes the row whole and evicts the cache; a get looks in the
cache, loads and fills. The policy's `due` flag starts rotations by the
scheduler and is cleared by a statement that may fail.

**KeyRotation.** The same for keys, with the differences of the code: versions
are numbered by counting rows, the original is archived first, the new version's
row is written before the key's row. A crypto operation reads the key, then the
current version number, then the cache or the material, and answers with the
version; an export reads the version row and, when there is none, the key.

**AuditChain.** A writer locks the head, reads it, appends the row and moves the
head in one transaction; `Commit` and `Fail` end it. A critical operation
appends its attempt and runs only after the commit. A starting replica reads
the newest row (`ReadTip`) and moves the head forward in a second statement
(`Reconcile`). `Purge` is retention, `Backup` and `Restore` copy the database;
restore requires a stopped server, as the documentation does. A row is its
number, its time, its hash and the hash before; hashes are numbers given
out once, which says that they do not collide.

**Sessions.** A request is a call of one service; each statement is a step.
`Lookup`, `Verify`, `Claim` and `Open` are a sign-in: the throttle's check and
the read of the account, password and code against the copy, the conditional
UPDATE of the TOTP step, the session's row; `Refuse` counts a failure.
`FindSession`, `FindUser`, `Mint` are a refresh; `Read`, `Write`, `Revoke` a
change of the account, which writes the whole row from its copy and ends the
sessions if the password or the roles it read differ. `Repeats` is the retrying
wrapper: a statement that fails, with its effect or without, may make the call
start again. `account.epoch` numbers the changes of password and roles and
`session[s].epoch` is the one a session was opened on; `late` marks a session
whose sign-in had read the account before a change that has happened since,
and `excused` holds the changes whose revocation failed or was skipped.

**Authorization.** A call reads the policies (`ReadPolicies`), then roles
(`ReadRoles`) or the grant (`ReadGrant`), each of which may fail, and acts in
later steps: `Use` for the data plane, `Find` and `Assign` to give a role, `Get`
and `Remove` to take one, `Purge`, `CreateVault`, and `Lock`, `Count`, `Insert`
for a creation within a quota. `Change` is what administrators do meanwhile.
`CheckAccess` and `HasDataAction` are the decision functions, over the roles
that have different rights. `trusted` records who was entrusted with which vault
along a chain, from administrators, creators, policies and assignments.

**Rekey.** `Plan` reads a target and classifies each row: sealed with the old
key, the new one, outside both schemes, or with neither, which aborts. `Apply`
writes one batch, each row only if it still is what was planned. Runs overlap,
fail and are interrupted; `Put` and `Delete` are a server, under whichever key
it was started with. A ciphertext is its key and the number of the write it
holds, so that `SealedStore` is the same state with the keys forgotten.

**TieredCache.** `Get1`, `Get2`, `Copy` are a read through both levels with the
copy back; `Load`, `Set1`, `Set2` fill from the database; `Write` updates the row,
after which the call may fail and clear nothing, and `Range1`, `Scan`, `Clear1`,
`Clear2` or `Flush`, `List`, `Drop` evict. Any network access may fail silently,
any copy may be evicted (`Evict`), and the process may lose its level (`Restart`). There is one process: a second replica's
own level, which no eviction reaches, is only bounded by its lifetime.

**Certificates.** `cert[c]` is the row, whose `now` is the current version,
`archived[c]` the version rows, `key[c]` the key: usable or not, and its
material. `Read`, `ReadKey`, `ReadIssuer`, `ReadIssuerKey` and `Renew` or `Create`
are a renewal and a creation statement by statement; `Renew` is the transaction
of `ArchiveAndRenew` with its version guard. `List`, `Take`, `OwnerActive` and
`OwnerMaySign` are the scheduler's loop. `ReadVersion`, `UpdateVersion`,
`UpdateCurrent` are the lifecycle of versions (`Lifecycle`: enabled, the dates
from which and until which it may be read, which `ValidWindow` keeps in order),
`Release` is the end of an export:
the version was read before, the issuer is read now. A self-signed certificate
is its own `Issuer`. `made` keeps every body as it was issued; `seen` keeps what
has held at some time since a request began. `Readable(c)` is what row and version
rows together show under each number: the state of `VersionHistory` that
`Certificates` implements.

## 3. The runs

| Run | Question | Result |
| --- | --- | --- |
| `VaultRaces` | two clients and the sweep overlap, anything fails, the process restarts | removals announced, user deletions kept, the sweep deletes only what is expired at its DELETE |
| `VaultOneByOne` | sequences of five operations and sweeps, nothing overlaps or fails | cascades exact, cache equal to the table, purges complete, expired rows removed |
| `CircuitBreaker` | three calls over any number of periods | never stuck; cap and timeout hold as long as calls are shorter than Timeout; it closes again |
| `SecretVersions` | two clients and the scheduler on one secret | version rows are true and a writer has archived its copy always; one at a time numbers are distinct |
| `KeyRotation` | two clients and the executor on one key | `VersionHistory` implemented, material kept, exports above version 1 true always; one at a time labels are true |
| `AuditChain` | writers, retention, a starting replica, backup, restore, failures | the chain verifies, nothing unlogged, `AuditTrail` implemented |
| `Sessions` | three calls on one account, one fault, one repetition, time steps | one session per code; what ended stays ended; sessions and tokens are of the current password and roles, except for the overlaps the properties name |
| `Authorization` | two calls by an administrator and two tenants over two vaults, and one change by an administrator | nobody acts, or is given a role, outside the chains of trust; quotas are kept |
| `AuthorizationDeny` | does a failed lookup of policies deny? | **no**, for the management of role assignments |
| `Rekey` | two runs that overlap, fail or are interrupted, while a server writes | no plaintext changes, success is complete, a column is refused as a whole |
| `TieredCache` | three reads, fills and updates under two keys | old copies live no longer than the bound; alone, an update leaves none |
| `Certificates` | two requests, or requests and revocations, rotations, lost rights, faults, beside the scheduler | versions and exports are true, `VersionHistory` implemented, nothing is signed without its grounds, what stays due is renewed |

What only the proofs show is not in this table; section 6 lists it.

The run whose answer is a counterexample quotes the comment it contradicts under
"findings". Every property of a passing run also has a mutant: a definition,
kept next to the original and marked as a mutant, that makes a plausible mistake
and that TLC finds to violate the property.

Properties that begin with `Serial` hold only when requests run one at a time;
`mode` (or the constant `Serial`) is chosen in the initial state, so that one
run covers both. Where an overlap breaks the property, it is listed as a hazard
with what was found.

What the models show to happen although one might wish otherwise, and which the
properties therefore do not exclude:

* A vault that is recovered after the sweep has listed it and before its turn is
  purged all the same: `PurgeVault` accepts an active vault
  (`vault_service.go:802`). `purgeItem` and `PurgeVault` decide on a status read
  before. Contents are swept by the global retention, even if their vault has a
  longer `retention_days` of its own.
* A purge whose second statement fails strands the contents of a vault.
* A cache fill that lands after an eviction serves the old row until its TTL.
* Trials of an earlier half-open period are not counted in the next: when calls
  outlive Timeout, more than the cap run at once, against `retry.go:154`.
* An update and a rotation of a secret, or two updates, that overlap lose a
  value: the second overwrites what the first wrote, and no version row holds
  it (`rotation_service.go:146` promises otherwise). The theorem `NothingLost`
  says when this cannot happen.
* A crypto operation that overlaps a rotation of its key, or follows one that
  stopped half-way, may name another version than the one it used
  (`crypto_service.go:39`); an export of version 1 that overlaps the first
  rotation may carry the new material (`key_export.go:70` says otherwise).
* A rotation that overlaps a revocation makes the key usable again. Nothing in
  the repository says otherwise, and `UsableKept` proves that it takes an overlap.
* Two updates of an account that overlap: the one that read first writes its
  whole row last, undoes the other's password or roles, and, if its own request
  changes neither, ends no session (`user_service.go:457` says otherwise).
* A sign-in or refresh that read the account before its password or roles
  changed opens its session after the change has ended all others. An update
  whose commit took effect and was answered with an error is repeated, finds
  nothing changed, and ends no session. `SessionsCurrent` and `TokensCurrent`
  excuse these overlaps by name.
* An update of a cached secret that fails after it wrote its row evicts nothing:
  the old copy is served until it expires, within the bound of `StaleBound`.
* A role may be assigned to a principal that was deleted, or in a vault that was
  purged, after the checks.
* A certificate that is disabled, or given a new not-before date, between a
  renewal's read and its write has that undone by the write. One whose validity
  does not exceed its renewal window is renewed by every sweep.

## 4. Bounds

* One vault with one item (`VaultRaces`) or a secret and a key
  (`VaultOneByOne`). The hazards are between operations on the same row, and
  between a vault and an item of it; a second table is needed for the cascade
  and the order of the sweep, not a third.
* Two clients and the scheduler. Every race found needs two actors.
* `MaxRequests` 3, 4 or 5. Delete, recover, delete again with a sweep between is
  the longest sequence a cascade can tell apart; four requests rotate, fail,
  retry and read back. `VaultOneByOne` starts from nothing and needs two
  requests to create the vault and an item.
* `MaxTime` bounds the days that pass: retention is 1, so that expired,
  not yet expired and deleted again all occur. `VaultOneByOne` runs longer.
* Breaker: threshold 2 and cap 2 are the least values for which reaching one is
  not exceeding it; with three calls one can be late while two fill the cap.
* Audit: four rows, two time units, retention 1, one replica that starts and
  two writers. `MaxRows` bounds numbers and hashes, not the rows present.
* Sessions: three calls (a sign-in, a change and a refresh or another sign-in
  are the longest overlap that matters for one account), two passwords, two sets
  of roles, one fault and one repetition, and three TOTP steps, of which a
  code matches two or three. The throttle delays after one failure and forgets
  within the run. About two million states.
* Authorization: an administrator and two tenants, so that rights can be handed
  on; two vaults, so that rights in one must not count in the other; quota 1,
  two calls, one change by an administrator.
* Rekey: three rows in one target, in batches of two, and a row in a second
  target; two runs; two writes of a server. One batch can be written and the
  next fail or be outrun.
* TieredCache: three calls, two keys, one update; both lifetimes and the time a
  call takes are 1, and the clock ends at 5, one more than the bound that
  `StaleBound` states and at which it is tight.
* Certificates: a CA that may be missing, working or of the old kind and a
  certificate that it signs; validity 2, window 1, two days, so that a renewed
  version is due again; three versions; two clients. `MaxEvents` 2 counts
  requests, changes and faults together: two requests that overlap, or one and
  a revocation, rotation or fault, always beside the scheduler.

`CHECK_DEADLOCK FALSE` appears where the bound on requests or rows lets a
behaviour end; the breaker has no such bound and is checked for deadlock.

## 5. Fairness

Three runs use it. In `VaultOneByOne`, `FairSpec` has weak fairness of the
next step of each request and of the scheduler's purges, of the sweep, and of
time: a goroutine that can run does run, and the ticker fires. No fairness is
assumed of requests being made, nor of cache entries expiring; the run has no
failures, since a statement that fails for ever removes nothing.

In `CircuitBreaker`, callers keep calling, an admitted call ends (weak fairness
of `Admit` and `Return`) and the timeout passes. Strong fairness of `Succeed`
says that a caller whose calls keep being admitted by a working backend does not
answer all of them with its own bad requests or cancellations: if it did, no
trial would ever tell the breaker that the backend works, and staying half-open
would be right. `Recovers` speaks only of a backend that works from some time
on, and of a breaker that classifies errors.

In `Certificates`, the scheduler's loop goes on (weak fairness of `Scheduling`):
its goroutine runs and its ticker fires. Nothing is assumed of requests, of the
clock or of changes. `DueIsRenewed` speaks of a version that stays due: in its
window, enabled, with a usable key, a working CA and an owner who may sign.
Faults are counted by `MaxEvents`, so they end.

## 6. The proofs

Every theorem is for all values of the constants: any number of clients,
writers, calls and items, any limits and bounds. TLC checked each invariant
first.

* **VaultLifecycle.** `TypeCorrect` needs that a request is only at stages its
  operation has (`StagesOf`). `RemovalIsAudited` (`AuditedRemoval`) is not
  inductive: a request about to remove a row says nothing of the audit log.
  `Announced` adds that a request past its attempt stage, and a sweep at its
  DELETE, have their attempt row. `UserDeletionIsKept` (`UserDeletionSticks`)
  rests on `Past` and `Distinct`: every stamp, in a row or in a request's
  memory, lies in the past, and none equals the stamp of an item its user
  deleted; so the WHERE clause of a vault's recovery cannot find that item.
  `SweepSparesOthers` (`SweepSparesRecoverable`) holds for all interleavings:
  the cutoff with which a DELETE runs was computed in the past (`SweptSince`),
  and the DELETE reads the rows itself. The other three are for requests that
  take turns (`Serial`), and share `SerialInv`: at most one request is under way
  (`Alone`), what it has read is what the rows are (`ReadTrue`), a deleted item's
  stamp tells its cause and follows its vault (`CauseOf`, `Cascaded`), and a
  cache entry that differs from its row is about to be evicted
  (`CacheOrEvicting`). `CascadesAreExact` and `CacheStaysFresh` follow although
  requests may fail. `PurgeLeavesNothing` (`NoStrandedRows`) adds that a purged
  vault has nothing left in the tables that its purge has passed (`PurgeInv`),
  and assumes that nothing fails: a failure between the purge's statements
  strands rows, as section 3 says.
* **CircuitBreaker.** `TypeCorrect`, `ClosedStaysClean` and `NeverStuck` are close
  to inductive; the last two hold whatever the calls do. `CapHolds` and
  `OpenHolds` need `ShortInv`: when no call outlives Timeout, an open breaker has
  no slot counted and, once Timeout has passed, no call in flight, so that the
  trials of a half-open period are its own and number at most `halfOpenCount`.
* **SecretVersions.** `ArchivedTrue` and `WriterHasArchived` hold for all
  interleavings: a request's copy is a value that the row has had.
  `NothingLost`, `EnabledKept`, `VersionsDistinct` and `CacheFresh` speak of one
  request at a time. `SerialInv` says that then the copy is the row itself;
  `ArchivedOlder` that a version row is older than the row or is the row, left
  by an attempt that failed; `FreshOrEvicting` that a stale cache entry is about
  to be evicted.
* **KeyRotation.** `Contiguous` needs `Numbered`: the number a rotation carries,
  counted earlier, is at most one past the rows there are. `KeepsMaterial` needs
  `Preserved`: once there are version rows, every material is in one of them,
  and so is what a rotation is about to write. `ExportsStayTrue` and
  `UsableKept` have an invariant each (`Exporting`, `Alone`). `LabelsStayTrue`
  (`SerialLabelsTrue`) needs `Truthful`: what a request has read, or the cache
  holds, is the material of the version it is for, and the newest version row is
  the key's material except between the two statements of a rotation.
  `VersionsHistory`: the version rows implement `VersionHistory`, since a rotation
  inserts under a free number (`RowsStep`), which by `Numbered` is the next.
* **AuditChain.** `Verifiable`, `HeadCurrent`, `NothingUnlogged`, and
  `Refinement`: `AuditChain` implements `AuditTrail`, step by step. The
  inductive invariant `IInv` has seven parts: the types; the log is chained, its
  newest row is the head, no row is from the future (`LogOK`); so is the backup
  (`SavedOK`); what a starting replica has read is not ahead of the head
  (`TipsOK`); one append at a time, with the number and hash that follow the
  head and a time no row exceeds (`LocksOK`); a purge that runs computed its
  cutoff no later than the newest row was written, which is why it never
  deletes that row (`RunsOK`); and what has taken effect, or is about to, has its
  row or is past its retention (`EffectsOK`). `ChainVerifies` alone is not
  inductive: a lock or a tip read too early would break it in two steps.
* **Sessions.** `TypeCorrect` carries `Held`: a call past its read has a row that
  exists. `CodesOpenOne` (`CodeOnce`) needs `CodeInv`: a step that a call has
  claimed is no newer than the account's last used step, and no two calls, and
  no call and session, share one. `OverStaysOver` is a property of steps.
  `SessionsStayCurrent` and `TokensStayCurrent` rest on `CurrentInv`: a call's
  copy of the account is the account if their epochs agree (`Snapshots`), no
  session is of a later epoch (`Past`), a token carries the roles of its epoch
  (`Carried`), a refresh reads no older row than its session's (`Refreshing`).
* **Rekey.** `RunInv` says of a run with no old server beside it (`Swept`) that
  every row still under the old key is ahead of it: in a target to come, or
  pending in this one; so `AllSealedNew`. `Vetted` says that what a run has
  planned is a target without a foreign row, whence `RefusesWhole`.
  `StoreKept` is the refinement: a batch writes the plaintext it read, and only
  to rows that are unchanged, so that it is a stutter of `SealedStore`.
* **TieredCache.** `StaleBounded` needs `Dated`, which dates each place a replaced
  copy can be in by the update that replaced it: what a call has loaded
  (`Loaded`), the second level (`Second`), what a call has fetched there
  (`Fetched`), the first level (`First`). Each adds a lifetime or a call.
  `UpdatesLeaveNothing` (`NothingLeft`) is for calls that take turns: a stale
  copy exists only while the update that made it stale still has to clear that
  level (`InTurn`, `Owed`).
* **Authorization.** `EntitledAlways` (`Entitled`): whoever acts, or is given a
  role, was entrusted with the vault along a chain. `Chained` says that
  of every policy and role assignment there is, `Cleared` of every call past its
  decision, and that no deny which stood all along was overlooked; roles and
  policies change between the reads, the record of who was entrusted only
  grows. `QuotasKept` (`QuotaKept`) rests on the lock: a creation that has
  counted holds its grant's row as it read it (`Locking`), so that there is room
  for its vault until it inserts it (`Room`).
* **Certificates.** `VersionsAlwaysKept` needs `Kept`, of rows, version rows and
  issued bodies together, private keys included; for the steps that write, that
  a request's copy is a version that was issued (`Copied`), is of the stage its
  operation is at (`Running`), and that a certificate being created is created
  by one request alone (`Fresh`). `ExportsAlwaysTrue` adds `Exported`, which lasts
  because issued bodies never change. `SignaturesHaveGrounds` follows from
  `Checked`: a request has seen the grounds that the stages behind it ask for.
  `VersionsHistory` is the refinement of `VersionHistory`: by `Kept` what can be
  read of a certificate is what was issued for it (`ReadableIs`), and a step
  issues one body of one certificate, purges one, or leaves the history alone
  (`NextMoves`).

The assumptions on constants are named in the modules (`ConstantsAssumption`,
`BreakerAssumption`, `VersionsAssumption`, `KeyAssumption`, `ChainAssumption`,
`SessionsAssumption`, `RekeyAssumption`, `TieredAssumption`,
`AuthorizationAssumption`, `CertificatesAssumption`, and for the markers of an
absent row `AbsentAssumption` and `NoneAssumption`): schedulers and markers are
not clients or rows, limits are natural numbers, positive where the code's
defaults make them so. Three theorems about `VaultLifecycle` name a mode of its
runs, `Serial` or `~MayFail`, as their hypothesis. Assumptions inside the
models: two deletions have different stamps (`time.Now` in nanoseconds); the
clock of the database does not go back; SHA-256 does not collide; the server is
stopped for a restore; a call on a cache takes bounded time.

The type invariants of `VaultLifecycle`, `CircuitBreaker`, `SecretVersions`,
`KeyRotation`, `TieredCache`, `Authorization` and `Certificates` are proved and no
run repeats them; neither does one repeat `ClosedIsClean`, `VersionsContiguous`, `HeadIsTip`,
`SerialArchivedFirst`, `SerialEnabledKept`, `SerialUsableKept` and
`SerialCacheFresh`.

Every invariant and every action property that a passing run checks is a
theorem. Only model-checked: liveness (`ExpiredAreRemoved`, `Recovers`,
`DueIsRenewed`), which TLAPS cannot prove under fairness.

## 7. Not modelled

Cryptography, formats, wording and pure I/O. In the modelled components:
creation and import of keys and secrets beyond the first row, tags, quotas of
secrets, rollback to an old version (no caller), HSM handles, backoff delays, the
format of a backup, audit queries with filters (a filter hides rows, and the page
then reports a gap); enrolment of TOTP secrets and the removal of expired session
rows; the certificate cache, certificate policies, revocation lists, CA chains of
more than two. A session or a rate limit is not part of a request elsewhere: the
models start behind the middleware's authentication.

Outside the reach of these methods: ciphers and PKCS#11, migrations, HTTP
plumbing, the command line, parsing of configuration. Not worth a module of
their own: webhooks (no state depends on a delivery), OAuth2 clients and the OIDC
exchange (a row and a token per request; the session that follows is in
`Sessions`), the scheduler runner (each server starts each scheduler once and
stops it at shutdown).

## 8. Plan

1. `VersionHistory` is implemented by `Certificates` and `KeyRotation`. Of
   `SecretVersions`, where overlapping updates archive one version twice, state
   and prove it for requests that take turns.
2. An abstract breaker over a set of trials, implemented by `CircuitBreaker`.
3. Item backup and restore into a vault that was purged or protected meanwhile.
4. The overlap of signing keys and the keys that verifiers still find.
5. The token sources of the vault client: one refresh at a time, expiry, a lost
   session.
