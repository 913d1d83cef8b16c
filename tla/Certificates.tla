---------------------------- MODULE Certificates ----------------------------
(***************************************************************************)
(* Certificates: creation, renewal by request and by the renewal           *)
(* scheduler, version rows, updates, deletion and export                   *)
(* (services/certificates and the certificate repositories).               *)
(*                                                                         *)
(* Every certificate belongs to one user and one vault, as its key does.   *)
(* It is signed with its own key or with the copy of its key that a CA's   *)
(* row holds.  A request is a chain of statements between which others     *)
(* run; a transaction is one step.                                         *)
(***************************************************************************)
EXTENDS Integers, FiniteSets, Sequences

CONSTANTS Certs,        \* ids of certificates
          Issuer,       \* the CA link of a row; a certificate itself if self-signed
          Exportable,   \* the certificates created with exportable: true
          AutoRenewed,  \* the certificates that renew by themselves at first
          Clients,      \* requests in flight at most
          Scheduler,    \* the renewal scheduler, its own client
          None,         \* a field that is not given
          Validity,     \* validity, in days, that requests ask for
          DefaultDays,  \* validity when the current one cannot be told
          RenewalDays,  \* length of the renewal window, in days
          MaxVersion, MaxTime,
          MaxEvents     \* bounds: versions, days, and requests, changes and faults together

ASSUME CertificatesAssumption ==
  /\ Issuer \in [Certs -> Certs] /\ \A c \in Certs : Issuer[Issuer[c]] = Issuer[c]
  /\ Exportable \subseteq Certs /\ AutoRenewed \subseteq Certs /\ Scheduler \notin Clients
  /\ {Validity, DefaultDays, RenewalDays} \subseteq Nat \ {0}
  /\ {MaxVersion, MaxTime, MaxEvents} \subseteq Nat /\ MaxVersion # 0

Actors == Clients \cup {Scheduler}
SelfSigned(c) == Issuer[c] = c
Ops == {"create", "renew", "update", "version", "delete", "recover", "purge", "export"}
Stages == {"idle", "owner", "grant", "read", "key", "issuer", "issuerkey", "store",
           "protect", "write", "row", "lifecycle", "status", "erase", "release"}

\* inspectCertificateCA: "legacy" asserts CA without the usage to sign.
Authorities == {"leaf", "ca", "legacy"}

\* A private key: whose key it is, and which of its materials.
Materials == Certs \X Nat

\* An X.509 body: the key it certifies, the key that signed it, its serial.
Bodies == [key : Materials, by : Materials, authority : Authorities, serial : Nat]

\* What belongs to one version: body, private key, lifecycle.
Contents == [body : Bodies, secret : Materials, enabled : BOOLEAN, from : Nat, expires : Nat]

ASSUME NoneAssumption == None \notin Contents \cup Materials

Certificate == [phase : {"none", "active", "deleted", "purged"}, version : Nat, now : Contents \cup {None},
                created : Nat, auto : BOOLEAN, protected : BOOLEAN]

VARIABLES now,        \* days
          cert,       \* the rows of certificates
          archived,   \* the rows of certificate_versions: [version -> contents]
          key,        \* the rows of keys: usable or not, and material
          rights,     \* of the owner: its account exists, it may sign in the vault
          req,        \* requests in flight
          plan,       \* what the scheduler has listed and not yet taken up
          events,     \* requests, changes and faults so far
          made,       \* history: the body that each version was issued with
          exports,    \* history: what was exported
          seen        \* history: what held at some time during a request

vars == <<now, cert, archived, key, rights, req, plan, events, made, exports, seen>>
stored == <<now, cert, archived, key, rights, made, exports>>
tables == <<stored, events>>

-----------------------------------------------------------------------------

NoCert == [phase |-> "none", version |-> 1, now |-> None, created |-> 0,
           auto |-> FALSE, protected |-> FALSE]

Idle == [op |-> "renew", at |-> "idle", cert |-> None, copy |-> NoCert, key |-> None, sign |-> None,
         version |-> 0, days |-> 0, give |-> <<>>]

Active(c) == cert[c].phase = "active"
Deleted(c) == cert[c].phase = "deleted"

\* Certificate.IsAccessible, CertificateVersion.IsAccessible.
Accessible(v) == v.enabled /\ v.from <= now /\ now <= v.expires

\* Mutant: the window is compared the wrong way round.
InWindow_Outside(row) == now <= row.now.expires /\ row.now.expires - now > RenewalDays

\* CheckAndRenewCertificates: neither expired nor before its renewal window.
InWindow(row) == now <= row.now.expires /\ row.now.expires - now <= RenewalDays

\* CurrentValidityDays.
CurrentValidity(row) == IF row.now.expires > row.created THEN row.now.expires - row.created
                                                         ELSE DefaultDays

\* A version as it is issued: what its body says of its lifecycle.
Issued(body, secret, days) == [body |-> body, secret |-> secret, enabled |-> TRUE,
                               from |-> now, expires |-> now + days]

Init ==
  /\ now = 0
  /\ key = [c \in Certs |-> [usable |-> TRUE, value |-> <<c, 0>>]]
  /\ \E old \in {{}, {c \in Certs : SelfSigned(c)}, Certs}, s \in {"ca", "legacy"} :
       LET body(c) == [key |-> <<c, 0>>, by |-> <<Issuer[c], 0>>, serial |-> 0,
                       authority |-> IF SelfSigned(c) THEN s ELSE "leaf"]
       IN  /\ cert = [c \in Certs |-> IF c \notin old THEN NoCert
                        ELSE [NoCert EXCEPT !.phase = "active", !.auto = c \in AutoRenewed,
                                            !.now = Issued(body(c), <<c, 0>>, Validity)]]
           /\ made = [c \in Certs |-> IF c \in old THEN <<body(c)>> ELSE <<>>]
  /\ archived = [c \in Certs |-> <<>>]
  /\ rights = {"account", "grant"}
  /\ req = [a \in Actors |-> Idle]
  /\ plan = [c \in {} |-> NoCert]
  /\ events = 0
  /\ exports = {}
  /\ seen = [a \in Actors |-> {}]

-----------------------------------------------------------------------------
(* How requests begin, go on and end.                                      *)

Goto(a, stage) == req' = [req EXCEPT ![a].at = stage]
Finish(a) == req' = [req EXCEPT ![a] = Idle]

First(op) == CASE op = "create" -> "key"
               [] op \in {"recover", "purge"} -> "row"
               [] OTHER -> "read"

\* One more event, as long as the bound allows it.
Event == events < MaxEvents /\ events' = events + 1

Begin(a, op, c, version, give) ==
  /\ req[a] = Idle
  /\ Event
  /\ req' = [req EXCEPT ![a] = [Idle EXCEPT !.op = op, !.at = First(op), !.cert = c, !.days = Validity,
                                            !.version = version, !.give = give]]
  /\ UNCHANGED <<now, cert, archived, key, rights, plan, made, exports>>

\* The fields that requests give.
Creations(c) == {[auto |-> TRUE], [protected |-> TRUE, from |-> 2], [enabled |-> FALSE]}
                \cup IF SelfSigned(c) THEN {[auto |-> TRUE, ca |-> TRUE]} ELSE {}
Updates == {[enabled |-> FALSE], [auto |-> FALSE], [enabled |-> TRUE, auto |-> TRUE],
            [protected |-> TRUE, from |-> 2]}
Lifecycles == {[enabled |-> FALSE], [expires |-> 1], [from |-> 2]}

Request(a) == \E c \in Certs :
  \/ /\ cert[c].phase = "none" /\ \A b \in Actors : req[b].op = "create" => req[b].cert # c
     /\ \E give \in Creations(c) : Begin(a, "create", c, 0, give)
  \/ \E op \in {"renew", "delete", "recover", "purge"} : Begin(a, op, c, 0, <<>>)
  \/ \E give \in Updates : Begin(a, "update", c, 0, give)
  \/ \E v \in 1 .. 2, give \in Lifecycles : Begin(a, "version", c, v, give)
  \/ \E v \in 0 .. 1 : Begin(a, "export", c, v, <<>>)

Given(r, field, old) == IF field \in DOMAIN r.give THEN r.give[field] ELSE old

-----------------------------------------------------------------------------
(* The scheduler: CheckAndRenewCertificates.                               *)

\* ListAll, and the rows that the loop will renew.
List ==
  /\ req[Scheduler] = Idle /\ plan = <<>>
  /\ plan' = [c \in {d \in Certs : Active(d) /\ cert[d].auto /\ InWindow(cert[d])} |-> cert[c]]
  /\ plan' # <<>>
  /\ UNCHANGED <<tables, req>>

\* The next row.  It renews with the validity that the listed copy had.
Take ==
  /\ req[Scheduler] = Idle
  /\ \E c \in DOMAIN plan :
       /\ plan' = [d \in DOMAIN plan \ {c} |-> plan[d]]
       /\ req' = [req EXCEPT ![Scheduler] = [Idle EXCEPT !.at = "owner", !.cert = c,
                                                         !.days = CurrentValidity(plan[c])]]
  /\ UNCHANGED tables

\* ownerIsActive, then ownerMaySign.
OwnerActive ==
  /\ req[Scheduler].at = "owner"
  /\ IF "account" \in rights THEN Goto(Scheduler, "grant") ELSE Finish(Scheduler)
  /\ UNCHANGED <<tables, plan>>

OwnerMaySign ==
  /\ req[Scheduler].at = "grant"
  /\ IF "grant" \in rights THEN Goto(Scheduler, "read") ELSE Finish(Scheduler)
  /\ UNCHANGED <<tables, plan>>

-----------------------------------------------------------------------------
(* Creation and renewal: what is read and checked before a body is signed. *)

\* The scoped read.  A renewal and an export go through the lifecycle gate,
\* an update, a version and a deletion do not.
Read(a) ==
  LET r == req[a]
      row == cert[r.cert]
      next == CASE r.op = "renew" -> "key"
                [] r.op = "update" -> "write"
                [] r.op = "version" -> IF r.version = row.version THEN "lifecycle" ELSE "status"
                [] r.op = "delete" -> "row"
                [] r.op = "export" -> IF r.version \in {0, row.version} THEN "release" ELSE "status"
  IN  /\ r.at = "read"
      /\ IF \/ ~Active(r.cert) \/ r.version > row.version
            \/ r.op \in {"renew", "export"} /\ ~Accessible(row.now)
            \/ r.op = "renew" /\ row.version = MaxVersion
         THEN Finish(a)
         ELSE req' = [req EXCEPT ![a].copy = row, ![a].at = next]
      /\ UNCHANGED <<tables, plan>>

\* The signing key, which is read and checked to be usable.
ReadKey(a) ==
  LET r == req[a]
  IN  /\ r.at = "key"
      /\ IF key[r.cert].usable
         THEN req' = [req EXCEPT ![a].key = key[r.cert].value,
                                 ![a].at = IF SelfSigned(r.cert) THEN "store" ELSE "issuer"]
         ELSE Finish(a)
      /\ UNCHANGED <<tables, plan>>

\* The CA's row and the copy of its key in it.  Creation does not ask for its
\* lifecycle, renewal does.
ReadIssuer(a) ==
  LET r == req[a]
      i == Issuer[r.cert]
  IN  /\ r.at = "issuer"
      /\ IF /\ Active(i) /\ cert[i].now.body.authority = "ca"
            /\ r.op = "renew" => Accessible(cert[i].now)
         THEN req' = [req EXCEPT ![a].sign = cert[i].now.secret, ![a].at = "issuerkey"]
         ELSE Finish(a)
      /\ UNCHANGED <<tables, plan>>

\* Mutant: the CA's own key is not looked at; its row has a copy.
CAKeyUsable_Copy(c) == Active(c)

CAKeyUsable(c) == key[c].usable

\* requireCAKeyUsable.
ReadIssuerKey(a) ==
  /\ req[a].at = "issuerkey"
  /\ IF CAKeyUsable(Issuer[req[a].cert]) THEN Goto(a, "store") ELSE Finish(a)
  /\ UNCHANGED <<tables, plan>>

\* The new body.  What a CA signs is a leaf; what signs itself is created as
\* was asked for and renewed as what it was, a legacy CA as a leaf.
Signed(r) ==
  LET isCA == IF r.op = "create" THEN Given(r, "ca", FALSE) ELSE r.copy.now.body.authority = "ca"
  IN  [key |-> r.key, by |-> IF SelfSigned(r.cert) THEN r.key ELSE r.sign, serial |-> Len(made[r.cert]),
       authority |-> IF SelfSigned(r.cert) /\ isCA THEN "ca" ELSE "leaf"]

\* INSERT INTO certificates; a purge protection asked for is a second statement.
Create(a) ==
  LET r == req[a]
  IN  /\ r.at = "store" /\ r.op = "create"
      /\ cert' = [cert EXCEPT ![r.cert] = [NoCert EXCEPT !.phase = "active", !.created = now,
                                                         !.auto = Given(r, "auto", FALSE),
                                                         !.now = [Issued(Signed(r), r.key, r.days) EXCEPT
                                                                    !.enabled = Given(r, "enabled", TRUE),
                                                                    !.from = Given(r, "from", 0)]]]
      /\ made' = [made EXCEPT ![r.cert] = <<Signed(r)>>]
      /\ IF "protected" \in DOMAIN r.give THEN Goto(a, "protect") ELSE Finish(a)
      /\ UNCHANGED <<now, archived, key, rights, plan, events, exports>>

\* The WHERE clause of the renewal's and of the lifecycle's UPDATE.
Follows(r) == Active(r.cert) /\ cert[r.cert].version = r.copy.version

\* Mutant: what is archived is taken from the renewed version.
Archive_Renewed(r) == Issued(Signed(r), r.key, r.days)

\* ArchiveRecord: the copy that was read.
Archive(r) == r.copy.now

\* ArchiveAndRenew: one transaction, which a version row of that number or a
\* row that has moved on undoes.
Renew(a) ==
  LET r == req[a]
      c == r.cert
      v == r.copy.version
  IN  /\ r.at = "store" /\ r.op = "renew"
      /\ Finish(a)
      /\ IF v \in DOMAIN archived[c] \/ ~Follows(r)
         THEN UNCHANGED <<cert, archived, made>>
         ELSE /\ archived' = [archived EXCEPT ![c] = [n \in DOMAIN @ \cup {v} |-> IF n = v THEN Archive(r) ELSE @[n]]]
              /\ cert' = [cert EXCEPT ![c].now = Issued(Signed(r), r.key, r.days),
                                      ![c].created = now, ![c].version = v + 1]
              /\ made' = [made EXCEPT ![c] = Append(@, Signed(r))]
      /\ UNCHANGED <<now, key, rights, plan, events, exports>>

-----------------------------------------------------------------------------
(* Updates and versions.                                                   *)

\* CertificateRepository.Update: what belongs to no version, and enabled.  A
\* deletion since the read does not stop it.
Update(a) ==
  LET r == req[a]
      c == r.cert
  IN  /\ r.at = "write"
      /\ IF cert[c].phase \in {"active", "deleted"} /\ cert[c].version = r.copy.version
         THEN /\ cert' = [cert EXCEPT ![c].auto = Given(r, "auto", r.copy.auto),
                                      ![c].now.enabled = Given(r, "enabled", r.copy.now.enabled),
                                      ![c].now.from = Given(r, "from", r.copy.now.from)]
              /\ IF "protected" \in DOMAIN r.give THEN Goto(a, "protect") ELSE Finish(a)
         ELSE cert' = cert /\ Finish(a)
      /\ UNCHANGED <<now, archived, key, rights, plan, events, made, exports>>

\* SetPurgeProtection, by id alone.
Protect(a) ==
  LET r == req[a]
  IN  /\ r.at = "protect"
      /\ IF cert[r.cert].phase \in {"active", "deleted"}
         THEN cert' = [cert EXCEPT ![r.cert].protected = r.give.protected]
         ELSE cert' = cert
      /\ Finish(a)
      /\ UNCHANGED <<now, archived, key, rights, plan, events, made, exports>>

\* ValidateCertificateVersionWindow, on what was read and what is given.
ValidWindow(r) == Given(r, "from", r.copy.now.from) <= Given(r, "expires", r.copy.now.expires)

\* What a version becomes when the lifecycle fields are written.
Lifecycle(v, r) == [v EXCEPT !.enabled = Given(r, "enabled", r.copy.now.enabled),
                             !.from = Given(r, "from", r.copy.now.from),
                             !.expires = Given(r, "expires", r.copy.now.expires)]

\* UpdateCurrentLifecycle.
UpdateCurrent(a) ==
  LET r == req[a]
  IN  /\ r.at = "lifecycle"
      /\ IF Follows(r) /\ ValidWindow(r)
         THEN cert' = [cert EXCEPT ![r.cert].now = Lifecycle(@, r)]
         ELSE cert' = cert
      /\ Finish(a)
      /\ UNCHANGED <<now, archived, key, rights, plan, events, made, exports>>

\* GetVersion and ListVersionRecords: the version's own row.  An export asks
\* whether the certificate, as it was read, and the version are usable.
ReadVersion(a) ==
  LET r == req[a]
      v == archived[r.cert][r.version]
  IN  /\ r.at = "status"
      /\ IF \/ r.version \notin DOMAIN archived[r.cert]
            \/ r.op = "export" /\ ~Accessible(v)
         THEN Finish(a)
         ELSE req' = [req EXCEPT ![a].copy.now = v, ![a].copy.version = r.version,
                                 ![a].at = IF r.op = "export" THEN "release" ELSE "row"]
      /\ UNCHANGED <<tables, plan>>

\* UpdateVersionLifecycle.
UpdateVersion(a) ==
  LET r == req[a]
  IN  /\ r.at = "row" /\ r.op = "version"
      /\ archived' = IF r.version \notin DOMAIN archived[r.cert] \/ ~ValidWindow(r) THEN archived
                     ELSE [archived EXCEPT ![r.cert][r.version] = Lifecycle(@, r)]
      /\ Finish(a)
      /\ UNCHANGED <<now, cert, key, rights, plan, events, made, exports>>

-----------------------------------------------------------------------------
(* Deletion, recovery, purge.                                              *)

\* softDeleteItem and recoverItem, each with its own WHERE clause.
SetPhase(a, op, from, to) ==
  LET r == req[a]
  IN  /\ r.at = "row" /\ r.op = op
      /\ cert' = IF cert[r.cert].phase = from THEN [cert EXCEPT ![r.cert].phase = to] ELSE cert
      /\ Finish(a)
      /\ UNCHANGED <<now, archived, key, rights, plan, events, made, exports>>

Delete(a) == SetPhase(a, "delete", "active", "deleted")
Recover(a) == SetPhase(a, "recover", "deleted", "active")

\* PurgeCertificate: its checks, up to the status that purgeItem reads.
Vet(a) ==
  LET r == req[a]
  IN  /\ r.at = "row" /\ r.op = "purge"
      /\ IF Deleted(r.cert) /\ ~cert[r.cert].protected THEN Goto(a, "erase") ELSE Finish(a)
      /\ UNCHANGED <<tables, plan>>

\* Mutant: the version rows are left behind.
VersionsLeft_All(c) == archived[c]

\* deleteItemVersions.
VersionsLeft(c) == <<>>

\* purgeItem: its transaction, by id.
Erase(a) ==
  LET c == req[a].cert
  IN  /\ req[a].at = "erase"
      /\ IF cert[c].phase \in {"active", "deleted"}
         THEN /\ cert' = [cert EXCEPT ![c] = [NoCert EXCEPT !.phase = "purged"]]
              /\ archived' = [archived EXCEPT ![c] = VersionsLeft(c)]
         ELSE UNCHANGED <<cert, archived>>
      /\ Finish(a)
      /\ UNCHANGED <<now, key, rights, plan, events, made, exports>>

-----------------------------------------------------------------------------
(* Export.                                                                 *)

\* Mutant: the key is read from its own row, which may have been rotated.
SecretOf_Key(r) == key[r.cert].value

\* The private key copy that the exported version holds.
SecretOf(r) == r.copy.now.secret

\* CheckSignatureFrom.
Verifies(body, issuer) == body.by = issuer.key /\ issuer.authority = "ca"

\* The immutable flag, the attempt row, the version's key, and the chain that
\* is read after: nothing is exported that does not verify against it.
Release(a) ==
  LET r == req[a]
      v == r.copy.now
      i == Issuer[r.cert]
  IN  /\ r.at = "release"
      /\ exports' = IF \/ r.cert \notin Exportable
                       \/ ~SelfSigned(r.cert) /\ ~(Active(i) /\ Verifies(v.body, cert[i].now.body))
                    THEN exports
                    ELSE exports \cup {[cert |-> r.cert, version |-> r.copy.version, body |-> v.body,
                                        secret |-> SecretOf(r)]}
      /\ Finish(a)
      /\ UNCHANGED <<now, cert, archived, key, rights, plan, events, made>>

-----------------------------------------------------------------------------
(* What happens around certificates.                                       *)

\* A statement fails: the request ends with an error.
Fail(a) == req[a] # Idle /\ Event /\ Finish(a) /\ UNCHANGED <<stored, plan>>

Restart == /\ Event
           /\ req' = [a \in Actors |-> Idle]
           /\ plan' = <<>>
           /\ UNCHANGED stored

Tick == /\ now < MaxTime
        /\ now' = now + 1
        /\ UNCHANGED <<cert, archived, key, rights, req, plan, events, made, exports>>

\* A key is disabled, enabled or rotated; the owner's account is deleted, its
\* grant withdrawn or given back.
Change ==
  /\ Event
  /\ \/ /\ \E c \in Certs : \/ key' = [key EXCEPT ![c].usable = ~@]
                            \/ key' = [key EXCEPT ![c].value = <<c, @[2] + 1>>]
        /\ rights' = rights
     \/ /\ rights' \in {rights \ {"account"}, rights \ {"grant"}, rights \cup {"grant"}}
        /\ key' = key
  /\ UNCHANGED <<now, cert, archived, req, plan, made, exports>>

-----------------------------------------------------------------------------
(* The specification.                                                      *)

\* What a signature for c rests on, as far as it holds now.
Holding(c) ==
  LET i == Issuer[c]
  IN  (IF key[c].usable THEN {"key"} ELSE {})
      \cup (IF Active(c) /\ Accessible(cert[c].now) THEN {"alive"} ELSE {})
      \cup (IF Active(i) /\ cert[i].now.body.authority = "ca" THEN {"issuer"} ELSE {})
      \cup (IF Active(i) /\ Accessible(cert[i].now) THEN {"issuer alive"} ELSE {})
      \cup (IF key[i].usable THEN {"issuer key"} ELSE {})
      \cup rights

\* What the request of actor a rests on: a usable key, a living CA whose own
\* key is usable, and if nobody asked for it an owner who exists and may sign.
Grounds(a) ==
  LET r == req[a]
      own == {"key"} \cup (IF r.op = "renew" THEN {"alive"} ELSE {})
      issuers == IF SelfSigned(r.cert) THEN {}
                 ELSE {"issuer", "issuer key"} \cup (IF r.op = "renew" THEN {"issuer alive"} ELSE {})
  IN  IF r = Idle \/ r.op \notin {"create", "renew"} THEN {}
      ELSE own \cup issuers \cup (IF a = Scheduler THEN {"account", "grant"} ELSE {})

RenewCertificate(a) == Read(a) \/ ReadKey(a) \/ ReadIssuer(a) \/ ReadIssuerKey(a) \/ Renew(a)

Serve(a) == \/ RenewCertificate(a) \/ Create(a) \/ Update(a) \/ Protect(a)
            \/ UpdateCurrent(a) \/ ReadVersion(a) \/ UpdateVersion(a)
            \/ Delete(a) \/ Recover(a) \/ Vet(a) \/ Erase(a) \/ Release(a)

Noted == seen' = [a \in Actors |-> IF Grounds(a)' = {} THEN {}
                                   ELSE Grounds(a)' \cap (seen[a] \cup Holding(req[a].cert)')]

Scheduling == List \/ Take \/ OwnerActive \/ OwnerMaySign \/ RenewCertificate(Scheduler)

Next == \/ Scheduling /\ Noted
        \/ /\ \E a \in Clients : Request(a) \/ Serve(a)
           /\ Noted
        \/ /\ (\E a \in Actors : Fail(a)) \/ Restart \/ Tick \/ Change
           /\ Noted

Spec == Init /\ [][Next]_vars

\* The scheduler's goroutine goes on, and its ticker fires.
FairSpec == Spec /\ WF_<<req, plan>>(Scheduling)

-----------------------------------------------------------------------------
(* Properties.                                                             *)

TypeOK ==
  /\ now \in 0 .. MaxTime
  /\ cert \in [Certs -> Certificate] /\ \A c \in Certs : cert[c].now = None <=> cert[c].phase \in {"none", "purged"}
  /\ \A c \in Certs : \A v \in DOMAIN archived[c] : v \in 1 .. MaxVersion /\ archived[c][v] \in Contents
  /\ key \in [Certs -> [usable : BOOLEAN, value : Materials]]
  /\ rights \subseteq {"account", "grant"}
  /\ \A a \in Actors : req[a].op \in Ops /\ req[a].at \in Stages
  /\ DOMAIN plan \subseteq Certs

\* Renewals by the scheduler and by requests, updates and purges that overlap
\* never lose or renumber a version: the row holds the last body issued, each
\* earlier number has exactly one row with the body issued under it, and a
\* purged certificate leaves no rows behind.
VersionsKept ==
  \A c \in Certs :
    IF cert[c].phase \in {"none", "purged"} THEN archived[c] = <<>>
    ELSE LET v == cert[c].version
         IN  /\ v = Len(made[c]) /\ cert[c].now.body = made[c][v]
             /\ DOMAIN archived[c] = 1 .. v - 1
             /\ \A n \in 1 .. v - 1 : archived[c][n].body = made[c][n]

\* An export is the body issued under the version it names, with the private
\* key of that very body, and with a CA certificate whose key signed it,
\* although the version, the chain and the renewals between them are separate
\* reads.
ExportsTrue ==
  \A e \in exports : /\ e.body = made[e.cert][e.version]
                     /\ e.secret = e.body.key
                     /\ ~SelfSigned(e.cert) => \E n \in DOMAIN made[Issuer[e.cert]] :
                          made[Issuer[e.cert]][n].key = e.body.by

\* No body is signed on the strength of something that was false for as long
\* as the request has run, although each ground is read by a statement of its
\* own and may have gone by the time of the signature.
SignedWithRights == \A a \in Actors : req[a].at = "store" => Grounds(a) \subseteq seen[a]

\* What can be read of a certificate: the body and the private key under each
\* number, from the row and from the version rows.
Readable(c) ==
  LET current == IF cert[c].phase \in {"active", "deleted"} THEN {cert[c].version} ELSE {}
      version(v) == [body |-> v.body, secret |-> v.secret]
  IN  [n \in DOMAIN archived[c] \cup current |->
         IF n \in current THEN version(cert[c].now) ELSE version(archived[c][n])]

History == INSTANCE VersionHistory
             WITH Items <- Certs, Versions <- [body : Bodies, secret : Materials],
                  versions <- [c \in Certs |-> Readable(c)],
                  purged <- {c \in Certs : cert[c].phase = "purged"}

\* What a version is never changes and no number is given twice or skipped,
\* whatever renewals, lifecycle updates and deletions overlap, until a purge
\* takes all of a certificate for good (ArchiveAndRenew, purgeItem).
HistoryKept == History!HistorySpec

\* What the scheduler should renew: version v of c is in its window and
\* nothing stands in the way.
Due(c, v) ==
  /\ v < MaxVersion
  /\ Active(c) /\ cert[c].version = v /\ cert[c].auto /\ cert[c].now.expires - now \in 0 .. RenewalDays
  /\ Holding(c) = {"key", "alive", "issuer", "issuer alive", "issuer key", "account", "grant"}

\* A version that stays due is renewed, in whatever order the scheduler takes
\* up the rows and whatever requests run beside it.
DueIsRenewed == \A c \in Certs, v \in 1 .. MaxVersion - 1 : Due(c, v) ~> ~Due(c, v)

=============================================================================
