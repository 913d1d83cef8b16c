------------------------ MODULE VaultLifecycleProofs ------------------------
(***************************************************************************)
(* What holds of VaultLifecycle for every set of vaults, items and clients,*)
(* every retention and every bound: the types, the audit row that precedes *)
(* every removal, the permanence of a user's own deletion, the rows that   *)
(* the sweep spares; and, when requests take turns, exact cascades, a      *)
(* fresh cache and complete purges.                                        *)
(***************************************************************************)
EXTENDS VaultLifecycle, TLAPS

USE ConstantsAssumption DEF Tables, LastTable, Never

-----------------------------------------------------------------------------
(* Rows and requests.                                                      *)

LEMMA RowFields ==
    ASSUME NEW r \in Row
    PROVE  /\ [r EXCEPT !.phase = "row"] \in Row
           /\ \A d \in Nat : [r EXCEPT !.deletedAt = d] \in Row
           /\ \A p \in BOOLEAN : [r EXCEPT !.protected = p] \in Row
           /\ r.deletedAt \in Nat /\ r.protected \in BOOLEAN
  BY DEF Row

LEMMA ConstantRows ==
    /\ NewRow \in Row /\ GoneRow \in Row /\ LiveRow \in Row
    /\ \A p \in BOOLEAN : [LiveRow EXCEPT !.protected = p] \in Row
  BY DEF Row, GoneRow, LiveRow, NewRow

LEMMA IdleType == Idle \in Request /\ RequestOK(Idle)
  BY DEF Idle, Request, RequestOK, Stages, Wants

LEMMA StagesType == ASSUME NEW op \in Ops PROVE StagesOf(op) \subseteq Stages \ {"idle"}
  BY DEF StagesOf, Stages, Ops, ItemOps, VaultOps

\* A request stays one when a step moves it to another of its stages.
LEMMA RequestAt ==
    ASSUME NEW r \in Request, r.at # "idle", RequestOK(r), NEW s \in StagesOf(r.op)
    PROVE  [r EXCEPT !.at = s] \in Request /\ RequestOK([r EXCEPT !.at = s])
<1>1. r.op \in Ops /\ s \in Stages
  BY StagesType DEF RequestOK
<1> QED
  BY <1>1 DEF Request, RequestOK

LEMMA RequestMove ==
    ASSUME NEW r \in Request, r.at # "idle", RequestOK(r), NEW s \in StagesOf(r.op)
    PROVE  /\ \A p \in BOOLEAN : /\ [r EXCEPT !.prot = p, !.at = s] \in Request
                                 /\ RequestOK([r EXCEPT !.prot = p, !.at = s])
           /\ \A n \in Nat : /\ [r EXCEPT !.stamp = n, !.at = s] \in Request
                             /\ RequestOK([r EXCEPT !.stamp = n, !.at = s])
           /\ \A t \in Tables : /\ [r EXCEPT !.at = s, !.table = t] \in Request
                                /\ RequestOK([r EXCEPT !.at = s, !.table = t])
                                /\ [r EXCEPT !.table = t] \in Request
                                /\ RequestOK([r EXCEPT !.table = t])
<1>1. r.op \in Ops /\ s \in Stages
  BY StagesType DEF RequestOK
<1> QED
  BY <1>1 DEF Request, RequestOK

\* Every request is well formed.
RequestsOK == req \in [Actors -> Request] /\ \A a \in Actors : RequestOK(req[a])

LEMMA SetRequest ==
    ASSUME RequestsOK, NEW a \in Actors, NEW r \in Request, RequestOK(r),
           req' = [req EXCEPT ![a] = r]
    PROVE  RequestsOK'
  BY DEF RequestsOK, RequestOK

LEMMA FinishOK ==
    ASSUME RequestsOK, NEW a \in Actors, Finish(a)
    PROVE  RequestsOK'
  BY SetRequest, IdleType DEF Finish

LEMMA GotoOK ==
    ASSUME RequestsOK, NEW a \in Actors, req[a].at # "idle",
           NEW s \in StagesOf(req[a].op), Goto(a, s)
    PROVE  RequestsOK'
<1>1. req[a] \in Request /\ RequestOK(req[a])
  BY DEF RequestsOK
<1>2. [req[a] EXCEPT !.at = s] \in Request /\ RequestOK([req[a] EXCEPT !.at = s])
  BY <1>1, RequestAt
<1>3. req' = [req EXCEPT ![a] = [req[a] EXCEPT !.at = s]]
  BY DEF Goto
<1> QED
  BY <1>2, <1>3, SetRequest

-----------------------------------------------------------------------------
(* Types.                                                                  *)

LEMMA TypeInit == Init => TypeOK
<1> SUFFICES ASSUME Init PROVE TypeOK
  OBVIOUS
<1>1. /\ vault \in [Vaults -> Row]
      /\ item \in [Items -> Row]
  BY ConstantRows DEF Init
<1>2. /\ dependents \in [Vaults -> SUBSET Dependents]
      /\ cause \in [Items -> {"none", "user", "cascade"}]
      /\ cache \in [Vaults -> SUBSET BOOLEAN]
  BY DEF Init
<1>3. req \in [Actors -> Request] /\ \A a \in Actors : RequestOK(req[a])
  BY IdleType DEF Init
<1>4. sweep \in [at : SweepStages, table : Tables, since : Nat, due : SUBSET Vaults]
  BY DEF Init, SweepStages
<1>5. attempts \subseteq AttemptRows /\ issued \in 0 .. MaxRequests /\ now \in Nat \ {0}
  BY DEF Init
<1> QED
  BY <1>1, <1>2, <1>3, <1>4, <1>5 DEF TypeOK

\* A new request is well formed, and at its first statement.
LEMMA IssueRequest ==
    ASSUME NEW c \in Clients, Issue(c)
    PROVE  \E r \in Request :
             /\ req' = [req EXCEPT ![c] = r]
             /\ RequestOK(r) /\ r.at \in {"body", "find", "lookup"} /\ r.stamp = Never
             /\ r.at = "body" => r.op \notin ItemOps
             /\ r.table = 1
<1>1. PICK op \in Workload : \E w \in WantsOf(op), v \in Vaults, i \in Items \cup {NoItem} :
        /\ IF op \in ItemOps THEN i \in Contents(v) ELSE i = NoItem
        /\ req' = [req EXCEPT ![c] = [Idle EXCEPT !.op = op, !.at = FirstStage(op),
                                         !.vault = v, !.item = i, !.want = w]]
  BY DEF Issue
<1>2. PICK w \in WantsOf(op), v \in Vaults, i \in Items \cup {NoItem} :
        /\ IF op \in ItemOps THEN i \in Contents(v) ELSE i = NoItem
        /\ req' = [req EXCEPT ![c] = [Idle EXCEPT !.op = op, !.at = FirstStage(op),
                                         !.vault = v, !.item = i, !.want = w]]
  BY <1>1
<1> DEFINE r == [Idle EXCEPT !.op = op, !.at = FirstStage(op), !.vault = v, !.item = i, !.want = w]
<1>3. op \in Ops /\ w \in Wants /\ FirstStage(op) \in StagesOf(op) /\ FirstStage(op) \in Stages
  BY DEF WantsOf, Wants, FirstStage, StagesOf, Stages, Ops, ItemOps, VaultOps
<1>4. r \in Request /\ RequestOK(r)
  BY <1>2, <1>3, IdleType DEF Idle, Request, RequestOK
<1>5. /\ r.at \in {"body", "find", "lookup"} /\ r.stamp = Never
      /\ r.at = "body" => r.op \notin ItemOps
      /\ r.table = 1
  BY DEF Idle, FirstStage, ItemOps
<1> QED
  BY <1>2, <1>4, <1>5

LEMMA TypeIssue ==
    ASSUME TypeOK, NEW c \in Clients, Issue(c)
    PROVE  TypeOK'
<1>1. RequestsOK'
  BY IssueRequest, SetRequest DEF TypeOK, RequestsOK, Actors
<1>2. issued' \in 0 .. MaxRequests
  BY DEF Issue, TypeOK
<1> QED
  BY <1>1, <1>2 DEF Issue, rows, TypeOK, RequestsOK

\* What a request at a stage may go on to.
LEMMA Follows ==
    ASSUME NEW r \in Request, RequestOK(r)
    PROVE  /\ r.at = "lookup" => AfterLookup(r.op) \in StagesOf(r.op) /\ "fill" \in StagesOf(r.op)
           /\ r.at = "fill" => AfterLookup(r.op) \in StagesOf(r.op)
           /\ r.at = "attempt" => AfterAttempt(r.op) \in StagesOf(r.op)
           /\ r.at # "idle" => r.vault \in Vaults /\ r.op \in Ops
  BY DEF RequestOK, AfterLookup, AfterAttempt, StagesOf, Ops, ItemOps, VaultOps

LEMMA TypeLookup ==
    ASSUME TypeOK, NEW a \in Actors,
           LookupHit(a) \/ LookupRead(a) \/ LookupMiss(a) \/ Fill(a) \/ RecordAttempt(a)
    PROVE  TypeOK'
<1> DEFINE r == req[a]
<1>0. r \in Request /\ RequestOK(r) /\ RequestsOK
  BY DEF TypeOK, RequestsOK
<1> USE DEF rows, others
<1>1. CASE LookupHit(a)
  <2>1. PICK p \in cache[r.vault] : req' = [req EXCEPT ![a].prot = p, ![a].at = AfterLookup(r.op)]
    BY <1>1 DEF LookupHit
  <2>2. r.at = "lookup" /\ p \in BOOLEAN
    BY <1>0, <1>1, Follows DEF LookupHit, TypeOK
  <2>3. req' = [req EXCEPT ![a] = [r EXCEPT !.prot = p, !.at = AfterLookup(r.op)]]
    BY <2>1
  <2>4. RequestsOK'
    BY <1>0, <2>2, <2>3, SetRequest, Follows, RequestMove
  <2> QED BY <1>1, <2>4 DEF LookupHit, TypeOK, RequestsOK
<1>2. CASE LookupRead(a)
  <2>1. r.at = "lookup" /\ vault[r.vault].protected \in BOOLEAN
    BY <1>0, <1>2, Follows, RowFields DEF LookupRead, TypeOK
  <2>2. req' = [req EXCEPT ![a] = [r EXCEPT !.prot = vault[r.vault].protected, !.at = "fill"]]
    BY <1>2 DEF LookupRead
  <2>3. RequestsOK'
    BY <1>0, <2>1, <2>2, SetRequest, Follows, RequestMove
  <2> QED BY <1>2, <2>3 DEF LookupRead, TypeOK, RequestsOK
<1>3. CASE LookupMiss(a)
  BY <1>0, <1>3, FinishOK DEF LookupMiss, TypeOK, RequestsOK
<1>4. CASE Fill(a)
  <2>1. cache' \in [Vaults -> SUBSET BOOLEAN]
    BY <1>0, <1>4 DEF Fill, TypeOK, Request
  <2>2. RequestsOK'
    BY <1>0, <1>4, GotoOK, Follows DEF Fill
  <2> QED BY <1>4, <2>1, <2>2 DEF Fill, TypeOK, RequestsOK
<1>5. CASE RecordAttempt(a)
  <2>1. RequestsOK'
    BY <1>0, <1>5, GotoOK, Follows DEF RecordAttempt
  <2>2. AttemptOf(r) \in AttemptRows
    BY <1>0, <1>5 DEF RecordAttempt, AttemptOf, AttemptRows, RequestOK, StagesOf, Ops,
       ItemOps, VaultOps, Contents
  <2> QED BY <1>5, <2>1, <2>2 DEF RecordAttempt, TypeOK, RequestsOK
<1> QED BY <1>1, <1>2, <1>3, <1>4, <1>5

\* Items.
LEMMA EraseType ==
    ASSUME TypeOK, NEW gone, Erase(gone)
    PROVE  item' \in [Items -> Row] /\ cause' \in [Items -> {"none", "user", "cascade"}]
  BY ConstantRows DEF Erase, TypeOK

LEMMA TypeItem ==
    ASSUME TypeOK, NEW a \in Actors,
           \/ CreateItem(a) \/ ReadItem(a) \/ SetPurgeProtection(a) \/ DeleteItem(a)
           \/ RecoverItem(a) \/ VetItem(a) \/ CheckItem(a) \/ EraseItem(a)
    PROVE  TypeOK'
<1> DEFINE r == req[a]
<1>0. r \in Request /\ RequestOK(r) /\ RequestsOK
  BY DEF TypeOK, RequestsOK
<1> USE DEF rows, others, At
<1>1. CASE CreateItem(a)
  <2>1. r.op = "CreateItem" /\ r.at = "body" /\ r.item \in Items
    BY <1>0, <1>1 DEF CreateItem, RequestOK, ItemOps, Contents
  <2>2. item' \in [Items -> Row]
    BY <1>1, <2>1, ConstantRows DEF CreateItem, TypeOK
  <2>3. "protect" \in StagesOf(r.op)
    BY <2>1 DEF StagesOf
  <2>4. RequestsOK'
    BY <1>0, <1>1, <2>1, <2>3, GotoOK, FinishOK DEF CreateItem
  <2> QED BY <1>1, <2>2, <2>4 DEF CreateItem, TypeOK, RequestsOK
<1>2. CASE ReadItem(a)
  <2>1. "protect" \in StagesOf(r.op)
    BY <1>2 DEF ReadItem, StagesOf
  <2>2. RequestsOK'
    BY <1>0, <1>2, <2>1, GotoOK, FinishOK DEF ReadItem
  <2> QED BY <1>2, <2>2 DEF ReadItem, TypeOK, RequestsOK
<1>3. CASE SetPurgeProtection(a)
  <2>1. item' \in [Items -> Row]
    BY <1>3, RowFields DEF SetPurgeProtection, TypeOK
  <2>2. RequestsOK'
    BY <1>0, <1>3, FinishOK DEF SetPurgeProtection
  <2> QED BY <1>3, <2>1, <2>2 DEF SetPurgeProtection, TypeOK, RequestsOK
<1>4. CASE DeleteItem(a)
  <2>1. /\ item' \in [Items -> Row]
        /\ cause' \in [Items -> {"none", "user", "cascade"}]
        /\ now' \in Nat \ {0}
    <3>1. CASE Active(item[r.item])
      <4>1. item' = [item EXCEPT ![r.item].deletedAt = now] /\ now' = now + 1
        BY <1>4, <3>1 DEF DeleteItem
      <4>2. cause' = [cause EXCEPT ![r.item] = "user"]
        BY <1>4, <3>1 DEF DeleteItem
      <4>3. now \in Nat /\ now' \in Nat \ {0}
        BY <4>1 DEF TypeOK
      <4>4. item' \in [Items -> Row]
        BY <4>1, <4>3, RowFields DEF TypeOK
      <4> QED BY <4>2, <4>3, <4>4 DEF TypeOK
    <3>2. CASE ~Active(item[r.item])
      BY <1>4, <3>2 DEF DeleteItem, TypeOK
    <3> QED BY <3>1, <3>2
  <2>2. RequestsOK'
    BY <1>0, <1>4, FinishOK DEF DeleteItem
  <2> QED BY <1>4, <2>1, <2>2 DEF DeleteItem, TypeOK, RequestsOK
<1>5. CASE RecoverItem(a)
  <2>1. item' \in [Items -> Row] /\ cause' \in [Items -> {"none", "user", "cascade"}]
    <3>1. CASE SoftDeleted(item[r.item])
      <4>1. item' = [item EXCEPT ![r.item].deletedAt = Never]
        BY <1>5, <3>1 DEF RecoverItem
      <4>2. cause' = [cause EXCEPT ![r.item] = "none"]
        BY <1>5, <3>1 DEF RecoverItem
      <4>3. item' \in [Items -> Row]
        BY <4>1, RowFields DEF TypeOK
      <4> QED BY <4>2, <4>3 DEF TypeOK
    <3>2. CASE ~SoftDeleted(item[r.item])
      BY <1>5, <3>2 DEF RecoverItem, TypeOK
    <3> QED BY <3>1, <3>2
  <2>2. RequestsOK'
    BY <1>0, <1>5, FinishOK DEF RecoverItem
  <2> QED BY <1>5, <2>1, <2>2 DEF RecoverItem, TypeOK, RequestsOK
<1>6. CASE VetItem(a)
  <2>1. "attempt" \in StagesOf(r.op)
    BY <1>6 DEF VetItem, StagesOf
  <2>2. RequestsOK'
    BY <1>0, <1>6, <2>1, GotoOK, FinishOK DEF VetItem
  <2> QED BY <1>6, <2>2 DEF VetItem, TypeOK, RequestsOK
<1>7. CASE CheckItem(a)
  <2>1. "erase" \in StagesOf(r.op)
    BY <1>0, <1>7 DEF CheckItem, RequestOK, StagesOf, Ops, ItemOps, VaultOps
  <2>2. RequestsOK'
    BY <1>0, <1>7, <2>1, GotoOK, FinishOK DEF CheckItem
  <2> QED BY <1>7, <2>2 DEF CheckItem, TypeOK, RequestsOK
<1>8. CASE EraseItem(a)
  <2>1. RequestsOK'
    BY <1>0, <1>8, FinishOK DEF EraseItem
  <2>2. item' \in [Items -> Row] /\ cause' \in [Items -> {"none", "user", "cascade"}]
    BY <1>8, EraseType DEF EraseItem
  <2> QED BY <1>8, <2>1, <2>2 DEF EraseItem, TypeOK, RequestsOK
<1> QED BY <1>1, <1>2, <1>3, <1>4, <1>5, <1>6, <1>7, <1>8

\* Vaults.
LEMMA TypeVault ==
    ASSUME TypeOK, NEW a \in Actors,
           \/ CreateVault(a) \/ UpdateVault(a) \/ SoftDeleteVault(a) \/ Evict(a)
           \/ FindDeleted(a) \/ RecoverVault(a)
    PROVE  TypeOK'
<1> DEFINE r == req[a]
           v == r.vault
<1>0. r \in Request /\ RequestOK(r) /\ RequestsOK
  BY DEF TypeOK, RequestsOK
<1> USE DEF rows, others, At
<1>1. CASE CreateVault(a)
  <2>1. vault' \in [Vaults -> Row]
    BY <1>1, ConstantRows DEF CreateVault, TypeOK
  <2>2. dependents' \in [Vaults -> SUBSET Dependents]
    BY <1>1 DEF CreateVault, TypeOK, Dependents
  <2>3. RequestsOK'
    BY <1>0, <1>1, FinishOK DEF CreateVault
  <2> QED BY <1>1, <2>1, <2>2, <2>3 DEF CreateVault, TypeOK, RequestsOK
<1>2. CASE UpdateVault(a)
  <2>1. r.prot \in BOOLEAN
    BY <1>0 DEF Request
  <2>2. vault' \in [Vaults -> Row]
    BY <1>2, <2>1, RowFields DEF UpdateVault, TypeOK
  <2>3. "evict" \in StagesOf(r.op)
    BY <1>2 DEF UpdateVault, StagesOf
  <2>4. RequestsOK'
    BY <1>0, <1>2, <2>3, GotoOK DEF UpdateVault
  <2> QED BY <1>2, <2>2, <2>4 DEF UpdateVault, TypeOK, RequestsOK
<1>3. CASE SoftDeleteVault(a)
  <2> DEFINE stamp == IF Active(vault[v]) THEN now ELSE vault[v].deletedAt
             hit == {i \in Contents(v) : Active(item[i])}
  <2>1. v \in Vaults /\ vault[v] \in Row
    BY <1>0, <1>3, Follows DEF SoftDeleteVault, TypeOK
  <2>2. stamp \in Nat
    BY <2>1, RowFields DEF TypeOK
  <2>3. "evict" \in StagesOf(r.op)
    BY <1>3 DEF SoftDeleteVault, StagesOf
  <2>4. CASE Exists(vault[v])
    <3>1. /\ vault' = [vault EXCEPT ![v].deletedAt = stamp]
          /\ item' = [i \in Items |-> IF i \in hit
                                        THEN [item[i] EXCEPT !.deletedAt = stamp] ELSE item[i]]
          /\ cause' = [i \in Items |-> IF i \in hit THEN "cascade" ELSE cause[i]]
          /\ now' = IF Active(vault[v]) THEN now + 1 ELSE now
          /\ Goto(a, "evict")
      BY <1>3, <2>4 DEF SoftDeleteVault
    <3>2. vault' \in [Vaults -> Row] /\ item' \in [Items -> Row]
      <4> HIDE DEF stamp, hit
      <4> QED BY <2>2, <3>1, RowFields DEF TypeOK
    <3>3. cause' \in [Items -> {"none", "user", "cascade"}] /\ now' \in Nat \ {0}
      <4> HIDE DEF stamp, hit
      <4> QED BY <3>1 DEF TypeOK
    <3>4. RequestsOK'
      BY <1>0, <1>3, <2>3, <3>1, GotoOK DEF SoftDeleteVault
    <3> QED BY <1>3, <3>2, <3>3, <3>4 DEF SoftDeleteVault, TypeOK, RequestsOK
  <2>5. CASE ~Exists(vault[v])
    <3>1. RequestsOK'
      BY <1>0, <1>3, <2>5, FinishOK DEF SoftDeleteVault
    <3> QED BY <1>3, <2>5, <3>1 DEF SoftDeleteVault, TypeOK, RequestsOK
  <2> QED BY <2>4, <2>5
<1>4. CASE Evict(a)
  <2>1. RequestsOK'
    BY <1>0, <1>4, FinishOK DEF Evict
  <2> QED BY <1>4, <2>1 DEF Evict, TypeOK, RequestsOK
<1>5. CASE FindDeleted(a)
  <2>1. v \in Vaults /\ vault[v] \in Row /\ r.op \in {"RecoverVault", "PurgeVault"}
    BY <1>0, <1>5, Follows DEF FindDeleted, TypeOK, RequestOK, StagesOf, Ops, ItemOps, VaultOps
  <2>2. CASE SoftDeleted(vault[v]) /\ r.op = "RecoverVault"
    <3>1. req' = [req EXCEPT ![a] = [r EXCEPT !.stamp = vault[v].deletedAt, !.at = "write"]]
      BY <1>5, <2>2 DEF FindDeleted
    <3>2. RequestsOK'
      BY <1>0, <1>5, <2>1, <2>2, <3>1, SetRequest, RequestMove, RowFields DEF FindDeleted, StagesOf
    <3> QED BY <1>5, <3>2 DEF FindDeleted, TypeOK, RequestsOK
  <2>3. CASE SoftDeleted(vault[v]) /\ r.op = "PurgeVault"
    <3>1. req' = [req EXCEPT ![a] = [r EXCEPT !.prot = vault[v].protected, !.at = "vet"]]
      BY <1>5, <2>3 DEF FindDeleted
    <3>2. RequestsOK'
      BY <1>0, <1>5, <2>1, <2>3, <3>1, SetRequest, RequestMove, RowFields DEF FindDeleted, StagesOf
    <3> QED BY <1>5, <3>2 DEF FindDeleted, TypeOK, RequestsOK
  <2>4. CASE ~SoftDeleted(vault[v])
    <3>1. r.op = "PurgeVault" => "lookup" \in StagesOf(r.op)
      BY DEF StagesOf
    <3>2. RequestsOK'
      BY <1>0, <1>5, <2>1, <2>4, <3>1, GotoOK, FinishOK DEF FindDeleted
    <3> QED BY <1>5, <3>2 DEF FindDeleted, TypeOK, RequestsOK
  <2> QED BY <2>1, <2>2, <2>3, <2>4
<1>6. CASE RecoverVault(a)
  <2>1. vault' \in [Vaults -> Row]
    BY <1>6, RowFields DEF RecoverVault, TypeOK
  <2>2. item' \in [Items -> Row]
    BY <1>6, RowFields DEF RecoverVault, TypeOK
  <2>3. cause' \in [Items -> {"none", "user", "cascade"}]
    BY <1>6 DEF RecoverVault, TypeOK
  <2>4. "evict" \in StagesOf(r.op)
    BY <1>6 DEF RecoverVault, StagesOf
  <2>5. RequestsOK'
    BY <1>0, <1>6, <2>4, GotoOK DEF RecoverVault
  <2> QED BY <1>6, <2>1, <2>2, <2>3, <2>5 DEF RecoverVault, TypeOK, RequestsOK
<1> QED BY <1>1, <1>2, <1>3, <1>4, <1>5, <1>6

\* The purge of a vault.
LEMMA TypePurge ==
    ASSUME TypeOK, NEW a \in Actors,
           \/ VetVault(a) \/ PurgeVaultRow(a) \/ DropCached(a)
           \/ PurgeContents(a) \/ PurgeDependents(a)
    PROVE  TypeOK'
<1> DEFINE r == req[a]
<1>0. r \in Request /\ RequestOK(r) /\ RequestsOK
  BY DEF TypeOK, RequestsOK
<1>p. r.op = "PurgeVault" /\ r.at # "idle" /\ r.table \in Tables
  BY <1>0 DEF VetVault, PurgeVaultRow, DropCached, PurgeContents, PurgeDependents,
     RequestOK, StagesOf, Ops, ItemOps, VaultOps, Request
<1>s. {"attempt", "drop", "contents", "trailing"} \subseteq StagesOf(r.op)
  BY <1>p DEF StagesOf
<1> USE DEF rows, others
<1>1. CASE VetVault(a)
  <2>1. RequestsOK'
    <3>1. CASE r.prot \/ HasProtectedContent(r.vault, r.table)
      BY <1>0, <1>1, <3>1, FinishOK DEF VetVault
    <3>2. CASE ~(r.prot \/ HasProtectedContent(r.vault, r.table)) /\ r.table = LastTable
      <4>1. req' = [req EXCEPT ![a] = [r EXCEPT !.at = "attempt", !.table = 1]]
        BY <1>1, <3>2 DEF VetVault
      <4>2. 1 \in Tables
        OBVIOUS
      <4> QED BY <1>0, <1>p, <1>s, <4>1, <4>2, RequestMove, SetRequest
    <3>3. CASE ~(r.prot \/ HasProtectedContent(r.vault, r.table)) /\ r.table # LastTable
      <4>1. req' = [req EXCEPT ![a] = [r EXCEPT !.table = r.table + 1]]
        BY <1>1, <3>3 DEF VetVault
      <4>2. r.table + 1 \in Tables
        BY <1>p, <3>3
      <4> QED BY <1>0, <1>p, <1>s, <4>1, <4>2, RequestMove, SetRequest
    <3> QED BY <3>1, <3>2, <3>3
  <2> QED BY <1>1, <2>1 DEF VetVault, TypeOK, RequestsOK
<1>2. CASE PurgeVaultRow(a)
  <2>1. vault' \in [Vaults -> Row]
    BY <1>2, ConstantRows DEF PurgeVaultRow, TypeOK
  <2>2. RequestsOK'
    BY <1>0, <1>p, <1>s, <1>2, GotoOK DEF PurgeVaultRow
  <2> QED BY <1>2, <2>1, <2>2 DEF PurgeVaultRow, TypeOK, RequestsOK
<1>3. CASE DropCached(a)
  <2>1. RequestsOK'
    BY <1>0, <1>p, <1>s, <1>3, GotoOK DEF DropCached
  <2> QED BY <1>3, <2>1 DEF DropCached, TypeOK, RequestsOK
<1>4. CASE PurgeContents(a)
  <2>1. RequestsOK'
    <3>1. CASE r.table = LastTable
      <4>1. req' = [req EXCEPT ![a] = [r EXCEPT !.at = "trailing", !.table = 1]]
        BY <1>4, <3>1 DEF PurgeContents
      <4>2. 1 \in Tables
        OBVIOUS
      <4> QED BY <1>0, <1>p, <1>s, <4>1, <4>2, RequestMove, SetRequest
    <3>2. CASE r.table # LastTable
      <4>1. req' = [req EXCEPT ![a] = [r EXCEPT !.table = r.table + 1]]
        BY <1>4, <3>2 DEF PurgeContents
      <4>2. r.table + 1 \in Tables
        BY <1>p, <3>2
      <4> QED BY <1>0, <1>p, <1>s, <4>1, <4>2, RequestMove, SetRequest
    <3> QED BY <3>1, <3>2
  <2>2. item' \in [Items -> Row] /\ cause' \in [Items -> {"none", "user", "cascade"}]
    BY <1>4, EraseType DEF PurgeContents
  <2> QED BY <1>4, <2>1, <2>2 DEF PurgeContents, TypeOK, RequestsOK
<1>5. CASE PurgeDependents(a)
  <2>1. RequestsOK'
    <3>1. CASE r.table = Len(DependentTable)
      BY <1>0, <1>5, <3>1, FinishOK DEF PurgeDependents
    <3>2. CASE r.table # Len(DependentTable)
      <4>1. req' = [req EXCEPT ![a] = [r EXCEPT !.table = r.table + 1]]
        BY <1>5, <3>2 DEF PurgeDependents
      <4>2. r.table + 1 \in Tables
        BY <1>p, <3>2 DEF DependentTable
      <4> QED BY <1>0, <1>p, <1>s, <4>1, <4>2, RequestMove, SetRequest
    <3> QED BY <3>1, <3>2
  <2>2. dependents' \in [Vaults -> SUBSET Dependents]
    BY <1>5 DEF PurgeDependents, TypeOK
  <2> QED BY <1>5, <2>1, <2>2 DEF PurgeDependents, TypeOK, RequestsOK
<1> QED BY <1>1, <1>2, <1>3, <1>4, <1>5

\* The purge scheduler, and the steps that are nobody's in particular.
LEMMA TypeSweep ==
    ASSUME TypeOK, Sweep \/ SweepFails
    PROVE  TypeOK'
<1>0. RequestsOK
  BY DEF TypeOK, RequestsOK
<1>n. sweep.at \in {"count", "audit", "delete"} =>
        NextTable \in [at : SweepStages, table : Tables, since : Nat, due : SUBSET Vaults]
  <2>1. sweep \in [at : SweepStages, table : Tables, since : Nat, due : SUBSET Vaults]
    BY DEF TypeOK
  <2>2. CASE sweep.table = LastTable
    <3>1. 1 \in Tables
      OBVIOUS
    <3>2. NextTable = [sweep EXCEPT !.at = "list", !.table = 1]
      BY <2>2 DEF NextTable
    <3> QED BY <2>1, <3>1, <3>2 DEF SweepStages
  <2>3. CASE sweep.table # LastTable
    <3>1. sweep.table + 1 \in Tables
      BY <2>1, <2>3
    <3> QED BY <2>1, <2>3, <3>1 DEF NextTable, SweepStages
  <2> QED BY <2>2, <2>3
<1> USE DEF rows, others
<1>1. CASE SweepStart
  BY <1>1 DEF SweepStart, TypeOK, SweepStages
<1>2. CASE SweepCount
  BY <1>2, <1>n DEF SweepCount, TypeOK, SweepStages
<1>3. CASE SweepAttempt
  BY <1>3 DEF SweepAttempt, TypeOK, SweepStages, AttemptRows
<1>4. CASE SweepDelete
  <2>1. item' \in [Items -> Row] /\ cause' \in [Items -> {"none", "user", "cascade"}]
    BY <1>4, EraseType DEF SweepDelete
  <2> QED BY <1>4, <2>1, <1>n DEF SweepDelete, TypeOK
<1>5. CASE SweepList
  BY <1>5 DEF SweepList, TypeOK, SweepStages
<1>6. ASSUME NEW v \in Vaults, SweepVault(v) PROVE TypeOK'
  <2>1. sweep' \in [at : SweepStages, table : Tables, since : Nat, due : SUBSET Vaults]
    BY <1>6 DEF SweepVault, TypeOK
  <2> DEFINE r == [Idle EXCEPT !.op = "PurgeVault", !.at = FirstStage("PurgeVault"), !.vault = v]
  <2>2. FirstStage("PurgeVault") = "find"
    BY DEF FirstStage
  <2>3. r \in Request
    BY <2>2, IdleType DEF Idle, Request, Stages, Ops, VaultOps
  <2>4. RequestOK(r)
    BY <2>2 DEF Idle, RequestOK, StagesOf, Ops, VaultOps, ItemOps
  <2>5. RequestsOK'
    BY <1>0, <1>6, <2>3, <2>4, SetRequest DEF SweepVault, Actors
  <2> QED BY <1>6, <2>1, <2>5 DEF SweepVault, TypeOK, RequestsOK
<1>7. CASE SweepDone
  BY <1>7 DEF SweepDone, TypeOK, SweepStages
<1>8. CASE SweepFails
  BY <1>8, <1>n DEF SweepFails, TypeOK
<1> QED BY <1>1, <1>2, <1>3, <1>4, <1>5, <1>6, <1>7, <1>8 DEF Sweep

LEMMA TypeRest ==
    ASSUME TypeOK,
           \/ \E a \in Actors : Fail(a)
           \/ \E v \in Vaults : CacheExpire(v)
           \/ Restart \/ Tick \/ UNCHANGED vars
    PROVE  TypeOK'
<1> USE DEF rows, others
<1>1. ASSUME NEW a \in Actors, Fail(a) PROVE TypeOK'
  <2>1. RequestsOK'
    BY <1>1, FinishOK DEF Fail, TypeOK, RequestsOK
  <2> QED BY <1>1, <2>1 DEF Fail, TypeOK, RequestsOK
<1>2. ASSUME NEW v \in Vaults, CacheExpire(v) PROVE TypeOK'
  BY <1>2 DEF CacheExpire, TypeOK
<1>3. CASE Restart
  BY <1>3, IdleType DEF Restart, TypeOK, SweepStages
<1>4. CASE Tick
  BY <1>4 DEF Tick, TypeOK
<1>5. CASE UNCHANGED vars
  BY <1>5 DEF vars, TypeOK
<1> QED BY <1>1, <1>2, <1>3, <1>4, <1>5

\* The rows, the cache, the requests and the sweep keep their types, and every
\* request is at a statement its operation has, whatever fails or interleaves.
THEOREM TypeCorrect == Spec => []TypeOK
<1>1. TypeOK /\ [Next]_vars => TypeOK'
  BY TypeIssue, TypeLookup, TypeItem, TypeVault, TypePurge, TypeSweep, TypeRest
     DEF Next, Step
<1> QED
  BY <1>1, TypeInit, PTL DEF Spec

-----------------------------------------------------------------------------
(* The audit row comes first.  The invariant is inductive once it also says *)
(* that a request, or the sweep, about to remove a row has announced it.    *)

AnnouncedBy(r, A) ==
    /\ r.at = "write" /\ r.op = "DeleteVault" => <<"delete_vault", r.vault>> \in A
    /\ r.at \in {"row", "drop", "contents", "trailing"} => <<"purge_vault", r.vault>> \in A
    /\ r.at \in {"check", "erase"} => <<"purge_item", r.item>> \in A

Announced ==
    /\ \A a \in Actors : AnnouncedBy(req[a], attempts)
    /\ sweep.at = "delete" => <<"auto_purge", sweep.table>> \in attempts

LEMMA AnnouncedGrows ==
    ASSUME NEW r, NEW A, NEW B, A \subseteq B, AnnouncedBy(r, A)
    PROVE  AnnouncedBy(r, B)
  BY DEF AnnouncedBy

\* A step of one request disturbs no other.
LEMMA AnnouncedSet ==
    ASSUME TypeOK, Announced, NEW a \in Actors, NEW r, AnnouncedBy(r, attempts'),
           req' = [req EXCEPT ![a] = r], attempts \subseteq attempts'
    PROVE  \A b \in Actors : AnnouncedBy(req'[b], attempts')
<1> SUFFICES ASSUME NEW b \in Actors PROVE AnnouncedBy(req'[b], attempts')
  OBVIOUS
<1>1. req'[b] = IF b = a THEN r ELSE req[b]
  BY DEF TypeOK
<1> QED
  BY <1>1, AnnouncedGrows DEF Announced

LEMMA AnnouncedRequest ==
    ASSUME TypeOK, Announced, NEW a \in Actors, Step(a)
    PROVE  Announced'
<1> DEFINE r == req[a]
<1>0. r \in Request /\ RequestOK(r) /\ AnnouncedBy(r, attempts)
  BY DEF TypeOK, Announced
<1>i. AnnouncedBy(Idle, attempts)
  BY DEF AnnouncedBy, Idle
<1>s. attempts \subseteq attempts' /\ sweep' = sweep
  BY DEF Step, LookupHit, LookupRead, LookupMiss, Fill, RecordAttempt, CreateItem, ReadItem,
     SetPurgeProtection, DeleteItem, RecoverItem, VetItem, CheckItem, EraseItem, CreateVault,
     UpdateVault, SoftDeleteVault, Evict, FindDeleted, RecoverVault, VetVault,
     PurgeVaultRow, DropCached, PurgeContents, PurgeDependents
<1>q. SUFFICES \E x : req' = [req EXCEPT ![a] = x] /\ AnnouncedBy(x, attempts')
  BY <1>s, AnnouncedSet DEF Announced
<1>f. CASE Finish(a)
  BY <1>f, <1>i, <1>s, AnnouncedGrows DEF Finish
<1>g. ASSUME NEW s, Goto(a, s), AnnouncedBy([r EXCEPT !.at = s], attempts')
      PROVE  \E x : req' = [req EXCEPT ![a] = x] /\ AnnouncedBy(x, attempts')
  BY <1>g DEF Goto
<1>l. AfterLookup(r.op) \in {"vet", "attempt", "body"}
  BY DEF AfterLookup
<1>1. CASE LookupHit(a)
  <2>1. PICK p \in cache[r.vault] : req' = [req EXCEPT ![a].prot = p, ![a].at = AfterLookup(r.op)]
    BY <1>1 DEF LookupHit
  <2>2. AnnouncedBy([r EXCEPT !.prot = p, !.at = AfterLookup(r.op)], attempts')
    BY <1>0, <1>l DEF AnnouncedBy, Request
  <2> QED BY <2>1, <2>2
<1>3. CASE LookupRead(a)
  <2>1. AnnouncedBy([r EXCEPT !.prot = vault[r.vault].protected, !.at = "fill"], attempts')
    BY <1>0 DEF AnnouncedBy, Request
  <2> QED BY <1>3, <2>1 DEF LookupRead
<1>4. CASE LookupMiss(a) \/ Evict(a) \/ SetPurgeProtection(a) \/ DeleteItem(a) \/ RecoverItem(a)
           \/ EraseItem(a) \/ CreateVault(a)
  BY <1>4, <1>f DEF LookupMiss, Evict, SetPurgeProtection, DeleteItem, RecoverItem, EraseItem,
     CreateVault
<1>5. CASE Fill(a)
  <2>1. AnnouncedBy([r EXCEPT !.at = AfterLookup(r.op)], attempts')
    BY <1>0, <1>l DEF AnnouncedBy, Request
  <2> QED BY <1>5, <1>g, <2>1 DEF Fill
<1>6. CASE CreateItem(a) \/ ReadItem(a) \/ VetItem(a) \/ UpdateVault(a)
           \/ SoftDeleteVault(a) \/ RecoverVault(a)
  <2>1. \A s \in {"protect", "attempt", "evict"} : AnnouncedBy([r EXCEPT !.at = s], attempts')
    BY <1>0 DEF AnnouncedBy, Request
  <2> QED BY <1>6, <1>f, <1>g, <2>1 DEF CreateItem, ReadItem, VetItem, UpdateVault,
             SoftDeleteVault, RecoverVault
<1>7. CASE CheckItem(a)
  <2>1. AnnouncedBy([r EXCEPT !.at = "erase"], attempts')
    BY <1>0, <1>7, <1>s DEF CheckItem, AnnouncedBy, Request
  <2> QED BY <1>7, <1>f, <1>g, <2>1 DEF CheckItem
<1>8. CASE FindDeleted(a)
  <2>1. r.op \in {"RecoverVault", "PurgeVault"}
    BY <1>0, <1>8 DEF FindDeleted, RequestOK, StagesOf, Ops, ItemOps, VaultOps
  <2>2. CASE ~SoftDeleted(vault[r.vault])
    <3>1. AnnouncedBy([r EXCEPT !.at = "lookup"], attempts')
      BY <1>0 DEF AnnouncedBy, Request
    <3> QED BY <1>8, <1>f, <1>g, <2>2, <3>1 DEF FindDeleted
  <2>3. CASE SoftDeleted(vault[r.vault]) /\ r.op = "RecoverVault"
    <3>1. AnnouncedBy([r EXCEPT !.stamp = vault[r.vault].deletedAt, !.at = "write"], attempts')
      BY <1>0, <2>3 DEF AnnouncedBy, Request
    <3>2. req' = [req EXCEPT ![a] = [r EXCEPT !.stamp = vault[r.vault].deletedAt, !.at = "write"]]
      BY <1>8, <2>3 DEF FindDeleted
    <3> QED BY <3>1, <3>2
  <2>4. CASE SoftDeleted(vault[r.vault]) /\ r.op = "PurgeVault"
    <3>1. AnnouncedBy([r EXCEPT !.prot = vault[r.vault].protected, !.at = "vet"], attempts')
      BY <1>0 DEF AnnouncedBy, Request
    <3>2. req' = [req EXCEPT ![a] = [r EXCEPT !.prot = vault[r.vault].protected, !.at = "vet"]]
      BY <1>8, <2>4 DEF FindDeleted
    <3> QED BY <3>1, <3>2
  <2> QED BY <2>1, <2>2, <2>3, <2>4
<1>9. CASE VetVault(a)
  <2>1. /\ AnnouncedBy([r EXCEPT !.at = "attempt", !.table = 1], attempts')
        /\ AnnouncedBy([r EXCEPT !.table = @ + 1], attempts')
    BY <1>0, <1>9 DEF VetVault, AnnouncedBy, Request
  <2> QED BY <1>9, <1>f, <2>1 DEF VetVault
<1>10. CASE PurgeVaultRow(a) \/ DropCached(a)
  <2>1. AnnouncedBy([r EXCEPT !.at = "drop"], attempts')
        /\ AnnouncedBy([r EXCEPT !.at = "contents"], attempts')
    BY <1>0, <1>10, <1>s DEF PurgeVaultRow, DropCached, AnnouncedBy, Request
  <2> QED BY <1>10, <1>g, <2>1 DEF PurgeVaultRow, DropCached
<1>11. CASE PurgeContents(a)
  <2>1. /\ AnnouncedBy([r EXCEPT !.at = "trailing", !.table = 1], attempts')
        /\ AnnouncedBy([r EXCEPT !.table = @ + 1], attempts')
    BY <1>0, <1>11, <1>s DEF PurgeContents, AnnouncedBy, Request
  <2> QED BY <1>11, <2>1 DEF PurgeContents
<1>12. CASE PurgeDependents(a)
  <2>1. AnnouncedBy([r EXCEPT !.table = @ + 1], attempts')
    BY <1>0, <1>12, <1>s DEF PurgeDependents, AnnouncedBy, Request
  <2> QED BY <1>12, <1>f, <2>1 DEF PurgeDependents
<1>2. CASE RecordAttempt(a)
  <2>1. AnnouncedBy([r EXCEPT !.at = AfterAttempt(r.op)], attempts')
    BY <1>0, <1>2 DEF RecordAttempt, AnnouncedBy, AttemptOf, AfterAttempt, RequestOK, Request,
       StagesOf, Ops, ItemOps, VaultOps
  <2> QED BY <1>2, <1>g, <2>1 DEF RecordAttempt
<1> QED BY <1>1, <1>2, <1>3, <1>4, <1>5, <1>6, <1>7, <1>8, <1>9, <1>10, <1>11, <1>12 DEF Step

LEMMA AnnouncedRest ==
    ASSUME TypeOK, Announced,
           \/ \E c \in Clients : Issue(c)
           \/ \E a \in Actors : Fail(a)
           \/ Sweep \/ SweepFails
           \/ \E v \in Vaults : CacheExpire(v)
           \/ Restart \/ Tick \/ UNCHANGED vars
    PROVE  Announced'
<1>i. \A A : AnnouncedBy(Idle, A)
  BY DEF AnnouncedBy, Idle
<1>n. sweep \in [at : SweepStages, table : Tables, since : Nat, due : SUBSET Vaults]
        => NextTable.at # "delete"
  BY DEF NextTable
<1>1. ASSUME NEW c \in Clients, Issue(c) PROVE Announced'
  <2>1. PICK r \in Request : req' = [req EXCEPT ![c] = r] /\ r.at \in {"body", "find", "lookup"}
    BY <1>1, IssueRequest
  <2>2. AnnouncedBy(r, attempts')
    BY <2>1 DEF AnnouncedBy
  <2> QED BY <1>1, <2>1, <2>2, AnnouncedSet DEF Issue, Announced, Actors
<1>2. ASSUME NEW a \in Actors, Fail(a) PROVE Announced'
  BY <1>2, <1>i, AnnouncedSet DEF Fail, Finish, Announced
<1>3. ASSUME NEW v \in Vaults, SweepVault(v) PROVE Announced'
  <2> DEFINE r == [Idle EXCEPT !.op = "PurgeVault", !.at = FirstStage("PurgeVault"), !.vault = v]
  <2>1. AnnouncedBy(r, attempts')
    BY DEF AnnouncedBy, Idle, FirstStage
  <2>2. sweep'.at # "delete"
    BY <1>3 DEF SweepVault, TypeOK
  <2> QED BY <1>3, <2>1, <2>2, AnnouncedSet DEF SweepVault, Announced, Actors
<1>4. CASE SweepStart \/ SweepCount \/ SweepDelete \/ SweepList \/ SweepDone \/ SweepFails
  <2>1. sweep'.at # "delete" /\ req' = req /\ attempts' = attempts
    BY <1>4, <1>n DEF SweepStart, SweepCount, SweepDelete, SweepList, SweepDone, SweepFails, TypeOK
  <2> QED BY <2>1 DEF Announced
<1>5. CASE SweepAttempt
  <2>1. <<"auto_purge", sweep'.table>> \in attempts' /\ req' = req /\ attempts \subseteq attempts'
    BY <1>5 DEF SweepAttempt, TypeOK
  <2> QED BY <2>1, AnnouncedGrows DEF Announced
<1>6. CASE Restart
  BY <1>6, <1>i DEF Restart, Announced
<1>7. CASE Tick \/ UNCHANGED vars \/ \E v \in Vaults : CacheExpire(v)
  BY <1>7 DEF Tick, vars, CacheExpire, Announced
<1> QED BY <1>1, <1>2, <1>3, <1>4, <1>5, <1>6, <1>7 DEF Sweep

LEMMA AnnouncedNext == TypeOK /\ Announced /\ [Next]_vars => Announced'
  BY AnnouncedRequest, AnnouncedRest DEF Next


\* Only five statements make a row disappear, or delete a vault.
RemovalStep(a) == SoftDeleteVault(a) \/ PurgeVaultRow(a) \/ EraseItem(a) \/ PurgeContents(a)

Kept == /\ attempts \subseteq attempts'
        /\ \A v \in Vaults : /\ vault'[v].phase = "gone" => vault[v].phase = "gone"
                             /\ SoftDeleted(vault'[v]) => SoftDeleted(vault[v])
        /\ \A i \in Items : item'[i].phase = "gone" => item[i].phase = "gone"

LEMMA OtherwiseKept ==
    ASSUME TypeOK, [Next]_vars, ~SweepDelete, \A a \in Actors : ~RemovalStep(a)
    PROVE  Kept
<1> USE DEF rows, others
<1>1. ASSUME NEW a \in Actors, Step(a) PROVE Kept
  <2>1. CASE \/ LookupHit(a) \/ LookupRead(a) \/ LookupMiss(a) \/ Fill(a) \/ RecordAttempt(a)
             \/ ReadItem(a) \/ VetItem(a) \/ CheckItem(a) \/ Evict(a) \/ FindDeleted(a)
             \/ VetVault(a) \/ DropCached(a) \/ PurgeDependents(a)
    BY <2>1 DEF LookupHit, LookupRead, LookupMiss, Fill, RecordAttempt, ReadItem, VetItem,
       CheckItem, Evict, FindDeleted, VetVault, DropCached, PurgeDependents, Kept
  <2>2. CASE CreateItem(a) \/ SetPurgeProtection(a) \/ DeleteItem(a) \/ RecoverItem(a)
    <3>1. \A i \in Items : item'[i].phase = "gone" => item[i].phase = "gone"
      <4>1. CASE CreateItem(a)
        BY <4>1 DEF CreateItem, TypeOK, LiveRow, NewRow
      <4>2. CASE SetPurgeProtection(a)
        <5>1. item' = item \/ item' = [item EXCEPT ![req[a].item].protected = (req[a].want = "on")]
          BY <4>2 DEF SetPurgeProtection
        <5>2. item \in [Items -> Row]
          BY DEF TypeOK
        <5> QED BY <5>1, <5>2 DEF Row
      <4>3. CASE DeleteItem(a)
        <5>1. item' = item \/ item' = [item EXCEPT ![req[a].item].deletedAt = now]
          BY <4>3 DEF DeleteItem
        <5>2. item \in [Items -> Row]
          BY DEF TypeOK
        <5> QED BY <5>1, <5>2 DEF Row
      <4>4. CASE RecoverItem(a)
        <5>1. item' = item \/ item' = [item EXCEPT ![req[a].item].deletedAt = Never]
          BY <4>4 DEF RecoverItem
        <5>2. item \in [Items -> Row]
          BY DEF TypeOK
        <5> QED BY <5>1, <5>2 DEF Row
      <4> QED BY <2>2, <4>1, <4>2, <4>3, <4>4
    <3> QED BY <2>2, <3>1 DEF CreateItem, SetPurgeProtection, DeleteItem, RecoverItem, Kept
  <2>3. CASE CreateVault(a)
    <3>1. \A v \in Vaults : /\ vault'[v].phase = "gone" => vault[v].phase = "gone"
                            /\ SoftDeleted(vault'[v]) => SoftDeleted(vault[v])
      <4> DEFINE r == [LiveRow EXCEPT !.protected = (req[a].want = "on")]
      <4>1. r.phase = "row" /\ r.deletedAt = Never
        BY DEF LiveRow, NewRow
      <4>2. vault' = vault \/ vault' = [vault EXCEPT ![req[a].vault] = r]
        BY <2>3 DEF CreateVault
      <4> HIDE DEF r
      <4> QED BY <4>1, <4>2 DEF TypeOK, SoftDeleted
    <3> QED BY <2>3, <3>1 DEF CreateVault, Kept
  <2>4. CASE UpdateVault(a) \/ RecoverVault(a)
    <3>1. \A v \in Vaults : /\ vault'[v].phase = "gone" => vault[v].phase = "gone"
                            /\ SoftDeleted(vault'[v]) => SoftDeleted(vault[v])
      BY <2>4 DEF UpdateVault, RecoverVault, TypeOK, Row, SoftDeleted, Exists
    <3>2. \A i \in Items : item'[i].phase = "gone" => item[i].phase = "gone"
      <4>1. CASE UpdateVault(a)
        BY <4>1 DEF UpdateVault
      <4>2. CASE RecoverVault(a)
        <5> DEFINE hit == {i \in Contents(req[a].vault) :
                             SoftDeleted(item[i]) /\ item[i].deletedAt = req[a].stamp}
        <5>1. item' = [i \in Items |-> IF i \in hit
                                          THEN [item[i] EXCEPT !.deletedAt = Never] ELSE item[i]]
          BY <4>2 DEF RecoverVault
        <5> HIDE DEF hit
        <5> QED BY <5>1 DEF TypeOK, Row
      <4> QED BY <2>4, <4>1, <4>2
    <3> QED BY <2>4, <3>1, <3>2 DEF UpdateVault, RecoverVault, Kept
  <2> QED BY <1>1, <2>1, <2>2, <2>3, <2>4 DEF Step, RemovalStep
<1>2. CASE ~\E a \in Actors : Step(a)
  BY <1>2 DEF Next, vars, Issue, Fail, Sweep, SweepStart, SweepCount, SweepAttempt, SweepList,
     SweepVault, SweepDone, SweepFails, CacheExpire, Restart, Tick, Kept
<1> QED BY <1>1, <1>2

LEMMA RemovalAnnounced ==
    ASSUME TypeOK, Announced, AuditedRemoval, NEW a \in Actors, RemovalStep(a)
    PROVE  AuditedRemoval'
<1> DEFINE r == req[a]
           v == r.vault
<1>0. r \in Request /\ RequestOK(r) /\ AnnouncedBy(r, attempts)
  BY DEF TypeOK, Announced
<1> USE DEF rows, others
<1>1. CASE SoftDeleteVault(a)
  <2>1. r.op = "DeleteVault" /\ <<"delete_vault", v>> \in attempts /\ attempts' = attempts
    BY <1>0, <1>1 DEF SoftDeleteVault, At, AnnouncedBy
  <2>2. \A w \in Vaults : /\ vault'[w].phase = vault[w].phase
                          /\ w # v => vault'[w] = vault[w]
    BY <1>1 DEF SoftDeleteVault, TypeOK, Row
  <2>3. \A i \in Items : item'[i].phase = item[i].phase
    <3> DEFINE hit == {i \in Contents(v) : Active(item[i])}
               stamp == IF Active(vault[v]) THEN now ELSE vault[v].deletedAt
    <3>1. \/ item' = item
          \/ item' = [i \in Items |-> IF i \in hit
                                        THEN [item[i] EXCEPT !.deletedAt = stamp] ELSE item[i]]
      BY <1>1 DEF SoftDeleteVault
    <3> HIDE DEF hit, stamp
    <3>2. SUFFICES ASSUME NEW i \in Items PROVE item'[i].phase = item[i].phase
      OBVIOUS
    <3>3. item'[i] \in {item[i], [item[i] EXCEPT !.deletedAt = stamp]}
      BY <3>1
    <3>4. item[i] \in Row
      BY DEF TypeOK
    <3> QED BY <3>3, <3>4 DEF Row
  <2> QED BY <2>1, <2>2, <2>3 DEF AuditedRemoval, SoftDeleted, Exists
<1>2. CASE PurgeVaultRow(a)
  <2>1. <<"purge_vault", v>> \in attempts
    BY <1>0, <1>2 DEF PurgeVaultRow, AnnouncedBy
  <2>2. \A w \in Vaults : w # v => vault'[w] = vault[w]
    BY <1>2 DEF PurgeVaultRow, TypeOK
  <2>3. ~SoftDeleted(vault'[v]) \/ vault'[v] = vault[v]
    BY <1>0, <1>2, Follows DEF PurgeVaultRow, SoftDeleted, Exists, GoneRow, NewRow, TypeOK
  <2> QED BY <1>2, <2>1, <2>2, <2>3 DEF PurgeVaultRow, AuditedRemoval
<1>3. CASE EraseItem(a)
  <2>1. <<"purge_item", r.item>> \in attempts
    BY <1>0, <1>3 DEF EraseItem, AnnouncedBy
  <2>2. \A i \in Items : i # r.item => item'[i] = item[i]
    BY <1>3 DEF EraseItem, Erase
  <2> QED BY <1>3, <2>1, <2>2 DEF EraseItem, AuditedRemoval
<1>4. CASE PurgeContents(a)
  <2>1. <<"purge_vault", v>> \in attempts
    BY <1>0, <1>4 DEF PurgeContents, AnnouncedBy
  <2>2. \A i \in Items : VaultOf[i] # v => item'[i] = item[i]
    BY <1>4 DEF PurgeContents, Erase, Contents
  <2> QED BY <1>4, <2>1, <2>2 DEF PurgeContents, AuditedRemoval
<1> QED BY <1>1, <1>2, <1>3, <1>4 DEF RemovalStep

\* Whatever fails, interleaves or restarts, no row is removed and no vault is
\* deleted without the "attempt" row that runCritical, WithCritical or
\* auditedPurgeTable writes first.
THEOREM RemovalIsAudited == Spec => []AuditedRemoval
<1>1. Init => Announced /\ AuditedRemoval
  BY DEF Init, Announced, AnnouncedBy, AuditedRemoval, Idle, NewRow, LiveRow, SoftDeleted
<1>2. TypeOK /\ Announced /\ AuditedRemoval /\ [Next]_vars => AuditedRemoval'
  <2> SUFFICES ASSUME TypeOK, Announced, AuditedRemoval, [Next]_vars PROVE AuditedRemoval'
    OBVIOUS
  <2>1. CASE SweepDelete
    <3>1. <<"auto_purge", sweep.table>> \in attempts
      BY <2>1 DEF SweepDelete, Announced
    <3>2. \A i \in Items : TableOf[i] # sweep.table => item'[i] = item[i]
      BY <2>1 DEF SweepDelete, Erase, ExpiredIn
    <3> QED BY <2>1, <3>1, <3>2 DEF SweepDelete, AuditedRemoval
  <2>2. CASE \E a \in Actors : RemovalStep(a)
    BY <2>2, RemovalAnnounced
  <2>3. CASE ~SweepDelete /\ \A a \in Actors : ~RemovalStep(a)
    BY <2>3, OtherwiseKept DEF Kept, AuditedRemoval
  <2> QED BY <2>1, <2>2, <2>3
<1> QED
  BY <1>1, <1>2, AnnouncedNext, TypeCorrect, PTL DEF Spec

-----------------------------------------------------------------------------
(* A user's deletion stays.  What keeps a vault's recovery off the items    *)
(* users deleted is that no two deletions share a stamp, so the invariant   *)
(* says so of every stamp in a row or in a request's memory.                *)

Past == /\ \A v \in Vaults : vault[v].deletedAt < now
        /\ \A i \in Items : item[i].deletedAt < now
        /\ \A a \in Actors : req[a].stamp < now

UserDeleted(i) == SoftDeleted(item[i]) /\ cause[i] = "user"
Distinct == \A i \in Items : UserDeleted(i) =>
               /\ \A v \in Vaults : vault[v].deletedAt # item[i].deletedAt
               /\ \A a \in Actors : req[a].stamp # item[i].deletedAt

\* The steps that stamp a row or restore one.
StampStep(a) == \/ DeleteItem(a) \/ RecoverItem(a) \/ SoftDeleteVault(a)
                \/ FindDeleted(a) \/ RecoverVault(a)

\* All others leave stamps alone, or drop them.
SameStamps ==
    /\ now' \in Nat /\ now <= now'
    /\ \A v \in Vaults : vault'[v].deletedAt \in {Never, vault[v].deletedAt}
    /\ \A a \in Actors : req'[a].stamp \in {Never, req[a].stamp}
    /\ \A i \in Items : /\ item'[i].deletedAt \in {Never, item[i].deletedAt}
                        /\ SoftDeleted(item'[i]) => /\ SoftDeleted(item[i]) /\ cause'[i] = cause[i]
                                                    /\ item'[i].deletedAt = item[i].deletedAt
                        /\ UserDeleted(i) => ~Active(item'[i])

LEMMA SameStampsKeep ==
    ASSUME TypeOK, Past, Distinct, SameStamps
    PROVE  Past' /\ Distinct'
<1>1. Past'
  <2>1. \A n, m \in Nat : n < now => n < now' /\ Never < now'
    BY DEF TypeOK, SameStamps
  <2>2. /\ \A v \in Vaults : vault[v].deletedAt \in Nat
        /\ \A i \in Items : item[i].deletedAt \in Nat
        /\ \A a \in Actors : req[a].stamp \in Nat
    BY DEF TypeOK, Row, Request
  <2> QED BY <2>1, <2>2 DEF Past, SameStamps
<1>2. Distinct'
  BY DEF Distinct, SameStamps, UserDeleted, SoftDeleted
<1> QED BY <1>1, <1>2

LEMMA StampsRequest ==
    ASSUME TypeOK, NEW a \in Actors, Step(a), ~StampStep(a)
    PROVE  SameStamps
<1> DEFINE r == req[a]
<1> USE DEF rows, others
<1>n. now' \in Nat /\ now <= now' /\ now' = now
  BY DEF TypeOK, Step, StampStep, LookupHit, LookupRead, LookupMiss, Fill, RecordAttempt,
     CreateItem, ReadItem, SetPurgeProtection, VetItem, CheckItem, EraseItem, CreateVault,
     UpdateVault, Evict, VetVault, PurgeVaultRow, DropCached, PurgeContents, PurgeDependents
<1>q. \A b \in Actors : req'[b].stamp \in {Never, req[b].stamp}
  <2>f. CASE Finish(a)
    BY <2>f DEF Finish, Idle, TypeOK
  <2>g. CASE \E s : Goto(a, s)
    BY <2>g DEF Goto, TypeOK, Request
  <2>1. CASE \E p, s : req' = [req EXCEPT ![a].prot = p, ![a].at = s]
    BY <2>1 DEF TypeOK, Request
  <2>2. CASE \E x : x.stamp = r.stamp /\ req' = [req EXCEPT ![a] = x]
    BY <2>2 DEF TypeOK
  <2>t. \A s, t : [r EXCEPT !.at = s, !.table = t].stamp = r.stamp /\ [r EXCEPT !.table = t].stamp = r.stamp
    BY DEF TypeOK, Request
  <2>3. CASE \/ LookupHit(a) \/ LookupRead(a) \/ LookupMiss(a) \/ Fill(a) \/ RecordAttempt(a)
             \/ ReadItem(a) \/ VetItem(a) \/ CheckItem(a) \/ Evict(a) \/ CreateItem(a)
             \/ SetPurgeProtection(a) \/ EraseItem(a) \/ CreateVault(a) \/ UpdateVault(a)
             \/ PurgeVaultRow(a) \/ DropCached(a)
    BY <2>3, <2>f, <2>g, <2>1 DEF LookupHit, LookupRead, LookupMiss, Fill, RecordAttempt,
       CreateItem, ReadItem, SetPurgeProtection, VetItem, CheckItem, EraseItem, CreateVault,
       UpdateVault, Evict, PurgeVaultRow, DropCached
  <2>4. CASE VetVault(a) \/ PurgeContents(a) \/ PurgeDependents(a)
    <3>1. CASE VetVault(a)
      <4>1. \/ Finish(a)
            \/ req' = [req EXCEPT ![a] = [r EXCEPT !.at = "attempt", !.table = 1]]
            \/ req' = [req EXCEPT ![a] = [r EXCEPT !.table = r.table + 1]]
        BY <3>1 DEF VetVault
      <4> QED BY <4>1, <2>f, <2>2, <2>t
    <3>2. CASE PurgeContents(a)
      <4>1. \/ req' = [req EXCEPT ![a] = [r EXCEPT !.at = "trailing", !.table = 1]]
            \/ req' = [req EXCEPT ![a] = [r EXCEPT !.table = r.table + 1]]
        BY <3>2 DEF PurgeContents
      <4> QED BY <4>1, <2>2, <2>t
    <3>3. CASE PurgeDependents(a)
      BY <3>3, <2>f, <2>2, <2>t DEF PurgeDependents
    <3> QED BY <2>4, <3>1, <3>2, <3>3
  <2> QED BY <2>3, <2>4 DEF Step, StampStep
<1>v. \A v \in Vaults : vault'[v].deletedAt \in {Never, vault[v].deletedAt}
  <2>1. CASE CreateVault(a)
    <3> DEFINE x == [LiveRow EXCEPT !.protected = (req[a].want = "on")]
    <3>1. x.deletedAt = Never
      BY DEF LiveRow, NewRow
    <3>2. vault' = vault \/ vault' = [vault EXCEPT ![req[a].vault] = x]
      BY <2>1 DEF CreateVault
    <3> HIDE DEF x
    <3> QED BY <3>1, <3>2 DEF TypeOK
  <2>2. CASE UpdateVault(a)
    BY <2>2 DEF UpdateVault, TypeOK, Row
  <2>3. CASE PurgeVaultRow(a)
    BY <2>3 DEF PurgeVaultRow, TypeOK, GoneRow, NewRow
  <2>4. CASE ~(CreateVault(a) \/ UpdateVault(a) \/ PurgeVaultRow(a))
    <3>1. vault' = vault
      BY <2>4 DEF Step, StampStep, LookupHit, LookupRead, LookupMiss, Fill, RecordAttempt,
         CreateItem, ReadItem, SetPurgeProtection, VetItem, CheckItem, EraseItem,
         Evict, VetVault, DropCached, PurgeContents, PurgeDependents
    <3> QED BY <3>1
  <2> QED BY <2>1, <2>2, <2>3, <2>4
<1> DEFINE Good(i) == /\ item'[i].deletedAt \in {Never, item[i].deletedAt}
                      /\ SoftDeleted(item'[i]) => /\ SoftDeleted(item[i]) /\ cause'[i] = cause[i]
                                                  /\ item'[i].deletedAt = item[i].deletedAt
                      /\ UserDeleted(i) => ~Active(item'[i])
<1>i. \A i \in Items : Good(i)
  <2>1. CASE CreateItem(a)
    <3>1. /\ cause' = cause
          /\ \/ item' = item
             \/ item[r.item].phase = "new" /\ item' = [item EXCEPT ![r.item] = LiveRow]
      BY <2>1 DEF CreateItem
    <3> QED BY <3>1 DEF TypeOK, LiveRow, NewRow, UserDeleted, SoftDeleted, Active, Exists
  <2>2. CASE SetPurgeProtection(a)
    <3>1. /\ cause' = cause
          /\ \/ item' = item
             \/ item' = [item EXCEPT ![r.item].protected = (r.want = "on")]
      BY <2>2 DEF SetPurgeProtection
    <3>2. \A i \in Items : item'[i].phase = item[i].phase /\ item'[i].deletedAt = item[i].deletedAt
      <4>1. item \in [Items -> Row]
        BY DEF TypeOK
      <4> QED BY <3>1, <4>1 DEF Row
    <3> QED BY <3>1, <3>2 DEF UserDeleted, SoftDeleted, Active, Exists
  <2>3. CASE EraseItem(a) \/ PurgeContents(a)
    <3>1. PICK gone : Erase(gone)
      BY <2>3 DEF EraseItem, PurgeContents
    <3> QED BY <3>1 DEF Erase, GoneRow, NewRow, UserDeleted, SoftDeleted, Active, Exists
  <2>4. CASE ~(CreateItem(a) \/ SetPurgeProtection(a) \/ EraseItem(a) \/ PurgeContents(a))
    <3>1. item' = item /\ cause' = cause
      BY <2>4 DEF Step, StampStep, LookupHit, LookupRead, LookupMiss, Fill, RecordAttempt,
         ReadItem, VetItem, CheckItem, CreateVault, UpdateVault,
         Evict, VetVault, PurgeVaultRow, DropCached, PurgeDependents
    <3> QED BY <3>1 DEF UserDeleted, SoftDeleted, Active
  <2> QED BY <2>1, <2>2, <2>3, <2>4
<1> QED BY <1>n, <1>q, <1>v, <1>i DEF SameStamps

LEMMA StampsRest ==
    ASSUME TypeOK,
           \/ \E c \in Clients : Issue(c)
           \/ \E a \in Actors : Fail(a)
           \/ Sweep \/ SweepFails
           \/ \E v \in Vaults : CacheExpire(v)
           \/ Restart \/ Tick \/ UNCHANGED vars
    PROVE  SameStamps
<1> USE DEF rows, others
<1>k. ASSUME vault' = vault, item' = item, cause' = cause, now' \in {now, now + 1},
             \A a \in Actors : req'[a].stamp \in {Never, req[a].stamp}
      PROVE  SameStamps
  BY <1>k DEF SameStamps, TypeOK, UserDeleted, SoftDeleted, Active
<1>1. ASSUME NEW c \in Clients, Issue(c) PROVE SameStamps
  <2>1. \A a \in Actors : req'[a].stamp \in {Never, req[a].stamp}
    BY <1>1, IssueRequest DEF TypeOK, Actors
  <2> QED BY <1>1, <1>k, <2>1 DEF Issue
<1>2. ASSUME NEW a \in Actors, Fail(a) PROVE SameStamps
  <2>1. \A b \in Actors : req'[b].stamp \in {Never, req[b].stamp}
    BY <1>2 DEF Fail, Finish, Idle, TypeOK
  <2> QED BY <1>2, <1>k, <2>1 DEF Fail
<1>3. ASSUME NEW v \in Vaults, SweepVault(v) PROVE SameStamps
  <2>1. \A b \in Actors : req'[b].stamp \in {Never, req[b].stamp}
    BY <1>3 DEF SweepVault, Idle, TypeOK
  <2> QED BY <1>3, <1>k, <2>1 DEF SweepVault
<1>4. CASE SweepDelete
  BY <1>4 DEF SweepDelete, Erase, GoneRow, NewRow, UserDeleted, SoftDeleted, Active, Exists,
     SameStamps, TypeOK
<1>5. CASE SweepStart \/ SweepCount \/ SweepAttempt \/ SweepList \/ SweepDone \/ SweepFails
           \/ Tick \/ UNCHANGED vars \/ \E v \in Vaults : CacheExpire(v)
  <2>1. vault' = vault /\ item' = item /\ cause' = cause /\ now' \in {now, now + 1} /\ req' = req
    BY <1>5 DEF SweepStart, SweepCount, SweepAttempt, SweepList, SweepDone, SweepFails, Tick,
       vars, CacheExpire
  <2> QED BY <1>k, <2>1
<1>6. CASE Restart
  <2>1. \A b \in Actors : req'[b].stamp \in {Never, req[b].stamp}
    BY <1>6 DEF Restart, Idle
  <2> QED BY <1>6, <1>k, <2>1 DEF Restart
<1> QED BY <1>1, <1>2, <1>3, <1>4, <1>5, <1>6 DEF Sweep

LEMMA StampStepKeeps ==
    ASSUME TypeOK, Past, Distinct, NEW a \in Actors, StampStep(a)
    PROVE  Past' /\ Distinct' /\ UserDeletionStep
<1> DEFINE r == req[a]
           v == r.vault
<1> USE DEF others
<1>0. r \in Request /\ RequestOK(r)
  BY DEF TypeOK
<1>t. /\ now \in Nat /\ Never < now /\ now + 1 \in Nat /\ \A n \in Nat : n < now => n < now + 1
      /\ \A w \in Vaults : vault[w].deletedAt \in Nat
      /\ \A i \in Items : item[i].deletedAt \in Nat
      /\ \A b \in Actors : req[b].stamp \in Nat
  BY DEF TypeOK, Row, Request
<1>f. Finish(a) => \A b \in Actors : req'[b].stamp \in {Never, req[b].stamp}
  BY DEF Finish, Idle, TypeOK
<1>g. (\E s : Goto(a, s)) => \A b \in Actors : req'[b].stamp = req[b].stamp
  BY DEF Goto, TypeOK, Request
<1>1. CASE DeleteItem(a)
  <2>1. vault' = vault /\ \A b \in Actors : req'[b].stamp \in {Never, req[b].stamp}
    BY <1>1, <1>f DEF DeleteItem
  <2>2. CASE ~Active(item[r.item])
    <3>1. item' = item /\ cause' = cause /\ now' = now
      BY <1>1, <2>2 DEF DeleteItem
    <3> QED BY <2>1, <3>1, <1>t DEF Past, Distinct, UserDeleted, SoftDeleted, Active, UserDeletionStep
  <2>3. CASE Active(item[r.item])
    <3>1. /\ item' = [item EXCEPT ![r.item].deletedAt = now] /\ now' = now + 1
          /\ cause' = [cause EXCEPT ![r.item] = "user"]
      BY <1>1, <2>3 DEF DeleteItem
    <3>2. \A i \in Items : /\ i # r.item => item'[i] = item[i] /\ cause'[i] = cause[i]
                           /\ i = r.item => item'[i].deletedAt = now
      BY <3>1 DEF TypeOK, Row
    <3>3. Past'
      BY <1>t, <2>1, <3>1, <3>2 DEF Past
    <3>4. Distinct'
      <4> SUFFICES ASSUME NEW i \in Items, UserDeleted(i)'
                   PROVE  /\ \A w \in Vaults : vault'[w].deletedAt # item'[i].deletedAt
                          /\ \A b \in Actors : req'[b].stamp # item'[i].deletedAt
        BY DEF Distinct
      <4>1. CASE i = r.item
        BY <1>t, <2>1, <3>2, <4>1 DEF Past
      <4>2. CASE i # r.item
        BY <2>1, <3>2, <4>2 DEF Distinct, UserDeleted, SoftDeleted
      <4> QED BY <4>1, <4>2
    <3>5. UserDeletionStep
      BY <1>t, <3>2 DEF UserDeletionStep, SoftDeleted, Active
    <3> QED BY <3>3, <3>4, <3>5
  <2> QED BY <2>2, <2>3
<1>2. CASE RecoverItem(a)
  <2>1. vault' = vault /\ now' = now /\ \A b \in Actors : req'[b].stamp \in {Never, req[b].stamp}
    BY <1>2, <1>f DEF RecoverItem
  <2>2. /\ item' = item \/ item' = [item EXCEPT ![r.item].deletedAt = Never]
        /\ \A i \in Items : i # r.item => cause'[i] = cause[i]
        /\ cause' = cause \/ item'[r.item].deletedAt = Never \/ r.item \notin Items
    BY <1>2 DEF RecoverItem, TypeOK, Row
  <2>3. \A i \in Items : /\ i # r.item => item'[i] = item[i]
                         /\ item'[i].deletedAt \in {Never, item[i].deletedAt}
                         /\ item'[i].phase = item[i].phase
    BY <2>2 DEF TypeOK, Row
  <2>4. Past'
    BY <1>t, <2>1, <2>3 DEF Past
  <2>5. Distinct'
    BY <2>1, <2>2, <2>3 DEF Distinct, UserDeleted, SoftDeleted, Exists
  <2>6. UserDeletionStep
    BY <1>2, <2>3 DEF UserDeletionStep, RecoverItem, SoftDeleted, Active, At
  <2> QED BY <2>4, <2>5, <2>6
<1>3. CASE FindDeleted(a)
  <2>1. vault' = vault /\ item' = item /\ cause' = cause /\ now' = now
    BY <1>3 DEF FindDeleted, rows
  <2>2. v \in Vaults
    BY <1>0, <1>3, Follows DEF FindDeleted
  <2>3. \A b \in Actors : req'[b].stamp \in {Never, req[b].stamp, vault[v].deletedAt}
    <3>1. CASE Finish(a) \/ Goto(a, "lookup")
      BY <3>1, <1>f, <1>g
    <3>2. CASE req' = [req EXCEPT ![a].stamp = vault[v].deletedAt, ![a].at = "write"]
      BY <3>2 DEF TypeOK, Request
    <3>3. CASE req' = [req EXCEPT ![a].prot = vault[v].protected, ![a].at = "vet"]
      BY <3>3 DEF TypeOK, Request
    <3> QED BY <1>3, <3>1, <3>2, <3>3 DEF FindDeleted
  <2>4. Past'
    BY <1>t, <2>1, <2>2, <2>3 DEF Past
  <2>5. Distinct'
    BY <2>1, <2>2, <2>3 DEF Distinct, UserDeleted, SoftDeleted
  <2>6. UserDeletionStep
    BY <2>1 DEF UserDeletionStep, SoftDeleted, Active
  <2> QED BY <2>4, <2>5, <2>6
<1>4. CASE SoftDeleteVault(a)
  <2> DEFINE hit == {i \in Contents(v) : Active(item[i])}
             stamp == IF Active(vault[v]) THEN now ELSE vault[v].deletedAt
  <2>1. v \in Vaults
    BY <1>0, <1>4, Follows DEF SoftDeleteVault, At
  <2>2. CASE ~Exists(vault[v])
    <3>1. /\ vault' = vault /\ item' = item /\ cause' = cause /\ now' = now
          /\ \A b \in Actors : req'[b].stamp \in {Never, req[b].stamp}
      BY <1>4, <2>2, <1>f DEF SoftDeleteVault
    <3> QED BY <1>t, <3>1 DEF Past, Distinct, UserDeleted, SoftDeleted, Active, UserDeletionStep
  <2>3. CASE Exists(vault[v])
    <3>1. /\ vault' = [vault EXCEPT ![v].deletedAt = stamp]
          /\ item' = [i \in Items |-> IF i \in hit
                                        THEN [item[i] EXCEPT !.deletedAt = stamp] ELSE item[i]]
          /\ cause' = [i \in Items |-> IF i \in hit THEN "cascade" ELSE cause[i]]
          /\ now' = IF Active(vault[v]) THEN now + 1 ELSE now
          /\ \A b \in Actors : req'[b].stamp = req[b].stamp
      BY <1>4, <2>3, <1>g DEF SoftDeleteVault
    <3>2. stamp \in {now, vault[v].deletedAt} /\ (now' = now => stamp = vault[v].deletedAt)
          /\ now' \in {now, now + 1}
      BY <1>t, <3>1
    <3>3. \A i \in hit : Active(item[i])
      OBVIOUS
    <3> HIDE DEF hit, stamp
    <3>4. /\ \A w \in Vaults : vault'[w].deletedAt \in {vault[w].deletedAt, stamp}
          /\ \A i \in Items : /\ item'[i].deletedAt \in {item[i].deletedAt, stamp}
                              /\ i \notin hit => item'[i] = item[i] /\ cause'[i] = cause[i]
                              /\ i \in hit => cause'[i] = "cascade"
      BY <3>1 DEF TypeOK, Row
    <3>5. stamp \in Nat /\ stamp < now'
      BY <1>t, <2>1, <3>2 DEF Past
    <3>6. Past'
      BY <1>t, <3>1, <3>2, <3>4, <3>5 DEF Past
    <3>7. Distinct'
      <4> SUFFICES ASSUME NEW i \in Items, UserDeleted(i)'
                   PROVE  /\ \A w \in Vaults : vault'[w].deletedAt # item'[i].deletedAt
                          /\ \A b \in Actors : req'[b].stamp # item'[i].deletedAt
        BY DEF Distinct
      <4>1. i \notin hit /\ item'[i] = item[i] /\ UserDeleted(i)
        BY <3>4 DEF UserDeleted, SoftDeleted
      <4>2. item[i].deletedAt # stamp
        BY <1>t, <2>1, <3>2, <4>1 DEF Past, Distinct
      <4> QED BY <3>1, <3>4, <4>1, <4>2 DEF Distinct
    <3>8. UserDeletionStep
      BY <3>3, <3>4 DEF UserDeletionStep, SoftDeleted, Active
    <3> QED BY <3>6, <3>7, <3>8
  <2> QED BY <2>2, <2>3
<1>5. CASE RecoverVault(a)
  <2> DEFINE hit == {i \in Contents(v) : SoftDeleted(item[i]) /\ item[i].deletedAt = r.stamp}
  <2>1. /\ vault' = IF SoftDeleted(vault[v]) THEN [vault EXCEPT ![v].deletedAt = Never] ELSE vault
        /\ item' = [i \in Items |-> IF i \in hit THEN [item[i] EXCEPT !.deletedAt = Never] ELSE item[i]]
        /\ cause' = [i \in Items |-> IF i \in hit THEN "none" ELSE cause[i]]
        /\ now' = now /\ \A b \in Actors : req'[b].stamp = req[b].stamp
    BY <1>5, <1>g DEF RecoverVault
  <2>2. \A i \in hit : ~UserDeleted(i)
    BY DEF Distinct, Contents
  <2> HIDE DEF hit
  <2>3. /\ \A w \in Vaults : vault'[w].deletedAt \in {Never, vault[w].deletedAt}
        /\ \A i \in Items : /\ item'[i].deletedAt \in {Never, item[i].deletedAt}
                            /\ i \notin hit => item'[i] = item[i] /\ cause'[i] = cause[i]
                            /\ i \in hit => cause'[i] = "none"
    BY <2>1 DEF TypeOK, Row
  <2>4. Past'
    BY <1>t, <2>1, <2>3 DEF Past
  <2>5. Distinct'
    BY <2>1, <2>3 DEF Distinct, UserDeleted, SoftDeleted
  <2>6. UserDeletionStep
    BY <2>2, <2>3 DEF UserDeletionStep, UserDeleted, SoftDeleted, Active
  <2> QED BY <2>4, <2>5, <2>6
<1> QED BY <1>1, <1>2, <1>3, <1>4, <1>5 DEF StampStep

LEMMA StampInit == Init => Past /\ Distinct
  BY DEF Init, Past, Distinct, UserDeleted, SoftDeleted, Exists, Idle, NewRow, LiveRow

LEMMA StampNext ==
    TypeOK /\ Past /\ Distinct /\ [Next]_vars => Past' /\ Distinct' /\ UserDeletionStep
<1> SUFFICES ASSUME TypeOK, Past, Distinct, [Next]_vars
             PROVE  Past' /\ Distinct' /\ UserDeletionStep
  OBVIOUS
<1>1. SameStamps => Past' /\ Distinct' /\ UserDeletionStep
  BY SameStampsKeep DEF SameStamps, UserDeletionStep, UserDeleted
<1>2. ASSUME NEW a \in Actors, Step(a) PROVE Past' /\ Distinct' /\ UserDeletionStep
  BY <1>1, <1>2, StampsRequest, StampStepKeeps
<1>3. CASE ~\E a \in Actors : Step(a)
  BY <1>1, <1>3, StampsRest DEF Next
<1> QED BY <1>2, <1>3

LEMMA StampsDistinct == Spec => []Distinct
  BY StampInit, StampNext, TypeCorrect, PTL DEF Spec

\* An item its user deleted is restored only by a RecoverItem request for it,
\* never by a vault's recovery, even one that holds a stamp it read long ago.
THEOREM UserDeletionIsKept == Spec => UserDeletionSticks
  BY StampInit, StampNext, TypeCorrect, PTL DEF Spec, UserDeletionSticks

-----------------------------------------------------------------------------
(* One request at a time.  The properties that an overlap can break hold    *)
(* whenever requests and sweeps take turns, whatever fails or restarts,     *)
(* and one of them when nothing fails.                                      *)

Alone ==
    /\ \A a, b \in Actors : req[a] # Idle /\ req[b] # Idle => a = b
    /\ sweep.at # "idle" => \A c \in Clients : req[c] = Idle
    /\ req[Scheduler] # Idle => sweep.at = "vaults"

\* What the history variable says.  Nothing is deleted in a vault to come.
CauseOf(i) ==
    /\ cause[i] # "none" <=> SoftDeleted(item[i])
    /\ vault[VaultOf[i]].phase = "new" => cause[i] = "none"

\* Every item of a vault is deleted as the vault is, the body of CascadeExact.
Cascaded(i) == Exists(item[i]) =>
    /\ SoftDeleted(vault[VaultOf[i]]) => SoftDeleted(item[i])
    /\ Active(vault[VaultOf[i]]) => (SoftDeleted(item[i]) <=> cause[i] = "user")
    /\ Exists(vault[VaultOf[i]]) /\ cause[i] = "cascade" =>
          item[i].deletedAt = vault[VaultOf[i]].deletedAt

\* A cached vault is the row, or its eviction comes next.
Evicting(v) == \E a \in Actors : req[a].vault = v /\ req[a].at \in {"evict", "drop"}
CachedRow(v) == cache[v] # {} => Active(vault[v]) /\ cache[v] = {vault[v].protected}
CacheOrEvicting == \A v \in Vaults : CachedRow(v) \/ Evicting(v)

\* What a request has read of its vault is still so.
ReadTrue(r) ==
    /\ r.at = "fill" => Active(vault[r.vault]) /\ r.prot = vault[r.vault].protected
    /\ r.at = "body" /\ r.op \in ItemOps => Active(vault[r.vault])
    /\ r.at = "write" /\ r.op = "RecoverVault" =>
         SoftDeleted(vault[r.vault]) /\ r.stamp = vault[r.vault].deletedAt

SerialInv ==
    /\ Alone
    /\ \A i \in Items : CauseOf(i) /\ Cascaded(i)
    /\ CacheOrEvicting
    /\ \A a \in Actors : ReadTrue(req[a])

\* A purge clears the tables in order, and starts at the first.
TableReset(r) == r.at \notin {"vet", "contents", "trailing"} => r.table = 1

ContentsCleared(v, n) == \A i \in Contents(v) : Exists(item[i]) => TableOf[i] >= n
DependentsCleared(v, n) == \A t \in Tables : DependentTable[t] \in dependents[v] => t >= n

Clears(r, v) ==
    /\ r.vault = v
    /\ \/ r.at = "drop"
       \/ r.at = "contents" /\ ContentsCleared(v, r.table)
       \/ /\ r.at = "trailing" /\ DependentsCleared(v, r.table)
          /\ \A i \in Contents(v) : ~Exists(item[i])
Clearing(v) == \E a \in Actors : Clears(req[a], v)
LeftNothing(v) == dependents[v] = {} /\ \A i \in Contents(v) : ~Exists(item[i])
PurgeInv ==
    /\ \A a \in Actors : TableReset(req[a])
    /\ \A v \in Vaults : vault[v].phase = "gone" => LeftNothing(v) \/ Clearing(v)

\* What a step that moves a request on leaves in its record.
LEMMA IdleFields == Idle.at = "idle" /\ Idle.op = "none" /\ Idle.table = 1
  BY DEF Idle

LEMMA GotoFields ==
    ASSUME TypeOK, NEW a \in Actors, NEW s, Goto(a, s)
    PROVE  /\ req'[a].at = s /\ req'[a].op = req[a].op /\ req'[a].vault = req[a].vault
           /\ req'[a].table = req[a].table
<1>1. req[a] \in Request /\ req' = [req EXCEPT ![a] = [req[a] EXCEPT !.at = s]]
  BY DEF TypeOK, Goto
<1>2. req'[a] = [req[a] EXCEPT !.at = s]
  BY <1>1 DEF TypeOK
<1> QED BY <1>1, <1>2 DEF Request

LEMMA FinishFields ==
    ASSUME TypeOK, NEW a \in Actors, Finish(a)
    PROVE  /\ req'[a].at = "idle" /\ req'[a].op = "none" /\ req'[a].vault = NoVault
           /\ req'[a].table = 1
  BY DEF TypeOK, Finish, Idle

LEMMA ProtFields ==
    ASSUME TypeOK, NEW a \in Actors, NEW p, NEW s,
           req' = [req EXCEPT ![a].prot = p, ![a].at = s]
    PROVE  /\ req'[a].at = s /\ req'[a].op = req[a].op /\ req'[a].vault = req[a].vault
           /\ req'[a].prot = p /\ req'[a].table = req[a].table
<1>1. req'[a].at = s /\ req'[a].prot = p
  BY DEF TypeOK, Request
<1>2. req'[a].op = req[a].op /\ req'[a].vault = req[a].vault
  BY DEF TypeOK, Request
<1>3. req'[a].table = req[a].table
  BY DEF TypeOK, Request
<1> QED BY <1>1, <1>2, <1>3

LEMMA StampFields ==
    ASSUME TypeOK, NEW a \in Actors, NEW n, NEW s,
           req' = [req EXCEPT ![a].stamp = n, ![a].at = s]
    PROVE  /\ req'[a].at = s /\ req'[a].op = req[a].op /\ req'[a].vault = req[a].vault
           /\ req'[a].stamp = n /\ req'[a].table = req[a].table
<1>1. req'[a].at = s /\ req'[a].stamp = n
  BY DEF TypeOK, Request
<1>2. req'[a].op = req[a].op /\ req'[a].vault = req[a].vault
  BY DEF TypeOK, Request
<1>3. req'[a].table = req[a].table
  BY DEF TypeOK, Request
<1> QED BY <1>1, <1>2, <1>3

LEMMA TableFields ==
    ASSUME TypeOK, NEW a \in Actors, NEW t,
           req' = [req EXCEPT ![a].table = t]
    PROVE  /\ req'[a].at = req[a].at /\ req'[a].op = req[a].op
           /\ req'[a].vault = req[a].vault /\ req'[a].table = t
  BY DEF TypeOK, Request

LEMMA AtTableFields ==
    ASSUME TypeOK, NEW a \in Actors, NEW s, NEW t,
           req' = [req EXCEPT ![a].at = s, ![a].table = t]
    PROVE  /\ req'[a].at = s /\ req'[a].op = req[a].op
           /\ req'[a].vault = req[a].vault /\ req'[a].table = t
  BY DEF TypeOK, Request

LEMMA Moves ==
    ASSUME TypeOK, NEW a \in Actors, Step(a)
    PROVE  req[a].at # "idle" /\ sweep' = sweep /\ \A b \in Actors : b # a => req'[b] = req[b]
<1>1. CASE \/ LookupHit(a) \/ LookupRead(a) \/ LookupMiss(a) \/ Fill(a) \/ RecordAttempt(a)
           \/ ReadItem(a) \/ VetItem(a) \/ CheckItem(a)
  BY <1>1 DEF LookupHit, LookupRead, LookupMiss, Fill, RecordAttempt, ReadItem, VetItem,
     CheckItem, At, Finish, Goto, TypeOK
<1>2. CASE \/ CreateItem(a) \/ SetPurgeProtection(a) \/ DeleteItem(a) \/ RecoverItem(a)
           \/ EraseItem(a) \/ PurgeContents(a)
  BY <1>2 DEF CreateItem, SetPurgeProtection, DeleteItem, RecoverItem, EraseItem, PurgeContents,
     At, Finish, Goto, TypeOK
<1>3. CASE \/ CreateVault(a) \/ UpdateVault(a) \/ SoftDeleteVault(a) \/ RecoverVault(a)
           \/ PurgeVaultRow(a)
  BY <1>3 DEF CreateVault, UpdateVault, SoftDeleteVault, RecoverVault, PurgeVaultRow,
     At, Finish, Goto, TypeOK
<1>4. CASE Evict(a) \/ FindDeleted(a) \/ VetVault(a) \/ DropCached(a) \/ PurgeDependents(a)
  BY <1>4 DEF Evict, FindDeleted, VetVault, DropCached, PurgeDependents, Finish, Goto, TypeOK
<1> QED BY <1>1, <1>2, <1>3, <1>4 DEF Step

LEMMA LoneStep ==
    ASSUME TypeOK, Alone, NEW a \in Actors, Step(a)
    PROVE  /\ Alone'
           /\ \A b \in Actors : b # a => req[b] = Idle /\ req'[b] = Idle
<1>1. req[a] # Idle
  BY Moves DEF Idle
<1>2. \A b \in Actors : b # a => req[b] = Idle /\ req'[b] = Idle
  BY <1>1, Moves DEF Alone
<1>3. Alone'
  BY <1>1, <1>2, Moves DEF Alone, Actors
<1> QED BY <1>2, <1>3

\* What a step of the one request in flight has to show.
LEMMA SerialFrom ==
    ASSUME TypeOK, SerialInv, NEW a \in Actors, Step(a),
           ReadTrue(req[a])', \A i \in Items : CauseOf(i)' /\ Cascaded(i)',
           \A v \in Vaults : CachedRow(v)' \/ (req'[a].vault = v /\ req'[a].at \in {"evict", "drop"})
    PROVE  SerialInv'
<1>1. Alone' /\ \A b \in Actors : b # a => req'[b] = Idle
  BY LoneStep DEF SerialInv
<1>2. \A b \in Actors : ReadTrue(req[b])'
  BY <1>1 DEF ReadTrue, Idle
<1>3. CacheOrEvicting'
  BY DEF CacheOrEvicting, Evicting
<1> QED BY <1>1, <1>2, <1>3 DEF SerialInv

\* Nothing is being evicted while the one request is elsewhere.
LEMMA AllCached ==
    ASSUME TypeOK, SerialInv, NEW a \in Actors, Step(a), req[a].at \notin {"evict", "drop"}
    PROVE  \A v \in Vaults : CachedRow(v)
<1>1. \A b \in Actors : b # a => req[b].at = "idle"
  BY LoneStep DEF SerialInv, Idle
<1>2. \A v \in Vaults : ~Evicting(v)
  BY <1>1 DEF Evicting
<1> QED BY <1>2, Zenon DEF SerialInv, CacheOrEvicting

LEMMA SameRows ==
    ASSUME SerialInv, UNCHANGED <<vault, item, cause>>
    PROVE  \A i \in Items : CauseOf(i)' /\ Cascaded(i)'
  BY DEF SerialInv, CauseOf, Cascaded

\* Steps that read, and steps on the cache.
LEMMA SerialRead ==
    ASSUME TypeOK, SerialInv, NEW a \in Actors, Step(a),
           \/ LookupHit(a) \/ LookupRead(a) \/ LookupMiss(a) \/ RecordAttempt(a)
           \/ ReadItem(a) \/ VetItem(a) \/ CheckItem(a) \/ FindDeleted(a) \/ VetVault(a)
    PROVE  SerialInv'
<1> DEFINE r == req[a]
           x == req'[a]
<1>0. r \in Request /\ RequestOK(r)
  BY DEF TypeOK
<1>1. UNCHANGED <<vault, item, cause, cache>> /\ r.at \notin {"evict", "drop"}
  BY DEF LookupHit, LookupRead, LookupMiss, RecordAttempt, ReadItem, VetItem, CheckItem,
     FindDeleted, VetVault, At, rows
<1>3. ReadTrue(r) /\ \A v \in Vaults : CachedRow(v)
  BY <1>1, AllCached DEF SerialInv
<1>f. x.at \notin {"fill", "body", "write"} => ReadTrue(req[a])'
  BY DEF ReadTrue
<1>4. ReadTrue(req[a])'
  <2>1. CASE LookupHit(a)
    <3>1. PICK p \in cache[r.vault] : req' = [req EXCEPT ![a].prot = p, ![a].at = AfterLookup(r.op)]
      BY <2>1 DEF LookupHit
    <3>5. r.vault \in Vaults
      BY <1>0, <2>1, Follows DEF LookupHit
    <3>6. x.at = AfterLookup(r.op) /\ x.op = r.op /\ x.vault = r.vault
      BY <3>1 DEF TypeOK, Request
    <3>3. /\ x.at = AfterLookup(r.op) /\ x.op = r.op /\ x.vault = r.vault
          /\ r.vault \in Vaults /\ cache[r.vault] # {}
      BY <3>1, <3>5, <3>6
    <3>2. Active(vault[r.vault])
      BY <1>3, <3>3 DEF CachedRow
    <3> QED BY <1>1, <3>2, <3>3 DEF ReadTrue, AfterLookup
  <2>2. CASE LookupRead(a)
    BY <1>0, <1>1, <2>2 DEF LookupRead, TypeOK, Request, ReadTrue
  <2>3. CASE LookupMiss(a)
    BY <1>f, <2>3, FinishFields DEF LookupMiss
  <2>4. CASE RecordAttempt(a)
    <3>1. r.op \in {"DeleteVault", "PurgeVault", "PurgeItem"}
      BY <1>0, <2>4 DEF RecordAttempt, RequestOK, StagesOf, Ops, ItemOps, VaultOps
    <3>2. x.at = AfterAttempt(r.op) /\ x.op = r.op
      BY <2>4, GotoFields DEF RecordAttempt
    <3> QED BY <3>1, <3>2 DEF ReadTrue, AfterAttempt
  <2>5. CASE ReadItem(a) \/ VetItem(a) \/ CheckItem(a)
    <3>1. \/ Finish(a) \/ Goto(a, "protect") \/ Goto(a, "attempt") \/ Goto(a, "erase")
      BY <2>5 DEF ReadItem, VetItem, CheckItem
    <3>2. x.at \in {"idle", "protect", "attempt", "erase"}
      BY <3>1, GotoFields, FinishFields
    <3> QED BY <1>f, <3>2
  <2>6. CASE FindDeleted(a)
    <3>1. CASE Finish(a) \/ Goto(a, "lookup")
      BY <1>f, <3>1, GotoFields, FinishFields
    <3>2. CASE SoftDeleted(vault[r.vault])
               /\ req' = [req EXCEPT ![a].stamp = vault[r.vault].deletedAt, ![a].at = "write"]
      BY <1>0, <1>1, <3>2 DEF TypeOK, Request, ReadTrue
    <3>3. CASE req' = [req EXCEPT ![a].prot = vault[r.vault].protected, ![a].at = "vet"]
      BY <1>0, <1>f, <3>3 DEF TypeOK, Request
    <3> QED BY <2>6, <3>1, <3>2, <3>3 DEF FindDeleted
  <2>7. CASE VetVault(a)
    <3>1. CASE Finish(a)
      BY <1>f, <3>1, FinishFields
    <3>2. CASE req' = [req EXCEPT ![a] = [r EXCEPT !.at = "attempt", !.table = 1]]
      BY <1>f, <3>2 DEF TypeOK, Request
    <3>3. CASE req' = [req EXCEPT ![a] = [r EXCEPT !.table = @ + 1]]
      BY <1>f, <2>7, <3>3 DEF VetVault, TypeOK, Request
    <3> QED BY <2>7, <3>1, <3>2, <3>3 DEF VetVault
  <2> QED BY <2>1, <2>2, <2>3, <2>4, <2>5, <2>6, <2>7
<1>5. \A v \in Vaults : CachedRow(v)'
  BY <1>1, <1>3 DEF CachedRow
<1> QED BY <1>1, <1>4, <1>5, SameRows, SerialFrom

LEMMA SerialCache ==
    ASSUME TypeOK, SerialInv, NEW a \in Actors, Step(a),
           Fill(a) \/ Evict(a) \/ DropCached(a) \/ PurgeDependents(a)
    PROVE  SerialInv'
<1> DEFINE r == req[a]
           x == req'[a]
           v == r.vault
<1>0. r \in Request /\ RequestOK(r) /\ ReadTrue(r)
  BY DEF TypeOK, SerialInv
<1>1. UNCHANGED <<vault, item, cause>> /\ r.at # "idle"
  BY DEF Fill, Evict, DropCached, PurgeDependents, rows
<1>2. v \in Vaults
  BY <1>0, <1>1, Follows
<1>e. \A w \in Vaults : w # v => CachedRow(w)
  <2>1. \A b \in Actors : b # a => req[b].at = "idle"
    BY LoneStep DEF SerialInv, Idle
  <2>2. \A w \in Vaults : w # v => ~Evicting(w)
    BY <2>1 DEF Evicting
  <2> QED BY <2>2, Zenon DEF SerialInv, CacheOrEvicting
<1>3. CASE Fill(a)
  <2>1. cache' = [cache EXCEPT ![v] = {r.prot}] /\ x.at = AfterLookup(r.op) /\ x.op = r.op
        /\ x.vault = v
    BY <1>3, GotoFields DEF Fill
  <2>2. Active(vault[v]) /\ r.prot = vault[v].protected
    BY <1>0, <1>3 DEF Fill, ReadTrue
  <2>3. ReadTrue(req[a])'
    BY <1>1, <2>1, <2>2 DEF ReadTrue, AfterLookup
  <2>4. \A w \in Vaults : cache'[w] = IF w = v THEN {r.prot} ELSE cache[w]
    BY <2>1 DEF TypeOK
  <2>5. \A w \in Vaults : CachedRow(w)'
    BY <1>1, <1>e, <2>2, <2>4 DEF CachedRow
  <2> QED BY <1>1, <2>3, <2>5, SameRows, SerialFrom
<1>4. CASE Evict(a) \/ DropCached(a)
  <2>1. cache' = [cache EXCEPT ![v] = {}] /\ x.at \in {"idle", "contents"}
    BY <1>4, FinishFields, GotoFields DEF Evict, DropCached
  <2>2. ReadTrue(req[a])'
    BY <2>1 DEF ReadTrue
  <2>3. \A w \in Vaults : cache'[w] = IF w = v THEN {} ELSE cache[w]
    BY <2>1 DEF TypeOK
  <2>4. \A w \in Vaults : CachedRow(w)'
    BY <1>1, <1>e, <2>3 DEF CachedRow
  <2> QED BY <1>1, <2>2, <2>4, SameRows, SerialFrom
<1>5. CASE PurgeDependents(a)
  <2>1. cache' = cache /\ r.at = "trailing"
    BY <1>5 DEF PurgeDependents
  <2>2. x.at \in {"idle", "trailing"}
    <3>1. CASE Finish(a)
      BY <3>1, FinishFields
    <3>2. CASE req' = [req EXCEPT ![a].table = @ + 1]
      BY <2>1, <3>2 DEF TypeOK, Request
    <3> QED BY <1>5, <3>1, <3>2 DEF PurgeDependents
  <2>3. ReadTrue(req[a])'
    BY <2>2 DEF ReadTrue
  <2>4. \A w \in Vaults : CachedRow(w)'
    BY <1>1, <2>1, AllCached DEF CachedRow
  <2> QED BY <1>1, <2>3, <2>4, SameRows, SerialFrom
<1> QED BY <1>3, <1>4, <1>5

\* An item's row while the vault's stays.
LEMMA ErasedRows ==
    ASSUME NEW gone, Erase(gone), vault' = vault, NEW i \in Items, CauseOf(i), Cascaded(i)
    PROVE  CauseOf(i)' /\ Cascaded(i)'
<1>1. CASE i \in gone
  BY <1>1 DEF Erase, GoneRow, NewRow, CauseOf, Cascaded, SoftDeleted, Exists
<1>2. CASE i \notin gone
  BY <1>2 DEF Erase, CauseOf, Cascaded
<1> QED BY <1>1, <1>2

LEMMA SerialItem ==
    ASSUME TypeOK, SerialInv, NEW a \in Actors, Step(a),
           \/ CreateItem(a) \/ SetPurgeProtection(a) \/ DeleteItem(a) \/ RecoverItem(a)
           \/ EraseItem(a) \/ PurgeContents(a)
    PROVE  SerialInv'
<1> DEFINE r == req[a]
           x == req'[a]
           v == r.vault
<1>0. r \in Request /\ RequestOK(r) /\ ReadTrue(r) /\ now \in Nat /\ now # Never
  BY DEF TypeOK, SerialInv
<1>1. /\ UNCHANGED <<vault, cache>> /\ r.at \notin {"idle", "evict", "drop"}
      /\ x.at \notin {"fill", "body", "write"}
  <2>1. CASE CreateItem(a) \/ SetPurgeProtection(a) \/ DeleteItem(a) \/ RecoverItem(a) \/ EraseItem(a)
    BY <2>1, FinishFields, GotoFields DEF CreateItem, SetPurgeProtection, DeleteItem, RecoverItem,
       EraseItem, At
  <2>2. CASE PurgeContents(a)
    <3>1. CASE req' = [req EXCEPT ![a] = [r EXCEPT !.at = "trailing", !.table = 1]]
      BY <2>2, <3>1 DEF PurgeContents, TypeOK, Request
    <3>2. CASE req' = [req EXCEPT ![a] = [r EXCEPT !.table = @ + 1]]
      BY <2>2, <3>2 DEF PurgeContents, TypeOK, Request
    <3> QED BY <2>2, <3>1, <3>2 DEF PurgeContents
  <2> QED BY <2>1, <2>2
<1>2. \A w \in Vaults : CachedRow(w)'
  BY <1>1, AllCached DEF CachedRow
<1>3. ReadTrue(req[a])'
  BY <1>1 DEF ReadTrue
<1>4. SUFFICES ASSUME NEW i \in Items PROVE CauseOf(i)' /\ Cascaded(i)'
  BY <1>2, <1>3, SerialFrom
<1>5. CauseOf(i) /\ Cascaded(i) /\ item[i] \in Row
  BY DEF SerialInv, TypeOK
<1>6. CASE EraseItem(a) \/ PurgeContents(a)
  <2>1. PICK gone : Erase(gone)
    BY <1>6 DEF EraseItem, PurgeContents
  <2> QED BY <1>1, <1>5, <2>1, ErasedRows
<1>7. CASE CreateItem(a) \/ SetPurgeProtection(a) \/ DeleteItem(a) \/ RecoverItem(a)
  <2>1. CASE i # r.item
    <3>1. item'[i] = item[i] /\ cause'[i] = cause[i]
      BY <1>7, <2>1 DEF CreateItem, SetPurgeProtection, DeleteItem, RecoverItem, TypeOK
    <3> QED BY <1>1, <1>5, <3>1 DEF CauseOf, Cascaded
  <2>2. CASE i = r.item
    <3>1. CASE CreateItem(a)
      <4>1. Active(vault[VaultOf[i]])
        BY <1>0, <1>1, <2>2, <3>1 DEF CreateItem, At, RequestOK, ReadTrue, ItemOps, Contents
      <4>2. cause'[i] = cause[i] /\ item'[i] \in {item[i], LiveRow}
            /\ (item'[i] # item[i] => item[i].phase = "new")
        BY <2>2, <3>1 DEF CreateItem, TypeOK
      <4> QED BY <1>1, <1>5, <4>1, <4>2
              DEF CauseOf, Cascaded, Active, SoftDeleted, Exists, LiveRow, NewRow
    <3>2. CASE SetPurgeProtection(a)
      <4>1. cause' = cause
        BY <3>2 DEF SetPurgeProtection
      <4>2. item' = item \/ item' = [item EXCEPT ![i].protected = (r.want = "on")]
        BY <2>2, <3>2 DEF SetPurgeProtection
      <4>3. item'[i].phase = item[i].phase /\ item'[i].deletedAt = item[i].deletedAt
        BY <1>5, <4>2 DEF TypeOK, Row
      <4> QED BY <1>1, <1>5, <4>1, <4>3 DEF CauseOf, Cascaded, Active, SoftDeleted, Exists
    <3>3. CASE DeleteItem(a)
      <4>1. Active(vault[VaultOf[i]])
        BY <1>0, <1>1, <2>2, <3>3 DEF DeleteItem, At, RequestOK, ReadTrue, ItemOps, Contents
      <4>2. CASE ~Active(item[i])
        BY <1>1, <1>5, <2>2, <3>3, <4>2 DEF DeleteItem, CauseOf, Cascaded
      <4>3. CASE Active(item[i])
        <5>1. item'[i].deletedAt = now /\ item'[i].phase = item[i].phase /\ cause'[i] = "user"
          <6>1. /\ item' = [item EXCEPT ![i].deletedAt = now]
                /\ cause' = [cause EXCEPT ![i] = "user"]
            BY <2>2, <3>3, <4>3 DEF DeleteItem
          <6>2. i \in DOMAIN item /\ i \in DOMAIN cause
            BY DEF TypeOK
          <6> QED BY <1>5, <6>1, <6>2 DEF TypeOK, Row
        <5> QED BY <1>0, <1>1, <4>1, <4>3, <5>1 DEF CauseOf, Cascaded, Active, SoftDeleted, Exists
      <4> QED BY <4>2, <4>3
    <3>4. CASE RecoverItem(a)
      <4>1. Active(vault[VaultOf[i]])
        BY <1>0, <1>1, <2>2, <3>4 DEF RecoverItem, At, RequestOK, ReadTrue, ItemOps, Contents
      <4>2. CASE ~SoftDeleted(item[i])
        BY <1>1, <1>5, <2>2, <3>4, <4>2 DEF RecoverItem, CauseOf, Cascaded
      <4>3. CASE SoftDeleted(item[i])
        <5>1. item'[i].deletedAt = Never /\ cause'[i] = "none"
          BY <1>5, <2>2, <3>4, <4>3 DEF RecoverItem, TypeOK, Row
        <5> QED BY <1>1, <4>1, <5>1 DEF CauseOf, Cascaded, Active, SoftDeleted
      <4> QED BY <4>2, <4>3
    <3> QED BY <1>7, <3>1, <3>2, <3>3, <3>4
  <2> QED BY <2>1, <2>2
<1> QED BY <1>6, <1>7

\* A vault's row, with the rows of its items where a transaction takes both.
LEMMA SerialVault ==
    ASSUME TypeOK, Distinct, SerialInv, NEW a \in Actors, Step(a),
           \/ CreateVault(a) \/ UpdateVault(a) \/ SoftDeleteVault(a) \/ RecoverVault(a)
           \/ PurgeVaultRow(a)
    PROVE  SerialInv'
<1> DEFINE r == req[a]
           x == req'[a]
           v == r.vault
<1>0. /\ r \in Request /\ RequestOK(r) /\ ReadTrue(r) /\ now \in Nat /\ now # Never
      /\ \A i \in Items : CauseOf(i) /\ Cascaded(i) /\ item[i] \in Row
      /\ \A w \in Vaults : vault[w] \in Row
  BY DEF TypeOK, SerialInv
<1>1. cache' = cache /\ r.at \in {"body", "write", "row"}
  BY DEF CreateVault, UpdateVault, SoftDeleteVault, RecoverVault, PurgeVaultRow, At
<1>2. v \in Vaults /\ \A w \in Vaults : CachedRow(w)
  BY <1>0, <1>1, Follows, AllCached
<1>3. x.at \in {"idle", "evict", "drop"}
  BY FinishFields, GotoFields
     DEF CreateVault, UpdateVault, SoftDeleteVault, RecoverVault, PurgeVaultRow
<1>4. ReadTrue(req[a])'
  BY <1>3 DEF ReadTrue
<1>5. \A w \in Vaults : w # v => vault'[w] = vault[w]
  BY DEF CreateVault, UpdateVault, SoftDeleteVault, RecoverVault, PurgeVaultRow, TypeOK
<1>6. ASSUME NEW w \in Vaults, w = v
      PROVE  CachedRow(w)' \/ (x.vault = w /\ x.at \in {"evict", "drop"})
  <2>1. CASE CreateVault(a)
    <3>1. CASE vault[v].phase = "new"
      <4>1. cache'[w] = {}
        BY <1>1, <1>2, <1>6, <3>1 DEF CachedRow, Active, Exists
      <4> QED BY <4>1 DEF CachedRow
    <3>2. CASE vault[v].phase # "new"
      BY <1>1, <1>2, <1>6, <2>1, <3>2 DEF CreateVault, CachedRow
    <3> QED BY <3>1, <3>2
  <2>2. CASE UpdateVault(a) \/ RecoverVault(a) \/ PurgeVaultRow(a)
    BY <1>6, <2>2, GotoFields DEF UpdateVault, RecoverVault, PurgeVaultRow
  <2>3. CASE SoftDeleteVault(a)
    <3>1. CASE Exists(vault[v])
      BY <1>6, <2>3, <3>1, GotoFields DEF SoftDeleteVault
    <3>2. CASE ~Exists(vault[v])
      BY <1>1, <1>2, <1>6, <2>3, <3>2 DEF SoftDeleteVault, CachedRow
    <3> QED BY <3>1, <3>2
  <2> QED BY <2>1, <2>2, <2>3
<1>7. \A w \in Vaults : CachedRow(w)' \/ (x.vault = w /\ x.at \in {"evict", "drop"})
  <2>1. SUFFICES ASSUME NEW w \in Vaults, w # v PROVE CachedRow(w)'
    BY <1>6
  <2> QED BY <1>1, <1>2, <1>5, <2>1 DEF CachedRow
<1>8. SUFFICES ASSUME NEW i \in Items PROVE CauseOf(i)' /\ Cascaded(i)'
  BY <1>4, <1>7, SerialFrom
<1> DEFINE w == VaultOf[i]
<1>9. w \in Vaults /\ CauseOf(i) /\ Cascaded(i)
  BY <1>0
<1>10. CASE CreateVault(a)
  <2>1. item' = item /\ cause' = cause
    BY <1>10 DEF CreateVault
  <2>2. vault'[w] = vault[w] \/ (vault[w].phase = "new" /\ Active(vault'[w]))
    <3> DEFINE n == [LiveRow EXCEPT !.protected = (r.want = "on")]
    <3>1. Active(n)
      BY DEF Active, Exists, LiveRow, NewRow
    <3>2. vault' = vault \/ (vault[v].phase = "new" /\ vault' = [vault EXCEPT ![v] = n])
      BY <1>10 DEF CreateVault
    <3> HIDE DEF n
    <3> QED BY <1>9, <3>1, <3>2 DEF TypeOK
  <2> QED BY <1>9, <2>1, <2>2 DEF CauseOf, Cascaded, Active, SoftDeleted, Exists
<1>11. CASE UpdateVault(a)
  <2>1. item' = item /\ cause' = cause
    BY <1>11 DEF UpdateVault
  <2>2. vault'[w].phase = vault[w].phase /\ vault'[w].deletedAt = vault[w].deletedAt
    BY <1>0, <1>9, <1>11 DEF UpdateVault, TypeOK, Row
  <2> QED BY <1>9, <2>1, <2>2 DEF CauseOf, Cascaded, Active, SoftDeleted, Exists
<1>12. CASE PurgeVaultRow(a)
  <2>1. item' = item /\ cause' = cause
    BY <1>12 DEF PurgeVaultRow
  <2>2. vault'[w] = vault[w] \/ vault'[w].phase = "gone"
    BY <1>9, <1>12 DEF PurgeVaultRow, TypeOK, GoneRow, NewRow
  <2> QED BY <1>9, <2>1, <2>2 DEF CauseOf, Cascaded, Active, SoftDeleted, Exists
<1>13. CASE SoftDeleteVault(a)
  <2> DEFINE stamp == IF Active(vault[v]) THEN now ELSE vault[v].deletedAt
  <2>1. CASE ~Exists(vault[v])
    BY <1>9, <1>13, <2>1 DEF SoftDeleteVault, CauseOf, Cascaded
  <2>2. CASE Exists(vault[v])
    <3>1. /\ vault' = [vault EXCEPT ![v].deletedAt = stamp]
          /\ item'[i] = IF i \in Contents(v) /\ Active(item[i])
                          THEN [item[i] EXCEPT !.deletedAt = stamp] ELSE item[i]
          /\ cause'[i] = IF i \in Contents(v) /\ Active(item[i]) THEN "cascade" ELSE cause[i]
      BY <1>13, <2>2 DEF SoftDeleteVault
    <3>2. stamp # Never /\ (stamp = now \/ stamp = vault[v].deletedAt)
          /\ (stamp # vault[v].deletedAt => Active(vault[v]))
      BY <1>0, <2>2 DEF Active
    <3> HIDE DEF stamp
    <3>3. vault'[v].phase = vault[v].phase /\ vault'[v].deletedAt = stamp
      BY <1>0, <1>2, <3>1 DEF TypeOK, Row
    <3>4. SoftDeleted(vault'[v]) /\ Exists(vault'[v])
      BY <2>2, <3>2, <3>3 DEF SoftDeleted, Exists
    <3>5. CASE w # v
      <4>1. vault'[w] = vault[w] /\ item'[i] = item[i] /\ cause'[i] = cause[i]
        BY <1>5, <1>9, <3>1, <3>5 DEF Contents
      <4> QED BY <1>9, <4>1 DEF CauseOf, Cascaded
    <3>6. CASE w = v /\ Active(item[i])
      <4>1. cause'[i] = "cascade" /\ item'[i] = [item[i] EXCEPT !.deletedAt = stamp]
        BY <3>1, <3>6 DEF Contents
      <4>2. item'[i].deletedAt = stamp /\ item'[i].phase = item[i].phase
        BY <1>0, <4>1 DEF Row
      <4> QED BY <3>2, <3>3, <3>4, <3>6, <4>1, <4>2
              DEF CauseOf, Cascaded, Active, SoftDeleted, Exists
    <3>7. CASE w = v /\ ~Active(item[i])
      <4>1. item'[i] = item[i] /\ cause'[i] = cause[i]
        BY <3>1, <3>7
      <4>2. Exists(item[i]) => SoftDeleted(item[i]) /\ (Active(vault[v]) => cause[i] = "user")
        BY <1>9, <3>7 DEF Cascaded, Active, SoftDeleted
      <4> QED BY <1>9, <2>2, <3>2, <3>3, <3>4, <3>7, <4>1, <4>2
              DEF CauseOf, Cascaded, Active, SoftDeleted
    <3> QED BY <3>5, <3>6, <3>7
  <2> QED BY <2>1, <2>2
<1>14. CASE RecoverVault(a)
  <2>1. SoftDeleted(vault[v]) /\ r.stamp = vault[v].deletedAt
    BY <1>0, <1>14 DEF RecoverVault, At, ReadTrue
  <2> DEFINE hit == {k \in Contents(v) : SoftDeleted(item[k]) /\ item[k].deletedAt = r.stamp}
  <2>2. /\ vault' = [vault EXCEPT ![v].deletedAt = Never]
        /\ item'[i] = IF i \in hit THEN [item[i] EXCEPT !.deletedAt = Never] ELSE item[i]
        /\ cause'[i] = IF i \in hit THEN "none" ELSE cause[i]
    BY <1>14, <2>1 DEF RecoverVault
  <2>3. Active(vault'[v])
    BY <1>0, <1>2, <2>1, <2>2 DEF TypeOK, Row, SoftDeleted, Active, Exists
  <2>4. i \in hit <=> w = v /\ SoftDeleted(item[i]) /\ item[i].deletedAt = vault[v].deletedAt
    BY <2>1 DEF Contents
  <2> HIDE DEF hit
  <2>5. CASE w # v
    <3>1. vault'[w] = vault[w] /\ item'[i] = item[i] /\ cause'[i] = cause[i]
      BY <1>5, <1>9, <2>2, <2>4, <2>5
    <3> QED BY <1>9, <3>1 DEF CauseOf, Cascaded
  <2>6. CASE w = v /\ i \in hit
    <3>1. item'[i].deletedAt = Never /\ cause'[i] = "none"
      BY <1>0, <2>2, <2>6 DEF Row
    <3> QED BY <2>3, <2>6, <3>1 DEF CauseOf, Cascaded, Active, SoftDeleted
  <2>7. CASE w = v /\ i \notin hit
    <3>1. item'[i] = item[i] /\ cause'[i] = cause[i]
      BY <2>2, <2>7
    <3>2. cause[i] \in {"none", "user", "cascade"}
      BY DEF TypeOK
    <3>3. Exists(item[i]) => SoftDeleted(item[i]) /\ cause[i] = "user"
      BY <1>9, <2>1, <2>4, <2>7, <3>2 DEF CauseOf, Cascaded, SoftDeleted
    <3> QED BY <1>9, <2>3, <2>7, <3>1, <3>3 DEF CauseOf, Cascaded, Active, SoftDeleted, Exists
  <2> QED BY <2>5, <2>6, <2>7
<1> QED BY <1>10, <1>11, <1>12, <1>13, <1>14

LEMMA AllIdle ==
    ASSUME \A a \in Actors : req'[a] = Idle
    PROVE  Alone' /\ \A a \in Actors : ReadTrue(req[a])'
<1>1. \A a \in Actors : req'[a].at = "idle"
  BY IdleFields
<1>2. Alone'
  BY DEF Alone, Actors
<1> QED BY <1>1, <1>2 DEF ReadTrue

LEMMA SerialSweep ==
    ASSUME TypeOK, SerialInv, Serial,
           \/ \E c \in Clients : Issue(c)
           \/ Sweep \/ SweepFails
    PROVE  SerialInv'
<1>s. sweep \in [at : SweepStages, table : Tables, since : Nat, due : SUBSET Vaults]
  BY DEF TypeOK
<1>1. ASSUME NEW c \in Clients, Issue(c) PROVE SerialInv'
  <2>1. PICK x \in Request : /\ req' = [req EXCEPT ![c] = x]
                             /\ x.at \in {"body", "find", "lookup"}
                             /\ x.at = "body" => x.op \notin ItemOps
    BY <1>1, IssueRequest
  <2>c. Quiet /\ sweep.at = "idle"
    BY <1>1, Zenon DEF Issue
  <2>d. UNCHANGED <<vault, item, cause, cache, sweep>>
    <3>1. UNCHANGED <<rows, cache, sweep>>
      BY <1>1, Zenon DEF Issue
    <3> QED BY <3>1 DEF rows
  <2>a. Quiet /\ sweep.at = "idle" /\ UNCHANGED <<vault, item, cause, cache, sweep>>
    BY <2>c, <2>d
  <2>b. c \in Actors /\ req'[c] = x
    BY <2>1 DEF Actors, TypeOK
  <2>2. c \in Actors /\ req'[c] = x /\ UNCHANGED <<vault, item, cause, cache, sweep>>
        /\ Quiet /\ sweep.at = "idle"
    BY <2>a, <2>b
  <2>3. \A b \in Actors : b # c => req'[b] = Idle
    BY <2>1, <2>2 DEF Quiet, TypeOK
  <2>4. Alone'
    BY <2>2, <2>3 DEF Alone, Actors
  <2>5. \A a \in Actors : req'[a].at # "body" \/ req'[a].op \notin ItemOps
    <3> QED BY <2>1, <2>2, <2>3 DEF Idle
  <2>6. \A a \in Actors : req'[a].at \notin {"fill", "write"}
    BY <2>1, <2>2, <2>3 DEF Idle
  <2>7. \A a \in Actors : ReadTrue(req[a])'
    BY <2>5, <2>6 DEF ReadTrue
  <2>8. \A v \in Vaults : ~Evicting(v)
    BY <2>2 DEF Quiet, Evicting, Idle
  <2>9. \A v \in Vaults : CachedRow(v)
    BY <2>8, Zenon DEF SerialInv, CacheOrEvicting
  <2>10. \A v \in Vaults : CachedRow(v)'
    BY <2>2, <2>9 DEF CachedRow
  <2>11. CacheOrEvicting'
    BY <2>10 DEF CacheOrEvicting
  <2>12. \A i \in Items : CauseOf(i)' /\ Cascaded(i)'
    BY <2>2, SameRows
  <2> QED BY <2>4, <2>7, <2>11, <2>12 DEF SerialInv
<1>2. ASSUME NEW v \in Vaults, SweepVault(v) PROVE SerialInv'
  <2> DEFINE x == [Idle EXCEPT !.op = "PurgeVault", !.at = FirstStage("PurgeVault"), !.vault = v]
  <2>1. x.at = "find"
    BY DEF Idle, FirstStage
  <2>2. /\ req' = [req EXCEPT ![Scheduler] = x] /\ sweep.at = "vaults"
        /\ UNCHANGED <<vault, item, cause, cache>> /\ req[Scheduler] = Idle
    BY <1>2 DEF SweepVault, rows
  <2> HIDE DEF x
  <2>3. sweep'.at = "vaults"
    BY <1>2, <1>s DEF SweepVault
  <2>4. \A b \in Actors : b # Scheduler => req'[b] = Idle /\ req[b] = Idle
    BY <2>2 DEF Alone, SerialInv, Actors, TypeOK
  <2>5. req'[Scheduler] = x
    BY <2>2 DEF TypeOK, Actors
  <2>6. Alone'
    BY <2>3, <2>4 DEF Alone, Actors
  <2>7. \A a \in Actors : req'[a].at \notin {"body", "fill", "write"}
    BY <2>1, <2>4, <2>5 DEF Idle
  <2>8. \A a \in Actors : ReadTrue(req[a])'
    BY <2>7 DEF ReadTrue
  <2>9. \A w \in Vaults : ~Evicting(w)
    BY <2>2, <2>4 DEF Evicting, Idle
  <2>10. \A w \in Vaults : CachedRow(w)
    BY <2>9, Zenon DEF SerialInv, CacheOrEvicting
  <2>11. CacheOrEvicting'
    BY <2>2, <2>10 DEF CachedRow, CacheOrEvicting
  <2>12. \A i \in Items : CauseOf(i)' /\ Cascaded(i)'
    BY <2>2, SameRows
  <2> QED BY <2>6, <2>8, <2>11, <2>12 DEF SerialInv
<1>3. CASE \/ SweepStart \/ SweepCount \/ SweepAttempt \/ SweepDelete \/ SweepList \/ SweepDone
           \/ SweepFails
  <2>1. req' = req /\ vault' = vault /\ cache' = cache
    BY <1>3 DEF SweepStart, SweepCount, SweepAttempt, SweepDelete, SweepList, SweepDone,
       SweepFails, rows
  <2>2. Alone'
    <3>a. ASSUME \A a \in Actors : req[a] = Idle PROVE Alone'
      BY <2>1, <3>a DEF Alone, Actors
    <3>1. CASE SweepStart
      <4>1. Quiet
        BY <3>1 DEF SweepStart
      <4> QED BY <3>a, <4>1 DEF Quiet
    <3>2. CASE SweepDone
      <4>1. sweep'.at = "idle" /\ req'[Scheduler] = Idle /\ Alone
        BY <1>s, <2>1, <3>2 DEF SweepDone, SerialInv
      <4> QED BY <2>1, <4>1 DEF Alone
    <3>3. CASE SweepCount \/ SweepAttempt \/ SweepDelete \/ SweepList \/ SweepFails
      <4>1. sweep.at \notin {"idle", "vaults"}
        BY <3>3 DEF SweepCount, SweepAttempt, SweepDelete, SweepList, SweepFails
      <4>2. \A a \in Actors : req[a] = Idle
        BY <4>1 DEF SerialInv, Alone, Actors
      <4> QED BY <3>a, <4>2
    <3> QED BY <1>3, <3>1, <3>2, <3>3
  <2>3. \A i \in Items : CauseOf(i)' /\ Cascaded(i)'
    <3>1. CASE SweepDelete
      BY <2>1, <3>1, ErasedRows DEF SweepDelete, SerialInv
    <3>2. CASE ~SweepDelete
      <4>1. item' = item /\ cause' = cause
        BY <1>3, <3>2 DEF SweepStart, SweepCount, SweepAttempt, SweepList, SweepDone,
           SweepFails, rows
      <4> QED BY <2>1, <4>1, SameRows
    <3> QED BY <3>1, <3>2
  <2>4. CacheOrEvicting' /\ \A a \in Actors : ReadTrue(req[a])'
    BY <2>1 DEF SerialInv, CacheOrEvicting, CachedRow, Evicting, ReadTrue
  <2> QED BY <2>2, <2>3, <2>4 DEF SerialInv
<1> QED BY <1>1, <1>2, <1>3 DEF Sweep

LEMMA SerialRest ==
    ASSUME TypeOK, SerialInv,
           \/ \E a \in Actors : Fail(a)
           \/ \E v \in Vaults : CacheExpire(v)
           \/ Restart \/ Tick \/ UNCHANGED vars
    PROVE  SerialInv'
<1>1. ASSUME NEW a \in Actors, Fail(a) PROVE SerialInv'
  <2>1. /\ UNCHANGED <<vault, item, cause, cache, sweep>> /\ req' = [req EXCEPT ![a] = Idle]
        /\ req[a].at \notin {"idle", "evict", "drop"}
    BY <1>1 DEF Fail, Finish, rows
  <2>a. req[a] # Idle /\ Alone
    BY <2>1, IdleFields DEF SerialInv
  <2>b. \A b \in Actors : b # a => req[b] = Idle
    BY <2>a DEF Alone
  <2>2. \A b \in Actors : /\ req'[b] = Idle
                          /\ b # a => req[b] = Idle
    BY <2>1, <2>b DEF TypeOK
  <2>3. Alone' /\ \A b \in Actors : ReadTrue(req[b])'
    BY <2>2, AllIdle
  <2>4. \A v \in Vaults : ~Evicting(v)
    BY <2>1, <2>2 DEF Evicting, Idle
  <2>5. \A v \in Vaults : CachedRow(v)
    BY <2>4, Zenon DEF SerialInv, CacheOrEvicting
  <2>6. CacheOrEvicting'
    BY <2>1, <2>5 DEF CachedRow, CacheOrEvicting
  <2> QED BY <2>1, <2>3, <2>6, SameRows DEF SerialInv
<1>2. ASSUME NEW v \in Vaults, CacheExpire(v) PROVE SerialInv'
  <2>1. /\ UNCHANGED <<vault, item, cause, req, sweep>>
        /\ \A w \in Vaults : cache'[w] = IF w = v THEN {} ELSE cache[w]
    BY <1>2 DEF CacheExpire, rows, TypeOK
  <2>2. \A w \in Vaults : /\ CachedRow(w) => CachedRow(w)'
                          /\ Evicting(w) => Evicting(w)'
    BY <2>1 DEF CachedRow, Evicting
  <2>3. CacheOrEvicting'
    BY <2>2, Zenon DEF SerialInv, CacheOrEvicting
  <2>4. Alone' /\ \A a \in Actors : ReadTrue(req[a])'
    BY <2>1 DEF SerialInv, Alone, ReadTrue
  <2> QED BY <2>1, <2>3, <2>4, SameRows DEF SerialInv
<1>3. CASE Restart
  <2>1. /\ UNCHANGED <<vault, item, cause>> /\ sweep'.at = "idle"
        /\ \A v \in Vaults : cache'[v] = {}
        /\ \A a \in Actors : req'[a] = Idle
    BY <1>3 DEF Restart, rows
  <2>2. Alone' /\ \A a \in Actors : ReadTrue(req[a])'
    BY <2>1, AllIdle
  <2>3. CacheOrEvicting'
    BY <2>1 DEF CacheOrEvicting, CachedRow
  <2> QED BY <2>1, <2>2, <2>3, SameRows DEF SerialInv
<1>4. CASE Tick \/ UNCHANGED vars
  <2>1. UNCHANGED <<vault, item, cause, cache, req, sweep>>
    BY <1>4 DEF Tick, rows, vars
  <2>2. Alone' /\ \A a \in Actors : ReadTrue(req[a])'
    BY <2>1 DEF SerialInv, Alone, ReadTrue
  <2>3. \A v \in Vaults : /\ CachedRow(v) => CachedRow(v)'
                          /\ Evicting(v) => Evicting(v)'
    BY <2>1 DEF CachedRow, Evicting
  <2>4. CacheOrEvicting'
    BY <2>3, Zenon DEF SerialInv, CacheOrEvicting
  <2> QED BY <2>1, <2>2, <2>4, SameRows DEF SerialInv
<1> QED BY <1>1, <1>2, <1>3, <1>4

LEMMA SerialInit == Init => SerialInv
<1> SUFFICES ASSUME Init PROVE SerialInv
  OBVIOUS
<1>a. (\A a \in Actors : req[a] = Idle) /\ \A v \in Vaults : cache[v] = {}
  BY DEF Init
<1>1. Alone /\ \A a \in Actors : ReadTrue(req[a])
  BY <1>a, IdleFields DEF Alone, ReadTrue, Actors
<1>b. \A v \in Vaults : CachedRow(v)
  BY <1>a DEF CachedRow
<1>2. CacheOrEvicting
  BY <1>b, Zenon DEF CacheOrEvicting
<1>3. \A i \in Items : CauseOf(i) /\ Cascaded(i)
  BY DEF Init, CauseOf, Cascaded, SoftDeleted, LiveRow, NewRow
<1> QED BY <1>1, <1>2, <1>3 DEF SerialInv

LEMMA SerialNext == Serial /\ TypeOK /\ Distinct /\ SerialInv /\ [Next]_vars => SerialInv'
<1>1. ASSUME Serial, TypeOK, Distinct, SerialInv, NEW a \in Actors, Step(a) PROVE SerialInv'
  BY <1>1, SerialRead, SerialCache, SerialItem, SerialVault DEF Step
<1> QED BY <1>1, SerialSweep, SerialRest DEF Next

\* Requests that take turns keep a vault and its contents deleted, or not,
\* together (softDeleteVault, RecoverVault), though any of them may fail.
THEOREM CascadesAreExact == ASSUME Serial PROVE Spec => []CascadeExact
<1>1. SerialInv => CascadeExact
  BY DEF SerialInv, CascadeExact, Cascaded
<1> QED
  BY <1>1, SerialInit, SerialNext, TypeCorrect, StampsDistinct, PTL DEF Spec

\* Requests that take turns leave no cached vault that is not the row: each
\* write is followed by the eviction, which nothing but a crash prevents.
THEOREM CacheStaysFresh == ASSUME Serial PROVE Spec => []CacheFresh
<1>1. SerialInv => CacheFresh
  <2> SUFFICES ASSUME SerialInv, Quiet, NEW v \in Vaults, cache[v] # {}
               PROVE  Active(vault[v]) /\ cache[v] = {vault[v].protected}
    BY DEF CacheFresh
  <2>1. ~Evicting(v)
    BY IdleFields DEF Quiet, Evicting
  <2>2. CachedRow(v)
    BY <2>1, Zenon DEF SerialInv, CacheOrEvicting
  <2> QED BY <2>2 DEF CachedRow
<1> QED
  BY <1>1, SerialInit, SerialNext, TypeCorrect, StampsDistinct, PTL DEF Spec

-----------------------------------------------------------------------------
(* A sweep's DELETE, whatever happened since its COUNT.                     *)

SweptSince == sweep.since <= now

\* Rows disappear by three statements, two of which are a request's.
LEMMA RowsLast ==
    ASSUME TypeOK, [Next]_vars, ~SweepDelete,
           \A a \in Actors : ~EraseItem(a) /\ ~PurgeContents(a)
    PROVE  \A i \in Items : Exists(item[i]) => Exists(item'[i])
<1> SUFFICES ASSUME NEW i \in Items, Exists(item[i]) PROVE Exists(item'[i])
  OBVIOUS
<1>0. item[i] \in Row
  BY DEF TypeOK
<1>1. ASSUME NEW a \in Actors, Step(a) PROVE Exists(item'[i])
  <2>1. CASE \/ LookupHit(a) \/ LookupRead(a) \/ LookupMiss(a) \/ Fill(a) \/ RecordAttempt(a)
             \/ ReadItem(a) \/ VetItem(a) \/ CheckItem(a) \/ Evict(a) \/ FindDeleted(a)
             \/ VetVault(a) \/ DropCached(a) \/ PurgeDependents(a) \/ CreateVault(a)
             \/ UpdateVault(a) \/ PurgeVaultRow(a)
    BY <2>1 DEF LookupHit, LookupRead, LookupMiss, Fill, RecordAttempt, ReadItem, VetItem,
       CheckItem, Evict, FindDeleted, VetVault, DropCached, PurgeDependents, CreateVault,
       UpdateVault, PurgeVaultRow, rows
  <2>2. CASE CreateItem(a)
    BY <2>2 DEF CreateItem, TypeOK, Exists, LiveRow, NewRow
  <2>3. CASE SetPurgeProtection(a) \/ DeleteItem(a) \/ RecoverItem(a)
    <3>1. item'[i].phase = item[i].phase
      BY <1>0, <2>3 DEF SetPurgeProtection, DeleteItem, RecoverItem, TypeOK, Row
    <3> QED BY <3>1 DEF Exists
  <2>4. CASE SoftDeleteVault(a)
    <3> DEFINE v == req[a].vault
               stamp == IF Active(vault[v]) THEN now ELSE vault[v].deletedAt
               hit == {j \in Contents(v) : Active(item[j])}
    <3>1. \/ item' = item
          \/ item' = [j \in Items |-> IF j \in hit
                                         THEN [item[j] EXCEPT !.deletedAt = stamp] ELSE item[j]]
      BY <2>4 DEF SoftDeleteVault
    <3> HIDE DEF v, stamp, hit
    <3>2. item'[i].phase = item[i].phase
      BY <1>0, <3>1 DEF Row
    <3> QED BY <3>2 DEF Exists
  <2>5. CASE RecoverVault(a)
    <3> DEFINE v == req[a].vault
               hit == {j \in Contents(v) : SoftDeleted(item[j]) /\ item[j].deletedAt = req[a].stamp}
    <3>1. item' = [j \in Items |-> IF j \in hit
                                     THEN [item[j] EXCEPT !.deletedAt = Never] ELSE item[j]]
      BY <2>5 DEF RecoverVault
    <3> HIDE DEF v, hit
    <3>2. item'[i].phase = item[i].phase
      BY <1>0, <3>1 DEF Row
    <3> QED BY <3>2 DEF Exists
  <2> QED BY <1>1, <2>1, <2>2, <2>3, <2>4, <2>5 DEF Step
<1>2. CASE ~\E a \in Actors : Step(a)
  <2>1. CASE \/ \E c \in Clients : Issue(c)
             \/ \E a \in Actors : Fail(a)
             \/ \E v \in Vaults : CacheExpire(v)
             \/ Restart \/ Tick \/ UNCHANGED vars
    BY <2>1, Zenon DEF Issue, Fail, CacheExpire, Restart, Tick, vars, rows
  <2>2. CASE SweepStart \/ SweepCount \/ SweepAttempt \/ SweepList \/ SweepDone \/ SweepFails
             \/ \E v \in Vaults : SweepVault(v)
    BY <2>2, Zenon DEF SweepStart, SweepCount, SweepAttempt, SweepList, SweepDone, SweepFails,
       SweepVault, rows
  <2> QED BY <1>2, <2>1, <2>2 DEF Next, Sweep
<1> QED BY <1>1, <1>2

LEMMA SweptSinceNext == TypeOK /\ SweptSince /\ [Next]_vars => SweptSince'
<1> SUFFICES ASSUME TypeOK, SweptSince, [Next]_vars PROVE SweptSince'
  OBVIOUS
<1>0. /\ now \in Nat /\ sweep.since \in Nat /\ now # 0
      /\ sweep \in [at : SweepStages, table : Tables, since : Nat, due : SUBSET Vaults]
  BY DEF TypeOK
<1>1. now' = now \/ now' = now + 1
  <2>1. ASSUME NEW a \in Actors, Step(a) PROVE now' = now \/ now' = now + 1
    <3>1. CASE \/ LookupHit(a) \/ LookupRead(a) \/ LookupMiss(a) \/ Fill(a) \/ RecordAttempt(a)
               \/ CreateItem(a) \/ ReadItem(a) \/ SetPurgeProtection(a) \/ RecoverItem(a)
               \/ VetItem(a) \/ CheckItem(a) \/ EraseItem(a) \/ CreateVault(a) \/ UpdateVault(a)
      BY <3>1, Zenon DEF LookupHit, LookupRead, LookupMiss, Fill, RecordAttempt, CreateItem,
         ReadItem, SetPurgeProtection, RecoverItem, VetItem, CheckItem, EraseItem, CreateVault,
         UpdateVault, others
    <3>2. CASE \/ Evict(a) \/ FindDeleted(a) \/ RecoverVault(a) \/ VetVault(a) \/ PurgeVaultRow(a)
               \/ DropCached(a) \/ PurgeContents(a) \/ PurgeDependents(a)
      BY <3>2, Zenon DEF Evict, FindDeleted, RecoverVault, VetVault, PurgeVaultRow, DropCached,
         PurgeContents, PurgeDependents, others
    <3>3. CASE DeleteItem(a)
      BY <3>3, Zenon DEF DeleteItem
    <3>4. CASE SoftDeleteVault(a)
      BY <3>4, Zenon DEF SoftDeleteVault
    <3> QED BY <2>1, <3>1, <3>2, <3>3, <3>4 DEF Step
  <2>2. CASE \/ \E c \in Clients : Issue(c)
             \/ \E a \in Actors : Fail(a)
             \/ \E v \in Vaults : CacheExpire(v)
             \/ Restart \/ Tick \/ UNCHANGED vars
    BY <2>2, Zenon DEF Issue, Fail, CacheExpire, Restart, Tick, vars, others
  <2>3. CASE Sweep \/ SweepFails
    BY <2>3, Zenon DEF Sweep, SweepStart, SweepCount, SweepAttempt, SweepDelete, SweepList,
       SweepDone, SweepFails, SweepVault, others
  <2> QED BY <2>1, <2>2, <2>3 DEF Next
<1>2. sweep'.since \in {sweep.since, now, Never}
  <2>1. ASSUME NEW a \in Actors, Step(a) PROVE sweep' = sweep
    BY <2>1, Moves
  <2>2. NextTable.since = sweep.since
    BY <1>0 DEF NextTable
  <2>3. CASE \E v \in Vaults : SweepVault(v)
    BY <1>0, <2>3 DEF SweepVault
  <2>4. CASE SweepStart
    BY <1>0, <2>4 DEF SweepStart
  <2>5. CASE SweepCount
    BY <1>0, <2>2, <2>5 DEF SweepCount
  <2>6. CASE SweepAttempt
    BY <1>0, <2>6 DEF SweepAttempt
  <2>7. CASE SweepDelete \/ SweepFails
    BY <2>2, <2>7 DEF SweepDelete, SweepFails
  <2>8. CASE SweepList
    BY <1>0, <2>8 DEF SweepList
  <2>9. CASE SweepDone
    BY <1>0, <2>9 DEF SweepDone
  <2>10. CASE \/ \E c \in Clients : Issue(c)
              \/ \E a \in Actors : Fail(a)
              \/ \E v \in Vaults : CacheExpire(v)
              \/ Tick \/ UNCHANGED vars
    <3>1. sweep' = sweep
      BY <2>10, Zenon DEF Issue, Fail, CacheExpire, Tick, vars
    <3> QED BY <3>1
  <2>11. CASE Restart
    BY <2>11 DEF Restart
  <2> QED BY <2>1, <2>3, <2>4, <2>5, <2>6, <2>7, <2>8, <2>9, <2>10, <2>11 DEF Next, Sweep
<1> QED BY <1>0, <1>1, <1>2 DEF SweptSince

\* The sweep takes no row that was restored, protected or deleted again since
\* it counted: auditedPurgeTable's DELETE reads the rows itself, and the cutoff
\* it was given lies further in the past than the rows' time then.
THEOREM SweepSparesOthers == Spec => SweepSparesRecoverable
<1>1. Init => SweptSince
  BY DEF Init, SweptSince
<1> DEFINE Spared == sweep.at = "delete" /\ req' = req => \A i \in Items :
                       Exists(item[i]) /\ ~Exists(item'[i]) =>
                         SoftDeleted(item[i]) /\ ~item[i].protected
                           /\ item[i].deletedAt + RetentionDays < now
<1>2. TypeOK /\ SweptSince /\ [Next]_vars => Spared
  <2> SUFFICES ASSUME TypeOK, SweptSince, [Next]_vars, req' = req,
                      NEW i \in Items, Exists(item[i]), ~Exists(item'[i])
               PROVE  SoftDeleted(item[i]) /\ ~item[i].protected
                        /\ item[i].deletedAt + RetentionDays < now
    OBVIOUS
  <2>1. \A a \in Actors : ~EraseItem(a) /\ ~PurgeContents(a)
    <3> SUFFICES ASSUME NEW a \in Actors, EraseItem(a) \/ PurgeContents(a) PROVE FALSE
      OBVIOUS
    <3>1. CASE EraseItem(a)
      BY <3>1, FinishFields DEF EraseItem
    <3>2. CASE PurgeContents(a)
      <4>1. req[a] \in Request /\ req[a].table \in Tables
        BY DEF TypeOK, Request
      <4>2. CASE req[a].table = LastTable
        <5>1. req' = [req EXCEPT ![a] = [req[a] EXCEPT !.at = "trailing", !.table = 1]]
          BY <3>2, <4>2 DEF PurgeContents
        <5>2. req'[a].table = 1
          BY <4>1, <5>1 DEF TypeOK, Request
        <5> QED BY <4>2, <5>2
      <4>3. CASE req[a].table # LastTable
        <5>1. req' = [req EXCEPT ![a] = [req[a] EXCEPT !.table = @ + 1]]
          BY <3>2, <4>3 DEF PurgeContents
        <5>2. req'[a].table = req[a].table + 1
          BY <4>1, <5>1 DEF TypeOK, Request
        <5> QED BY <4>1, <5>2
      <4> QED BY <4>2, <4>3
    <3> QED BY <3>1, <3>2
  <2>2. SweepDelete
    BY <2>1, RowsLast
  <2>3. Expired(item[i], sweep.since)
    BY <2>2 DEF SweepDelete, Erase, ExpiredIn
  <2>4. item[i].deletedAt \in Nat /\ sweep.since \in Nat /\ now \in Nat
    BY DEF TypeOK, Row
  <2> QED BY <2>3, <2>4 DEF Expired, SweptSince
<1> QED
  BY <1>1, <1>2, SweptSinceNext, TypeCorrect, PTL DEF Spec, SweepSparesRecoverable

-----------------------------------------------------------------------------
(* A vault's purge, when requests take turns and none fails.                *)

\* Only the walks over the tables move a request's table.
LEMMA TableStays ==
    ASSUME TypeOK, NEW a \in Actors, Step(a), req[a].at \notin {"vet", "contents", "trailing"}
    PROVE  req'[a].table \in {req[a].table, 1}
<1> DEFINE r == req[a]
           x == req'[a]
<1>1. CASE Finish(a)
  BY <1>1, FinishFields
<1>2. CASE \E s : Goto(a, s)
  BY <1>2, GotoFields
<1>3. CASE \E p, s : req' = [req EXCEPT ![a].prot = p, ![a].at = s]
  <2>1. PICK p, s : req' = [req EXCEPT ![a].prot = p, ![a].at = s]
    BY <1>3
  <2>2. x.table = r.table
    BY <2>1, ProtFields
  <2> QED BY <2>2
<1>4. CASE \E n, s : req' = [req EXCEPT ![a].stamp = n, ![a].at = s]
  <2>1. PICK n, s : req' = [req EXCEPT ![a].stamp = n, ![a].at = s]
    BY <1>4
  <2>2. x.table = r.table
    BY <2>1, StampFields
  <2> QED BY <2>2
<1>5. CASE LookupHit(a) \/ LookupRead(a)
  <2>1. \E p, s : req' = [req EXCEPT ![a].prot = p, ![a].at = s]
    BY <1>5 DEF LookupHit, LookupRead
  <2> QED BY <1>3, <2>1
<1>6. CASE FindDeleted(a)
  BY <1>1, <1>2, <1>3, <1>4, <1>6 DEF FindDeleted
<1>7. CASE \/ LookupMiss(a) \/ SetPurgeProtection(a) \/ DeleteItem(a) \/ RecoverItem(a)
           \/ EraseItem(a) \/ CreateVault(a) \/ Evict(a)
  BY <1>1, <1>7 DEF LookupMiss, SetPurgeProtection, DeleteItem, RecoverItem, EraseItem,
     CreateVault, Evict
<1>8. CASE \/ Fill(a) \/ RecordAttempt(a) \/ UpdateVault(a) \/ RecoverVault(a)
           \/ PurgeVaultRow(a) \/ DropCached(a)
  BY <1>2, <1>8 DEF Fill, RecordAttempt, UpdateVault, RecoverVault, PurgeVaultRow, DropCached
<1>9. CASE \/ CreateItem(a) \/ ReadItem(a) \/ VetItem(a) \/ CheckItem(a) \/ SoftDeleteVault(a)
  BY <1>1, <1>2, <1>9 DEF CreateItem, ReadItem, VetItem, CheckItem, SoftDeleteVault
<1>10. ~VetVault(a) /\ ~PurgeContents(a) /\ ~PurgeDependents(a)
  BY DEF VetVault, PurgeContents, PurgeDependents
<1> QED BY <1>5, <1>6, <1>7, <1>8, <1>9, <1>10 DEF Step

\* Which statement a purge runs at each stage.
LEMMA Walks ==
    ASSUME NEW a \in Actors, Step(a)
    PROVE  /\ req[a].at = "vet" => VetVault(a)
           /\ req[a].at = "drop" => DropCached(a)
           /\ req[a].at = "contents" => PurgeContents(a)
           /\ req[a].at = "trailing" => PurgeDependents(a)
<1>1. CASE \/ LookupHit(a) \/ LookupRead(a) \/ LookupMiss(a) \/ Fill(a) \/ RecordAttempt(a)
           \/ CreateItem(a) \/ ReadItem(a) \/ SetPurgeProtection(a) \/ DeleteItem(a)
           \/ RecoverItem(a) \/ VetItem(a) \/ CheckItem(a) \/ EraseItem(a)
  <2>1. req[a].at \notin {"vet", "drop", "contents", "trailing"}
    BY <1>1 DEF LookupHit, LookupRead, LookupMiss, Fill, RecordAttempt, CreateItem, ReadItem,
       SetPurgeProtection, DeleteItem, RecoverItem, VetItem, CheckItem, EraseItem, At
  <2> QED BY <2>1
<1>2. CASE \/ CreateVault(a) \/ UpdateVault(a) \/ SoftDeleteVault(a) \/ Evict(a)
           \/ FindDeleted(a) \/ RecoverVault(a) \/ PurgeVaultRow(a)
  <2>1. req[a].at \notin {"vet", "drop", "contents", "trailing"}
    BY <1>2 DEF CreateVault, UpdateVault, SoftDeleteVault, Evict, FindDeleted, RecoverVault,
       PurgeVaultRow, At
  <2> QED BY <2>1
<1>3. CASE VetVault(a) \/ DropCached(a) \/ PurgeContents(a) \/ PurgeDependents(a)
  BY <1>3 DEF VetVault, DropCached, PurgeContents, PurgeDependents
<1> QED BY <1>1, <1>2, <1>3 DEF Step

LEMMA TableStep ==
    ASSUME TypeOK, NEW a \in Actors, Step(a), TableReset(req[a])
    PROVE  TableReset(req[a])'
<1> DEFINE r == req[a]
           x == req'[a]
<1>0. r \in Request /\ r.table \in Tables
  BY DEF TypeOK, Request
<1>1. CASE r.at \notin {"vet", "contents", "trailing"}
  BY <1>1, TableStays DEF TableReset
<1>2. CASE r.at = "vet"
  <2>1. VetVault(a)
    BY <1>2, Walks
  <2>2. CASE Finish(a)
    BY <2>2, FinishFields DEF TableReset
  <2>3. CASE req' = [req EXCEPT ![a] = [r EXCEPT !.at = "attempt", !.table = 1]]
    BY <1>0, <2>3 DEF TableReset, TypeOK, Request
  <2>4. CASE req' = [req EXCEPT ![a] = [r EXCEPT !.table = @ + 1]]
    BY <1>0, <1>2, <2>4 DEF TableReset, TypeOK, Request
  <2> QED BY <2>1, <2>2, <2>3, <2>4 DEF VetVault
<1>3. CASE r.at = "contents"
  <2>1. PurgeContents(a)
    BY <1>3, Walks
  <2>2. x.at \in {"contents", "trailing"}
    <3>1. CASE req' = [req EXCEPT ![a] = [r EXCEPT !.at = "trailing", !.table = 1]]
      BY <1>0, <3>1 DEF TypeOK, Request
    <3>2. CASE req' = [req EXCEPT ![a] = [r EXCEPT !.table = @ + 1]]
      BY <1>0, <1>3, <3>2 DEF TypeOK, Request
    <3> QED BY <2>1, <3>1, <3>2 DEF PurgeContents
  <2> QED BY <2>2 DEF TableReset
<1>4. CASE r.at = "trailing"
  <2>1. PurgeDependents(a)
    BY <1>4, Walks
  <2>2. CASE Finish(a)
    BY <2>2, FinishFields DEF TableReset
  <2>3. CASE req' = [req EXCEPT ![a].table = @ + 1]
    BY <1>0, <1>4, <2>3 DEF TableReset, TypeOK, Request
  <2> QED BY <2>1, <2>2, <2>3 DEF PurgeDependents
<1> QED BY <1>1, <1>2, <1>3, <1>4

\* Nothing is put into a vault that is gone.
LEMMA NothingAdded ==
    ASSUME TypeOK, SerialInv, NEW a \in Actors, Step(a),
           NEW w \in Vaults, vault[w].phase = "gone"
    PROVE  /\ dependents'[w] \subseteq dependents[w]
           /\ \A i \in Contents(w) : Exists(item'[i]) => Exists(item[i])
<1> DEFINE r == req[a]
           v == r.vault
<1>0. r \in Request /\ RequestOK(r) /\ ReadTrue(r) /\ \A i \in Items : item[i] \in Row
  BY DEF TypeOK, SerialInv
<1>1. dependents'[w] \subseteq dependents[w]
  <2>1. CASE \/ LookupHit(a) \/ LookupRead(a) \/ LookupMiss(a) \/ Fill(a) \/ RecordAttempt(a)
             \/ CreateItem(a) \/ ReadItem(a) \/ SetPurgeProtection(a) \/ DeleteItem(a)
             \/ RecoverItem(a) \/ VetItem(a) \/ CheckItem(a) \/ EraseItem(a) \/ UpdateVault(a)
    <3>1. dependents' = dependents
      BY <2>1, Zenon DEF LookupHit, LookupRead, LookupMiss, Fill, RecordAttempt, CreateItem,
         ReadItem, SetPurgeProtection, DeleteItem, RecoverItem, VetItem, CheckItem, EraseItem,
         UpdateVault, rows
    <3> QED BY <3>1
  <2>2. CASE \/ SoftDeleteVault(a) \/ Evict(a) \/ FindDeleted(a) \/ RecoverVault(a)
             \/ VetVault(a) \/ PurgeVaultRow(a) \/ DropCached(a) \/ PurgeContents(a)
    <3>1. dependents' = dependents
      BY <2>2, Zenon DEF SoftDeleteVault, Evict, FindDeleted, RecoverVault, VetVault,
         PurgeVaultRow, DropCached, PurgeContents, rows
    <3> QED BY <3>1
  <2>3. CASE CreateVault(a)
    <3>1. dependents' = dependents \/ (v # w /\ \E g : dependents' = [dependents EXCEPT ![v] = g])
      BY <2>3 DEF CreateVault
    <3> QED BY <3>1 DEF TypeOK
  <2>4. CASE PurgeDependents(a)
    BY <2>4 DEF PurgeDependents, TypeOK
  <2> QED BY <2>1, <2>2, <2>3, <2>4 DEF Step
<1>2. ASSUME NEW i \in Contents(w), Exists(item'[i]) PROVE Exists(item[i])
  <2>0. i \in Items /\ VaultOf[i] = w
    BY DEF Contents
  <2>1. CASE \/ LookupHit(a) \/ LookupRead(a) \/ LookupMiss(a) \/ Fill(a) \/ RecordAttempt(a)
             \/ ReadItem(a) \/ VetItem(a) \/ CheckItem(a) \/ Evict(a) \/ FindDeleted(a)
             \/ VetVault(a) \/ DropCached(a) \/ PurgeDependents(a) \/ CreateVault(a)
             \/ UpdateVault(a) \/ PurgeVaultRow(a)
    <3>1. item' = item
      BY <2>1, Zenon DEF LookupHit, LookupRead, LookupMiss, Fill, RecordAttempt, ReadItem, VetItem,
         CheckItem, Evict, FindDeleted, VetVault, DropCached, PurgeDependents, CreateVault,
         UpdateVault, PurgeVaultRow, rows
    <3> QED BY <1>2, <3>1
  <2>2. CASE CreateItem(a)
    <3>1. r.op \in ItemOps /\ r.at = "body"
      BY <2>2 DEF CreateItem, At, ItemOps
    <3>2. r.item \in Contents(v) /\ Active(vault[v])
      BY <1>0, <3>1 DEF RequestOK, ReadTrue
    <3>3. r.item # i
      BY <2>0, <3>2 DEF Contents, Active, Exists
    <3>4. item'[i] = item[i]
      BY <2>0, <2>2, <3>3 DEF CreateItem, TypeOK
    <3> QED BY <1>2, <3>4
  <2>3. CASE SetPurgeProtection(a) \/ DeleteItem(a) \/ RecoverItem(a)
    <3>1. item'[i].phase = item[i].phase
      BY <1>0, <2>0, <2>3 DEF SetPurgeProtection, DeleteItem, RecoverItem, TypeOK, Row
    <3> QED BY <1>2, <3>1 DEF Exists
  <2>4. CASE SoftDeleteVault(a)
    <3> DEFINE stamp == IF Active(vault[v]) THEN now ELSE vault[v].deletedAt
               hit == {j \in Contents(v) : Active(item[j])}
    <3>1. \/ item' = item
          \/ item' = [j \in Items |-> IF j \in hit
                                         THEN [item[j] EXCEPT !.deletedAt = stamp] ELSE item[j]]
      BY <2>4 DEF SoftDeleteVault
    <3> HIDE DEF v, stamp, hit
    <3>2. item'[i].phase = item[i].phase
      BY <1>0, <2>0, <3>1 DEF Row
    <3> QED BY <1>2, <3>2 DEF Exists
  <2>5. CASE RecoverVault(a)
    <3> DEFINE hit == {j \in Contents(v) : SoftDeleted(item[j]) /\ item[j].deletedAt = r.stamp}
    <3>1. item' = [j \in Items |-> IF j \in hit
                                     THEN [item[j] EXCEPT !.deletedAt = Never] ELSE item[j]]
      BY <2>5 DEF RecoverVault
    <3> HIDE DEF v, hit
    <3>2. item'[i].phase = item[i].phase
      BY <1>0, <2>0, <3>1 DEF Row
    <3> QED BY <1>2, <3>2 DEF Exists
  <2>6. CASE EraseItem(a) \/ PurgeContents(a)
    <3>1. \E gone : Erase(gone)
      BY <2>6 DEF EraseItem, PurgeContents
    <3>2. item'[i] = GoneRow \/ item'[i] = item[i]
      BY <2>0, <3>1 DEF Erase
    <3> QED BY <1>2, <3>2 DEF Exists, GoneRow, NewRow
  <2> QED BY <2>1, <2>2, <2>3, <2>4, <2>5, <2>6 DEF Step
<1> QED BY <1>1, <1>2

LEMMA StillNothing ==
    ASSUME NEW w \in Vaults, LeftNothing(w), dependents'[w] \subseteq dependents[w],
           \A i \in Contents(w) : Exists(item'[i]) => Exists(item[i])
    PROVE  LeftNothing(w)'
  BY DEF LeftNothing, Contents

\* The request that clears a vault goes on to the next table, or is done.
LEMMA ClearingStep ==
    ASSUME TypeOK, SerialInv, NEW a \in Actors, Step(a), TableReset(req[a]),
           NEW w \in Vaults, vault[w].phase = "gone", Clears(req[a], w)
    PROVE  LeftNothing(w)' \/ Clears(req[a], w)'
<1> DEFINE r == req[a]
           x == req'[a]
<1>0. /\ r \in Request /\ r.table \in Tables /\ r.vault = w
      /\ dependents[w] \subseteq Dependents
  BY DEF TypeOK, Request, Clears
<1>1. /\ dependents'[w] \subseteq dependents[w]
      /\ \A i \in Contents(w) : Exists(item'[i]) => Exists(item[i])
  BY NothingAdded
<1>2. CASE r.at = "drop"
  <2>1. x.at = "contents" /\ x.vault = w /\ x.table = 1
    BY <1>0, <1>2, Walks, GotoFields DEF DropCached, TableReset
  <2>2. \A i \in Contents(w) : TableOf[i] >= 1
    BY DEF Contents
  <2> QED BY <2>1, <2>2 DEF Clears, ContentsCleared, Contents
<1>3. CASE r.at = "contents"
  <2>1. /\ PurgeContents(a)
        /\ \A i \in Contents(w) : Exists(item[i]) => TableOf[i] >= r.table
    BY <1>3, Walks DEF Clears, ContentsCleared
  <2>2. \A i \in Contents(w) : Exists(item'[i]) => TableOf[i] # r.table
    BY <1>0, <2>1 DEF PurgeContents, Erase, Contents, Exists, GoneRow, NewRow
  <2>3. \A i \in Contents(w) : Exists(item'[i]) => TableOf[i] >= r.table + 1
    <3> SUFFICES ASSUME NEW i \in Contents(w), Exists(item'[i]) PROVE TableOf[i] >= r.table + 1
      OBVIOUS
    <3>1. TableOf[i] \in Tables
      BY DEF Contents
    <3>2. TableOf[i] >= r.table /\ TableOf[i] # r.table
      BY <1>1, <2>1, <2>2
    <3> QED BY <1>0, <3>1, <3>2
  <2>4. CASE r.table = LastTable
    <3>1. req' = [req EXCEPT ![a] = [r EXCEPT !.at = "trailing", !.table = 1]]
      BY <2>1, <2>4 DEF PurgeContents
    <3>2. x.at = "trailing" /\ x.vault = w /\ x.table = 1
      BY <1>0, <3>1 DEF TypeOK, Request
    <3>3. \A i \in Contents(w) : ~Exists(item'[i])
      <4> SUFFICES ASSUME NEW i \in Contents(w), Exists(item'[i]) PROVE FALSE
        OBVIOUS
      <4>1. TableOf[i] \in Tables
        BY DEF Contents
      <4> QED BY <2>3, <2>4, <4>1
    <3> QED BY <3>2, <3>3 DEF Clears, DependentsCleared, Contents
  <2>5. CASE r.table # LastTable
    <3>1. req' = [req EXCEPT ![a] = [r EXCEPT !.table = @ + 1]]
      BY <2>1, <2>5 DEF PurgeContents
    <3>2. x.at = "contents" /\ x.vault = w /\ x.table = r.table + 1
      BY <1>0, <1>3, <3>1 DEF TypeOK, Request
    <3> QED BY <2>3, <3>2 DEF Clears, ContentsCleared, Contents
  <2> QED BY <2>4, <2>5
<1>4. CASE r.at = "trailing"
  <2>1. /\ PurgeDependents(a) /\ \A i \in Contents(w) : ~Exists(item[i])
        /\ \A t \in Tables : DependentTable[t] \in dependents[w] => t >= r.table
    BY <1>4, Walks DEF Clears, DependentsCleared
  <2>2. \A i \in Contents(w) : ~Exists(item'[i])
    BY <1>1, <2>1
  <2>3. dependents'[w] = dependents[w] \ {DependentTable[r.table]}
    BY <1>0, <2>1 DEF PurgeDependents, TypeOK
  <2>4. \A t \in Tables : DependentTable[t] \in dependents'[w] => t >= r.table + 1
    <3> SUFFICES ASSUME NEW t \in Tables, DependentTable[t] \in dependents'[w]
                 PROVE  t >= r.table + 1
      OBVIOUS
    <3>1. t >= r.table /\ t # r.table
      BY <2>1, <2>3
    <3> QED BY <1>0, <3>1
  <2>5. CASE r.table = 3
    <3>1. \A t \in Tables : DependentTable[t] \notin dependents'[w]
      BY <2>4, <2>5
    <3>2. \A d \in Dependents : \E t \in Tables : d = DependentTable[t]
      BY DEF Dependents, DependentTable
    <3>3. dependents'[w] = {}
      BY <1>0, <1>1, <3>1, <3>2
    <3> QED BY <2>2, <3>3 DEF LeftNothing, Contents
  <2>6. CASE r.table # 3
    <3>1. req' = [req EXCEPT ![a].table = @ + 1]
      BY <2>1, <2>6 DEF PurgeDependents, DependentTable
    <3>2. x.at = "trailing" /\ x.vault = w /\ x.table = r.table + 1
      BY <1>0, <1>4, <3>1 DEF TypeOK, Request
    <3> QED BY <2>2, <2>4, <3>2 DEF Clears, DependentsCleared, Contents
  <2> QED BY <2>5, <2>6
<1> QED BY <1>2, <1>3, <1>4 DEF Clears

\* Only its purge takes a vault's row away.
LEMMA VaultGone ==
    ASSUME TypeOK, NEW a \in Actors, Step(a), NEW w \in Vaults,
           vault[w].phase # "gone", vault'[w].phase = "gone"
    PROVE  PurgeVaultRow(a) /\ w = req[a].vault
<1> DEFINE v == req[a].vault
<1>0. vault[w] \in Row
  BY DEF TypeOK
<1>1. CASE \/ LookupHit(a) \/ LookupRead(a) \/ LookupMiss(a) \/ Fill(a) \/ RecordAttempt(a)
           \/ CreateItem(a) \/ ReadItem(a) \/ SetPurgeProtection(a) \/ DeleteItem(a)
           \/ RecoverItem(a) \/ VetItem(a) \/ CheckItem(a) \/ EraseItem(a)
  <2>1. vault' = vault
    BY <1>1, Zenon DEF LookupHit, LookupRead, LookupMiss, Fill, RecordAttempt, CreateItem, ReadItem,
       SetPurgeProtection, DeleteItem, RecoverItem, VetItem, CheckItem, EraseItem, rows
  <2> QED BY <2>1
<1>2. CASE \/ Evict(a) \/ FindDeleted(a) \/ VetVault(a) \/ DropCached(a) \/ PurgeContents(a)
           \/ PurgeDependents(a)
  <2>1. vault' = vault
    BY <1>2, Zenon DEF Evict, FindDeleted, VetVault, DropCached, PurgeContents, PurgeDependents, rows
  <2> QED BY <2>1
<1>3. CASE CreateVault(a)
  <2> DEFINE n == [LiveRow EXCEPT !.protected = (req[a].want = "on")]
  <2>1. vault' = vault \/ vault' = [vault EXCEPT ![v] = n]
    BY <1>3 DEF CreateVault
  <2>2. n.phase = "row"
    BY DEF LiveRow, NewRow
  <2> HIDE DEF n, v
  <2> QED BY <2>1, <2>2 DEF TypeOK
<1>4. CASE UpdateVault(a) \/ SoftDeleteVault(a) \/ RecoverVault(a)
  <2>1. \/ vault' = vault
        \/ \E p : vault' = [vault EXCEPT ![v].protected = p]
        \/ \E d : vault' = [vault EXCEPT ![v].deletedAt = d]
    BY <1>4 DEF UpdateVault, SoftDeleteVault, RecoverVault
  <2> HIDE DEF v
  <2>2. vault'[w].phase = vault[w].phase
    BY <1>0, <2>1 DEF TypeOK, Row
  <2> QED BY <2>2
<1>5. CASE PurgeVaultRow(a)
  <2>1. vault' = vault \/ vault' = [vault EXCEPT ![v] = GoneRow]
    BY <1>5 DEF PurgeVaultRow
  <2> HIDE DEF v
  <2>2. w = v
    BY <2>1 DEF TypeOK
  <2> QED BY <1>5, <2>2 DEF v
<1> QED BY <1>1, <1>2, <1>3, <1>4, <1>5 DEF Step

LEMMA PurgeStep ==
    ASSUME TypeOK, SerialInv, PurgeInv, NEW a \in Actors, Step(a)
    PROVE  PurgeInv'
<1>1. \A b \in Actors : TableReset(req[b])'
  <2>1. TableReset(req[a])'
    BY TableStep DEF PurgeInv
  <2>2. \A b \in Actors : b # a => TableReset(req[b])'
    BY Moves DEF PurgeInv, TableReset
  <2> QED BY <2>1, <2>2
<1>2. ASSUME NEW w \in Vaults, vault'[w].phase = "gone" PROVE LeftNothing(w)' \/ Clearing(w)'
  <2>1. CASE vault[w].phase = "gone"
    <3>1. CASE LeftNothing(w)
      BY <2>1, <3>1, NothingAdded, StillNothing
    <3>2. CASE Clearing(w)
      <4>1. PICK b \in Actors : Clears(req[b], w)
        BY <3>2 DEF Clearing
      <4>2. req[b].at # "idle"
        BY <4>1 DEF Clears
      <4>3. b = a
        BY <4>2, LoneStep, IdleFields DEF SerialInv
      <4>4. LeftNothing(w)' \/ Clears(req[a], w)'
        BY <2>1, <4>1, <4>3, ClearingStep DEF PurgeInv
      <4> QED BY <4>4 DEF Clearing
    <3> QED BY <2>1, <3>1, <3>2 DEF PurgeInv
  <2>2. CASE vault[w].phase # "gone"
    <3>1. PurgeVaultRow(a) /\ w = req[a].vault
      BY <1>2, <2>2, VaultGone
    <3>2. req'[a].at = "drop" /\ req'[a].vault = w
      BY <3>1, GotoFields DEF PurgeVaultRow
    <3>3. Clears(req[a], w)'
      BY <3>2 DEF Clears
    <3> QED BY <3>3 DEF Clearing
  <2> QED BY <2>1, <2>2
<1> QED BY <1>1, <1>2 DEF PurgeInv

\* A new request, or none, beside those that clear.
LEMMA PurgeOthers ==
    ASSUME TypeOK, PurgeInv, vault' = vault, dependents' = dependents,
           \A i \in Items : Exists(item'[i]) => Exists(item[i]),
           NEW c \in Actors, TableReset(req[c])',
           req'[c] = req[c] \/ req[c] = Idle, \A b \in Actors : b # c => req'[b] = req[b]
    PROVE  PurgeInv'
<1>1. \A b \in Actors : TableReset(req[b])'
  BY DEF PurgeInv, TableReset
<1>2. ASSUME NEW w \in Vaults, vault'[w].phase = "gone" PROVE LeftNothing(w)' \/ Clearing(w)'
  <2>1. CASE LeftNothing(w)
    <3>1. \A i \in Contents(w) : Exists(item'[i]) => Exists(item[i])
      BY DEF Contents
    <3> QED BY <2>1, <3>1, StillNothing
  <2>2. CASE Clearing(w)
    <3>1. PICK b \in Actors : Clears(req[b], w)
      BY <2>2 DEF Clearing
    <3>2. req'[b] = req[b]
      BY <3>1, IdleFields DEF Clears
    <3>3. \A i \in Contents(w) : Exists(item'[i]) => Exists(item[i])
      BY DEF Contents
    <3>4. Clears(req[b], w)'
      BY <3>1, <3>2, <3>3 DEF Clears, ContentsCleared, DependentsCleared, Contents
    <3> QED BY <3>4 DEF Clearing
  <2> QED BY <1>2, <2>1, <2>2 DEF PurgeInv
<1> QED BY <1>1, <1>2 DEF PurgeInv

LEMMA PurgeInit == Init => PurgeInv
<1> SUFFICES ASSUME Init PROVE PurgeInv
  OBVIOUS
<1>1. \A a \in Actors : TableReset(req[a])
  BY IdleFields DEF Init, TableReset
<1>2. \A v \in Vaults : vault[v].phase # "gone"
  <2>1. vault = [v \in Vaults |-> IF v \in Existing THEN LiveRow ELSE NewRow]
    BY DEF Init
  <2>2. LiveRow.phase # "gone" /\ NewRow.phase # "gone"
    BY DEF LiveRow, NewRow
  <2>3. \A v \in Vaults : vault[v] \in {LiveRow, NewRow}
    BY <2>1, Zenon
  <2> QED BY <2>2, <2>3, Zenon
<1> QED BY <1>1, <1>2 DEF PurgeInv

LEMMA PurgeNext ==
    ASSUME ~MayFail, TypeOK, SerialInv, PurgeInv, [Next]_vars
    PROVE  PurgeInv'
<1>1. ASSUME NEW a \in Actors, Step(a) PROVE PurgeInv'
  BY <1>1, PurgeStep
<1>2. ASSUME NEW c \in Clients, Issue(c) PROVE PurgeInv'
  <2>1. PICK x \in Request : req' = [req EXCEPT ![c] = x] /\ x.table = 1
    BY <1>2, IssueRequest
  <2>2. req[c] = Idle /\ UNCHANGED rows
    BY <1>2, Zenon DEF Issue
  <2>3. c \in Actors /\ req'[c] = x /\ \A b \in Actors : b # c => req'[b] = req[b]
    BY <2>1 DEF TypeOK, Actors
  <2>4. TableReset(req[c])'
    BY <2>1, <2>3 DEF TableReset
  <2>5. vault' = vault /\ dependents' = dependents /\ item' = item
    BY <2>2 DEF rows
  <2> QED BY <2>2, <2>3, <2>4, <2>5, PurgeOthers
<1>3. ASSUME NEW v \in Vaults, SweepVault(v) PROVE PurgeInv'
  <2> DEFINE x == [Idle EXCEPT !.op = "PurgeVault", !.at = FirstStage("PurgeVault"), !.vault = v]
  <2>1. x.table = 1
    BY DEF Idle
  <2>2. req' = [req EXCEPT ![Scheduler] = x] /\ req[Scheduler] = Idle /\ UNCHANGED rows
    BY <1>3 DEF SweepVault
  <2> HIDE DEF x
  <2>3. /\ Scheduler \in Actors /\ req'[Scheduler] = x
        /\ \A b \in Actors : b # Scheduler => req'[b] = req[b]
    BY <2>2 DEF TypeOK, Actors
  <2>4. TableReset(req[Scheduler])'
    BY <2>1, <2>3 DEF TableReset
  <2>5. vault' = vault /\ dependents' = dependents /\ item' = item
    BY <2>2 DEF rows
  <2> QED BY <2>2, <2>3, <2>4, <2>5, PurgeOthers
<1>4. CASE \/ SweepStart \/ SweepCount \/ SweepAttempt \/ SweepDelete \/ SweepList \/ SweepDone
           \/ \E v \in Vaults : CacheExpire(v)
           \/ Tick \/ UNCHANGED vars
  <2>1. req' = req /\ vault' = vault /\ dependents' = dependents
    BY <1>4, Zenon DEF SweepStart, SweepCount, SweepAttempt, SweepDelete, SweepList, SweepDone,
       CacheExpire, Tick, vars, rows
  <2>2. \A i \in Items : Exists(item'[i]) => Exists(item[i])
    <3>1. CASE SweepDelete
      BY <3>1 DEF SweepDelete, Erase, Exists, GoneRow, NewRow
    <3>2. CASE ~SweepDelete
      <4>1. item' = item
        BY <1>4, <3>2, Zenon DEF SweepStart, SweepCount, SweepAttempt, SweepList, SweepDone,
           CacheExpire, Tick, vars, rows
      <4> QED BY <4>1
    <3> QED BY <3>1, <3>2
  <2>3. Scheduler \in Actors /\ TableReset(req[Scheduler])'
    BY <2>1 DEF PurgeInv, Actors, TableReset
  <2>4. req'[Scheduler] = req[Scheduler] /\ \A b \in Actors : b # Scheduler => req'[b] = req[b]
    BY <2>1
  <2> QED BY <2>1, <2>2, <2>3, <2>4, PurgeOthers
<1>5. ~SweepFails /\ ~Restart /\ \A a \in Actors : ~Fail(a)
  BY DEF SweepFails, Restart, Fail
<1> QED BY <1>1, <1>2, <1>3, <1>4, <1>5 DEF Next, Sweep

\* A purge that nothing interrupts or overlaps leaves nothing of the vault
\* (purgeVaultRows, the row first and its contents after it).
THEOREM PurgeLeavesNothing == ASSUME Serial, ~MayFail PROVE Spec => []NoStrandedRows
<1>1. PurgeInv => NoStrandedRows
  <2> SUFFICES ASSUME PurgeInv, Quiet, NEW v \in Vaults, vault[v].phase = "gone"
               PROVE  LeftNothing(v)
    BY DEF NoStrandedRows, LeftNothing
  <2>1. ~Clearing(v)
    BY IdleFields DEF Quiet, Clearing, Clears
  <2> QED BY <2>1 DEF PurgeInv
<1>2. SerialInv /\ PurgeInv /\ TypeOK /\ Distinct /\ [Next]_vars => PurgeInv'
  BY PurgeNext
<1> QED
  BY <1>1, <1>2, PurgeInit, SerialInit, SerialNext, TypeCorrect, StampsDistinct, PTL DEF Spec
=============================================================================
