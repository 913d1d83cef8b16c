------------------------- MODULE CertificatesProofs -------------------------
(***************************************************************************)
(* Theorems about Certificates, for any certificates, CAs and requests:    *)
(* types, the versions and exports that stay true, the grounds of every    *)
(* signature, and that certificates implement VersionHistory.              *)
(*                                                                         *)
(* Requests first, action by action (Running, Copied, Fresh), then the     *)
(* tables (Kept), what was exported, what a request has checked, and last  *)
(* the history that the tables keep.                                       *)
(***************************************************************************)
EXTENDS Certificates, TLAPS

\* What a request gives.
Gifts == {<<>>, [auto |-> TRUE], [auto |-> TRUE, ca |-> TRUE]} \cup Updates \cup Lifecycles

Requests == [op : Ops, at : Stages, cert : Certs \cup {None}, copy : Certificate,
             key : Materials \cup {None}, sign : Materials \cup {None}, version : Nat,
             days : Nat, give : Gifts]

\* The stages that an operation has.
StagesOf(op) ==
  CASE op = "create"  -> {"key", "issuer", "issuerkey", "store", "protect"}
    [] op = "renew"   -> {"owner", "grant", "read", "key", "issuer", "issuerkey", "store"}
    [] op = "update"  -> {"read", "write", "protect"}
    [] op = "version" -> {"read", "lifecycle", "status", "row"}
    [] op = "delete"  -> {"read", "row"}
    [] op = "recover" -> {"row"}
    [] op = "purge"   -> {"row", "erase"}
    [] op = "export"  -> {"read", "status", "release"}

\* Version rows have the type of a version.
RowsTyped(table) == \A n \in DOMAIN table : n \in 1 .. MaxVersion /\ table[n] \in Contents

Typed == /\ now \in 0 .. MaxTime /\ cert \in [Certs -> Certificate]
         /\ DOMAIN archived = Certs /\ \A c \in Certs : RowsTyped(archived[c])
         /\ key \in [Certs -> [usable : BOOLEAN, value : Materials]]
         /\ rights \subseteq {"account", "grant"}
         /\ req \in [Actors -> Requests] /\ made \in [Certs -> Seq(Bodies)]
         /\ DOMAIN plan \subseteq Certs
         /\ \A c \in DOMAIN plan : plan[c] \in Certificate /\ plan[c].now # None

\* A request under way is at a stage of its operation and has read what comes
\* before.
Running(a) ==
  LET r == req[a] IN
  /\ r.at = "idle" <=> r = Idle
  /\ r # Idle => r.at \in StagesOf(r.op) /\ r.cert \in Certs
  /\ a = Scheduler => r.op = "renew"
  /\ r.at \in {"issuer", "issuerkey", "store"} => r.key # None
  /\ r.at \in {"issuerkey", "store"} /\ ~SelfSigned(r.cert) => r.sign # None
  /\ r.at = "protect" => "protected" \in DOMAIN r.give

\* What a request has a copy of is a version that was issued.
Copied(a) ==
  LET r == req[a] IN
  /\ \/ r.op = "renew" /\ r.at \in {"key", "issuer", "issuerkey", "store"}
     \/ r.op = "version" /\ r.at = "row"
     \/ r.at \in {"write", "lifecycle", "status", "release"}
     => r.copy.now # None
  /\ r.copy.now # None =>
       /\ r.cert \in Certs /\ r.copy.version \in DOMAIN made[r.cert]
       /\ r.copy.now.body = made[r.cert][r.copy.version]
       /\ r.copy.now.secret = r.copy.now.body.key
  /\ r.op = "renew" /\ r.copy.now # None => r.copy.version < MaxVersion

\* A creation that has not stored its certificate is the only one of it.
Creating(a) == req[a].op = "create" /\ req[a].at # "protect"

Fresh == \A a \in Actors : Creating(a) =>
           /\ cert[req[a].cert].phase = "none"
           /\ \A b \in Actors : Creating(b) /\ req[b].cert = req[a].cert => b = a

\* The row and the version rows of a certificate are the bodies issued for it.
KeptAs(row, table, bodies) ==
  /\ row.now = None <=> row.phase \in {"none", "purged"}
  /\ row.phase = "none" => bodies = <<>>
  /\ row.phase \in {"none", "purged"} => table = <<>>
  /\ row.phase \in {"active", "deleted"} =>
       LET v == row.version
       IN  /\ v = Len(bodies) /\ v \in 1 .. MaxVersion /\ row.now.body = bodies[v]
           /\ row.now.secret = row.now.body.key
           /\ DOMAIN table = 1 .. v - 1
           /\ \A n \in 1 .. v - 1 : /\ table[n].body = bodies[n]
                                    /\ table[n].secret = table[n].body.key

Kept(c) == KeptAs(cert[c], archived[c], made[c])

\* What was exported is a version that was issued, under its CA's key.
Exported ==
  \A e \in exports : /\ e.cert \in Certs /\ e.version \in DOMAIN made[e.cert]
                     /\ e.body = made[e.cert][e.version] /\ e.secret = e.body.key
                     /\ ~SelfSigned(e.cert) => \E n \in DOMAIN made[Issuer[e.cert]] :
                          made[Issuer[e.cert]][n].key = e.body.by

\* The grounds that a request has asked for before it is at its stage.
Asked(stage) ==
  (IF stage # "owner" THEN {"account"} ELSE {})
  \cup (IF stage \notin {"owner", "grant"} THEN {"grant"} ELSE {})
  \cup (IF stage \in {"key", "issuer", "issuerkey", "store"} THEN {"alive"} ELSE {})
  \cup (IF stage \in {"issuer", "issuerkey", "store"} THEN {"key"} ELSE {})
  \cup (IF stage \in {"issuerkey", "store"} THEN {"issuer", "issuer alive"} ELSE {})
  \cup (IF stage = "store" THEN {"issuer key"} ELSE {})

Checked(a) == Grounds(a) \cap Asked(req[a].at) \subseteq seen[a]

Data == Typed /\ Fresh /\ (\A a \in Actors : Running(a) /\ Copied(a)) /\ (\A c \in Certs : Kept(c))

IInv == Data /\ Exported /\ (\A a \in Actors : Checked(a))

-----------------------------------------------------------------------------
(* What requests are made of.                                              *)

\* What is given has the type of the field it is given for.
LEMMA GivenTyped ==
  ASSUME NEW g \in Gifts
  PROVE  /\ "auto" \in DOMAIN g => g["auto"] \in BOOLEAN
         /\ "ca" \in DOMAIN g => g["ca"] \in BOOLEAN
         /\ "enabled" \in DOMAIN g => g["enabled"] \in BOOLEAN
         /\ "protected" \in DOMAIN g => g["protected"] \in BOOLEAN
         /\ "expires" \in DOMAIN g => g["expires"] \in Nat
         /\ "from" \in DOMAIN g => g["from"] \in Nat
<1> DEFINE Fits == /\ "auto" \in DOMAIN g => g["auto"] \in BOOLEAN
                   /\ "ca" \in DOMAIN g => g["ca"] \in BOOLEAN
                   /\ "enabled" \in DOMAIN g => g["enabled"] \in BOOLEAN
                   /\ "protected" \in DOMAIN g => g["protected"] \in BOOLEAN
                   /\ "expires" \in DOMAIN g => g["expires"] \in Nat
                   /\ "from" \in DOMAIN g => g["from"] \in Nat
<1> SUFFICES Fits
    OBVIOUS
<1>1. CASE g = <<>> \/ g = [auto |-> TRUE] \/ g = [protected |-> TRUE, from |-> 2]
  <2>1. CASE g = <<>>
        BY <2>1
  <2>2. CASE g = [auto |-> TRUE]
        BY <2>2
  <2>3. CASE g = [protected |-> TRUE, from |-> 2]
        BY <2>3
  <2>4. QED
        BY <1>1, <2>1, <2>2, <2>3
<1>2. CASE g = [enabled |-> FALSE] \/ g = [auto |-> TRUE, ca |-> TRUE] \/ g = [auto |-> FALSE]
  <2>1. CASE g = [enabled |-> FALSE]
        BY <2>1
  <2>2. CASE g = [auto |-> TRUE, ca |-> TRUE]
        BY <2>2
  <2>3. CASE g = [auto |-> FALSE]
        BY <2>3
  <2>4. QED
        BY <1>2, <2>1, <2>2, <2>3
<1>3. CASE g = [enabled |-> TRUE, auto |-> TRUE] \/ g = [expires |-> 1] \/ g = [from |-> 2]
  <2>1. CASE g = [enabled |-> TRUE, auto |-> TRUE]
        BY <2>1
  <2>2. CASE g = [expires |-> 1]
        BY <2>2
  <2>3. CASE g = [from |-> 2]
        BY <2>3
  <2>4. QED
        BY <1>3, <2>1, <2>2, <2>3
<1> HIDE DEF Fits
<1>4. CASE g \in {<<>>, [auto |-> TRUE], [auto |-> TRUE, ca |-> TRUE]}
      BY <1>1, <1>2, <1>4
<1>5. CASE g \in Updates
      BY <1>1, <1>2, <1>3, <1>5 DEF Updates
<1>6. CASE g \in Lifecycles
      BY <1>2, <1>3, <1>6 DEF Lifecycles
<1>7. QED
      BY <1>4, <1>5, <1>6, Zenon DEF Gifts

\* A row that does not exist, and a request that does nothing.
LEMMA NothingTyped ==
  /\ NoCert \in Certificate /\ NoCert.now = None /\ NoCert.phase = "none" /\ NoCert.version = 1
  /\ Idle \in Requests /\ Idle.at = "idle" /\ Idle.op = "renew" /\ Idle.copy = NoCert
<1>1. NoCert \in Certificate /\ NoCert.now = None /\ NoCert.phase = "none" /\ NoCert.version = 1
      BY DEF NoCert, Certificate
<1>2. <<>> \in Gifts
      BY DEF Gifts
<1>3. Idle \in Requests /\ Idle.at = "idle" /\ Idle.op = "renew" /\ Idle.copy = NoCert
      BY <1>1, <1>2 DEF Idle, Requests, Ops, Stages
<1>4. QED
      BY <1>1, <1>3

\* The request that a step of its own makes of that of a.
Becomes(a, new) == req' = [req EXCEPT ![a] = new]

LEMMA Ends ==
  ASSUME Typed, NEW a \in Actors, Finish(a)
  PROVE  /\ req' \in [Actors -> Requests] /\ req'[a] = Idle
         /\ \A b \in Actors : b # a => req'[b] = req[b]
BY NothingTyped DEF Finish, Typed

LEMMA Moves ==
  ASSUME Typed, NEW a \in Actors, NEW stage \in Stages, Goto(a, stage)
  PROVE  /\ req' \in [Actors -> Requests] /\ \A b \in Actors : b # a => req'[b] = req[b]
         /\ req'[a].at = stage /\ req'[a].op = req[a].op /\ req'[a].cert = req[a].cert
         /\ req'[a].copy = req[a].copy /\ req'[a].key = req[a].key
         /\ req'[a].sign = req[a].sign /\ req'[a].version = req[a].version
         /\ req'[a].days = req[a].days /\ req'[a].give = req[a].give
<1> DEFINE old == req[a]
           new == [old EXCEPT !.at = stage]
<1>1. old \in Requests
      BY DEF Typed
<1>2. req' = [req EXCEPT ![a] = new]
      BY DEF Goto, Typed
<1> HIDE DEF old
<1>3. /\ new \in Requests
      /\ new.at = stage /\ new.op = old.op /\ new.cert = old.cert /\ new.copy = old.copy
      /\ new.key = old.key /\ new.sign = old.sign /\ new.version = old.version
      /\ new.days = old.days /\ new.give = old.give
      BY <1>1 DEF Requests
<1> HIDE DEF new
<1>4. /\ req' \in [Actors -> Requests] /\ req'[a] = new
      /\ \A b \in Actors : b # a => req'[b] = req[b]
      BY <1>2, <1>3 DEF Typed
<1>5. QED
      BY <1>3, <1>4 DEF old

\* A request that has read a row or a version.
Taken(a, stage, row) == req' = [req EXCEPT ![a].copy = row, ![a].at = stage]

LEMMA Takes ==
  ASSUME Typed, NEW a \in Actors, NEW stage \in Stages, NEW row \in Certificate,
         Taken(a, stage, row)
  PROVE  /\ req' \in [Actors -> Requests] /\ \A b \in Actors : b # a => req'[b] = req[b]
         /\ req'[a].at = stage /\ req'[a].op = req[a].op /\ req'[a].cert = req[a].cert
         /\ req'[a].copy = row /\ req'[a].key = req[a].key /\ req'[a].sign = req[a].sign
         /\ req'[a].version = req[a].version /\ req'[a].days = req[a].days
         /\ req'[a].give = req[a].give
<1> DEFINE old == req[a]
           new == [old EXCEPT !.copy = row, !.at = stage]
<1>1. old \in Requests
      BY DEF Typed
<1>2. req' = [req EXCEPT ![a] = new]
      BY DEF Typed, Taken
<1> HIDE DEF old
<1>3. /\ new \in Requests
      /\ new.at = stage /\ new.op = old.op /\ new.cert = old.cert /\ new.copy = row
      /\ new.key = old.key /\ new.sign = old.sign /\ new.version = old.version
      /\ new.days = old.days /\ new.give = old.give
      BY <1>1 DEF Requests
<1> HIDE DEF new
<1>4. /\ req' \in [Actors -> Requests] /\ req'[a] = new
      /\ \A b \in Actors : b # a => req'[b] = req[b]
      BY <1>2, <1>3 DEF Typed
<1>5. QED
      BY <1>3, <1>4 DEF old

\* A request that has read its key, or its CA's.
Learned(a, stage, k, s) ==
  \/ req' = [req EXCEPT ![a].key = k, ![a].at = stage] /\ s = req[a].sign
  \/ req' = [req EXCEPT ![a].sign = s, ![a].at = stage] /\ k = req[a].key

LEMMA Learns ==
  ASSUME Typed, NEW a \in Actors, NEW stage \in Stages, NEW k \in Materials,
         NEW s \in Materials \cup {None}, Learned(a, stage, k, s)
  PROVE  /\ req' \in [Actors -> Requests] /\ \A b \in Actors : b # a => req'[b] = req[b]
         /\ req'[a].at = stage /\ req'[a].op = req[a].op /\ req'[a].cert = req[a].cert
         /\ req'[a].copy = req[a].copy /\ req'[a].key = k /\ req'[a].sign = s
         /\ req'[a].version = req[a].version /\ req'[a].days = req[a].days
         /\ req'[a].give = req[a].give
<1> DEFINE old == req[a]
           new == [old EXCEPT !.key = k, !.sign = s, !.at = stage]
<1>1. old \in Requests
      BY DEF Typed
<1>2. req' = [req EXCEPT ![a] = new]
  <2>1. [old EXCEPT !.key = k, !.at = stage] = new \/ s # old.sign
        BY <1>1 DEF Requests
  <2>2. [old EXCEPT !.sign = s, !.at = stage] = new \/ k # old.key
        BY <1>1 DEF Requests
  <2>3. \/ req' = [req EXCEPT ![a] = [old EXCEPT !.key = k, !.at = stage]] /\ s = old.sign
        \/ req' = [req EXCEPT ![a] = [old EXCEPT !.sign = s, !.at = stage]] /\ k = old.key
        BY DEF Typed, Learned
  <2> HIDE DEF old
  <2>4. QED
        BY <2>1, <2>2, <2>3
<1> HIDE DEF old
<1>3. /\ new \in Requests
      /\ new.at = stage /\ new.op = old.op /\ new.cert = old.cert /\ new.copy = old.copy
      /\ new.key = k /\ new.sign = s /\ new.version = old.version
      /\ new.days = old.days /\ new.give = old.give
      BY <1>1 DEF Requests
<1> HIDE DEF new
<1>4. /\ req' \in [Actors -> Requests] /\ req'[a] = new
      /\ \A b \in Actors : b # a => req'[b] = req[b]
      BY <1>2, <1>3 DEF Typed
<1>5. QED
      BY <1>3, <1>4 DEF old

-----------------------------------------------------------------------------
(* How a step moves a request.                                             *)

\* Which operations are at a stage.
LEMMA OpsAt ==
  ASSUME NEW op \in Ops, NEW stage \in StagesOf(op)
  PROVE  /\ stage \in Stages /\ stage # "idle"
         /\ stage \in {"owner", "grant"} => op = "renew"
         /\ stage \in {"key", "issuer", "issuerkey", "store"} => op \in {"create", "renew"}
         /\ stage = "read" => op \in {"renew", "update", "version", "delete", "export"}
         /\ stage = "write" => op = "update"
         /\ stage = "protect" => op \in {"create", "update"}
         /\ stage = "lifecycle" => op = "version"
         /\ stage = "status" => op \in {"version", "export"}
         /\ stage = "release" => op = "export"
         /\ stage = "erase" => op = "purge"
BY DEF Ops, StagesOf, Stages

\* And which stages an operation is at.
LEMMA StagesAt ==
  /\ {"key", "issuer", "issuerkey", "store", "protect"} \subseteq StagesOf("create")
  /\ {"owner", "grant", "read", "key", "issuer", "issuerkey", "store"} \subseteq StagesOf("renew")
  /\ {"read", "write", "protect"} \subseteq StagesOf("update")
  /\ {"read", "lifecycle", "status", "row"} \subseteq StagesOf("version")
  /\ {"read", "row"} \subseteq StagesOf("delete") /\ "row" \in StagesOf("recover")
  /\ {"row", "erase"} \subseteq StagesOf("purge")
  /\ {"read", "status", "release"} \subseteq StagesOf("export")
  /\ \A op \in Ops : First(op) \in StagesOf(op) /\ First(op) \in {"key", "row", "read"}
BY DEF StagesOf, First, Ops

\* A request that is over.
LEMMA EndsWell ==
  ASSUME Typed, NEW a \in Actors, Finish(a)
  PROVE  Running(a)' /\ Copied(a)'
<1>1. req'[a] = Idle /\ Idle.at = "idle" /\ Idle.op = "renew" /\ Idle.copy.now = None
      BY Ends, NothingTyped
<1>2. QED
      BY <1>1 DEF Running, Copied

\* A request that goes on to a stage of its operation.
LEMMA GoesWell ==
  ASSUME Typed, NEW a \in Actors, Running(a), NEW stage \in StagesOf(req'[a].op), req[a] # Idle,
         req'[a].at = stage, req'[a].op = req[a].op, req'[a].cert = req[a].cert,
         stage \in {"issuer", "issuerkey", "store"} => req'[a].key # None,
         stage \in {"issuerkey", "store"} /\ ~SelfSigned(req[a].cert) => req'[a].sign # None,
         stage = "protect" => "protected" \in DOMAIN req'[a].give
  PROVE  Running(a)'
<1>1. req[a].op \in Ops
      BY DEF Typed, Requests
<1>2. stage # "idle" /\ req'[a] # Idle
      BY <1>1, OpsAt, NothingTyped
<1>3. QED
      BY <1>2 DEF Running

\* A request begins.
LEMMA Requested ==
  ASSUME Typed, NEW a \in Clients, Request(a)
  PROVE  \E op \in Ops, c \in Certs, v \in Nat, give \in Gifts :
           /\ Begin(a, op, c, v, give) 
           /\ op = "create" => /\ cert[c].phase = "none"
                               /\ \A b \in Actors : req[b].op = "create" => req[b].cert # c
<1>1. PICK c \in Certs :
        \/ /\ cert[c].phase = "none" /\ \A b \in Actors : req[b].op = "create" => req[b].cert # c
           /\ \E give \in Creations(c) : Begin(a, "create", c, 0, give)
        \/ \E op \in {"renew", "delete", "recover", "purge"} : Begin(a, op, c, 0, <<>>)
        \/ \E give \in Updates : Begin(a, "update", c, 0, give)
        \/ \E v \in 1 .. 2, give \in Lifecycles : Begin(a, "version", c, v, give)
        \/ \E v \in 0 .. 1 : Begin(a, "export", c, v, <<>>)
      BY Zenon DEF Request
<1> DEFINE Goal(op, v, give) ==
      /\ op \in Ops /\ v \in Nat /\ give \in Gifts /\ Begin(a, op, c, v, give)
      /\ op = "create" => /\ cert[c].phase = "none"
                          /\ \A b \in Actors : req[b].op = "create" => req[b].cert # c
<1>2. /\ <<>> \in Gifts /\ Updates \subseteq Gifts /\ Lifecycles \subseteq Gifts
      /\ Creations(c) \subseteq Gifts
  <2>1. <<>> \in Gifts /\ Updates \subseteq Gifts /\ Lifecycles \subseteq Gifts
        BY Zenon DEF Gifts
  <2>2. Creations(c) \subseteq Gifts
        BY DEF Gifts, Creations, Updates, Lifecycles
  <2>3. QED
        BY <2>1, <2>2
<1>0. 0 \in Nat /\ 1 .. 2 \subseteq Nat /\ 0 .. 1 \subseteq Nat
      OBVIOUS
<1>3. CASE /\ cert[c].phase = "none" /\ \A b \in Actors : req[b].op = "create" => req[b].cert # c
           /\ \E give \in Creations(c) : Begin(a, "create", c, 0, give)
  <2>1. PICK give \in Creations(c) : Begin(a, "create", c, 0, give)
        BY <1>3
  <2>2. give \in Gifts
        BY <1>2, <2>1
  <2>3. Goal("create", 0, give)
        BY <1>0, <1>3, <2>1, <2>2 DEF Ops
  <2>4. QED
        BY <2>3
<1>4. ASSUME NEW op \in {"renew", "delete", "recover", "purge"}, Begin(a, op, c, 0, <<>>)
      PROVE  Goal(op, 0, <<>>)
      BY <1>0, <1>2, <1>4 DEF Ops
<1>5. ASSUME NEW give \in Updates,
             Begin(a, "update", c, 0, give)
      PROVE  Goal("update", 0, give)
  <2>1. give \in Gifts
        BY <1>2
  <2>2. QED
        BY <1>0, <1>5, <2>1 DEF Ops
<1>6. ASSUME NEW v \in 1 .. 2, NEW give \in Lifecycles,
             Begin(a, "version", c, v, give)
      PROVE  Goal("version", v, give)
  <2>1. give \in Gifts
        BY <1>2
  <2>2. QED
        BY <1>0, <1>6, <2>1 DEF Ops
<1>7. ASSUME NEW v \in 0 .. 1, Begin(a, "export", c, v, <<>>)
      PROVE  Goal("export", v, <<>>)
      BY <1>0, <1>2, <1>7 DEF Ops
<1> HIDE DEF Goal
<1>8. (\E op, v, give : Goal(op, v, give)) => 
         \E op \in Ops, d \in Certs, v \in Nat, give \in Gifts :
           /\ Begin(a, op, d, v, give) 
           /\ op = "create" => /\ cert[d].phase = "none"
                               /\ \A b \in Actors : req[b].op = "create" => req[b].cert # d
      BY DEF Goal
<1>9. QED
      BY <1>1, <1>3, <1>4, <1>5, <1>6, <1>7, <1>8, Zenon

\* What it begins with.
LEMMA Begun ==
  ASSUME Typed, NEW a \in Actors, NEW op \in Ops, NEW stage \in Stages, NEW c \in Certs, NEW v \in Nat,
         NEW days \in Nat, NEW give \in Gifts,
         req' = [req EXCEPT ![a] = [Idle EXCEPT !.op = op, !.at = stage, !.cert = c, !.days = days,
                                                !.version = v, !.give = give]]
  PROVE  /\ req' \in [Actors -> Requests] /\ \A b \in Actors : b # a => req'[b] = req[b]
         /\ req'[a].op = op /\ req'[a].at = stage /\ req'[a].cert = c /\ req'[a].copy = NoCert
<1> DEFINE idle == Idle
           new == [idle EXCEPT !.op = op, !.at = stage, !.cert = c, !.days = days,
                               !.version = v, !.give = give]
<1>1. idle \in Requests /\ idle.copy = NoCert
      BY NothingTyped
<1>2. req' = [req EXCEPT ![a] = new]
      OBVIOUS
<1> HIDE DEF idle
<1>3. /\ new \in Requests /\ new.op = op /\ new.at = stage /\ new.cert = c /\ new.copy = NoCert
      BY <1>1 DEF Requests
<1> HIDE DEF new
<1>4. QED
      BY <1>2, <1>3 DEF Typed

\* What the step of a's own request leaves of the requests.
Served(a) == /\ req' \in [Actors -> Requests] /\ \A b \in Actors : b # a => req'[b] = req[b]
             /\ Running(a)'

LEMMA EndServed ==
  ASSUME Typed, NEW a \in Actors, Finish(a)
  PROVE  Served(a)
BY Ends, EndsWell DEF Served

LEMMA GotoServed ==
  ASSUME Typed, NEW a \in Actors, Running(a), req[a] # Idle, NEW stage \in StagesOf(req[a].op),
         Goto(a, stage),
         stage \in {"issuer", "issuerkey", "store"} => req[a].key # None,
         stage \in {"issuerkey", "store"} /\ ~SelfSigned(req[a].cert) => req[a].sign # None,
         stage = "protect" => "protected" \in DOMAIN req[a].give
  PROVE  Served(a)
<1>1. stage \in Stages
      BY OpsAt DEF Typed, Requests
<1>2. /\ req' \in [Actors -> Requests] /\ \A b \in Actors : b # a => req'[b] = req[b]
      /\ req'[a].at = stage /\ req'[a].op = req[a].op /\ req'[a].cert = req[a].cert
      /\ req'[a].key = req[a].key /\ req'[a].sign = req[a].sign /\ req'[a].give = req[a].give
      BY <1>1, Moves
<1>3. QED
      BY <1>2, GoesWell DEF Served

\* A live row has contents.
LEMMA Live ==
  ASSUME Typed, NEW c \in Certs, Kept(c), Active(c)
  PROVE  /\ cert[c] \in Certificate /\ cert[c].now \in Contents /\ cert[c].now # None
         /\ cert[c].version \in DOMAIN made[c] /\ cert[c].version <= MaxVersion
         /\ cert[c].now.body = made[c][cert[c].version]
         /\ cert[c].now.secret = cert[c].now.body.key
<1>1. cert[c] \in Certificate /\ made[c] \in Seq(Bodies)
      BY DEF Typed
<1>2. cert[c].now # None /\ cert[c].version \in Nat
      BY <1>1 DEF Active, Kept, KeptAs, Certificate
<1>3. cert[c].now \in Contents
      BY <1>1, <1>2 DEF Certificate
<1>4. cert[c].phase = "active"
      BY DEF Active
<1>5. /\ cert[c].version = Len(made[c]) /\ cert[c].version \in 1 .. MaxVersion
      /\ cert[c].now.body = made[c][cert[c].version] /\ cert[c].now.secret = cert[c].now.body.key
      BY <1>4 DEF Kept, KeptAs
<1>6. QED
      BY <1>1, <1>2, <1>3, <1>5

LEMMA RequestServed ==
  ASSUME Data, NEW a \in Clients, Request(a)
  PROVE  Served(a) /\ Copied(a)'
<1>1. Typed /\ a \in Actors /\ a # Scheduler
      BY CertificatesAssumption DEF Data, Actors
<1>2. PICK op \in Ops, c \in Certs, v \in Nat, give \in Gifts : Begin(a, op, c, v, give)
      BY <1>1, Requested
<1>3. First(op) \in Stages /\ First(op) \in StagesOf(op) /\ First(op) \in {"key", "row", "read"}
      BY OpsAt, StagesAt
<1>4. Validity \in Nat
      BY CertificatesAssumption
<1>5. /\ req' \in [Actors -> Requests] /\ \A b \in Actors : b # a => req'[b] = req[b]
      /\ req'[a].op = op /\ req'[a].at = First(op) /\ req'[a].cert = c /\ req'[a].copy = NoCert
      BY <1>1, <1>2, <1>3, <1>4, Begun DEF Begin
<1>6. req'[a] # Idle
      BY <1>3, <1>5, NothingTyped
<1>7. Running(a)'
      BY <1>1, <1>3, <1>5, <1>6 DEF Running
<1>8. Copied(a)'
      BY <1>3, <1>5, NothingTyped DEF Copied, First, StagesOf, Ops
<1>9. QED
      BY <1>5, <1>7, <1>8 DEF Served

\* A request at a stage is under way.
LEMMA UnderWay ==
  ASSUME Data, NEW a \in Actors, req[a].at # "idle"
  PROVE  /\ Typed /\ Running(a) /\ req[a] # Idle /\ req[a] \in Requests
         /\ req[a].op \in Ops /\ req[a].at \in StagesOf(req[a].op) /\ req[a].cert \in Certs
<1>1. Typed /\ Running(a)
      BY DEF Data
<1>2. req[a] \in Requests
      BY <1>1 DEF Typed
<1>3. QED
      BY <1>1, <1>2 DEF Running, Requests

LEMMA ReadServed ==
  ASSUME Data, NEW a \in Actors, Read(a)
  PROVE  /\ Served(a)
         /\ Finish(a) \/ /\ req'[a].copy = cert[req[a].cert] /\ Active(req[a].cert)
                         /\ req'[a].op = req[a].op /\ req'[a].cert = req[a].cert
                         /\ req[a].op = "renew" => cert[req[a].cert].version # MaxVersion
                         /\ req[a].op = "renew" => Accessible(cert[req[a].cert].now)
                         /\ req[a].op = "renew" => req'[a].at = "key"
<1>0. req[a].at = "read"
      BY DEF Read
<1>1. /\ Typed /\ Running(a) /\ req[a] # Idle /\ req[a] \in Requests
      /\ req[a].op \in Ops /\ req[a].at \in StagesOf(req[a].op) /\ req[a].cert \in Certs
      BY <1>0, UnderWay
<1>2. req[a].op \in {"renew", "update", "version", "delete", "export"}
      BY <1>0, <1>1, OpsAt
<1>3. CASE Finish(a)
      BY <1>1, <1>3, EndServed
<1>4. CASE ~Finish(a)
  <2> DEFINE row == cert[req[a].cert]
             next == CASE req[a].op = "renew" -> "key"
                       [] req[a].op = "update" -> "write"
                       [] req[a].op = "version" -> IF req[a].version = row.version THEN "lifecycle" ELSE "status"
                       [] req[a].op = "delete" -> "row"
                       [] req[a].op = "export" -> IF req[a].version \in {0, row.version} THEN "release" ELSE "status"
  <2>1. /\ Taken(a, next, row) /\ Active(req[a].cert)
        /\ req[a].op = "renew" => Accessible(row.now) /\ row.version # MaxVersion
        BY <1>4, Zenon DEF Read, Taken
  <2>2. next \in StagesOf(req[a].op)
        BY <1>2, StagesAt
  <2>3. req[a].op = "renew" => next = "key"
        OBVIOUS
  <2>4. row \in Certificate
        BY <1>1 DEF Typed
  <2>5. next \in Stages /\ next \notin {"issuer", "issuerkey", "store", "protect"}
        BY <1>2, <1>1, <2>2, OpsAt
  <2> HIDE DEF next
  <2>6. /\ req' \in [Actors -> Requests] /\ \A b \in Actors : b # a => req'[b] = req[b]
        /\ req'[a].at = next /\ req'[a].op = req[a].op /\ req'[a].cert = req[a].cert
        /\ req'[a].copy = row
        BY <1>1, <2>1, <2>4, <2>5, Takes
  <2>7. Running(a)'
        BY <1>1, <2>2, <2>5, <2>6, GoesWell
  <2>8. QED
        BY <2>1, <2>3, <2>6, <2>7 DEF Served
<1>5. QED
      BY <1>3, <1>4

LEMMA ReadKeyServed ==
  ASSUME Data, NEW a \in Actors, ReadKey(a)
  PROVE  /\ Served(a)
         /\ Finish(a) \/ /\ req'[a].copy = req[a].copy /\ req'[a].op = req[a].op
                         /\ req'[a].cert = req[a].cert /\ key[req[a].cert].usable
                         /\ req'[a].at = IF SelfSigned(req[a].cert) THEN "store" ELSE "issuer"
<1>0. req[a].at = "key"
      BY DEF ReadKey
<1>1. /\ Typed /\ Running(a) /\ req[a] # Idle /\ req[a] \in Requests
      /\ req[a].op \in Ops /\ req[a].at \in StagesOf(req[a].op) /\ req[a].cert \in Certs
      BY <1>0, UnderWay
<1>2. req[a].op \in {"create", "renew"}
      BY <1>0, <1>1, OpsAt
<1>3. CASE Finish(a)
      BY <1>1, <1>3, EndServed
<1>4. CASE ~Finish(a)
  <2> DEFINE next == IF SelfSigned(req[a].cert) THEN "store" ELSE "issuer"
             k == key[req[a].cert].value
  <2>1. Learned(a, next, k, req[a].sign) /\ key[req[a].cert].usable
        BY <1>4, Zenon DEF ReadKey, Learned
  <2>2. next \in StagesOf(req[a].op) /\ next \in {"store", "issuer"}
        BY <1>2, StagesAt
  <2>3. SelfSigned(req[a].cert) <=> next = "store"
        OBVIOUS
  <2>4. k \in Materials /\ k # None
        BY <1>1, NoneAssumption DEF Typed
  <2>5. next \in Stages /\ req[a].sign \in Materials \cup {None}
        BY <1>1, <2>2 DEF Stages, Requests
  <2> HIDE DEF next, k
  <2>6. /\ req' \in [Actors -> Requests] /\ \A b \in Actors : b # a => req'[b] = req[b]
        /\ req'[a].at = next /\ req'[a].op = req[a].op /\ req'[a].cert = req[a].cert
        /\ req'[a].copy = req[a].copy /\ req'[a].key = k
        BY <1>1, <2>1, <2>4, <2>5, Learns
  <2>7. Running(a)'
        BY <1>1, <2>2, <2>3, <2>4, <2>6, GoesWell
  <2>8. QED
        BY <2>1, <2>6, <2>7 DEF Served, next
<1>5. QED
      BY <1>3, <1>4

LEMMA ReadIssuerServed ==
  ASSUME Data, NEW a \in Actors, ReadIssuer(a)
  PROVE  /\ Served(a)
         /\ Finish(a) \/ /\ req'[a].copy = req[a].copy /\ req'[a].op = req[a].op
                         /\ req'[a].cert = req[a].cert /\ req'[a].at = "issuerkey"
                         /\ Active(Issuer[req[a].cert])
                         /\ cert[Issuer[req[a].cert]].now.body.authority = "ca"
                         /\ req[a].op = "renew" => Accessible(cert[Issuer[req[a].cert]].now)
<1>0. req[a].at = "issuer"
      BY DEF ReadIssuer
<1>1. /\ Typed /\ Running(a) /\ req[a] # Idle /\ req[a] \in Requests
      /\ req[a].op \in Ops /\ req[a].at \in StagesOf(req[a].op) /\ req[a].cert \in Certs
      BY <1>0, UnderWay
<1>2. req[a].op \in {"create", "renew"} /\ req[a].key # None
      BY <1>0, <1>1, OpsAt DEF Running
<1>3. CASE Finish(a)
      BY <1>1, <1>3, EndServed
<1>4. CASE ~Finish(a)
  <2> DEFINE i == Issuer[req[a].cert]
             s == cert[i].now.secret
  <2>1. /\ Learned(a, "issuerkey", req[a].key, s) /\ Active(i) /\ cert[i].now.body.authority = "ca"
        /\ req[a].op = "renew" => Accessible(cert[i].now)
        BY <1>4, Zenon DEF ReadIssuer, Learned
  <2>2. "issuerkey" \in StagesOf(req[a].op) /\ "issuerkey" \in Stages
        BY <1>2, StagesAt DEF Stages
  <2>3. i \in Certs /\ Kept(i)
        BY <1>1, CertificatesAssumption DEF Data
  <2>4. cert[i].now \in Contents
        BY <1>1, <2>1, <2>3, Live
  <2>5. s \in Materials /\ s # None /\ req[a].key \in Materials
        BY <1>1, <1>2, <2>4, NoneAssumption DEF Contents, Requests
  <2> HIDE DEF s
  <2>6. /\ req' \in [Actors -> Requests] /\ \A b \in Actors : b # a => req'[b] = req[b]
        /\ req'[a].at = "issuerkey" /\ req'[a].op = req[a].op /\ req'[a].cert = req[a].cert
        /\ req'[a].copy = req[a].copy /\ req'[a].key = req[a].key /\ req'[a].sign = s
        BY <1>1, <2>1, <2>2, <2>5, Learns
  <2>7. Running(a)'
        BY <1>1, <1>2, <2>2, <2>5, <2>6, GoesWell
  <2>8. QED
        BY <2>1, <2>6, <2>7 DEF Served
<1>5. QED
      BY <1>3, <1>4

\* A version of the copy that a request has.
LEMMA ReadVersionServed ==
  ASSUME Data, NEW a \in Actors, ReadVersion(a)
  PROVE  /\ Served(a)
         /\ Finish(a) \/ /\ req'[a].cert = req[a].cert /\ req'[a].op = req[a].op
                         /\ req[a].version \in DOMAIN archived[req[a].cert]
                         /\ req'[a].copy.now = archived[req[a].cert][req[a].version]
                         /\ req'[a].copy.version = req[a].version
                         /\ req[a].op # "renew"
<1>0. req[a].at = "status"
      BY DEF ReadVersion
<1>1. /\ Typed /\ Running(a) /\ req[a] # Idle /\ req[a] \in Requests
      /\ req[a].op \in Ops /\ req[a].at \in StagesOf(req[a].op) /\ req[a].cert \in Certs
      BY <1>0, UnderWay
<1>2. req[a].op \in {"version", "export"}
      BY <1>0, <1>1, OpsAt
<1>3. CASE Finish(a)
      BY <1>1, <1>3, EndServed
<1>4. CASE ~Finish(a)
  <2> DEFINE v == archived[req[a].cert][req[a].version]
             next == IF req[a].op = "export" THEN "release" ELSE "row"
             old == req[a].copy
             row == [old EXCEPT !.now = v, !.version = req[a].version]
  <2>1. /\ req' = [req EXCEPT ![a].copy.now = v, ![a].copy.version = req[a].version, ![a].at = next]
        /\ req[a].version \in DOMAIN archived[req[a].cert]
        BY <1>4, Zenon DEF ReadVersion
  <2>2. v \in Contents /\ req[a].version \in Nat
        BY <1>1, <2>1 DEF Typed, RowsTyped, Requests
  <2>3. old \in Certificate
        BY <1>1 DEF Requests
  <2>4. next \in StagesOf(req[a].op) /\ next \in {"release", "row"} /\ next \in Stages
        BY <1>2, StagesAt DEF Stages
  <2>a. req \in [Actors -> Requests]
        BY <1>1 DEF Typed
  <2>5. Taken(a, next, row)
        BY <1>1, <2>1, <2>3, <2>a DEF Taken
  <2> HIDE DEF v, next, old
  <2>6. row \in Certificate /\ row.now = v /\ row.version = req[a].version
        BY <2>2, <2>3 DEF Certificate
  <2> HIDE DEF row
  <2>7. /\ req' \in [Actors -> Requests] /\ \A b \in Actors : b # a => req'[b] = req[b]
        /\ req'[a].at = next /\ req'[a].op = req[a].op /\ req'[a].cert = req[a].cert
        /\ req'[a].copy = row
        BY <1>1, <2>4, <2>5, <2>6, Takes
  <2>8. Running(a)'
        BY <1>1, <2>4, <2>7, GoesWell
  <2>9. QED
        BY <1>2, <2>1, <2>6, <2>7, <2>8 DEF Served, v
<1>5. QED
      BY <1>3, <1>4

\* The steps that store something, or check no more than what they look at.
Plain(a) ==
  \/ ReadIssuerKey(a) \/ Create(a) \/ Renew(a) \/ Update(a) \/ Protect(a) \/ UpdateCurrent(a)
  \/ UpdateVersion(a) \/ Delete(a) \/ Recover(a) \/ Vet(a) \/ Erase(a) \/ Release(a)
  \/ a = Scheduler /\ (OwnerActive \/ OwnerMaySign)

LEMMA PlainServed ==
  ASSUME Data, NEW a \in Actors, Plain(a)
  PROVE  /\ Served(a) /\ req[a].at # "idle"
         /\ \/ Finish(a)
            \/ ReadIssuerKey(a) /\ CAKeyUsable(Issuer[req[a].cert]) /\ Goto(a, "store")
            \/ req[a].op \in {"create", "update"} /\ Goto(a, "protect")
            \/ req[a].op = "purge" /\ Goto(a, "erase")
            \/ a = Scheduler /\ req[a].at = "owner" /\ "account" \in rights /\ Goto(a, "grant")
            \/ a = Scheduler /\ req[a].at = "grant" /\ "grant" \in rights /\ Goto(a, "read")
<1>0. req[a].at # "idle"
  <2>1. CASE \/ ReadIssuerKey(a) \/ Create(a) \/ Renew(a) \/ Update(a) \/ Protect(a)
             \/ UpdateCurrent(a) \/ UpdateVersion(a) \/ Delete(a) \/ Recover(a) \/ Vet(a)
             \/ Erase(a) \/ Release(a)
        BY <2>1 DEF ReadIssuerKey, Create, Renew, Update, Protect, UpdateCurrent, UpdateVersion,
                    Delete, Recover, SetPhase, Vet, Erase, Release
  <2>2. CASE a = Scheduler /\ (OwnerActive \/ OwnerMaySign)
        BY <2>2 DEF OwnerActive, OwnerMaySign
  <2>3. QED
        BY <2>1, <2>2 DEF Plain
<1>1. /\ Typed /\ Running(a) /\ req[a] # Idle /\ req[a] \in Requests
      /\ req[a].op \in Ops /\ req[a].at \in StagesOf(req[a].op) /\ req[a].cert \in Certs
      BY <1>0, UnderWay
<1> DEFINE Goal == 
      \/ Finish(a)
      \/ ReadIssuerKey(a) /\ CAKeyUsable(Issuer[req[a].cert]) /\ Goto(a, "store")
      \/ req[a].op \in {"create", "update"} /\ Goto(a, "protect")
      \/ req[a].op = "purge" /\ Goto(a, "erase")
      \/ a = Scheduler /\ req[a].at = "owner" /\ "account" \in rights /\ Goto(a, "grant")
      \/ a = Scheduler /\ req[a].at = "grant" /\ "grant" \in rights /\ Goto(a, "read")
<1>2. CASE Finish(a)
      BY <1>0, <1>1, <1>2, EndServed
<1>3. CASE ReadIssuerKey(a) /\ ~Finish(a)
  <2>1. req[a].at = "issuerkey" /\ Goto(a, "store") /\ CAKeyUsable(Issuer[req[a].cert])
        BY <1>3, Zenon DEF ReadIssuerKey
  <2>2. req[a].op \in {"create", "renew"} /\ req[a].key # None
        BY <1>1, <2>1, OpsAt DEF Running
  <2>3. ~SelfSigned(req[a].cert) => req[a].sign # None
        BY <1>1, <2>1 DEF Running
  <2>4. "store" \in StagesOf(req[a].op)
        BY <2>2, StagesAt
  <2>5. Served(a)
        BY <1>1, <2>1, <2>2, <2>3, <2>4, GotoServed
  <2>6. QED
        BY <1>0, <1>3, <2>1, <2>5
<1>4. CASE (Create(a) \/ Update(a)) /\ ~Finish(a)
  <2>1. /\ "protected" \in DOMAIN req[a].give /\ Goto(a, "protect")
        /\ req[a].at \in {"store", "write"} /\ (req[a].at = "store" => req[a].op = "create")
        BY <1>4, Zenon DEF Create, Update
  <2>2. req[a].op \in {"create", "update"}
        BY <1>1, <2>1, OpsAt
  <2>3. "protect" \in StagesOf(req[a].op)
        BY <2>2, StagesAt
  <2>4. Served(a)
        BY <1>1, <2>1, <2>3, GotoServed
  <2>5. QED
        BY <1>0, <2>1, <2>2, <2>4
<1>5. CASE Vet(a) /\ ~Finish(a)
  <2>1. req[a].op = "purge" /\ Goto(a, "erase")
        BY <1>5, Zenon DEF Vet
  <2>2. "erase" \in StagesOf(req[a].op)
        BY <2>1, StagesAt
  <2>3. Served(a)
        BY <1>1, <2>1, <2>2, GotoServed
  <2>4. QED
        BY <1>0, <2>1, <2>3
<1>6. CASE a = Scheduler /\ OwnerActive /\ ~Finish(a)
  <2>1. req[a].at = "owner" /\ Goto(a, "grant") /\ "account" \in rights
        BY <1>6, Zenon DEF OwnerActive
  <2>2. req[a].op = "renew"
        BY <1>1, <2>1, OpsAt
  <2>3. "grant" \in StagesOf(req[a].op)
        BY <2>2, StagesAt
  <2>4. Served(a)
        BY <1>1, <2>1, <2>3, GotoServed
  <2>5. QED
        BY <1>0, <1>6, <2>1, <2>4
<1>7. CASE a = Scheduler /\ OwnerMaySign /\ ~Finish(a)
  <2>1. req[a].at = "grant" /\ Goto(a, "read") /\ "grant" \in rights
        BY <1>7, Zenon DEF OwnerMaySign
  <2>2. req[a].op = "renew"
        BY <1>1, <2>1, OpsAt
  <2>3. "read" \in StagesOf(req[a].op)
        BY <2>2, StagesAt
  <2>4. Served(a)
        BY <1>1, <2>1, <2>3, GotoServed
  <2>5. QED
        BY <1>0, <1>7, <2>1, <2>4
<1>8. CASE \/ Renew(a) \/ Protect(a) \/ UpdateCurrent(a) \/ UpdateVersion(a) \/ Delete(a)
           \/ Recover(a) \/ Erase(a) \/ Release(a)
  <2>1. Finish(a)
        BY <1>8 DEF Renew, Protect, UpdateCurrent, UpdateVersion, Delete, Recover, SetPhase, Erase, Release
  <2>2. QED
        BY <1>2, <2>1
<1>9. QED
      BY <1>2, <1>3, <1>4, <1>5, <1>6, <1>7, <1>8 DEF Plain

\* The next row of the scheduler's list.
LEMMA TakeServed ==
  ASSUME Data, Take
  PROVE  /\ Served(Scheduler) /\ Copied(Scheduler)' /\ req'[Scheduler].at = "owner"
         /\ DOMAIN plan' \subseteq Certs
         /\ \A c \in DOMAIN plan' : plan'[c] \in Certificate /\ plan'[c].now # None
<1>1. Typed /\ Scheduler \in Actors
      BY DEF Data, Actors
<1>2. PICK c \in DOMAIN plan :
        /\ plan' = [d \in DOMAIN plan \ {c} |-> plan[d]]
        /\ req' = [req EXCEPT ![Scheduler] = [Idle EXCEPT !.at = "owner", !.cert = c,
                                                          !.days = CurrentValidity(plan[c])]]
      BY DEF Take
<1>3. c \in Certs /\ plan[c] \in Certificate /\ plan[c].now \in Contents
      BY <1>1 DEF Typed, Certificate
<1>4. CurrentValidity(plan[c]) \in Nat
      BY <1>3, CertificatesAssumption DEF CurrentValidity, Certificate, Contents
<1> DEFINE idle == Idle
           days == CurrentValidity(plan[c])
           new == [idle EXCEPT !.at = "owner", !.cert = c, !.days = days]
<1>5. idle \in Requests /\ idle.copy = NoCert /\ idle.op = "renew" /\ "owner" \in Stages
      BY NothingTyped DEF Stages
<1>6. req' = [req EXCEPT ![Scheduler] = new] /\ days \in Nat
      BY <1>2, <1>4
<1> HIDE DEF idle, days
<1>7. new \in Requests /\ new.at = "owner" /\ new.op = "renew" /\ new.cert = c /\ new.copy = NoCert
      BY <1>3, <1>5, <1>6 DEF Requests
<1> HIDE DEF new
<1>8. /\ req' \in [Actors -> Requests] /\ \A b \in Actors : b # Scheduler => req'[b] = req[b]
      /\ req'[Scheduler] = new
      BY <1>1, <1>6, <1>7 DEF Typed
<1>9. "owner" \in StagesOf("renew") /\ new # Idle
      BY <1>7, StagesAt, NothingTyped
<1>10. Running(Scheduler)' /\ Copied(Scheduler)'
       BY <1>3, <1>7, <1>8, <1>9, NothingTyped DEF Running, Copied
<1>11. /\ DOMAIN plan' \subseteq Certs
       /\ \A d \in DOMAIN plan' : plan'[d] \in Certificate /\ plan'[d].now # None
       BY <1>1, <1>2 DEF Typed
<1>12. QED
       BY <1>7, <1>8, <1>10, <1>11 DEF Served

-----------------------------------------------------------------------------
(* The tables.                                                             *)

Tables == /\ cert \in [Certs -> Certificate] /\ made \in [Certs -> Seq(Bodies)]
          /\ DOMAIN archived = Certs /\ \A c \in Certs : RowsTyped(archived[c]) /\ Kept(c)

\* Bodies are issued and stay issued; a certificate that there was is not new.
Longer(bodies, more) ==
  \A n \in DOMAIN bodies : n \in DOMAIN more /\ more[n] = bodies[n]

Growing == \A c \in Certs : /\ Longer(made[c], made'[c])
                            /\ cert[c].phase # "none" => cert'[c].phase # "none"

\* The other certificates stay as they are.
Apart(c) == \A d \in Certs : d # c => cert'[d].phase = cert[d].phase

\* A step of one certificate.
LEMMA OneCert ==
  ASSUME Tables, NEW c \in Certs, NEW row \in Certificate, NEW table, NEW bodies \in Seq(Bodies),
         cert' = [cert EXCEPT ![c] = row], made' = [made EXCEPT ![c] = bodies],
         \/ archived' = [archived EXCEPT ![c] = table]
         \/ archived' = archived /\ table = archived[c],
         RowsTyped(table), KeptAs(row, table, bodies), Longer(made[c], bodies),
         cert[c].phase # "none" => row.phase # "none"
  PROVE  Tables' /\ Growing /\ Apart(c)
<1>1. /\ cert' \in [Certs -> Certificate] /\ made' \in [Certs -> Seq(Bodies)]
      /\ DOMAIN archived' = Certs
      /\ cert'[c] = row /\ archived'[c] = table /\ made'[c] = bodies
      /\ \A d \in Certs : d # c => /\ cert'[d] = cert[d] /\ archived'[d] = archived[d]
                                   /\ made'[d] = made[d]
      BY DEF Tables
<1>2. ASSUME NEW d \in Certs PROVE RowsTyped(archived[d])' /\ Kept(d)'
  <2>1. CASE d = c
    <3>1. RowsTyped(archived'[c]) /\ KeptAs(cert'[c], archived'[c], made'[c])
          BY <1>1
    <3>2. QED
          BY <2>1, <3>1 DEF Kept, RowsTyped, KeptAs
  <2>2. CASE d # c
    <3>1. RowsTyped(archived[d]) /\ KeptAs(cert[d], archived[d], made[d])
          BY DEF Tables, Kept
    <3>2. RowsTyped(archived'[d]) /\ KeptAs(cert'[d], archived'[d], made'[d])
          BY <1>1, <2>2, <3>1
    <3>3. QED
          BY <3>2 DEF Kept, RowsTyped, KeptAs
  <2>3. QED
        BY <2>1, <2>2
<1>3. Growing
      BY <1>1 DEF Growing, Longer
<1>4. QED
      BY <1>1, <1>2, <1>3 DEF Tables, Apart

\* A request that stores a body knows what it signs.
LEMMA SignedTyped ==
  ASSUME Data, NEW a \in Actors, req[a].at = "store"
  PROVE  /\ Signed(req[a]) \in Bodies /\ Signed(req[a]).key = req[a].key /\ req[a].key \in Materials
         /\ Issued(Signed(req[a]), req[a].key, req[a].days) \in Contents
         /\ Issued(Signed(req[a]), req[a].key, req[a].days).body = Signed(req[a])
         /\ Issued(Signed(req[a]), req[a].key, req[a].days).secret = req[a].key
<1>1. /\ Typed /\ Running(a) /\ req[a] \in Requests /\ req[a].cert \in Certs
      BY UnderWay
<1>2. req[a].key \in Materials /\ (~SelfSigned(req[a].cert) => req[a].sign \in Materials)
      BY <1>1 DEF Running, Requests
<1>3. Len(made[req[a].cert]) \in Nat /\ req[a].days \in Nat /\ now \in Nat
      BY <1>1, CertificatesAssumption DEF Typed, Requests
<1>4. Signed(req[a]) \in Bodies /\ Signed(req[a]).key = req[a].key
      BY <1>2, <1>3 DEF Signed, Bodies, Authorities
<1> DEFINE body == Signed(req[a])
<1> HIDE DEF body
<1>5. /\ Issued(body, req[a].key, req[a].days) \in Contents
      /\ Issued(body, req[a].key, req[a].days).body = body
      /\ Issued(body, req[a].key, req[a].days).secret = req[a].key
      BY <1>2, <1>3, <1>4 DEF Issued, Contents, body
<1>6. QED
      BY <1>2, <1>4, <1>5 DEF body

\* What Data says of the tables.
LEMMA DataTables == Data => Tables
BY DEF Data, Typed, Tables

\* The first version of a certificate.
LEMMA CreateKeeps ==
  ASSUME Data, NEW a \in Actors, Create(a)
  PROVE  Tables' /\ Growing /\ Apart(req[a].cert) /\ Creating(a) /\ cert'[req[a].cert].phase = "active"
<1>0. req[a].at = "store" /\ req[a].op = "create"
      BY DEF Create
<1>1. /\ Typed /\ Tables /\ req[a] \in Requests /\ req[a].cert \in Certs
      BY <1>0, UnderWay, DataTables
<1>2. Creating(a) /\ cert[req[a].cert].phase = "none"
      BY <1>0 DEF Creating, Data, Fresh
<1>3. made[req[a].cert] = <<>> /\ archived[req[a].cert] = <<>>
      BY <1>1, <1>2 DEF Tables, Kept, KeptAs
<1> DEFINE body == Signed(req[a])
           issued == Issued(body, req[a].key, req[a].days)
           enabled == Given(req[a], "enabled", TRUE)
           auto == Given(req[a], "auto", FALSE)
           from == Given(req[a], "from", 0)
           contents == [issued EXCEPT !.enabled = enabled, !.from = from]
           nothing == NoCert
           row == [nothing EXCEPT !.phase = "active", !.created = now, !.auto = auto, !.now = contents]
<1>4. /\ cert' = [cert EXCEPT ![req[a].cert] = row] /\ made' = [made EXCEPT ![req[a].cert] = <<body>>]
      /\ archived' = archived
      BY Zenon DEF Create
<1>5. enabled \in BOOLEAN /\ auto \in BOOLEAN /\ from \in Nat
      BY <1>1, GivenTyped DEF Given, Requests
<1>6. issued \in Contents /\ issued.body = body /\ issued.secret = req[a].key /\ body \in Bodies
      /\ body.key = req[a].key
      BY <1>0, SignedTyped
<1>7. nothing \in Certificate /\ nothing.version = 1
      BY NothingTyped
<1> HIDE DEF body, issued, enabled, auto, from, nothing
<1>8. contents \in Contents /\ contents.body = body /\ contents.secret = req[a].key /\ contents # None
      BY <1>5, <1>6, NoneAssumption DEF Contents
<1> HIDE DEF contents
<1>9. now \in Nat
      BY <1>1, CertificatesAssumption DEF Typed
<1>10. row \in Certificate /\ row.phase = "active" /\ row.version = 1 /\ row.now = contents
       BY <1>5, <1>7, <1>8, <1>9 DEF Certificate
<1> HIDE DEF row
<1>11. <<body>> \in Seq(Bodies) /\ Len(<<body>>) = 1 /\ <<body>>[1] = body
       BY <1>6
<1>12. RowsTyped(<<>>) /\ DOMAIN <<>> = 1 .. 0 /\ 1 .. 0 = {}
       BY DEF RowsTyped
<1>13. KeptAs(row, <<>>, <<body>>)
       BY <1>6, <1>8, <1>10, <1>11, <1>12, CertificatesAssumption DEF KeptAs
<1>14. Longer(made[req[a].cert], <<body>>)
       BY <1>3 DEF Longer
<1>15. Tables' /\ Growing /\ Apart(req[a].cert)
       BY <1>1, <1>3, <1>4, <1>10, <1>11, <1>12, <1>13, <1>14, OneCert
<1>16. QED
       BY <1>1, <1>2, <1>4, <1>10, <1>15 DEF Tables

\* A renewal moves the row's version to the version rows and issues the next.
LEMMA RenewKeeps ==
  ASSUME Data, NEW a \in Actors, Renew(a)
  PROVE  Tables' /\ Growing /\ \A c \in Certs : cert'[c].phase = cert[c].phase
<1>0. req[a].at = "store" /\ req[a].op = "renew"
      BY DEF Renew
<1>1. /\ Typed /\ Tables /\ req[a] \in Requests /\ req[a].cert \in Certs /\ Copied(a)
      BY <1>0, UnderWay, DataTables DEF Data
<1> DEFINE c == req[a].cert
           v == req[a].copy.version
           old == cert[c]
           body == Signed(req[a])
           issued == Issued(body, req[a].key, req[a].days)
           row == [old EXCEPT !.now = issued, !.created = now, !.version = v + 1]
           table == [n \in DOMAIN archived[c] \cup {v} |-> IF n = v THEN req[a].copy.now ELSE archived[c][n]]
           bodies == Append(made[c], body)
<1>2. CASE UNCHANGED <<cert, archived, made>>
      BY <1>1, <1>2 DEF Tables, Growing, Kept, KeptAs, RowsTyped, Longer
<1>3. CASE ~UNCHANGED <<cert, archived, made>>
  <2>1. /\ v \notin DOMAIN archived[c] /\ Follows(req[a])
        /\ archived' = [archived EXCEPT ![c] = [n \in DOMAIN @ \cup {v} |-> IF n = v THEN req[a].copy.now ELSE @[n]]]
        /\ cert' = [cert EXCEPT ![c].now = issued, ![c].created = now, ![c].version = v + 1]
        /\ made' = [made EXCEPT ![c] = Append(@, body)]
        BY <1>3, Zenon DEF Renew, Archive
  <2>2. /\ archived' = [archived EXCEPT ![c] = table] /\ made' = [made EXCEPT ![c] = bodies]
        /\ cert' = [cert EXCEPT ![c] = row]
        BY <1>1, <2>1 DEF Tables
  <2>3. /\ issued \in Contents /\ issued.body = body /\ issued.secret = req[a].key
        /\ body \in Bodies /\ body.key = req[a].key
        BY <1>0, SignedTyped
  <2>4. /\ Active(c) /\ cert[c].version = v /\ Kept(c) /\ made[c] \in Seq(Bodies)
        /\ old \in Certificate /\ old.phase = "active" /\ c \in Certs /\ RowsTyped(archived[c])
        BY <1>1, <2>1 DEF Follows, Tables, Active
  <2>5. /\ v = Len(made[c]) /\ v \in 1 .. MaxVersion /\ DOMAIN archived[c] = 1 .. v - 1
        /\ \A n \in 1 .. v - 1 : /\ archived[c][n].body = made[c][n]
                                 /\ archived[c][n].secret = archived[c][n].body.key
        BY <2>4 DEF Kept, KeptAs
  <2>6. /\ req[a].copy.now # None /\ req[a].copy.now.body = made[c][v]
        /\ req[a].copy.now.secret = req[a].copy.now.body.key /\ v < MaxVersion
        BY <1>0, <1>1 DEF Copied
  <2>7. req[a].copy.now \in Contents /\ MaxVersion \in Nat /\ now \in Nat
        BY <1>1, <2>6, CertificatesAssumption DEF Requests, Certificate, Typed
  <2> HIDE DEF body, issued, old, c
  <2>8. /\ row \in Certificate /\ row.now = issued /\ row.version = v + 1 /\ row.phase = "active"
    <3>1. v + 1 \in Nat /\ issued \in Contents \cup {None}
          BY <2>3, <2>5
    <3>2. QED
          BY <2>4, <2>7, <3>1 DEF Certificate
  <2>9. /\ bodies \in Seq(Bodies) /\ Len(bodies) = v + 1 /\ bodies[v + 1] = body
        /\ \A n \in 1 .. v : bodies[n] = made[c][n]
        BY <2>3, <2>4, <2>5
  <2>10. /\ DOMAIN table = 1 .. v /\ table[v] = req[a].copy.now
         /\ \A n \in 1 .. v - 1 : table[n] = archived[c][n]
         BY <2>5
  <2> HIDE DEF row, bodies, table
  <2>11. RowsTyped(table)
         BY <2>4, <2>5, <2>6, <2>7, <2>10 DEF RowsTyped
  <2>12. Longer(made[c], bodies)
         BY <2>4, <2>5, <2>9 DEF Longer
  <2>13. \A n \in 1 .. v : table[n].body = bodies[n] /\ table[n].secret = table[n].body.key
    <3>1. ASSUME NEW n \in 1 .. v
          PROVE  table[n].body = bodies[n] /\ table[n].secret = table[n].body.key
      <4>1. CASE n = v
            BY <2>6, <2>9, <2>10, <4>1
      <4>2. CASE n # v
        <5>1. n \in 1 .. v - 1
              BY <2>5, <4>2
        <5>2. QED
              BY <2>5, <2>9, <2>10, <5>1
      <4>3. QED
            BY <4>1, <4>2
    <3>2. QED
          BY <3>1
  <2>14. issued # None /\ v + 1 \in 1 .. MaxVersion /\ (v + 1) - 1 = v
         BY <2>3, <2>5, <2>6, <2>7, NoneAssumption
  <2>15. KeptAs(row, table, bodies)
         BY <2>3, <2>8, <2>9, <2>10, <2>13, <2>14 DEF KeptAs
  <2>16. Tables' /\ Growing /\ Apart(c)
         BY <1>1, <2>2, <2>4, <2>8, <2>9, <2>11, <2>12, <2>15, OneCert
  <2>17. cert'[c] = row
         BY <1>1, <2>2, <2>4 DEF Tables
  <2>18. QED
         BY <2>4, <2>8, <2>16, <2>17 DEF Apart, old
<1>4. QED
      BY <1>2, <1>3

\* A change of a row that leaves its version what it is.
LEMMA Edits ==
  ASSUME Tables, NEW c \in Certs, NEW row \in Certificate,
         cert[c].phase \in {"active", "deleted"}, row.phase \in {"active", "deleted"},
         row.version = cert[c].version, row.now \in Contents,
         row.now.body = cert[c].now.body, row.now.secret = cert[c].now.secret,
         cert' = [cert EXCEPT ![c] = row], archived' = archived, made' = made
  PROVE  Tables' /\ Growing /\ Apart(c)
<1>1. made[c] \in Seq(Bodies) /\ made' = [made EXCEPT ![c] = made[c]] /\ RowsTyped(archived[c])
      BY DEF Tables
<1>2. KeptAs(cert[c], archived[c], made[c])
      BY DEF Tables, Kept
<1>3. KeptAs(row, archived[c], made[c])
      BY <1>2, NoneAssumption DEF KeptAs
<1>4. Longer(made[c], made[c])
      BY DEF Longer
<1>5. QED
      BY <1>1, <1>3, <1>4, OneCert

\* The contents of a row that exists.
LEMMA Existing ==
  ASSUME Tables, NEW c \in Certs, cert[c].phase \in {"active", "deleted"}
  PROVE  cert[c] \in Certificate /\ cert[c].now \in Contents
<1>1. cert[c] \in Certificate /\ cert[c].now # None
      BY DEF Tables, Kept, KeptAs
<1>2. QED
      BY <1>1 DEF Certificate

\* A lifecycle update of a version leaves its body and its key.
LEMMA LifecycleTyped ==
  ASSUME NEW r \in Requests, r.copy.now \in Contents, NEW v \in Contents
  PROVE  /\ Lifecycle(v, r) \in Contents
         /\ Lifecycle(v, r).body = v.body /\ Lifecycle(v, r).secret = v.secret
<1> DEFINE enabled == Given(r, "enabled", r.copy.now.enabled)
           from == Given(r, "from", r.copy.now.from)
           expires == Given(r, "expires", r.copy.now.expires)
           new == [v EXCEPT !.enabled = enabled, !.from = from, !.expires = expires]
<1>1. r.give \in Gifts /\ r.copy.now.enabled \in BOOLEAN /\ r.copy.now.from \in Nat
      /\ r.copy.now.expires \in Nat
      BY DEF Requests, Contents
<1>2. enabled \in BOOLEAN /\ from \in Nat /\ expires \in Nat
      BY <1>1, GivenTyped DEF Given
<1>3. Lifecycle(v, r) = new
      BY DEF Lifecycle
<1> HIDE DEF enabled, from, expires
<1>4. new \in Contents /\ new.body = v.body /\ new.secret = v.secret
      BY <1>2 DEF Contents
<1>5. QED
      BY <1>3, <1>4

\* The statements that change a row: what they leave is the same version.
RowChange(a) == Update(a) \/ Protect(a) \/ UpdateCurrent(a) \/ Delete(a) \/ Recover(a)

LEMMA RowChangeKeeps ==
  ASSUME Data, NEW a \in Actors, RowChange(a)
  PROVE  Tables' /\ Growing /\ Apart(req[a].cert) /\ UNCHANGED <<archived, made>>
<1>0. /\ req[a].at # "idle" /\ UNCHANGED <<archived, made>>
      /\ req[a].at \in {"write", "lifecycle"} => Update(a) \/ UpdateCurrent(a)
      /\ Update(a) => req[a].at = "write" 
      /\ UpdateCurrent(a) => req[a].at = "lifecycle"
      /\ Protect(a) => req[a].at = "protect"
      BY DEF RowChange, Update, Protect, UpdateCurrent, Delete, Recover, SetPhase
<1>1. /\ Typed /\ Tables /\ Running(a) /\ req[a] \in Requests /\ req[a].cert \in Certs /\ Copied(a)
      BY <1>0, UnderWay, DataTables DEF Data
<1> DEFINE c == req[a].cert
           old == cert[c]
           had == old.now
           copied == req[a].copy.now
<1>2. CASE cert' = cert
      BY <1>0, <1>1, <1>2 DEF Tables, Growing, Kept, KeptAs, RowsTyped, Longer, Apart
<1>3. CASE cert' # cert
  <2>1. cert[c].phase \in {"active", "deleted"}
        BY <1>3 DEF RowChange, Update, Protect, UpdateCurrent, Delete, Recover, SetPhase, Follows, Active
  <2>2. /\ old \in Certificate /\ had \in Contents /\ c \in Certs
        BY <1>1, <2>1, Existing
  <2>3. cert \in [Certs -> Certificate]
        BY <1>1 DEF Tables
  <2>4. ASSUME NEW row \in Certificate, row.phase \in {"active", "deleted"},
               row.version = old.version, row.now \in Contents,
               row.now.body = had.body, row.now.secret = had.secret,
               cert' = [cert EXCEPT ![c] = row]
        PROVE  Tables' /\ Growing /\ Apart(c)
        BY <1>0, <1>1, <2>1, <2>2, <2>4, Edits
  <2>5. CASE Update(a)
    <3> DEFINE auto == Given(req[a], "auto", req[a].copy.auto)
               enabled == Given(req[a], "enabled", copied.enabled)
               from == Given(req[a], "from", copied.from)
               now1 == [had EXCEPT !.enabled = enabled, !.from = from]
               row == [old EXCEPT !.auto = auto, !.now = now1]
    <3>1. copied \in Contents /\ req[a].copy \in Certificate /\ req[a].give \in Gifts
          BY <1>0, <1>1, <2>5 DEF Copied, Requests, Certificate
    <3>2. auto \in BOOLEAN /\ enabled \in BOOLEAN /\ from \in Nat
          BY <3>1, GivenTyped DEF Given, Contents, Certificate
    <3>3. cert' = [cert EXCEPT ![c].auto = auto, ![c].now.enabled = enabled,
                                  ![c].now.from = from]
          BY <1>3, <2>5, Zenon DEF Update
    <3>4. cert' = [cert EXCEPT ![c] = row]
          BY <2>2, <2>3, <3>3 DEF Certificate
    <3> HIDE DEF auto, enabled, from, old, had
    <3>5. now1 \in Contents /\ now1.body = had.body /\ now1.secret = had.secret
          BY <2>2, <3>2 DEF Contents
    <3> HIDE DEF now1
    <3>6. /\ row \in Certificate /\ row.phase = old.phase /\ row.version = old.version
          /\ row.now = now1
          BY <2>2, <3>2, <3>5 DEF Certificate
    <3> HIDE DEF row
    <3>7. row.phase \in {"active", "deleted"}
          BY <2>1, <3>6 DEF old
    <3>8. QED
          BY <1>0, <2>4, <3>4, <3>5, <3>6, <3>7
  <2>6. CASE UpdateCurrent(a)
    <3> DEFINE now1 == Lifecycle(had, req[a])
               row == [old EXCEPT !.now = now1]
    <3>1. copied \in Contents
          BY <1>0, <1>1, <2>6 DEF Copied, Requests, Certificate
    <3>2. now1 \in Contents /\ now1.body = had.body /\ now1.secret = had.secret
          BY <1>1, <2>2, <3>1, LifecycleTyped
    <3>3. cert' = [cert EXCEPT ![c].now = now1]
          BY <1>3, <2>6, Zenon DEF UpdateCurrent
    <3>4. cert' = [cert EXCEPT ![c] = row]
          BY <2>2, <2>3, <3>3 DEF Certificate
    <3> HIDE DEF old, had
    <3> HIDE DEF now1
    <3>5. /\ row \in Certificate /\ row.phase = old.phase /\ row.version = old.version
          /\ row.now = now1
          BY <2>2, <3>2 DEF Certificate
    <3> HIDE DEF row
    <3>6. row.phase \in {"active", "deleted"}
          BY <2>1, <3>5 DEF old
    <3>7. QED
          BY <1>0, <2>4, <3>2, <3>4, <3>5, <3>6
  <2>7. CASE Protect(a)
    <3> DEFINE protected == req[a].give.protected
               row == [old EXCEPT !.protected = protected]
    <3>1. req[a].give \in Gifts /\ "protected" \in DOMAIN req[a].give
          BY <1>0, <1>1, <2>7 DEF Running, Requests
    <3>2. protected \in BOOLEAN
          BY <3>1, GivenTyped
    <3>3. cert' = [cert EXCEPT ![c].protected = protected]
          BY <1>3, <2>7, Zenon DEF Protect
    <3>4. cert' = [cert EXCEPT ![c] = row]
          BY <2>2, <2>3, <3>3
    <3> HIDE DEF protected, old, had
    <3>5. /\ row \in Certificate /\ row.phase = old.phase /\ row.version = old.version
          /\ row.now = old.now
          BY <2>2, <3>2 DEF Certificate
    <3> HIDE DEF row
    <3>6. row.phase \in {"active", "deleted"} /\ row.now = had
          BY <2>1, <3>5 DEF old, had
    <3>7. QED
          BY <1>0, <2>2, <2>4, <3>4, <3>5, <3>6
  <2>8. CASE Delete(a) \/ Recover(a)
    <3>1. PICK phase \in {"active", "deleted"} : cert' = [cert EXCEPT ![c].phase = phase]
          BY <1>3, <2>8 DEF Delete, Recover, SetPhase
    <3> DEFINE row == [old EXCEPT !.phase = phase]
    <3>2. cert' = [cert EXCEPT ![c] = row]
          BY <2>2, <2>3, <3>1
    <3> HIDE DEF old, had
    <3>3. /\ row \in Certificate /\ row.phase = phase /\ row.version = old.version
          /\ row.now = old.now
          BY <2>2 DEF Certificate
    <3> HIDE DEF row
    <3>4. row.now = had
          BY <3>3 DEF had
    <3>5. QED
          BY <1>0, <2>2, <2>4, <3>2, <3>3, <3>4
  <2>9. QED
        BY <2>5, <2>6, <2>7, <2>8 DEF RowChange
<1>4. QED
      BY <1>0, <1>2, <1>3

\* A change of a version row leaves its body and its key.
LEMMA UpdateVersionKeeps ==
  ASSUME Data, NEW a \in Actors, UpdateVersion(a)
  PROVE  Tables' /\ Growing /\ UNCHANGED <<cert, made>>
<1>0. req[a].at = "row" /\ req[a].op = "version" /\ UNCHANGED <<cert, made>>
      BY DEF UpdateVersion
<1>1. /\ Typed /\ Tables /\ req[a] \in Requests /\ req[a].cert \in Certs /\ Copied(a)
      BY <1>0, UnderWay, DataTables DEF Data
<1> DEFINE c == req[a].cert
           v == req[a].version
           old == archived[c][v]
           new == Lifecycle(old, req[a])
           table == [archived[c] EXCEPT ![v] = new]
<1>2. CASE archived' = archived
      BY <1>0, <1>1, <1>2 DEF Tables, Growing, Kept, KeptAs, RowsTyped, Longer
<1>3. CASE archived' # archived
  <2>1. /\ v \in DOMAIN archived[c]
        /\ archived' = [archived EXCEPT ![c][v] = new]
        BY <1>3, Zenon DEF UpdateVersion
  <2>2. /\ old \in Contents /\ RowsTyped(archived[c]) /\ KeptAs(cert[c], archived[c], made[c])
        /\ cert[c] \in Certificate /\ made[c] \in Seq(Bodies) /\ c \in Certs
        BY <1>1, <2>1 DEF Tables, RowsTyped, Kept
  <2>3. req[a].copy.now \in Contents
        BY <1>0, <1>1 DEF Copied, Requests, Certificate
  <2>4. new \in Contents /\ new.body = old.body /\ new.secret = old.secret
        BY <1>1, <2>2, <2>3, LifecycleTyped
  <2>5. archived' = [archived EXCEPT ![c] = table]
        BY <1>1, <2>1, <2>2 DEF Tables, Contents
  <2> HIDE DEF old, new
  <2>6. /\ DOMAIN table = DOMAIN archived[c] /\ table[v] = new
        /\ \A n \in DOMAIN archived[c] : n # v => table[n] = archived[c][n]
        BY <2>1
  <2> HIDE DEF table
  <2>7. RowsTyped(table)
        BY <2>2, <2>4, <2>6 DEF RowsTyped
  <2>8. \A n \in DOMAIN archived[c] : table[n].body = archived[c][n].body /\ table[n].secret = archived[c][n].secret
        BY <2>4, <2>6 DEF old
  <2>9. archived[c] # <<>>
         BY <2>1
  <2>10. KeptAs(cert[c], table, made[c])
         BY <2>2, <2>6, <2>8, <2>9 DEF KeptAs, Certificate
  <2>11. /\ cert' = [cert EXCEPT ![c] = cert[c]] /\ made' = [made EXCEPT ![c] = made[c]]
         /\ Longer(made[c], made[c])
         BY <1>0, <1>1 DEF Tables, Longer
  <2>12. QED
         BY <1>0, <1>1, <2>2, <2>5, <2>7, <2>10, <2>11, OneCert
<1>4. QED
      BY <1>0, <1>2, <1>3

\* A purge leaves no version behind.
LEMMA EraseKeeps ==
  ASSUME Data, NEW a \in Actors, Erase(a)
  PROVE  /\ Tables' /\ Growing /\ Apart(req[a].cert)
         /\ cert[req[a].cert].phase = "none" => cert'[req[a].cert].phase = "none"
<1>0. req[a].at = "erase" /\ UNCHANGED made
      BY DEF Erase
<1>1. /\ Typed /\ Tables /\ req[a] \in Requests /\ req[a].cert \in Certs
      BY <1>0, UnderWay, DataTables
<1> DEFINE c == req[a].cert
           nothing == NoCert
           row == [nothing EXCEPT !.phase = "purged"]
<1>2. CASE UNCHANGED <<cert, archived>>
      BY <1>0, <1>1, <1>2 DEF Tables, Growing, Kept, KeptAs, RowsTyped, Longer, Apart
<1>3. CASE ~UNCHANGED <<cert, archived>>
  <2>1. /\ cert[c].phase \in {"active", "deleted"} /\ cert' = [cert EXCEPT ![c] = row]
        /\ archived' = [archived EXCEPT ![c] = <<>>]
        BY <1>3 DEF Erase, VersionsLeft
  <2>2. nothing \in Certificate /\ nothing.now = None
        BY NothingTyped
  <2> HIDE DEF nothing
  <2>3. row \in Certificate /\ row.phase = "purged" /\ row.now = None
        BY <2>2 DEF Certificate
  <2> HIDE DEF row
  <2>4. RowsTyped(<<>>) /\ KeptAs(row, <<>>, made[c])
        BY <2>3 DEF RowsTyped, KeptAs
  <2>5. /\ made' = [made EXCEPT ![c] = made[c]] /\ Longer(made[c], made[c])
        /\ made[c] \in Seq(Bodies)
        BY <1>0, <1>1 DEF Tables, Longer
  <2>6. Tables' /\ Growing /\ Apart(c)
        BY <1>1, <2>1, <2>3, <2>4, <2>5, OneCert
  <2>7. QED
        BY <2>1, <2>6
<1>4. QED
      BY <1>2, <1>3

\* The statements that store, and all the others.
Storing(a) == Create(a) \/ Renew(a) \/ RowChange(a) \/ UpdateVersion(a) \/ Erase(a)

\* A certificate that is new stays new, unless it is created.
LEMMA StoringKeeps ==
  ASSUME Data, NEW a \in Actors, Storing(a)
  PROVE  /\ Tables' /\ Growing
         /\ \A c \in Certs : cert[c].phase = "none" =>
              cert'[c].phase = "none" \/ (Creating(a) /\ c = req[a].cert /\ Create(a))
<1>1. CASE Create(a)
  <2>1. Tables' /\ Growing /\ Apart(req[a].cert) /\ Creating(a)
        BY <1>1, CreateKeeps
  <2>2. QED
        BY <1>1, <2>1 DEF Apart
<1>2. CASE Renew(a)
      BY <1>2, RenewKeeps
<1>3. CASE RowChange(a)
  <2>1. Tables' /\ Growing /\ Apart(req[a].cert)
        BY <1>3, RowChangeKeeps
  <2>2. cert[req[a].cert].phase = "none" => cert' = cert
        BY <1>3 DEF RowChange, Update, Protect, UpdateCurrent, Delete, Recover, SetPhase, Follows, Active
  <2>3. QED
        BY <2>1, <2>2 DEF Apart
<1>4. CASE UpdateVersion(a)
      BY <1>4, UpdateVersionKeeps
<1>5. CASE Erase(a)
      BY <1>5, EraseKeeps DEF Apart
<1>6. QED
      BY <1>1, <1>2, <1>3, <1>4, <1>5 DEF Storing

\* What stores nothing leaves the tables.
LEMMA Untouched ==
  ASSUME Tables, UNCHANGED <<cert, archived, made>>
  PROVE  Tables' /\ Growing
BY DEF Tables, Growing, Kept, KeptAs, RowsTyped, Longer

-----------------------------------------------------------------------------
(* Every step of a request.                                                *)

Looking(a) == Read(a) \/ ReadKey(a) \/ ReadIssuer(a) \/ ReadVersion(a)
Starting(a) == (a \in Clients /\ Request(a)) \/ (a = Scheduler /\ Take)
Step(a) == Looking(a) \/ Plain(a) \/ Starting(a) \/ Fail(a)

\* What is around the tables stays typed.
Around == /\ now \in 0 .. MaxTime /\ key \in [Certs -> [usable : BOOLEAN, value : Materials]]
          /\ rights \subseteq {"account", "grant"} /\ DOMAIN plan \subseteq Certs
          /\ \A c \in DOMAIN plan : plan[c] \in Certificate /\ plan[c].now # None

LEMMA StepAround ==
  ASSUME Data, NEW a \in Actors, Step(a)
  PROVE  Around' /\ (Starting(a) => Served(a) /\ Copied(a)')
<1>1. Around /\ Typed
      BY DEF Data, Typed, Around
<1>2. CASE Looking(a) \/ Plain(a) \/ Fail(a)
  <2>1. UNCHANGED <<now, key, rights, plan>>
    <3>1. CASE Looking(a) \/ Fail(a)
          BY <3>1 DEF Looking, Read, ReadKey, ReadIssuer, ReadVersion, Fail, stored, tables
    <3>2. CASE Plain(a)
          BY <3>2 DEF Plain, ReadIssuerKey, Create, Renew, Update, Protect, UpdateCurrent, UpdateVersion,
             Delete, Recover, SetPhase, Vet, Erase, Release, OwnerActive, OwnerMaySign, tables, stored
    <3>3. QED
          BY <1>2, <3>1, <3>2
  <2>2. Around'
        BY <1>1, <2>1 DEF Around
  <2>3. ASSUME Starting(a) PROVE Served(a) /\ Copied(a)'
        BY <2>3, RequestServed, TakeServed DEF Starting
  <2>4. QED
        BY <2>2, <2>3
<1>3. CASE Starting(a)
  <2>1. CASE a \in Clients /\ Request(a)
    <3>1. UNCHANGED <<now, key, rights, plan>>
      <4>1. PICK op \in Ops, c \in Certs, v \in Nat, give \in Gifts : Begin(a, op, c, v, give)
            BY <1>1, <2>1, Requested
      <4>2. QED
            BY <4>1 DEF Begin
    <3>2. QED
          BY <1>1, <2>1, <3>1, RequestServed DEF Around
  <2>2. CASE a = Scheduler /\ Take
    <3>1. UNCHANGED <<now, key, rights>>
          BY <2>2 DEF Take, tables, stored
    <3>2. QED
          BY <1>1, <2>2, <3>1, TakeServed DEF Around
  <2>3. QED
        BY <1>3, <2>1, <2>2 DEF Starting
<1>4. QED
      BY <1>2, <1>3 DEF Step

LEMMA StepServed ==
  ASSUME Data, NEW a \in Actors, Step(a)
  PROVE  Served(a)
<1>1. CASE Fail(a)
      BY <1>1, EndServed DEF Fail, Data
<1>2. QED
      BY <1>1, ReadServed, ReadKeyServed, ReadIssuerServed, ReadVersionServed, PlainServed, StepAround
      DEF Step, Looking

\* A step stores something or leaves the tables.
LEMMA StepStores ==
  ASSUME Data, NEW a \in Actors, Step(a)
  PROVE  Storing(a) \/ UNCHANGED <<cert, archived, made>>
<1>1. CASE Looking(a) \/ Fail(a)
      BY <1>1 DEF Looking, Read, ReadKey, ReadIssuer, ReadVersion, Fail, stored, tables
<1>2. CASE Plain(a)
      BY <1>2 DEF Plain, Storing, RowChange, ReadIssuerKey, Vet, Release, OwnerActive, OwnerMaySign,
                  tables, stored
<1>3. CASE a \in Clients /\ Request(a)
  <2>1. Typed
        BY DEF Data
  <2>2. PICK op \in Ops, c \in Certs, v \in Nat, give \in Gifts : Begin(a, op, c, v, give)
        BY <1>3, <2>1, Requested
  <2>3. QED
        BY <2>2 DEF Begin
<1>4. CASE a = Scheduler /\ Take
      BY <1>4 DEF Take, tables, stored
<1>5. QED
      BY <1>1, <1>2, <1>3, <1>4 DEF Step, Starting

\* A step that creates nothing leaves new certificates new.
LEMMA StepTables ==
  ASSUME Data, NEW a \in Actors, Step(a)
  PROVE  /\ Tables' /\ Growing
         /\ \A c \in Certs : cert[c].phase = "none" =>
              cert'[c].phase = "none" \/ (Creating(a) /\ c = req[a].cert /\ Create(a))
<1>1. CASE Storing(a)
      BY <1>1, StoringKeeps
<1>2. CASE UNCHANGED <<cert, archived, made>>
      BY <1>2, DataTables, Untouched
<1>3. QED
      BY <1>1, <1>2, StepStores

\* Who is creating was, or begins alone.
LEMMA StepCreating ==
  ASSUME Data, NEW a \in Actors, Step(a), Creating(a)'
  PROVE  /\ ~Create(a)
         /\ \/ Creating(a) /\ req'[a].cert = req[a].cert
            \/ /\ cert[req'[a].cert].phase = "none" /\ cert' = cert
               /\ \A b \in Actors : b # a => ~(Creating(b) /\ req[b].cert = req'[a].cert)
<1>1. Typed /\ Served(a) /\ req'[a].op = "create" /\ req'[a].at # "protect"
      BY StepServed DEF Data, Creating
<1>2. ~Finish(a)
      BY <1>1, Ends, NothingTyped
<1>3. CASE Create(a)
  <2>1. Goto(a, "protect") /\ "protect" \in Stages
        BY <1>2, <1>3 DEF Create, Stages
  <2>2. QED
        BY <1>1, <2>1, Moves
<1>4. CASE Looking(a)
  <2>1. ~Create(a)
        BY <1>4 DEF Looking, Read, ReadKey, ReadIssuer, ReadVersion, Create
  <2>2. /\ req'[a].op = req[a].op /\ req'[a].cert = req[a].cert /\ req[a].at # "protect"
    <3>1. req[a].at # "protect"
          BY <1>4 DEF Looking, Read, ReadKey, ReadIssuer, ReadVersion
    <3>2. QED
          BY <1>2, <1>4, <3>1, ReadServed, ReadKeyServed, ReadIssuerServed, ReadVersionServed DEF Looking
  <2>3. QED
        BY <1>1, <2>1, <2>2 DEF Creating
<1>5. CASE Plain(a) /\ ~Create(a)
  <2>1. PICK stage \in {"store", "protect", "erase", "grant", "read"} :
          /\ Goto(a, stage) /\ (stage = "store" => req[a].at = "issuerkey")
          /\ stage = "erase" => req[a].op = "purge"
          /\ stage \in {"grant", "read"} => a = Scheduler
        BY <1>2, <1>5, PlainServed DEF ReadIssuerKey
  <2>2. stage \in Stages
        BY <2>1 DEF Stages
  <2>3. req'[a].at = stage /\ req'[a].op = req[a].op /\ req'[a].cert = req[a].cert
        BY <1>1, <2>1, <2>2, Moves
  <2>4. a = Scheduler => req[a].op = "renew"
        BY DEF Data, Running
  <2>5. stage = "store"
        BY <1>1, <2>1, <2>3, <2>4
  <2>6. QED
        BY <1>1, <1>5, <2>1, <2>3, <2>5 DEF Creating
<1>6. CASE a \in Clients /\ Request(a)
  <2>1. PICK op \in Ops, c \in Certs, v \in Nat, give \in Gifts :
           /\ Begin(a, op, c, v, give) 
           /\ op = "create" => /\ cert[c].phase = "none"
                               /\ \A b \in Actors : req[b].op = "create" => req[b].cert # c
        BY <1>1, <1>6, Requested
  <2>2. First(op) \in Stages /\ Validity \in Nat
        BY OpsAt, StagesAt, CertificatesAssumption
  <2>a. Begin(a, op, c, v, give)
        BY <2>1
  <2>b. PICK stage \in Stages, days \in Nat :
          req' = [req EXCEPT ![a] = [Idle EXCEPT !.op = op, !.at = stage, !.cert = c, !.days = days,
                                                 !.version = v, !.give = give]]
        BY <2>2, <2>a DEF Begin
  <2>c. Typed
        BY <1>1
  <2>d. /\ req' \in [Actors -> Requests] /\ \A b \in Actors : b # a => req'[b] = req[b]
        /\ req'[a].op = op /\ req'[a].at = stage /\ req'[a].cert = c /\ req'[a].copy = NoCert
        BY <2>b, <2>c, Begun
  <2>3. req'[a].op = op /\ req'[a].cert = c
        BY <2>d
  <2>4. cert' = cert /\ req[a] = Idle
        BY <2>1 DEF Begin
  <2>5. QED
        BY <1>1, <2>1, <2>3, <2>4, NothingTyped DEF Creating, Create
<1>7. CASE a = Scheduler /\ Take
  <2>1. Running(a)'
        BY <1>1 DEF Served
  <2>2. QED
        BY <1>1, <1>7, <2>1 DEF Running
<1>8. CASE Fail(a)
      BY <1>2, <1>8 DEF Fail
<1>9. QED
      BY <1>3, <1>4, <1>5, <1>6, <1>7, <1>8 DEF Step, Starting

\* A copy stays one of a version that was issued.
LEMMA CopyKept ==
  ASSUME NEW a \in Actors, Copied(a), Growing,
         req'[a].copy = req[a].copy, req'[a].op = req[a].op, req'[a].cert = req[a].cert,
         \/ req'[a].at = req[a].at
         \/ req'[a].at \in {"grant", "read", "protect", "erase"}
         \/ req'[a].at \in {"issuer", "issuerkey", "store"}
            /\ (req[a].at \in {"key", "issuer", "issuerkey"} \/ req[a].op # "renew")
  PROVE  Copied(a)'
BY DEF Copied, Growing, Longer

LEMMA StepCopied ==
  ASSUME Data, NEW a \in Actors, Step(a)
  PROVE  Copied(a)'
<1>1. /\ Typed /\ Tables /\ Growing /\ Running(a) /\ Copied(a) /\ Served(a)
      BY StepServed, StepTables, DataTables DEF Data
<1>2. CASE Finish(a)
      BY <1>1, <1>2, EndsWell
<1>3. CASE Read(a) /\ ~Finish(a)
  <2> DEFINE c == req[a].cert
             row == cert[c]
  <2>1. /\ req'[a].copy = row /\ Active(c) /\ req'[a].op = req[a].op /\ req'[a].cert = c
        /\ req[a].op = "renew" => row.version # MaxVersion
        BY <1>3, ReadServed
  <2>2. c \in Certs /\ UNCHANGED made
        BY <1>3, UnderWay DEF Read, tables, stored
  <2>3. Kept(c)
        BY <2>2 DEF Data
  <2>4. /\ row \in Certificate /\ row.now # None
        /\ row.version \in DOMAIN made[c] /\ row.version <= MaxVersion
        /\ row.now.body = made[c][row.version] /\ row.now.secret = row.now.body.key
        BY <1>1, <2>1, <2>2, <2>3, Live
  <2>5. row.version \in Nat /\ MaxVersion \in Nat
        BY <2>4, CertificatesAssumption DEF Certificate
  <2>6. req[a].op = "renew" => row.version < MaxVersion
        BY <2>1, <2>4, <2>5
  <2> HIDE DEF row, c
  <2>7. QED
        BY <2>1, <2>2, <2>4, <2>6 DEF Copied
<1>4. CASE (ReadKey(a) \/ ReadIssuer(a)) /\ ~Finish(a)
  <2>1. /\ req'[a].copy = req[a].copy /\ req'[a].op = req[a].op /\ req'[a].cert = req[a].cert
        /\ req'[a].at \in {"issuer", "issuerkey", "store"}
        BY <1>4, ReadKeyServed, ReadIssuerServed
  <2>2. req[a].at \in {"key", "issuer"}
        BY <1>4 DEF ReadKey, ReadIssuer
  <2>3. QED
        BY <1>1, <2>1, <2>2, CopyKept
<1>5. CASE ReadVersion(a) /\ ~Finish(a)
  <2> DEFINE c == req[a].cert
             n == req[a].version
  <2>1. /\ req'[a].cert = c /\ req'[a].op = req[a].op /\ n \in DOMAIN archived[c]
        /\ req'[a].copy.now = archived[c][n] /\ req'[a].copy.version = n /\ req[a].op # "renew"
        BY <1>5, ReadVersionServed
  <2>2. c \in Certs /\ UNCHANGED made
        BY <1>5, UnderWay DEF ReadVersion, tables, stored
  <2>3. Kept(c) /\ RowsTyped(archived[c]) /\ cert[c] \in Certificate /\ made[c] \in Seq(Bodies)
        BY <1>1, <2>2 DEF Tables
  <2>4. archived[c][n] # None
        BY <2>1, <2>3, NoneAssumption DEF RowsTyped
  <2>5. cert[c].phase \in {"active", "deleted"}
        BY <2>1, <2>3 DEF Kept, KeptAs, Certificate
  <2> DEFINE v == cert[c].version
  <2> HIDE DEF c, n
  <2>a. /\ v = Len(made[c]) /\ v \in Nat /\ DOMAIN archived[c] = 1 .. v - 1
        /\ \A m \in 1 .. v - 1 : /\ archived[c][m].body = made[c][m]
                                 /\ archived[c][m].secret = archived[c][m].body.key
        BY <2>3, <2>5 DEF Kept, KeptAs, Certificate
  <2> HIDE DEF v
  <2>6. /\ n \in DOMAIN made[c] /\ archived[c][n].body = made[c][n]
        /\ archived[c][n].secret = archived[c][n].body.key
    <3>1. n \in 1 .. v - 1
          BY <2>1, <2>a
    <3>2. QED
          BY <2>3, <2>a, <3>1
  <2>7. QED
        BY <2>1, <2>2, <2>4, <2>6 DEF Copied
<1>6. CASE Plain(a) /\ ~Finish(a)
  <2>1. PICK stage \in {"store", "protect", "erase", "grant", "read"} :
          Goto(a, stage) /\ (stage = "store" => req[a].at = "issuerkey")
        BY <1>6, PlainServed DEF ReadIssuerKey
  <2>2. stage \in Stages
        BY <2>1 DEF Stages
  <2>3. /\ req' \in [Actors -> Requests] /\ \A b \in Actors : b # a => req'[b] = req[b]
        /\ req'[a].at = stage /\ req'[a].op = req[a].op /\ req'[a].cert = req[a].cert
        /\ req'[a].copy = req[a].copy
        BY <1>1, <2>1, <2>2, Moves
  <2>4. QED
        BY <1>1, <2>1, <2>3, CopyKept
<1>7. CASE Starting(a)
      BY <1>7, StepAround
<1>8. QED
      BY <1>2, <1>3, <1>4, <1>5, <1>6, <1>7 DEF Step, Looking, Fail

\* A step of a request keeps what is known of the data.
LEMMA StepData ==
  ASSUME Data, NEW a \in Actors, Step(a)
  PROVE  Data' /\ Growing /\ Served(a)
<1>1. /\ Typed /\ Tables' /\ Growing /\ Served(a) /\ Copied(a)' /\ Around'
      BY StepServed, StepTables, StepCopied, StepAround DEF Data
<1>2. Typed'
      BY <1>1 DEF Typed, Tables, Around, Served
<1>3. ASSUME NEW b \in Actors PROVE Running(b)' /\ Copied(b)'
  <2>1. CASE b = a
        BY <1>1, <2>1 DEF Served
  <2>2. CASE b # a
    <3>1. req'[b] = req[b] /\ Running(b) /\ Copied(b)
          BY <1>1, <2>2 DEF Served, Data
    <3>2. QED
          BY <1>1, <3>1, CopyKept DEF Running
  <2>3. QED
        BY <2>1, <2>2
<1>4. Fresh'
  <2>1. SUFFICES ASSUME NEW b \in Actors, Creating(b)'
                 PROVE  /\ cert'[req'[b].cert].phase = "none"
                        /\ \A d \in Actors : Creating(d)' /\ req'[d].cert = req'[b].cert => d = b
        BY DEF Fresh
  <2>2. Creating(a)' =>
          /\ ~Create(a)
          /\ \/ Creating(a) /\ req'[a].cert = req[a].cert
             \/ /\ cert[req'[a].cert].phase = "none" /\ cert' = cert
                /\ \A d \in Actors : d # a => ~(Creating(d) /\ req[d].cert = req'[a].cert)
        BY StepCreating
  <2>3. \A d \in Actors : d # a => /\ req'[d] = req[d] /\ (Creating(d)' <=> Creating(d))
        BY <1>1 DEF Served, Creating
  <2>4. /\ \A c \in Certs : cert[c].phase = "none" =>
             cert'[c].phase = "none" \/ (Creating(a) /\ c = req[a].cert /\ Create(a))
        BY StepTables
  <2>5. \A d \in Actors : Creating(d) =>
           /\ cert[req[d].cert].phase = "none"
           /\ \A e \in Actors : Creating(e) /\ req[e].cert = req[d].cert => e = d
        BY DEF Data, Fresh
  <2>6. req'[b].cert \in Certs
    <3>1. Running(b)' /\ req'[b].op = "create"
          BY <1>3, <2>1 DEF Creating
    <3>2. req'[b] # Idle
          BY <3>1, NothingTyped
    <3>3. QED
          BY <3>1, <3>2 DEF Running
  <2>7. \A d \in Actors : Creating(d)' /\ req'[d].cert = req'[b].cert => d = b
        BY <2>1, <2>2, <2>3, <2>5
  <2>8. cert[req'[b].cert].phase = "none" \/ cert' = cert
        BY <2>1, <2>2, <2>3, <2>5
  <2>9. cert'[req'[b].cert].phase = "none"
    <3>1. CASE b = a
          BY <2>1, <2>2, <2>4, <2>5, <2>6, <3>1
    <3>2. CASE b # a
          BY <2>1, <2>3, <2>4, <2>5, <2>6, <3>2
    <3>3. QED
          BY <3>1, <3>2
  <2>10. QED
         BY <2>7, <2>9
<1>5. QED
      BY <1>1, <1>2, <1>3, <1>4 DEF Data, Tables

-----------------------------------------------------------------------------
(* Every step.                                                             *)

LEMMA NextSteps ==
  ASSUME Next
  PROVE  Noted /\ ((\E a \in Actors : Step(a)) \/ List \/ Restart \/ Tick \/ Change)
<1>1. Noted
      BY DEF Next
<1>2. Scheduler \in Actors /\ Clients \subseteq Actors
      BY DEF Actors
<1>3. CASE Scheduling
      BY <1>1, <1>2, <1>3 DEF Scheduling, RenewCertificate, Step, Looking, Starting, Plain
<1>4. CASE \E a \in Clients : Request(a) \/ Serve(a)
      BY <1>1, <1>2, <1>4 DEF Serve, RenewCertificate, Step, Looking, Starting, Plain
<1>5. CASE (\E a \in Actors : Fail(a)) \/ Restart \/ Tick \/ Change
      BY <1>1, <1>5 DEF Step
<1>6. QED
      BY <1>3, <1>4, <1>5 DEF Next

\* What happens around the requests.
Otherwise == List \/ Restart \/ Tick \/ Change

LEMMA OtherData ==
  ASSUME Data, Otherwise
  PROVE  /\ Data' /\ Growing /\ exports' = exports
         /\ UNCHANGED req \/ \A a \in Actors : req'[a] = Idle
<1>1. /\ UNCHANGED <<cert, archived, made, exports>>
      /\ UNCHANGED req \/ req' = [a \in Actors |-> Idle]
      BY DEF Otherwise, List, Restart, Tick, Change, tables, stored
<1>2. Typed /\ Tables
      BY DataTables DEF Data
<1>3. Tables' /\ Growing
      BY <1>1, <1>2, Untouched
<1>4. req' \in [Actors -> Requests]
      BY <1>1, <1>2, NothingTyped DEF Typed
<1>5. Around'
  <2>0. Around
        BY <1>2 DEF Typed, Around
  <2>1. CASE List
    <3>1. /\ UNCHANGED <<now, key, rights>>
          /\ plan' = [c \in {d \in Certs : Active(d) /\ cert[d].auto /\ InWindow(cert[d])} |-> cert[c]]
          BY <2>1 DEF List, tables, stored
    <3>2. ASSUME NEW c \in Certs, Active(c) PROVE cert[c] \in Certificate /\ cert[c].now # None
          BY <1>2, <3>2, Live DEF Tables
    <3>3. QED
          BY <2>0, <3>1, <3>2 DEF Around
  <2>2. CASE Restart
    <3>1. UNCHANGED <<now, key, rights>> /\ plan' = <<>>
          BY <2>2 DEF Restart, stored
    <3>2. QED
          BY <2>0, <3>1 DEF Around
  <2>3. CASE Tick
    <3>1. UNCHANGED <<key, rights, plan>> /\ now' = now + 1 /\ now < MaxTime /\ MaxTime \in Nat
          BY <2>3, CertificatesAssumption DEF Tick
    <3>2. QED
          BY <2>0, <3>1 DEF Around
  <2>4. CASE Change
    <3>1. UNCHANGED <<now, plan>>
          BY <2>4 DEF Change
    <3>2. \/ key' = key
          \/ \E c \in Certs : \/ key' = [key EXCEPT ![c].usable = ~@]
                              \/ key' = [key EXCEPT ![c].value = <<c, @[2] + 1>>]
          BY <2>4, Zenon DEF Change
    <3>3. rights' \subseteq {"account", "grant"}
      <4>1. \/ rights' = rights \/ rights' = rights \ {"account"} \/ rights' = rights \ {"grant"}
            \/ rights' = rights \cup {"grant"}
            BY <2>4, Zenon DEF Change
      <4>2. QED
            BY <2>0, <4>1 DEF Around
    <3>4. key' \in [Certs -> [usable : BOOLEAN, value : Materials]]
      <4>1. key \in [Certs -> [usable : BOOLEAN, value : Materials]]
            BY <2>0 DEF Around
      <4>2. ASSUME NEW c \in Certs, key' = [key EXCEPT ![c].usable = ~@]
            PROVE  key' \in [Certs -> [usable : BOOLEAN, value : Materials]]
            BY <4>1, <4>2
      <4>3. ASSUME NEW c \in Certs, key' = [key EXCEPT ![c].value = <<c, @[2] + 1>>]
            PROVE  key' \in [Certs -> [usable : BOOLEAN, value : Materials]]
        <5>1. key[c].value \in Certs \X Nat
              BY <4>1 DEF Materials
        <5>2. <<c, key[c].value[2] + 1>> \in Materials
              BY <5>1 DEF Materials
        <5>3. QED
              BY <4>1, <4>3, <5>2
      <4>4. QED
            BY <3>2, <4>1, <4>2, <4>3
    <3>5. QED
          BY <2>0, <3>1, <3>3, <3>4 DEF Around
  <2>5. QED
        BY <2>1, <2>2, <2>3, <2>4 DEF Otherwise
<1>6. Typed'
      BY <1>3, <1>4, <1>5 DEF Typed, Tables, Around
<1>7. CASE UNCHANGED req
  <2>1. \A a \in Actors : Running(a) /\ Copied(a)
        BY DEF Data
  <2>2. \A a \in Actors : Running(a)' /\ Copied(a)'
        BY <1>1, <1>7, <2>1 DEF Running, Copied
  <2>3. Fresh'
    <3>1. Fresh
          BY DEF Data
    <3>2. QED
          BY <1>1, <1>7, <3>1 DEF Fresh, Creating
  <2>4. QED
        BY <1>1, <1>3, <1>6, <1>7, <2>2, <2>3 DEF Data, Tables
<1>8. CASE req' = [a \in Actors |-> Idle]
  <2>1. \A a \in Actors : req'[a] = Idle
        BY <1>8
  <2>2. Idle.at = "idle" /\ Idle.op = "renew" /\ Idle.copy.now = None
        BY NothingTyped
  <2>3. \A a \in Actors : Running(a)' /\ Copied(a)'
        BY <2>1, <2>2 DEF Running, Copied
  <2>4. Fresh'
        BY <2>1, <2>2 DEF Fresh, Creating
  <2>5. QED
        BY <1>1, <1>3, <1>6, <2>1, <2>3, <2>4 DEF Data, Tables
<1>9. QED
      BY <1>1, <1>7, <1>8

\* What was exported stays what it was.
LEMMA ExportsStay ==
  ASSUME Exported, Growing, exports' = exports
  PROVE  Exported'
<1>1. ASSUME NEW e \in exports
      PROVE  /\ e.cert \in Certs /\ e.version \in DOMAIN made'[e.cert]
             /\ e.body = made'[e.cert][e.version] /\ e.secret = e.body.key
             /\ ~SelfSigned(e.cert) => \E n \in DOMAIN made'[Issuer[e.cert]] :
                  made'[Issuer[e.cert]][n].key = e.body.by
  <2>1. /\ e.cert \in Certs /\ e.version \in DOMAIN made[e.cert]
        /\ e.body = made[e.cert][e.version] /\ e.secret = e.body.key
        /\ ~SelfSigned(e.cert) => \E n \in DOMAIN made[Issuer[e.cert]] :
             made[Issuer[e.cert]][n].key = e.body.by
        BY DEF Exported
  <2>2. Issuer[e.cert] \in Certs
        BY <2>1, CertificatesAssumption
  <2>3. Longer(made[e.cert], made'[e.cert]) /\ Longer(made[Issuer[e.cert]], made'[Issuer[e.cert]])
        BY <2>1, <2>2 DEF Growing
  <2>4. QED
        BY <2>1, <2>3 DEF Longer
<1>2. QED
      BY <1>1 DEF Exported, SelfSigned

\* An export of a version whose chain verifies.
LEMMA ReleaseExports ==
  ASSUME Data, Exported, NEW a \in Actors, Release(a)
  PROVE  Exported'
<1>1. /\ Typed /\ Tables /\ Copied(a) /\ req[a].cert \in Certs /\ req[a].at = "release"
      /\ made' = made
      BY UnderWay, DataTables DEF Release, Data
<1> DEFINE c == req[a].cert
           i == Issuer[c]
           v == req[a].copy.now
           n == req[a].copy.version
           new == [cert |-> c, version |-> n, body |-> v.body, secret |-> v.secret]
           True(e) == /\ e.cert \in Certs /\ e.version \in DOMAIN made[e.cert]
                      /\ e.body = made[e.cert][e.version] /\ e.secret = e.body.key
                      /\ ~SelfSigned(e.cert) => \E m \in DOMAIN made[Issuer[e.cert]] :
                           made[Issuer[e.cert]][m].key = e.body.by
<1>2. \A e \in exports : True(e)
      BY DEF Exported
<1>3. \/ exports' = exports
      \/ /\ exports' = exports \cup {new}
         /\ SelfSigned(c) \/ (Active(i) /\ v.body.by = cert[i].now.body.key)
      BY Zenon DEF Release, SecretOf, Verifies
<1>4. CASE exports' # exports
  <2>1. exports' = exports \cup {new} /\ (SelfSigned(c) \/ (Active(i) /\ v.body.by = cert[i].now.body.key))
        BY <1>3, <1>4
  <2>2. n \in DOMAIN made[c] /\ v.body = made[c][n] /\ v.secret = v.body.key
        BY <1>1 DEF Copied
  <2>3. ~SelfSigned(c) => \E m \in DOMAIN made[i] : made[i][m].key = v.body.by
    <3>1. i \in Certs
          BY <1>1, CertificatesAssumption
    <3>2. Kept(i)
          BY <1>1, <3>1 DEF Tables
    <3>3. Active(i) => /\ cert[i].version \in DOMAIN made[i]
                       /\ cert[i].now.body = made[i][cert[i].version]
          BY <1>1, <3>1, <3>2, Live
    <3>4. QED
          BY <2>1, <3>3
  <2>4. new.cert = c /\ new.version = n /\ new.body = v.body /\ new.secret = v.secret
        OBVIOUS
  <2>5. c \in Certs
        BY <1>1
  <2> HIDE DEF new, v, n
  <2>6. True(new)
        BY <2>2, <2>3, <2>4, <2>5
  <2>7. \A e \in exports' : True(e)
        BY <1>2, <2>1, <2>6
  <2>8. QED
        BY <1>1, <2>7 DEF Exported, SelfSigned
<1>5. CASE exports' = exports
  <2>1. \A e \in exports' : True(e)
        BY <1>2, <1>5
  <2>2. QED
        BY <1>1, <2>1 DEF Exported, SelfSigned
<1>6. QED
      BY <1>4, <1>5

LEMMA StepExports ==
  ASSUME Data, Exported, NEW a \in Actors, Step(a)
  PROVE  Exported'
<1>1. Growing /\ Typed
      BY StepData DEF Data
<1>2. CASE exports' = exports
      BY <1>1, <1>2, ExportsStay
<1>3. CASE a \in Clients /\ Request(a)
  <2>1. PICK op \in Ops, c \in Certs, v \in Nat, give \in Gifts : Begin(a, op, c, v, give)
        BY <1>1, <1>3, Requested
  <2>2. QED
        BY <1>2, <2>1 DEF Begin
<1>4. CASE Looking(a) \/ Fail(a) \/ (a = Scheduler /\ Take)
  <2>1. exports' = exports
        BY <1>4 DEF Looking, Read, ReadKey, ReadIssuer, ReadVersion, Fail, Take, stored, tables
  <2>2. QED
        BY <1>2, <2>1
<1>5. CASE Plain(a)
  <2>1. Release(a) \/ exports' = exports
        BY <1>5 DEF Plain, ReadIssuerKey, Create, Renew, Update, Protect, UpdateCurrent, UpdateVersion,
           Delete, Recover, SetPhase, Vet, Erase, OwnerActive, OwnerMaySign, tables, stored
  <2>2. QED
        BY <1>2, <2>1, ReleaseExports
<1>6. QED
      BY <1>3, <1>4, <1>5 DEF Step, Starting

-----------------------------------------------------------------------------
(* What a signature rests on.                                              *)

\* What holds is what was looked at.
LEMMA Holds ==
  ASSUME NEW c
  PROVE  /\ key[c].usable => "key" \in Holding(c)
         /\ Active(c) /\ Accessible(cert[c].now) => "alive" \in Holding(c)
         /\ Active(Issuer[c]) /\ cert[Issuer[c]].now.body.authority = "ca" => "issuer" \in Holding(c)
         /\ Active(Issuer[c]) /\ Accessible(cert[Issuer[c]].now) => "issuer alive" \in Holding(c)
         /\ key[Issuer[c]].usable => "issuer key" \in Holding(c)
         /\ rights \subseteq Holding(c)
BY DEF Holding

\* Nobody but the scheduler rests on the owner, no creation on the life of
\* what it creates, and what signs itself on no CA.
LEMMA GroundsAre ==
  ASSUME NEW a \in Actors
  PROVE  /\ Grounds(a) \subseteq {"key", "alive", "issuer", "issuer key", "issuer alive", "account", "grant"}
         /\ req[a] = Idle \/ req[a].op \notin {"create", "renew"} => Grounds(a) = {}
         /\ a # Scheduler => Grounds(a) \cap {"account", "grant"} = {}
         /\ req[a].op # "renew" => Grounds(a) \cap {"alive", "issuer alive"} = {}
         /\ SelfSigned(req[a].cert) => Grounds(a) \cap {"issuer", "issuer key", "issuer alive"} = {}
BY DEF Grounds

\* What is noted of a request.
LEMMA Noting ==
  ASSUME Noted, NEW a \in Actors
  PROVE  /\ Grounds(a)' \cap seen[a] \subseteq seen'[a]
         /\ \A c : c = req'[a].cert => Grounds(a)' \cap Holding(c)' \subseteq seen'[a]
<1>1. seen'[a] = IF Grounds(a)' = {} THEN {}
                 ELSE Grounds(a)' \cap (seen[a] \cup Holding(req[a].cert)')
      BY DEF Noted
<1>2. Grounds(a)' \cap (seen[a] \cup Holding(req[a].cert)') \subseteq seen'[a]
      BY <1>1
<1>3. QED
      BY <1>2

\* A request that is over rests on nothing.
LEMMA NothingChecked ==
  ASSUME NEW a \in Actors, req'[a] = Idle \/ req'[a].op \notin {"create", "renew"}
  PROVE  Checked(a)'
<1>1. Grounds(a)' = {}
      BY DEF Grounds
<1>2. QED
      BY <1>1 DEF Checked

\* A request that goes on has looked at what its next stage asks for.
LEMMA GoesOnChecked ==
  ASSUME Noted, NEW a \in Actors, Checked(a), NEW c, c = req[a].cert,
         req'[a].op = req[a].op, req'[a].cert = req[a].cert, req[a] # Idle, 
         Grounds(a) \cap Asked(req'[a].at) \subseteq Asked(req[a].at) \cup Holding(c)'
  PROVE  Checked(a)'
<1>1. CASE req'[a] = Idle
      BY <1>1, NothingChecked
<1>2. CASE req'[a] # Idle
  <2>1. Grounds(a)' = Grounds(a)
        BY <1>2 DEF Grounds
  <2>2. /\ Grounds(a)' \cap seen[a] \subseteq seen'[a]
        /\ Grounds(a)' \cap Holding(c)' \subseteq seen'[a]
        BY Noting
  <2>3. QED
        BY <2>1, <2>2 DEF Checked
<1>3. QED
      BY <1>1, <1>2

\* And the others rest on what they rested on.
LEMMA OthersChecked ==
  ASSUME Noted, NEW a \in Actors, Checked(a), req'[a] = req[a]
  PROVE  Checked(a)'
<1>1. Grounds(a)' = Grounds(a)
      BY DEF Grounds
<1>2. Grounds(a)' \cap seen[a] \subseteq seen'[a]
      BY Noting
<1>3. QED
      BY <1>1, <1>2 DEF Checked

\* What each stage asks for beyond the one before.
LEMMA AskedMore ==
  /\ Asked("owner") = {} /\ Asked("grant") = {"account"} /\ Asked("read") = {"account", "grant"}
  /\ Asked("protect") = {"account", "grant"}
  /\ Asked("key") = {"account", "grant", "alive"}
  /\ Asked("issuer") = {"account", "grant", "alive", "key"}
  /\ Asked("issuerkey") = {"account", "grant", "alive", "key", "issuer", "issuer alive"}
  /\ Asked("store") = {"account", "grant", "alive", "key", "issuer", "issuer alive", "issuer key"}
BY DEF Asked

LEMMA StepChecked ==
  ASSUME Data, NEW a \in Actors, Step(a), Noted, Checked(a)
  PROVE  Checked(a)'
<1>1. Typed /\ Running(a) /\ Served(a)
      BY StepServed DEF Data
<1>2. CASE Finish(a)
      BY <1>1, <1>2, Ends, NothingChecked
<1>3. CASE Looking(a) /\ ~Finish(a)
  <2>1. UNCHANGED <<now, cert, key, rights>> /\ req[a].at \in {"read", "key", "issuer", "status"}
        BY <1>3 DEF Looking, Read, ReadKey, ReadIssuer, ReadVersion, tables, stored
  <2>2. req[a] # Idle /\ req[a].cert \in Certs /\ req'[a].op = req[a].op /\ req'[a].cert = req[a].cert
        BY <1>3, <2>1, UnderWay, ReadServed, ReadKeyServed, ReadIssuerServed, ReadVersionServed DEF Looking
  <2>3. PICK c \in Certs : c = req[a].cert
        BY <2>2
  <2>4. Holding(c)' = Holding(c)
        BY <2>1 DEF Holding, Active, Accessible
  <2>5. CASE Read(a)
    <3>1. CASE req[a].op = "renew"
      <4>1. /\ Active(c) /\ Accessible(cert[c].now) /\ req'[a].at = "key" /\ req[a].at = "read"
            BY <1>3, <2>3, <2>5, <3>1, ReadServed DEF Read
      <4>2. "alive" \in Holding(c)
            BY <4>1, Holds
      <4>3. Asked(req'[a].at) \subseteq Asked(req[a].at) \cup Holding(c)'
            BY <2>4, <4>1, <4>2, AskedMore
      <4>4. QED
            BY <2>2, <2>3, <4>3, GoesOnChecked
    <3>2. CASE req[a].op # "renew"
      <4>1. req[a].op # "create"
        <5>1. req[a].at \in StagesOf(req[a].op) /\ req[a].at = "read" /\ req[a].op \in Ops
              BY <2>5, UnderWay DEF Read
        <5>2. QED
              BY <5>1, OpsAt
      <4>2. QED
            BY <2>2, <3>2, <4>1, NothingChecked
    <3>3. QED
          BY <3>1, <3>2
  <2>6. CASE ReadKey(a)
    <3>1. /\ key[c].usable /\ req[a].at = "key"
          /\ req'[a].at = IF SelfSigned(c) THEN "store" ELSE "issuer"
          BY <1>3, <2>3, <2>6, ReadKeyServed DEF ReadKey
    <3>2. "key" \in Holding(c)
          BY <3>1, Holds
    <3>3. SelfSigned(c) => Grounds(a) \cap {"issuer", "issuer key", "issuer alive"} = {}
          BY <2>3, GroundsAre
    <3>4. Grounds(a) \cap Asked(req'[a].at) \subseteq Asked(req[a].at) \cup Holding(c)'
          BY <2>4, <3>1, <3>2, <3>3, AskedMore
    <3>5. QED
          BY <2>2, <2>3, <3>4, GoesOnChecked
  <2>7. CASE ReadIssuer(a)
    <3>1. /\ req'[a].at = "issuerkey" /\ req[a].at = "issuer"
          /\ Active(Issuer[c]) /\ cert[Issuer[c]].now.body.authority = "ca"
          /\ req[a].op = "renew" => Accessible(cert[Issuer[c]].now)
          BY <1>3, <2>3, <2>7, ReadIssuerServed DEF ReadIssuer
    <3>2. "issuer" \in Holding(c) /\ (req[a].op = "renew" => "issuer alive" \in Holding(c))
          BY <3>1, Holds
    <3>3. req[a].op # "renew" => "issuer alive" \notin Grounds(a)
          BY GroundsAre
    <3>4. Grounds(a) \cap Asked(req'[a].at) \subseteq Asked(req[a].at) \cup Holding(c)'
          BY <2>4, <3>1, <3>2, <3>3, AskedMore
    <3>5. QED
          BY <2>2, <2>3, <3>4, GoesOnChecked
  <2>8. CASE ReadVersion(a)
    <3>1. req[a].op \in {"version", "export"}
      <4>1. req[a].at \in StagesOf(req[a].op) /\ req[a].at = "status" /\ req[a].op \in Ops
            BY <2>8, UnderWay DEF ReadVersion
      <4>2. QED
            BY <4>1, OpsAt
    <3>2. QED
          BY <2>2, <3>1, NothingChecked
  <2>9. QED
        BY <1>3, <2>5, <2>6, <2>7, <2>8 DEF Looking
<1>4. CASE Plain(a) /\ ~Finish(a)
  <2>1. req[a] # Idle /\ req[a].cert \in Certs
        BY <1>4, PlainServed, UnderWay
  <2>2. PICK c \in Certs : c = req[a].cert
        BY <2>1
  <2>3. ASSUME NEW stage \in Stages, Goto(a, stage)
        PROVE  req'[a].at = stage /\ req'[a].op = req[a].op /\ req'[a].cert = req[a].cert
        BY <1>1, <2>3, Moves
  <2>4. CASE ReadIssuerKey(a) /\ CAKeyUsable(Issuer[req[a].cert]) /\ Goto(a, "store")
    <3>1. /\ UNCHANGED <<now, cert, key, rights>> /\ req[a].at = "issuerkey" /\ key[Issuer[c]].usable
          BY <2>2, <2>4 DEF ReadIssuerKey, CAKeyUsable, tables, stored
    <3>2. Holding(c)' = Holding(c) /\ "issuer key" \in Holding(c)
          BY <3>1, Holds DEF Holding, Active, Accessible
    <3>3. req'[a].at = "store" /\ req'[a].op = req[a].op /\ req'[a].cert = req[a].cert
          BY <2>3, <2>4 DEF Stages
    <3>4. Asked(req'[a].at) \subseteq Asked(req[a].at) \cup Holding(c)'
          BY <3>1, <3>2, <3>3, AskedMore
    <3>5. QED
          BY <2>1, <2>2, <3>3, <3>4, GoesOnChecked
  <2>5. CASE req[a].op \in {"create", "update"} /\ Goto(a, "protect")
    <3>1. req'[a].at = "protect" /\ req'[a].op = req[a].op /\ req'[a].cert = req[a].cert
          BY <2>3, <2>5 DEF Stages
    <3>2. a # Scheduler
          BY <1>1, <2>5 DEF Running
    <3>3. Grounds(a) \cap Asked(req'[a].at) = {}
          BY <3>1, <3>2, GroundsAre, AskedMore
    <3>4. QED
          BY <2>1, <2>2, <3>1, <3>3, GoesOnChecked
  <2>6. CASE req[a].op = "purge" /\ Goto(a, "erase")
    <3>1. req'[a].op = "purge"
          BY <2>3, <2>6 DEF Stages
    <3>2. QED
          BY <3>1, NothingChecked
  <2>7. CASE a = Scheduler /\ req[a].at = "owner" /\ "account" \in rights /\ Goto(a, "grant")
    <3>1. req'[a].at = "grant" /\ req'[a].op = req[a].op /\ req'[a].cert = req[a].cert
          BY <2>3, <2>7 DEF Stages
    <3>2. rights' = rights
      <4>1. OwnerActive
            BY <1>4, <2>7 DEF Plain, ReadIssuerKey, Create, Renew, Update, Protect, UpdateCurrent, UpdateVersion,
               Delete, Recover, SetPhase, Vet, Erase, Release, OwnerMaySign
      <4>2. QED
            BY <4>1 DEF OwnerActive, tables, stored
    <3>3. rights' \subseteq Holding(c)'
          BY DEF Holding
    <3>4. Asked(req'[a].at) \subseteq Asked(req[a].at) \cup Holding(c)'
          BY <2>7, <3>1, <3>2, <3>3, AskedMore
    <3>5. QED
          BY <2>1, <2>2, <3>1, <3>4, GoesOnChecked
  <2>8. CASE a = Scheduler /\ req[a].at = "grant" /\ "grant" \in rights /\ Goto(a, "read")
    <3>1. req'[a].at = "read" /\ req'[a].op = req[a].op /\ req'[a].cert = req[a].cert
          BY <2>3, <2>8 DEF Stages
    <3>2. rights' = rights
      <4>1. OwnerMaySign
            BY <1>4, <2>8 DEF Plain, ReadIssuerKey, Create, Renew, Update, Protect, UpdateCurrent, UpdateVersion,
               Delete, Recover, SetPhase, Vet, Erase, Release, OwnerActive
      <4>2. QED
            BY <4>1 DEF OwnerMaySign, tables, stored
    <3>3. rights' \subseteq Holding(c)'
          BY DEF Holding
    <3>4. Asked(req'[a].at) \subseteq Asked(req[a].at) \cup Holding(c)'
          BY <2>8, <3>1, <3>2, <3>3, AskedMore
    <3>5. QED
          BY <2>1, <2>2, <3>1, <3>4, GoesOnChecked
  <2>9. QED
        BY <1>4, <2>4, <2>5, <2>6, <2>7, <2>8, PlainServed
<1>5. CASE a \in Clients /\ Request(a)
  <2>1. PICK op \in Ops, c \in Certs, v \in Nat, give \in Gifts : Begin(a, op, c, v, give)
        BY <1>1, <1>5, Requested
  <2>2. First(op) \in Stages /\ Validity \in Nat
        BY OpsAt, StagesAt, CertificatesAssumption
  <2>3. PICK stage \in Stages, days \in Nat :
          /\ req' = [req EXCEPT ![a] = [Idle EXCEPT !.op = op, !.at = stage, !.cert = c, !.days = days,
                                                    !.version = v, !.give = give]]
          /\ stage = First(op)
        BY <2>1, <2>2 DEF Begin
  <2>4. Typed
        BY <1>1
  <2>5. /\ req' \in [Actors -> Requests] /\ \A b \in Actors : b # a => req'[b] = req[b]
        /\ req'[a].op = op /\ req'[a].at = stage /\ req'[a].cert = c /\ req'[a].copy = NoCert
    <3>1. req' = [req EXCEPT ![a] = [Idle EXCEPT !.op = op, !.at = stage, !.cert = c, !.days = days,
                                                 !.version = v, !.give = give]]
          BY <2>3
    <3>2. QED
          BY <2>4, <3>1, Begun
  <2>6. a # Scheduler
        BY <1>5, CertificatesAssumption
  <2>7. CASE op = "create"
    <3>1. stage = "key"
          BY <2>3, <2>7 DEF First
    <3>2. (Grounds(a) \cap {"account", "grant", "alive"})' = {}
          BY <2>5, <2>6, <2>7 DEF Grounds
    <3>3. Asked(stage) = {"account", "grant", "alive"}
          BY <3>1, AskedMore
    <3>4. QED
          BY <2>5, <3>2, <3>3 DEF Checked
  <2>8. CASE op = "renew"
    <3>1. stage = "read"
          BY <2>3, <2>8 DEF First
    <3>2. (Grounds(a) \cap {"account", "grant"})' = {}
          BY <2>6 DEF Grounds
    <3>3. Asked(stage) = {"account", "grant"}
          BY <3>1, AskedMore
    <3>4. QED
          BY <2>5, <3>2, <3>3 DEF Checked
  <2>9. QED
        BY <2>5, <2>7, <2>8, NothingChecked
<1>6. CASE a = Scheduler /\ Take
  <2>1. req'[a].at = "owner"
        BY <1>6, TakeServed
  <2>2. QED
        BY <2>1, AskedMore DEF Checked
<1>7. QED
      BY <1>2, <1>3, <1>4, <1>5, <1>6 DEF Step, Starting, Fail

-----------------------------------------------------------------------------
(* The invariant.                                                          *)

LEMMA Inductive ==
  ASSUME IInv, [Next]_vars
  PROVE  IInv'
<1>0. Data /\ Exported /\ \A a \in Actors : Checked(a)
      BY DEF IInv
<1>1. CASE UNCHANGED vars
  <2>1. UNCHANGED <<now, cert, archived, key, rights, req, plan, made, exports, seen>>
        BY <1>1 DEF vars
  <2>2. Typed' /\ Fresh' /\ Exported'
        BY <1>0, <2>1 DEF Data, Typed, Fresh, Creating, Exported, RowsTyped
  <2>3. \A a \in Actors : Running(a)' /\ Copied(a)'
        BY <1>0, <2>1 DEF Data, Running, Copied
  <2>4. \A c \in Certs : Kept(c)'
        BY <1>0, <2>1 DEF Data, Kept, KeptAs
  <2>5. \A a \in Actors : Checked(a)'
        BY <1>0, <2>1 DEF Checked, Grounds
  <2>6. QED
        BY <2>2, <2>3, <2>4, <2>5 DEF IInv, Data
<1>2. CASE Next
  <2>1. Noted /\ ((\E a \in Actors : Step(a)) \/ Otherwise)
        BY <1>2, NextSteps DEF Otherwise
  <2>2. ASSUME NEW a \in Actors, Step(a) PROVE IInv'
    <3>1. Data' /\ Exported' /\ Served(a)
          BY <1>0, <2>2, StepData, StepExports
    <3>2. ASSUME NEW b \in Actors PROVE Checked(b)'
      <4>1. CASE b = a
            BY <1>0, <2>1, <2>2, <4>1, StepChecked
      <4>2. CASE b # a
            BY <1>0, <2>1, <3>1, <4>2, OthersChecked DEF Served
      <4>3. QED
            BY <4>1, <4>2
    <3>3. QED
          BY <3>1, <3>2 DEF IInv
  <2>3. CASE Otherwise
    <3>1. /\ Data' /\ Growing /\ exports' = exports
          /\ UNCHANGED req \/ \A a \in Actors : req'[a] = Idle
          BY <1>0, <2>3, OtherData
    <3>2. ASSUME NEW b \in Actors PROVE Checked(b)'
          BY <1>0, <2>1, <3>1, OthersChecked, NothingChecked
    <3>3. QED
          BY <1>0, <3>1, <3>2, ExportsStay DEF IInv
  <2>4. QED
        BY <2>1, <2>2, <2>3
<1>3. QED
      BY <1>1, <1>2

\* A certificate that there was from the start.
LEMMA FirstVersion ==
  ASSUME now = 0, NEW c \in Certs, NEW s \in Authorities, NEW auto \in BOOLEAN, NEW body,
         body = [key |-> <<c, 0>>, by |-> <<Issuer[c], 0>>, serial |-> 0, authority |-> s],
         NEW row,
         row = [NoCert EXCEPT !.phase = "active", !.auto = auto,
                              !.now = Issued(body, <<c, 0>>, Validity)]
  PROVE  /\ row \in Certificate /\ <<body>> \in Seq(Bodies) /\ KeptAs(row, <<>>, <<body>>)
<1>1. Issuer[c] \in Certs /\ Validity \in Nat /\ MaxVersion \in Nat /\ MaxVersion # 0
      BY CertificatesAssumption
<1>2. <<c, 0>> \in Materials /\ <<Issuer[c], 0>> \in Materials
      BY <1>1 DEF Materials
<1> DEFINE k == <<c, 0>>
           nothing == NoCert
<1>3. body \in Bodies /\ body.key = k
      BY <1>2 DEF Bodies
<1> HIDE DEF k
<1> DEFINE contents == [body |-> body, secret |-> k, enabled |-> TRUE,
                        from |-> 0, expires |-> Validity]
<1>4. contents \in Contents /\ contents.body = body /\ contents.secret = k
      BY <1>1, <1>2, <1>3 DEF Contents, k
<1>5. Issued(body, <<c, 0>>, Validity) = contents
  <2>1. Issued(body, k, Validity) = [body |-> body, secret |-> k, enabled |-> TRUE,
                                      from |-> now, expires |-> now + Validity]
        BY Zenon DEF Issued
  <2>2. now + Validity = Validity /\ now = 0
        BY <1>1
  <2>3. QED
        BY <2>1, <2>2, Zenon DEF k, contents
<1> HIDE DEF contents
<1>6. row = [nothing EXCEPT !.phase = "active", !.auto = auto, !.now = contents]
      BY <1>5
<1>7. nothing \in Certificate /\ nothing.version = 1
      BY NothingTyped
<1> HIDE DEF nothing
<1>8. row \in Certificate /\ row.phase = "active" /\ row.version = 1 /\ row.now = contents
      BY <1>4, <1>6, <1>7 DEF Certificate
<1>9. <<body>> \in Seq(Bodies) /\ Len(<<body>>) = 1 /\ <<body>>[1] = body
      BY <1>3
<1>10. DOMAIN <<>> = 1 .. 0 /\ 1 .. 0 = {} /\ contents # None
       BY <1>4, NoneAssumption
<1>11. KeptAs(row, <<>>, <<body>>)
       BY <1>1, <1>3, <1>4, <1>8, <1>9, <1>10 DEF KeptAs
<1>12. QED
       BY <1>8, <1>9, <1>11

LEMMA Start == Init => IInv
<1> SUFFICES ASSUME Init PROVE IInv
    OBVIOUS
<1>1. /\ now = 0 /\ key = [c \in Certs |-> [usable |-> TRUE, value |-> <<c, 0>>]]
      /\ archived = [c \in Certs |-> <<>>] /\ rights = {"account", "grant"}
      /\ req = [a \in Actors |-> Idle] /\ plan = [c \in {} |-> NoCert]
      /\ exports = {} /\ seen = [a \in Actors |-> {}]
      BY Zenon DEF Init
<1> DEFINE body(c, s) == [key |-> <<c, 0>>, by |-> <<Issuer[c], 0>>, serial |-> 0,
                          authority |-> IF SelfSigned(c) THEN s ELSE "leaf"]
<1>2. PICK old \in SUBSET Certs, s \in {"ca", "legacy"} :
        /\ cert = [c \in Certs |-> IF c \notin old THEN NoCert
                     ELSE [NoCert EXCEPT !.phase = "active", !.auto = c \in AutoRenewed,
                                         !.now = Issued(body(c, s), <<c, 0>>, Validity)]]
        /\ made = [c \in Certs |-> IF c \in old THEN <<body(c, s)>> ELSE <<>>]
  <2>1. {{}, {c \in Certs : SelfSigned(c)}, Certs} \subseteq SUBSET Certs
        OBVIOUS
  <2>2. QED
        BY <2>1 DEF Init
<1>3. ASSUME NEW c \in Certs
      PROVE  cert[c] \in Certificate /\ made[c] \in Seq(Bodies) /\ KeptAs(cert[c], <<>>, made[c])
  <2>1. CASE c \notin old
    <3>1. cert[c] = NoCert /\ made[c] = <<>>
          BY <1>2, <2>1
    <3>2. QED
          BY <3>1, NothingTyped DEF KeptAs
  <2>2. CASE c \in old
    <3>1. PICK t \in Authorities : t = IF SelfSigned(c) THEN s ELSE "leaf"
          BY DEF Authorities
    <3> DEFINE b == [key |-> <<c, 0>>, by |-> <<Issuer[c], 0>>, serial |-> 0, authority |-> t]
    <3>2. body(c, s) = b
          BY <3>1
    <3> DEFINE auto == c \in AutoRenewed
    <3>3. auto \in BOOLEAN
          OBVIOUS
    <3>4. /\ cert[c] = [NoCert EXCEPT !.phase = "active", !.auto = auto,
                                      !.now = Issued(b, <<c, 0>>, Validity)]
          /\ made[c] = <<b>>
          BY <1>2, <2>2, <3>2
    <3> HIDE DEF auto
    <3>5. /\ cert[c] \in Certificate /\ <<b>> \in Seq(Bodies) /\ KeptAs(cert[c], <<>>, <<b>>)
          BY <1>1, <3>3, <3>4, FirstVersion
    <3>6. QED
          BY <3>4, <3>5
  <2>3. QED
        BY <2>1, <2>2
<1>4. cert \in [Certs -> Certificate] /\ made \in [Certs -> Seq(Bodies)]
      BY <1>2, <1>3
<1>5. /\ \A c \in Certs : RowsTyped(archived[c]) /\ Kept(c)
      /\ DOMAIN archived = Certs
      BY <1>1, <1>3 DEF Kept, RowsTyped
<1>6. /\ now \in 0 .. MaxTime /\ key \in [Certs -> [usable : BOOLEAN, value : Materials]]
      BY <1>1, CertificatesAssumption DEF Materials
<1>7. req \in [Actors -> Requests] /\ Idle.at = "idle" /\ Idle.op = "renew" /\ Idle.copy.now = None
      BY <1>1, NothingTyped
<1>8. Typed
      BY <1>1, <1>4, <1>5, <1>6, <1>7 DEF Typed
<1>9. Fresh /\ Exported
      BY <1>1, <1>7 DEF Fresh, Creating, Exported
<1>10. ASSUME NEW a \in Actors PROVE Running(a) /\ Copied(a) /\ Checked(a)
  <2>1. req[a] = Idle
        BY <1>1
  <2>2. Running(a) /\ Copied(a)
        BY <1>7, <2>1 DEF Running, Copied
  <2>3. Grounds(a) = {}
        BY <2>1, GroundsAre
  <2>4. QED
        BY <2>2, <2>3 DEF Checked
<1>11. QED
       BY <1>5, <1>8, <1>9, <1>10 DEF IInv, Data

-----------------------------------------------------------------------------
(* The history of versions.                                                *)

\* A version by its body.
Known(body) == [body |-> body, secret |-> body.key]

\* What can be read is what was issued, until a purge.
LEMMA ReadableIs ==
  ASSUME Tables, NEW c \in Certs
  PROVE  /\ cert[c].phase = "purged" => Readable(c) = <<>>
         /\ cert[c].phase # "purged" => Readable(c) = [n \in DOMAIN made[c] |-> Known(made[c][n])]
<1>1. cert[c] \in Certificate /\ made[c] \in Seq(Bodies) /\ Kept(c)
      BY DEF Tables
<1>2. CASE cert[c].phase \in {"none", "purged"}
  <2>1. archived[c] = <<>> /\ (cert[c].phase = "none" => made[c] = <<>>)
        BY <1>1, <1>2 DEF Kept, KeptAs
  <2>2. Readable(c) = <<>>
        BY <1>2, <2>1 DEF Readable
  <2>3. QED
        BY <1>2, <2>1, <2>2
<1>3. CASE cert[c].phase \in {"active", "deleted"}
  <2> DEFINE v == cert[c].version
             row == cert[c].now
             table == archived[c]
             bodies == made[c]
  <2>1. /\ v = Len(bodies) /\ v \in Nat \ {0} /\ row.body = bodies[v] /\ row.secret = row.body.key
        /\ DOMAIN table = 1 .. v - 1
        /\ \A n \in 1 .. v - 1 : table[n].body = bodies[n] /\ table[n].secret = table[n].body.key
        BY <1>1, <1>3 DEF Kept, KeptAs, Certificate
  <2>2. Readable(c) = [n \in DOMAIN table \cup {v} |->
                         IF n \in {v} THEN [body |-> row.body, secret |-> row.secret]
                                      ELSE [body |-> table[n].body, secret |-> table[n].secret]]
        BY <1>3, Zenon DEF Readable
  <2>3. bodies \in Seq(Bodies)
        BY <1>1
  <2> HIDE DEF v, row, table, bodies
  <2>4. DOMAIN table \cup {v} = 1 .. v /\ DOMAIN bodies = 1 .. v
        BY <2>1, <2>3
  <2>5. Readable(c) = [n \in DOMAIN bodies |-> Known(bodies[n])]
        BY <2>1, <2>2, <2>4 DEF Known
  <2>6. QED
        BY <1>3, <2>5 DEF bodies
<1>4. QED
      BY <1>1, <1>2, <1>3 DEF Certificate

\* What a step makes of the history.
Same(c) == made'[c] = made[c] /\ (cert'[c].phase = "purged" <=> cert[c].phase = "purged")

Issues(c) == /\ cert[c].phase # "purged" /\ cert'[c].phase # "purged"
             /\ \E body \in Bodies : made'[c] = Append(made[c], body)

Purges(c) == /\ cert[c].phase \in {"active", "deleted"} /\ cert'[c].phase = "purged"
             /\ made'[c] = made[c]

OneMoves == \E c \in Certs : (Issues(c) \/ Purges(c)) /\ \A d \in Certs : d # c => Same(d)

LEMMA CreateMoves ==
  ASSUME Data, NEW a \in Actors, Create(a)
  PROVE  OneMoves
<1>0. req[a].at = "store" /\ req[a].op = "create"
      BY DEF Create
<1>1. Typed /\ Tables /\ req[a].cert \in Certs /\ Apart(req[a].cert)
      /\ cert'[req[a].cert].phase = "active" /\ Creating(a)
      BY <1>0, UnderWay, DataTables, CreateKeeps
<1>2. PICK c \in Certs : c = req[a].cert
      BY <1>1
<1>3. cert[c].phase = "none" /\ made[c] = <<>>
      BY <1>1, <1>2 DEF Data, Fresh, Tables, Kept, KeptAs
<1>4. PICK body \in Bodies : made' = [made EXCEPT ![c] = <<body>>]
      BY <1>0, <1>2, SignedTyped DEF Create
<1>5. Issues(c)
  <2>1. made'[c] = <<body>>
        BY <1>1, <1>4 DEF Tables
  <2>2. QED
        BY <1>1, <1>2, <1>3, <2>1 DEF Issues
<1>6. \A d \in Certs : d # c => Same(d)
      BY <1>1, <1>2, <1>4 DEF Same, Apart, Tables
<1>7. QED
      BY <1>5, <1>6 DEF OneMoves

LEMMA RenewMoves ==
  ASSUME Data, NEW a \in Actors, Renew(a)
  PROVE  OneMoves \/ \A d \in Certs : Same(d)
<1>0. req[a].at = "store"
      BY DEF Renew
<1>1. /\ Typed /\ Tables /\ req[a].cert \in Certs
      /\ \A d \in Certs : cert'[d].phase = cert[d].phase
      BY <1>0, UnderWay, DataTables, RenewKeeps
<1>2. PICK c \in Certs : c = req[a].cert
      BY <1>1
<1>3. CASE made' = made
      BY <1>1, <1>3 DEF Same
<1>4. CASE made' # made
  <2>1. PICK body \in Bodies : made' = [made EXCEPT ![c] = Append(@, body)] /\ Active(c)
        BY <1>0, <1>2, <1>4, SignedTyped DEF Renew, Follows
  <2>2. made'[c] = Append(made[c], body) /\ \A d \in Certs : d # c => made'[d] = made[d]
        BY <1>1, <2>1 DEF Tables
  <2>3. Issues(c) /\ \A d \in Certs : d # c => Same(d)
        BY <1>1, <2>1, <2>2 DEF Issues, Same, Active
  <2>4. QED
        BY <2>3 DEF OneMoves
<1>5. QED
      BY <1>3, <1>4

LEMMA RowChangeMoves ==
  ASSUME Data, NEW a \in Actors, RowChange(a)
  PROVE  \A d \in Certs : Same(d)
<1>1. /\ Tables /\ Tables' /\ Apart(req[a].cert) /\ UNCHANGED made
      BY DataTables, RowChangeKeeps
<1>2. PICK c : c = req[a].cert
      OBVIOUS
<1>3. ASSUME c \in Certs, cert'[c] # cert[c]
      PROVE  cert[c].phase \in {"active", "deleted"} /\ cert'[c].phase # "purged"
  <2>1. cert[c].phase \in {"active", "deleted"}
        BY <1>2, <1>3 DEF RowChange, Update, Protect, UpdateCurrent, Delete, Recover, SetPhase, Follows, Active
  <2>2. cert[c].now \in Contents /\ cert[c] \in Certificate /\ cert \in [Certs -> Certificate]
        BY <1>1, <1>3, <2>1, Existing DEF Tables
  <2>3. CASE Update(a) \/ Protect(a) \/ UpdateCurrent(a)
    <3>1. cert'[c].phase = cert[c].phase
          BY <1>2, <1>3, <2>2, <2>3 DEF Update, Protect, UpdateCurrent, Certificate
    <3>2. QED
          BY <2>1, <3>1
  <2>4. CASE Delete(a) \/ Recover(a)
        BY <1>2, <1>3, <2>1, <2>2, <2>4 DEF Delete, Recover, SetPhase, Certificate
  <2>5. QED
        BY <2>1, <2>3, <2>4 DEF RowChange
<1>4. QED
      BY <1>1, <1>2, <1>3 DEF Same, Apart

LEMMA EraseMoves ==
  ASSUME Data, NEW a \in Actors, Erase(a)
  PROVE  OneMoves \/ \A d \in Certs : Same(d)
<1>0. req[a].at = "erase" /\ made' = made
      BY DEF Erase
<1>1. Typed /\ Tables /\ req[a].cert \in Certs /\ Apart(req[a].cert)
      BY <1>0, UnderWay, DataTables, EraseKeeps
<1>2. PICK c \in Certs : c = req[a].cert
      BY <1>1
<1>3. CASE cert' = cert
      BY <1>0, <1>3 DEF Same
<1>4. CASE cert' # cert
  <2>1. /\ cert[c].phase \in {"active", "deleted"}
        /\ cert' = [cert EXCEPT ![c] = [NoCert EXCEPT !.phase = "purged"]]
        BY <1>2, <1>4 DEF Erase
  <2>2. cert'[c].phase = "purged"
        BY <1>1, <2>1 DEF Tables, NoCert
  <2>3. Purges(c) /\ \A d \in Certs : d # c => Same(d)
        BY <1>0, <1>1, <1>2, <2>1, <2>2 DEF Purges, Same, Apart
  <2>4. QED
        BY <2>3 DEF OneMoves
<1>5. QED
      BY <1>3, <1>4

LEMMA NextMoves ==
  ASSUME Data, [Next]_vars
  PROVE  OneMoves \/ \A d \in Certs : Same(d)
<1>1. CASE UNCHANGED <<cert, made>>
      BY <1>1 DEF Same
<1>2. CASE UNCHANGED vars
      BY <1>1, <1>2 DEF vars
<1>3. CASE Next
  <2>1. (\E a \in Actors : Step(a)) \/ Otherwise
        BY <1>3, NextSteps DEF Otherwise
  <2>2. CASE Otherwise
    <3>1. UNCHANGED <<cert, made>>
          BY <2>2 DEF Otherwise, List, Restart, Tick, Change, tables, stored
    <3>2. QED
          BY <1>1, <3>1
  <2>3. ASSUME NEW a \in Actors, Step(a)
        PROVE  OneMoves \/ \A d \in Certs : Same(d)
    <3>1. Storing(a) \/ UNCHANGED <<cert, made>>
          BY <2>3, StepStores
    <3>2. CASE UpdateVersion(a)
      <4>1. UNCHANGED <<cert, made>>
            BY <3>2 DEF UpdateVersion
      <4>2. QED
            BY <1>1, <4>1
    <3>3. QED
          BY <1>1, <3>1, <3>2, CreateMoves, RenewMoves, RowChangeMoves, EraseMoves DEF Storing
  <2>4. QED
        BY <2>1, <2>2, <2>3
<1>4. QED
      BY <1>2, <1>3

\* What can be read before and after a step.
Shown == \A c \in Certs :
  /\ Readable(c) \in Seq([body : Bodies, secret : Materials])
  /\ cert[c].phase = "purged" => Readable(c) = <<>>
  /\ cert[c].phase # "purged" => Readable(c) = [n \in DOMAIN made[c] |-> Known(made[c][n])]

LEMMA IsSeq ==
  ASSUME NEW n \in Nat, NEW S, NEW f \in [1 .. n -> S]
  PROVE  f \in Seq(S)
OBVIOUS

LEMMA SeqIs ==
  ASSUME NEW S, NEW s \in Seq(S)
  PROVE  s \in [1 .. Len(s) -> S]
OBVIOUS

LEMMA ShownIs == Tables => Shown
<1> SUFFICES ASSUME Tables, NEW c \in Certs
             PROVE  Readable(c) \in Seq([body : Bodies, secret : Materials])
    BY ReadableIs DEF Shown
<1>1. made[c] \in Seq(Bodies)
      BY DEF Tables
<1> DEFINE read == [n \in DOMAIN made[c] |-> Known(made[c][n])]
<1>2. read \in Seq([body : Bodies, secret : Materials])
  <2>1. DOMAIN read = 1 .. Len(made[c]) /\ Len(made[c]) \in Nat
        BY <1>1
  <2>2. ASSUME NEW n \in 1 .. Len(made[c]) PROVE read[n] \in [body : Bodies, secret : Materials]
    <3>1. made[c][n] \in Bodies /\ read[n] = Known(made[c][n])
          BY <1>1, <2>2
    <3>2. QED
          BY <3>1 DEF Known, Bodies
  <2>3. read \in [1 .. Len(made[c]) -> [body : Bodies, secret : Materials]]
        BY <2>1, <2>2
  <2>4. QED
        BY <2>1, <2>3, IsSeq, Zenon
<1>3. Readable(c) = <<>> \/ Readable(c) = read
      BY ReadableIs, Zenon
<1>4. CASE Readable(c) = <<>>
      BY <1>4
<1>5. QED
      BY <1>2, <1>3, <1>4, Zenon

\* The history that a certificate's rows keep.
Histories == [c \in Certs |-> Readable(c)]
Gone == {c \in Certs : cert[c].phase = "purged"}

\* A version more.
LEMMA OneMore ==
  ASSUME NEW old \in Seq(Bodies), NEW body \in Bodies, NEW t, NEW u,
         u = [n \in DOMAIN old |-> Known(old[n])],
         t = [n \in DOMAIN Append(old, body) |-> Known(Append(old, body)[n])],
         u \in Seq([body : Bodies, secret : Materials])
  PROVE  History!Extends(t, u)
<1> DEFINE more == Append(old, body)
<1>1. /\ more \in Seq(Bodies) /\ Len(more) = Len(old) + 1 /\ Len(old) \in Nat
      /\ \A n \in 1 .. Len(old) : more[n] = old[n]
      /\ more[Len(old) + 1] = body
      OBVIOUS
<1>2. DOMAIN more = 1 .. Len(old) + 1 /\ DOMAIN old = 1 .. Len(old)
      BY <1>1
<1>3. Len(u) = Len(old) /\ \A n \in 1 .. Len(old) : u[n] = Known(old[n])
  <2>1. DOMAIN u = 1 .. Len(u) /\ DOMAIN u = 1 .. Len(old) /\ Len(u) \in Nat
        BY <1>2
  <2>2. QED
        BY <1>1, <1>2, <2>1
<1>4. Known(body) \in [body : Bodies, secret : Materials]
      BY DEF Known, Bodies
<1> HIDE DEF more
<1>5. DOMAIN t = 1 .. Len(old) + 1 /\ \A n \in 1 .. Len(old) + 1 : t[n] = Known(more[n])
      BY <1>2 DEF more
<1>6. QED
      BY <1>1, <1>3, <1>4, <1>5 DEF History!Extends

LEMMA HistoryStep ==
  ASSUME Data, Data', [Next]_vars
  PROVE  [History!HistoryNext]_<<Histories, Gone>>
<1>1. Tables /\ Shown
      BY DataTables, ShownIs
<1>2. Tables' /\ Shown'
      BY DataTables, ShownIs, PTL
<1>3. /\ Histories \in [Certs -> Seq([body : Bodies, secret : Materials])]
      /\ \A c \in Certs : Histories[c] = Readable(c)
      /\ Histories' = [c \in Certs |-> Histories'[c]]
      /\ \A c \in Certs : Histories'[c] = Readable(c)'
      /\ Gone \subseteq Certs /\ Gone' \subseteq Certs
      /\ \A c \in Certs : c \in Gone <=> cert[c].phase = "purged"
      /\ \A c \in Certs : c \in Gone' <=> cert'[c].phase = "purged"
      BY <1>1 DEF Histories, Gone, Shown
<1>4. ASSUME NEW c \in Certs, Same(c)
      PROVE  Histories'[c] = Histories[c] /\ (c \in Gone' <=> c \in Gone)
  <2>1. Readable(c)' = Readable(c)
        BY <1>1, <1>2, <1>4 DEF Same, Shown
  <2>2. QED
        BY <1>3, <1>4, <2>1 DEF Same
<1>5. CASE \A d \in Certs : Same(d)
  <2>1. Histories' = Histories
    <3>1. \A c \in Certs : Histories'[c] = Histories[c]
          BY <1>4, <1>5
    <3>2. Histories' = [c \in Certs |-> Histories'[c]] /\ Histories = [c \in Certs |-> Histories[c]]
          BY <1>3
    <3> HIDE DEF Histories
    <3>3. QED
          BY <3>1, <3>2
  <2>2. Gone' = Gone
        BY <1>3, <1>4, <1>5
  <2>3. QED
        BY <2>1, <2>2
<1>6. ASSUME NEW c \in Certs, Issues(c) \/ Purges(c), \A d \in Certs : d # c => Same(d)
      PROVE  History!HistoryNext
  <2>1. \A d \in Certs : d # c => Histories'[d] = Histories[d] /\ (d \in Gone' <=> d \in Gone)
        BY <1>4, <1>6
  <2>2. Histories' = [Histories EXCEPT ![c] = Histories'[c]]
        BY <1>3, <2>1
  <2>3. CASE Issues(c)
    <3>1. c \notin Gone /\ Gone' = Gone
          BY <1>3, <2>1, <2>3 DEF Issues
    <3>2. PICK body \in Bodies : made'[c] = Append(made[c], body)
          BY <2>3 DEF Issues
    <3>3. /\ made[c] \in Seq(Bodies)
          /\ Readable(c) = [n \in DOMAIN made[c] |-> Known(made[c][n])]
          /\ Readable(c)' = [n \in DOMAIN made'[c] |-> Known(made'[c][n])]
          /\ Readable(c) \in Seq([body : Bodies, secret : Materials])
          BY <1>1, <1>2, <2>3 DEF Issues, Shown, Tables
    <3>4. History!Extends(Readable(c)', Readable(c))
          BY <3>2, <3>3, OneMore
    <3>5. History!Extends(Histories'[c], Histories[c])
          BY <1>3, <3>4
    <3>6. History!Add(c)
          BY <2>2, <3>1, <3>5 DEF History!Add, Histories, Gone
    <3>7. QED
          BY <3>6 DEF History!HistoryNext
  <2>4. CASE Purges(c)
    <3>1. c \notin Gone /\ Gone' = Gone \cup {c}
          BY <1>3, <2>1, <2>4 DEF Purges
    <3>2. Histories'[c] = <<>>
          BY <1>2, <1>3, <2>4 DEF Purges, Shown
    <3>3. Histories[c] # <<>>
      <4>1. cert[c].phase # "purged" /\ Len(made[c]) \in 1 .. MaxVersion /\ made[c] \in Seq(Bodies)
            BY <1>1, <2>4 DEF Purges, Tables, Kept, KeptAs
      <4>2. 1 \in DOMAIN made[c]
            BY <4>1, CertificatesAssumption
      <4>3. 1 \in DOMAIN Readable(c)
            BY <1>1, <4>1, <4>2 DEF Shown
      <4>4. QED
            BY <1>3, <4>3
    <3>4. Histories' = [Histories EXCEPT ![c] = <<>>]
          BY <2>2, <3>2
    <3>5. History!Purge(c)
          BY <3>1, <3>3, <3>4 DEF History!Purge, Histories, Gone
    <3>6. QED
          BY <3>5 DEF History!HistoryNext
  <2>5. QED
        BY <1>6, <2>3, <2>4
<1>7. QED
      BY <1>5, <1>6, NextMoves DEF OneMoves

LEMMA HistoryStarts == Init /\ Data => History!HistoryInit
<1> SUFFICES ASSUME Init, Data PROVE History!HistoryInit
    OBVIOUS
<1>1. Tables /\ Shown
      BY DataTables, ShownIs
<1>2. ASSUME NEW c \in Certs
      PROVE  /\ cert[c].phase # "purged"
             /\ Readable(c) \in {<<>>} \cup [1 .. 1 -> [body : Bodies, secret : Materials]]
  <2>1. /\ cert[c].phase # "purged"
        /\ cert[c].version = 1
    <3>1. PICK old \in SUBSET Certs, s \in {"ca", "legacy"} :
            cert[c] = IF c \notin old THEN NoCert
                      ELSE [NoCert EXCEPT !.phase = "active", !.auto = c \in AutoRenewed,
                              !.now = Issued([key |-> <<c, 0>>, by |-> <<Issuer[c], 0>>, serial |-> 0,
                                              authority |-> IF SelfSigned(c) THEN s ELSE "leaf"],
                                             <<c, 0>>, Validity)]
          BY DEF Init
    <3>2. NoCert.phase = "none" /\ NoCert.version = 1 /\ NoCert \in Certificate
          BY NothingTyped DEF NoCert
    <3> DEFINE nothing == NoCert
    <3>3. QED
          BY <3>1, <3>2 DEF NoCert
  <2>2. Len(made[c]) \in {0, 1} /\ made[c] \in Seq(Bodies)
    <3>1. cert[c] \in Certificate /\ made[c] \in Seq(Bodies) /\ Kept(c)
          BY <1>1 DEF Tables
    <3>2. CASE cert[c].phase = "none"
      <4>1. made[c] = <<>>
            BY <3>1, <3>2 DEF Kept, KeptAs
      <4>2. QED
            BY <3>1, <4>1
    <3>3. CASE cert[c].phase \in {"active", "deleted"}
          BY <2>1, <3>1, <3>3 DEF Kept, KeptAs
    <3>4. QED
          BY <2>1, <3>1, <3>2, <3>3 DEF Certificate
  <2>3. DOMAIN Readable(c) = DOMAIN made[c] /\ Readable(c) \in Seq([body : Bodies, secret : Materials])
        BY <1>1, <2>1 DEF Shown
  <2>4. Len(Readable(c)) \in {0, 1}
        BY <2>2, <2>3
  <2>5. CASE Len(Readable(c)) = 0
    <3>1. Readable(c) = <<>>
          BY <2>3, <2>5
    <3>2. QED
          BY <2>1, <3>1
  <2>6. CASE Len(Readable(c)) = 1
    <3>1. Readable(c) \in [1 .. 1 -> [body : Bodies, secret : Materials]]
          BY <2>3, <2>6, SeqIs
    <3>2. QED
          BY <2>1, <3>1
  <2>7. QED
        BY <2>4, <2>5, <2>6
<1>3. QED
      BY <1>2 DEF History!HistoryInit

-----------------------------------------------------------------------------
(* The theorems.                                                           *)

\* Rows, version rows, requests and plan keep their types; a row has contents
\* exactly as long as it exists.
THEOREM TypeCorrect == Spec => []TypeOK
<1>1. IInv => TypeOK
  <2>1. SUFFICES ASSUME IInv PROVE TypeOK
        OBVIOUS
  <2>2. Typed /\ \A c \in Certs : Kept(c)
        BY <2>1 DEF IInv, Data
  <2>3. \A a \in Actors : req[a].op \in Ops /\ req[a].at \in Stages
        BY <2>2 DEF Typed, Requests
  <2>4. QED
        BY <2>2, <2>3 DEF TypeOK, Typed, RowsTyped, Kept, KeptAs
<1>2. QED
      BY <1>1, Start, Inductive, PTL DEF Spec

\* However renewals of the scheduler and of requests, updates and purges
\* overlap, the row holds the last body that was issued and each earlier number
\* has one row with the body issued under it; a purge leaves no rows.
THEOREM VersionsAlwaysKept == Spec => []VersionsKept
<1>1. IInv => VersionsKept
  <2>1. SUFFICES ASSUME IInv, NEW c \in Certs
                 PROVE  IF cert[c].phase \in {"none", "purged"} THEN archived[c] = <<>>
                        ELSE LET v == cert[c].version
                             IN  /\ v = Len(made[c]) /\ cert[c].now.body = made[c][v]
                                 /\ DOMAIN archived[c] = 1 .. v - 1
                                 /\ \A n \in 1 .. v - 1 : archived[c][n].body = made[c][n]
        BY DEF VersionsKept
  <2>2. Kept(c) /\ cert[c] \in Certificate
        BY <2>1 DEF IInv, Data, Typed
  <2>3. QED
        BY <2>2 DEF Kept, KeptAs, Certificate
<1>2. QED
      BY <1>1, Start, Inductive, PTL DEF Spec

\* An export is a body that was issued under the version it names, with that
\* body's private key and under a body of its CA that holds the key which
\* signed it, although each is read by a statement of its own.
THEOREM ExportsAlwaysTrue == Spec => []ExportsTrue
<1>1. IInv => ExportsTrue
      BY DEF IInv, Exported, ExportsTrue
<1>2. QED
      BY <1>1, Start, Inductive, PTL DEF Spec

\* Nothing is signed on a ground that was false for as long as the request has
\* run, whatever becomes of keys, CAs and the owner's rights in between.
THEOREM SignaturesHaveGrounds == Spec => []SignedWithRights
<1>1. IInv => SignedWithRights
  <2>1. SUFFICES ASSUME IInv, NEW a \in Actors, req[a].at = "store"
                 PROVE  Grounds(a) \subseteq seen[a]
        BY DEF SignedWithRights
  <2>2. Grounds(a) \cap Asked("store") \subseteq seen[a]
        BY <2>1 DEF IInv, Checked
  <2>3. QED
        BY <2>2, GroundsAre, AskedMore
<1>2. QED
      BY <1>1, Start, Inductive, PTL DEF Spec

\* Certificates implement a history of versions: what is known under a version
\* number stays, numbers follow each other, and a purge takes a certificate's
\* versions at once and for good.
THEOREM VersionsHistory == Spec => HistoryKept
<1>1. IInv => Data
      BY DEF IInv
<1>2. Data /\ Data' /\ [Next]_vars => [History!HistoryNext]_<<Histories, Gone>>
      BY HistoryStep
<1>3. QED
      BY <1>1, <1>2, HistoryStarts, Start, Inductive, PTL
      DEF Spec, HistoryKept, History!HistorySpec, History!historyVars, Histories, Gone
=============================================================================
