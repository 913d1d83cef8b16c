----------------------- MODULE SecretVersionsProofs -------------------------
(* Theorems about SecretVersions, for any clients and number of requests.  *)
EXTENDS SecretVersions, TLAPS

USE VersionsAssumption

\* A request that moves to another stage, or ends, is still a request.
LEMMA StageTypes ==
    ASSUME TypeOK, NEW a \in Actors
    PROVE /\ \A stage \in Stages : Goto(a, stage) => req' \in [Actors -> Request]
          /\ Finish(a) => req' \in [Actors -> Request]
<1>1. Idle \in Request
  BY DEF Idle, Request, First, Row, Stages, Wants
<1>2. req \in [Actors -> Request] /\ req[a] \in Request
  BY DEF TypeOK
<1>3. \A stage \in Stages : [req[a] EXCEPT !.at = stage] \in Request
  BY <1>2 DEF Request
<1> QED BY <1>1, <1>2, <1>3 DEF Goto, Finish

\* A request starts with a copy that no statement has filled in.
LEMMA BeginTypes ==
    ASSUME TypeOK, NEW a \in Actors, NEW op \in Ops, NEW want \in Wants, Begin(a, op, want)
    PROVE TypeOK'
<1>1. FirstStage(op) \in Stages
  BY DEF FirstStage, Ops, Stages
<1>2. [Idle EXCEPT !.op = op, !.at = FirstStage(op), !.want = want] \in Request
  <2>1. First \in Row
    BY DEF First, Row
  <2>2. Idle \in Request
    BY <2>1 DEF Idle, Request, Stages, Wants
  <2>3. [Idle EXCEPT !.op = op] \in Request
    BY <2>2 DEF Request
  <2>4. [[Idle EXCEPT !.op = op] EXCEPT !.at = FirstStage(op)] \in Request
    BY <1>1, <2>3 DEF Request
  <2> QED BY <2>4 DEF Request
<1>3. req' \in [Actors -> Request]
  BY <1>2 DEF Begin, TypeOK
<1>4. issued' \in 0 .. MaxRequests
  BY DEF Begin, TypeOK
<1> QED BY <1>3, <1>4 DEF Begin, TypeOK

\* A stage of a request keeps the types.
LEMMA StepTypes == ASSUME TypeOK, NEW a \in Actors, Step(a) PROVE TypeOK'
<1> DEFINE r == req[a]
<1>0. r \in Request /\ r.snap \in Row /\ secret \in Row
  BY DEF TypeOK, Request
<1>1. \A row \in Row : VersionOf(row) \in Version
  BY DEF VersionOf, Row, Version
<1>2. CASE Read(a)
  <2>1. [r EXCEPT !.snap = secret, !.at = "archive"] \in Request
    BY <1>0 DEF Request, Stages
  <2>2. req' \in [Actors -> Request]
    <3>1. CASE secret.deleted
      BY <1>2, <3>1, StageTypes DEF Read
    <3>2. CASE ~secret.deleted
      <4>1. req' = [req EXCEPT ![a] = [r EXCEPT !.snap = secret, !.at = "archive"]]
        BY <1>2, <3>2 DEF Read
      <4> QED BY <2>1, <4>1 DEF TypeOK
    <3> QED BY <3>1, <3>2
  <2> QED BY <1>2, <2>2 DEF Read, TypeOK
<1>3. CASE Archive(a)
  <2>1. versions' \subseteq Version
    BY <1>0, <1>1, <1>3 DEF Archive, TypeOK
  <2>2. req' \in [Actors -> Request]
    BY <1>3, StageTypes DEF Archive, Stages
  <2> QED BY <1>3, <2>1, <2>2 DEF Archive, TypeOK
<1>4. CASE Write(a)
  <2>1. Updated(r) \in Row
    <3>1. r.snap.version + 1 \in Nat \ {0} /\ fresh \in Nat /\ secret.deleted \in BOOLEAN
      BY <1>0 DEF Row, TypeOK
    <3>2. (r.want = "on") \in BOOLEAN /\ r.snap.enabled \in BOOLEAN /\ r.snap.value \in Nat
      BY <1>0 DEF Row
    <3> HIDE DEF r
    <3> QED BY <1>0, <3>1, <3>2 DEF Updated, Row
  <2>2. secret' \in Row /\ held' \subseteq Version /\ fresh' \in Nat
    BY <1>1, <1>4, <2>1 DEF Write, TypeOK
  <2>3. req' \in [Actors -> Request]
    BY <1>4, StageTypes DEF Write, Stages
  <2> QED BY <1>4, <2>2, <2>3 DEF Write, TypeOK
<1>5. CASE WriteExtras(a)
  BY <1>5, StageTypes DEF WriteExtras, TypeOK, Stages
<1>6. CASE Evict(a)
  <2>1. req' \in [Actors -> Request]
    BY <1>6, StageTypes DEF Evict, Stages
  <2> QED BY <1>6, <2>1 DEF Evict, TypeOK
<1>7. CASE Reschedule(a)
  BY <1>7, StageTypes DEF Reschedule, TypeOK
<1>8. CASE SoftDelete(a) \/ Recover(a)
  <2>1. secret' \in Row
    BY <1>0, <1>8 DEF SoftDelete, Recover, Row
  <2>2. req' \in [Actors -> Request]
    BY <1>8, StageTypes DEF SoftDelete, Recover, Stages
  <2> QED BY <1>8, <2>1, <2>2 DEF SoftDelete, Recover, TypeOK
<1>9. CASE Lookup(a)
  <2>1. req' \in [Actors -> Request] /\ cached' \subseteq Row
    BY <1>9, StageTypes DEF Lookup, Stages, TypeOK
  <2> QED BY <1>9, <2>1 DEF Lookup, TypeOK
<1>10. CASE Load(a)
  <2>1. [r EXCEPT !.snap = secret, !.at = "fill"] \in Request
    BY <1>0 DEF Request, Stages
  <2>2. req' \in [Actors -> Request]
    <3>1. CASE ~Accessible(secret)
      BY <1>10, <3>1, StageTypes DEF Load
    <3>2. CASE Accessible(secret)
      <4>1. req' = [req EXCEPT ![a] = [r EXCEPT !.snap = secret, !.at = "fill"]]
        BY <1>10, <3>2 DEF Load
      <4> QED BY <2>1, <4>1 DEF TypeOK
    <3> QED BY <3>1, <3>2
  <2> QED BY <1>10, <2>2 DEF Load, TypeOK
<1>11. CASE Fill(a)
  BY <1>0, <1>11, StageTypes DEF Fill, TypeOK
<1>12. CASE Fail(a)
  BY <1>12, StageTypes DEF Fail, TypeOK
<1> QED BY <1>2, <1>3, <1>4, <1>5, <1>6, <1>7, <1>8, <1>9, <1>10, <1>11, <1>12 DEF Step

\* Every step keeps the types.
LEMMA TypeStep == TypeOK /\ [Next]_vars => TypeOK'
<1> SUFFICES ASSUME TypeOK, [Next]_vars PROVE TypeOK'
  OBVIOUS
<1>1. ASSUME NEW c \in Clients, Issue(c) PROVE TypeOK'
  <2>1. c \in Actors /\ "update" \in Ops /\ "value" \in Wants
    BY DEF Actors, Ops, Wants
  <2> QED BY <1>1, <2>1, BeginTypes DEF Issue
<1>2. CASE AutoRotate
  <2>1. Scheduler \in Actors /\ "rotate" \in Ops /\ "value" \in Wants
    BY DEF Actors, Ops, Wants
  <2> QED BY <1>2, <2>1, BeginTypes DEF AutoRotate
<1>3. ASSUME NEW a \in Actors, Step(a) PROVE TypeOK'
  BY <1>3, StepTypes
<1>4. CASE CacheExpire \/ BecomeDue
  BY <1>4 DEF CacheExpire, BecomeDue, TypeOK
<1>5. CASE Restart
  <2>1. Idle \in Request
    BY DEF Idle, Request, First, Row, Stages, Wants
  <2> QED BY <1>5, <2>1 DEF Restart, TypeOK
<1>6. CASE UNCHANGED vars
  BY <1>6 DEF vars, TypeOK
<1> QED BY <1>1, <1>2, <1>3, <1>4, <1>5, <1>6 DEF Next

\* The row, its versions and the requests keep their types; a version number
\* in particular is never zero.
THEOREM TypeCorrect == Spec => []TypeOK
<1>1. Init => TypeOK
  <2>1. First \in Row /\ VersionOf(First) \in Version
    BY DEF First, Row, VersionOf, Version
  <2>2. Idle \in Request
    BY <2>1 DEF Idle, Request, Stages, Wants
  <2> SUFFICES ASSUME Init PROVE TypeOK
    OBVIOUS
  <2>3. secret \in Row /\ versions \subseteq Version /\ cached \subseteq Row /\ held \subseteq Version
    BY <2>1 DEF Init
  <2>4. req \in [Actors -> Request] /\ issued \in 0 .. MaxRequests
    BY <2>2 DEF Init
  <2>5. due \in BOOLEAN /\ fresh \in Nat /\ mode \in [serial : BOOLEAN, fails : BOOLEAN]
    BY DEF Init
  <2> QED BY <2>3, <2>4, <2>5 DEF TypeOK
<1> QED BY <1>1, TypeStep, PTL DEF Spec
-----------------------------------------------------------------------------
(* What no overlap of requests can break.                                  *)

\* A stage moves its own request, which keeps its operation or ends.
LEMMA StepShape ==
    ASSUME TypeOK, NEW a \in Actors, Step(a)
    PROVE /\ mode' = mode /\ req[a].at # "idle"
          /\ \A b \in Actors \ {a} : req'[b] = req[b]
          /\ req'[a] = Idle \/ (req'[a].op = req[a].op /\ req'[a].want = req[a].want)
<1>1. req \in [Actors -> Request] /\ req[a] \in Request
  BY DEF TypeOK
<1>2. \A stage : Goto(a, stage) =>
        /\ \A b \in Actors \ {a} : req'[b] = req[b]
        /\ req'[a].op = req[a].op /\ req'[a].want = req[a].want
  BY <1>1 DEF Goto, Request
<1>3. Finish(a) => req'[a] = Idle /\ \A b \in Actors \ {a} : req'[b] = req[b]
  BY <1>1 DEF Finish
<1>4. mode' = mode /\ req[a].at # "idle"
  BY DEF Step, Read, Archive, Write, WriteExtras, Evict, Reschedule, SoftDelete, Recover, Lookup,
         Load, Fill, Fail
<1>5. CASE Read(a) \/ Load(a)
  <2>1. Finish(a) \/ \E stage \in Stages :
          req' = [req EXCEPT ![a].snap = secret, ![a].at = stage]
    BY <1>5 DEF Read, Load, Stages
  <2> QED BY <1>1, <1>3, <1>4, <2>1 DEF Request
<1>6. CASE Archive(a) \/ Write(a) \/ WriteExtras(a) \/ Evict(a) \/ SoftDelete(a) \/ Recover(a) \/ Lookup(a)
  <2>1. Finish(a) \/ \E stage : Goto(a, stage)
    BY <1>6 DEF Archive, Write, WriteExtras, Evict, SoftDelete, Recover, Lookup
  <2> QED BY <1>2, <1>3, <1>4, <2>1
<1>7. CASE Reschedule(a) \/ Fill(a) \/ Fail(a)
  BY <1>3, <1>4, <1>7 DEF Reschedule, Fill, Fail
<1> QED BY <1>5, <1>6, <1>7 DEF Step

\* Which stage follows which, and what a step may do to the copy in hand.
LEMMA StageOrder ==
    ASSUME TypeOK, NEW a \in Actors, Step(a)
    PROVE /\ req'[a].at = "archive" => Read(a) /\ req'[a].snap = secret
          /\ req'[a].at = "write" => Archive(a) /\ req'[a].snap = req[a].snap
          /\ req'[a].at = "fill" => Load(a) /\ req'[a].snap = secret
<1>1. req \in [Actors -> Request] /\ req[a] \in Request
  BY DEF TypeOK
<1>2. \A stage : Goto(a, stage) => req'[a].at = stage /\ req'[a].snap = req[a].snap
  BY <1>1 DEF Goto, Request
<1>3. Finish(a) => req'[a].at = "idle"
  BY <1>1 DEF Finish, Idle
<1>4. CASE Read(a)
  BY <1>1, <1>3, <1>4 DEF Read, Request
<1>5. CASE Load(a)
  BY <1>1, <1>3, <1>5 DEF Load, Request
<1>6. CASE Archive(a)
  BY <1>2, <1>3, <1>6 DEF Archive
<1>7. CASE Write(a) \/ WriteExtras(a) \/ Evict(a) \/ SoftDelete(a) \/ Recover(a) \/ Lookup(a)
  BY <1>2, <1>3, <1>7 DEF Write, WriteExtras, Evict, SoftDelete, Recover, Lookup
<1>8. CASE Reschedule(a) \/ Fill(a) \/ Fail(a)
  BY <1>3, <1>8 DEF Reschedule, Fill, Fail
<1> QED BY <1>4, <1>5, <1>6, <1>7, <1>8 DEF Step

\* A request that begins is in neither of the stages that hold a copy.
LEMMA BeginShape ==
    ASSUME TypeOK, NEW a \in Actors, NEW op \in Ops, NEW want \in Wants, Begin(a, op, want)
    PROVE /\ req'[a].at \in {"read", "body", "lookup"} /\ req'[a].op = op /\ req'[a].want = want
          /\ \A b \in Actors \ {a} : req'[b] = req[b]
          /\ UNCHANGED <<secret, versions, cached, held, mode>>
<1>1. FirstStage(op) \in {"read", "body", "lookup"}
  BY DEF FirstStage, Ops
<1>2. req'[a] = [Idle EXCEPT !.op = op, !.at = FirstStage(op), !.want = want]
  BY DEF Begin, TypeOK
<1>3. req'[a].at = FirstStage(op) /\ req'[a].op = op /\ req'[a].want = want
  BY <1>2 DEF Idle
<1> QED BY <1>1, <1>3 DEF Begin, TypeOK

\* The steps of the specification, each with the shape the lemmas give it.
LEMMA Steps ==
    ASSUME TypeOK, [Next]_vars
    PROVE \/ \E a \in Actors, op \in Ops, want \in Wants :
                 Begin(a, op, want) /\ (want # "value" => op = "update")
          \/ \E a \in Actors : Step(a)
          \/ Restart
          \/ UNCHANGED <<secret, versions, req, held, mode>> /\ cached' \in {cached, {}}
<1>1. ASSUME NEW c \in Clients, Issue(c)
      PROVE \E a \in Actors, op \in Ops, want \in Wants :
                Begin(a, op, want) /\ (want # "value" => op = "update")
  <2>1. c \in Actors /\ "update" \in Ops /\ "value" \in Wants
    BY DEF Actors, Ops, Wants
  <2> QED BY <1>1, <2>1 DEF Issue
<1>2. CASE AutoRotate
  <2>1. Scheduler \in Actors /\ "rotate" \in Ops /\ "value" \in Wants
    BY DEF Actors, Ops, Wants
  <2> QED BY <1>2, <2>1 DEF AutoRotate
<1>3. CASE CacheExpire \/ BecomeDue \/ UNCHANGED vars
  BY <1>3 DEF CacheExpire, BecomeDue, vars
<1> QED BY <1>1, <1>2, <1>3 DEF Next

\* What CreateVersion archives is a copy of the row, and the row's own versions
\* are held.
Held == VersionOf(secret) \in held
CopiesHeld == \A a \in Actors : req[a].at \in {"archive", "write"} => VersionOf(req[a].snap) \in held

\* A version row tells the truth: CreateVersion is given the version and the
\* value of one read, and a read only returns what the row has held.
THEOREM ArchivedTrue == Spec => []ArchivedIsTrue
<1> DEFINE IInv == ArchivedIsTrue /\ Held /\ CopiesHeld
<1>1. Init => IInv
  BY DEF Init, ArchivedIsTrue, Held, CopiesHeld, Idle
<1>2. TypeOK /\ IInv /\ [Next]_vars => IInv'
  <2> SUFFICES ASSUME TypeOK, IInv, [Next]_vars PROVE IInv'
    OBVIOUS
  <2> USE DEF ArchivedIsTrue, Held, CopiesHeld
  <2>1. ASSUME NEW a \in Actors, NEW op \in Ops, NEW want \in Wants, Begin(a, op, want)
        PROVE IInv'
    <3>1. /\ req'[a].at \in {"read", "body", "lookup"}
          /\ \A b \in Actors \ {a} : req'[b] = req[b]
          /\ UNCHANGED <<secret, versions, held>>
      BY <2>1, BeginShape
    <3> QED BY <3>1
  <2>2. ASSUME NEW a \in Actors, Step(a) PROVE IInv'
    <3>1. /\ \A b \in Actors \ {a} : req'[b] = req[b]
          /\ req'[a].at = "archive" => Read(a) /\ req'[a].snap = secret
          /\ req'[a].at = "write" => Archive(a) /\ req'[a].snap = req[a].snap
      BY <2>2, StepShape, StageOrder
    <3>2. held \subseteq held' /\ VersionOf(secret') \in held'
      <4>1. CASE Write(a)
        BY <4>1 DEF Write
      <4>2. CASE SoftDelete(a) \/ Recover(a)
        <5>1. held' = held /\ secret'.version = secret.version /\ secret'.value = secret.value
          BY <4>2 DEF SoftDelete, Recover, TypeOK, Row
        <5> QED BY <5>1 DEF VersionOf
      <4>3. CASE ~Write(a) /\ ~SoftDelete(a) /\ ~Recover(a)
        <5>1. held' = held /\ secret' = secret
          BY <2>2, <4>3 DEF Step, Read, Archive, WriteExtras, Evict, Reschedule, Lookup, Load, Fill, Fail
        <5> QED BY <5>1
      <4> QED BY <4>1, <4>2, <4>3
    <3>3. versions' \subseteq held'
      <4>1. CASE Archive(a)
        <5>1. req[a].at = "archive" /\ held' = held /\ versions' \subseteq versions \cup {VersionOf(req[a].snap)}
          BY <4>1 DEF Archive
        <5> QED BY <5>1
      <4>2. CASE ~Archive(a)
        <5>1. versions' = versions
          BY <2>2, <4>2 DEF Step, Read, Write, WriteExtras, Evict, Reschedule, SoftDelete, Recover, Lookup, Load, Fill, Fail
        <5> QED BY <3>2, <5>1
      <4> QED BY <4>1, <4>2
    <3>4. ASSUME NEW b \in Actors, req'[b].at \in {"archive", "write"}
          PROVE VersionOf(req'[b].snap) \in held'
      <4>1. CASE b # a
        BY <3>1, <3>2, <3>4, <4>1
      <4>2. CASE b = a /\ req'[a].at = "archive"
        <5>1. req'[a].snap = secret
          BY <3>1, <4>2
        <5> QED BY <3>2, <4>2, <5>1
      <4>3. CASE b = a /\ req'[a].at = "write"
        <5>1. req'[a].snap = req[a].snap /\ req[a].at = "archive"
          BY <3>1, <4>3 DEF Archive
        <5> QED BY <3>2, <4>3, <5>1
      <4> QED BY <3>4, <4>1, <4>2, <4>3
    <3> QED BY <3>2, <3>3, <3>4
  <2>3. CASE Restart
    <3>1. \A a \in Actors : req'[a].at = "idle"
      BY <2>3 DEF Restart, Idle
    <3>2. UNCHANGED <<secret, versions, held>>
      BY <2>3 DEF Restart
    <3> QED BY <3>1, <3>2
  <2>4. CASE UNCHANGED <<secret, versions, req, held, mode>>
    BY <2>4
  <2> QED BY <2>1, <2>2, <2>3, <2>4, Steps
<1>3. IInv => ArchivedIsTrue
  OBVIOUS
<1> QED BY <1>1, <1>2, <1>3, TypeCorrect, PTL DEF Spec

\* A writer has archived the copy it read before it writes, in every overlap:
\* the archive step is the only way to the write, and version rows only grow.
LEMMA WriterStep == TypeOK /\ WriterArchives /\ [Next]_vars => WriterArchives'
<1> SUFFICES ASSUME TypeOK, WriterArchives, [Next]_vars PROVE WriterArchives'
  OBVIOUS
<1> USE DEF WriterArchives
<1>1. ASSUME NEW a \in Actors, NEW op \in Ops, NEW want \in Wants, Begin(a, op, want)
      PROVE WriterArchives'
  <2>1. /\ req'[a].at \in {"read", "body", "lookup"}
        /\ \A b \in Actors \ {a} : req'[b] = req[b]
        /\ versions' = versions
    BY <1>1, BeginShape
  <2> QED BY <2>1
<1>2. ASSUME NEW a \in Actors, Step(a) PROVE WriterArchives'
  <2>1. /\ \A b \in Actors \ {a} : req'[b] = req[b]
        /\ req'[a].at = "write" => Archive(a) /\ req'[a].snap = req[a].snap
    BY <1>2, StepShape, StageOrder
  <2>2. versions \subseteq versions'
    BY <1>2 DEF Step, Read, Archive, Write, WriteExtras, Evict, Reschedule, SoftDelete, Recover, Lookup, Load, Fill, Fail
  <2>3. req'[a].at = "write" => VersionOf(req'[a].snap) \in versions'
    <3>1. req[a] \in Request /\ req \in [Actors -> Request]
      BY DEF TypeOK
    <3>2. Archive(a) /\ req'[a].at = "write" => VersionOf(req[a].snap) \in versions'
      BY <3>1 DEF Archive, Finish, Idle
    <3> QED BY <2>1, <3>2
  <2> QED BY <2>1, <2>2, <2>3
<1>3. CASE Restart
  BY <1>3 DEF Restart, Idle
<1>4. CASE UNCHANGED <<secret, versions, req, held, mode>>
  BY <1>4
<1> QED BY <1>1, <1>2, <1>3, <1>4, Steps

\* UpdateSecret and replaceSecretValue never write without the version row of
\* the copy they read.
THEOREM WriterHasArchived == Spec => []WriterArchives
<1>1. Init => WriterArchives
  BY DEF Init, WriterArchives, Idle
<1> QED BY <1>1, WriterStep, TypeCorrect, PTL DEF Spec
-----------------------------------------------------------------------------
(* What requests that run one at a time guarantee, failures included.      *)

\* A behaviour stays in the mode it starts in.
LEMMA ModeKept == ASSUME TypeOK, [Next]_vars PROVE mode' = mode
<1>1. ASSUME NEW a \in Actors, NEW op \in Ops, NEW want \in Wants, Begin(a, op, want)
      PROVE mode' = mode
  BY <1>1 DEF Begin
<1>2. ASSUME NEW a \in Actors, Step(a) PROVE mode' = mode
  BY <1>2, StepShape
<1> QED BY <1>1, <1>2, Steps DEF Restart

\* The inductive invariant: one request is in flight, and its copy is the row.
OneRequest == mode.serial => \A a, b \in Actors : req[a] # Idle /\ req[b] # Idle => a = b
CopyCurrent ==
    mode.serial => \A a \in Actors : req[a].at \in {"archive", "write", "fill"} => req[a].snap = secret
UpdatesWant == \A a \in Actors : req[a].want # "value" => req[a].op = "update"

SerialInv == OneRequest /\ CopyCurrent /\ UpdatesWant

\* With one request at a time, the others are idle when one takes a step.
LEMMA Alone ==
    ASSUME TypeOK, OneRequest, mode.serial, NEW a \in Actors, Step(a)
    PROVE \A b \in Actors \ {a} : req[b] = Idle /\ req'[b] = Idle
<1>1. req[a] # Idle
  BY StepShape DEF Idle
<1> QED BY <1>1, StepShape DEF OneRequest

\* Begin asks for quiet, and only the one request changes the row it copied.
LEMMA SerialStep == TypeOK /\ SerialInv /\ [Next]_vars => SerialInv'
<1> SUFFICES ASSUME TypeOK, SerialInv, [Next]_vars PROVE SerialInv'
  OBVIOUS
<1>0. OneRequest /\ CopyCurrent /\ UpdatesWant
  BY DEF SerialInv
<1>1. ASSUME NEW a \in Actors, NEW op \in Ops, NEW want \in Wants,
             Begin(a, op, want), want # "value" => op = "update"
      PROVE SerialInv'
  <2>1. /\ req'[a].at \in {"read", "body", "lookup"} /\ req'[a].op = op /\ req'[a].want = want
        /\ \A b \in Actors \ {a} : req'[b] = req[b]
        /\ secret' = secret /\ mode' = mode
    BY <1>1, BeginShape
  <2>2. mode.serial => \A b \in Actors : req[b] = Idle
    BY <1>1 DEF Begin, Quiet
  <2>3. OneRequest'
    BY <2>1, <2>2 DEF OneRequest
  <2>4. CopyCurrent'
    BY <1>0, <2>1 DEF CopyCurrent
  <2>5. UpdatesWant'
    BY <1>0, <1>1, <2>1 DEF UpdatesWant
  <2> QED BY <2>3, <2>4, <2>5 DEF SerialInv
<1>2. ASSUME NEW a \in Actors, Step(a) PROVE SerialInv'
  <2>1. /\ mode' = mode
        /\ \A b \in Actors \ {a} : req'[b] = req[b]
        /\ req'[a] = Idle \/ (req'[a].op = req[a].op /\ req'[a].want = req[a].want)
    BY <1>2, StepShape
  <2>2. mode.serial => \A b \in Actors \ {a} : req'[b] = Idle
    BY <1>0, <1>2, Alone
  <2>3. OneRequest'
    BY <2>1, <2>2 DEF OneRequest
  <2>4. UpdatesWant'
    BY <1>0, <2>1 DEF UpdatesWant, Idle
  <2>5. CopyCurrent'
    <3> SUFFICES ASSUME mode.serial, NEW b \in Actors, req'[b].at \in {"archive", "write", "fill"}
                 PROVE req'[b].snap = secret'
      BY <2>1 DEF CopyCurrent
    <3>1. b = a
      BY <2>2 DEF Idle
    <3>2. CASE req'[a].at = "archive"
      BY <1>2, <3>1, <3>2, StageOrder DEF Read
    <3>3. CASE req'[a].at = "fill"
      BY <1>2, <3>1, <3>3, StageOrder DEF Load
    <3>4. CASE req'[a].at = "write"
      <4>1. Archive(a) /\ req'[a].snap = req[a].snap
        BY <1>2, <3>4, StageOrder
      <4>2. req[a].snap = secret /\ secret' = secret
        BY <1>0, <4>1 DEF Archive, CopyCurrent
      <4> QED BY <3>1, <4>1, <4>2
    <3> QED BY <3>1, <3>2, <3>3, <3>4
  <2> QED BY <2>3, <2>4, <2>5 DEF SerialInv
<1>3. CASE Restart
  BY <1>3 DEF Restart, SerialInv, OneRequest, CopyCurrent, UpdatesWant, Idle
<1>4. CASE UNCHANGED <<secret, versions, req, held, mode>>
  BY <1>0, <1>4 DEF SerialInv, OneRequest, CopyCurrent, UpdatesWant
<1> QED BY <1>1, <1>2, <1>3, <1>4, Steps

\* One request at a time holds one copy, and it is the row.
LEMMA SerialInvariant == Spec => []SerialInv
<1>1. Init => SerialInv
  BY DEF Init, SerialInv, OneRequest, CopyCurrent, UpdatesWant, Idle
<1> QED BY <1>1, SerialStep, TypeCorrect, PTL DEF Spec

\* What a step that changes the row is, when requests run one at a time: the
\* write of a copy equal to the row, or a change of deleted_at alone.
LEMMA SerialWrites ==
    ASSUME TypeOK, SerialInv, mode.serial, [Next]_vars, secret' # secret
    PROVE \E a \in Actors :
            \/ Write(a) /\ req[a].snap = secret
            \/ SoftDelete(a) \/ Recover(a)
<1>1. PICK a \in Actors : Step(a)
  <2>1. \A a \in Actors, op \in Ops, want \in Wants : ~Begin(a, op, want)
    BY DEF Begin
  <2>2. ~Restart
    BY DEF Restart
  <2> QED BY <2>1, <2>2, Steps
<1>2. Write(a) \/ SoftDelete(a) \/ Recover(a)
  BY <1>1 DEF Step, Read, Archive, WriteExtras, Evict, Reschedule, Lookup, Load, Fill, Fail
<1>3. Write(a) => req[a].snap = secret
  BY DEF Write, SerialInv, CopyCurrent
<1> QED BY <1>2, <1>3

\* Requests that run one at a time lose no value: the value that is replaced
\* has its version row, though requests fail half-way and the process restarts.
THEOREM NothingLost == Spec => SerialArchivedFirst
<1>1. TypeOK /\ SerialInv /\ WriterArchives /\ [Next]_vars
        => [mode.serial /\ Overwrites => VersionOf(secret) \in versions]_vars
  <2> SUFFICES ASSUME TypeOK, SerialInv, WriterArchives, [Next]_vars, mode.serial, Overwrites
               PROVE VersionOf(secret) \in versions
    OBVIOUS
  <2>1. secret' # secret
    BY DEF Overwrites
  <2>2. PICK a \in Actors : (Write(a) /\ req[a].snap = secret) \/ SoftDelete(a) \/ Recover(a)
    BY <2>1, SerialWrites
  <2>3. CASE Write(a) /\ req[a].snap = secret
    BY <2>3 DEF Write, WriterArchives
  <2>4. CASE SoftDelete(a) \/ Recover(a)
    BY <2>4 DEF SoftDelete, Recover, Overwrites, TypeOK, Row
  <2> QED BY <2>2, <2>3, <2>4
<1> QED BY <1>1, TypeCorrect, SerialInvariant, WriterHasArchived, PTL DEF Spec, SerialArchivedFirst

\* One at a time, only an update that says so enables or disables a secret:
\* the whole-row write of a rotation keeps the flag its copy was read with.
THEOREM EnabledKept == Spec => SerialEnabledKept
<1>1. TypeOK /\ SerialInv /\ [Next]_vars
        => [mode.serial /\ secret'.enabled # secret.enabled =>
              \E a \in Actors : req[a].op = "update" /\ req[a].want # "value"]_vars
  <2> SUFFICES ASSUME TypeOK, SerialInv, [Next]_vars, mode.serial, secret'.enabled # secret.enabled
               PROVE \E a \in Actors : req[a].op = "update" /\ req[a].want # "value"
    OBVIOUS
  <2>1. secret' # secret
    OBVIOUS
  <2>2. PICK a \in Actors : (Write(a) /\ req[a].snap = secret) \/ SoftDelete(a) \/ Recover(a)
    BY <2>1, SerialWrites
  <2>3. CASE Write(a) /\ req[a].snap = secret
    <3>1. secret' = Updated(req[a])
      BY <2>3 DEF Write
    <3>2. req[a].want = "value" => secret'.enabled = secret.enabled
      BY <2>3, <3>1 DEF Updated, TypeOK, Row
    <3> QED BY <3>2 DEF SerialInv, UpdatesWant
  <2>4. CASE SoftDelete(a) \/ Recover(a)
    BY <2>4 DEF SoftDelete, Recover, TypeOK, Row
  <2> QED BY <2>2, <2>3, <2>4
<1> QED BY <1>1, TypeCorrect, SerialInvariant, PTL DEF Spec, SerialEnabledKept

\* Version rows are older than the row, or are the row itself, archived by an
\* attempt that failed.
ArchivedOlder ==
    mode.serial => \A x \in versions : x.version < secret.version \/ x = VersionOf(secret)

\* One at a time, a version number names one value, so that GetVersion has one
\* answer although no constraint makes it so.
THEOREM VersionsDistinct == Spec => []SerialVersionsDistinct
<1> DEFINE IInv == ArchivedOlder /\ SerialVersionsDistinct
<1>1. Init => IInv
  BY DEF Init, ArchivedOlder, SerialVersionsDistinct
<1>2. TypeOK /\ SerialInv /\ IInv /\ [Next]_vars => IInv'
  <2> SUFFICES ASSUME TypeOK, SerialInv, IInv, [Next]_vars PROVE IInv'
    OBVIOUS
  <2>0. mode' = mode
    BY ModeKept
  <2> SUFFICES ASSUME mode.serial
               PROVE /\ \A x \in versions' : x.version < secret'.version \/ x = VersionOf(secret')
                     /\ \A x, y \in versions' \cup {VersionOf(secret')} : x.version = y.version => x = y
    BY <2>0 DEF ArchivedOlder, SerialVersionsDistinct
  <2>1. /\ \A x \in versions : x.version < secret.version \/ x = VersionOf(secret)
        /\ \A x, y \in versions \cup {VersionOf(secret)} : x.version = y.version => x = y
    BY DEF ArchivedOlder, SerialVersionsDistinct
  <2>2. \A x \in versions : x.version \in Nat
    BY DEF TypeOK, Version
  <2>3. CASE secret' # secret
    <3>1. PICK a \in Actors : (Write(a) /\ req[a].snap = secret) \/ SoftDelete(a) \/ Recover(a)
      BY <2>3, SerialWrites
    <3>2. versions' = versions
      BY <3>1 DEF Write, SoftDelete, Recover
    <3>3. CASE Write(a) /\ req[a].snap = secret
      <4>1. secret'.version = secret.version + 1 /\ secret.version \in Nat
        BY <3>3 DEF Write, Updated, TypeOK, Row
      <4>2. VersionOf(secret').version = secret'.version /\ VersionOf(secret).version = secret.version
        BY DEF VersionOf
      <4>3. \A x \in versions : x.version < secret'.version
        BY <2>1, <2>2, <4>1, <4>2
      <4> QED BY <2>1, <2>2, <3>2, <4>1, <4>2, <4>3
    <3>4. CASE SoftDelete(a) \/ Recover(a)
      <4>1. secret'.version = secret.version /\ secret'.value = secret.value
        BY <3>4 DEF SoftDelete, Recover, TypeOK, Row
      <4>2. VersionOf(secret') = VersionOf(secret)
        BY <4>1 DEF VersionOf
      <4> QED BY <2>1, <3>2, <4>1, <4>2
    <3> QED BY <3>1, <3>3, <3>4
  <2>4. CASE secret' = secret
    <3>1. versions' \subseteq versions \cup {VersionOf(secret)}
      <4>1. ASSUME NEW a \in Actors, Step(a) PROVE versions' \subseteq versions \cup {VersionOf(secret)}
        <5>1. CASE Archive(a)
          <6>1. req[a].at = "archive" /\ versions' \subseteq versions \cup {VersionOf(req[a].snap)}
            BY <5>1 DEF Archive
          <6>2. req[a].snap = secret
            BY <6>1 DEF SerialInv, CopyCurrent
          <6> QED BY <6>1, <6>2
        <5>2. CASE ~Archive(a)
          BY <4>1, <5>2 DEF Step, Read, Write, WriteExtras, Evict, Reschedule, SoftDelete, Recover, Lookup, Load, Fill, Fail
        <5> QED BY <5>1, <5>2
      <4> QED BY <4>1, Steps, BeginShape DEF Restart
    <3> QED BY <2>1, <2>4, <3>1
  <2> QED BY <2>3, <2>4
<1>3. IInv => SerialVersionsDistinct
  OBVIOUS
<1> QED BY <1>1, <1>2, <1>3, TypeCorrect, SerialInvariant, PTL DEF Spec

\* The cached view is the row, except between a write and its eviction, which
\* follows in the same request.
FreshOrEvicting ==
    mode.serial /\ ~mode.fails =>
        cached \subseteq {secret} \/ \E a \in Actors : req[a].at \in {"extras", "evict"}

\* One at a time and without failures, the secret cache serves the row
\* (CachedSecretService, invalidateCache).
THEOREM CacheFresh == Spec => []SerialCacheFresh
<1>1. Init => FreshOrEvicting
  BY DEF Init, FreshOrEvicting
<1>2. TypeOK /\ SerialInv /\ FreshOrEvicting /\ [Next]_vars => FreshOrEvicting'
  <2> SUFFICES ASSUME TypeOK, SerialInv, FreshOrEvicting, [Next]_vars PROVE FreshOrEvicting'
    OBVIOUS
  <2>0. mode' = mode
    BY ModeKept
  <2> SUFFICES ASSUME mode.serial, ~mode.fails
               PROVE cached' \subseteq {secret'} \/ \E a \in Actors : req'[a].at \in {"extras", "evict"}
    BY <2>0 DEF FreshOrEvicting
  <2>1. cached \subseteq {secret} \/ \E a \in Actors : req[a].at \in {"extras", "evict"}
    BY DEF FreshOrEvicting
  <2>2. ASSUME NEW a \in Actors, NEW op \in Ops, NEW want \in Wants, Begin(a, op, want)
        PROVE cached' \subseteq {secret'}
    <3>1. \A b \in Actors : req[b].at = "idle"
      BY <2>2 DEF Begin, Quiet, Idle
    <3> QED BY <2>1, <2>2, <3>1, BeginShape
  <2>3. ASSUME NEW a \in Actors, Step(a)
        PROVE cached' \subseteq {secret'} \/ req'[a].at \in {"extras", "evict"}
    <3>1. req \in [Actors -> Request] /\ req[a] \in Request
      BY DEF TypeOK
    <3>2. \A stage : Goto(a, stage) => req'[a].at = stage
      BY <3>1 DEF Goto, Request
    <3>3. \A b \in Actors \ {a} : req[b].at = "idle"
      BY <2>3, Alone DEF SerialInv, Idle
    <3>4. cached \subseteq {secret} \/ req[a].at \in {"extras", "evict"}
      BY <2>1, <3>3
    <3>5. CASE Write(a) \/ WriteExtras(a)
      BY <3>2, <3>5 DEF Write, WriteExtras
    <3>6. CASE SoftDelete(a) \/ Recover(a)
      BY <3>2, <3>4, <3>6 DEF SoftDelete, Recover
    <3>7. CASE Evict(a)
      BY <3>7 DEF Evict
    <3>8. CASE Fill(a)
      BY <3>8 DEF Fill, SerialInv, CopyCurrent
    <3>9. CASE Read(a) \/ Archive(a) \/ Reschedule(a) \/ Lookup(a) \/ Load(a)
      BY <3>4, <3>9 DEF Read, Archive, Reschedule, Lookup, Load
    <3>10. ~Fail(a)
      BY DEF Fail
    <3> QED BY <2>3, <3>5, <3>6, <3>7, <3>8, <3>9, <3>10 DEF Step
  <2>4. ~Restart
    BY DEF Restart
  <2>5. CASE UNCHANGED <<secret, versions, req, held, mode>> /\ cached' \in {cached, {}}
    BY <2>1, <2>5
  <2> QED BY <2>2, <2>3, <2>4, <2>5, Steps
<1>3. FreshOrEvicting => SerialCacheFresh
  BY DEF FreshOrEvicting, SerialCacheFresh, Quiet, Idle
<1> QED BY <1>1, <1>2, <1>3, TypeCorrect, SerialInvariant, PTL DEF Spec
=============================================================================
