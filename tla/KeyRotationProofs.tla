------------------------- MODULE KeyRotationProofs --------------------------
(***************************************************************************)
(* Theorems about KeyRotation, for any clients and number of requests:     *)
(* numbers without gaps, material that is never lost, exports that carry   *)
(* what they name, version rows that implement VersionHistory; and, when   *)
(* requests take turns, flags that last and answers with the material of   *)
(* the version they name.                                                  *)
(***************************************************************************)
EXTENDS KeyRotation, Sequences, FiniteSetTheorems, TLAPS

USE KeyAssumption

\* A request that moves to another stage, or ends, is still a request.
LEMMA StageTypes ==
    ASSUME TypeOK, NEW a \in Actors
    PROVE /\ \A stage \in Stages : Goto(a, stage) => req' \in [Actors -> Request]
          /\ Finish(a) => req' \in [Actors -> Request]
<1>1. First \in Row
  BY DEF First, Row
<1>2. Idle \in Request
  BY <1>1 DEF Idle, Request, Stages
<1>3. req \in [Actors -> Request] /\ req[a] \in Request
  BY DEF TypeOK
<1>4. \A stage \in Stages : [req[a] EXCEPT !.at = stage] \in Request
  BY <1>3 DEF Request
<1> QED BY <1>2, <1>3, <1>4 DEF Goto, Finish

\* A request that is given a copy, a version or material is still a request.
LEMMA FieldTypes ==
    ASSUME TypeOK, NEW a \in Actors
    PROVE \A v \in Nat, m \in Nat, row \in Row, stage \in Stages :
            /\ [req EXCEPT ![a].snap = row, ![a].at = stage] \in [Actors -> Request]
            /\ [req EXCEPT ![a].version = v, ![a].at = stage] \in [Actors -> Request]
            /\ [req EXCEPT ![a].value = m, ![a].at = stage] \in [Actors -> Request]
            /\ [req EXCEPT ![a].version = v, ![a].value = m, ![a].at = stage] \in [Actors -> Request]
<1> SUFFICES ASSUME NEW v \in Nat, NEW m \in Nat, NEW row \in Row, NEW stage \in Stages
             PROVE /\ [req EXCEPT ![a].snap = row, ![a].at = stage] \in [Actors -> Request]
                   /\ [req EXCEPT ![a].version = v, ![a].at = stage] \in [Actors -> Request]
                   /\ [req EXCEPT ![a].value = m, ![a].at = stage] \in [Actors -> Request]
                   /\ [req EXCEPT ![a].version = v, ![a].value = m, ![a].at = stage] \in [Actors -> Request]
  OBVIOUS
<1>1. req \in [Actors -> Request] /\ req[a] \in Request
  BY DEF TypeOK
<1>2. /\ [req[a] EXCEPT !.snap = row, !.at = stage] \in Request
      /\ [req[a] EXCEPT !.version = v, !.at = stage] \in Request
      /\ [req[a] EXCEPT !.value = m, !.at = stage] \in Request
      /\ [req[a] EXCEPT !.version = v, !.value = m, !.at = stage] \in Request
  BY <1>1 DEF Request
<1> QED BY <1>1, <1>2

\* The current version is the number of rows, or 1 without any.
LEMMA CurrentIsLast ==
    ASSUME TypeOK, VersionsContiguous
    PROVE /\ Cardinality(Versions) \in Nat
          /\ Versions = {} => Cardinality(Versions) = 0 /\ CurrentVersion = 1
          /\ Versions # {} => CurrentVersion = Cardinality(Versions) /\ CurrentVersion \in Versions
          /\ CurrentVersion \in Nat \ {0}
<1>1. Cardinality(Versions) \in Nat
  BY FS_CardinalityType DEF TypeOK, Versions
<1>2. Versions = {} => Cardinality(Versions) = 0 /\ CurrentVersion = 1
  BY FS_EmptySet DEF CurrentVersion
<1>3. ASSUME Versions # {}
      PROVE CurrentVersion = Cardinality(Versions) /\ CurrentVersion \in Versions /\ CurrentVersion # 0
  <2> DEFINE n == Cardinality(Versions)
  <2>1. Versions = 1 .. n /\ n >= 1
    BY <1>1, <1>3 DEF VersionsContiguous
  <2>2. n \in Versions /\ \A u \in Versions : u <= n
    BY <1>1, <2>1
  <2>3. \A v \in Versions : (\A u \in Versions : u <= v) => v = n
    BY <1>1, <2>1, <2>2
  <2> HIDE DEF n
  <2>4. CurrentVersion = CHOOSE v \in Versions : \A u \in Versions : u <= v
    BY <1>3 DEF CurrentVersion
  <2>5. CurrentVersion = n
    BY <2>2, <2>3, <2>4
  <2> QED BY <1>1, <2>1, <2>2, <2>5 DEF n
<1> QED BY <1>1, <1>2, <1>3

\* A new row one above the last keeps the numbers contiguous.
LEMMA InsertNext ==
    ASSUME TypeOK, VersionsContiguous, NEW v \in Nat, NEW m \in Nat, Insert(v, m),
           v \notin Versions, v \in 1 .. Cardinality(Versions) + 1
    PROVE /\ Versions' = Versions \cup {v} /\ IsFiniteSet(Versions')
          /\ Cardinality(Versions') = Cardinality(Versions) + 1
          /\ VersionsContiguous'
          /\ rows'[v] = m /\ \A u \in Versions : rows'[u] = rows[u]
<1> DEFINE n == Cardinality(Versions)
<1>1. n \in Nat /\ Versions = 1 .. n /\ IsFiniteSet(Versions)
  BY CurrentIsLast DEF VersionsContiguous, TypeOK, Versions
<1>2. v = n + 1
  BY <1>1
<1>3. Versions' = Versions \cup {v}
  BY DEF Insert, Versions
<1>4. IsFiniteSet(Versions') /\ Cardinality(Versions') = n + 1
  BY <1>1, <1>3, FS_AddElement
<1>5. Versions' = 1 .. (n + 1)
  BY <1>1, <1>2, <1>3
<1>6. rows'[v] = m /\ \A u \in Versions : rows'[u] = rows[u]
  BY DEF Insert
<1> QED BY <1>3, <1>4, <1>5, <1>6 DEF VersionsContiguous

-----------------------------------------------------------------------------
(* The stages of a request.                                                *)

\* Which stage follows which, what the step hands on, and that a request keeps
\* its operation to the end.
LEMMA StageOrder ==
    ASSUME TypeOK, NEW a \in Actors, Step(a)
    PROVE /\ mode' = mode /\ req[a].at # "idle"
          /\ \A b \in Actors \ {a} : req'[b] = req[b]
          /\ req'[a] = Idle \/ req'[a].op = req[a].op
          /\ req'[a].snap = req[a].snap \/ req'[a].snap = key \/ req'[a] = Idle
          /\ req'[a].at = "list" => Read(a) /\ req[a].op = "rotate" /\ req'[a].snap = key
          /\ req'[a].at = "first" =>
                List(a) /\ Versions = {} /\ req'[a].version = 2 /\ req'[a].snap = req[a].snap
          /\ req'[a].at = "archive" =>
                /\ req'[a].snap = req[a].snap
                /\ \/ List(a) /\ Versions # {} /\ req'[a].version = Cardinality(Versions) + 1
                   \/ ArchiveFirst(a) /\ 1 \notin Versions /\ req'[a].version = req[a].version
          /\ req'[a].at = "write" =>
                \/ Read(a) /\ req[a].op \in {"revoke", "restore"} /\ req'[a].snap = key
                \/ /\ ArchiveNew(a) /\ req[a].version \notin Versions
                   /\ req'[a].snap = req[a].snap /\ req'[a].value = fresh
                   /\ req'[a].version = req[a].version
<1>1. req \in [Actors -> Request] /\ req[a] \in Request
  BY DEF TypeOK
<1>2. \A stage : Goto(a, stage) =>
        /\ \A b \in Actors \ {a} : req'[b] = req[b]
        /\ req'[a].op = req[a].op /\ req'[a].at = stage /\ req'[a].version = req[a].version
        /\ req'[a].snap = req[a].snap
  BY <1>1 DEF Goto, Request
<1>3. Finish(a) => /\ req'[a] = Idle /\ req'[a].at = "idle"
                   /\ \A b \in Actors \ {a} : req'[b] = req[b]
  BY <1>1 DEF Finish, Idle
<1>4. mode' = mode /\ req[a].at # "idle"
  BY DEF Step, Read, List, ArchiveFirst, ArchiveNew, Write, Evict, Mark, SoftDelete, Recover,
         Current, Fetch, Fallback, Sign, Export, Fail
<1>5. CASE Read(a)
  <2>1. CASE Finish(a)
    BY <1>3, <1>4, <2>1
  <2>2. CASE ~Finish(a)
    <3>1. \E stage : /\ req' = [req EXCEPT ![a].snap = key, ![a].at = stage]
                     /\ stage = CASE req[a].op = "rotate" -> "list"
                                  [] req[a].op \in {"revoke", "restore"} -> "write"
                                  [] OTHER -> "current"
      BY <1>5, <2>2 DEF Read
    <3>2. PICK stage : /\ req' = [req EXCEPT ![a].snap = key, ![a].at = stage]
                       /\ stage = CASE req[a].op = "rotate" -> "list"
                                    [] req[a].op \in {"revoke", "restore"} -> "write"
                                    [] OTHER -> "current"
      BY <3>1
    <3>3. /\ \A b \in Actors \ {a} : req'[b] = req[b]
          /\ req'[a].op = req[a].op /\ req'[a].snap = key /\ req'[a].at = stage
      BY <1>1, <3>2 DEF Request
    <3>4. /\ stage \in {"list", "write", "current"}
          /\ stage = "list" => req[a].op = "rotate"
          /\ stage = "write" => req[a].op \in {"revoke", "restore"}
      <4>1. CASE req[a].op = "rotate"
        BY <3>2, <4>1
      <4>2. CASE req[a].op \in {"revoke", "restore"}
        BY <3>2, <4>2
      <4>3. CASE req[a].op \notin {"rotate", "revoke", "restore"}
        BY <3>2, <4>3
      <4> QED BY <4>1, <4>2, <4>3
    <3> QED BY <1>4, <1>5, <3>3, <3>4
  <2> QED BY <2>1, <2>2
<1>6. CASE List(a)
  BY <1>1, <1>4, <1>6 DEF List, Request
<1>7. CASE ArchiveFirst(a)
  BY <1>2, <1>3, <1>4, <1>7 DEF ArchiveFirst
<1>8. CASE ArchiveNew(a)
  <2>1. CASE req[a].version \in Versions
    BY <1>3, <1>4, <1>8, <2>1 DEF ArchiveNew
  <2>2. CASE req[a].version \notin Versions
    BY <1>1, <1>4, <1>8, <2>2 DEF ArchiveNew, Request
  <2> QED BY <2>1, <2>2
<1>9. CASE Write(a) \/ Evict(a) \/ SoftDelete(a)
  <2>1. Finish(a) \/ Goto(a, "evict") \/ Goto(a, "mark")
    BY <1>9 DEF Write, Evict, SoftDelete
  <2> QED BY <1>2, <1>3, <1>4, <2>1
<1>10. CASE Current(a) \/ Fetch(a) \/ Fallback(a)
  <2>1. \/ req'[a] = Idle
        \/ /\ req'[a].op = req[a].op /\ req'[a].snap = req[a].snap
           /\ req'[a].at \in {"fetch", "fallback", "use"}
    <3>1. CASE Current(a)
      <4> DEFINE v == IF req[a].version = 0 THEN CurrentVersion ELSE req[a].version
      <4>1. \/ Finish(a)
            \/ req' = [req EXCEPT ![a].version = v, ![a].value = req[a].snap.value, ![a].at = "use"]
            \/ req' = [req EXCEPT ![a].version = v, ![a].at = "fetch"]
        BY <3>1 DEF Current
      <4> HIDE DEF v
      <4>2. CASE req' = [req EXCEPT ![a].version = v, ![a].value = req[a].snap.value, ![a].at = "use"]
        BY <1>1, <4>2 DEF Request
      <4>3. CASE req' = [req EXCEPT ![a].version = v, ![a].at = "fetch"]
        BY <1>1, <4>3 DEF Request
      <4> QED BY <1>3, <4>1, <4>2, <4>3
    <3>2. CASE Fetch(a)
      <4>1. CASE req' = [req EXCEPT ![a].value = rows[req[a].version], ![a].at = "use"]
        BY <1>1, <4>1 DEF Request
      <4> QED BY <1>2, <1>3, <3>2, <4>1 DEF Fetch
    <3>3. CASE Fallback(a)
      BY <1>1, <3>3 DEF Fallback, Request
    <3> QED BY <1>10, <3>1, <3>2, <3>3
  <2>2. \A b \in Actors \ {a} : req'[b] = req[b]
    BY <1>1, <1>2, <1>3, <1>10 DEF Current, Fetch, Fallback
  <2> QED BY <1>4, <2>1, <2>2 DEF Idle
<1>11. CASE Mark(a) \/ Recover(a) \/ Sign(a) \/ Export(a) \/ Fail(a)
  BY <1>3, <1>4, <1>11 DEF Mark, Recover, Sign, Export, Fail
<1> QED BY <1>5, <1>6, <1>7, <1>8, <1>9, <1>10, <1>11 DEF Step

\* The stages of an answer: where its version and its material come from.
LEMMA AnswerOrder ==
    ASSUME TypeOK, NEW a \in Actors, Step(a)
    PROVE /\ req'[a].at \in {"fetch", "fallback", "use"} =>
                /\ Current(a) \/ Fetch(a) \/ Fallback(a)
                /\ req'[a].op = req[a].op /\ req'[a].snap = req[a].snap
          /\ req'[a].at = "fetch" =>
                /\ Current(a)
                /\ req'[a].version = IF req[a].version = 0 THEN CurrentVersion ELSE req[a].version
          /\ req'[a].at = "fallback" => Fetch(a) /\ req'[a].version = 1 /\ req[a].version \notin Versions
          /\ req'[a].at = "use" =>
                \/ /\ Current(a) /\ req[a].op = "sign"
                   /\ req'[a].version = CurrentVersion /\ req'[a].value = req[a].snap.value
                \/ /\ Fetch(a) /\ req'[a].version = req[a].version /\ req[a].version \in Versions
                   /\ req'[a].value = rows[req[a].version]
                \/ /\ Fallback(a) /\ req'[a].version = req[a].version /\ req'[a].value = key.value
<1>1. req \in [Actors -> Request] /\ req[a] \in Request
  BY DEF TypeOK
<1>2. \A stage : Goto(a, stage) => /\ req'[a].op = req[a].op /\ req'[a].at = stage
                                   /\ req'[a].version = req[a].version /\ req'[a].snap = req[a].snap
  BY <1>1 DEF Goto, Request
<1>3. Finish(a) => req'[a].at = "idle"
  BY <1>1 DEF Finish, Idle
<1>4. CASE Current(a)
  <2> DEFINE v == IF req[a].version = 0 THEN CurrentVersion ELSE req[a].version
  <2>1. \/ Finish(a)
        \/ /\ req[a].op = "sign" /\ v = CurrentVersion
           /\ req' = [req EXCEPT ![a].version = v, ![a].value = req[a].snap.value, ![a].at = "use"]
        \/ req' = [req EXCEPT ![a].version = v, ![a].at = "fetch"]
    BY <1>4 DEF Current
  <2>2. ASSUME req' = [req EXCEPT ![a].version = v, ![a].value = req[a].snap.value, ![a].at = "use"]
        PROVE /\ req'[a].at = "use" /\ req'[a].version = v /\ req'[a].value = req[a].snap.value
              /\ req'[a].op = req[a].op /\ req'[a].snap = req[a].snap
    <3> HIDE DEF v
    <3> QED BY <1>1, <2>2 DEF Request
  <2>3. ASSUME req' = [req EXCEPT ![a].version = v, ![a].at = "fetch"]
        PROVE /\ req'[a].at = "fetch" /\ req'[a].version = v
              /\ req'[a].op = req[a].op /\ req'[a].snap = req[a].snap
    <3> HIDE DEF v
    <3> QED BY <1>1, <2>3 DEF Request
  <2> QED BY <1>3, <1>4, <2>1, <2>2, <2>3
<1>5. CASE Fetch(a)
  <2>1. ASSUME req[a].version \in Versions
        PROVE /\ req'[a].at = "use" /\ req'[a].version = req[a].version
              /\ req'[a].value = rows[req[a].version]
              /\ req'[a].op = req[a].op /\ req'[a].snap = req[a].snap
    BY <1>1, <1>5, <2>1 DEF Fetch, Request
  <2>2. ASSUME req[a].version \notin Versions PROVE (Goto(a, "fallback") /\ req[a].version = 1) \/ Finish(a)
    BY <1>5, <2>2 DEF Fetch
  <2> QED BY <1>2, <1>3, <1>5, <2>1, <2>2
<1>6. CASE Fallback(a)
  <2>1. /\ req'[a].at = "use" /\ req'[a].version = req[a].version /\ req'[a].value = key.value
        /\ req'[a].op = req[a].op /\ req'[a].snap = req[a].snap
    BY <1>1, <1>6 DEF Fallback, Request
  <2> QED BY <1>6, <2>1
<1>7. CASE Read(a)
  <2>1. CASE Finish(a)
    BY <1>3, <2>1
  <2>2. CASE ~Finish(a)
    <3>1. req'[a].at = CASE req[a].op = "rotate" -> "list"
                         [] req[a].op \in {"revoke", "restore"} -> "write"
                         [] OTHER -> "current"
      BY <1>1, <1>7, <2>2 DEF Read, Request
    <3> QED BY <3>1
  <2> QED BY <2>1, <2>2
<1>8. CASE List(a) \/ ArchiveFirst(a) \/ ArchiveNew(a)
  BY <1>1, <1>2, <1>3, <1>8 DEF List, ArchiveFirst, ArchiveNew, Request
<1>9. CASE Write(a) \/ Evict(a) \/ Mark(a) \/ SoftDelete(a) \/ Recover(a) \/ Sign(a) \/ Export(a) \/ Fail(a)
  BY <1>2, <1>3, <1>9 DEF Write, Evict, Mark, SoftDelete, Recover, Sign, Export, Fail
<1> QED BY <1>4, <1>5, <1>6, <1>7, <1>8, <1>9 DEF Step

-----------------------------------------------------------------------------
(* Types and version numbers.                                              *)

\* The version a request carries, stage by stage.
Numbered ==
    \A a \in Actors :
        /\ req[a].at = "first" => req[a].version = 2
        /\ req[a].at = "archive" => req[a].version \in 1 .. Cardinality(Versions) + 1
        /\ req[a].at = "fallback" => req[a].version = 1
        /\ req[a].at \in {"fetch", "use"} => req[a].version # 0

Base == TypeOK /\ VersionsContiguous /\ Numbered

\* A step adds one row, under a number that has none, or none at all.
LEMMA RowsStep ==
    ASSUME Base, [Next]_vars
    PROVE \/ UNCHANGED rows
          \/ \E v \in Nat \ {0}, m \in Nat :
               Insert(v, m) /\ v \notin Versions /\ v \in 1 .. Cardinality(Versions) + 1
<1>1. ASSUME NEW a \in Actors, ArchiveFirst(a), rows' # rows
      PROVE Insert(1, req[a].snap.value) /\ 1 \notin Versions /\ req[a].snap.value \in Nat
  BY <1>1 DEF ArchiveFirst, Base, TypeOK, Request, Row
<1>2. ASSUME NEW a \in Actors, ArchiveNew(a), rows' # rows
      PROVE /\ Insert(req[a].version, fresh) /\ req[a].version \notin Versions /\ fresh \in Nat
            /\ req[a].version \in 1 .. Cardinality(Versions) + 1 /\ req[a].version \in Nat \ {0}
  <2>1. req[a].version \in Nat /\ fresh \in Nat
    BY DEF Base, TypeOK, Request
  <2>2. req[a].version \in 1 .. Cardinality(Versions) + 1
    BY <1>2 DEF ArchiveNew, Base, Numbered
  <2>3. Cardinality(Versions) \in Nat
    BY CurrentIsLast DEF Base
  <2> QED BY <1>2, <2>1, <2>2, <2>3 DEF ArchiveNew
<1>3. \/ UNCHANGED rows
      \/ \E a \in Actors : ArchiveFirst(a) \/ ArchiveNew(a)
  BY DEF Next, vars, Issue, AutoRotate, Begin, Step, Read, List, Write, Evict, Mark, SoftDelete,
         Recover, Current, Fetch, Fallback, Sign, Export, Fail, CacheExpire, Restart, BecomeDue
<1>4. Cardinality(Versions) \in Nat
  BY CurrentIsLast DEF Base
<1> QED BY <1>1, <1>2, <1>3, <1>4

\* Rows are only ever added, one above the last.
LEMMA RowsGrow ==
    ASSUME Base, [Next]_vars
    PROVE /\ Versions \subseteq Versions' /\ \A u \in Versions : rows'[u] = rows[u]
          /\ VersionsContiguous' /\ IsFiniteSet(Versions') /\ Versions' \subseteq Nat \ {0}
          /\ \A u \in Versions' : rows'[u] \in Nat
          /\ Cardinality(Versions) \in Nat /\ Cardinality(Versions') \in Nat
          /\ Cardinality(Versions) <= Cardinality(Versions')
<1>1. CASE UNCHANGED rows
  <2>1. Cardinality(Versions) \in Nat
    BY CurrentIsLast DEF Base
  <2> QED BY <1>1, <2>1 DEF Base, TypeOK, VersionsContiguous, Versions
<1>2. ASSUME NEW v \in Nat \ {0}, NEW m \in Nat, Insert(v, m), v \notin Versions,
             v \in 1 .. Cardinality(Versions) + 1
      PROVE /\ Versions \subseteq Versions' /\ \A u \in Versions : rows'[u] = rows[u]
            /\ VersionsContiguous' /\ IsFiniteSet(Versions') /\ Versions' \subseteq Nat \ {0}
            /\ \A u \in Versions' : rows'[u] \in Nat
            /\ Cardinality(Versions) \in Nat /\ Cardinality(Versions') \in Nat
            /\ Cardinality(Versions) <= Cardinality(Versions')
  <2>1. Cardinality(Versions) \in Nat
    BY CurrentIsLast DEF Base
  <2>2. /\ Versions' = Versions \cup {v} /\ IsFiniteSet(Versions')
        /\ Cardinality(Versions') = Cardinality(Versions) + 1 /\ VersionsContiguous'
        /\ rows'[v] = m /\ \A u \in Versions : rows'[u] = rows[u]
    BY <1>2, InsertNext DEF Base
  <2> QED BY <2>1, <2>2 DEF Base, TypeOK, Versions
<1> QED BY <1>1, <1>2, RowsStep

\* What a request looks like when it begins, and that the others are untouched.
LEMMA BeginStage ==
    ASSUME TypeOK, NEW a \in Actors, NEW op \in Ops, NEW v \in Nat, Begin(a, op, v)
    PROVE /\ req' \in [Actors -> Request] /\ issued' \in 0 .. MaxRequests
          /\ req'[a] = [Idle EXCEPT !.op = op, !.version = v,
                                    !.at = IF op \in {"delete", "recover"} THEN "body" ELSE "read"]
          /\ req'[a].at \in {"body", "read"} /\ req'[a].op = op /\ req'[a].snap = First
          /\ \A b \in Actors \ {a} : req'[b] = req[b]
          /\ mode.serial => \A b \in Actors : req[b] = Idle
          /\ UNCHANGED <<key, rows, cached, due, used, held, fresh, mode>>
<1> DEFINE stage == IF op \in {"delete", "recover"} THEN "body" ELSE "read"
           r == [Idle EXCEPT !.op = op, !.version = v, !.at = stage]
<1>1. req \in [Actors -> Request] /\ issued \in 0 .. MaxRequests
  BY DEF TypeOK
<1>2. stage \in {"body", "read"}
  OBVIOUS
<1>3. First \in Row
  BY DEF First, Row
<1>4. Idle \in Request /\ Idle.snap = First
  BY <1>3 DEF Idle, Request, Stages
<1>5. r \in Request /\ r.at = stage /\ r.op = op /\ r.snap = First
  <2>1. "body" \in Stages /\ "read" \in Stages
    BY DEF Stages
  <2>2. stage \in Stages
    BY <1>2, <2>1
  <2> HIDE DEF stage
  <2> QED BY <1>4, <2>2 DEF Request
<1>6. req' = [req EXCEPT ![a] = r] /\ issued' = issued + 1 /\ issued < MaxRequests
      /\ UNCHANGED <<key, rows, cached, due, used, held, fresh, mode>>
  BY DEF Begin
<1>7. mode.serial => \A b \in Actors : req[b] = Idle
  BY DEF Begin, Quiet
<1> HIDE DEF r, stage
<1>8. req' \in [Actors -> Request] /\ req'[a] = r /\ \A b \in Actors \ {a} : req'[b] = req[b]
  BY <1>1, <1>5, <1>6
<1>9. issued' \in 0 .. MaxRequests
  BY <1>1, <1>6
<1>10. r.at \in {"body", "read"} /\ r.op = op /\ r.snap = First
  BY <1>2, <1>5
<1> QED BY <1>6, <1>7, <1>8, <1>9, <1>10 DEF r, stage

\* A request begins in Issue and in AutoRotate.
LEMMA Begins ==
    ASSUME TypeOK, NEW c \in Clients, Issue(c)
    PROVE \E op \in Ops, v \in Nat : Begin(c, op, v)
  BY DEF Issue, Ops

\* The current version a request is answered with is a number above 0.
LEMMA TypesKept == Base /\ [Next]_vars => TypeOK'
<1> SUFFICES ASSUME Base, [Next]_vars PROVE TypeOK'
  OBVIOUS
<1>1. /\ IsFiniteSet(DOMAIN rows') /\ DOMAIN rows' \subseteq Nat \ {0}
      /\ \A v \in DOMAIN rows' : rows'[v] \in Nat
  BY RowsGrow DEF Versions
<1>2. TypeOK
  BY DEF Base
<1>3. CASE UNCHANGED vars
  BY <1>2, <1>3 DEF vars, TypeOK
<1>4. ASSUME NEW a \in Actors, NEW op \in Ops, NEW v \in Nat, Begin(a, op, v) PROVE TypeOK'
  BY <1>2, <1>4, BeginStage DEF TypeOK
<1>5. ASSUME NEW a \in Actors, Step(a) PROVE TypeOK'
  <2>1. req \in [Actors -> Request] /\ req[a] \in Request
    BY <1>2 DEF TypeOK
  <2>2. /\ \A stage \in Stages : Goto(a, stage) => req' \in [Actors -> Request]
        /\ Finish(a) => req' \in [Actors -> Request]
    BY <1>2, StageTypes
  <2>3. \A v \in Nat, m \in Nat, row \in Row, stage \in Stages :
            /\ [req EXCEPT ![a].snap = row, ![a].at = stage] \in [Actors -> Request]
            /\ [req EXCEPT ![a].version = v, ![a].at = stage] \in [Actors -> Request]
            /\ [req EXCEPT ![a].value = m, ![a].at = stage] \in [Actors -> Request]
            /\ [req EXCEPT ![a].version = v, ![a].value = m, ![a].at = stage] \in [Actors -> Request]
    BY <1>2, FieldTypes
  <2>4. /\ req[a].version \in Nat /\ req[a].value \in Nat /\ req[a].snap \in Row
        /\ req[a].snap.value \in Nat /\ key \in Row /\ key.value \in Nat /\ fresh \in Nat
    BY <1>2, <2>1 DEF TypeOK, Request, Row
  <2>5. CurrentVersion \in Nat \ {0} /\ Cardinality(Versions) \in Nat
    BY CurrentIsLast DEF Base
  <2>6. CASE Read(a)
    <3>1. CASE Finish(a)
      BY <1>2, <2>2, <2>6, <3>1 DEF Read, TypeOK
    <3>2. CASE ~Finish(a)
      <4>1. \E stage \in Stages : req' = [req EXCEPT ![a].snap = key, ![a].at = stage]
        <5> DEFINE stage == CASE req[a].op = "rotate" -> "list"
                             [] req[a].op \in {"revoke", "restore"} -> "write"
                             [] OTHER -> "current"
        <5>1. stage \in Stages
          BY DEF Stages
        <5>2. req' = [req EXCEPT ![a].snap = key, ![a].at = stage]
          BY <2>6, <3>2 DEF Read
        <5> QED BY <5>1, <5>2
      <4>2. \A stage \in Stages : [req EXCEPT ![a].snap = key, ![a].at = stage] \in [Actors -> Request]
        BY <2>3, <2>4
      <4>3. req' \in [Actors -> Request]
        BY <4>1, <4>2
      <4> QED BY <1>2, <2>6, <4>3 DEF Read, TypeOK
    <3> QED BY <3>1, <3>2
  <2>7. CASE List(a)
    <3>1. req' \in [Actors -> Request]
      <4>1. "first" \in Stages /\ "archive" \in Stages /\ 2 \in Nat /\ Cardinality(Versions) + 1 \in Nat
        BY <2>5 DEF Stages
      <4>2. \E v \in Nat, stage \in Stages : req' = [req EXCEPT ![a].version = v, ![a].at = stage]
        <5>1. CASE Versions = {}
          BY <2>7, <4>1, <5>1 DEF List
        <5>2. CASE Versions # {}
          BY <2>7, <4>1, <5>2 DEF List
        <5> QED BY <5>1, <5>2
      <4>3. \A v \in Nat, stage \in Stages :
              [req EXCEPT ![a].version = v, ![a].at = stage] \in [Actors -> Request]
        BY <2>3, <2>4
      <4> QED BY <4>2, <4>3
    <3> QED BY <1>2, <2>7, <3>1 DEF List, TypeOK
  <2>8. CASE ArchiveFirst(a)
    <3>1. req' \in [Actors -> Request]
      <4>1. "archive" \in Stages
        BY DEF Stages
      <4>2. Finish(a) \/ Goto(a, "archive")
        BY <2>8 DEF ArchiveFirst
      <4> QED BY <2>2, <4>1, <4>2
    <3> QED BY <1>1, <1>2, <2>8, <3>1 DEF ArchiveFirst, TypeOK
  <2>9. CASE ArchiveNew(a)
    <3>1. req' \in [Actors -> Request] /\ fresh' \in Nat
      <4>1. "write" \in Stages
        BY DEF Stages
      <4>2. [req EXCEPT ![a].value = fresh, ![a].at = "write"] \in [Actors -> Request]
        BY <2>3, <2>4, <4>1
      <4>3. \/ Finish(a) /\ fresh' = fresh
            \/ req' = [req EXCEPT ![a].value = fresh, ![a].at = "write"] /\ fresh' = fresh + 1
        BY <2>9 DEF ArchiveNew
      <4>4. fresh' \in Nat
        BY <2>4, <4>3
      <4>5. req' \in [Actors -> Request]
        BY <2>2, <4>2, <4>3
      <4> QED BY <4>4, <4>5
    <3> QED BY <1>1, <1>2, <2>9, <3>1 DEF ArchiveNew, TypeOK
  <2>10. CASE Write(a)
    <3>1. key' \in Row /\ req' \in [Actors -> Request]
      <4>1. Updated(req[a]) \in Row
        <5>1. /\ key.deleted \in BOOLEAN /\ req[a].value \in Nat /\ req[a].snap.usable \in BOOLEAN
              /\ req[a].snap \in Row
          BY <2>4 DEF Row
        <5> QED BY <5>1 DEF Updated, Row
      <4>2. req' \in [Actors -> Request]
        BY <2>2, <2>10 DEF Write, Stages
      <4> QED BY <2>10, <4>1, <4>2 DEF Write
    <3>2. held' \subseteq Nat
      BY <1>2, <2>10, <3>1 DEF Write, TypeOK, Row
    <3> QED BY <1>2, <2>10, <3>1, <3>2 DEF Write, TypeOK
  <2>11. CASE Evict(a)
    <3>1. req' \in [Actors -> Request]
      BY <2>2, <2>11 DEF Evict, Stages
    <3> QED BY <1>2, <2>11, <3>1 DEF Evict, TypeOK
  <2>12. CASE Mark(a)
    BY <1>2, <2>2, <2>12 DEF Mark, TypeOK
  <2>13. CASE SoftDelete(a) \/ Recover(a)
    <3>1. req' \in [Actors -> Request]
      BY <2>2, <2>13 DEF SoftDelete, Recover, Stages
    <3>2. key' \in Row
      BY <2>4, <2>13 DEF SoftDelete, Recover, Row
    <3> QED BY <1>2, <2>13, <3>1, <3>2 DEF SoftDelete, Recover, TypeOK
  <2>14. CASE Current(a)
    <3>1. req' \in [Actors -> Request]
      <4> DEFINE v == IF req[a].version = 0 THEN CurrentVersion ELSE req[a].version
      <4>1. v \in Nat /\ "use" \in Stages /\ "fetch" \in Stages
        BY <2>4, <2>5 DEF Stages
      <4>2. \/ Finish(a)
            \/ req' = [req EXCEPT ![a].version = v, ![a].value = req[a].snap.value, ![a].at = "use"]
            \/ req' = [req EXCEPT ![a].version = v, ![a].at = "fetch"]
        BY <2>14 DEF Current
      <4> HIDE DEF v
      <4>3. /\ [req EXCEPT ![a].version = v, ![a].value = req[a].snap.value, ![a].at = "use"] \in [Actors -> Request]
            /\ [req EXCEPT ![a].version = v, ![a].at = "fetch"] \in [Actors -> Request]
        BY <2>3, <2>4, <4>1
      <4> QED BY <2>2, <4>2, <4>3
    <3> QED BY <1>2, <2>14, <3>1 DEF Current, TypeOK
  <2>15. CASE Fetch(a)
    <3>1. req' \in [Actors -> Request]
      <4>1. "use" \in Stages /\ "fallback" \in Stages
        BY DEF Stages
      <4>2. req[a].version \in Versions => rows[req[a].version] \in Nat
        BY <1>2 DEF TypeOK, Versions
      <4>3. req[a].version \in Versions =>
              [req EXCEPT ![a].value = rows[req[a].version], ![a].at = "use"] \in [Actors -> Request]
        BY <2>3, <2>4, <4>1, <4>2
      <4> QED BY <2>2, <2>15, <4>1, <4>3 DEF Fetch
    <3> QED BY <1>2, <2>15, <3>1 DEF Fetch, TypeOK
  <2>16. CASE Fallback(a)
    <3>1. req' \in [Actors -> Request]
      <4>1. "use" \in Stages
        BY DEF Stages
      <4> QED BY <2>3, <2>4, <2>16, <4>1 DEF Fallback
    <3> QED BY <1>2, <2>16, <3>1 DEF Fallback, TypeOK
  <2>17. LabelOf(req[a]) \in Label \/ req[a].at # "use"
    BY <2>4 DEF LabelOf, Label, Base, Numbered
  <2>18. CASE Sign(a)
    <3>1. PICK e \in IF Hits(req[a]) = {} THEN {LabelOf(req[a])} ELSE Hits(req[a]) :
            /\ used' = used \cup {[op |-> "sign", is |-> [LabelOf(req[a]) EXCEPT !.value = e.value]]}
            /\ cached' = cached \cup {e}
      BY <2>18 DEF Sign
    <3>2. LabelOf(req[a]) \in Label
      BY <2>17, <2>18 DEF Sign
    <3>3. e \in Label /\ e.value \in Nat
      BY <1>2, <3>1, <3>2 DEF Hits, TypeOK, Label
    <3>4. [op |-> "sign", is |-> [LabelOf(req[a]) EXCEPT !.value = e.value]] \in Use
      BY <3>2, <3>3 DEF Use, Label
    <3>5. used' \subseteq Use /\ cached' \subseteq Label
      BY <1>2, <3>1, <3>3, <3>4 DEF TypeOK
    <3> QED BY <1>2, <2>2, <2>18, <3>5 DEF Sign, TypeOK
  <2>19. CASE Export(a)
    <3>1. [op |-> "export", is |-> LabelOf(req[a])] \in Use
      BY <2>17, <2>19 DEF Export, Use
    <3> QED BY <1>2, <2>2, <2>19, <3>1 DEF Export, TypeOK
  <2>20. CASE Fail(a)
    BY <1>2, <2>2, <2>20 DEF Fail, TypeOK
  <2> QED BY <1>5, <2>6, <2>7, <2>8, <2>9, <2>10, <2>11, <2>12, <2>13, <2>14, <2>15, <2>16,
             <2>18, <2>19, <2>20 DEF Step
<1>6. CASE CacheExpire \/ BecomeDue
  BY <1>2, <1>6 DEF CacheExpire, BecomeDue, TypeOK
<1>7. CASE Restart
  <2>1. Idle \in Request
    BY DEF Idle, First, Request, Row, Stages
  <2> QED BY <1>2, <1>7, <2>1 DEF Restart, TypeOK
<1>8. "rotate" \in Ops /\ 0 \in Nat
  BY DEF Ops
<1> QED BY <1>2, <1>3, <1>4, <1>5, <1>6, <1>7, <1>8, Begins DEF Next, AutoRotate, Actors

\* The stepping request's version suits its stage; the count only grows.
LEMMA NumberedKept == Base /\ [Next]_vars => Numbered'
<1> SUFFICES ASSUME Base, [Next]_vars, NEW b \in Actors
             PROVE (/\ req[b].at = "first" => req[b].version = 2
                    /\ req[b].at = "archive" => req[b].version \in 1 .. Cardinality(Versions) + 1
                    /\ req[b].at = "fallback" => req[b].version = 1
                    /\ req[b].at \in {"fetch", "use"} => req[b].version # 0)'
  BY DEF Numbered
<1>1. /\ TypeOK
      /\ req[b].at = "first" => req[b].version = 2
      /\ req[b].at = "archive" => req[b].version \in 1 .. Cardinality(Versions) + 1
      /\ req[b].at = "fallback" => req[b].version = 1
      /\ req[b].at \in {"fetch", "use"} => req[b].version # 0
  BY DEF Base, Numbered
<1>2. Cardinality(Versions) \in Nat /\ Cardinality(Versions') \in Nat
      /\ Cardinality(Versions) <= Cardinality(Versions')
  BY RowsGrow
<1>3. CASE req'[b] = req[b]
  BY <1>1, <1>2, <1>3
<1>4. ASSUME NEW op \in Ops, NEW v \in Nat, Begin(b, op, v) PROVE req'[b].at \in {"body", "read"}
  BY <1>1, <1>4, BeginStage
<1>5. CASE req'[b] = Idle
  BY <1>5 DEF Idle
<1>6. ASSUME Step(b) PROVE /\ req'[b].at = "first" => req'[b].version = 2
                           /\ req'[b].at = "archive" => req'[b].version \in 1 .. Cardinality(Versions') + 1
                           /\ req'[b].at = "fallback" => req'[b].version = 1
                           /\ req'[b].at \in {"fetch", "use"} => req'[b].version # 0
  <2>1. req'[b].at = "first" => req'[b].version = 2
    BY <1>1, <1>6, StageOrder
  <2>2. ASSUME req'[b].at = "archive" PROVE req'[b].version \in 1 .. Cardinality(Versions') + 1
    <3>1. \/ req'[b].version = Cardinality(Versions) + 1
          \/ ArchiveFirst(b) /\ 1 \notin Versions /\ req'[b].version = req[b].version
      BY <1>1, <1>6, <2>2, StageOrder
    <3>2. CASE ArchiveFirst(b) /\ 1 \notin Versions /\ req'[b].version = req[b].version
      <4>1. req'[b].version = 2
        BY <1>1, <3>2 DEF ArchiveFirst
      <4>2. 1 \in Versions'
        BY <3>2 DEF ArchiveFirst, Insert, Versions
      <4>3. Versions' = 1 .. Cardinality(Versions')
        BY RowsGrow DEF VersionsContiguous
      <4> QED BY <1>2, <4>1, <4>2, <4>3
    <3> QED BY <1>2, <3>1, <3>2
  <2>3. req'[b].at = "fallback" => req'[b].version = 1
    BY <1>1, <1>6, AnswerOrder
  <2>4. ASSUME req'[b].at \in {"fetch", "use"} PROVE req'[b].version # 0
    <3>1. CurrentVersion # 0
      BY CurrentIsLast DEF Base
    <3>2. \/ req'[b].version = CurrentVersion
          \/ req'[b].version = req[b].version /\ req[b].version # 0
          \/ Fetch(b) /\ req'[b].version = req[b].version
          \/ Fallback(b) /\ req'[b].version = req[b].version
      BY <1>1, <1>6, <2>4, AnswerOrder
    <3>3. Fetch(b) \/ Fallback(b) => req[b].version # 0
      BY <1>1 DEF Fetch, Fallback
    <3> QED BY <3>1, <3>2, <3>3
  <2> QED BY <2>1, <2>2, <2>3, <2>4
<1>7. ASSUME NEW a \in Actors, a # b, Step(a) PROVE req'[b] = req[b]
  BY <1>1, <1>7, StageOrder
<1>8. ASSUME NEW a \in Actors, a # b, NEW op \in Ops, NEW v \in Nat, Begin(a, op, v)
      PROVE req'[b] = req[b]
  <2>1. \A x \in Actors \ {a} : req'[x] = req[x]
    BY <1>1, <1>8, BeginStage
  <2> QED BY <1>8, <2>1
<1>9. \/ UNCHANGED req \/ req'[b] = Idle
      \/ \E a \in Actors : Step(a) \/ \E op \in Ops, v \in Nat : Begin(a, op, v)
  <2>1. "rotate" \in Ops /\ 0 \in Nat
    BY DEF Ops
  <2> QED BY <1>1, <2>1, Begins DEF Next, AutoRotate, Actors, vars, CacheExpire, Restart, BecomeDue
<1> QED BY <1>3, <1>4, <1>5, <1>6, <1>7, <1>8, <1>9

\* Types, contiguous version numbers and the versions requests carry, kept by
\* every step.
THEOREM BaseInvariant == Spec => []Base
<1>1. Init => Base
  <2> SUFFICES ASSUME Init PROVE Base
    OBVIOUS
  <2>1. Idle \in Request /\ First \in Row /\ First.value = 0
    BY DEF Idle, First, Request, Row, Stages
  <2>2. DOMAIN rows = {}
    BY DEF Init
  <2>3. IsFiniteSet(DOMAIN rows) /\ Cardinality(DOMAIN rows) = 0
    BY <2>2, FS_EmptySet
  <2>4. TypeOK
    <3>1. req \in [Actors -> Request]
      BY <2>1 DEF Init
    <3>2. held \subseteq Nat /\ key \in Row /\ fresh \in Nat /\ issued \in 0 .. MaxRequests
      BY <2>1 DEF Init
    <3>3. DOMAIN rows \subseteq Nat \ {0} /\ \A v \in DOMAIN rows : rows[v] \in Nat
      BY <2>2
    <3>4. cached \subseteq Label /\ used \subseteq Use /\ due \in BOOLEAN
      BY DEF Init
    <3>5. mode \in [serial : BOOLEAN, fails : BOOLEAN]
      BY DEF Init
    <3> QED BY <2>3, <3>1, <3>2, <3>3, <3>4, <3>5 DEF TypeOK
  <2>5. VersionsContiguous
    BY <2>2, <2>3 DEF VersionsContiguous, Versions
  <2>6. Numbered
    BY DEF Init, Numbered, Idle
  <2> QED BY <2>4, <2>5, <2>6 DEF Base
<1>2. Base /\ [Next]_vars => Base'
  BY TypesKept, RowsGrow, NumberedKept DEF Base
<1> QED BY <1>1, <1>2, PTL DEF Spec

\* KeyRotation is type-correct.
THEOREM TypeCorrect == Spec => []TypeOK
  BY BaseInvariant, PTL DEF Base

\* Version numbers never have a gap (VersionsContiguous), although rotations
\* number their version by a count they read in an earlier statement.
THEOREM Contiguous == Spec => []VersionsContiguous
  BY BaseInvariant, PTL DEF Base

-----------------------------------------------------------------------------
(* What every kind of step does to a request and to the row.               *)

\* Every step is one request's, the beginning of one, or leaves requests as
\* they were or drops them.
LEMMA StepKinds ==
    ASSUME TypeOK, [Next]_vars
    PROVE \/ \E a \in Actors : Step(a)
          \/ \E a \in Actors, op \in Ops, v \in Nat : Begin(a, op, v)
          \/ /\ req' = req \/ req' = [a \in Actors |-> Idle]
             /\ UNCHANGED <<key, rows, used, held, mode>>
<1>1. "rotate" \in Ops /\ 0 \in Nat
  BY DEF Ops
<1> QED BY <1>1, Begins DEF Next, AutoRotate, Actors, vars, CacheExpire, Restart, BecomeDue

\* Only Write gives the row other material or another usable flag.
LEMMA KeyEffect ==
    ASSUME TypeOK, NEW a \in Actors, Step(a)
    PROVE \/ /\ Write(a) /\ key' = Updated(req[a]) /\ held' = held \cup {key'.value}
             /\ key'.value = (IF req[a].op = "rotate" THEN req[a].value ELSE req[a].snap.value)
             /\ key'.usable = (IF req[a].op = "rotate" THEN req[a].snap.usable ELSE req[a].op = "restore")
             /\ req'[a].at = "evict" /\ rows' = rows
          \/ /\ ~Write(a)
             /\ key'.value = key.value /\ key'.usable = key.usable /\ held' = held
             /\ (key' = key \/ req[a].at = "body")
<1>1. req[a] \in Request /\ req[a].snap \in Row /\ key \in Row /\ req \in [Actors -> Request]
  BY DEF TypeOK, Request
<1>2. CASE Write(a)
  <2>1. /\ Updated(req[a]).value = (IF req[a].op = "rotate" THEN req[a].value ELSE req[a].snap.value)
        /\ Updated(req[a]).usable = (IF req[a].op = "rotate" THEN req[a].snap.usable ELSE req[a].op = "restore")
    BY <1>1 DEF Updated, Row
  <2>2. req'[a].at = "evict"
    BY <1>1, <1>2 DEF Write, Goto
  <2> QED BY <1>2, <2>1, <2>2 DEF Write
<1>3. CASE SoftDelete(a) \/ Recover(a)
  BY <1>1, <1>3 DEF SoftDelete, Recover, Row, Write
<1>4. CASE ~(Write(a) \/ SoftDelete(a) \/ Recover(a))
  <2>1. key' = key /\ held' = held
    BY <1>4 DEF Step, Read, List, ArchiveFirst, ArchiveNew, Evict, Mark,
                Current, Fetch, Fallback, Sign, Export, Fail
  <2> QED BY <1>4, <2>1
<1> QED BY <1>2, <1>3, <1>4

-----------------------------------------------------------------------------
(* No material is lost.                                                    *)

Vals == {rows[v] : v \in Versions}

\* Strengthening of MaterialKept: as long as there are no version rows the row
\* has only had its original material; afterwards all of it is in them, and so
\* is what a rotation is about to write.
Preserved ==
    /\ 0 \in held /\ key.value \in held
    /\ Versions = {} => held = {key.value}
    /\ Versions # {} => held \subseteq Vals
    /\ \A a \in Actors :
        /\ req[a].snap.value \in held
        /\ req[a].at = "archive" => Versions # {}
        /\ req[a].at = "write" /\ req[a].op = "rotate" => req[a].value \in Vals

\* The set of archived material only grows.
LEMMA ValsGrow ==
    ASSUME Base, [Next]_vars
    PROVE /\ Vals \subseteq Vals' /\ (Versions # {} => Versions' # {})
          /\ \A a \in Actors : ArchiveFirst(a) /\ 1 \notin Versions =>
                1 \in Versions' /\ req[a].snap.value \in Vals'
          /\ \A a \in Actors : ArchiveNew(a) /\ req[a].version \notin Versions => fresh \in Vals'
<1>1. Versions \subseteq Versions' /\ \A u \in Versions : rows'[u] = rows[u]
  BY RowsGrow
<1>2. Vals' = {rows'[v] : v \in Versions'}
  BY DEF Vals
<1>3. Vals \subseteq Vals'
  BY <1>1, <1>2 DEF Vals
<1>4. ASSUME NEW v, NEW m, Insert(v, m) PROVE v \in Versions' /\ m \in Vals'
  BY <1>2, <1>4 DEF Insert, Versions
<1> QED BY <1>1, <1>3, <1>4 DEF ArchiveFirst, ArchiveNew

\* Every step keeps Preserved.
LEMMA PreservedKept == Base /\ Preserved /\ [Next]_vars => Preserved'
<1> SUFFICES ASSUME Base, Preserved, [Next]_vars PROVE Preserved'
  OBVIOUS
<1>1. TypeOK /\ Vals \subseteq Vals' /\ (Versions # {} => Versions' # {})
  BY ValsGrow DEF Base
<1>2. First.value = 0 /\ Idle.snap = First /\ Idle.at = "idle"
  BY DEF First, Idle
<1>3. CASE /\ key'.value = key.value /\ held' = held /\ rows' = rows
           /\ \A b \in Actors : \/ req'[b] = req[b]
                                \/ req'[b].snap = First /\ req'[b].at \in {"idle", "body", "read"}
  <2>1. Vals' = Vals /\ Versions' = Versions
    BY <1>3 DEF Vals, Versions
  <2> QED BY <1>2, <1>3, <2>1 DEF Preserved
<1>4. ASSUME NEW a \in Actors, NEW op \in Ops, NEW v \in Nat, Begin(a, op, v) PROVE Preserved'
  <2>1. /\ req'[a].snap = First /\ req'[a].at \in {"body", "read"}
        /\ \A b \in Actors \ {a} : req'[b] = req[b]
        /\ UNCHANGED <<key, rows, held>>
    BY <1>1, <1>4, BeginStage
  <2> QED BY <1>3, <2>1
<1>5. ASSUME UNCHANGED <<key, rows, held>>, req' = req \/ req' = [a \in Actors |-> Idle] PROVE Preserved'
  BY <1>2, <1>3, <1>5
<1>6. ASSUME NEW a \in Actors, Step(a) PROVE Preserved'
  <2>1. /\ \A b \in Actors \ {a} : req'[b] = req[b]
        /\ req'[a] = Idle \/ req'[a].op = req[a].op
        /\ req'[a].snap = req[a].snap \/ req'[a].snap = key \/ req'[a] = Idle
    BY <1>1, <1>6, StageOrder
  <2>2. held \subseteq held' /\ key'.value \in held' /\ key.value \in held /\ 0 \in held
    BY <1>1, <1>6, KeyEffect DEF Preserved
  <2>3. \A b \in Actors : req'[b].snap.value \in held'
    BY <1>2, <2>1, <2>2 DEF Preserved
  <2>4. req'[a].at = "archive" => Versions' # {}
    <3>1. ASSUME req'[a].at = "archive" PROVE Versions # {} \/ (ArchiveFirst(a) /\ 1 \notin Versions)
      BY <1>1, <1>6, <3>1, StageOrder
    <3> QED BY <1>1, <3>1, ValsGrow
  <2>5. ASSUME req'[a].at = "write", req'[a].op = "rotate" PROVE req'[a].value \in Vals'
    <3>1. \/ req[a].op \in {"revoke", "restore"}
          \/ ArchiveNew(a) /\ req[a].version \notin Versions /\ req'[a].value = fresh
      BY <1>1, <1>6, <2>5, StageOrder
    <3>2. req'[a].op = req[a].op
      BY <1>2, <2>1, <2>5
    <3> QED BY <2>5, <3>1, <3>2, ValsGrow
  <2>6. \A b \in Actors : /\ req'[b].at = "archive" => Versions' # {}
                          /\ req'[b].at = "write" /\ req'[b].op = "rotate" => req'[b].value \in Vals'
    BY <1>1, <2>1, <2>4, <2>5 DEF Preserved
  <2>7. (Versions' = {} => held' = {key'.value}) /\ (Versions' # {} => held' \subseteq Vals')
    <3>1. CASE Write(a) /\ held' = held \cup {key'.value} /\ rows' = rows
      <4>1. key'.value = (IF req[a].op = "rotate" THEN req[a].value ELSE req[a].snap.value)
        BY <1>1, <1>6, <3>1, KeyEffect DEF Write, Preserved
      <4>2. Vals' = Vals /\ Versions' = Versions /\ req[a].at = "write"
        BY <3>1 DEF Vals, Versions, Write
      <4>3. CASE Versions = {}
        <5>1. Vals = {}
          BY <4>3 DEF Vals
        <5> QED BY <3>1, <4>1, <4>2, <4>3, <5>1 DEF Preserved
      <4>4. CASE Versions # {}
        BY <3>1, <4>1, <4>2, <4>4 DEF Preserved
      <4> QED BY <4>3, <4>4
    <3>2. CASE key'.value = key.value /\ held' = held
      <4>1. CASE Versions # {}
        BY <1>1, <3>2, <4>1 DEF Preserved
      <4>2. CASE Versions = {} /\ Versions' # {}
        <5>1. ArchiveFirst(a) \/ ArchiveNew(a)
          BY <1>6, <4>2 DEF Step, Read, List, Write, Evict, Mark, SoftDelete, Recover,
                            Current, Fetch, Fallback, Sign, Export, Fail, Versions
        <5>2. ~ArchiveNew(a)
          BY <4>2 DEF ArchiveNew, Preserved
        <5>3. req[a].snap.value \in Vals'
          BY <4>2, <5>1, <5>2, ValsGrow
        <5>4. held = {req[a].snap.value}
          BY <4>2 DEF Preserved
        <5> QED BY <3>2, <4>2, <5>3, <5>4
      <4>3. CASE Versions = {} /\ Versions' = {}
        BY <3>2, <4>3 DEF Preserved
      <4> QED BY <4>1, <4>2, <4>3
    <3> QED BY <1>1, <1>6, <3>1, <3>2, KeyEffect
  <2> QED BY <2>2, <2>3, <2>6, <2>7 DEF Preserved
<1> QED BY <1>1, <1>4, <1>5, <1>6, StepKinds

\* Every material the row has had can still be read: a rotation stores it in a
\* version row before it replaces it, and no statement replaces a version row.
THEOREM KeepsMaterial == Spec => []MaterialKept
<1>1. Init => Preserved
  BY DEF Init, Preserved, Versions, Vals, First, Idle
<1>2. Base /\ Preserved => MaterialKept
  BY DEF Preserved, MaterialKept, Vals
<1> QED BY <1>1, <1>2, PreservedKept, BaseInvariant, PTL DEF Spec

-----------------------------------------------------------------------------
(* Exports and the usable flag.                                            *)

\* An export above version 1 carries what that version's row holds.
Exporting ==
    \A a \in Actors : req[a].at = "use" /\ req[a].op = "export" /\ req[a].version > 1 =>
        req[a].version \in Versions /\ req[a].value = rows[req[a].version]

\* An export of a version above 1 answers with the material of that version's
\* row (ExportsTrue), and goes on doing so: rows are never changed.
THEOREM ExportsStayTrue == Spec => []ExportsTrue
<1>1. Init => Exporting /\ ExportsTrue
  BY DEF Init, Exporting, ExportsTrue, Idle
<1>2. Base /\ Exporting /\ ExportsTrue /\ [Next]_vars => Exporting' /\ ExportsTrue'
  <2> SUFFICES ASSUME Base, Exporting, ExportsTrue, [Next]_vars PROVE Exporting' /\ ExportsTrue'
    OBVIOUS
  <2>1. /\ TypeOK /\ Numbered
        /\ Versions \subseteq Versions' /\ \A u \in Versions : rows'[u] = rows[u]
    BY RowsGrow DEF Base
  <2>2. ASSUME NEW l, l.version > 1, IsTrue(l) PROVE IsTrue(l)'
    BY <2>1, <2>2 DEF IsTrue
  <2>3. ASSUME NEW a \in Actors, req'[a] = req[a] \/ req'[a].at # "use"
        PROVE (req[a].at = "use" /\ req[a].op = "export" /\ req[a].version > 1 =>
                 req[a].version \in Versions /\ req[a].value = rows[req[a].version])'
    BY <2>1, <2>3 DEF Exporting
  <2>4. CASE used' = used /\ \A a \in Actors : req'[a] = req[a] \/ req'[a].at # "use"
    BY <2>2, <2>3, <2>4 DEF Exporting, ExportsTrue
  <2>5. ASSUME NEW a \in Actors, NEW op \in Ops, NEW v \in Nat, Begin(a, op, v)
        PROVE used' = used /\ \A b \in Actors : req'[b] = req[b] \/ req'[b].at # "use"
    <3>1. /\ req'[a].at \in {"body", "read"} /\ used' = used
          /\ \A b \in Actors \ {a} : req'[b] = req[b]
      BY <2>1, <2>5, BeginStage
    <3> QED BY <3>1
  <2>6. ASSUME req' = req \/ req' = [a \in Actors |-> Idle]
        PROVE \A b \in Actors : req'[b] = req[b] \/ req'[b].at # "use"
    BY <2>6 DEF Idle
  <2>7. ASSUME NEW a \in Actors, Step(a) PROVE Exporting'
    <3>1. \A b \in Actors \ {a} : req'[b] = req[b]
      BY <2>1, <2>7, StageOrder
    <3>2. ASSUME req'[a].at = "use", req'[a].op = "export", req'[a].version > 1
          PROVE req'[a].version \in Versions' /\ req'[a].value = rows'[req'[a].version]
      <4>1. \/ req'[a].op = "sign"
            \/ Fallback(a) /\ req'[a].version = req[a].version
            \/ /\ req'[a].version \in Versions /\ req'[a].value = rows[req'[a].version]
        BY <2>1, <2>7, <3>2, AnswerOrder
      <4>2. ~(Fallback(a) /\ req'[a].version = req[a].version)
        BY <2>1, <3>2 DEF Fallback, Numbered
      <4> QED BY <2>1, <3>2, <4>1, <4>2
    <3> QED BY <2>3, <3>1, <3>2 DEF Exporting
  <2>8. ASSUME NEW a \in Actors, Step(a) PROVE ExportsTrue'
    <3>1. used' = used \/ Sign(a) \/ Export(a)
      BY <2>8 DEF Step, Read, List, ArchiveFirst, ArchiveNew, Write, Evict, Mark, SoftDelete,
                  Recover, Current, Fetch, Fallback, Fail
    <3>2. \A u \in used' \ used : u.op = "export" /\ u.is.version > 1 => IsTrue(u.is)
      <4>1. CASE Sign(a)
        BY <4>1 DEF Sign
      <4>2. CASE Export(a)
        <5>1. used' = used \cup {[op |-> "export", is |-> LabelOf(req[a])]}
          BY <4>2 DEF Export
        <5>2. req[a].version > 1 => IsTrue(LabelOf(req[a]))
          BY <4>2 DEF Export, Exporting, IsTrue, LabelOf
        <5> QED BY <5>1, <5>2 DEF LabelOf
      <4> QED BY <3>1, <4>1, <4>2
    <3> QED BY <2>2, <3>2 DEF ExportsTrue
  <2> QED BY <2>1, <2>4, <2>5, <2>6, <2>7, <2>8, StepKinds
<1> QED BY <1>1, <1>2, BaseInvariant, PTL DEF Spec

\* With one request at a time, the copy a rotation or an update will store
\* agrees with the row on the usable flag.
Alone ==
    /\ mode.serial => \A a, b \in Actors : req[a] # Idle /\ req[b] # Idle => a = b
    /\ \A a \in Actors :
        /\ mode.serial /\ req[a].at \in {"list", "first", "archive", "write"} => req[a].snap = key
        /\ req[a].at = "write" => req[a].op \in {"rotate", "revoke", "restore"}
        /\ req[a].at \in {"list", "first", "archive"} => req[a].op = "rotate"

LEMMA AloneInit == Init => Alone
  BY DEF Init, Alone, Idle

LEMMA AloneNext == Base /\ Alone /\ [Next]_vars => Alone'
<1> SUFFICES ASSUME Base, Alone, [Next]_vars PROVE Alone'
  OBVIOUS
<1>1. TypeOK /\ Idle.at = "idle" /\ req \in [Actors -> Request]
  BY DEF Base, TypeOK, Idle
<1>2. CASE UNCHANGED <<req, key, mode>>
  BY <1>2 DEF Alone
<1>3. CASE req' = [a \in Actors |-> Idle]
  BY <1>1, <1>3 DEF Alone
<1>4. ASSUME NEW a \in Actors, NEW op \in Ops, NEW v \in Nat, Begin(a, op, v) PROVE Alone'
  <2>1. /\ req'[a].at \in {"body", "read"}
        /\ \A b \in Actors \ {a} : req'[b] = req[b]
        /\ mode.serial => \A b \in Actors : req[b] = Idle
        /\ key' = key /\ mode' = mode
    BY <1>1, <1>4, BeginStage
  <2> QED BY <2>1 DEF Alone
<1>5. ASSUME NEW a \in Actors, Step(a) PROVE Alone'
  <2>1. /\ mode' = mode /\ req[a].at # "idle" /\ \A b \in Actors \ {a} : req'[b] = req[b]
    BY <1>1, <1>5, StageOrder
  <2>2. req[a] # Idle
    BY <1>1, <2>1
  <2>3. mode.serial => \A b \in Actors \ {a} : req[b] = Idle
    BY <2>2 DEF Alone
  <2>4. mode'.serial => \A b, c \in Actors : req'[b] # Idle /\ req'[c] # Idle => b = c
    BY <2>1, <2>3
  <2>5. ASSUME req'[a].at \in {"list", "first", "archive", "write"}
        PROVE /\ Read(a) \/ List(a) \/ ArchiveFirst(a) \/ ArchiveNew(a)
              /\ Read(a) => req'[a].snap = key
              /\ ~Read(a) => /\ req[a].at \in {"list", "first", "archive"}
                             /\ req'[a].snap = req[a].snap /\ req[a].op = "rotate"
              /\ req'[a].at = "write" => req[a].op \in {"rotate", "revoke", "restore"}
              /\ req'[a].at \in {"list", "first", "archive"} => req[a].op = "rotate"
              /\ req'[a].op = req[a].op
    <3>1. req'[a].op = req[a].op
      BY <1>1, <1>5, <2>5, StageOrder
    <3>2. \/ Read(a) /\ req'[a].snap = key
          \/ List(a) /\ req'[a].snap = req[a].snap
          \/ ArchiveFirst(a) /\ req'[a].snap = req[a].snap
          \/ ArchiveNew(a) /\ req'[a].snap = req[a].snap
      BY <1>1, <1>5, <2>5, StageOrder
    <3>3. List(a) \/ ArchiveFirst(a) \/ ArchiveNew(a) =>
            /\ req[a].at \in {"list", "first", "archive"} /\ req[a].at # "read" /\ req[a].op = "rotate"
      BY DEF List, ArchiveFirst, ArchiveNew, Alone
    <3>4. Read(a) => req[a].at = "read"
      BY DEF Read
    <3>5. Read(a) => /\ req'[a].at = "write" => req[a].op \in {"rotate", "revoke", "restore"}
                     /\ req'[a].at \in {"list", "first", "archive"} => req[a].op = "rotate"
      <4>1. Read(a) => ~(List(a) \/ ArchiveFirst(a) \/ ArchiveNew(a))
        BY <3>3, <3>4
      <4> QED BY <1>1, <1>5, <2>5, <4>1, StageOrder
    <3> QED BY <3>1, <3>2, <3>3, <3>4, <3>5
  <2>6. ASSUME req'[a].at \in {"list", "first", "archive", "write"}, mode.serial PROVE req'[a].snap = key'
    <3>1. key' = key
      BY <2>5, <2>6 DEF Read, List, ArchiveFirst, ArchiveNew
    <3> QED BY <2>5, <2>6, <3>1 DEF Alone
  <2>7. \A b \in Actors :
          /\ mode'.serial /\ req'[b].at \in {"list", "first", "archive", "write"} => req'[b].snap = key'
          /\ req'[b].at = "write" => req'[b].op \in {"rotate", "revoke", "restore"}
          /\ req'[b].at \in {"list", "first", "archive"} => req'[b].op = "rotate"
    BY <1>1, <2>1, <2>3, <2>5, <2>6 DEF Alone
  <2> QED BY <2>4, <2>7 DEF Alone
<1> QED BY <1>1, <1>2, <1>3, <1>4, <1>5, StepKinds

\* One at a time, a rotation's whole-row write leaves a revoked key revoked
\* (SerialUsableKept): only updates change whether a key is usable.
THEOREM UsableKept == Spec => SerialUsableKept
<1>1. Base /\ Alone /\ [Next]_vars =>
        [mode.serial /\ key'.usable # key.usable => \E a \in Actors : req[a].op \in {"revoke", "restore"}]_vars
  <2> SUFFICES ASSUME Base, Alone, [Next]_vars, mode.serial, key'.usable # key.usable
               PROVE \E a \in Actors : req[a].op \in {"revoke", "restore"}
    OBVIOUS
  <2>1. PICK a \in Actors : Step(a)
    BY StepKinds, BeginStage DEF Base
  <2>2. /\ Write(a) /\ req[a].at = "write"
        /\ key'.usable = (IF req[a].op = "rotate" THEN req[a].snap.usable ELSE req[a].op = "restore")
    BY <2>1, KeyEffect DEF Base, Write
  <2> QED BY <2>2 DEF Alone
<1> QED BY <1>1, AloneInit, AloneNext, BaseInvariant, PTL DEF Spec, SerialUsableKept

-----------------------------------------------------------------------------
(* True labels, when requests run one at a time and none fails.            *)

Rotating(r) == r.at = "write" /\ r.op = "rotate"

\* What a request has read is what the version it will name has.
ReadTrue(r) ==
    /\ r.at = "current" => r.snap.value = key.value
    /\ r.at = "fallback" => 1 \notin Versions
    /\ r.at = "use" => IsTrue(LabelOf(r))
    /\ Rotating(r) => Versions # {} /\ r.value = rows[CurrentVersion]

\* Strengthening of SerialLabelsTrue: the newest row has the key's material,
\* except between the two statements of a rotation.
Truthful ==
    mode.serial /\ ~mode.fails =>
        /\ \A u \in used : IsTrue(u.is)
        /\ \A e \in cached : IsTrue(e)
        /\ \A a \in Actors : ReadTrue(req[a])
        /\ Versions # {} /\ (\A a \in Actors : ~Rotating(req[a])) =>
              rows[CurrentVersion] = key.value

\* A request is about to resolve its version only after it has read the key.
LEMMA ReadOrder ==
    ASSUME TypeOK, NEW a \in Actors, Step(a), req'[a].at = "current"
    PROVE  Read(a) /\ req'[a].snap = key /\ key' = key /\ rows' = rows
<1>1. req \in [Actors -> Request] /\ req[a] \in Request
  BY DEF TypeOK
<1>2. \A stage : Goto(a, stage) => req'[a].at = stage
  BY <1>1 DEF Goto, Request
<1>3. Finish(a) => req'[a].at = "idle"
  BY <1>1 DEF Finish, Idle
<1>4. ~List(a) /\ ~ArchiveFirst(a) /\ ~ArchiveNew(a)
  BY <1>1, <1>2, <1>3 DEF List, ArchiveFirst, ArchiveNew, Request
<1>5. ~(Write(a) \/ Evict(a) \/ Mark(a) \/ SoftDelete(a) \/ Recover(a) \/ Sign(a) \/ Export(a) \/ Fail(a))
  BY <1>2, <1>3 DEF Write, Evict, Mark, SoftDelete, Recover, Sign, Export, Fail
<1>6. ~Current(a)
  <2> DEFINE v == IF req[a].version = 0 THEN CurrentVersion ELSE req[a].version
  <2>1. ASSUME Current(a)
        PROVE  \/ Finish(a)
               \/ req' = [req EXCEPT ![a].version = v, ![a].value = req[a].snap.value, ![a].at = "use"]
               \/ req' = [req EXCEPT ![a].version = v, ![a].at = "fetch"]
    BY <2>1 DEF Current
  <2> HIDE DEF v
  <2> QED BY <1>1, <1>3, <2>1 DEF Request
<1>7. ~Fetch(a) /\ ~Fallback(a)
  BY <1>1, <1>2, <1>3 DEF Fetch, Fallback, Request
<1>8. Read(a)
  BY <1>4, <1>5, <1>6, <1>7 DEF Step
<1>9. \E stage : req' = [req EXCEPT ![a].snap = key, ![a].at = stage]
  BY <1>3, <1>8 DEF Read
<1> QED BY <1>1, <1>8, <1>9 DEF Read, Request

\* A version 1 without a row is the one that falls back to the key's.
LEMMA FallbackOrder ==
    ASSUME TypeOK, NEW a \in Actors, Fetch(a), req'[a].at = "fallback"
    PROVE  1 \notin Versions
<1>1. req[a].version \in Versions => req'[a].at = "use"
  BY DEF TypeOK, Fetch, Request
<1>2. Finish(a) => req'[a].at = "idle"
  BY DEF TypeOK, Finish, Idle
<1> QED BY <1>1, <1>2 DEF Fetch

\* The newest row is the one a step has just added.
LEMMA NewestRow ==
    ASSUME Base, NEW v \in Nat \ {0}, NEW m \in Nat, Insert(v, m), v \notin Versions,
           v \in 1 .. Cardinality(Versions) + 1
    PROVE  Versions' # {} /\ CurrentVersion' = v /\ rows'[v] = m
<1> DEFINE n == Cardinality(Versions)
<1>1. n \in Nat /\ Versions = 1 .. n
  BY CurrentIsLast DEF Base, VersionsContiguous
<1>2. v = n + 1 /\ Versions' = Versions \cup {v} /\ rows'[v] = m
  BY <1>1, InsertNext DEF Base
<1>3. v \in Versions' /\ \A u \in Versions' : u <= v
  BY <1>1, <1>2
<1>4. \A w \in Versions' : (\A u \in Versions' : u <= w) => w = v
  BY <1>1, <1>2
<1>5. CurrentVersion' = CHOOSE w \in Versions' : \A u \in Versions' : u <= w
  BY <1>3 DEF CurrentVersion
<1> QED BY <1>2, <1>3, <1>4, <1>5

\* What an alone request finds: nobody else is at work.
LEMMA Lone ==
    ASSUME Base, Alone, mode.serial, NEW a \in Actors, Step(a)
    PROVE  \A b \in Actors \ {a} : req[b].at = "idle" /\ req'[b].at = "idle"
<1>1. req[a].at # "idle" /\ \A b \in Actors \ {a} : req'[b] = req[b]
  BY StageOrder DEF Base
<1>2. \A b \in Actors \ {a} : req[b] = Idle
  BY <1>1 DEF Alone, Idle
<1> QED BY <1>1, <1>2 DEF Idle

\* A true label stays true: no step takes a row or the key's material from it.
LEMMA TruthStays ==
    ASSUME Base, Preserved, Alone, Truthful, mode.serial, ~mode.fails,
           NEW a \in Actors, Step(a), NEW l, IsTrue(l)
    PROVE  IsTrue(l)'
<1>0. TypeOK /\ Versions \subseteq Versions' /\ \A u \in Versions : rows'[u] = rows[u]
  BY RowsGrow DEF Base, Next
<1>1. CASE l.version \in Versions
  BY <1>0, <1>1 DEF IsTrue
<1>2. CASE l.version \notin Versions
  <2>1. l.version = 1 /\ l.value = key.value /\ 1 \notin Versions
    BY <1>2 DEF IsTrue
  <2>2. Versions = {}
    <3>1. Cardinality(Versions) \in Nat /\ Versions = 1 .. Cardinality(Versions)
      BY CurrentIsLast DEF Base, VersionsContiguous
    <3> QED BY <2>1, <3>1
  <2>3. CASE Write(a)
    <3>1. /\ req[a].at = "write" /\ rows' = rows
          /\ key'.value = (IF req[a].op = "rotate" THEN req[a].value ELSE req[a].snap.value)
      BY <1>0, <2>3, KeyEffect DEF Write
    <3>2. req[a].op # "rotate" /\ req[a].snap = key
      BY <2>2, <3>1 DEF Truthful, ReadTrue, Rotating, Alone
    <3> QED BY <2>1, <3>1, <3>2 DEF IsTrue, Versions
  <2>4. CASE ArchiveFirst(a)
    <3>1. req[a].snap = key /\ key' = key
      BY <2>4 DEF ArchiveFirst, Alone
    <3>2. rows' = [u \in Versions \cup {1} |-> IF u = 1 THEN key.value ELSE rows[u]]
      BY <2>1, <2>4, <3>1 DEF ArchiveFirst, Insert
    <3>3. 1 \in Versions' /\ rows'[1] = key.value
      BY <3>2 DEF Versions
    <3> QED BY <2>1, <3>3 DEF IsTrue
  <2>5. CASE ~Write(a) /\ ~ArchiveFirst(a)
    <3>1. ~ArchiveNew(a)
      BY <2>2 DEF ArchiveNew, Preserved
    <3>2. rows' = rows
      BY <2>5, <3>1 DEF Step, Read, List, Evict, Mark, SoftDelete, Recover, Current, Fetch,
         Fallback, Sign, Export, Fail
    <3>3. key'.value = key.value
      BY <1>0, <2>5, KeyEffect
    <3> QED BY <2>1, <3>2, <3>3 DEF IsTrue, Versions
  <2> QED BY <2>3, <2>4, <2>5
<1> QED BY <1>1, <1>2

\* What a request knows after its step is true.
LEMMA ReadStaysTrue ==
    ASSUME Base, Preserved, Alone, Truthful, mode.serial, ~mode.fails, NEW a \in Actors, Step(a)
    PROVE  ReadTrue(req[a])'
<1> DEFINE r == req[a]
           x == req'[a]
<1>0. /\ TypeOK /\ r \in Request /\ ReadTrue(r) /\ r.snap \in Row
      /\ \A b \in Actors \ {a} : req[b].at = "idle"
  BY Lone DEF Base, TypeOK, Request, Truthful
<1>1. x.at = "current" => x.snap.value = key'.value
  BY <1>0, ReadOrder
<1>2. ASSUME x.at = "fallback" PROVE 1 \notin Versions'
  <2>1. Fetch(a)
    BY <1>0, <1>2, AnswerOrder
  <2>2. 1 \notin Versions
    BY <1>0, <1>2, <2>1, FallbackOrder
  <2> QED BY <2>1, <2>2 DEF Fetch, Versions
<1>3. ASSUME x.at = "use"
      PROVE  IF x.version \in Versions' THEN x.value = rows'[x.version]
             ELSE x.version = 1 /\ x.value = key'.value
  <2>1. Current(a) \/ Fetch(a) \/ Fallback(a)
    BY <1>0, <1>3, AnswerOrder
  <2>2. rows' = rows /\ key' = key
    BY <2>1 DEF Current, Fetch, Fallback
  <2>3. CASE /\ Current(a) /\ x.version = CurrentVersion /\ x.value = r.snap.value
    <3>1. x.value = key.value /\ r.at = "current"
      BY <1>0, <2>3 DEF Current, ReadTrue
    <3>2. \A b \in Actors : ~Rotating(req[b])
      BY <1>0, <3>1 DEF Rotating
    <3>3. Versions # {} => CurrentVersion \in Versions /\ rows[CurrentVersion] = key.value
      BY <3>2, CurrentIsLast DEF Base, Truthful
    <3>4. Versions = {} => CurrentVersion = 1
      BY CurrentIsLast DEF Base
    <3> QED BY <2>2, <2>3, <3>1, <3>3, <3>4 DEF Versions
  <2>4. CASE x.version \in Versions /\ x.value = rows[x.version]
    BY <2>2, <2>4 DEF Versions
  <2>5. CASE Fallback(a) /\ x.version = r.version /\ x.value = key.value
    <3>1. r.version = 1 /\ 1 \notin Versions
      BY <1>0, <2>5 DEF Fallback, ReadTrue, Base, Numbered
    <3> QED BY <2>2, <2>5, <3>1 DEF Versions
  <2> QED BY <1>0, <1>3, <2>3, <2>4, <2>5, AnswerOrder
<1>4. ASSUME Rotating(x) PROVE Versions' # {} /\ x.value = rows'[CurrentVersion']
  <2>1. x.op = r.op \/ x = Idle
    BY <1>0, StageOrder
  <2>2. r.op = "rotate"
    BY <1>4, <2>1 DEF Rotating, Idle
  <2>3. ArchiveNew(a) /\ r.version \notin Versions /\ x.value = fresh
    BY <1>0, <1>4, <2>2, StageOrder DEF Rotating
  <2>4. Insert(r.version, fresh) /\ r.version \in 1 .. Cardinality(Versions) + 1
    BY <2>3 DEF ArchiveNew, Base, Numbered
  <2>5. r.version \in Nat \ {0} /\ fresh \in Nat
    <3>1. r.version \in Nat /\ fresh \in Nat
      BY <1>0 DEF Request, TypeOK
    <3>2. Cardinality(Versions) \in Nat
      BY CurrentIsLast DEF Base
    <3> QED BY <2>4, <3>1, <3>2
  <2> QED BY <2>3, <2>4, <2>5, NewestRow
<1>5. x.at = "use" => IsTrue(LabelOf(req[a]))'
  BY <1>3 DEF IsTrue, LabelOf
<1> QED BY <1>1, <1>2, <1>4, <1>5 DEF ReadTrue

\* The newest row has the key's material again once the rotation has written.
LEMMA NewestIsKey ==
    ASSUME Base, Preserved, Alone, Truthful, mode.serial, ~mode.fails, NEW a \in Actors, Step(a),
           ~Rotating(req'[a]), Versions' # {}
    PROVE  rows'[CurrentVersion'] = key'.value
<1> DEFINE r == req[a]
           x == req'[a]
<1>0. /\ TypeOK /\ r \in Request /\ ReadTrue(r) /\ key \in Row
      /\ \A b \in Actors \ {a} : req[b].at = "idle"
  BY Lone DEF Base, TypeOK, Request, Truthful
<1>1. ~Rotating(r) => \A b \in Actors : ~Rotating(req[b])
  BY <1>0 DEF Rotating
<1>2. CASE Write(a)
  <2>1. /\ r.at = "write" /\ rows' = rows
        /\ key'.value = (IF r.op = "rotate" THEN r.value ELSE r.snap.value)
    BY <1>0, <1>2, KeyEffect DEF Write
  <2>2. Versions' = Versions /\ CurrentVersion' = CurrentVersion
    BY <2>1 DEF Versions, CurrentVersion
  <2>3. CASE r.op = "rotate"
    BY <1>0, <2>1, <2>2, <2>3 DEF ReadTrue, Rotating
  <2>4. CASE r.op # "rotate"
    <3>1. r.snap = key
      BY <2>1 DEF Alone
    <3>2. rows[CurrentVersion] = key.value
      BY <1>1, <2>2, <2>4 DEF Rotating, Truthful
    <3> QED BY <2>1, <2>2, <2>4, <3>1, <3>2
  <2> QED BY <2>3, <2>4
<1>3. CASE ~Write(a) /\ rows' = rows
  <2>1. key'.value = key.value
    BY <1>0, <1>3, KeyEffect
  <2>2. Versions' = Versions /\ CurrentVersion' = CurrentVersion
    BY <1>3 DEF Versions, CurrentVersion
  <2>3. ~Rotating(r)
    <3>1. r.at = "write" => Write(a)
      BY DEF Step, Read, List, ArchiveFirst, ArchiveNew, Evict, Mark, SoftDelete, Recover,
         Current, Fetch, Fallback, Sign, Export, Fail
    <3> QED BY <1>3, <3>1 DEF Rotating
  <2> QED BY <1>1, <1>3, <2>1, <2>2, <2>3 DEF Truthful
<1>4. CASE ArchiveFirst(a) /\ rows' # rows
  <2>1. Insert(1, r.snap.value) /\ 1 \notin Versions /\ r.snap = key /\ key' = key
    BY <1>4 DEF ArchiveFirst, Alone
  <2>2. 1 \in 1 .. Cardinality(Versions) + 1 /\ key.value \in Nat
    <3>1. Cardinality(Versions) \in Nat
      BY CurrentIsLast DEF Base
    <3> QED BY <1>0, <3>1 DEF Row
  <2>3. CurrentVersion' = 1 /\ rows'[1] = key.value
    BY <2>1, <2>2, NewestRow
  <2> QED BY <2>1, <2>3
<1>5. CASE ArchiveNew(a) /\ rows' # rows
  <2>1. x.at = "write" /\ x.op = r.op
    BY <1>0, <1>5 DEF ArchiveNew, TypeOK, Request
  <2>2. r.op = "rotate"
    BY <1>5 DEF ArchiveNew, Alone
  <2> QED BY <2>1, <2>2 DEF Rotating
<1>6. rows' = rows \/ ArchiveFirst(a) \/ ArchiveNew(a)
  BY DEF Step, Read, List, Write, Evict, Mark, SoftDelete, Recover,
     Current, Fetch, Fallback, Sign, Export, Fail
<1> QED BY <1>2, <1>3, <1>4, <1>5, <1>6

\* An answer names what it was given, and the cache keeps such an answer.
LEMMA AnswersTrue ==
    ASSUME Truthful, mode.serial, ~mode.fails, NEW a \in Actors, Step(a)
    PROVE  /\ \A u \in used' \ used : IsTrue(u.is)
           /\ \A e \in cached' \ cached : IsTrue(e)
<1>1. CASE Sign(a)
  <2>1. PICK e \in IF Hits(req[a]) = {} THEN {LabelOf(req[a])} ELSE Hits(req[a]) :
          /\ used' = used \cup {[op |-> "sign", is |-> [LabelOf(req[a]) EXCEPT !.value = e.value]]}
          /\ cached' = cached \cup {e}
    BY <1>1 DEF Sign
  <2>2. IsTrue(LabelOf(req[a]))
    BY <1>1 DEF Sign, Truthful, ReadTrue
  <2>3. IsTrue(e) /\ e.version = req[a].version
    BY <2>1, <2>2 DEF Hits, LabelOf, Truthful
  <2> DEFINE l == [LabelOf(req[a]) EXCEPT !.value = e.value]
  <2>4. l.version = e.version /\ l.value = e.value
    BY <2>3 DEF LabelOf
  <2>5. IsTrue(l)
    BY <2>3, <2>4 DEF IsTrue
  <2> QED BY <2>1, <2>3, <2>5
<1>2. CASE Export(a)
  <2>1. IsTrue(LabelOf(req[a]))
    BY <1>2 DEF Export, Truthful, ReadTrue
  <2> QED BY <1>2, <2>1 DEF Export
<1>3. CASE ~Sign(a) /\ ~Export(a)
  <2>1. used' = used /\ (cached' = cached \/ cached' = {})
    BY <1>3 DEF Step, Read, List, ArchiveFirst, ArchiveNew, Write, Evict, Mark, SoftDelete,
       Recover, Current, Fetch, Fallback, Fail
  <2> QED BY <2>1
<1> QED BY <1>1, <1>2, <1>3

LEMMA TruthfulNext == Base /\ Preserved /\ Alone /\ Truthful /\ [Next]_vars => Truthful'
<1> SUFFICES ASSUME Base, Preserved, Alone, Truthful, [Next]_vars, mode'.serial, ~mode'.fails
             PROVE  Truthful'
  BY DEF Truthful
<1>1. ASSUME NEW a \in Actors, Step(a) PROVE Truthful'
  <2>0. mode.serial /\ ~mode.fails /\ \A b \in Actors \ {a} : req'[b].at = "idle"
    <3>1. mode' = mode
      BY <1>1, StageOrder DEF Base
    <3>2. mode.serial
      BY <3>1
    <3> QED BY <1>1, <3>1, <3>2, Lone
  <2>1. \A u \in used' : IsTrue(u.is)'
    <3> SUFFICES ASSUME NEW u \in used' PROVE IsTrue(u.is)'
      OBVIOUS
    <3>1. IsTrue(u.is)
      BY <1>1, <2>0, AnswersTrue DEF Truthful
    <3> QED BY <1>1, <2>0, <3>1, TruthStays
  <2>2. \A e \in cached' : IsTrue(e)'
    <3> SUFFICES ASSUME NEW e \in cached' PROVE IsTrue(e)'
      OBVIOUS
    <3>1. IsTrue(e)
      BY <1>1, <2>0, AnswersTrue DEF Truthful
    <3> QED BY <1>1, <2>0, <3>1, TruthStays
  <2>3. \A b \in Actors : ReadTrue(req[b])'
    <3>1. ReadTrue(req[a])'
      BY <1>1, <2>0, ReadStaysTrue
    <3>2. \A b \in Actors \ {a} : ReadTrue(req[b])'
      BY <2>0 DEF ReadTrue, Rotating
    <3> QED BY <3>1, <3>2
  <2>4. Versions' # {} /\ (\A b \in Actors : ~Rotating(req'[b])) =>
          rows'[CurrentVersion'] = key'.value
    BY <1>1, <2>0, NewestIsKey
  <2> QED BY <2>1, <2>2, <2>3, <2>4 DEF Truthful
<1>2. ASSUME UNCHANGED <<key, rows, used>>, cached' \subseteq cached, mode' = mode,
             \A a \in Actors : req'[a] = req[a]
                 \/ (req[a].at = "idle" /\ req'[a].at \in {"body", "read"})
      PROVE  Truthful'
  <2>1. Versions' = Versions /\ CurrentVersion' = CurrentVersion
    BY <1>2 DEF Versions, CurrentVersion
  <2>2. \A l : IsTrue(l) => IsTrue(l)'
    BY <1>2, <2>1 DEF IsTrue
  <2>3. \A a \in Actors : Rotating(req[a]) <=> Rotating(req'[a])
    BY <1>2 DEF Rotating
  <2>4. \A a \in Actors : ReadTrue(req[a])'
    <3> SUFFICES ASSUME NEW a \in Actors PROVE ReadTrue(req[a])'
      OBVIOUS
    <3>1. CASE req'[a] = req[a]
      BY <1>2, <2>1, <3>1 DEF Truthful, ReadTrue, IsTrue
    <3>2. CASE req'[a].at \in {"body", "read"}
      BY <3>2 DEF ReadTrue, Rotating
    <3> QED BY <1>2, <3>1, <3>2
  <2> QED BY <1>2, <2>1, <2>2, <2>3, <2>4 DEF Truthful
<1>3. ASSUME NEW a \in Actors, NEW op \in Ops, NEW v \in Nat, Begin(a, op, v) PROVE Truthful'
  <2>1. /\ req'[a].at \in {"body", "read"} /\ \A b \in Actors \ {a} : req'[b] = req[b]
        /\ UNCHANGED <<key, rows, cached, used, mode>>
    BY <1>3, BeginStage DEF Base
  <2>2. req[a].at = "idle"
    BY <1>3 DEF Begin, Idle
  <2> QED BY <1>2, <2>1, <2>2
<1>4. CASE CacheExpire \/ BecomeDue \/ UNCHANGED vars
  <2>1. UNCHANGED <<key, rows, used, mode, req>> /\ cached' \subseteq cached
    BY <1>4 DEF CacheExpire, BecomeDue, vars
  <2> QED BY <1>2, <2>1
<1>5. ~Restart
  BY DEF Restart
<1>6. ASSUME AutoRotate PROVE Truthful'
  BY <1>3, <1>6 DEF AutoRotate, Ops, Actors
<1>7. ASSUME NEW c \in Clients, Issue(c) PROVE Truthful'
  BY <1>3, <1>7, Begins DEF Base, Actors
<1> QED BY <1>1, <1>4, <1>5, <1>6, <1>7 DEF Next

\* Requests that run one at a time, and do not fail, answer with the material
\* of the version they name, from the rows, the copy and the cache alike
\* (resolveVersionValue, resolveKeyMaterial, ExportKey).
THEOREM LabelsStayTrue == Spec => []SerialLabelsTrue
<1>1. Init => Truthful
  BY DEF Init, Truthful, ReadTrue, Rotating, Idle, Versions
<1>2. Truthful => SerialLabelsTrue
  BY DEF Truthful, SerialLabelsTrue
<1>3. Init => Preserved
  BY DEF Init, Preserved, Versions, Vals, First, Idle
<1> QED
  BY <1>1, <1>2, <1>3, TruthfulNext, PreservedKept, AloneInit, AloneNext, BaseInvariant, PTL DEF Spec

-----------------------------------------------------------------------------
(* The history of versions.                                                *)

\* The version rows are a table from their numbers.
Table == rows = [v \in Versions |-> rows[v]]

LEMMA TableKept ==
    ASSUME Base, Table, [Next]_vars
    PROVE Table'
<1>1. CASE UNCHANGED rows
  BY <1>1 DEF Table, Versions
<1>2. ASSUME NEW v \in Nat \ {0}, NEW m \in Nat, Insert(v, m) PROVE Table'
  BY <1>2 DEF Insert, Table, Versions
<1> QED BY <1>1, <1>2, RowsStep

\* As a table with contiguous numbers, the rows are a sequence.
LEMMA RowsSeq ==
    Base /\ Table => rows \in Seq(Nat) /\ Len(rows) = Cardinality(Versions)
                        /\ Versions = 1 .. Len(rows)
<1> SUFFICES ASSUME Base, Table
             PROVE  rows \in Seq(Nat) /\ Len(rows) = Cardinality(Versions) /\ Versions = 1 .. Len(rows)
  OBVIOUS
<1>1. PICK n \in Nat : n = Cardinality(Versions)
  BY CurrentIsLast DEF Base
<1>2. Versions = 1 .. n
  BY <1>1 DEF Base, VersionsContiguous
<1>3. rows \in [1 .. n -> Nat]
  BY <1>2 DEF Table, Base, TypeOK, Versions
<1>4. rows \in Seq(Nat) /\ Len(rows) = n
  BY <1>3
<1> QED BY <1>1, <1>2, <1>4

\* A step adds the next version or leaves the history alone.
LEMMA HistoryStep ==
    ASSUME Base, Table, [Next]_vars
    PROVE [History!HistoryNext]_<<[item \in {"key"} |-> rows], {}>>
<1> DEFINE versions == [item \in {"key"} |-> rows]
<1>1. CASE UNCHANGED rows
  BY <1>1
<1>2. ASSUME NEW v \in Nat \ {0}, NEW m \in Nat, Insert(v, m), v \notin Versions,
             v \in 1 .. Cardinality(Versions) + 1
      PROVE History!Add("key")
  <2>1. rows \in Seq(Nat) /\ Len(rows) = Cardinality(Versions) /\ Versions = 1 .. Len(rows)
    BY RowsSeq
  <2>2. PICK k \in Nat : k = Len(rows)
    BY <2>1
  <2>3. v \notin 1 .. k /\ v \in 1 .. k + 1
    BY <1>2, <2>1, <2>2, Zenon
  <2>4. v = k + 1 /\ 1 .. k + 1 = (1 .. k) \cup {v}
    BY <2>3
  <2>5. rows' = [u \in 1 .. k + 1 |-> IF u = v THEN m ELSE rows[u]]
    BY <1>2, <2>1, <2>2, <2>4, Zenon DEF Insert
  <2>6. DOMAIN rows' = 1 .. k + 1 /\ (\A n \in 1 .. k : rows'[n] = rows[n]) /\ rows'[k + 1] \in Nat
    BY <2>3, <2>4, <2>5
  <2>7. versions["key"] = rows /\ versions'["key"] = rows'
        /\ versions' = [versions EXCEPT !["key"] = rows']
    OBVIOUS
  <2>8. History!Extends(rows', rows)
    BY <2>2, <2>6 DEF History!Extends
  <2> QED BY <2>7, <2>8 DEF History!Add
<1> QED BY <1>1, <1>2, RowsStep DEF History!HistoryNext

\* Key versions implement a history of versions: a number stands for one
\* material for ever and numbers follow each other, although each rotation
\* numbers its version by a count that it read before.
THEOREM VersionsHistory == Spec => HistoryKept
<1>1. Init => Table /\ History!HistoryInit
  <2> SUFFICES ASSUME Init PROVE Table /\ History!HistoryInit
    OBVIOUS
  <2>1. rows = [v \in {} |-> 0] /\ DOMAIN rows = {}
    BY DEF Init
  <2>2. Table
    BY <2>1 DEF Table, Versions
  <2>3. rows = <<>>
    BY <2>1
  <2> QED BY <2>2, <2>3 DEF History!HistoryInit
<1> QED
  BY <1>1, BaseInvariant, TableKept, HistoryStep, PTL
  DEF Spec, HistoryKept, History!HistorySpec, History!historyVars
=============================================================================
