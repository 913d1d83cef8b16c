------------------------ MODULE TieredCacheProofs ------------------------
(***************************************************************************)
(* Proofs about TieredCache: types, the bound on how long a read of the    *)
(* process can be answered with what an update replaced, and that updates  *)
(* which nothing overlaps leave none of it.                                *)
(*                                                                         *)
(* A value that a call carries to a level was current when the call began, *)
(* or when the copy it was taken from was stored.  Call by call this dates *)
(* every copy of a replaced value by the moment it was replaced.           *)
(***************************************************************************)
EXTENDS TieredCache, TLAPS

\* When a value was replaced, for one that was.
Replaced(value) == wrote[value + 1]

\* Nothing is dated later than now, or names an update that was not made.
Dates == /\ db <= MaxUpdates
         /\ \A n \in 1..MaxUpdates : wrote[n] <= now
         /\ \A c \in Calls : call[c].since <= now /\ call[c].value <= db
         /\ \A k \in Keys : level1[k] # None =>
              level1[k].value <= db /\ level1[k].expires <= now + TTL1
         /\ \A k \in Keys : level2[k] # None =>
              level2[k].value <= db /\ level2[k].expires <= now + TTL2

\* No call outlasts its bound.
Short == \A c \in Calls : Busy(c) => now <= call[c].since + MaxStall

\* What a call read in the database was current when the call began.
Loaded ==
  \A c \in Calls : call[c].at \in {"set1", "set2"} /\ call[c].value < db =>
    call[c].since <= Replaced(call[c].value)

\* A replaced copy on the network was stored by such a call.
Second ==
  \A k \in Keys : level2[k] # None /\ level2[k].value < db =>
    level2[k].expires <= Replaced(level2[k].value) + MaxStall + TTL2

\* What a call took from the network had not expired when the call began.
Fetched ==
  \A c \in Calls : call[c].at = "copy" /\ call[c].value < db =>
    call[c].since <= Replaced(call[c].value) + MaxStall + TTL2

\* A replaced copy in the process was stored by one or the other.
First ==
  \A k \in Keys : level1[k] # None /\ level1[k].value < db =>
    level1[k].expires <= Replaced(level1[k].value) + Bound

Dated == Dates /\ Short /\ Loaded /\ Second /\ Fetched /\ First

IInv == TypeOK /\ Dated

-----------------------------------------------------------------------------

\* Whatever field a call changes with its stage, it stays one of its type.
LEMMA CallTyped ==
  ASSUME call \in [Calls -> CallStates], NEW c \in Calls, NEW stage \in Stages
  PROVE  /\ [call EXCEPT ![c].at = stage] \in [Calls -> CallStates]
         /\ \A t \in Nat :
              [call EXCEPT ![c].at = stage, ![c].since = t] \in [Calls -> CallStates]
         /\ \A n \in Nat :
              [call EXCEPT ![c].at = stage, ![c].value = n] \in [Calls -> CallStates]
         /\ \A k \in Keys :
              [call EXCEPT ![c].at = stage, ![c].key = k] \in [Calls -> CallStates]
         /\ \A left \in SUBSET Keys :
              [call EXCEPT ![c].at = stage, ![c].left = left] \in [Calls -> CallStates]
         /\ \A left \in SUBSET Keys :
              [call EXCEPT ![c].left = left, ![c].at = stage] \in [Calls -> CallStates]
  BY DEF CallStates

\* The stages a step leads to.
LEMMA StagesGiven ==
  /\ "level1" \in Stages /\ "level2" \in Stages /\ "copy" \in Stages
  /\ "database" \in Stages /\ "set1" \in Stages /\ "set2" \in Stages
  /\ "write" \in Stages /\ "range" \in Stages /\ "scan" \in Stages
  /\ "clear1" \in Stages /\ "clear2" \in Stages /\ "flush" \in Stages
  /\ "keys" \in Stages /\ "drop" \in Stages /\ "done" \in Stages
  BY DEF Stages

\* The fields of a call and of a copy have their types.
LEMMA FieldsTyped ==
  ASSUME TypeOK
  PROVE  /\ \A c \in Calls : /\ call[c].at \in Stages /\ call[c].key \in Keys
                             /\ call[c].value \in Nat /\ call[c].since \in Nat
                             /\ call[c].left \in SUBSET Keys
         /\ \A k \in Keys : level1[k] # None =>
              level1[k] \in Copies /\ level1[k].value \in Nat /\ level1[k].expires \in Nat
         /\ \A k \in Keys : level2[k] # None =>
              level2[k] \in Copies /\ level2[k].value \in Nat /\ level2[k].expires \in Nat
  BY DEF TypeOK, CallStates, Copies

\* A copy that is stored has its type.
LEMMA CopyTyped ==
  ASSUME TypeOK, NEW value \in Nat, NEW ttl \in Nat
  PROVE  Copied(value, ttl) \in Copies
  BY DEF Copied, Copies, TypeOK

\* Every action keeps the types.
LEMMA TypeStep == TypeOK /\ [Next]_vars => TypeOK'
<1> SUFFICES ASSUME TypeOK, [Next]_vars PROVE TypeOK'
    OBVIOUS
<1> USE TieredAssumption
<1>1. CASE Tick
      BY <1>1 DEF Tick, TypeOK
<1>2. CASE Evict
      BY <1>2 DEF Evict, TypeOK
<1>3. CASE Restart
  <2>1. \A c \in Calls : [call[c] EXCEPT !.at = "done"] \in CallStates
        BY StagesGiven DEF TypeOK, CallStates
  <2>2. call' \in [Calls -> CallStates]
        BY <1>3, <2>1 DEF Restart, TypeOK
  <2>3. QED
        BY <1>3, <2>2 DEF Restart, TypeOK
<1>4. ASSUME NEW c \in Calls, Step(c) PROVE TypeOK'
  <2> DEFINE k == call[c].key
  <2>a. k \in Keys /\ call[c].value \in Nat /\ call[c].left \in SUBSET Keys
        BY FieldsTyped
  <2>b. /\ call \in [Calls -> CallStates]
        /\ \A stage \in Stages : [call EXCEPT ![c].at = stage] \in [Calls -> CallStates]
        BY CallTyped DEF TypeOK
  <2>c. \A stage \in Stages :
          /\ \A n \in Nat : [call EXCEPT ![c].at = stage, ![c].value = n] \in [Calls -> CallStates]
          /\ \A n \in Nat : [call EXCEPT ![c].at = stage, ![c].since = n] \in [Calls -> CallStates]
          /\ \A l \in SUBSET Keys :
               /\ [call EXCEPT ![c].at = stage, ![c].left = l] \in [Calls -> CallStates]
               /\ [call EXCEPT ![c].left = l, ![c].at = stage] \in [Calls -> CallStates]
          /\ \A x \in Keys : [call EXCEPT ![c].at = stage, ![c].key = x] \in [Calls -> CallStates]
        BY <2>b, CallTyped
  <2>d. \A n \in Nat : \A ttl \in {TTL1, TTL2} : Copied(n, ttl) \in Copies
        BY CopyTyped
  <2> HIDE DEF k
  <2>1. CASE Begin(c)
    <3>0. PICK stage \in Stages :
            call' = [call EXCEPT ![c].at = stage, ![c].since = now]
          BY <2>1, StagesGiven DEF Begin
    <3>1. call' \in [Calls -> CallStates]
          BY <2>b, <2>c, <3>0 DEF TypeOK
    <3>2. QED
          BY <2>1, <3>1 DEF Begin, TypeOK
  <2>2. CASE Get1(c)
    <3>1. call' \in [Calls -> CallStates]
          BY <2>2, <2>b, StagesGiven DEF Get1, Goto
    <3>2. QED
          BY <2>2, <3>1 DEF Get1, TypeOK
  <2>3. CASE Get2(c)
    <3>a. ASSUME call' = [call EXCEPT ![c].at = "copy", ![c].value = level2[k].value],
                 Live(level2[k])
          PROVE  call' \in [Calls -> CallStates]
      <4>1. level2[k].value \in Nat
            BY <3>a, <2>a, FieldsTyped DEF Live
      <4>2. QED
            BY <3>a, <4>1, <2>c, StagesGiven
    <3>b. ASSUME Goto(c, "database")
          PROVE  call' \in [Calls -> CallStates]
          BY <3>b, <2>b, StagesGiven DEF Goto
    <3>1. call' \in [Calls -> CallStates]
          BY <2>3, <3>a, <3>b DEF Get2, k
    <3>2. QED
          BY <2>3, <3>1 DEF Get2, TypeOK
  <2>4. CASE Copy(c)
    <3>1. call' \in [Calls -> CallStates]
          BY <2>4, <2>b, StagesGiven DEF Copy, Goto
    <3>2. QED
          BY <2>4, <3>1, <2>a, <2>d DEF Copy, TypeOK
  <2>5. CASE Load(c)
    <3>0. db \in Nat
          BY DEF TypeOK
    <3>1. call' \in [Calls -> CallStates]
          BY <2>5, <3>0, <2>c, StagesGiven DEF Load
    <3>2. QED
          BY <2>5, <3>1 DEF Load, TypeOK
  <2>6. CASE Set1(c)
    <3>1. call' \in [Calls -> CallStates]
          BY <2>6, <2>b, StagesGiven DEF Set1, Goto
    <3>2. QED
          BY <2>6, <3>1, <2>a, <2>d DEF Set1, TypeOK
  <2>7. CASE Set2(c)
    <3>1. call' \in [Calls -> CallStates]
          BY <2>7, <2>b, StagesGiven DEF Set2, Goto
    <3>2. QED
          BY <2>7, <3>1, <2>a, <2>d DEF Set2, TypeOK
  <2>8. CASE Write(c)
    <3>1. call' \in [Calls -> CallStates]
          BY <2>8, <2>b, StagesGiven DEF Write, Goto
    <3>2. serial' \in BOOLEAN
          BY <2>8 DEF Write, TypeOK
    <3>3. /\ db' \in 0..MaxUpdates
          /\ wrote' \in [1..MaxUpdates -> Nat]
          /\ UNCHANGED <<now, level1, level2>>
          BY <2>8 DEF Write, TypeOK
    <3>4. QED
          BY <3>1, <3>2, <3>3 DEF TypeOK
  <2>9. CASE Range1(c)
    <3>1. call' \in [Calls -> CallStates]
          BY <2>9, <2>c, StagesGiven DEF Range1
    <3>2. QED
          BY <2>9, <3>1 DEF Range1, TypeOK
  <2>10. CASE Scan(c)
    <3>0. PICK found \in SUBSET Keys, stage \in {"done", "clear1"} :
            call' = [call EXCEPT ![c].left = call[c].left \cup found, ![c].at = stage]
          BY <2>10 DEF Scan, OnNetwork
    <3>a. stage \in Stages /\ call[c].left \cup found \in SUBSET Keys
          BY <2>a, StagesGiven
    <3>1. call' \in [Calls -> CallStates]
          BY <3>0, <3>a, <2>c
    <3>2. QED
          BY <2>10, <3>1 DEF Scan, TypeOK
  <2>11. CASE Clear1(c)
    <3>0. PICK x \in call[c].left :
            call' = [call EXCEPT ![c].at = "clear2", ![c].key = x]
          BY <2>11 DEF Clear1
    <3>a. x \in Keys
          BY <2>a
    <3>1. call' \in [Calls -> CallStates]
          BY <3>0, <3>a, <2>c, StagesGiven
    <3>2. QED
          BY <2>11, <3>1, <2>a DEF Clear1, TypeOK
  <2>12. CASE Clear2(c)
    <3>1. call' \in [Calls -> CallStates]
          BY <2>12, <2>a, <2>c, StagesGiven DEF Clear2
    <3>2. QED
          BY <2>12, <3>1, <2>a DEF Clear2, TypeOK
  <2>13. CASE Flush(c)
    <3>1. call' \in [Calls -> CallStates]
          BY <2>13, <2>b, StagesGiven DEF Flush, Goto
    <3>2. QED
          BY <2>13, <3>1 DEF Flush, TypeOK
  <2>14. CASE List(c)
    <3>a. ASSUME NEW stage \in {"done", "drop"},
                 call' = [call EXCEPT ![c].left = OnNetwork, ![c].at = stage]
          PROVE  call' \in [Calls -> CallStates]
      <4>1. stage \in Stages /\ OnNetwork \in SUBSET Keys
            BY StagesGiven DEF OnNetwork
      <4>2. QED
            BY <3>a, <4>1, <2>c
    <3>b. ASSUME Goto(c, "done")
          PROVE  call' \in [Calls -> CallStates]
          BY <3>b, <2>b, StagesGiven DEF Goto
    <3>1. call' \in [Calls -> CallStates]
          BY <2>14, <3>a, <3>b DEF List
    <3>2. QED
          BY <2>14, <3>1 DEF List, TypeOK
  <2>15. CASE Drop(c)
    <3>0. PICK x \in call[c].left, stage \in {"done", "drop"} :
            call' = [call EXCEPT ![c].left = call[c].left \ {x}, ![c].at = stage]
          BY <2>15 DEF Drop
    <3>a. stage \in Stages /\ call[c].left \ {x} \in SUBSET Keys
          BY <2>a, StagesGiven
    <3>1. call' \in [Calls -> CallStates]
          BY <3>0, <3>a, <2>c
    <3>2. QED
          BY <2>15, <3>1 DEF Drop, TypeOK
  <2>16. QED
        BY <1>4, <2>1, <2>2, <2>3, <2>4, <2>5, <2>6, <2>7, <2>8, <2>9, <2>10, <2>11, <2>12, <2>13, <2>14, <2>15 DEF Step
<1>5. CASE UNCHANGED vars
      BY <1>5 DEF vars, TypeOK
<1>6. QED
      BY <1>1, <1>2, <1>3, <1>4, <1>5 DEF Next

-----------------------------------------------------------------------------

\* The stages in which a call carries a value to a level.
Carrying == {"copy", "set1", "set2"}

\* What only drops copies, and makes no call carry a value, keeps the dates.
LEMMA Quiet ==
  ASSUME TypeOK, Dated, UNCHANGED <<now, db, wrote>>,
         \A k \in Keys : level1'[k] \in {level1[k], None} /\ level2'[k] \in {level2[k], None},
         \A c \in Calls : /\ call'[c].value = call[c].value
                          /\ call'[c].since = call[c].since
                          /\ call'[c].at = call[c].at \/ call'[c].at \notin Carrying
                          /\ call'[c].at \in {"idle", "done"} \/ Busy(c)
  PROVE  Dated'
<1> USE DEF Dated
<1>1. Dates'
      BY DEF Dates
<1>2. Short'
      BY DEF Short, Busy
<1>3. Loaded'
      BY DEF Loaded, Replaced, Carrying
<1>4. Second'
      BY DEF Second, Replaced
<1>5. Fetched'
      BY DEF Fetched, Replaced, Carrying
<1>6. First'
      BY DEF First, Replaced, Bound
<1>7. QED
      BY <1>1, <1>2, <1>3, <1>4, <1>5, <1>6

\* The steps that are quiet.
LEMMA QuietSteps ==
  ASSUME TypeOK, Dated,
         \/ Evict \/ Restart
         \/ \E c \in Calls : \/ Get1(c) \/ Range1(c) \/ Scan(c) \/ Clear1(c) \/ Clear2(c)
                            \/ Flush(c) \/ List(c) \/ Drop(c)
  PROVE  Dated'
<1>1. CASE Evict
      BY <1>1, Quiet DEF Evict, TypeOK, Busy
<1>2. CASE Restart
      BY <1>2, Quiet DEF Restart, TypeOK, CallStates, Busy, Carrying
<1>3. ASSUME NEW c \in Calls,
             \/ Get1(c) \/ Range1(c) \/ Scan(c) \/ Clear1(c) \/ Clear2(c)
             \/ Flush(c) \/ List(c) \/ Drop(c)
      PROVE  Dated'
  <2>1. UNCHANGED <<now, db, wrote>> /\ Busy(c)
        BY <1>3 DEF Get1, Range1, Scan, Clear1, Clear2, Flush, List, Drop, Busy
  <2>2. \A k \in Keys : /\ level1'[k] \in {level1[k], None}
                        /\ level2'[k] \in {level2[k], None}
    <3>1. CASE Get1(c)
          BY <3>1 DEF Get1, TypeOK
    <3>2. CASE Range1(c)
          BY <3>2 DEF Range1, TypeOK
    <3>3. CASE Scan(c)
          BY <3>3 DEF Scan, TypeOK
    <3>4. CASE Clear1(c)
          BY <3>4 DEF Clear1, TypeOK
    <3>5. CASE Clear2(c)
          BY <3>5 DEF Clear2, TypeOK
    <3>6. CASE Flush(c)
          BY <3>6 DEF Flush, TypeOK
    <3>7. CASE List(c)
          BY <3>7 DEF List, TypeOK
    <3>8. CASE Drop(c)
          BY <3>8 DEF Drop, TypeOK
    <3>9. QED
          BY <1>3, <3>1, <3>2, <3>3, <3>4, <3>5, <3>6, <3>7, <3>8
  <2>3. \A d \in Calls \ {c} : call'[d] = call[d]
    <3>1. CASE Get1(c)
          BY <3>1 DEF Get1, TypeOK, Goto
    <3>2. CASE Range1(c)
          BY <3>2 DEF Range1, TypeOK
    <3>3. CASE Scan(c)
          BY <3>3 DEF Scan, TypeOK
    <3>4. CASE Clear1(c)
          BY <3>4 DEF Clear1, TypeOK
    <3>5. CASE Clear2(c)
          BY <3>5 DEF Clear2, TypeOK
    <3>6. CASE Flush(c)
          BY <3>6 DEF Flush, TypeOK, Goto
    <3>7. CASE List(c)
          BY <3>7 DEF List, TypeOK, Goto
    <3>8. CASE Drop(c)
          BY <3>8 DEF Drop, TypeOK
    <3>9. QED
          BY <1>3, <3>1, <3>2, <3>3, <3>4, <3>5, <3>6, <3>7, <3>8
  <2>4. /\ call'[c].value = call[c].value /\ call'[c].since = call[c].since
        /\ call'[c].at \notin Carrying
    <3>1. CASE Get1(c)
          BY <3>1 DEF Get1, TypeOK, CallStates, Carrying, Goto
    <3>2. CASE Range1(c)
          BY <3>2 DEF Range1, TypeOK, CallStates, Carrying
    <3>3. CASE Scan(c)
      <4>1. PICK found \in SUBSET Keys, stage \in {"done", "clear1"} :
              call' = [call EXCEPT ![c].left = call[c].left \cup found, ![c].at = stage]
            BY <3>3 DEF Scan, OnNetwork
      <4>2. QED
            BY <4>1 DEF TypeOK, CallStates, Carrying
    <3>4. CASE Clear1(c)
          BY <3>4 DEF Clear1, TypeOK, CallStates, Carrying
    <3>5. CASE Clear2(c)
          BY <3>5 DEF Clear2, TypeOK, CallStates, Carrying
    <3>6. CASE Flush(c)
          BY <3>6 DEF Flush, TypeOK, CallStates, Carrying, Goto
    <3>7. CASE List(c)
          BY <3>7 DEF List, TypeOK, CallStates, Carrying, Goto
    <3>8. CASE Drop(c)
      <4>1. PICK left \in SUBSET Keys, stage \in {"done", "drop"} :
              call' = [call EXCEPT ![c].left = left, ![c].at = stage]
        <5>1. PICK x \in call[c].left :
                call' = [call EXCEPT ![c].left = call[c].left \ {x},
                           ![c].at = IF call[c].left \ {x} = {} THEN "done" ELSE "drop"]
              BY <3>8 DEF Drop
        <5>2. call[c].left \ {x} \in SUBSET Keys
              BY DEF TypeOK, CallStates
        <5>3. QED
              BY <5>1, <5>2
      <4>2. QED
            BY <4>1 DEF TypeOK, CallStates, Carrying
    <3>9. QED
          BY <1>3, <3>1, <3>2, <3>3, <3>4, <3>5, <3>6, <3>7, <3>8
  <2>5. QED
        BY <2>1, <2>2, <2>3, <2>4, Quiet DEF Busy
<1>4. QED
      BY <1>1, <1>2, <1>3

\* A call that begins carries nothing.
LEMMA BeginStep ==
  ASSUME TypeOK, Dated, NEW c \in Calls, Begin(c)
  PROVE  Dated'
<1> USE TieredAssumption
<1>1. UNCHANGED <<now, db, level1, level2, wrote>>
      BY DEF Begin
<1>2. \A d \in Calls \ {c} : call'[d] = call[d]
      BY DEF Begin, TypeOK
<1>3. /\ call'[c].at \in {"level1", "write"} /\ call'[c].since = now
      /\ call'[c].value = call[c].value
      BY DEF Begin, TypeOK, CallStates
<1>4. Dates'
      BY <1>1, <1>2, <1>3 DEF Dated, Dates, TypeOK
<1>5. Short'
      BY <1>1, <1>2, <1>3 DEF Dated, Short, Busy, TypeOK
<1>6. Loaded'
      BY <1>1, <1>2, <1>3 DEF Dated, Loaded, Replaced
<1>7. Second' /\ First'
      BY <1>1 DEF Dated, Second, First, Replaced, Bound
<1>8. Fetched'
      BY <1>1, <1>2, <1>3 DEF Dated, Fetched, Replaced
<1>9. QED
      BY <1>4, <1>5, <1>6, <1>7, <1>8 DEF Dated

\* A call takes a copy of the network that has not expired, or nothing.
LEMMA Get2Step ==
  ASSUME TypeOK, Dated, NEW c \in Calls, Get2(c)
  PROVE  Dated'
<1> USE TieredAssumption
<1> DEFINE k == call[c].key
<1>0. k \in Keys
      BY DEF TypeOK, CallStates
<1> HIDE DEF k
<1>1. UNCHANGED <<now, db, level1, level2, wrote>> /\ Busy(c)
      BY DEF Get2, Busy
<1>2. \A d \in Calls \ {c} : call'[d] = call[d]
      BY DEF Get2, Goto, TypeOK
<1>3. CASE Goto(c, "database")
  <2>1. /\ call'[c].at = "database" /\ call'[c].since = call[c].since
        /\ call'[c].value = call[c].value
        BY <1>3 DEF Goto, TypeOK, CallStates
  <2>2. QED
        BY <1>1, <1>2, <2>1, Quiet DEF Busy, Carrying
<1>4. CASE Live(level2[k]) /\ call' = [call EXCEPT ![c].at = "copy", ![c].value = level2[k].value]
  <2>1. /\ call'[c].at = "copy" /\ call'[c].since = call[c].since
        /\ call'[c].value = level2[k].value
        BY <1>4 DEF TypeOK, CallStates
  <2>2. level2[k] # None /\ now <= level2[k].expires
        BY <1>4 DEF Live
  <2>3. Dates'
        BY <1>0, <1>1, <1>2, <2>1, <2>2 DEF Dated, Dates
  <2>4. Short'
        BY <1>1, <1>2, <2>1 DEF Dated, Short, Busy
  <2>5. Loaded'
        BY <1>1, <1>2, <2>1 DEF Dated, Loaded, Replaced
  <2>6. Second' /\ First'
        BY <1>1 DEF Dated, Second, First, Replaced, Bound
  <2>7. ASSUME level2[k].value < db
        PROVE  call[c].since <= Replaced(level2[k].value) + MaxStall + TTL2
    <3>1. level2[k].expires <= Replaced(level2[k].value) + MaxStall + TTL2
          BY <1>0, <2>2, <2>7 DEF Dated, Second
    <3>2. /\ now \in Nat /\ call[c].since \in Nat /\ call[c].since <= now
          /\ level2[k].expires \in Nat
          BY <1>0, <2>2, FieldsTyped DEF Dated, Dates, TypeOK
    <3>3. level2[k].value \in Nat /\ db \in 0..MaxUpdates
          BY <1>0, <2>2, FieldsTyped DEF TypeOK
    <3>4. Replaced(level2[k].value) \in Nat
          BY <2>7, <3>3 DEF TypeOK, Replaced
    <3>5. QED
          BY <2>2, <3>1, <3>2, <3>4
  <2>8. Fetched'
        BY <1>1, <1>2, <2>1, <2>7 DEF Dated, Fetched, Replaced
  <2>9. QED
        BY <2>3, <2>4, <2>5, <2>6, <2>8 DEF Dated
<1>5. QED
      BY <1>3, <1>4 DEF Get2, k

\* What a call reads in the database is current.
LEMMA LoadStep ==
  ASSUME TypeOK, Dated, NEW c \in Calls, Load(c)
  PROVE  Dated'
<1>1. UNCHANGED <<now, db, level1, level2, wrote>> /\ Busy(c)
      BY DEF Load, Busy
<1>2. \A d \in Calls \ {c} : call'[d] = call[d]
      BY DEF Load, TypeOK
<1>3. call'[c].at = "set1" /\ call'[c].since = call[c].since /\ call'[c].value = db
      BY DEF Load, TypeOK, CallStates
<1>4. db \in Nat
      BY DEF TypeOK
<1>5. Dates'
      BY <1>1, <1>2, <1>3, <1>4 DEF Dated, Dates
<1>6. Short'
      BY <1>1, <1>2, <1>3 DEF Dated, Short, Busy
<1>7. Loaded'
      BY <1>1, <1>2, <1>3, <1>4 DEF Dated, Loaded, Replaced
<1>8. Second' /\ First'
      BY <1>1 DEF Dated, Second, First, Replaced, Bound
<1>9. Fetched'
      BY <1>1, <1>2, <1>3 DEF Dated, Fetched, Replaced
<1>10. QED
      BY <1>5, <1>6, <1>7, <1>8, <1>9 DEF Dated

\* When a call carries a replaced value that it loaded, or fetched, the value
\* was replaced no longer ago than this.
LEMMA CarriedAge ==
  ASSUME TypeOK, Dated, NEW c \in Calls, call[c].value < db
  PROVE  /\ Replaced(call[c].value) \in Nat
         /\ call[c].at \in {"set1", "set2"} =>
              now <= Replaced(call[c].value) + MaxStall
         /\ call[c].at = "copy" =>
              now <= Replaced(call[c].value) + 2 * MaxStall + TTL2
<1> USE TieredAssumption
<1>1. now \in Nat /\ call[c].since \in Nat /\ call[c].value \in Nat /\ db \in 0..MaxUpdates
      BY FieldsTyped DEF TypeOK
<1>2. Replaced(call[c].value) \in Nat
      BY <1>1 DEF TypeOK, Replaced
<1>3. call[c].at \in {"set1", "set2", "copy"} => now <= call[c].since + MaxStall
      BY DEF Dated, Short, Busy
<1>4. call[c].at \in {"set1", "set2"} => call[c].since <= Replaced(call[c].value)
      BY DEF Dated, Loaded
<1>5. call[c].at = "copy" => call[c].since <= Replaced(call[c].value) + MaxStall + TTL2
      BY DEF Dated, Fetched
<1>6. QED
      BY <1>1, <1>2, <1>3, <1>4, <1>5

\* A call stores in the process what it loaded or fetched.
LEMMA StoreFirst ==
  ASSUME TypeOK, Dated, NEW c \in Calls, Copy(c) \/ Set1(c)
  PROVE  Dated'
<1> USE TieredAssumption
<1> DEFINE k == call[c].key
           v == call[c].value
<1>0. k \in Keys /\ v \in Nat /\ now \in Nat
      BY DEF TypeOK, CallStates
<1>1. /\ UNCHANGED <<now, db, level2, wrote>> /\ Busy(c)
      /\ call[c].at \in {"copy", "set1"}
      BY DEF Copy, Set1, Busy
<1>2. \A d \in Calls \ {c} : call'[d] = call[d]
      BY DEF Copy, Set1, Goto, TypeOK
<1>3. /\ call'[c].at \in {"done", "set2"} /\ call'[c].since = call[c].since
      /\ call'[c].value = v
      /\ call'[c].at = "set2" => call[c].at = "set1"
      BY DEF Copy, Set1, Goto, TypeOK, CallStates
<1>4. /\ \A x \in Keys \ {k} : level1'[x] = level1[x]
      /\ level1'[k] = [value |-> v, expires |-> now + TTL1]
      BY <1>0 DEF Copy, Set1, Copied, TypeOK
<1>5. level1'[k].value = v /\ level1'[k].expires = now + TTL1
      BY <1>4
<1> HIDE DEF k, v
<1>6. Dates'
  <2>1. v <= db
        BY DEF Dated, Dates, v
  <2>2. QED
        BY <1>0, <1>1, <1>2, <1>3, <1>4, <1>5, <2>1 DEF Dated, Dates
<1>7. Short'
      BY <1>1, <1>2, <1>3 DEF Dated, Short, Busy
<1>8. Loaded'
      BY <1>1, <1>2, <1>3 DEF Dated, Loaded, Replaced, v
<1>9. Second' /\ Fetched'
      BY <1>1, <1>2, <1>3 DEF Dated, Second, Fetched, Replaced
<1>10. First'
  <2>1. v < db => now <= Replaced(v) + 2 * MaxStall + TTL2 /\ Replaced(v) \in Nat
        BY <1>0, <1>1, CarriedAge DEF v
  <2>2. v < db => now + TTL1 <= Replaced(v) + Bound
        BY <1>0, <2>1 DEF Bound
  <2>3. QED
        BY <1>1, <1>4, <1>5, <2>2 DEF Dated, First, Replaced, Bound
<1>11. QED
      BY <1>6, <1>7, <1>8, <1>9, <1>10 DEF Dated

\* A call stores on the network what it loaded, or fails to.
LEMMA StoreSecond ==
  ASSUME TypeOK, Dated, NEW c \in Calls, Set2(c)
  PROVE  Dated'
<1> USE TieredAssumption
<1> DEFINE k == call[c].key
           v == call[c].value
<1>0. k \in Keys /\ v \in Nat /\ now \in Nat
      BY DEF TypeOK, CallStates
<1>1. /\ UNCHANGED <<now, db, level1, wrote>> /\ Busy(c)
      /\ call[c].at = "set2"
      BY DEF Set2, Busy
<1>2. \A d \in Calls \ {c} : call'[d] = call[d]
      BY DEF Set2, Goto, TypeOK
<1>3. call'[c].at = "done" /\ call'[c].since = call[c].since /\ call'[c].value = v
      BY DEF Set2, Goto, TypeOK, CallStates
<1>4. CASE UNCHANGED level2
      BY <1>1, <1>2, <1>3, <1>4, Quiet DEF Carrying, Busy, v
<1>5. CASE level2' = [level2 EXCEPT ![k] = Copied(v, TTL2)]
  <2>1. /\ \A x \in Keys \ {k} : level2'[x] = level2[x]
        /\ level2'[k] = [value |-> v, expires |-> now + TTL2]
        BY <1>0, <1>5 DEF Copied, TypeOK
  <2>2. level2'[k].value = v /\ level2'[k].expires = now + TTL2
        BY <2>1
  <2> HIDE DEF k, v
  <2>3. Dates'
    <3>1. v <= db
          BY DEF Dated, Dates, v
    <3>2. QED
          BY <1>0, <1>1, <1>2, <1>3, <2>1, <2>2, <3>1 DEF Dated, Dates
  <2>4. Short'
        BY <1>1, <1>2, <1>3 DEF Dated, Short, Busy
  <2>5. Loaded' /\ Fetched' /\ First'
        BY <1>1, <1>2, <1>3 DEF Dated, Loaded, Fetched, First, Replaced, Bound
  <2>6. Second'
    <3>1. v < db => now <= Replaced(v) + MaxStall /\ Replaced(v) \in Nat
          BY <1>0, <1>1, CarriedAge DEF v
    <3>2. v < db => now + TTL2 <= Replaced(v) + MaxStall + TTL2
          BY <1>0, <3>1
    <3>3. QED
          BY <1>1, <2>1, <2>2, <3>2 DEF Dated, Second, Replaced
  <2>7. QED
        BY <2>3, <2>4, <2>5, <2>6 DEF Dated
<1>6. QED
      BY <1>4, <1>5 DEF Set2

\* An update replaces the last value now, later than anything that carries it
\* began or was stored.
LEMMA WriteStep ==
  ASSUME TypeOK, Dated, NEW c \in Calls, Write(c)
  PROVE  Dated'
<1> USE TieredAssumption
<1>0. now \in Nat /\ db \in Nat /\ db < MaxUpdates /\ db + 1 \in 1..MaxUpdates
      BY DEF Write, TypeOK
<1>1. UNCHANGED <<now, level1, level2>> /\ db' = db + 1 /\ Busy(c)
      BY DEF Write, Busy
<1>2. \A d \in Calls \ {c} : call'[d] = call[d]
      BY DEF Write, Goto, TypeOK
<1>3. /\ call'[c].at \in {"range", "flush", "done"} /\ call'[c].since = call[c].since
      /\ call'[c].value = call[c].value
      BY DEF Write, Goto, TypeOK, CallStates
<1>4. /\ wrote'[db + 1] = now
      /\ \A n \in 1..MaxUpdates : n # db + 1 => wrote'[n] = wrote[n]
      BY <1>0, <1>1 DEF Write, TypeOK
<1>5. /\ wrote' \in [1..MaxUpdates -> Nat]
      /\ wrote'[db + 1] = now
      /\ \A v \in Nat : v < db => wrote'[v + 1] = Replaced(v) /\ Replaced(v) \in Nat
      BY <1>0, <1>4 DEF Replaced, Write, TypeOK
<1>6. \A v \in Nat : v < db' => v < db \/ v = db
      BY <1>0, <1>1
<1>7. Dates'
      BY <1>0, <1>1, <1>2, <1>3, <1>4, FieldsTyped DEF Dated, Dates
<1>8. Short'
      BY <1>1, <1>2, <1>3 DEF Dated, Short, Busy
<1>9. Loaded'
  <2> SUFFICES ASSUME NEW d \in Calls, call'[d].at \in {"set1", "set2"}, call'[d].value < db'
               PROVE  call'[d].since <= wrote'[call'[d].value + 1]
      BY DEF Loaded, Replaced
  <2>1. d # c /\ call'[d] = call[d]
        BY <1>2, <1>3
  <2>2. call[d].value \in Nat /\ call[d].since <= now
        BY FieldsTyped DEF Dated, Dates
  <2>3. QED
        BY <1>5, <1>6, <2>1, <2>2 DEF Dated, Loaded
<1>10. Fetched'
  <2> SUFFICES ASSUME NEW d \in Calls, call'[d].at = "copy", call'[d].value < db'
               PROVE  call'[d].since <= wrote'[call'[d].value + 1] + MaxStall + TTL2
      BY DEF Fetched, Replaced
  <2>1. d # c /\ call'[d] = call[d]
        BY <1>2, <1>3
  <2>2. call[d].value \in Nat /\ call[d].since <= now /\ call[d].since \in Nat
        BY FieldsTyped DEF Dated, Dates
  <2>3. CASE call[d].value = db
        BY <1>0, <1>5, <2>1, <2>2, <2>3
  <2>4. CASE call[d].value < db
        BY <1>5, <2>1, <2>2, <2>4 DEF Dated, Fetched
  <2>5. QED
        BY <1>6, <2>1, <2>2, <2>3, <2>4
<1>11. Second'
  <2> SUFFICES ASSUME NEW k \in Keys, level2[k] # None, level2[k].value < db'
               PROVE  level2[k].expires <= wrote'[level2[k].value + 1] + MaxStall + TTL2
      BY <1>1 DEF Second, Replaced
  <2>1. /\ level2[k].value \in Nat /\ level2[k].expires \in Nat
        /\ level2[k].expires <= now + TTL2
        BY FieldsTyped DEF Dated, Dates
  <2>2. CASE level2[k].value = db
    <3>1. wrote'[level2[k].value + 1] = now
          BY <1>5, <2>2
    <3>2. QED
          BY <1>0, <2>1, <3>1
  <2>3. CASE level2[k].value < db
        BY <1>5, <2>1, <2>3 DEF Dated, Second
  <2>4. QED
        BY <1>6, <2>1, <2>2, <2>3
<1>12. First'
  <2> SUFFICES ASSUME NEW k \in Keys, level1[k] # None, level1[k].value < db'
               PROVE  level1[k].expires <= wrote'[level1[k].value + 1] + Bound
      BY <1>1 DEF First, Replaced, Bound
  <2>1. /\ level1[k].value \in Nat /\ level1[k].expires \in Nat
        /\ level1[k].expires <= now + TTL1
        BY FieldsTyped DEF Dated, Dates
  <2>2. CASE level1[k].value = db
    <3>1. now + TTL1 <= now + Bound
          BY <1>0 DEF Bound
    <3>2. Bound \in Nat
          BY DEF Bound
    <3>3. wrote'[level1[k].value + 1] = now
          BY <1>5, <2>2
    <3>4. QED
          BY <1>0, <2>1, <3>1, <3>2, <3>3
  <2>3. CASE level1[k].value < db
        BY <1>5, <2>1, <2>3 DEF Dated, First
  <2>4. QED
        BY <1>6, <2>1, <2>2, <2>3
<1>13. QED
       BY <1>7, <1>8, <1>9, <1>10, <1>11, <1>12 DEF Dated

\* The clock waits for the calls.
LEMMA TickStep ==
  ASSUME TypeOK, Dated, Tick
  PROVE  Dated'
<1> USE TieredAssumption
<1>1. UNCHANGED <<db, level1, level2, call, wrote>> /\ now' = now + 1 /\ now \in Nat
      BY DEF Tick, TypeOK
<1>2. /\ \A n \in 1..MaxUpdates : wrote[n] \in Nat
      /\ \A c \in Calls : call[c].since \in Nat
      BY FieldsTyped DEF TypeOK
<1>3. Dates'
      BY <1>1, <1>2, FieldsTyped DEF Dated, Dates
<1>4. Short'
      BY <1>1, <1>2 DEF Short, Busy, Tick
<1>5. Loaded' /\ Second' /\ Fetched' /\ First'
      BY <1>1 DEF Dated, Loaded, Second, Fetched, First, Replaced, Bound
<1>6. QED
      BY <1>3, <1>4, <1>5 DEF Dated

\* The invariant is inductive.
LEMMA Inductive == IInv /\ [Next]_vars => IInv'
<1> SUFFICES ASSUME TypeOK, Dated, [Next]_vars PROVE Dated'
    BY TypeStep DEF IInv
<1>1. CASE UNCHANGED vars
      BY <1>1, Quiet DEF vars, Busy
<1>2. ASSUME NEW c \in Calls, Step(c) PROVE Dated'
      BY <1>2, QuietSteps, BeginStep, Get2Step, LoadStep, StoreFirst, StoreSecond, WriteStep
         DEF Step
<1>3. QED
      BY <1>1, <1>2, QuietSteps, TickStep DEF Next

\* It holds at the start.
LEMMA Start == Init => IInv
<1> SUFFICES ASSUME Init PROVE IInv
    OBVIOUS
<1> USE TieredAssumption
<1>1. call \in [Calls -> CallStates]
  <2>1. [at : {"idle"}, key : Keys, value : {0}, since : {0}, left : {{}}] \subseteq CallStates
        BY DEF CallStates, Stages
  <2>2. QED
        BY <2>1 DEF Init
<1>2. TypeOK
      BY <1>1 DEF Init, TypeOK
<1>3. \A c \in Calls : call[c].at = "idle" /\ call[c].value = 0 /\ call[c].since = 0
      BY DEF Init
<1>4. Dated
      BY <1>3 DEF Init, Dated, Dates, Short, Busy, Loaded, Second, Fetched, First
<1>5. QED
      BY <1>2, <1>4 DEF IInv

-----------------------------------------------------------------------------

\* Every variable keeps its type (TieredCache.Get, Set and Invalidate).
THEOREM TypeCorrect == Spec => []TypeOK
<1>1. IInv => TypeOK
      BY DEF IInv
<1>2. QED
      BY <1>1, Inductive, Start, PTL DEF Spec

\* No read is answered in the process with what an update replaced longer ago
\* than the lifetimes of both levels and the time of two calls, whatever the
\* lifetimes and however many reads and updates overlap (Get, Invalidate).
THEOREM StaleBounded == Spec => []StaleBound
<1>1. IInv => StaleBound
  <2> SUFFICES ASSUME TypeOK, Dated, NEW k \in Keys,
                      Live(level1[k]), level1[k].value < db
               PROVE  now <= wrote[level1[k].value + 1] + Bound
      BY DEF IInv, StaleBound
  <2>1. /\ level1[k] # None /\ now <= level1[k].expires
        /\ level1[k].expires <= Replaced(level1[k].value) + Bound
        BY DEF Live, Dated, First
  <2>2. /\ now \in Nat /\ level1[k].expires \in Nat /\ level1[k].value \in Nat
        /\ db \in 0..MaxUpdates /\ MaxUpdates \in Nat
        BY <2>1, FieldsTyped, TieredAssumption DEF TypeOK
  <2>3. Replaced(level1[k].value) \in Nat /\ Bound \in Nat
    <3>1. Bound \in Nat
          BY TieredAssumption DEF Bound
    <3>2. level1[k].value + 1 \in 1..MaxUpdates
          BY <2>2
    <3>3. QED
          BY <3>1, <3>2 DEF TypeOK, Replaced
  <2>4. QED
        BY <2>1, <2>2, <2>3 DEF Replaced
<1>2. QED
      BY <1>1, Inductive, Start, PTL DEF Spec

-----------------------------------------------------------------------------
(* Calls that take turns, when no access fails.                             *)

\* The keys with a copy of what an update replaced.
Stale1 == {k \in Keys : Live(level1[k]) /\ level1[k].value # db}
Stale2 == {k \in Keys : Live(level2[k]) /\ level2[k].value # db}

\* The stages of a removal, and what it has left to clear in each.
Clearing == {"range", "scan", "clear1", "clear2", "flush", "keys", "drop"}

Owed(c) ==
  LET left == call[c].left IN
  /\ call[c].at = "scan" => Stale1 \subseteq left
  /\ call[c].at = "clear1" => Stale1 \subseteq left /\ Stale2 \subseteq left
  /\ call[c].at = "clear2" => Stale1 \subseteq left \ {call[c].key} /\ Stale2 \subseteq left
  /\ call[c].at = "keys" => Stale1 = {}
  /\ call[c].at = "drop" => Stale1 = {} /\ Stale2 \subseteq left

\* Without a removal under way no copy is stale, nor what a call carries.
InTurn ==
  serial =>
    /\ \A c, d \in Calls : Busy(c) /\ Busy(d) => c = d
    /\ (\A c \in Calls : call[c].at \notin Clearing) => Stale1 = {} /\ Stale2 = {}
    /\ \A c \in Calls : call[c].at \in Carrying => call[c].value = db
    /\ \A c \in Calls : Owed(c)

\* A step changes its own call alone.
LEMMA OwnCall ==
  ASSUME TypeOK, NEW c \in Calls, Step(c)
  PROVE  \A d \in Calls \ {c} : call'[d] = call[d]
<1>1. CASE Begin(c)
  <2>1. PICK stage \in {"level1", "write"} :
          call' = [call EXCEPT ![c].at = stage, ![c].since = now]
        BY <1>1 DEF Begin
  <2>2. QED
        BY <2>1 DEF TypeOK
<1>2. CASE Get1(c) \/ Copy(c) \/ Set1(c) \/ Set2(c) \/ Write(c) \/ Flush(c)
  <2>1. PICK stage \in Stages : Goto(c, stage)
        BY <1>2, StagesGiven DEF Get1, Copy, Set1, Set2, Write, Flush
  <2>2. QED
        BY <2>1 DEF Goto, TypeOK
<1>3. CASE Get2(c)
      BY <1>3 DEF Get2, Goto, TypeOK
<1>4. CASE Load(c)
      BY <1>4 DEF Load, TypeOK
<1>5. CASE Range1(c)
      BY <1>5 DEF Range1, TypeOK
<1>6. CASE Scan(c)
      BY <1>6 DEF Scan, TypeOK
<1>7. CASE Clear1(c)
      BY <1>7 DEF Clear1, TypeOK
<1>8. CASE Clear2(c)
      BY <1>8 DEF Clear2, TypeOK
<1>9. CASE List(c)
      BY <1>9 DEF List, Goto, TypeOK
<1>10. CASE Drop(c)
       BY <1>10 DEF Drop, TypeOK
<1>11. QED
       BY <1>1, <1>2, <1>3, <1>4, <1>5, <1>6, <1>7, <1>8, <1>9, <1>10 DEF Step

\* A call that steps while calls take turns is the only one under way.
LEMMA OneStep ==
  ASSUME TypeOK, InTurn, NEW c \in Calls, Step(c), serial'
  PROVE  /\ serial
         /\ \A d \in Calls \ {c} : ~Busy(d) /\ call'[d] = call[d]
         /\ call[c].at \notin Clearing => Stale1 = {} /\ Stale2 = {}
         /\ call[c].at \in Carrying => call[c].value = db
         /\ Owed(c)
<1>1. serial
      BY DEF Step, Begin, Get1, Get2, Copy, Load, Set1, Set2, Write, Range1, Scan,
             Clear1, Clear2, Flush, List, Drop, TypeOK
<1>2. \A d \in Calls \ {c} : call'[d] = call[d]
      BY OwnCall
<1>3. \A d \in Calls \ {c} : ~Busy(d)
  <2>1. CASE Begin(c)
        BY <2>1 DEF Begin
  <2>2. CASE Busy(c)
        BY <1>1, <2>2 DEF InTurn
  <2>3. QED
        BY <2>1, <2>2 DEF Step, Busy, Get1, Get2, Copy, Load, Set1, Set2, Write, Range1,
                          Scan, Clear1, Clear2, Flush, List, Drop
<1>4. \A d \in Calls \ {c} : call[d].at \notin Clearing
      BY <1>3 DEF Busy, Clearing
<1>5. call[c].at \notin Clearing => Stale1 = {} /\ Stale2 = {}
      BY <1>1, <1>4 DEF InTurn
<1>6. QED
      BY <1>1, <1>2, <1>3, <1>5 DEF InTurn

\* So only what it owes after the step is in question.
LEMMA FromStep ==
  ASSUME TypeOK, InTurn, NEW c \in Calls, Step(c), serial',
         call'[c].at \notin Clearing => Stale1' = {} /\ Stale2' = {},
         call'[c].at \in Carrying => call'[c].value = db',
         Owed(c)'
  PROVE  InTurn'
<1>1. \A d \in Calls \ {c} : /\ call[d].at \in {"idle", "done"}
                             /\ call'[d] = call[d]
      BY OneStep DEF Busy
<1>2. \A d, e \in Calls : Busy(d)' /\ Busy(e)' => d = e
      BY <1>1 DEF Busy
<1>3. \A d \in Calls : call'[d].at \in Carrying => call'[d].value = db'
      BY <1>1 DEF Carrying
<1>4. \A d \in Calls : Owed(d)'
  <2> TAKE d \in Calls
  <2>1. CASE d = c
        BY <2>1
  <2>2. CASE d # c
        BY <1>1, <2>2 DEF Owed
  <2>3. QED
        BY <2>1, <2>2
<1>5. QED
      BY <1>2, <1>3, <1>4 DEF InTurn

\* Copies go stale with an update alone.
LEMMA Shrinks1 ==
  ASSUME TypeOK, db' = db, now' = now \/ now' = now + 1,
         \A k \in Keys : level1'[k] \in {level1[k], None}
  PROVE  Stale1' \subseteq Stale1
<1> SUFFICES ASSUME NEW k \in Keys, Live(level1[k])', level1'[k].value # db'
             PROVE  Live(level1[k]) /\ level1[k].value # db
    BY DEF Stale1
<1>1. level1'[k] # None /\ level1'[k] = level1[k] /\ now' <= level1[k].expires
      BY DEF Live
<1>2. level1[k].expires \in Nat /\ now \in Nat
      BY <1>1, FieldsTyped DEF TypeOK
<1>3. QED
      BY <1>1, <1>2 DEF Live

LEMMA Shrinks2 ==
  ASSUME TypeOK, db' = db, now' = now \/ now' = now + 1,
         \A k \in Keys : level2'[k] \in {level2[k], None}
  PROVE  Stale2' \subseteq Stale2
<1> SUFFICES ASSUME NEW k \in Keys, Live(level2[k])', level2'[k].value # db'
             PROVE  Live(level2[k]) /\ level2[k].value # db
    BY DEF Stale2
<1>1. level2'[k] # None /\ level2'[k] = level2[k] /\ now' <= level2[k].expires
      BY DEF Live
<1>2. level2[k].expires \in Nat /\ now \in Nat
      BY <1>1, FieldsTyped DEF TypeOK
<1>3. QED
      BY <1>1, <1>2 DEF Live

\* A read leaves the levels without a stale copy.
LEMMA ReadsInTurn ==
  ASSUME TypeOK, InTurn, NEW c \in Calls, serial',
         \/ Begin(c) \/ Get1(c) \/ Get2(c) \/ Copy(c) \/ Load(c) \/ Set1(c) \/ Set2(c)
  PROVE  InTurn'
<1>0. Step(c)
      BY DEF Step
<1>1. Stale1 = {} /\ Stale2 = {}
      BY <1>0, OneStep DEF Begin, Get1, Get2, Copy, Load, Set1, Set2, Clearing
<1>2. call[c].at \in Carrying => call[c].value = db
      BY <1>0, OneStep
<1>3. db' = db /\ now' = now
      BY DEF Begin, Get1, Get2, Copy, Load, Set1, Set2
<1>4. /\ call'[c].at \notin Clearing
      /\ call'[c].at \in Carrying => call'[c].value = db
  <2>1. CASE Begin(c)
    <3>1. PICK stage \in {"level1", "write"} :
            call' = [call EXCEPT ![c].at = stage, ![c].since = now]
          BY <2>1 DEF Begin
    <3>2. QED
          BY <3>1 DEF TypeOK, CallStates, Clearing, Carrying
  <2>2. CASE Get1(c)
        BY <2>2 DEF Get1, Goto, TypeOK, CallStates, Clearing, Carrying
  <2>3. CASE Get2(c)
    <3>1. CASE Goto(c, "database")
          BY <3>1 DEF Goto, TypeOK, CallStates, Clearing, Carrying
    <3>2. CASE /\ Live(level2[call[c].key])
               /\ call' = [call EXCEPT ![c].at = "copy",
                                       ![c].value = level2[call[c].key].value]
      <4>1. level2[call[c].key].value = db
            BY <1>1, <3>2, FieldsTyped DEF Stale2
      <4>2. call'[c].at = "copy" /\ call'[c].value = level2[call[c].key].value
            BY <3>2 DEF TypeOK, CallStates
      <4>3. QED
            BY <4>1, <4>2 DEF Clearing
    <3>3. QED
          BY <2>3, <3>1, <3>2 DEF Get2
  <2>4. CASE Copy(c)
        BY <2>4 DEF Copy, Goto, TypeOK, CallStates, Clearing, Carrying
  <2>5. CASE Load(c)
        BY <2>5 DEF Load, TypeOK, CallStates, Clearing, Carrying
  <2>6. CASE Set1(c)
        BY <1>2, <2>6 DEF Set1, Goto, TypeOK, CallStates, Clearing, Carrying
  <2>7. CASE Set2(c)
        BY <2>7 DEF Set2, Goto, TypeOK, CallStates, Clearing, Carrying
  <2>8. QED
        BY <2>1, <2>2, <2>3, <2>4, <2>5, <2>6, <2>7
<1>5. Stale1' = {}
  <2>1. CASE Copy(c) \/ Set1(c)
    <3>1. /\ level1' = [level1 EXCEPT ![call[c].key] = Copied(call[c].value, TTL1)]
          /\ call[c].value = db
          BY <1>2, <2>1 DEF Copy, Set1, Carrying
    <3>2. \A k \in Keys : level1'[k] = level1[k] \/ level1'[k].value = db
          BY <3>1 DEF Copied, TypeOK
    <3>3. QED
          BY <1>1, <1>3, <3>2 DEF Stale1, Live
  <2>2. CASE ~(Copy(c) \/ Set1(c))
    <3>1. \A k \in Keys : level1'[k] \in {level1[k], None}
          BY <2>2 DEF Begin, Get1, Get2, Load, Set2, TypeOK
    <3>2. QED
          BY <1>1, <1>3, <3>1, Shrinks1
  <2>3. QED
        BY <2>1, <2>2
<1>6. Stale2' = {}
  <2>1. CASE Set2(c) /\ level2' # level2
    <3>1. /\ level2' = [level2 EXCEPT ![call[c].key] = Copied(call[c].value, TTL2)]
          /\ call[c].value = db
          BY <1>2, <2>1 DEF Set2, Carrying
    <3>2. \A k \in Keys : level2'[k] = level2[k] \/ level2'[k].value = db
          BY <3>1 DEF Copied, TypeOK
    <3>3. QED
          BY <1>1, <1>3, <3>2 DEF Stale2, Live
  <2>2. CASE level2' = level2
        BY <1>1, <1>3, <2>2, Shrinks2
  <2>3. QED
        BY <2>1, <2>2 DEF Begin, Get1, Get2, Copy, Load, Set1
<1>7. Owed(c)'
      BY <1>4 DEF Owed, Clearing
<1>8. QED
      BY <1>0, <1>3, <1>4, <1>5, <1>6, <1>7, FromStep

\* A removal clears what is stale, or still has it to clear.
LEMMA RemovalsInTurn ==
  ASSUME TypeOK, InTurn, NEW c \in Calls, serial',
         \/ Write(c) \/ Range1(c) \/ Scan(c) \/ Clear1(c) \/ Clear2(c)
         \/ Flush(c) \/ List(c) \/ Drop(c)
  PROVE  InTurn'
<1>0. Step(c)
      BY DEF Step
<1>1. serial /\ Owed(c)
      BY <1>0, OneStep
<1>2. call[c].key \in Keys /\ call[c].left \in SUBSET Keys /\ call \in [Calls -> CallStates]
      BY FieldsTyped DEF TypeOK
<1>3. CASE Write(c)
  <2>1. call'[c].at \in {"range", "flush"}
        BY <1>3 DEF Write, Goto, TypeOK, CallStates
  <2>2. QED
        BY <1>0, <2>1, FromStep DEF Clearing, Carrying, Owed
<1>4. ASSUME ~Write(c) PROVE db' = db /\ now' = now
      BY <1>4 DEF Range1, Scan, Clear1, Clear2, Flush, List, Drop
<1>5. CASE Range1(c)
  <2>1. call'[c].at = "scan" /\ call'[c].left = {k \in Keys : level1[k] # None}
        BY <1>5, <1>2 DEF Range1, CallStates
  <2>2. Stale1' \subseteq call'[c].left
        BY <1>5, <2>1 DEF Range1, Stale1, Live
  <2>3. QED
        BY <1>0, <2>1, <2>2, FromStep DEF Clearing, Carrying, Owed
<1>6. CASE Scan(c)
  <2>1. PICK found \in SUBSET OnNetwork, stage \in {"done", "clear1"} :
          /\ call' = [call EXCEPT ![c].left = call[c].left \cup found, ![c].at = stage]
          /\ serial' = (serial /\ found = OnNetwork)
          /\ stage = "done" => call[c].left \cup found = {}
        BY <1>6 DEF Scan
  <2>2. /\ call'[c].at = stage /\ call'[c].left = call[c].left \cup found
        /\ found = OnNetwork
        BY <1>2, <2>1 DEF CallStates
  <2>3. UNCHANGED <<now, db, level1, level2>> /\ call[c].at = "scan"
        BY <1>6 DEF Scan
  <2>4. Stale1' = Stale1 /\ Stale2' = Stale2
        BY <2>3 DEF Stale1, Stale2, Live
  <2>5. Stale1' \subseteq call'[c].left /\ Stale2' \subseteq call'[c].left
        BY <1>1, <2>2, <2>3, <2>4 DEF Owed, OnNetwork, Stale2
  <2>6. stage = "done" => Stale1' = {} /\ Stale2' = {}
        BY <2>1, <2>2, <2>5
  <2>7. QED
        BY <1>0, <2>2, <2>5, <2>6, FromStep DEF Clearing, Carrying, Owed
<1>7. CASE Clear1(c)
  <2>1. PICK k \in call[c].left :
          /\ level1' = [level1 EXCEPT ![k] = None]
          /\ call' = [call EXCEPT ![c].at = "clear2", ![c].key = k]
        BY <1>7 DEF Clear1
  <2>2. UNCHANGED <<now, db, level2>> /\ call[c].at = "clear1"
        BY <1>7 DEF Clear1
  <2>3. /\ call'[c].at = "clear2" /\ call'[c].key = k /\ call'[c].left = call[c].left
        BY <1>2, <2>1 DEF CallStates
  <2>4. k \in Keys /\ level1'[k] = None /\ \A x \in Keys : level1'[x] \in {level1[x], None}
        BY <1>2, <2>1 DEF TypeOK
  <2>5. Stale1' \subseteq Stale1 /\ Stale2' = Stale2
        BY <2>2, <2>4, Shrinks1 DEF Stale2, Live
  <2>6. k \notin Stale1'
        BY <2>4 DEF Stale1, Live
  <2>7. Stale1' \subseteq call'[c].left \ {call'[c].key} /\ Stale2' \subseteq call'[c].left
        BY <1>1, <2>2, <2>3, <2>5, <2>6 DEF Owed
  <2>8. QED
        BY <1>0, <2>3, <2>7, FromStep DEF Clearing, Carrying, Owed
<1>8. CASE Clear2(c)
  <2> DEFINE k == call[c].key
             left == call[c].left \ {k}
  <2>1. PICK stage \in {"done", "clear1"} :
          /\ call' = [call EXCEPT ![c].left = left, ![c].at = stage]
          /\ stage = "done" => left = {}
        BY <1>8 DEF Clear2
  <2>2. /\ UNCHANGED <<now, db, level1>> /\ call[c].at = "clear2"
        /\ level2' = [level2 EXCEPT ![k] = None]
        BY <1>8 DEF Clear2
  <2>3. call'[c].at = stage /\ call'[c].left = left
        BY <1>2, <2>1 DEF CallStates
  <2>4. level2'[k] = None /\ \A x \in Keys : level2'[x] \in {level2[x], None}
        BY <1>2, <2>2 DEF TypeOK
  <2>5. Stale2' \subseteq Stale2 /\ Stale1' = Stale1
        BY <2>2, <2>4, Shrinks2 DEF Stale1, Live
  <2>6. k \notin Stale2'
        BY <2>4 DEF Stale2, Live
  <2>7. Stale1' \subseteq left /\ Stale2' \subseteq left
        BY <1>1, <2>2, <2>5, <2>6 DEF Owed
  <2> HIDE DEF left
  <2>8. QED
        BY <1>0, <2>1, <2>3, <2>7, FromStep DEF Clearing, Carrying, Owed
<1>9. CASE Flush(c)
  <2>1. call'[c].at = "keys" /\ level1' = [k \in Keys |-> None]
        BY <1>9 DEF Flush, Goto, TypeOK, CallStates
  <2>2. Stale1' = {}
        BY <2>1 DEF Stale1, Live
  <2>3. QED
        BY <1>0, <2>1, <2>2, FromStep DEF Clearing, Carrying, Owed
<1>10. CASE List(c)
  <2>1. /\ call' = [call EXCEPT ![c].left = OnNetwork,
                       ![c].at = IF OnNetwork = {} THEN "done" ELSE "drop"]
        /\ UNCHANGED <<now, db, level1, level2>> /\ call[c].at = "keys"
        BY <1>10 DEF List
  <2>2. PICK stage \in {"done", "drop"} :
          /\ call' = [call EXCEPT ![c].left = OnNetwork, ![c].at = stage]
          /\ stage = "done" => OnNetwork = {}
        BY <2>1
  <2>3. call'[c].at = stage /\ call'[c].left = OnNetwork
        BY <1>2, <2>2 DEF CallStates
  <2>4. Stale1' = Stale1 /\ Stale2' = Stale2
        BY <2>1 DEF Stale1, Stale2, Live
  <2>5. Stale1' = {} /\ Stale2' \subseteq OnNetwork
        BY <1>1, <2>1, <2>4 DEF Owed, Stale2, OnNetwork
  <2>6. stage = "done" => Stale2' = {}
        BY <2>2, <2>5
  <2>7. QED
        BY <1>0, <2>3, <2>5, <2>6, FromStep DEF Clearing, Carrying, Owed
<1>11. CASE Drop(c)
  <2>1. PICK k \in call[c].left, stage \in {"done", "drop"} :
          /\ level2' = [level2 EXCEPT ![k] = None]
          /\ call' = [call EXCEPT ![c].left = call[c].left \ {k}, ![c].at = stage]
          /\ stage = "done" => call[c].left \ {k} = {}
        BY <1>11 DEF Drop
  <2>2. UNCHANGED <<now, db, level1>> /\ call[c].at = "drop"
        BY <1>11 DEF Drop
  <2>3. call'[c].at = stage /\ call'[c].left = call[c].left \ {k}
        BY <1>2, <2>1 DEF CallStates
  <2>4. k \in Keys /\ level2'[k] = None /\ \A x \in Keys : level2'[x] \in {level2[x], None}
        BY <1>2, <2>1 DEF TypeOK
  <2>5. Stale2' \subseteq Stale2 /\ Stale1' = Stale1
        BY <2>2, <2>4, Shrinks2 DEF Stale1, Live
  <2>6. k \notin Stale2'
        BY <2>4 DEF Stale2, Live
  <2>7. Stale1' = {} /\ Stale2' \subseteq call'[c].left
        BY <1>1, <2>2, <2>3, <2>5, <2>6 DEF Owed
  <2>8. stage = "done" => Stale2' = {}
        BY <2>1, <2>3, <2>7
  <2>9. QED
        BY <1>0, <2>3, <2>7, <2>8, FromStep DEF Clearing, Carrying, Owed
<1>12. QED
       BY <1>3, <1>5, <1>6, <1>7, <1>8, <1>9, <1>10, <1>11

\* What the calls do not do only drops copies.
LEMMA IdleInTurn ==
  ASSUME TypeOK, InTurn, UNCHANGED call, UNCHANGED db, serial' = serial,
         now' = now \/ now' = now + 1,
         \A k \in Keys : level1'[k] \in {level1[k], None},
         \A k \in Keys : level2'[k] \in {level2[k], None}
  PROVE  InTurn'
<1> SUFFICES ASSUME serial PROVE InTurn'
    BY DEF InTurn
<1>1. Stale1' \subseteq Stale1 /\ Stale2' \subseteq Stale2
      BY Shrinks1, Shrinks2
<1>2. \A c \in Calls : Owed(c)'
      BY <1>1 DEF InTurn, Owed
<1>3. QED
      BY <1>1, <1>2 DEF InTurn, Busy

\* A restart that finds a call under way ends their taking turns.
LEMMA RestartInTurn ==
  ASSUME TypeOK, InTurn, Restart
  PROVE  InTurn'
<1> SUFFICES ASSUME serial' PROVE InTurn'
    BY DEF InTurn
<1>1. serial /\ \A c \in Calls : ~Busy(c)
      BY DEF Restart, TypeOK
<1>2. call' = call
      BY <1>1 DEF Restart, TypeOK
<1>3. UNCHANGED <<now, db>> /\ serial' = serial
      BY <1>1 DEF Restart
<1>4. /\ \A k \in Keys : level1'[k] \in {level1[k], None}
      /\ \A k \in Keys : level2'[k] \in {level2[k], None}
      BY DEF Restart
<1>5. QED
      BY <1>2, <1>3, <1>4, IdleInTurn

\* Every action keeps the turns.
LEMMA InTurnNext == TypeOK /\ InTurn /\ [Next]_vars => InTurn'
<1> SUFFICES ASSUME TypeOK, InTurn, [Next]_vars PROVE InTurn'
    OBVIOUS
<1>1. CASE Tick
      BY <1>1, IdleInTurn DEF Tick
<1>2. CASE Evict
  <2>1. /\ \A k \in Keys : level1'[k] \in {level1[k], None}
        /\ \A k \in Keys : level2'[k] \in {level2[k], None}
        BY <1>2 DEF Evict, TypeOK
  <2>2. QED
        BY <1>2, <2>1, IdleInTurn DEF Evict
<1>3. CASE UNCHANGED vars
      BY <1>3, IdleInTurn DEF vars
<1>4. ASSUME NEW c \in Calls, Step(c) PROVE InTurn'
  <2>1. CASE serial'
        BY <1>4, <2>1, ReadsInTurn, RemovalsInTurn DEF Step
  <2>2. CASE ~serial'
        BY <2>2 DEF InTurn
  <2>3. QED
        BY <2>1, <2>2
<1>5. QED
      BY <1>1, <1>2, <1>3, <1>4, RestartInTurn DEF Next

\* Without overlaps and failures an update leaves no copy of what it replaced
\* under any key in any level, for any number of keys, reads and updates, and
\* wherever copies expire or are evicted meanwhile (DeleteByID, Flush).
THEOREM UpdatesLeaveNothing == Spec => []NothingLeft
<1>1. Init => InTurn
  <2> SUFFICES ASSUME Init PROVE InTurn
      OBVIOUS
  <2>1. \A c \in Calls : call[c].at = "idle"
        BY DEF Init
  <2>2. Stale1 = {} /\ Stale2 = {}
        BY DEF Init, Stale1, Stale2, Live
  <2>3. QED
        BY <2>1, <2>2 DEF InTurn, Busy, Owed, Carrying
<1>2. InTurn => NothingLeft
  <2> SUFFICES ASSUME InTurn, serial, \A c \in Calls : ~Busy(c), NEW k \in Keys,
                      NEW copy \in {level1[k], level2[k]}, Live(copy)
               PROVE  copy.value = db
      BY DEF NothingLeft
  <2>1. \A c \in Calls : call[c].at \notin Clearing
        BY DEF Busy, Clearing
  <2>2. Stale1 = {} /\ Stale2 = {}
        BY <2>1 DEF InTurn
  <2>3. QED
        BY <2>2 DEF Stale1, Stale2
<1>3. QED
      BY <1>1, <1>2, InTurnNext, TypeCorrect, PTL DEF Spec
=============================================================================
