--------------------------- MODULE SessionsProofs ---------------------------
(* Proofs about Sessions, for any calls, passwords, roles and bounds.      *)
EXTENDS Sessions, TLAPS

USE SessionsAssumption DEF Ops, Stages

-----------------------------------------------------------------------------
(* Types.                                                                  *)

\* The counter keeps its type (RecordFailure).
LEMMA CountedType ==
  ASSUME TypeOK PROVE Counted \in [count : Nat, at : Nat]
BY DEF TypeOK, Counted

\* What a returned call is left with.
LEMMA FreshType ==
  ASSUME NEW r \in Requests
  PROVE  /\ Fresh(r) \in Calls
         /\ [Fresh(r) EXCEPT !.at = "done"] \in Calls
BY DEF Fresh, Calls

\* The calls keep their type when one of them returns or moves on.
LEMMA MoveType ==
  ASSUME TypeOK, NEW r \in Requests
  PROVE  /\ Return(r) => req' \in [Requests -> Calls]
         /\ \A stage \in Stages : Goto(r, stage) => req' \in [Requests -> Calls]
         /\ \A stage \in Stages : Repeats(r, stage) => req' \in [Requests -> Calls]
<1>1. Return(r) => req' \in [Requests -> Calls]
  BY FreshType DEF TypeOK, Return
<1>2. ASSUME NEW stage \in Stages, Goto(r, stage)
      PROVE  req' \in [Requests -> Calls]
  BY <1>2 DEF TypeOK, Goto, Calls
<1>3. ASSUME NEW stage \in Stages, Repeats(r, stage)
      PROVE  req' \in [Requests -> Calls]
  <2>1. CASE req' = [req EXCEPT ![r].at = stage, ![r].tries = @ + 1]
    BY <2>1 DEF TypeOK, Calls
  <2>2. CASE Return(r)
    BY <2>2, <1>1
  <2> QED BY <1>3, <2>1, <2>2 DEF Repeats
<1> QED BY <1>1, <1>2, <1>3

\* A refused login keeps the types of the calls and of the counter.
LEMMA RefuseType ==
  ASSUME TypeOK, NEW r \in Requests, Refuse(r)
  PROVE  /\ req' \in [Requests -> Calls]
         /\ failures' \in [count : Nat, at : Nat]
         /\ faults' \in Nat
BY CountedType, MoveType DEF Refuse, TypeOK, Fails, NoFault

\* Failing and not failing keep the number of faults a number.
LEMMA FaultType ==
  ASSUME TypeOK, Fails \/ NoFault PROVE faults' \in Nat
BY DEF TypeOK, Fails, NoFault

\* What a row is after a sign-in, and after a revocation.
LEMMA RowType ==
  ASSUME TypeOK, NEW r \in Requests, req[r].user \in Accounts
  PROVE  Open(r) \in [Requests -> Rows]
BY DEF TypeOK, Open, Rows, Accounts, Calls

\* Revoking keeps the type of the rows.
LEMMA EndedType ==
  ASSUME TypeOK, NEW c PROVE Ended(c) \in [Requests -> Rows]
BY DEF TypeOK, Ended, Rows

\* The row an update writes is a row.
LEMMA UpdatedType ==
  ASSUME TypeOK, NEW c \in Calls, c.user \in Accounts
  PROVE  Updated(c) \in Accounts
BY DEF TypeOK, Updated, Given, Calls, Accounts

\* The calls that hold the row of the user they have read.
Holding == {"verify", "claim", "issue", "write", "mint"}

Held == \A r \in Requests : req[r].at \in Holding => req[r].user \in Accounts

\* What a call knows, its place apart.
Same(a, b) == /\ a.op = b.op /\ a.user = b.user /\ a.password = b.password
              /\ a.roles = b.roles /\ a.code = b.code
              /\ a.target = b.target /\ a.change = b.change

\* Whatever one call does to its own entry, the others keep theirs.
LEMMA OnlyOne ==
  ASSUME NEW r \in Requests, req \in [Requests -> Calls]
  PROVE  /\ Return(r) => \A s \in Requests : IF s = r THEN req'[s].at = "done"
                                                     ELSE req'[s] = req[s]
         /\ \A stage \in Stages :
              Goto(r, stage) =>
                \A s \in Requests :
                  IF s = r THEN req'[s].at = stage /\ Same(req'[s], req[s])
                           ELSE req'[s] = req[s]
         /\ \A stage \in Stages :
              Repeats(r, stage) =>
                \A s \in Requests :
                  IF s = r THEN \/ req'[s].at = "done"
                                \/ req'[s].at = stage /\ Same(req'[s], req[s])
                           ELSE req'[s] = req[s]
<1>1. ASSUME Return(r), NEW s \in Requests
      PROVE  IF s = r THEN req'[s].at = "done" ELSE req'[s] = req[s]
  BY <1>1 DEF Return, Fresh
<1>2. ASSUME NEW stage \in Stages, Goto(r, stage), NEW s \in Requests
      PROVE  IF s = r THEN req'[s].at = stage /\ Same(req'[s], req[s])
                      ELSE req'[s] = req[s]
  BY <1>2 DEF Goto, Same, Calls
<1>3. ASSUME NEW stage \in Stages, Repeats(r, stage), NEW s \in Requests
      PROVE  IF s = r THEN \/ req'[s].at = "done"
                           \/ req'[s].at = stage /\ Same(req'[s], req[s])
                      ELSE req'[s] = req[s]
  <2>1. CASE Return(r)
    BY <1>1, <2>1
  <2>2. CASE req' = [req EXCEPT ![r].at = stage, ![r].tries = @ + 1]
    BY <2>2 DEF Same, Calls
  <2> QED BY <1>3, <2>1, <2>2 DEF Repeats
<1> QED BY <1>1, <1>2, <1>3

\* A call that has read the row of the user.
LEMMA HeldRead ==
  ASSUME TypeOK, Held, NEW r \in Requests, NEW stage \in Stages,
         req' = [req EXCEPT ![r].at = stage, ![r].user = account]
  PROVE  /\ req' \in [Requests -> Calls]
         /\ Held'
         /\ \A s \in Requests \ {r} : req'[s] = req[s]
         /\ req'[r].at = stage /\ req'[r].user = account
         /\ req'[r].op = req[r].op /\ req'[r].target = req[r].target
         /\ req'[r].code = req[r].code
<1> DEFINE e == [req[r] EXCEPT !.at = stage, !.user = account]
<1>1. req' = [req EXCEPT ![r] = e]
  OBVIOUS
<1>2. req[r] \in Calls /\ account \in Accounts
  BY DEF TypeOK
<1>3. /\ e \in Calls /\ e.at = stage /\ e.user = account
      /\ e.op = req[r].op /\ e.target = req[r].target /\ e.code = req[r].code
  BY <1>2 DEF Calls
<1> HIDE DEF e
<1>4. req'[r] = e /\ \A s \in Requests \ {r} : req'[s] = req[s]
  BY <1>1 DEF TypeOK
<1>5. req' \in [Requests -> Calls]
  BY <1>1, <1>3 DEF TypeOK
<1>6. Held'
  BY <1>2, <1>3, <1>4 DEF Held
<1> QED BY <1>3, <1>4, <1>5, <1>6

\* A call that is back or holds no row keeps Held.
LEMMA HeldMove ==
  ASSUME TypeOK, Held, NEW r \in Requests, NEW stage \in Stages,
         \/ Return(r)
         \/ /\ stage \in Holding => req[r].at \in Holding
            /\ Goto(r, stage) \/ Repeats(r, stage)
  PROVE  Held'
<1> SUFFICES ASSUME NEW s \in Requests, req'[s].at \in Holding
             PROVE  req'[s].user \in Accounts
  BY DEF Held
<1>1. CASE s # r
  BY <1>1, OnlyOne DEF TypeOK, Held
<1>2. CASE s = r
  BY <1>2, OnlyOne DEF TypeOK, Held, Holding, Same
<1> QED BY <1>1, <1>2

\* An update that goes on to the revocation.
LEMMA RevokeEntry ==
  ASSUME req \in [Requests -> Calls], NEW r \in Requests, NEW change \in Nat,
         req' = [req EXCEPT ![r].at = "revoke", ![r].change = change]
  PROVE  /\ req' \in [Requests -> Calls]
         /\ \A s \in Requests \ {r} : req'[s] = req[s]
         /\ req'[r].at = "revoke" /\ req'[r].change = change
         /\ req'[r].op = req[r].op /\ req'[r].code = req[r].code
<1> DEFINE e == [req[r] EXCEPT !.at = "revoke", !.change = change]
<1>0. req[r] \in Calls
  OBVIOUS
<1>1. /\ e \in Calls /\ e.at = "revoke" /\ e.change = change
      /\ e.op = req[r].op /\ e.code = req[r].code
  BY <1>0 DEF Calls
<1>2. req' = [req EXCEPT ![r] = e]
  OBVIOUS
<1> HIDE DEF e
<1> QED BY <1>1, <1>2

\* A call that arrives holds no row, and a token names its session.
Arrived(e, old) ==
  /\ e.at \in {"lookup", "session", "revoke", "read"}
  /\ e.at = "lookup" => e.op \in {"Login", "External"}
  /\ e.op # "Login" => e.code = old.code
  /\ e.at = "revoke" => e.op \in {"Logout", "Delete"}
  /\ e.at = "read" => e.op = "Update"
  /\ e.at = "session" => \E t \in tokens : t.session = e.target

\* What Begin leaves in the entry of its call.
LEMMA BeginEntry ==
  ASSUME TypeOK, NEW r \in Requests, Begin(r)
  PROVE  \E e \in Calls : req' = [req EXCEPT ![r] = e] /\ Arrived(e, req[r])
<1>0. req[r] \in Calls /\ now \in Nat
  BY DEF TypeOK
<1>1. ASSUME NEW p \in Passwords, NEW c \in 0..(now + Skew),
             req' = [req EXCEPT ![r].op = "Login", ![r].at = "lookup",
                                ![r].password = p, ![r].code = c]
      PROVE  \E e \in Calls : req' = [req EXCEPT ![r] = e] /\ Arrived(e, req[r])
  <2> DEFINE e == [req[r] EXCEPT !.op = "Login", !.at = "lookup",
                                 !.password = p, !.code = c]
  <2>1. c \in Nat
    BY <1>0
  <2>2. e \in Calls /\ Arrived(e, req[r])
    <3>1. e \in Calls
      BY <1>0, <2>1 DEF Calls
    <3>2. e.op = "Login" /\ e.at = "lookup"
      BY <1>0 DEF Calls
    <3> QED BY <3>1, <3>2 DEF Arrived
  <2>3. req' = [req EXCEPT ![r] = e]
    BY <1>1
  <2> QED BY <2>2, <2>3
<1>2. ASSUME req' = [req EXCEPT ![r].op = "External", ![r].at = "lookup"]
      PROVE  \E e \in Calls : req' = [req EXCEPT ![r] = e] /\ Arrived(e, req[r])
  <2> DEFINE e == [req[r] EXCEPT !.op = "External", !.at = "lookup"]
  <2>1. e \in Calls /\ Arrived(e, req[r])
    <3>1. e \in Calls
      BY <1>0 DEF Calls
    <3>2. e.op = "External" /\ e.at = "lookup" /\ e.code = req[r].code
      BY <1>0 DEF Calls
    <3> QED BY <3>1, <3>2 DEF Arrived
  <2>2. req' = [req EXCEPT ![r] = e]
    BY <1>2
  <2> QED BY <2>1, <2>2
<1>3. ASSUME NEW s \in Requests, NEW o \in {"Refresh", "Logout"},
             \E t \in tokens : t.session = s,
             req' = [req EXCEPT ![r].op = o, ![r].target = s, ![r].at =
                       IF o = "Refresh" THEN "session" ELSE "revoke"]
      PROVE  \E e \in Calls : req' = [req EXCEPT ![r] = e] /\ Arrived(e, req[r])
  <2> DEFINE e == [req[r] EXCEPT !.op = o, !.target = s,
                     !.at = IF o = "Refresh" THEN "session" ELSE "revoke"]
  <2>1. e \in Calls /\ Arrived(e, req[r])
    <3>1. CASE o = "Refresh"
      <4>1. e = [req[r] EXCEPT !.op = "Refresh", !.target = s, !.at = "session"]
        BY <3>1
      <4> HIDE DEF e
      <4> QED BY <1>0, <1>3, <4>1 DEF Calls, Arrived
    <3>2. CASE o = "Logout"
      <4>1. e = [req[r] EXCEPT !.op = "Logout", !.target = s, !.at = "revoke"]
        BY <3>2
      <4> HIDE DEF e
      <4> QED BY <1>0, <4>1 DEF Calls, Arrived
    <3> QED BY <3>1, <3>2
  <2>2. req' = [req EXCEPT ![r] = e]
    BY <1>3
  <2> QED BY <2>1, <2>2
<1>4. ASSUME NEW p \in Passwords \cup {None}, NEW o \in Roles \cup {None},
             req' = [req EXCEPT ![r].op = "Update", ![r].at = "read",
                                ![r].password = p, ![r].roles = o]
      PROVE  \E e \in Calls : req' = [req EXCEPT ![r] = e] /\ Arrived(e, req[r])
  <2> DEFINE e == [req[r] EXCEPT !.op = "Update", !.at = "read",
                                 !.password = p, !.roles = o]
  <2>1. e \in Calls /\ Arrived(e, req[r])
    <3>1. e \in Calls
      BY <1>0 DEF Calls
    <3>2. e.op = "Update" /\ e.at = "read" /\ e.code = req[r].code
      BY <1>0 DEF Calls
    <3> QED BY <3>1, <3>2 DEF Arrived
  <2>2. req' = [req EXCEPT ![r] = e]
    BY <1>4
  <2> QED BY <2>1, <2>2
<1>5. ASSUME req' = [req EXCEPT ![r].op = "Delete", ![r].at = "revoke"]
      PROVE  \E e \in Calls : req' = [req EXCEPT ![r] = e] /\ Arrived(e, req[r])
  <2> DEFINE e == [req[r] EXCEPT !.op = "Delete", !.at = "revoke"]
  <2>1. e \in Calls /\ Arrived(e, req[r])
    <3>1. e \in Calls
      BY <1>0 DEF Calls
    <3>2. e.op = "Delete" /\ e.at = "revoke" /\ e.code = req[r].code
      BY <1>0 DEF Calls
    <3> QED BY <3>1, <3>2 DEF Arrived
  <2>2. req' = [req EXCEPT ![r] = e]
    BY <1>5
  <2> QED BY <2>1, <2>2
<1> QED BY <1>1, <1>2, <1>3, <1>4, <1>5 DEF Begin

\* Every step keeps the types and what the calls hold.
LEMMA TypeStep ==
  ASSUME TypeOK, Held, [Next]_vars
  PROVE  TypeOK' /\ Held'
<1> USE DEF throttle
<1>1. CASE UNCHANGED vars
  BY <1>1 DEF TypeOK, Held, vars
<1>2. CASE Tick
  BY <1>2 DEF TypeOK, Held, Tick
<1>3. ASSUME NEW r \in Requests, Step(r) PROVE TypeOK' /\ Held'
  <2> USE DEF Holding
  <2>1. CASE Begin(r)
    <3>1. PICK e \in Calls : req' = [req EXCEPT ![r] = e] /\ e.at \notin Holding
      BY <2>1, BeginEntry DEF Arrived
    <3>2. req' \in [Requests -> Calls] /\ Held'
      BY <3>1 DEF TypeOK, Held
    <3> QED BY <2>1, <3>2, FaultType DEF Begin, TypeOK
  <2>2. CASE Lookup(r)
    <3>1. failures' \in [count : Nat, at : Nat]
      BY <2>2, RefuseType, CountedType DEF Lookup, TypeOK
    <3>2. faults' \in Nat
      BY <2>2, FaultType, RefuseType DEF Lookup
    <3>3. CASE req' = [req EXCEPT ![r].at = IF req[r].op = "Login"
                                              THEN "verify" ELSE "issue",
                                  ![r].user = account]
      <4>1. req' \in [Requests -> Calls] /\ Held'
        <5>1. req' = [req EXCEPT ![r].at = "verify", ![r].user = account]
              \/ req' = [req EXCEPT ![r].at = "issue", ![r].user = account]
          BY <3>3
        <5> QED BY <5>1, HeldRead
      <4> QED BY <2>2, <3>1, <3>2, <4>1 DEF Lookup, TypeOK
    <3>4. CASE Return(r) \/ Repeats(r, "lookup")
      <4>1. req' \in [Requests -> Calls]
        BY <3>4, MoveType
      <4>2. Held'
        BY <3>4, HeldMove
      <4> QED BY <2>2, <3>1, <3>2, <4>1, <4>2 DEF Lookup, TypeOK
    <3> QED BY <2>2, <3>3, <3>4 DEF Lookup, Refuse
  <2>3. CASE Verify(r)
    <3>1. /\ req' \in [Requests -> Calls] /\ failures' \in [count : Nat, at : Nat]
          /\ faults' \in Nat
      BY <2>3, MoveType, RefuseType, FaultType DEF Verify, TypeOK
    <3>2. Held'
      BY <2>3, HeldMove DEF Verify, Refuse
    <3> QED BY <2>3, <3>1, <3>2 DEF Verify, TypeOK
  <2>4. CASE Claim(r)
    <3>1. /\ req' \in [Requests -> Calls] /\ failures' \in [count : Nat, at : Nat]
          /\ faults' \in Nat
      BY <2>4, MoveType, RefuseType, FaultType, CountedType DEF Claim, TypeOK
    <3>2. lastStep' \in Nat
      BY <2>4 DEF Claim, TypeOK, Calls
    <3>3. Held'
      BY <2>4, HeldMove DEF Claim, Refuse
    <3> QED BY <2>4, <3>1, <3>2, <3>3 DEF Claim, TypeOK
  <2>5. CASE Issue(r)
    <3>1. req[r].user \in Accounts
      BY <2>5 DEF Issue, Held
    <3>2. session' \in [Requests -> Rows]
      BY <2>5, <3>1, RowType DEF Issue, TypeOK
    <3>3. tokens' \subseteq [session : Requests, roles : Roles]
      BY <2>5, <3>1 DEF Issue, TypeOK, Accounts
    <3>4. req' \in [Requests -> Calls] /\ faults' \in Nat
      BY <2>5, MoveType, FaultType DEF Issue
    <3>5. failures' \in [count : Nat, at : Nat]
      BY <2>5 DEF Issue, TypeOK, Cleared
    <3>6. Held'
      BY <2>5, HeldMove DEF Issue
    <3> QED BY <2>5, <3>2, <3>3, <3>4, <3>5, <3>6 DEF Issue, TypeOK
  <2>6. CASE FindSession(r)
    <3>1. req' \in [Requests -> Calls] /\ faults' \in Nat
      BY <2>6, MoveType, FaultType DEF FindSession
    <3>2. Held'
      BY <2>6, HeldMove DEF FindSession
    <3> QED BY <2>6, <3>1, <3>2 DEF FindSession, TypeOK
  <2>7. CASE FindUser(r)
    <3>1. CASE req' = [req EXCEPT ![r].at = "mint", ![r].user = account]
      <4>1. req' \in [Requests -> Calls] /\ Held'
        BY <3>1, HeldRead
      <4> QED BY <2>7, <4>1, FaultType DEF FindUser, TypeOK
    <3>2. CASE Return(r)
      <4>1. req' \in [Requests -> Calls] /\ Held'
        BY <3>2, MoveType, HeldMove
      <4> QED BY <2>7, <4>1, FaultType DEF FindUser, TypeOK
    <3> QED BY <2>7, <3>1, <3>2 DEF FindUser
  <2>8. CASE Mint(r)
    <3>1. req' \in [Requests -> Calls] /\ faults' \in Nat
      BY <2>8, MoveType, FaultType DEF Mint
    <3>2. req[r].user \in Accounts /\ req[r].target \in Requests
      BY <2>8 DEF Mint, Held, TypeOK, Calls
    <3>3. tokens' \subseteq [session : Requests, roles : Roles]
      BY <2>8, <3>2 DEF Mint, TypeOK, Accounts
    <3>4. Held'
      BY <2>8, HeldMove DEF Mint
    <3> QED BY <2>8, <3>1, <3>3, <3>4 DEF Mint, TypeOK
  <2>9. CASE Read(r)
    <3>1. CASE req' = [req EXCEPT ![r].at = "write", ![r].user = account]
      <4>1. req' \in [Requests -> Calls] /\ Held'
        BY <3>1, HeldRead
      <4> QED BY <2>9, <4>1, FaultType DEF Read, TypeOK
    <3>2. CASE Return(r) \/ Repeats(r, "read")
      <4>1. req' \in [Requests -> Calls] /\ Held'
        BY <3>2, MoveType, HeldMove
      <4> QED BY <2>9, <4>1, FaultType DEF Read, TypeOK
    <3> QED BY <2>9, <3>1, <3>2 DEF Read
  <2>10. CASE Write(r)
    <3>1. req[r] \in Calls /\ req[r].user \in Accounts
      BY <2>10 DEF Write, Held, TypeOK
    <3>2. Updated(req[r]) \in Accounts
      BY <3>1, UpdatedType
    <3>3. account' \in Accounts
      BY <2>10, <3>2 DEF Write, TypeOK
    <3> DEFINE change == IF Updated(req[r]).epoch # account.epoch
                           THEN Updated(req[r]).epoch ELSE req[r].change
    <3>4. change \in Nat
      BY <3>1, <3>2 DEF Accounts, Calls
    <3>5. excused' \subseteq Nat
      BY <2>10, <3>4 DEF Write, TypeOK
    <3> HIDE DEF change
    <3>6. CASE req' = [req EXCEPT ![r].at = "revoke", ![r].change = change]
      <4>1. req' \in [Requests -> Calls] /\ Held'
        BY <3>4, <3>6, RevokeEntry DEF TypeOK, Held
      <4> QED BY <2>10, <3>3, <3>5, <4>1, FaultType DEF Write, TypeOK
    <3>7. CASE Return(r) \/ Repeats(r, "read")
      <4>1. req' \in [Requests -> Calls] /\ Held'
        BY <3>7, MoveType, HeldMove
      <4> QED BY <2>10, <3>3, <3>5, <4>1, FaultType DEF Write, TypeOK
    <3> QED BY <2>10, <3>6, <3>7 DEF Write, change
  <2>11. CASE Revoke(r)
    <3>1. req' \in [Requests -> Calls] /\ faults' \in Nat
      BY <2>11, MoveType, FaultType DEF Revoke
    <3>2. session' \in [Requests -> Rows]
      BY <2>11, EndedType DEF Revoke, TypeOK
    <3>3. excused' \subseteq Nat
      <4>1. req[r].change \in Nat
        BY DEF TypeOK, Calls
      <4> QED BY <2>11, <4>1 DEF Revoke, TypeOK
    <3>4. Held'
      BY <2>11, HeldMove DEF Revoke
    <3> QED BY <2>11, <3>1, <3>2, <3>3, <3>4 DEF Revoke, TypeOK
  <2>12. CASE Remove(r)
    <3>1. req' \in [Requests -> Calls] /\ faults' \in Nat
      BY <2>12, MoveType, FaultType DEF Remove
    <3>2. account' \in Accounts
      BY <2>12 DEF Remove, TypeOK, Accounts
    <3>3. Held'
      BY <2>12, HeldMove DEF Remove
    <3> QED BY <2>12, <3>1, <3>2, <3>3 DEF Remove, TypeOK
  <2> QED BY <1>3, <2>1, <2>2, <2>3, <2>4, <2>5, <2>6, <2>7, <2>8, <2>9,
             <2>10, <2>11, <2>12 DEF Step
<1> QED BY <1>1, <1>2, <1>3 DEF Next

\* The initial state has the types.
LEMMA TypeInit == Init => TypeOK /\ Held
<1> SUFFICES ASSUME Init PROVE TypeOK /\ Held
  OBVIOUS
<1>1. account \in Accounts
  BY DEF Init, Accounts
<1>2. req \in [Requests -> Calls]
  BY FreshType DEF Init
<1>3. session \in [Requests -> Rows]
  BY DEF Init, NoRow, Rows
<1>4. Held
  BY DEF Init, Held, Holding, Fresh
<1> QED BY <1>1, <1>2, <1>3, <1>4 DEF Init, TypeOK

\* Every variable keeps its type.
THEOREM TypeCorrect == Spec => [](TypeOK /\ Held)
BY TypeInit, TypeStep, PTL DEF Spec

-----------------------------------------------------------------------------
(* What a step does to the variables the invariants are about.             *)

\* A call that is back took no other call with it.
LEMMA RefuseEntry ==
  ASSUME TypeOK, NEW r \in Requests, Refuse(r)
  PROVE  /\ \A s \in Requests \ {r} : req'[s] = req[s]
         /\ req'[r].at = "done"
BY OnlyOne DEF Refuse, TypeOK

\* A step of one call leaves the other calls alone.
LEMMA Others ==
  ASSUME TypeOK, Held, NEW r \in Requests, Step(r),
         NEW s \in Requests \ {r}
  PROVE  req'[s] = req[s]
<1>0. req \in [Requests -> Calls]
  BY DEF TypeOK
<1>1. CASE Return(r) \/ (\E stage \in Stages : Goto(r, stage) \/ Repeats(r, stage))
  BY <1>0, <1>1, OnlyOne
<1>2. CASE Begin(r)
  <2>1. PICK e \in Calls : req' = [req EXCEPT ![r] = e]
    BY <1>2, BeginEntry
  <2> QED BY <1>0, <2>1
<1>3. CASE \E stage \in Stages :
             req' = [req EXCEPT ![r].at = stage, ![r].user = account]
  BY <1>3, HeldRead
<1>4. CASE Write(r)
  <2>1. req[r] \in Calls /\ req[r].user \in Accounts
    BY <1>0, <1>4 DEF Write, Held, Holding
  <2> DEFINE change == IF Updated(req[r]).epoch # account.epoch
                         THEN Updated(req[r]).epoch ELSE req[r].change
  <2>2. \/ req' = [req EXCEPT ![r].at = "revoke", ![r].change = change]
        \/ Return(r) \/ Repeats(r, "read")
    BY <1>4 DEF Write
  <2>3. change \in Nat
    BY <2>1, UpdatedType DEF Accounts, Calls
  <2> HIDE DEF change
  <2> QED BY <1>0, <1>1, <2>2, <2>3, RevokeEntry
<1>5. CASE Lookup(r)
  <2>1. \/ Return(r) \/ Repeats(r, "lookup")
        \/ req' = [req EXCEPT ![r].user = account,
                              ![r].at = IF req[r].op = "Login" THEN "verify"
                                                               ELSE "issue"]
    BY <1>5 DEF Lookup, Refuse
  <2>2. \/ Return(r) \/ Repeats(r, "lookup")
        \/ req' = [req EXCEPT ![r].at = "verify", ![r].user = account]
        \/ req' = [req EXCEPT ![r].at = "issue", ![r].user = account]
    BY <2>1
  <2> QED BY <1>1, <1>3, <2>2
<1> QED BY <1>1, <1>2, <1>3, <1>4, <1>5
        DEF Step, Verify, Claim, Issue, FindSession, FindUser, Mint, Read,
            Revoke, Remove, Refuse

\* A call on its way has not arrived again and was not back.
LEMMA Started ==
  ASSUME NEW r \in Requests, Step(r)
  PROVE  req[r].at # "done"
BY DEF Step, Begin, Lookup, Verify, Claim, Issue, FindSession, FindUser, Mint,
       Read, Write, Revoke, Remove

\* A step opens the session of its call, ends some sessions, or neither.
LEMMA SessionMoves ==
  ASSUME TypeOK, NEW r \in Requests, Step(r)
  PROVE  \/ session' = session
         \/ /\ req[r].at = "issue" /\ session' = Open(r)
            /\ Issue(r) /\ req'[r].at = "done"
         \/ Revoke(r) /\ session' = Ended(req[r])
<1>1. CASE Issue(r)
  BY <1>1, OnlyOne DEF Issue, TypeOK
<1>2. CASE Revoke(r)
  BY <1>2 DEF Revoke
<1> QED BY <1>1, <1>2 DEF Step, Begin, Lookup, Verify, Claim, FindSession,
           FindUser, Mint, Read, Write, Remove

\* What a revocation leaves of a row.
LEMMA EndedRow ==
  ASSUME TypeOK, NEW c, NEW s \in Requests
  PROVE  /\ Ended(c)[s].code = session[s].code
         /\ Ended(c)[s].epoch = session[s].epoch
         /\ Ended(c)[s].late = session[s].late
         /\ Ended(c)[s].state \in {session[s].state, "revoked"}
         /\ session[s].state # "live" => Ended(c)[s] = session[s]
         /\ session[s] = NoRow => Ended(c)[s] = NoRow
         /\ s \in Reached(c) => Ended(c)[s].state # "live"
<1>1. session[s] \in Rows
  BY DEF TypeOK
<1>2. CASE s \in Reached(c) /\ session[s].state = "live"
  <2>1. Ended(c)[s] = [session[s] EXCEPT !.state = "revoked"]
    BY <1>2 DEF Ended
  <2>2. session[s] # NoRow
    BY <1>2 DEF NoRow
  <2> QED BY <1>1, <1>2, <2>1, <2>2 DEF Rows
<1>3. CASE ~(s \in Reached(c) /\ session[s].state = "live")
  <2>1. Ended(c)[s] = session[s]
    BY <1>3 DEF Ended
  <2> QED BY <1>3, <2>1
<1> QED BY <1>2, <1>3

-----------------------------------------------------------------------------
(* One-time codes.                                                         *)

\* A call that is not back has opened no session.
Unopened == \A r \in Requests : req[r].at # "done" => session[r] = NoRow

\* Only a login that has arrived carries a code.
Codeless == \A r \in Requests :
              req[r].at = "idle" \/ req[r].op # "Login" => req[r].code = 0

\* The codes of the sessions and of the calls that have claimed one are not
\* newer than the last step.
Claimed == \A r \in Requests :
             /\ session[r].code <= lastStep
             /\ req[r].at = "issue" => req[r].code <= lastStep

\* A code that a call has claimed is in no session and in no other such call.
Apart == \A r, s \in Requests :
           r # s /\ req[r].at = "issue" /\ req[r].code # 0 =>
             /\ req[r].code # session[s].code
             /\ req[s].at = "issue" => req[r].code # req[s].code

CodeInv == Unopened /\ Codeless /\ Claimed /\ Apart /\ CodeOnce

\* The last step never goes back (ClaimTOTPStep).
LEMMA LastMoves ==
  ASSUME TypeOK, NEW r \in Requests, Step(r)
  PROVE  lastStep' \in Nat /\ lastStep' >= lastStep
<1>1. lastStep \in Nat /\ req[r].code \in Nat
  BY DEF TypeOK, Calls
<1>2. CASE Claim(r)
  <2>1. \/ lastStep' = lastStep
        \/ Newer(req[r].code) /\ lastStep' = req[r].code
    BY <1>2 DEF Claim
  <2> QED BY <1>1, <2>1 DEF Newer
<1>3. CASE ~Claim(r)
  <2>1. lastStep' = lastStep
    BY <1>3 DEF Step, Begin, Lookup, Verify, Issue, FindSession, FindUser,
                Mint, Read, Write, Revoke, Remove, throttle
  <2> QED BY <1>1, <2>1
<1> QED BY <1>2, <1>3

\* How a call comes to open a session.
LEMMA IssueMoves ==
  ASSUME TypeOK, Held, NEW r \in Requests, Step(r), req'[r].at = "issue"
  PROVE  /\ req'[r].code = req[r].code
         /\ session' = session
         /\ \/ req[r].op # "Login" /\ lastStep' = lastStep
            \/ req[r].code > lastStep /\ lastStep' = req[r].code
            \/ req[r].at = "issue" /\ lastStep' = lastStep
<1>0. req \in [Requests -> Calls] /\ req[r] \in Calls /\ lastStep \in Nat
  BY DEF TypeOK
<1>1. ~Return(r)
  BY <1>0, OnlyOne
<1>2. \A stage \in Stages \ {"issue"} : ~Goto(r, stage) /\ ~Repeats(r, stage)
  BY <1>0, OnlyOne
<1>3. CASE Begin(r)
  <2>1. PICK e \in Calls : req' = [req EXCEPT ![r] = e] /\ Arrived(e, req[r])
    BY <1>3, BeginEntry
  <2> QED BY <1>0, <2>1 DEF Arrived
<1>4. CASE Lookup(r)
  <2>1. req' = [req EXCEPT ![r].user = account,
                           ![r].at = IF req[r].op = "Login" THEN "verify"
                                                            ELSE "issue"]
        /\ session' = session /\ lastStep' = lastStep
    BY <1>1, <1>2, <1>4 DEF Lookup, Refuse
  <2>2. CASE req[r].op = "Login"
    <3>1. req' = [req EXCEPT ![r].at = "verify", ![r].user = account]
      BY <2>1, <2>2
    <3> QED BY <3>1, HeldRead
  <2>3. CASE req[r].op # "Login"
    <3>1. req' = [req EXCEPT ![r].at = "issue", ![r].user = account]
      BY <2>1, <2>3
    <3> QED BY <2>1, <2>3, <3>1, HeldRead
  <2> QED BY <2>2, <2>3
<1>5. CASE Claim(r)
  <2>1. Goto(r, "issue") /\ Newer(req[r].code) /\ lastStep' = req[r].code
        /\ session' = session
    BY <1>1, <1>2, <1>5 DEF Claim, Refuse
  <2> QED BY <1>0, <2>1, OnlyOne DEF Newer, Same, Calls
<1>6. CASE Issue(r)
  <2>1. Repeats(r, "issue") /\ session' = session /\ lastStep' = lastStep
        /\ req[r].at = "issue"
    BY <1>1, <1>6 DEF Issue
  <2> QED BY <1>0, <2>1, OnlyOne DEF Same
<1>7. CASE FindUser(r)
  <2>1. req' = [req EXCEPT ![r].at = "mint", ![r].user = account]
    BY <1>1, <1>7 DEF FindUser
  <2> QED BY <2>1, HeldRead
<1>8. CASE Read(r)
  <2>1. req' = [req EXCEPT ![r].at = "write", ![r].user = account]
    BY <1>1, <1>2, <1>8 DEF Read
  <2> QED BY <2>1, HeldRead
<1>9. CASE Write(r)
  <2>1. req[r].user \in Accounts
    BY <1>9 DEF Write, Held, Holding
  <2> DEFINE change == IF Updated(req[r]).epoch # account.epoch
                         THEN Updated(req[r]).epoch ELSE req[r].change
  <2>2. req' = [req EXCEPT ![r].at = "revoke", ![r].change = change]
    BY <1>1, <1>2, <1>9 DEF Write
  <2>3. change \in Nat
    BY <1>0, <2>1, UpdatedType DEF Accounts, Calls
  <2> HIDE DEF change
  <2> QED BY <1>0, <2>2, <2>3, RevokeEntry
<1> QED BY <1>1, <1>2, <1>3, <1>4, <1>5, <1>6, <1>7, <1>8, <1>9
        DEF Step, Verify, FindSession, Mint, Revoke, Remove, Refuse

\* A call keeps its code on its way, and only a login has one.
LEMMA CodelessStep ==
  ASSUME TypeOK, Held, Codeless, NEW r \in Requests, Step(r)
  PROVE  Codeless'
<1>0. req \in [Requests -> Calls] /\ req[r] \in Calls
  BY DEF TypeOK
<1> SUFFICES \/ req'[r].code = 0
             \/ /\ req'[r].at # "idle"
                /\ req'[r].op # "Login" => req'[r].code = 0
  BY Others DEF Codeless
<1>1. CASE Return(r)
  BY <1>0, <1>1 DEF Return, Fresh
<1>2. CASE \E stage \in Stages \ {"idle"} : Goto(r, stage) \/ Repeats(r, stage)
  <2>1. PICK stage \in Stages \ {"idle"} : Goto(r, stage) \/ Repeats(r, stage)
    BY <1>2
  <2>2. CASE Goto(r, stage)
    BY <1>0, <2>2, OnlyOne DEF Same, Codeless
  <2>3. CASE req' = [req EXCEPT ![r].at = stage, ![r].tries = @ + 1]
    <3>1. /\ req'[r].at = stage /\ req'[r].op = req[r].op
          /\ req'[r].code = req[r].code
      BY <1>0, <2>3 DEF Calls
    <3> QED BY <3>1 DEF Codeless
  <2> QED BY <1>1, <2>1, <2>2, <2>3 DEF Repeats
<1>3. CASE \E stage \in Stages \ {"idle"} :
             req' = [req EXCEPT ![r].at = stage, ![r].user = account]
  BY <1>3, HeldRead DEF Codeless
<1>4. CASE Begin(r)
  <2>1. PICK e \in Calls : req' = [req EXCEPT ![r] = e] /\ Arrived(e, req[r])
    BY <1>4, BeginEntry
  <2>2. req[r].code = 0
    BY <1>4 DEF Begin, Codeless
  <2> QED BY <1>0, <2>1, <2>2 DEF Arrived
<1>5. CASE Write(r)
  <2>1. req[r].user \in Accounts
    BY <1>5 DEF Write, Held, Holding
  <2> DEFINE change == IF Updated(req[r]).epoch # account.epoch
                         THEN Updated(req[r]).epoch ELSE req[r].change
  <2>2. \/ req' = [req EXCEPT ![r].at = "revoke", ![r].change = change]
        \/ Return(r) \/ Repeats(r, "read")
    BY <1>5 DEF Write
  <2>3. change \in Nat
    BY <1>0, <2>1, UpdatedType DEF Accounts, Calls
  <2> HIDE DEF change
  <2> QED BY <1>0, <1>1, <1>2, <2>2, <2>3, RevokeEntry DEF Codeless
<1>6. CASE Lookup(r)
  <2>1. \/ Return(r) \/ Repeats(r, "lookup")
        \/ req' = [req EXCEPT ![r].user = account,
                              ![r].at = IF req[r].op = "Login" THEN "verify"
                                                               ELSE "issue"]
    BY <1>6 DEF Lookup, Refuse
  <2>2. \/ Return(r) \/ Repeats(r, "lookup")
        \/ req' = [req EXCEPT ![r].at = "verify", ![r].user = account]
        \/ req' = [req EXCEPT ![r].at = "issue", ![r].user = account]
    BY <2>1
  <2> QED BY <1>1, <1>2, <1>3, <2>2
<1> QED BY <1>1, <1>2, <1>3, <1>4, <1>5, <1>6
        DEF Step, Verify, Claim, Issue, FindSession, FindUser, Mint, Read,
            Revoke, Remove, Refuse

\* The codes stay apart through every step.
LEMMA CodeStep ==
  ASSUME TypeOK, Held, CodeInv, NEW r \in Requests, Step(r)
  PROVE  CodeInv'
<1>0. /\ req \in [Requests -> Calls] /\ req[r] \in Calls
      /\ lastStep \in Nat /\ session \in [Requests -> Rows]
      /\ \A s \in Requests : session[s].code \in Nat /\ req[s].code \in Nat
  BY DEF TypeOK, Calls, Rows
<1>1. Codeless'
  BY CodelessStep DEF CodeInv
<1>2. lastStep' \in Nat /\ lastStep' >= lastStep
  BY LastMoves
<1>3. \A s \in Requests \ {r} : req'[s] = req[s]
  BY Others
<1>4. CASE session' = session
  <2>1. Unopened'
    BY <1>3, <1>4, Started DEF CodeInv, Unopened
  <2>2. Claimed' /\ Apart'
    <3>1. CASE req'[r].at # "issue"
      <4>1. Claimed'
        BY <1>0, <1>2, <1>3, <1>4, <3>1 DEF CodeInv, Claimed
      <4>2. Apart'
        BY <1>3, <1>4, <3>1 DEF CodeInv, Apart
      <4> QED BY <4>1, <4>2
    <3>2. CASE req'[r].at = "issue"
      <4>1. /\ req'[r].code = req[r].code
            /\ \/ req[r].code = 0 /\ lastStep' = lastStep
               \/ req[r].code > lastStep /\ lastStep' = req[r].code
               \/ req[r].at = "issue" /\ lastStep' = lastStep
        BY <3>2, IssueMoves DEF CodeInv, Codeless
      <4>2. Claimed'
        BY <1>0, <1>2, <1>3, <1>4, <4>1 DEF CodeInv, Claimed
      <4>3. CASE req[r].at = "issue" \/ req[r].code = 0
        BY <1>3, <1>4, <4>1, <4>2, <4>3 DEF CodeInv, Apart
      <4>4. CASE req[r].code > lastStep
        <5>1. \A s \in Requests : session[s].code < req[r].code
          BY <1>0, <4>4 DEF CodeInv, Claimed
        <5>2. \A s \in Requests : req[s].at = "issue" => req[s].code < req[r].code
          BY <1>0, <4>4 DEF CodeInv, Claimed
        <5> QED BY <1>0, <1>3, <1>4, <4>1, <4>2, <5>1, <5>2 DEF CodeInv, Apart
      <4>5. \/ req[r].at = "issue" \/ req[r].code = 0
            \/ req[r].code > lastStep
        BY <4>1
      <4> QED BY <4>2, <4>3, <4>4, <4>5
    <3> QED BY <3>1, <3>2
  <2> QED BY <1>1, <1>4, <2>1, <2>2 DEF CodeInv, CodeOnce
<1>5. CASE /\ req[r].at = "issue" /\ session' = Open(r) /\ Issue(r)
           /\ req'[r].at = "done"
  <2>1. /\ \A s \in Requests \ {r} : session'[s] = session[s]
        /\ session'[r].code = req[r].code
    BY <1>0, <1>5 DEF Open
  <2>2. Unopened'
    BY <1>3, <1>5, <2>1 DEF CodeInv, Unopened
  <2>3. Claimed'
    BY <1>0, <1>2, <1>3, <1>5, <2>1 DEF CodeInv, Claimed
  <2>4. Apart'
    BY <1>3, <1>5, <2>1 DEF CodeInv, Apart
  <2>5. CodeOnce'
    BY <1>5, <2>1 DEF CodeInv, CodeOnce, Apart
  <2> QED BY <1>1, <2>2, <2>3, <2>4, <2>5 DEF CodeInv
<1>6. CASE Revoke(r) /\ session' = Ended(req[r])
  <2>1. \A s \in Requests : /\ session'[s].code = session[s].code
                            /\ session[s] = NoRow => session'[s] = NoRow
    BY <1>6, EndedRow
  <2>2. req'[r].at # "issue"
    BY <1>0, <1>6, OnlyOne DEF Revoke
  <2>3. Unopened'
    BY <1>3, <1>6, <2>1, Started DEF CodeInv, Unopened
  <2>4. Claimed'
    BY <1>0, <1>2, <1>3, <2>1, <2>2 DEF CodeInv, Claimed
  <2>5. Apart'
    BY <1>3, <2>1, <2>2 DEF CodeInv, Apart
  <2>6. CodeOnce'
    BY <2>1 DEF CodeInv, CodeOnce
  <2> QED BY <1>1, <2>3, <2>4, <2>5, <2>6 DEF CodeInv
<1> QED BY <1>4, <1>5, <1>6, SessionMoves

\* No code is in use at the start.
LEMMA CodeInit == Init => CodeInv
BY DEF Init, NoRow, Fresh, CodeInv, Unopened, Codeless, Claimed, Apart, CodeOnce

\* Neither does time bring two codes together.
LEMMA CodeIdle ==
  ASSUME CodeInv, Tick \/ UNCHANGED vars
  PROVE  CodeInv'
BY DEF Tick, vars, CodeInv, Unopened, Codeless, Claimed, Apart, CodeOnce

\* A one-time code opens one session at most, whatever the overlap and the
\* repetition of the logins (ClaimTOTPStep).
THEOREM CodesOpenOne == Spec => []CodeOnce
<1>1. Init => TypeOK /\ Held /\ CodeInv
  BY TypeInit, CodeInit
<1>2. TypeOK /\ Held /\ CodeInv /\ [Next]_vars => CodeInv'
  BY CodeStep, CodeIdle DEF Next
<1>3. TypeOK /\ Held /\ [Next]_vars => TypeOK' /\ Held'
  BY TypeStep
<1>4. CodeInv => CodeOnce
  BY DEF CodeInv
<1> QED BY <1>1, <1>2, <1>3, <1>4, PTL DEF Spec

-----------------------------------------------------------------------------
(* The account and the sessions.                                           *)

\* An update changes the epoch exactly when it changes the password or the
\* roles.
LEMMA UpdatedEpoch ==
  ASSUME TypeOK, NEW c
  PROVE  /\ Updated(c).exists
         /\ Updated(c).epoch \in {account.epoch, account.epoch + 1}
         /\ Updated(c).epoch = account.epoch =>
              /\ Updated(c).password = account.password
              /\ Updated(c).roles = account.roles
<1>1. account.epoch \in Nat
  BY DEF TypeOK, Accounts
<1> QED BY <1>1 DEF Updated

\* A step updates the account, deletes it, or leaves it.
LEMMA AccountMoves ==
  ASSUME TypeOK, NEW r \in Requests, Step(r)
  PROVE  \/ account' = account
         \/ /\ Write(r) /\ account.exists /\ account' = Updated(req[r])
         \/ Remove(r) /\ account' = [account EXCEPT !.exists = FALSE]
<1>1. CASE Write(r)
  BY <1>1 DEF Write, Matched
<1>2. CASE Remove(r)
  BY <1>2 DEF Remove
<1> QED BY <1>1, <1>2 DEF Step, Begin, Lookup, Verify, Claim, Issue,
           FindSession, FindUser, Mint, Read, Revoke

\* What became of the account's epoch, password and roles.
LEMMA EpochMoves ==
  ASSUME TypeOK, Held, NEW r \in Requests, Step(r)
  PROVE  /\ account.epoch \in Nat
         /\ account'.epoch \in {account.epoch, account.epoch + 1}
         /\ account'.epoch = account.epoch =>
              /\ account'.password = account.password
              /\ account'.roles = account.roles
         /\ ~Write(r) => account'.epoch = account.epoch
<1>1. account \in Accounts /\ account.epoch \in Nat
  BY DEF TypeOK, Accounts
<1>2. CASE account' = account
  BY <1>1, <1>2
<1>3. CASE Write(r) /\ account' = Updated(req[r])
  BY <1>1, <1>3, UpdatedEpoch
<1>4. CASE account' = [account EXCEPT !.exists = FALSE]
  BY <1>1, <1>4 DEF Accounts
<1> QED BY <1>2, <1>3, <1>4, AccountMoves

\* A session that is over stays over, whatever the calls have read.
LEMMA OverStep ==
  ASSUME TypeOK, Held, Unopened, [Next]_vars, NEW s \in Requests, Over(s)
  PROVE  Over(s)'
<1>1. CASE UNCHANGED vars
  BY <1>1 DEF vars, Over
<1>2. CASE Tick
  BY <1>2 DEF Tick, Over
<1>3. ASSUME NEW r \in Requests, Step(r) PROVE Over(s)'
  <2>1. session[s].state \in {"live", "revoked"}
    BY DEF Over
  <2>2. /\ session'[s].state \in {session[s].state, "revoked"}
    <3>1. CASE session' = session
      BY <3>1
    <3>2. CASE req[r].at = "issue" /\ session' = Open(r)
      <4>1. s # r
        BY <2>1, <3>2 DEF Unopened, NoRow
      <4> QED BY <3>2, <4>1 DEF Open
    <3>3. CASE session' = Ended(req[r])
      BY <3>3, EndedRow
    <3> QED BY <1>3, <3>1, <3>2, <3>3, SessionMoves
  <2>3. ~account.exists => ~account'.exists
    <3>1. account \in Accounts
      BY DEF TypeOK
    <3> QED BY <1>3, <3>1, AccountMoves DEF Accounts
  <2> QED BY <2>1, <2>2, <2>3 DEF Over
<1> QED BY <1>1, <1>2, <1>3 DEF Next

\* A session that was revoked or whose user was deleted is over for good
\* (RevokeSession, DeleteUser).
THEOREM OverStaysOver == Spec => EndedForGood
<1>1. Init => TypeOK /\ Held /\ CodeInv
  BY TypeInit, CodeInit
<1>2. TypeOK /\ Held /\ CodeInv /\ [Next]_vars => (TypeOK /\ Held /\ CodeInv)'
  BY TypeStep, CodeStep, CodeIdle DEF Next
<1>3. TypeOK /\ Held /\ CodeInv /\ [Next]_vars
        => [\A s \in Requests : Over(s) => Over(s)']_vars
  BY OverStep DEF CodeInv
<1> QED BY <1>1, <1>2, <1>3, PTL DEF Spec, EndedForGood

-----------------------------------------------------------------------------
(* Passwords, roles and the sessions opened on them.                       *)

\* The row a call has read is not newer than the account, and is the account
\* when nothing has changed since.
Snapshots ==
  \A r \in Requests :
    req[r].at \in Holding =>
      /\ req[r].user.epoch <= account.epoch
      /\ req[r].user.epoch = account.epoch =>
           /\ req[r].user.password = account.password
           /\ req[r].user.roles = account.roles

\* No session was opened on a row to come.
Past == \A s \in Requests : session[s].epoch <= account.epoch

\* A token belongs to a session, and carries the roles it was opened on.
Carried ==
  \A t \in tokens :
    /\ session[t.session].state # "none"
    /\ ~session[t.session].late /\ session[t.session].epoch = account.epoch
         => t.roles = account.roles

\* A refresh works on a session, and has read a row that is no older.
Refreshing ==
  \A r \in Requests :
    /\ req[r].at \in {"session", "user", "mint"} =>
         session[req[r].target].state # "none"
    /\ req[r].at = "mint" => session[req[r].target].epoch <= req[r].user.epoch

\* Only an update reads and writes the account.
Writers == \A r \in Requests :
             req[r].at \in {"read", "write"} => req[r].op = "Update"

CurrentInv == /\ Snapshots /\ Past /\ Carried /\ Refreshing /\ Writers
              /\ SessionsCurrent

\* What a call holds after its step: nothing, what it held, the account, or a
\* session to refresh.
LEMMA CallMoves ==
  ASSUME TypeOK, Held, NEW r \in Requests, Step(r)
  PROVE  \/ req'[r].at \notin Holding \cup {"session", "user"}
         \/ /\ req'[r].at \in Holding \ {"mint"} /\ req[r].at \in Holding
            /\ req'[r].user = req[r].user
         \/ /\ req'[r].at \in Holding /\ req'[r].user = account
            /\ account' = account /\ session' = session
            /\ req'[r].at = "mint" => /\ req[r].at = "user"
                                     /\ req'[r].target = req[r].target
         \/ /\ req'[r].at \in {"session", "user"} /\ session' = session
            /\ \/ req[r].at = "session" /\ req'[r].target = req[r].target
               \/ \E t \in tokens : t.session = req'[r].target
<1> USE DEF Holding
<1>0. req \in [Requests -> Calls] /\ req[r] \in Calls
  BY DEF TypeOK
<1>1. CASE Return(r)
  BY <1>0, <1>1, OnlyOne
<1>2. CASE \E stage \in {"lookup", "read", "revoke", "remove"} :
             Goto(r, stage) \/ Repeats(r, stage)
  <2>1. req'[r].at \in {"lookup", "read", "revoke", "remove", "done"}
    BY <1>0, <1>2, OnlyOne
  <2> QED BY <2>1
<1>3. CASE Begin(r)
  <2>1. PICK e \in Calls : req' = [req EXCEPT ![r] = e] /\ Arrived(e, req[r])
    BY <1>3, BeginEntry
  <2>2. req'[r] = e /\ session' = session
    BY <1>0, <1>3, <2>1 DEF Begin
  <2> QED BY <2>1, <2>2 DEF Arrived
<1>4. CASE Lookup(r)
  <2>1. \/ Return(r) \/ Repeats(r, "lookup")
        \/ /\ req' = [req EXCEPT ![r].user = account,
                                 ![r].at = IF req[r].op = "Login" THEN "verify"
                                                                  ELSE "issue"]
           /\ account' = account /\ session' = session
    BY <1>4 DEF Lookup, Refuse
  <2>2. \/ Return(r) \/ Repeats(r, "lookup")
        \/ /\ \/ req' = [req EXCEPT ![r].at = "verify", ![r].user = account]
              \/ req' = [req EXCEPT ![r].at = "issue", ![r].user = account]
           /\ account' = account /\ session' = session
    BY <2>1
  <2> QED BY <1>1, <1>2, <2>2, HeldRead
<1>5. CASE Verify(r)
  <2>1. Return(r) \/ (req[r].at = "verify" /\ Goto(r, "claim"))
    BY <1>5 DEF Verify, Refuse
  <2> QED BY <1>0, <1>1, <2>1, OnlyOne DEF Same
<1>6. CASE Claim(r)
  <2>1. Return(r) \/ Repeats(r, "lookup")
        \/ (req[r].at = "claim" /\ Goto(r, "issue"))
    BY <1>6 DEF Claim, Refuse
  <2> QED BY <1>0, <1>1, <1>2, <2>1, OnlyOne DEF Same
<1>7. CASE Issue(r)
  <2>1. Return(r) \/ (req[r].at = "issue" /\ Repeats(r, "issue"))
    BY <1>7 DEF Issue
  <2> QED BY <1>0, <1>1, <2>1, OnlyOne DEF Same
<1>8. CASE FindSession(r)
  <2>1. /\ Return(r) \/ Goto(r, "user") \/ Repeats(r, "session")
        /\ req[r].at = "session" /\ session' = session
    BY <1>8 DEF FindSession
  <2> QED BY <1>0, <1>1, <2>1, OnlyOne DEF Same
<1>9. CASE FindUser(r)
  <2>1. \/ Return(r)
        \/ /\ req' = [req EXCEPT ![r].at = "mint", ![r].user = account]
           /\ account' = account /\ session' = session /\ req[r].at = "user"
    BY <1>9 DEF FindUser
  <2> QED BY <1>1, <2>1, HeldRead
<1>10. CASE Read(r)
  <2>1. \/ Return(r) \/ Repeats(r, "read")
        \/ /\ req' = [req EXCEPT ![r].at = "write", ![r].user = account]
           /\ account' = account /\ session' = session
    BY <1>10 DEF Read
  <2> QED BY <1>1, <1>2, <2>1, HeldRead
<1>11. CASE Write(r)
  <2>1. req[r].user \in Accounts
    BY <1>11 DEF Write, Held
  <2> DEFINE change == IF Updated(req[r]).epoch # account.epoch
                         THEN Updated(req[r]).epoch ELSE req[r].change
  <2>2. \/ req' = [req EXCEPT ![r].at = "revoke", ![r].change = change]
        \/ Return(r) \/ Repeats(r, "read")
    BY <1>11 DEF Write
  <2>3. change \in Nat
    BY <1>0, <2>1, UpdatedType DEF Accounts, Calls
  <2> HIDE DEF change
  <2> QED BY <1>0, <1>1, <1>2, <2>2, <2>3, RevokeEntry
<1> QED BY <1>1, <1>2, <1>3, <1>4, <1>5, <1>6, <1>7, <1>8, <1>9, <1>10, <1>11
        DEF Step, Mint, Revoke, Remove

\* Reading and writing stay with the updates.
LEMMA WritersStep ==
  ASSUME TypeOK, Held, Writers, NEW r \in Requests, Step(r)
  PROVE  Writers'
<1>0. req \in [Requests -> Calls] /\ req[r] \in Calls
  BY DEF TypeOK
<1> SUFFICES ASSUME req'[r].at \in {"read", "write"} PROVE req'[r].op = "Update"
  BY Others DEF Writers
<1>1. ~Return(r)
  BY <1>0, OnlyOne
<1>2. \A stage \in Stages \ {"read", "write"} :
        ~Goto(r, stage) /\ ~Repeats(r, stage)
  BY <1>0, OnlyOne
<1>3. CASE Begin(r)
  <2>1. PICK e \in Calls : req' = [req EXCEPT ![r] = e] /\ Arrived(e, req[r])
    BY <1>3, BeginEntry
  <2> QED BY <1>0, <2>1 DEF Arrived
<1>4. CASE Lookup(r)
  <2>1. req' = [req EXCEPT ![r].user = account,
                           ![r].at = IF req[r].op = "Login" THEN "verify"
                                                            ELSE "issue"]
    BY <1>1, <1>2, <1>4 DEF Lookup, Refuse
  <2>2. \/ req' = [req EXCEPT ![r].at = "verify", ![r].user = account]
        \/ req' = [req EXCEPT ![r].at = "issue", ![r].user = account]
    BY <2>1
  <2> QED BY <2>2, HeldRead
<1>5. CASE FindUser(r)
  <2>1. req' = [req EXCEPT ![r].at = "mint", ![r].user = account]
    BY <1>1, <1>5 DEF FindUser
  <2> QED BY <2>1, HeldRead
<1>6. CASE Repeats(r, "read") /\ req[r].at \in {"read", "write"}
  BY <1>0, <1>6, OnlyOne DEF Same, Writers
<1>7. CASE Read(r)
  <2>1. \/ Repeats(r, "read")
        \/ req' = [req EXCEPT ![r].at = "write", ![r].user = account]
    BY <1>1, <1>7 DEF Read
  <2>2. req[r].at = "read"
    BY <1>7 DEF Read
  <2> QED BY <1>6, <2>1, <2>2, HeldRead DEF Writers
<1>8. CASE Write(r)
  <2>1. req[r].user \in Accounts /\ req[r].at = "write"
    BY <1>8 DEF Write, Held, Holding
  <2> DEFINE change == IF Updated(req[r]).epoch # account.epoch
                         THEN Updated(req[r]).epoch ELSE req[r].change
  <2>2. \/ req' = [req EXCEPT ![r].at = "revoke", ![r].change = change]
        \/ Repeats(r, "read")
    BY <1>1, <1>8 DEF Write
  <2>3. change \in Nat
    BY <1>0, <2>1, UpdatedType DEF Accounts, Calls
  <2> HIDE DEF change
  <2> QED BY <1>0, <1>6, <2>1, <2>2, <2>3, RevokeEntry
<1> QED BY <1>1, <1>2, <1>3, <1>4, <1>5, <1>7, <1>8
        DEF Step, Verify, Claim, Issue, FindSession, Mint, Revoke, Remove, Refuse

\* What is owed stays owed until every session has ended.
LEMMA OwedMoves ==
  ASSUME TypeOK, Held, NEW r \in Requests, Step(r), NEW c, Owed(c)
  PROVE  Owed(c)' \/ \A s \in Requests : session'[s].state # "live"
<1>1. excused \subseteq excused'
  BY DEF Step, Begin, Lookup, Verify, Claim, Issue, FindSession, FindUser,
         Mint, Read, Write, Revoke, Remove
<1>2. CASE c \in excused
  BY <1>1, <1>2 DEF Owed
<1>3. ASSUME NEW u \in Requests, req[u].op = "Update", req[u].at = "revoke",
             req[u].change = c, u # r
      PROVE  Owed(c)'
  BY <1>3, Others DEF Owed
<1>4. CASE req[r].op = "Update" /\ req[r].at = "revoke" /\ req[r].change = c
  <2>1. Revoke(r)
    BY <1>4 DEF Step, Begin, Lookup, Verify, Claim, Issue, FindSession,
                FindUser, Mint, Read, Write, Remove
  <2>2. CASE session' = Ended(req[r])
    BY <1>4, <2>2, EndedRow DEF Reached
  <2>3. CASE excused' = excused \cup {c}
    BY <2>3 DEF Owed
  <2> QED BY <1>4, <2>1, <2>2, <2>3 DEF Revoke
<1> QED BY <1>2, <1>3, <1>4 DEF Owed

\* A change of the account is owed by the update that makes it: an update
\* that ends no session changes nothing unless it was overtaken.
LEMMA WriteOwes ==
  ASSUME TypeOK, Held, Snapshots, Writers, NEW r \in Requests, Write(r),
         NEW n \in Nat, account'.epoch = n, n # account.epoch
  PROVE  Owed(n)'
<1>0. /\ req \in [Requests -> Calls] /\ req[r] \in Calls
      /\ req[r].user \in Accounts /\ account \in Accounts
      /\ req[r].at = "write" /\ req[r].op = "Update"
  BY DEF TypeOK, Write, Held, Holding, Writers
<1> DEFINE change == IF Updated(req[r]).epoch # account.epoch
                       THEN Updated(req[r]).epoch ELSE req[r].change
<1>1. account' = Updated(req[r])
  BY DEF Write
<1>2. change = n /\ change \in Nat
  BY <1>0, <1>1, UpdatedType DEF Accounts
<1>3. CASE req' = [req EXCEPT ![r].at = "revoke", ![r].change = change]
  <2> HIDE DEF change
  <2>1. /\ req'[r].at = "revoke" /\ req'[r].change = change
        /\ req'[r].op = "Update"
    BY <1>0, <1>2, <1>3, RevokeEntry
  <2> QED BY <1>2, <2>1 DEF Owed
<1>4. CASE change \in excused'
  BY <1>2, <1>4 DEF Owed
<1>5. CASE ~EndsSessions(req[r]) /\ req[r].user.epoch = account.epoch
  <2>1. /\ req[r].user.password = account.password
        /\ req[r].user.roles = account.roles
    BY <1>0, <1>5 DEF Snapshots, Holding
  <2>2. /\ Given(req[r].password, req[r].user.password) = account.password
        /\ Given(req[r].roles, req[r].user.roles) = account.roles
    BY <1>5, <2>1 DEF EndsSessions, Given
  <2>3. Updated(req[r]).epoch = account.epoch
    BY <2>2 DEF Updated
  <2> QED BY <1>1, <2>3
<1> QED BY <1>3, <1>4, <1>5 DEF Write

\* A row that exists keeps all but its state.
LEMMA RowsStay ==
  ASSUME TypeOK, Held, Unopened, NEW r \in Requests, Step(r),
         NEW s \in Requests, session[s].state # "none"
  PROVE  /\ session'[s].epoch = session[s].epoch
         /\ session'[s].late = session[s].late
         /\ session'[s].state \in {session[s].state, "revoked"}
<1>1. CASE session' = session
  BY <1>1
<1>2. CASE req[r].at = "issue" /\ session' = Open(r)
  <2>1. s # r
    BY <1>2 DEF Unopened, NoRow
  <2> QED BY <1>2, <2>1 DEF Open
<1>3. CASE session' = Ended(req[r])
  BY <1>3, EndedRow
<1> QED BY <1>1, <1>2, <1>3, SessionMoves

\* The row of a new session.
LEMMA Opened ==
  ASSUME TypeOK, NEW r \in Requests
  PROVE  /\ \A s \in Requests \ {r} : Open(r)[s] = session[s]
         /\ Open(r)[r].state = "live"
         /\ Open(r)[r].epoch = req[r].user.epoch
         /\ Open(r)[r].late = (req[r].user.epoch # account.epoch)
BY DEF TypeOK, Open

\* The rows that the calls have read stay no newer than the account.
LEMMA SnapshotsStep ==
  ASSUME TypeOK, Held, Snapshots, NEW r \in Requests, Step(r)
  PROVE  Snapshots'
<1> SUFFICES ASSUME NEW s \in Requests, req'[s].at \in Holding
             PROVE  /\ req'[s].user.epoch <= account'.epoch
                    /\ req'[s].user.epoch = account'.epoch =>
                         /\ req'[s].user.password = account'.password
                         /\ req'[s].user.roles = account'.roles
  BY DEF Snapshots
<1>1. ASSUME req[s].at \in Holding, req'[s].user = req[s].user
      PROVE  /\ req'[s].user.epoch <= account'.epoch
             /\ req'[s].user.epoch = account'.epoch =>
                  /\ req'[s].user.password = account'.password
                  /\ req'[s].user.roles = account'.roles
  <2>1. req[s].user.epoch \in Nat
    BY <1>1 DEF Held, Accounts
  <2> QED BY <1>1, <2>1, EpochMoves DEF Snapshots
<1>2. CASE s # r
  BY <1>1, <1>2, Others
<1>3. CASE s = r
  <2>1. CASE req'[r].user = account /\ account' = account
    BY <1>3, <2>1, EpochMoves
  <2> QED BY <1>1, <1>3, <2>1, CallMoves DEF Holding
<1> QED BY <1>2, <1>3

\* The sessions stay behind the account.
LEMMA PastStep ==
  ASSUME TypeOK, Held, Snapshots, Past, NEW r \in Requests, Step(r)
  PROVE  Past'
<1> SUFFICES ASSUME NEW s \in Requests
             PROVE  session'[s].epoch <= account'.epoch
  BY DEF Past
<1>1. session[s].epoch \in Nat /\ session[s].epoch <= account.epoch
  BY DEF TypeOK, Rows, Past
<1>2. CASE session'[s].epoch = session[s].epoch
  BY <1>1, <1>2, EpochMoves
<1>3. CASE req[r].at = "issue" /\ session' = Open(r)
  <2>1. CASE s # r
    BY <1>2, <1>3, <2>1, Opened
  <2>2. CASE s = r
    <3>1. req[r].user.epoch \in Nat /\ req[r].user.epoch <= account.epoch
      BY <1>3 DEF Held, Holding, Accounts, Snapshots
    <3> QED BY <1>3, <2>2, <3>1, Opened, EpochMoves
  <2> QED BY <2>1, <2>2
<1> QED BY <1>2, <1>3, SessionMoves, EndedRow

\* The calls that refresh keep their session.
LEMMA RefreshingStep ==
  ASSUME TypeOK, Held, Unopened, Past, Carried, Refreshing,
         NEW r \in Requests, Step(r)
  PROVE  Refreshing'
<1> SUFFICES ASSUME NEW q \in Requests
             PROVE  /\ req'[q].at \in {"session", "user", "mint"} =>
                         session'[req'[q].target].state # "none"
                    /\ req'[q].at = "mint" =>
                         session'[req'[q].target].epoch <= req'[q].user.epoch
  BY DEF Refreshing
<1>0. \A u \in Requests : req[u].target \in Requests
  BY DEF TypeOK, Calls
<1>1. CASE q # r
  <2>1. req'[q] = req[q] /\ req[q].target \in Requests
    BY <1>0, <1>1, Others
  <2>2. req[q].at = "mint" => req[q].at \in {"session", "user", "mint"}
    OBVIOUS
  <2> QED BY <2>1, <2>2, RowsStay DEF Refreshing
<1>2. CASE q = r
  <2>1. CASE req'[r].at = "mint"
    <3>1. /\ req'[r].user = account /\ session' = session
          /\ req[r].at = "user" /\ req'[r].target = req[r].target
      BY <2>1, CallMoves DEF Holding
    <3> QED BY <1>0, <1>2, <2>1, <3>1 DEF Refreshing, Past
  <2>2. CASE req'[r].at \in {"session", "user"}
    <3>1. /\ session' = session
          /\ \/ req[r].at = "session" /\ req'[r].target = req[r].target
             \/ \E t \in tokens : t.session = req'[r].target
      BY <2>2, CallMoves DEF Holding
    <3> QED BY <1>2, <2>2, <3>1 DEF Refreshing, Carried
  <2> QED BY <1>2, <2>1, <2>2
<1> QED BY <1>1, <1>2

\* A token is given out with a session or in a refresh.
LEMMA TokenMoves ==
  ASSUME TypeOK, NEW r \in Requests, Step(r), NEW t \in tokens'
  PROVE  \/ t \in tokens
         \/ /\ req[r].at = "issue" /\ session' = Open(r) /\ account' = account
            /\ t.session = r /\ t.roles = req[r].user.roles
         \/ /\ req[r].at = "mint" /\ session' = session /\ account' = account
            /\ t.session = req[r].target /\ t.roles = req[r].user.roles
<1>1. CASE Issue(r)
  BY <1>1 DEF Issue
<1>2. CASE Mint(r)
  BY <1>2 DEF Mint
<1> QED BY <1>1, <1>2 DEF Step, Begin, Lookup, Verify, Claim, FindSession,
           FindUser, Read, Write, Revoke, Remove

\* The tokens keep the roles of their sessions.
LEMMA CarriedStep ==
  ASSUME TypeOK, Held, Unopened, Snapshots, Past, Carried, Refreshing,
         NEW r \in Requests, Step(r)
  PROVE  Carried'
<1> SUFFICES ASSUME NEW t \in tokens'
             PROVE  /\ session'[t.session].state # "none"
                    /\ ~session'[t.session].late
                         /\ session'[t.session].epoch = account'.epoch
                         => t.roles = account'.roles
  BY DEF Carried
<1>1. CASE t \in tokens
  <2>1. t.session \in Requests /\ session[t.session].state # "none"
    BY <1>1 DEF TypeOK, Carried
  <2>2. session[t.session].epoch \in Nat
        /\ session[t.session].epoch <= account.epoch
    BY <2>1 DEF TypeOK, Rows, Past
  <2>3. /\ session'[t.session].epoch = session[t.session].epoch
        /\ session'[t.session].late = session[t.session].late
        /\ session'[t.session].state # "none"
    BY <2>1, RowsStay
  <2>4. /\ account.epoch \in Nat
        /\ account'.epoch \in {account.epoch, account.epoch + 1}
        /\ account'.epoch = account.epoch => account'.roles = account.roles
    BY EpochMoves
  <2>5. session'[t.session].epoch = account'.epoch =>
          account'.epoch = account.epoch
    BY <2>2, <2>3, <2>4
  <2> QED BY <1>1, <2>3, <2>4, <2>5 DEF Carried
<1>2. CASE /\ req[r].at = "issue" /\ session' = Open(r) /\ account' = account
           /\ t.session = r /\ t.roles = req[r].user.roles
  <2>1. req[r].user.epoch = account.epoch => req[r].user.roles = account.roles
    BY <1>2 DEF Snapshots, Holding
  <2> QED BY <1>2, <2>1, Opened
<1>3. CASE /\ req[r].at = "mint" /\ session' = session /\ account' = account
           /\ t.session = req[r].target /\ t.roles = req[r].user.roles
  <2>1. /\ session[t.session].state # "none"
        /\ session[t.session].epoch <= req[r].user.epoch
    BY <1>3 DEF Refreshing
  <2>2. req[r].user.epoch \in Nat /\ account.epoch \in Nat
    BY <1>3 DEF Held, Holding, Accounts, TypeOK
  <2>3. /\ req[r].user.epoch <= account.epoch
        /\ req[r].user.epoch = account.epoch =>
             req[r].user.roles = account.roles
    BY <1>3 DEF Snapshots, Holding
  <2> QED BY <1>3, <2>1, <2>2, <2>3
<1> QED BY <1>1, <1>2, <1>3, TokenMoves

\* The sessions stay current.
LEMMA SessionsStep ==
  ASSUME TypeOK, Held, Unopened, Snapshots, Past, Writers, SessionsCurrent,
         NEW r \in Requests, Step(r)
  PROVE  SessionsCurrent'
<1> SUFFICES ASSUME NEW s \in Requests, session'[s].state = "live",
                    ~session'[s].late,
                    NEW c \in (session'[s].epoch + 1)..account'.epoch
             PROVE  Owed(c)'
  BY DEF SessionsCurrent
<1>0. /\ account.epoch \in Nat /\ session[s].epoch \in Nat
      /\ account'.epoch \in {account.epoch, account.epoch + 1}
      /\ session[s].epoch <= account.epoch
  BY EpochMoves DEF TypeOK, Rows, Past
<1>1. CASE session[s].state = "live"
  <2>1. session'[s].epoch = session[s].epoch /\ session'[s].late = session[s].late
    BY <1>1, RowsStay
  <2>2. c \in Nat /\ session[s].epoch + 1 <= c /\ c <= account'.epoch
    BY <1>0, <2>1
  <2>3. CASE c <= account.epoch
    <3>1. Owed(c)
      BY <1>0, <1>1, <2>1, <2>2, <2>3 DEF SessionsCurrent
    <3> QED BY <3>1, OwedMoves
  <2>4. CASE c > account.epoch
    <3>1. c = account'.epoch /\ c # account.epoch
      BY <1>0, <2>2, <2>4
    <3>2. Write(r)
      BY <3>1, EpochMoves
    <3> QED BY <2>2, <3>1, <3>2, WriteOwes
  <2> QED BY <1>0, <2>2, <2>3, <2>4
<1>2. CASE session[s].state # "live"
  <2>1. req[r].at = "issue" /\ session' = Open(r) /\ Issue(r) /\ s = r
    BY <1>2, SessionMoves, Opened, EndedRow
  <2>2. session'[s].epoch = account.epoch /\ account' = account
    BY <2>1, Opened DEF Issue
  <2> QED BY <1>0, <2>2
<1> QED BY <1>1, <1>2

\* The invariants hold at the start and while nothing but time moves.
LEMMA CurrentInit == Init => CurrentInv
<1> SUFFICES ASSUME Init PROVE CurrentInv
  OBVIOUS
<1>1. /\ account.epoch = 0 /\ tokens = {}
      /\ \A r \in Requests : /\ req[r].at = "idle" /\ session[r].epoch = 0
                             /\ session[r].state = "none"
  BY DEF Init, Fresh, NoRow
<1> QED BY <1>1 DEF CurrentInv, Snapshots, Holding, Past, Carried, Refreshing,
                    Writers, SessionsCurrent

\* Time does not touch the account or the sessions.
LEMMA CurrentIdle ==
  ASSUME CurrentInv, Tick \/ UNCHANGED vars
  PROVE  CurrentInv'
BY DEF Tick, vars, CurrentInv, Snapshots, Past, Carried, Refreshing, Writers,
       SessionsCurrent, Owed

\* The strengthening that makes the invariants of the sessions inductive.
IInv == TypeOK /\ Held /\ CodeInv /\ CurrentInv

\* Every step preserves it.
LEMMA Inductive == IInv /\ [Next]_vars => IInv'
<1> SUFFICES ASSUME IInv, [Next]_vars PROVE IInv'
  OBVIOUS
<1>1. TypeOK' /\ Held'
  BY TypeStep DEF IInv
<1>2. CASE Tick \/ UNCHANGED vars
  BY <1>1, <1>2, CodeIdle, CurrentIdle DEF IInv
<1>3. ASSUME NEW r \in Requests, Step(r) PROVE IInv'
  <2>1. CodeInv'
    BY <1>3, CodeStep DEF IInv
  <2>2. CurrentInv'
    BY <1>3, SnapshotsStep, PastStep, CarriedStep, RefreshingStep,
       WritersStep, SessionsStep DEF IInv, CurrentInv, CodeInv
  <2> QED BY <1>1, <2>1, <2>2 DEF IInv
<1> QED BY <1>2, <1>3 DEF Next

\* A new password or other roles end the sessions opened on the old ones
\* (UpdateUser).
THEOREM SessionsStayCurrent == Spec => []SessionsCurrent
<1>1. Init => IInv
  BY TypeInit, CodeInit, CurrentInit DEF IInv
<1>2. IInv => SessionsCurrent
  BY DEF IInv, CurrentInv
<1> QED BY <1>1, <1>2, Inductive, PTL DEF Spec

\* Roles that were taken away are carried by no accepted token
\* (RefreshAccessToken).
THEOREM TokensStayCurrent == Spec => []TokensCurrent
<1>1. Init => IInv
  BY TypeInit, CodeInit, CurrentInit DEF IInv
<1>2. IInv => TokensCurrent
  <2> SUFFICES ASSUME IInv, NEW t \in tokens, Accepted(t),
                      t.roles # account.roles, ~session[t.session].late
               PROVE  \E c \in (session[t.session].epoch + 1)..account.epoch :
                        Owed(c)
    BY DEF TokensCurrent
  <2>1. t.session \in Requests
    BY DEF IInv, TypeOK
  <2>2. /\ session[t.session].epoch \in Nat /\ account.epoch \in Nat
        /\ session[t.session].epoch <= account.epoch
    BY <2>1 DEF IInv, TypeOK, Rows, Accounts, CurrentInv, Past
  <2>3. session[t.session].epoch # account.epoch
    BY DEF IInv, CurrentInv, Carried
  <2>4. account.epoch \in (session[t.session].epoch + 1)..account.epoch
    BY <2>2, <2>3
  <2> QED BY <2>1, <2>4 DEF IInv, CurrentInv, SessionsCurrent, Accepted
<1> QED BY <1>1, <1>2, Inductive, PTL DEF Spec
=============================================================================
