------------------------------ MODULE Sessions ------------------------------
(***************************************************************************)
(* Sign-in, sessions and changes of one account: password and one-time     *)
(* code, external sign-in, refresh, logout, user update and user delete    *)
(* (services/auth, services/users and their repositories).                 *)
(*                                                                         *)
(* A request is one call of a service.  Each of its database statements is *)
(* a step, so that requests overlap: what a request read before a step may *)
(* have changed by then.  Accounts share no row, so one is enough.  A      *)
(* session is named by the request that opens it.                          *)
(***************************************************************************)
EXTENDS Naturals, FiniteSets

CONSTANTS Requests,       \* calls of the services
          Passwords,      \* a password stands for its hash
          Roles,          \* a value stands for a set of roles
          None,           \* a field that is not given or not known
          Skew,           \* time steps around the present whose codes match
          FreeAttempts,   \* loginFreeAttempts
          BaseDelay,      \* loginBaseDelay
          MaxDelay,       \* loginMaxDelay
          ResetAfter,     \* loginResetAfter
          MaxTime,        \* bound of the clock, in TOTP steps
          MaxTries,       \* bound: MaxAttempts - 1 of the retry policy
          MaxFaults       \* bound on failing statements

ASSUME SessionsAssumption ==
  /\ None \notin Passwords \cup Roles
  /\ {Skew, FreeAttempts, BaseDelay, MaxDelay, ResetAfter} \subseteq Nat
  /\ {MaxTime, MaxTries, MaxFaults} \subseteq Nat

Ops == {"Login", "External", "Refresh", "Logout", "Update", "Delete"}

\* An account row.  epoch numbers the changes of its password or its roles;
\* it is history and no code reads it.
Accounts == [exists: BOOLEAN, password: Passwords, enrolled: BOOLEAN,
             roles: Roles, epoch: Nat]

Stages == {"idle", "lookup", "verify", "claim", "issue",   \* Login, External
           "session", "user", "mint",                      \* Refresh
           "read", "write", "revoke", "remove",            \* Update, Delete
           "done"}

Calls == [op: Ops, at: Stages, tries: Nat, user: Accounts \cup {None},
          password: Passwords \cup {None}, roles: Roles \cup {None},
          code: Nat, target: Requests, change: Nat]

\* A session row.  Its code (0 for an external sign-in), the epoch of the row
\* that was checked and whether that row had changed by then are history.
Rows == [state: {"none", "live", "revoked"}, code: Nat, epoch: Nat,
         late: BOOLEAN]

VARIABLES now,        \* the TOTP time step of the clock
          account,    \* the row of users and user_roles
          lastStep,   \* users.totp_last_step
          failures,   \* the row of login_failures; a count of 0 is no row
          session,    \* the rows of user_sessions
          tokens,     \* the access tokens handed out
          req,        \* the calls
          faults,     \* failing statements so far
          excused     \* history: changes the code ended no session for

vars == <<now, account, lastStep, failures, session, tokens, req, faults,
          excused>>

throttle == <<now, lastStep, failures>>

-----------------------------------------------------------------------------
(* The throttle.                                                           *)

LoginDelay(n) ==
  LET over == n - FreeAttempts
      d == BaseDelay * 2^(over - 1)
  IN  IF n <= FreeAttempts THEN 0 ELSE IF d > MaxDelay THEN MaxDelay ELSE d

Throttled == /\ failures.count > 0
             /\ now - failures.at < ResetAfter
             /\ failures.at + LoginDelay(failures.count) > now

\* The counter after one more failure; a stale one restarts.
Counted == [count |-> IF now - failures.at > ResetAfter THEN 1
                                                 ELSE failures.count + 1,
            at |-> now]

-----------------------------------------------------------------------------

Fresh(r) == [op |-> "Login", at |-> "idle", tries |-> 0, user |-> None,
             password |-> None, roles |-> None, code |-> 0, target |-> r,
             change |-> 0]

NoRow == [state |-> "none", code |-> 0, epoch |-> 0, late |-> FALSE]

Init == /\ now = 1
        /\ \E p \in Passwords, e \in BOOLEAN, o \in Roles :
             account = [exists |-> TRUE, password |-> p, enrolled |-> e,
                        roles |-> o, epoch |-> 0]
        /\ lastStep = 0
        /\ failures = [count |-> 0, at |-> 0]
        /\ session = [r \in Requests |-> NoRow]
        /\ tokens = {}
        /\ req = [r \in Requests |-> Fresh(r)]
        /\ faults = 0
        /\ excused = {}

Goto(r, stage) == req' = [req EXCEPT ![r].at = stage]

\* The call returns, with a result or an error; its arguments are forgotten.
Return(r) == req' = [req EXCEPT ![r] = [Fresh(r) EXCEPT !.at = "done"]]

Fails == /\ faults < MaxFaults
         /\ faults' = faults + 1

NoFault == faults' = faults

\* A call whose error the retry policy repeats starts over while it has tries.
Repeats(r, stage) ==
  \/ /\ req[r].tries < MaxTries
     /\ req' = [req EXCEPT ![r].at = stage, ![r].tries = @ + 1]
  \/ Return(r)

\* A call arrives with its arguments.
Begin(r) ==
  /\ req[r].at = "idle"
  /\ \/ \E p \in Passwords, c \in 0..(now + Skew) :
          req' = [req EXCEPT ![r].op = "Login", ![r].at = "lookup",
                             ![r].password = p, ![r].code = c]
     \/ req' = [req EXCEPT ![r].op = "External", ![r].at = "lookup"]
     \/ \E s \in Requests \ {r}, o \in {"Refresh", "Logout"} :
          /\ \E t \in tokens : t.session = s
          /\ req' = [req EXCEPT ![r].op = o, ![r].target = s, ![r].at =
                       IF o = "Refresh" THEN "session" ELSE "revoke"]
     \/ \E p \in Passwords \cup {None}, o \in Roles \cup {None} :
          req' = [req EXCEPT ![r].op = "Update", ![r].at = "read",
                             ![r].password = p, ![r].roles = o]
     \/ req' = [req EXCEPT ![r].op = "Delete", ![r].at = "revoke"]
  /\ UNCHANGED <<throttle, account, session, tokens, excused>>
  /\ NoFault

-----------------------------------------------------------------------------
(* Sign-in.                                                                *)

\* A refused login is counted, unless the counter cannot be written.
Refuse(r) == /\ Return(r)
             /\ \/ failures' = Counted /\ NoFault
                \/ failures' = failures /\ Fails

\* The throttle, whose own failure lets the attempt through, then the row of
\* the user.
Lookup(r) ==
  LET login == req[r].op = "Login"
  IN  /\ req[r].at = "lookup"
      /\ \/ /\ login /\ Throttled
            /\ Return(r) /\ NoFault /\ UNCHANGED failures
         \/ /\ account.exists
            /\ req' = [req EXCEPT ![r].user = account,
                                  ![r].at = IF login THEN "verify" ELSE "issue"]
            /\ IF login /\ Throttled THEN Fails ELSE NoFault
            /\ UNCHANGED failures
         \/ /\ ~account.exists
            /\ IF login THEN ~Throttled /\ Refuse(r)
                        ELSE Return(r) /\ NoFault /\ UNCHANGED failures
         \/ /\ Fails
            /\ IF login THEN ~Throttled /\ Return(r) /\ failures' = Counted
                        ELSE Repeats(r, "lookup") /\ UNCHANGED failures
      /\ UNCHANGED <<now, lastStep, account, session, tokens, excused>>

Matches(code) == code <= now + Skew /\ now <= code + Skew

\* The password, the enrollment and the code, against the row that was read.
Verify(r) ==
  LET c == req[r]
  IN  /\ c.at = "verify"
      /\ IF c.password = c.user.password /\ c.user.enrolled /\ Matches(c.code)
           THEN Goto(r, "claim") /\ NoFault /\ UNCHANGED failures
           ELSE Refuse(r)
      /\ UNCHANGED <<now, lastStep, account, session, tokens, excused>>

\* Mutant: the step of the last login is accepted again.
Newer_Same(step) == account.exists /\ lastStep <= step

Newer(step) == account.exists /\ lastStep < step

\* One conditional UPDATE: a step that is not newer claims no row.
Claim(r) ==
  LET c == req[r]
  IN  /\ c.at = "claim"
      /\ \/ /\ Newer(c.code)
            /\ lastStep' = c.code
            /\ Goto(r, "issue") /\ NoFault /\ UNCHANGED failures
         \/ ~Newer(c.code) /\ Refuse(r) /\ UNCHANGED lastStep
         \/ /\ Fails
            /\ lastStep' \in {lastStep, IF Newer(c.code) THEN c.code
                                                         ELSE lastStep}
            /\ failures' = Counted
            /\ Repeats(r, "lookup")
      /\ UNCHANGED <<now, account, session, tokens, excused>>

Cleared == [count |-> 0, at |-> 0]

\* The row of a new session.
Open(r) ==
  [session EXCEPT ![r] =
     [state |-> "live", code |-> req[r].code, epoch |-> req[r].user.epoch,
      late |-> req[r].user.epoch # account.epoch]]

\* The attempt row, the session and its first token; a login then clears the
\* counter.  A fault may leave a session whose token could not be signed.  The
\* session of a deleted user breaks a foreign key where those are enforced.
Issue(r) ==
  LET c == req[r]
  IN  /\ c.at = "issue"
      /\ \/ /\ session' = Open(r)
            /\ tokens' = tokens \cup {[session |-> r, roles |-> c.user.roles]}
            /\ Return(r)
            /\ failures' \in IF c.op = "Login" THEN {Cleared, failures}
                                               ELSE {failures}
            /\ NoFault
         \/ /\ ~account.exists
            /\ Return(r)
            /\ NoFault /\ UNCHANGED <<session, tokens, failures>>
         \/ /\ Fails
            /\ session' = Open(r)
            /\ Return(r)
            /\ UNCHANGED <<tokens, failures>>
         \/ /\ Fails
            /\ IF c.op = "Login" THEN Return(r) ELSE Repeats(r, "issue")
            /\ UNCHANGED <<session, tokens, failures>>
      /\ UNCHANGED <<now, lastStep, account, excused>>

-----------------------------------------------------------------------------
(* Refresh.  An expired session is refused as a revoked one is.            *)

FindSession(r) ==
  /\ req[r].at = "session"
  /\ \/ session[req[r].target].state = "live" /\ Goto(r, "user") /\ NoFault
     \/ Return(r) /\ (NoFault \/ Fails)
  /\ UNCHANGED <<throttle, account, session, tokens, excused>>

FindUser(r) ==
  /\ req[r].at = "user"
  /\ \/ /\ account.exists
        /\ req' = [req EXCEPT ![r].at = "mint", ![r].user = account]
        /\ NoFault
     \/ ~account.exists /\ Return(r) /\ NoFault
     \/ Fails /\ Return(r)
  /\ UNCHANGED <<throttle, account, session, tokens, excused>>

\* The attempt row and the token.  last_used_at moves only in a live row, and
\* nothing else of the row is written.
Mint(r) ==
  LET c == req[r]
  IN  /\ c.at = "mint"
      /\ \/ /\ tokens' = tokens \cup {[session |-> c.target,
                                       roles |-> c.user.roles]}
            /\ Return(r) /\ NoFault
         \/ Fails /\ Return(r) /\ UNCHANGED tokens
      /\ UNCHANGED <<throttle, account, session, excused>>

-----------------------------------------------------------------------------
(* Update, delete, logout.                                                 *)

Read(r) ==
  /\ req[r].at = "read"
  /\ \/ /\ account.exists
        /\ req' = [req EXCEPT ![r].at = "write", ![r].user = account]
        /\ NoFault
     \/ ~account.exists /\ Return(r) /\ NoFault
     \/ Fails /\ Repeats(r, "read")
  /\ UNCHANGED <<throttle, account, session, tokens, excused>>

\* Mutant: a field that is not given is written as it is.
Given_Raw(new, old) == new

Given(new, old) == IF new = None THEN old ELSE new

\* Mutant: a new password keeps the sessions.
EndsSessions_RolesOnly(c) == c.roles # None /\ c.roles # c.user.roles

\* Whether the update must end the sessions, by the row it read.
EndsSessions(c) ==
  \/ c.password # None
  \/ c.roles # None /\ c.roles # c.user.roles

\* The whole row is written: the fields that were given, and what was read.
Updated(c) ==
  LET p == Given(c.password, c.user.password)
      o == Given(c.roles, c.user.roles)
  IN  [exists |-> TRUE, password |-> p, roles |-> o,
       enrolled |-> c.user.enrolled \/ c.password # None,
       epoch |-> IF p # account.password \/ o # account.roles
                   THEN account.epoch + 1 ELSE account.epoch]

\* Mutant: an upsert.
Matched_Upsert == TRUE

\* UPDATE ... WHERE id = ? finds the row.
Matched == account.exists

\* The transaction may commit and still report an error, which is repeated:
\* the repeated call reads its own roles.
Write(r) ==
  LET c == req[r]
      row == Updated(c)
      change == IF row.epoch # account.epoch THEN row.epoch ELSE c.change
      overtaken == c.user.epoch # account.epoch
  IN  /\ c.at = "write"
      /\ \/ /\ Matched
            /\ account' = row
            /\ IF EndsSessions(c)
                 THEN /\ req' = [req EXCEPT ![r].at = "revoke",
                                            ![r].change = change]
                      /\ UNCHANGED excused
                 ELSE /\ Return(r)
                      /\ excused' = excused \cup
                                      IF overtaken THEN {change} ELSE {}
            /\ NoFault
         \/ ~Matched /\ Return(r) /\ NoFault
            /\ UNCHANGED <<account, excused>>
         \/ /\ Fails
            /\ Repeats(r, "read")
            /\ \/ Matched /\ account' = row /\ excused' = excused \cup {change}
               \/ UNCHANGED <<account, excused>>
      /\ UNCHANGED <<throttle, session, tokens>>

\* Mutant: the statement keeps its condition on one session.
Reached_One(c) == {c.target}

\* The sessions that the UPDATE of a call reaches.
Reached(c) == IF c.op = "Logout" THEN {c.target} ELSE Requests

Ended(c) == [s \in Requests |->
               IF s \in Reached(c) /\ session[s].state = "live"
                 THEN [session[s] EXCEPT !.state = "revoked"]
                 ELSE session[s]]

\* The last step of an update and of a logout, the first one of a delete.
Revoke(r) ==
  LET c == req[r]
  IN  /\ c.at = "revoke"
      /\ \/ /\ session' = Ended(c)
            /\ IF c.op = "Delete" THEN Goto(r, "remove") ELSE Return(r)
            /\ NoFault /\ UNCHANGED excused
         \/ /\ Fails
            /\ IF c.op = "Update"
                 THEN Return(r) /\ excused' = excused \cup {c.change}
                 ELSE Repeats(r, "revoke") /\ UNCHANGED excused
            /\ UNCHANGED session
      /\ UNCHANGED <<throttle, account, tokens>>

Remove(r) ==
  /\ req[r].at = "remove"
  /\ \/ /\ account' = [account EXCEPT !.exists = FALSE]
        /\ Return(r)
        /\ NoFault
     \/ /\ Fails
        /\ Repeats(r, "revoke")
        /\ account' \in {account, [account EXCEPT !.exists = FALSE]}
  /\ UNCHANGED <<throttle, session, tokens, excused>>

-----------------------------------------------------------------------------

Tick == /\ now < MaxTime
        /\ now' = now + 1
        /\ UNCHANGED <<lastStep, failures, account, session, tokens, req,
                       faults, excused>>

Step(r) == \/ Begin(r) \/ Lookup(r) \/ Verify(r) \/ Claim(r) \/ Issue(r)
           \/ FindSession(r) \/ FindUser(r) \/ Mint(r)
           \/ Read(r) \/ Write(r) \/ Revoke(r) \/ Remove(r)

Next == Tick \/ \E r \in Requests : Step(r)

Spec == Init /\ [][Next]_vars

-----------------------------------------------------------------------------

\* Every variable keeps its type.
TypeOK ==
  /\ now \in Nat /\ lastStep \in Nat /\ faults \in Nat
  /\ failures \in [count : Nat, at : Nat]
  /\ account \in Accounts
  /\ session \in [Requests -> Rows]
  /\ tokens \subseteq [session : Requests, roles : Roles]
  /\ req \in [Requests -> Calls]
  /\ excused \subseteq Nat

\* A one-time code opens one session at most, however many logins carry it and
\* however their statements interleave and repeat (ClaimTOTPStep).
CodeOnce ==
  \A r, s \in Requests :
    r # s /\ session[r].code # 0 => session[r].code # session[s].code

\* A change whose update has not ended the sessions yet, or never will: the
\* revocation failed, the commit was not acknowledged, or the update had not
\* read the row it replaced.
Owed(c) ==
  \/ c \in excused
  \/ \E u \in Requests :
       req[u].op = "Update" /\ req[u].at = "revoke" /\ req[u].change = c

\* A new password or other roles end the sessions opened on the old ones: a
\* session that is left was opened across the change, or the change still owes
\* the revocation (UpdateUser).
SessionsCurrent ==
  \A s \in Requests :
    session[s].state = "live" /\ ~session[s].late =>
      \A c \in (session[s].epoch + 1)..account.epoch : Owed(c)

\* ValidateSession: the row of the session, then the row of the user.  What
\* each read finds can only get worse, so one look at both accepts no less.
Accepted(t) == session[t.session].state = "live" /\ account.exists

\* Roles that were taken away are carried by no accepted token, whoever
\* refreshes while they are taken away (RefreshAccessToken): a token with other
\* roles than the user's has the excuse of its session.
TokensCurrent ==
  \A t \in tokens :
    Accepted(t) /\ t.roles # account.roles =>
      \/ session[t.session].late
      \/ \E c \in (session[t.session].epoch + 1)..account.epoch : Owed(c)

Over(s) == \/ session[s].state = "revoked"
           \/ session[s].state = "live" /\ ~account.exists

\* A session that was revoked or whose user was deleted is over for good, even
\* for the calls that have read it or its user before.
EndedForGood == [][\A s \in Requests : Over(s) => Over(s)']_vars
=============================================================================
