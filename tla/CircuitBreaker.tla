--------------------------- MODULE CircuitBreaker ---------------------------
(***************************************************************************)
(* The circuit breaker of internal/retry and the retry loop that runs      *)
(* inside it.  Every section the breaker's mutex guards is one step; the   *)
(* guarded call itself, made between admit and its outcome, is not.        *)
(*                                                                         *)
(* Of lastFailure only one thing is ever read: whether Timeout has passed  *)
(* since.  Failures beyond FailureThreshold are not told apart.            *)
(***************************************************************************)
EXTENDS Integers, FiniteSets

CONSTANTS
    Calls,            \* calls that may be in flight at the same time
    FailureThreshold,
    HalfOpenRequests,
    MaxAttempts       \* of the retry policy

ASSUME BreakerAssumption ==
    /\ IsFiniteSet(Calls)
    /\ FailureThreshold \in Nat \ {0}
    /\ HalfOpenRequests \in Nat \ {0}
    /\ MaxAttempts \in Nat \ {0}

VARIABLES
    state, failures, halfOpenCount,
    elapsed,  \* Timeout has passed since lastFailure
    call,     \* how each call was admitted, and the retries it has made
    healthy,  \* whether the backend works
    mode      \* fixed for a behaviour: whether errors are classified, and
              \* whether a call may take longer than Timeout

vars == <<state, failures, halfOpenCount, elapsed, call, healthy, mode>>

NoCall == [as |-> "none", retries |-> 0]

TypeOK ==
    /\ state \in {"closed", "open", "half-open"}
    /\ failures \in 0 .. FailureThreshold
    /\ halfOpenCount \in 0 .. HalfOpenRequests
    /\ elapsed \in BOOLEAN
    /\ call \in [Calls -> [as : {"none", "plain", "trial"}, retries : 0 .. MaxAttempts - 1]]
    /\ healthy \in BOOLEAN
    /\ mode \in [classified : BOOLEAN, outlive : BOOLEAN]

Init ==
    /\ state = "closed"
    /\ failures = 0
    /\ halfOpenCount = 0
    /\ elapsed = TRUE
    /\ call = [c \in Calls |-> NoCall]
    /\ healthy = TRUE
    /\ mode \in [classified : BOOLEAN, outlive : BOOLEAN]

Trials == {c \in Calls : call[c].as = "trial"}
Quiet == \A c \in Calls : call[c] = NoCall

-----------------------------------------------------------------------------
(* admit.  A refused call changes nothing.                                 *)

Enter(c, how) == /\ call[c] = NoCall
                 /\ call' = [call EXCEPT ![c].as = how]
                 /\ UNCHANGED <<failures, elapsed, healthy, mode>>

AdmitPlain(c) ==
    /\ state = "closed"
    /\ Enter(c, "plain")
    /\ UNCHANGED <<state, halfOpenCount>>

\* Mutant: the call that ends the open period takes no slot.
AdmitFirstTrial_NoSlot(c) ==
    /\ state = "open" /\ elapsed
    /\ state' = "half-open"
    /\ halfOpenCount' = 0
    /\ Enter(c, "trial")

AdmitFirstTrial(c) ==
    /\ state = "open" /\ elapsed
    /\ state' = "half-open"
    /\ halfOpenCount' = 1
    /\ Enter(c, "trial")

AdmitTrial(c) ==
    /\ state = "half-open" /\ halfOpenCount < HalfOpenRequests
    /\ halfOpenCount' = halfOpenCount + 1
    /\ Enter(c, "trial")
    /\ UNCHANGED state

Admit(c) == AdmitPlain(c) \/ AdmitFirstTrial(c) \/ AdmitTrial(c)

-----------------------------------------------------------------------------
(* WithExponentialBackoff: a retryable error, and attempts left.           *)

Retry(c) ==
    /\ call[c] # NoCall
    /\ ~healthy
    /\ call[c].retries < MaxAttempts - 1
    /\ call' = [call EXCEPT ![c].retries = @ + 1]
    /\ UNCHANGED <<state, failures, halfOpenCount, elapsed, healthy, mode>>

Leave(c, how) == /\ call[c].as = how
                 /\ call' = [call EXCEPT ![c] = NoCall]
                 /\ UNCHANGED <<healthy, mode>>

\* An error that counts: a fault of the backend or, without a classifier, any.
Counts == ~healthy \/ ~mode.classified

OneMore == IF failures < FailureThreshold THEN failures + 1 ELSE failures

\* executeClosed, whose outcome lands whatever the state has become.
PlainSucceeds(c) ==
    /\ Leave(c, "plain")
    /\ failures' = 0
    /\ UNCHANGED <<state, halfOpenCount, elapsed>>

PlainFails(c) ==
    /\ Counts
    /\ Leave(c, "plain")
    /\ failures' = OneMore
    /\ elapsed' = FALSE
    /\ state' = IF OneMore >= FailureThreshold THEN "open" ELSE state
    /\ UNCHANGED halfOpenCount

\* A client outcome or a cancelled request, told apart by the classifier.
PlainRejected(c) ==
    /\ mode.classified
    /\ Leave(c, "plain")
    /\ UNCHANGED <<state, failures, halfOpenCount, elapsed>>

\* Mutant: the last slot never closes.
TrialSucceeds_NeverCloses(c) ==
    /\ Leave(c, "trial")
    /\ UNCHANGED <<state, failures, halfOpenCount, elapsed>>

\* finishHalfOpen.
TrialSucceeds(c) ==
    /\ Leave(c, "trial")
    /\ IF halfOpenCount >= HalfOpenRequests
         THEN state' = "closed" /\ failures' = 0 /\ halfOpenCount' = 0
         ELSE UNCHANGED <<state, failures, halfOpenCount>>
    /\ UNCHANGED elapsed

\* Mutant: the slots stay taken when a trial reopens the breaker.
TrialFails_KeepsSlots(c) ==
    /\ Counts
    /\ Leave(c, "trial")
    /\ failures' = OneMore
    /\ elapsed' = FALSE
    /\ state' = "open"
    /\ UNCHANGED halfOpenCount

TrialFails(c) ==
    /\ Counts
    /\ Leave(c, "trial")
    /\ failures' = OneMore
    /\ elapsed' = FALSE
    /\ state' = "open"
    /\ halfOpenCount' = 0

\* Mutant: a slot is never released.
TrialRejected_HoldsSlot(c) ==
    /\ mode.classified
    /\ Leave(c, "trial")
    /\ UNCHANGED <<state, failures, halfOpenCount, elapsed>>

TrialRejected(c) ==
    /\ mode.classified
    /\ Leave(c, "trial")
    /\ halfOpenCount' = IF state = "half-open" /\ halfOpenCount > 0
                          THEN halfOpenCount - 1 ELSE halfOpenCount
    /\ UNCHANGED <<state, failures, elapsed>>

Succeed(c) == PlainSucceeds(c) \/ TrialSucceeds(c)
Return(c) == \/ Succeed(c)
             \/ PlainFails(c) \/ PlainRejected(c)
             \/ TrialFails(c) \/ TrialRejected(c)

-----------------------------------------------------------------------------
(* Time and the backend.                                                   *)

\* elapsed matters only while the breaker is open, when every call in flight
\* began before the last failure.
TimeoutElapses ==
    /\ state = "open" /\ ~elapsed
    /\ ~mode.outlive => Quiet
    /\ elapsed' = TRUE
    /\ UNCHANGED <<state, failures, halfOpenCount, call, healthy, mode>>

Backend ==
    /\ healthy' = ~healthy
    /\ UNCHANGED <<state, failures, halfOpenCount, elapsed, call, mode>>

Next ==
    \/ \E c \in Calls : Admit(c) \/ Retry(c) \/ Return(c)
    \/ TimeoutElapses
    \/ Backend

Spec == Init /\ [][Next]_vars

\* Callers keep calling, every call ends and time passes.  A caller does not
\* make bad requests, or cancel its requests, for ever.
FairSpec == /\ Spec
            /\ \A c \in Calls : /\ WF_vars(Admit(c))
                                /\ WF_vars(Return(c))
                                /\ SF_vars(Succeed(c))
            /\ WF_vars(TimeoutElapses)

-----------------------------------------------------------------------------
(* Properties.                                                             *)

\* A closed breaker has seen fewer failures in a row than the threshold and
\* holds no slot: no late outcome of a call that was admitted in an earlier
\* state leaves it closed but over the limit (recordFailure, finishHalfOpen).
ClosedIsClean == state = "closed" => failures < FailureThreshold /\ halfOpenCount = 0

\* A half-open breaker never gets stuck: when no trial is in flight there is a
\* slot for the next one, whatever successes, client errors and leftovers of
\* earlier half-open periods came before ("Holding it would leave the breaker
\* stuck half-open", finishHalfOpen).
SlotLeft == state = "half-open" /\ Trials = {} => halfOpenCount < HalfOpenRequests

\* Execute: "capped at config.HalfOpenRequests concurrent/total trial calls
\* while half-open".
TrialsCapped == state = "half-open" => Cardinality(Trials) <= HalfOpenRequests

\* The cap holds as long as no call takes longer than Timeout.
ShortTrialsCapped == ~mode.outlive => TrialsCapped

\* As long as no call takes longer than Timeout, an open breaker closes only
\* through a half-open period, though calls of all periods answer late.
OpensForTimeout == [][~mode.outlive /\ state = "open" => state' # "closed"]_vars

\* When the backend recovers for good, a breaker that classifies errors closes
\* for good.
Recovers == mode.classified /\ <>[]healthy => <>[](state = "closed")
=============================================================================
