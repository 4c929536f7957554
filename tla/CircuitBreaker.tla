--------------------------- MODULE CircuitBreaker ---------------------------
(***************************************************************************)
(* resilience.CircuitBreaker: callers run a function through Execute.  The *)
(* state is read under the mutex, the function runs without it, and its    *)
(* result is applied under the mutex to whatever the state then is.        *)
(***************************************************************************)
EXTENDS Naturals, FiniteSets

CONSTANTS Callers,     \* goroutines that share the breaker
          Threshold,   \* failures that trip it
          Timeout      \* clock ticks before an open breaker lets a call probe

ASSUME ThresholdAssumption == Threshold \in Nat \ {0}
ASSUME TimeoutAssumption == Timeout \in Nat

VARIABLES
    state,      \* "CLOSED", "OPEN" or "HALF-OPEN"
    failures,   \* failures counted while closed
    elapsed,    \* ticks since lastFailure, counted up to Timeout
    call,       \* the state in which every caller's call was let in, or "none"
    healthy,    \* whether the dependency works: a sick one may fail a call
    streak      \* history: results that were failures in a row, up to Threshold

vars == <<state, failures, elapsed, call, healthy, streak>>

States == {"CLOSED", "OPEN", "HALF-OPEN"}

Init ==
    /\ state = "CLOSED"
    /\ failures = 0
    /\ elapsed = 0
    /\ call = [c \in Callers |-> "none"]
    /\ healthy \in BOOLEAN
    /\ streak = 0

\* Mutant of CurrentState: an open breaker is never resolved to half-open.
CurrentStateUnresolved == state

\* currentState: an open breaker is half-open once its timeout has elapsed.
CurrentState ==
    IF state = "OPEN" /\ elapsed >= Timeout THEN "HALF-OPEN" ELSE state

\* Execute, first lock: the call is let in.
Admit(c) ==
    /\ call[c] = "none"
    /\ CurrentState # "OPEN"
    /\ state' = CurrentState
    /\ call' = [call EXCEPT ![c] = CurrentState]
    /\ UNCHANGED <<failures, elapsed, healthy, streak>>

\* Mutant of Reject: a rejected call counts as the latest failure.
RejectAsFailure(c) ==
    /\ call[c] = "none"
    /\ CurrentState = "OPEN"
    /\ elapsed' = 0
    /\ UNCHANGED <<state, failures, call, healthy, streak>>

\* Execute, first lock: ErrCircuitOpen, and nothing changes.
Reject(c) ==
    /\ call[c] = "none"
    /\ CurrentState = "OPEN"
    /\ UNCHANGED vars

\* Somebody else asks for the state, which resolves it too.
Observe ==
    /\ state' = CurrentState
    /\ UNCHANGED <<failures, elapsed, call, healthy, streak>>

Return(c) ==
    /\ call[c] # "none"
    /\ call' = [call EXCEPT ![c] = "none"]

\* Mutant of Fail: failures are counted in every state.
FailAlwaysCounted(c) ==
    /\ Return(c)
    /\ ~ healthy
    /\ elapsed' = 0
    /\ failures' = failures + 1
    /\ state' = IF state = "CLOSED" /\ failures' < Threshold THEN "CLOSED"
                ELSE "OPEN"
    /\ streak' = IF streak < Threshold THEN streak + 1 ELSE streak
    /\ UNCHANGED healthy

\* Execute, second lock: onFailure.
Fail(c) ==
    /\ Return(c)
    /\ ~ healthy
    /\ elapsed' = 0
    /\ failures' = IF state = "CLOSED" THEN failures + 1 ELSE failures
    /\ state' = IF state = "CLOSED" /\ failures' < Threshold THEN "CLOSED"
                ELSE "OPEN"
    /\ streak' = IF streak < Threshold THEN streak + 1 ELSE streak
    /\ UNCHANGED healthy

\* Mutant of Succeed: any success closes the breaker.
SucceedCloses(c) ==
    /\ Return(c)
    /\ state' = "CLOSED"
    /\ failures' = 0
    /\ streak' = 0
    /\ UNCHANGED <<elapsed, healthy>>

\* Mutant of Succeed: the probe that closes the breaker keeps the old count.
SucceedKeepsCount(c) ==
    /\ Return(c)
    /\ state' = IF state = "HALF-OPEN" THEN "CLOSED" ELSE state
    /\ failures' = IF state = "CLOSED" THEN 0 ELSE failures
    /\ streak' = 0
    /\ UNCHANGED <<elapsed, healthy>>

\* Execute, second lock: onSuccess.  It says nothing to an open breaker.
Succeed(c) ==
    /\ Return(c)
    /\ state' = IF state = "HALF-OPEN" THEN "CLOSED" ELSE state
    /\ failures' = IF state = "OPEN" THEN failures ELSE 0
    /\ streak' = 0
    /\ UNCHANGED <<elapsed, healthy>>

\* The function panicked: Execute unwinds without its second lock.
Panic(c) ==
    /\ Return(c)
    /\ ~ healthy
    /\ UNCHANGED <<state, failures, elapsed, healthy, streak>>

Tick ==
    /\ elapsed < Timeout
    /\ elapsed' = elapsed + 1
    /\ UNCHANGED <<state, failures, call, healthy, streak>>

\* The dependency breaks down or recovers.
Turn ==
    /\ healthy' = ~ healthy
    /\ UNCHANGED <<state, failures, elapsed, call, streak>>

CallerStep(c) == Admit(c) \/ Reject(c) \/ Fail(c) \/ Succeed(c)

Next ==
    \/ \E c \in Callers : CallerStep(c) \/ Panic(c)
    \/ Observe \/ Tick \/ Turn

\* Time passes, and callers keep calling and get their answers.
Fairness ==
    /\ WF_vars(Tick)
    /\ \A c \in Callers : WF_vars(CallerStep(c))

Spec == Init /\ [][Next]_vars
FairSpec == Spec /\ Fairness

-----------------------------------------------------------------------------
(* Properties.                                                             *)

TypeOK ==
    /\ state \in States
    /\ failures \in 0 .. Threshold
    /\ elapsed \in 0 .. Timeout
    /\ call \in [Callers -> {"none", "CLOSED", "HALF-OPEN"}]
    /\ healthy \in BOOLEAN
    /\ streak \in 0 .. Threshold

\* However the results of overlapping calls arrive, a closed breaker has
\* counted fewer failures than trip it, an open or half-open one all of them.
CountMatchesState == state = "CLOSED" <=> failures < Threshold

\* The step takes the result of a call: without an error, or with one.
ResultArrives(error) ==
    /\ \E c \in Callers : call[c] # "none" /\ call'[c] = "none"
    /\ IF error THEN streak' > 0 ELSE streak' = 0

\* Every transition has the cause that its comment names, however the results
\* of overlapping calls arrive: Threshold failures in a row trip the breaker,
\* only the timeout half-opens it, only a success closes it and never while it
\* is open, only a failure opens it again.  Of the comment's "single probe
\* request" the code keeps nothing: the result that decides may be that of any
\* call, one let in before the breaker tripped included.
TransitionsHaveCauses ==
    [][\/ state = "CLOSED" /\ state' = "OPEN" /\ ResultArrives(TRUE) /\ streak' = Threshold
       \/ state = "OPEN" /\ state' = "HALF-OPEN" /\ elapsed >= Timeout
       \/ state = "HALF-OPEN" /\ state' = "CLOSED" /\ ResultArrives(FALSE)
       \/ state = "HALF-OPEN" /\ state' = "OPEN" /\ ResultArrives(TRUE)]_state

\* An open breaker lets a call probe in the end: late failures of calls that
\* were under way postpone its timeout only finitely often.
EventuallyProbes == (state = "OPEN") ~> (state # "OPEN")

\* Once the dependency has recovered for good the breaker closes for good.
RecoversForGood == <>[]healthy => <>[](state = "CLOSED")
=============================================================================
