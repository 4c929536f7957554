------------------------ MODULE CircuitBreakerProofs ------------------------
(***************************************************************************)
(* CircuitBreaker for any number of callers, any threshold and timeout.    *)
(***************************************************************************)
EXTENDS CircuitBreaker, TLAPS

\* What a closed breaker has counted came in a row.
StreakInv == state = "CLOSED" => failures <= streak

\* The facts are inductive together: the count is bounded by Threshold only
\* because it grows in the closed state alone, where it is below it.
IInv == TypeOK /\ CountMatchesState /\ StreakInv

LEMMA InitIInv == Init => IInv
  BY ThresholdAssumption, TimeoutAssumption
  DEF Init, IInv, TypeOK, CountMatchesState, StreakInv, States

\* Every step of the breaker preserves the type and the count.
LEMMA StepIInv == IInv /\ [Next]_vars => IInv'
<1> USE ThresholdAssumption, TimeoutAssumption
    DEF IInv, TypeOK, CountMatchesState, StreakInv, States
<1> SUFFICES ASSUME IInv, [Next]_vars PROVE IInv'
  OBVIOUS
<1>1. ASSUME NEW c \in Callers, Admit(c) PROVE IInv'
  BY <1>1 DEF Admit, CurrentState
<1>2. ASSUME NEW c \in Callers, Reject(c) PROVE IInv'
  BY <1>2 DEF Reject, vars
<1>3. ASSUME NEW c \in Callers, Fail(c) PROVE IInv'
  <2>1. CASE state = "CLOSED"
    BY <1>3, <2>1 DEF Fail, Return
  <2>2. CASE state # "CLOSED"
    BY <1>3, <2>2 DEF Fail, Return
  <2> QED BY <2>1, <2>2
<1>4. ASSUME NEW c \in Callers, Succeed(c) PROVE IInv'
  BY <1>4 DEF Succeed, Return
<1>5. ASSUME NEW c \in Callers, Panic(c) PROVE IInv'
  BY <1>5 DEF Panic, Return
<1>6. CASE Observe
  BY <1>6 DEF Observe, CurrentState
<1>7. CASE Tick
  BY <1>7 DEF Tick
<1>8. CASE Turn
  BY <1>8 DEF Turn
<1>9. CASE UNCHANGED vars
  BY <1>9 DEF vars
<1> QED
  BY <1>1, <1>2, <1>3, <1>4, <1>5, <1>6, <1>7, <1>8, <1>9
  DEF Next, CallerStep

\* The variables of Execute keep their types whatever calls overlap.
THEOREM TypeCorrect == Spec => []TypeOK
  BY InitIInv, StepIInv, PTL DEF Spec, IInv

\* A closed breaker has counted fewer failures than trip it, an open or
\* half-open one all of them, however the results of calls arrive.
THEOREM CountCorrect == Spec => []CountMatchesState
  BY InitIInv, StepIInv, PTL DEF Spec, IInv

\* No transition without its cause: by the counts, since a closed breaker that
\* trips has counted Threshold failures, which came in a row.
THEOREM TransitionsCorrect == Spec => TransitionsHaveCauses
<1> DEFINE Caused ==
      \/ state = "CLOSED" /\ state' = "OPEN" /\ ResultArrives(TRUE) /\ streak' = Threshold
      \/ state = "OPEN" /\ state' = "HALF-OPEN" /\ elapsed >= Timeout
      \/ state = "HALF-OPEN" /\ state' = "CLOSED" /\ ResultArrives(FALSE)
      \/ state = "HALF-OPEN" /\ state' = "OPEN" /\ ResultArrives(TRUE)
<1>1. IInv /\ [Next]_vars => [Caused]_state
  <2> SUFFICES ASSUME IInv, [Next]_vars, state' # state PROVE Caused
    OBVIOUS
  <2>1. /\ state \in States
        /\ failures \in 0 .. Threshold /\ streak \in 0 .. Threshold
        /\ call \in [Callers -> {"none", "CLOSED", "HALF-OPEN"}]
        /\ state = "CLOSED" => failures <= streak
    BY DEF IInv, TypeOK, StreakInv
  <2>2. ASSUME NEW c \in Callers, Admit(c) PROVE Caused
    BY <2>1, <2>2 DEF Admit, CurrentState, States
  <2>3. ASSUME NEW c \in Callers, Fail(c) PROVE Caused
    <3>1. ResultArrives(TRUE)
      BY <2>1, <2>3, ThresholdAssumption DEF Fail, Return, ResultArrives
    <3>2. state = "CLOSED" => state' = "OPEN" /\ streak' = Threshold
      BY <2>1, <2>3, ThresholdAssumption DEF Fail
    <3> QED
      BY <2>1, <2>3, <3>1, <3>2 DEF Fail, States
  <2>4. ASSUME NEW c \in Callers, Succeed(c) PROVE Caused
    <3>1. ResultArrives(FALSE)
      BY <2>1, <2>4 DEF Succeed, Return, ResultArrives
    <3> QED
      BY <2>4, <3>1 DEF Succeed
  <2>5. CASE Observe
    BY <2>1, <2>5 DEF Observe, CurrentState, States
  <2> QED
    BY <2>2, <2>3, <2>4, <2>5
    DEF Next, CallerStep, Reject, Panic, Tick, Turn, vars
<1>2. QED
  BY <1>1, InitIInv, StepIInv, PTL DEF Spec, TransitionsHaveCauses
=============================================================================
