------------------------ MODULE GracefulServerProofs ------------------------
(***************************************************************************)
(* GracefulServer for any number of requests: the wait group counts what   *)
(* is pending, and a clean exit has cut nothing short.                     *)
(***************************************************************************)
EXTENDS GracefulServer, FiniteSetTheorems, TLAPS

\* Sizes of the set of pending events, as Track and EmitEnds change it.
LEMMA PendingGrows ==
    ASSUME NEW r \in Requests, event[r] # "pending",
           event \in [Requests -> {"none", "pending", "sent", "failed", "lost"}],
           event' = [event EXCEPT ![r] = "pending"], IsFiniteSet(Pending)
    PROVE  IsFiniteSet(Pending') /\ Cardinality(Pending') = Cardinality(Pending) + 1
<1>1. Pending' = Pending \cup {r} /\ r \notin Pending
  BY DEF Pending
<1> QED BY <1>1, FS_AddElement

LEMMA PendingShrinks ==
    ASSUME NEW r \in Requests, event[r] = "pending", NEW e \in {"sent", "failed"},
           event \in [Requests -> {"none", "pending", "sent", "failed", "lost"}],
           event' = [event EXCEPT ![r] = e], IsFiniteSet(Pending)
    PROVE  IsFiniteSet(Pending') /\ Cardinality(Pending') = Cardinality(Pending) - 1
<1>1. Pending' = Pending \ {r} /\ r \in Pending
  BY DEF Pending
<1> QED BY <1>1, FS_RemoveElement

LEMMA InitIInv == Init => IInv
<1> SUFFICES ASSUME Init PROVE IInv
  OBVIOUS
<1>1. Pending = {}
  BY DEF Init, Pending
<1>2. CountInv
  BY <1>1, FS_EmptySet DEF Init, CountInv
<1> QED
  BY <1>2 DEF Init, IInv, TypeOK, ListenerInv, ShuttingDown, DrainInv, OutcomeInv, EventInv,
              CleanExitAnswers, CleanExitFlushes

\* However the process ends, the types stay; a clean end needs that no handler
\* is at work and no event is pending.
LEMMA DieIInv ==
    ASSUME IInv, main # "exited",
           NEW how \in {"clean", "timeout", "failed", "killed"}, Die(how),
           how = "clean" => InHandler = {} /\ Pending = {}
    PROVE  IInv'
<1> USE DEF Die, config, IInv, TypeOK, OutcomeInv, EventInv, InHandler
<1>1. TypeOK'
  OBVIOUS
<1>2. CleanExitAnswers' /\ CleanExitFlushes'
  BY DEF CleanExitAnswers, CleanExitFlushes, Pending
<1>3. ListenerInv' /\ CountInv' /\ DrainInv'
  BY DEF ListenerInv, CountInv, DrainInv, ShuttingDown
<1>4. OutcomeInv' /\ EventInv'
  OBVIOUS
<1> QED BY <1>1, <1>2, <1>3, <1>4

\* Steps that leave the events alone leave their count alone.
LEMMA CountKept ==
    ASSUME CountInv, main # "exited", UNCHANGED <<event, wg>>
    PROVE  CountInv'
  BY DEF CountInv, Pending

LEMMA StepIInv == IInv /\ [Next]_vars => IInv'
<1> SUFFICES ASSUME IInv, [Next]_vars PROVE IInv'
  OBVIOUS
<1> USE DEF IInv, config
<1>a. main # "exited" /\ wg = 0 => Pending = {}
  BY FS_EmptySet DEF CountInv
<1>1. ASSUME ServerStep PROVE IInv'
  <2>1. CASE MarkReady
    BY <1>1, <2>1, CountKept
    DEF ServerStep, MarkReady, TypeOK, ListenerInv, ShuttingDown, DrainInv, OutcomeInv, EventInv,
        InHandler, CleanExitAnswers, CleanExitFlushes
  <2>2. CASE Listen
    BY <1>1, <2>2, CountKept
    DEF ServerStep, Listen, TypeOK, ListenerInv, ShuttingDown, DrainInv, OutcomeInv, EventInv,
        InHandler, CleanExitAnswers, CleanExitFlushes
  <2>3. CASE ListenFails
    <3>1. CASE kind = "run"
      BY <1>1, <2>3, <3>1, CountKept
      DEF ServerStep, ListenFails, TypeOK, ListenerInv, ShuttingDown, DrainInv,
          OutcomeInv, EventInv, InHandler, CleanExitAnswers, CleanExitFlushes
    <3>2. CASE kind # "run"
      BY <1>1, <2>3, <3>2, DieIInv DEF ServerStep, ListenFails
    <3> QED BY <3>1, <3>2
  <2> QED BY <1>1, <2>1, <2>2, <2>3 DEF ServerStep
<1>2. ASSUME MainStep PROVE IInv'
  <2>1. CASE Notify \/ MarkNotReady \/ BeginShutdown
    BY <2>1, CountKept
    DEF Notify, MarkNotReady, BeginShutdown, TypeOK, ListenerInv, ShuttingDown,
        DrainInv, OutcomeInv, EventInv, InHandler, CleanExitAnswers, CleanExitFlushes
  <2>2. CASE Terminate
    <3>1. CASE main = "start"
      BY <2>2, <3>1, DieIInv DEF Terminate
    <3>2. CASE main # "start"
      BY <2>2, <3>2, CountKept
      DEF Terminate, TypeOK, ListenerInv, ShuttingDown, DrainInv, OutcomeInv, EventInv,
          InHandler, CleanExitAnswers, CleanExitFlushes
    <3> QED BY <3>1, <3>2
  <2>3. CASE ServerError
    BY <2>3, DieIInv DEF ServerError
  <2>4. CASE Drained
    <3>1. CASE kind = "run"
      <4>1. Pending = {}
        BY <3>1 DEF Pending, EventInv
      <4> QED BY <2>4, <3>1, <4>1, DieIInv DEF Drained
    <3>2. CASE kind # "run"
      BY <2>4, <3>2, CountKept
      DEF Drained, TypeOK, ListenerInv, ShuttingDown, DrainInv, OutcomeInv, EventInv,
          InHandler, CleanExitAnswers, CleanExitFlushes
    <3> QED BY <3>1, <3>2
  <2>5. CASE DrainTimeout
    <3>1. CASE kind # "ingest"
      BY <2>5, <3>1, DieIInv DEF DrainTimeout
    <3>2. CASE kind = "ingest"
      BY <2>5, <3>2, CountKept
      DEF DrainTimeout, TypeOK, ListenerInv, ShuttingDown, DrainInv, OutcomeInv, EventInv,
          InHandler, CleanExitAnswers, CleanExitFlushes
    <3> QED BY <3>1, <3>2
  <2>6. CASE WaitReturns
    BY <2>6, CountKept
    DEF WaitReturns, TypeOK, ListenerInv, ShuttingDown, DrainInv, OutcomeInv, EventInv,
        InHandler, CleanExitAnswers, CleanExitFlushes
  <2>7. CASE Exit
    <3>1. outcome \in {"none", "timeout"}
      BY <2>7 DEF Exit, OutcomeInv
    <3>2. outcome = "none" => InHandler = {} /\ Pending = {}
      BY <1>a, <2>7 DEF Exit, DrainInv
    <3> QED BY <2>7, <3>1, <3>2, DieIInv DEF Exit
  <2> QED BY <1>2, <2>1, <2>2, <2>3, <2>4, <2>5, <2>6, <2>7 DEF MainStep
<1>3. ASSUME Crash PROVE IInv'
  BY <1>3, DieIInv DEF Crash
<1>4. ASSUME NEW r \in Requests, HandlerStep(r) PROVE IInv'
  <2>0. main # "exited" /\ main' = main /\ outcome' = outcome
    BY <1>4 DEF HandlerStep, Accept, Track, Answer
  <2>1. CASE Accept(r)
    BY <2>0, <2>1, CountKept
    DEF Accept, TypeOK, ListenerInv, ShuttingDown, DrainInv, OutcomeInv, EventInv,
        InHandler, CleanExitAnswers, CleanExitFlushes
  <2>2. CASE Track(r)
    <3>1. CountInv'
      <4>1. event[r] # "pending" /\ event' = [event EXCEPT ![r] = "pending"]
        BY <1>4, <2>2 DEF Track, EventInv
      <4>2. IsFiniteSet(Pending) /\ wg = Cardinality(Pending) /\ wg' = wg + 1
        BY <2>0, <2>2 DEF Track, CountInv
      <4>3. IsFiniteSet(Pending') /\ Cardinality(Pending') = Cardinality(Pending) + 1
        BY <1>4, <4>1, <4>2, PendingGrows DEF TypeOK
      <4> QED BY <4>2, <4>3 DEF CountInv
    <3> QED
      BY <2>0, <2>2, <3>1
      DEF Track, TypeOK, ListenerInv, ShuttingDown, DrainInv, OutcomeInv, EventInv,
          InHandler, CleanExitAnswers, CleanExitFlushes
  <2>3. CASE Answer(r)
    BY <2>0, <2>3, CountKept
    DEF Answer, TypeOK, ListenerInv, ShuttingDown, DrainInv, OutcomeInv, EventInv,
        InHandler, CleanExitAnswers, CleanExitFlushes
  <2> QED BY <1>4, <2>1, <2>2, <2>3 DEF HandlerStep
<1>5. ASSUME NEW r \in Requests, EmitStep(r) PROVE IInv'
  <2>1. main # "exited" /\ UNCHANGED <<config, ready, server, main, req, outcome>>
    BY <1>5 DEF EmitStep, EmitEnds
  <2>2. PICK e \in {"sent", "failed"} : event' = [event EXCEPT ![r] = e]
    BY <1>5 DEF EmitStep, EmitEnds
  <2>3. IsFiniteSet(Pending') /\ Cardinality(Pending') = Cardinality(Pending) - 1
    BY <1>5, <2>1, <2>2, PendingShrinks DEF EmitStep, EmitEnds, CountInv, TypeOK
  <2>4. CountInv' /\ wg' \in Nat
    <3>1. Cardinality(Pending') \in Nat
      BY <2>3, FS_CardinalityType
    <3> QED BY <1>5, <2>1, <2>3, <3>1 DEF EmitStep, EmitEnds, CountInv
  <2>5. (TypeOK /\ ListenerInv)'
    BY <2>1, <2>2, <2>4 DEF TypeOK, ListenerInv, ShuttingDown
  <2>6. (DrainInv /\ OutcomeInv /\ EventInv)'
    BY <1>5, <1>a, <2>1, <2>2
    DEF EmitStep, EmitEnds, DrainInv, OutcomeInv, EventInv, InHandler, Pending
  <2>7. (CleanExitAnswers /\ CleanExitFlushes)'
    BY <2>1, <2>2 DEF CleanExitAnswers, CleanExitFlushes, OutcomeInv
  <2> QED BY <2>4, <2>5, <2>6, <2>7
<1>6. CASE UNCHANGED vars
  BY <1>6
  DEF vars, TypeOK, ListenerInv, CountInv, Pending, ShuttingDown, DrainInv,
      OutcomeInv, EventInv, InHandler, CleanExitAnswers, CleanExitFlushes
<1> QED BY <1>1, <1>2, <1>3, <1>4, <1>5, <1>6 DEF Next

\* The type invariant, the counter of the wait group never below zero included.
THEOREM TypeCorrect == Spec => []TypeOK
  BY InitIInv, StepIInv, PTL DEF Spec, IInv

\* An exit without error has cut no handler short.
THEOREM AnswersCorrect == Spec => []CleanExitAnswers
  BY InitIInv, StepIInv, PTL DEF Spec, IInv

\* An exit without error has left no tracked event behind.
THEOREM FlushCorrect == Spec => []CleanExitFlushes
  BY InitIInv, StepIInv, PTL DEF Spec, IInv

\* A process that had marked itself ready when it heard the signal stays
\* unready once its shutdown has begun: Run alone marks it, before it listens.
THEOREM DrainsUnreadyCorrect == Spec => DrainsUnready
<1> DEFINE Heard == main = "signalled" /\ server # "start"
           Unready == main = "unready" \/ ShuttingDown => ~ ready
           OnlyRun == kind # "run" => server # "start" /\ ~ ready
           Behind == /\ OnlyRun /\ Unready
                     /\ server # "start" /\ main \notin {"start", "wait"}
<1>1. Init => OnlyRun
  BY DEF Init
<1>2. OnlyRun /\ [Next]_vars => OnlyRun'
  BY DEF Next, ServerStep, MarkReady, Listen, ListenFails, MainStep, Notify, Terminate,
     ServerError, MarkNotReady, BeginShutdown, Drained, DrainTimeout, WaitReturns, Exit,
     Crash, HandlerStep, Accept, Track, Answer, EmitStep, EmitEnds, Die, config, vars
<1>3. OnlyRun /\ Heard => Behind
  BY DEF ShuttingDown
<1>4. Behind /\ [Next]_vars => Behind'
  <2> SUFFICES ASSUME Behind, [Next]_vars PROVE Behind'
    OBVIOUS
  <2>1. OnlyRun'
    BY <1>2
  <2>2. (server # "start" /\ main \notin {"start", "wait"} /\ Unready)'
    BY DEF Next, ServerStep, MarkReady, Listen, ListenFails, MainStep, Notify, Terminate,
       ServerError, MarkNotReady, BeginShutdown, Drained, DrainTimeout, WaitReturns, Exit,
       Crash, HandlerStep, Accept, Track, Answer, EmitStep, EmitEnds, Die, config, vars,
       ShuttingDown
  <2> QED
    BY <2>1, <2>2
<1>5. Behind => Unready
  OBVIOUS
<1>6. Spec => [](Heard => []Unready)
  <2> HIDE DEF Heard, Unready, OnlyRun, Behind
  <2> QED
    BY <1>1, <1>2, <1>3, <1>4, <1>5, PTL DEF Spec
<1> QED
  BY <1>6 DEF DrainsUnready
=============================================================================
