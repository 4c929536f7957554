----------------------- MODULE ConsumerLifecycleProofs -----------------------
(***************************************************************************)
(* ConsumerLifecycle for any number of starts and outages and any cap of   *)
(* the backoff: one loop at a time, and readiness that tells of it.        *)
(***************************************************************************)
EXTENDS ConsumerLifecycle, TLAPS

LEMMA InitIInv == Init => IInv
<1> SUFFICES ASSUME Init PROVE IInv
  OBVIOUS
<1>1. TypeOK
  <2>1. backoff \in [Starts -> 1 .. MaxBackoff]
    BY MaxBackoffAssumption DEF Init
  <2>2. outages \in 0 .. MaxOutages
    BY MaxOutagesAssumption DEF Init
  <2> QED BY <2>1, <2>2 DEF Init, TypeOK
<1>2. Holds = {} /\ HolderInv /\ FlagInv
  BY DEF Init, HolderInv, Holds, FlagInv, Active, Consuming
<1>3. ClientInv /\ ReadyWhileConsuming
  BY DEF Init, ClientInv, ReadyWhileConsuming, Consuming
<1> QED BY <1>1, <1>2, <1>3 DEF IInv

\* What the services and their surroundings do moves no start's goroutine,
\* but for a start out of "idle".
LEMMA SurroundingsIInv ==
    ASSUME IInv,
           \/ \E s \in Starts : StartAsync(s) \/ Cancel(s)
           \/ Terminate \/ Shutdown \/ Exit \/ KafkaFails \/ KafkaRecovers
    PROVE  IInv'
<1> USE MaxBackoffAssumption, MaxOutagesAssumption
    DEF IInv, consumer, signals, broker, Consuming, Active
<1>1. ASSUME NEW s \in Starts, StartAsync(s) PROVE IInv'
  <2>1. pc[s] = "idle" /\ pc' = [pc EXCEPT ![s] = "start"]
        /\ UNCHANGED <<running, ready, backoff, client, signals, broker>>
    BY <1>1 DEF StartAsync, Goto
  <2>2. TypeOK' /\ ClientInv'
    BY <2>1 DEF TypeOK, ClientInv
  <2>3. HolderInv' /\ FlagInv' /\ ReadyWhileConsuming'
    BY <2>1 DEF TypeOK, HolderInv, Holds, FlagInv, ReadyWhileConsuming
  <2> QED BY <2>2, <2>3
<1>2. ASSUME NEW s \in Starts, Cancel(s) PROVE IInv'
  BY <1>2 DEF Cancel, TypeOK, HolderInv, Holds, FlagInv, ClientInv, ReadyWhileConsuming
<1>3. CASE Terminate \/ Shutdown
  BY <1>3 DEF Terminate, Shutdown, TypeOK, HolderInv, Holds, FlagInv, ClientInv,
              ReadyWhileConsuming
<1>5. CASE Exit
  BY <1>5 DEF Exit, TypeOK, HolderInv, Holds, FlagInv, ClientInv, ReadyWhileConsuming
<1>4. CASE KafkaFails \/ KafkaRecovers
  <2>1. outages' \in 0 .. MaxOutages
    BY <1>4 DEF KafkaFails, KafkaRecovers, TypeOK
  <2>2. kafka' \in BOOLEAN /\ UNCHANGED <<consumer, signals>>
    BY <1>4 DEF KafkaFails, KafkaRecovers
  <2> QED
    BY <2>1, <2>2 DEF TypeOK, HolderInv, Holds, FlagInv, ClientInv, ReadyWhileConsuming
<1> QED BY <1>1, <1>2, <1>3, <1>4, <1>5

\* Steps of a start that neither take nor give back the flag.
LEMMA LoopIInv ==
    ASSUME IInv, NEW s \in Starts, process # "gone",
           \/ CheckContext(s) \/ Connect(s) \/ ConnectFails(s) \/ BackOff(s)
           \/ SetReady(s) \/ ConsumeReturns(s) \/ Resume(s)
    PROVE  IInv'
<1> USE MaxBackoffAssumption, MaxOutagesAssumption
    DEF IInv, signals, broker, Consuming, Active, Goto
<1>1. TypeOK'
  <2>1. CASE CheckContext(s)
    BY <2>1 DEF TypeOK, CheckContext
  <2>2. CASE Connect(s)
    BY <2>2 DEF TypeOK, Connect
  <2>3. CASE ConnectFails(s)
    BY <2>3 DEF TypeOK, ConnectFails
  <2>4. CASE BackOff(s)
    <3>1. backoff' \in [Starts -> 1 .. MaxBackoff]
      BY <2>4 DEF TypeOK, BackOff
    <3> QED BY <2>4, <3>1 DEF TypeOK, BackOff
  <2>5. CASE SetReady(s)
    BY <2>5 DEF TypeOK, SetReady
  <2>6. CASE ConsumeReturns(s) \/ Resume(s)
    BY <2>6 DEF TypeOK, ConsumeReturns, Resume
  <2> QED BY <2>1, <2>2, <2>3, <2>4, <2>5, <2>6
<1>2. pc[s] \in Active /\ running' = running /\ process' = process
  BY DEF CheckContext, Connect, ConnectFails, BackOff, SetReady, ConsumeReturns, Resume
<1>3. PICK l \in Active \cup {"abandoned"} : pc' = [pc EXCEPT ![s] = l]
  BY DEF CheckContext, Connect, ConnectFails, BackOff, SetReady, ConsumeReturns, Resume
<1>4. Holds' = Holds
  BY <1>2, <1>3 DEF TypeOK, Holds
<1>5. HolderInv' /\ FlagInv'
  BY <1>2, <1>4 DEF HolderInv, FlagInv, Holds
<1>6. \A q \in Starts : q # s => pc[q] \notin Active /\ pc'[q] = pc[q]
  BY <1>2, <1>3 DEF TypeOK, HolderInv, Holds
<1>7. ClientInv'
  BY <1>2, <1>3 DEF TypeOK, ClientInv, CheckContext, Connect, ConnectFails, BackOff,
                    SetReady, ConsumeReturns, Resume
<1>8. ReadyWhileConsuming'
  <2>1. CASE CheckContext(s) \/ Connect(s) \/ ConnectFails(s) \/ BackOff(s)
    BY <2>1, <1>1, <1>6, <1>7
    DEF TypeOK, ReadyWhileConsuming, CheckContext, Connect, ConnectFails, BackOff
  <2>2. CASE SetReady(s)
    BY <2>2, <1>6, <1>7 DEF TypeOK, ClientInv, ReadyWhileConsuming, SetReady
  <2>3. CASE ConsumeReturns(s) \/ Resume(s)
    BY <2>3, <1>6, <1>7 DEF TypeOK, ClientInv, ReadyWhileConsuming, ConsumeReturns, Resume
  <2> QED BY <2>1, <2>2, <2>3
<1> QED BY <1>1, <1>5, <1>7, <1>8

LEMMA StepIInv == IInv /\ [Next]_vars => IInv'
<1> SUFFICES ASSUME IInv, [Next]_vars PROVE IInv'
  OBVIOUS
<1> USE DEF IInv, signals, broker, Consuming, Active, Goto
<1>1. ASSUME NEW s \in Starts, Run(s) PROVE IInv'
  <2>0. process # "gone" /\ process' = process
    BY <1>1 DEF Run, Claim, CheckContext, Connect, ConnectFails, BackOff, SetReady,
                ConsumeReturns, Resume, Reset, Close
  <2>1. CASE Claim(s)
    <3>1. TypeOK' /\ ClientInv' /\ ReadyWhileConsuming'
      BY <2>0, <2>1 DEF Claim, TypeOK, ClientInv, ReadyWhileConsuming
    <3>2. CASE running
      BY <2>0, <2>1, <3>1, <3>2 DEF Claim, TypeOK, HolderInv, Holds, FlagInv
    <3>3. CASE ~ running
      <4>1. Holds = {}
        BY <3>3 DEF FlagInv, Holds
      <4>2. Holds' = {s}
        BY <2>1, <3>3, <4>1 DEF Claim, TypeOK, Holds
      <4> QED BY <2>1, <3>1, <4>2 DEF Claim, HolderInv, FlagInv, Holds
    <3> QED BY <3>2, <3>3
  <2>2. CASE Reset(s)
    <3>1. Holds = {s}
      BY <2>2 DEF Reset, HolderInv, Holds
    <3>2. Holds' = {}
      BY <2>2, <3>1 DEF Reset, TypeOK, Holds
    <3>3. TypeOK' /\ ClientInv'
      BY <2>0, <2>2 DEF Reset, TypeOK, ClientInv
    <3>4. HolderInv'
      BY <3>2 DEF HolderInv
    <3>5. FlagInv'
      BY <2>2, <3>2 DEF Reset, FlagInv, Holds
    <3>6. ReadyWhileConsuming'
      BY <2>2, <3>2 DEF Reset, Holds, TypeOK, ReadyWhileConsuming
    <3> QED BY <3>3, <3>4, <3>5, <3>6
  <2>3. CASE Close(s)
    <3>1. Holds' = Holds
      BY <2>3 DEF Close, TypeOK, Holds
    <3>2. TypeOK' /\ ClientInv' /\ ReadyWhileConsuming'
      BY <2>0, <2>3 DEF Close, TypeOK, ClientInv, ReadyWhileConsuming
    <3> QED BY <2>3, <3>1, <3>2 DEF Close, HolderInv, FlagInv, Holds
  <2> QED BY <1>1, <2>0, <2>1, <2>2, <2>3, LoopIInv DEF Run
<1>2. CASE UNCHANGED vars
  BY <1>2 DEF vars, TypeOK, HolderInv, Holds, FlagInv, ClientInv, ReadyWhileConsuming
<1> QED BY <1>1, <1>2, SurroundingsIInv DEF Next

LEMMA Invariance == Spec => []IInv
  BY InitIInv, StepIInv, PTL DEF Spec

\* The variables of the Consumer and of its process keep their types.
THEOREM TypeCorrect == Spec => []TypeOK
  BY Invariance, PTL DEF IInv

\* However starts, cancellations and signals overlap, one loop works at a time.
THEOREM OneLoopCorrect == Spec => []OneLoop
<1>1. IInv => OneLoop
  BY DEF IInv, HolderInv, Holds, OneLoop
<1> QED BY <1>1, Invariance, PTL

\* Readiness is a start that consumes with its group open, and nothing else.
THEOREM ReadyCorrect == Spec => []ReadyWhileConsuming
  BY Invariance, PTL DEF IInv
=============================================================================
