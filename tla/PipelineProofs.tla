---------------------------- MODULE PipelineProofs ----------------------------
(***************************************************************************)
(* CheckoutPipeline for any sets of attempts, pods and replicas: a buyer   *)
(* is notified of durable orders only.  The invariants of the two sides    *)
(* hold in the composition, and what the topic holds links them.           *)
(***************************************************************************)
EXTENDS CheckoutPipeline, FiniteSetTheorems, SequenceTheorems, TLAPS

\* The messages of the topic are about durable orders, and there is no other.
TopicInv ==
    /\ topic \in Seq(Requests)
    /\ Len(topic) = published[CheckoutCompleted]
    /\ \A i \in 1 .. Len(topic) : topic[i] \in Orders!Committed

\* The attempts whose event has been emitted.
Sent == {r \in Requests : emit[r] = "sent"}

\* An event is emitted for what Create has returned by then, is on the topic,
\* and no attempt emits twice.
SentInv ==
    /\ \A r \in Requests : emit[r] # "none" => pc[r] \in {"respond", "done", "dead"}
    /\ \A r \in Sent : \E i \in DOMAIN topic : topic[i] = saved[r]
    /\ published[CheckoutCompleted] = Cardinality(Sent)

\* The group is that of notification-service, on messages it can handle.
KindInv == wrapped /\ ~ faulty /\ poison = {}

IInv == Orders!IInv /\ Group!IInv /\ TopicInv /\ SentInv /\ KindInv

LEMMA InitIInv == Init => IInv
<1> SUFFICES ASSUME Init PROVE IInv
  OBVIOUS
<1>1. Orders!IInv
  BY OrdersAssumption, Orders!InitIInv DEF Init
<1>2. Group!IInv
  BY OrdersAssumption, GroupAssumption, FS_CardinalityType, Group!InitIInv DEF Init
<1>3. TopicInv
  BY DEF Init, Group!Init, TopicInv
<1>4. Sent = {}
  BY DEF Init, Orders!Init, Sent
<1>5. SentInv
  BY <1>4, FS_EmptySet DEF Init, Orders!Init, Group!Init, Sent, SentInv
<1>6. KindInv
  BY DEF Init, Group!Init, KindInv
<1> QED
  BY <1>1, <1>2, <1>3, <1>5, <1>6 DEF IInv

\* Past the announcement a handler changes no more what its event is about, and
\* what has been emitted remains so.
LEMMA EmittedStays ==
  ASSUME Orders!IInv, Orders!Next, NEW q \in Requests,
         emit[q] # "none" => pc[q] \in {"respond", "done", "dead"}
  PROVE  /\ emit'[q] # "none" => pc'[q] \in {"respond", "done", "dead"}
         /\ emit[q] = "sent" => emit'[q] = "sent" /\ saved'[q] = saved[q]
<1> DEFINE Goal == /\ emit'[q] # "none" => pc'[q] \in {"respond", "done", "dead"}
                   /\ emit[q] = "sent" => emit'[q] = "sent" /\ saved'[q] = saved[q]
<1> USE DEF Orders!Goto
<1>1. /\ pc \in [Requests -> Orders!Handling \cup {"idle", "done", "dead"}]
      /\ emit \in [Requests -> {"none", "pending", "sent", "lost"}]
      /\ saved \in [Requests -> Requests \cup {None}]
  BY DEF Orders!IInv, Orders!TypeOK
<1>2. ASSUME NEW r \in Requests, NEW c \in Checkouts, NEW p \in Pods, Orders!Receive(r, c, p)
      PROVE  Goal
  BY <1>1, <1>2 DEF Orders!Receive
<1>3. ASSUME NEW r \in Requests,
             \/ Orders!Reject(r) \/ Orders!DbCallFails(r) \/ Orders!InsertConflict(r)
             \/ Orders!CommitFailed(r) \/ Orders!Respond(r)
      PROVE  Goal
  BY <1>1, <1>3 DEF Orders!Reject, Orders!DbCallFails, Orders!InsertConflict,
     Orders!CommitFailed, Orders!Respond, Orders!InternalServerError
<1>4. ASSUME NEW r \in Requests,
             \/ Orders!Begin(r) \/ Orders!CheckMissing(r) \/ Orders!InsertOrder(r)
             \/ Orders!InsertItem(r) \/ Orders!SendCommit(r)
      PROVE  Goal
  BY <1>1, <1>4 DEF Orders!Begin, Orders!CheckMissing, Orders!InsertOrder,
     Orders!InsertItem, Orders!SendCommit
<1>5. ASSUME NEW r \in Requests, Orders!Replay(r) \/ Orders!CommitDone(r)
      PROVE  Goal
  BY <1>1, <1>5 DEF Orders!Replay, Orders!CommitDone
<1>6. ASSUME NEW r \in Requests, Orders!Announce(r)
      PROVE  Goal
  BY <1>1, <1>6 DEF Orders!Announce
<1>7. ASSUME NEW r \in Requests,
             \/ Orders!DbCommit(r) \/ Orders!DbAbort(r)
             \/ Orders!EmitSucceeds(r) \/ Orders!EmitFails(r)
      PROVE  Goal
  BY <1>1, <1>7 DEF Orders!DbCommit, Orders!DbAbort, Orders!EmitSucceeds, Orders!EmitFails
<1>8. ASSUME NEW p \in Pods, Orders!Exit(p) \/ Orders!Crash(p)
      PROVE  Goal
  BY <1>1, <1>8 DEF Orders!Exit, Orders!Crash, Orders!Vanish, Orders!On
<1>9. ASSUME NEW p \in Pods, Orders!Terminate(p) \/ Orders!Restart(p)
      PROVE  Goal
  BY <1>9 DEF Orders!Terminate, Orders!Restart
<1> QED
  BY <1>2, <1>3, <1>4, <1>5, <1>6, <1>7, <1>8, <1>9
  DEF Orders!Next, Orders!HandlerStep, Orders!DbStep

\* Every step of the composition is one of order-service, or none of it, and
\* so for the group.
LEMMA StepOfBoth ==
  ASSUME [Next]_vars
  PROVE  [Orders!Next]_(Orders!vars) /\ [Group!Next]_(Group!vars)
<1>1. ASSUME NEW r \in Requests, Emit(r)
      PROVE  Orders!Next /\ Group!Next
  BY <1>1 DEF Emit, Orders!Next, Group!Next
<1>2. ASSUME OrderStep
      PROVE  Orders!Next /\ UNCHANGED Group!vars
  BY <1>2 DEF OrderStep, groupVars, Group!vars
<1>3. ASSUME NotificationStep
      PROVE  Group!Next /\ UNCHANGED Orders!vars
  BY <1>3 DEF NotificationStep, orderVars, Orders!vars, Group!Next
<1>4. CASE UNCHANGED vars
  BY <1>4 DEF vars, orderVars, groupVars, Orders!vars, Group!vars
<1> QED
  BY <1>1, <1>2, <1>3, <1>4 DEF Next

LEMMA StepIInv == IInv /\ [Next]_vars => IInv'
<1> SUFFICES ASSUME IInv, [Next]_vars PROVE IInv'
  OBVIOUS
<1>1. Orders!IInv' /\ Orders!Committed \subseteq Orders!Committed'
  BY OrdersAssumption, StepOfBoth, Orders!StepIInv, Orders!CommittedStays DEF IInv
<1>2. Group!IInv'
  BY OrdersAssumption, GroupAssumption, FS_CardinalityType, StepOfBoth, Group!StepIInv
  DEF IInv
<1>3. ASSUME NEW r \in Requests, Emit(r)
      PROVE  TopicInv'
  <2>1. saved[r] \in Orders!Committed
    BY <1>3 DEF Emit, Orders!EmitSucceeds, IInv, Orders!IInv, Orders!SavedInv
  <2>2. saved[r] \in Requests /\ published[CheckoutCompleted] \in Nat
    BY <2>1, OrdersAssumption, FS_CardinalityType
    DEF IInv, Orders!IInv, Orders!TypeOK, Orders!Committed, Group!IInv, Group!TypeOK
  <2>3. published'[CheckoutCompleted] = published[CheckoutCompleted] + 1
    BY <1>3 DEF Emit, Group!Publish, IInv, Group!IInv, Group!TypeOK
  <2>4. topic' = Append(topic, saved[r])
    BY <1>3 DEF Emit
  <2>5. topic' \in Seq(Requests) /\ Len(topic') = Len(topic) + 1
    BY <2>2, <2>4 DEF IInv, TopicInv
  <2>6. \A i \in 1 .. Len(topic') : topic'[i] \in Orders!Committed
    BY <2>1, <2>2, <2>4 DEF IInv, TopicInv
  <2> QED
    BY <1>1, <2>3, <2>5, <2>6 DEF IInv, TopicInv
<1>4. ASSUME OrderStep PROVE TopicInv'
  BY <1>1, <1>4 DEF OrderStep, groupVars, IInv, TopicInv
<1>5. ASSUME NotificationStep PROVE TopicInv'
  <2>1. UNCHANGED <<published, topic>>
    BY <1>5 DEF NotificationStep, Group!LoopStep, Group!GroupStep, Group!Deliver,
       Group!HandlerSucceeds, Group!Retry, Group!GiveUp, Group!PlainSkip,
       Group!DeadLetter, Group!DeadLetterLost, Group!Assign, Group!AutoCommit,
       Group!Rebalance, Group!Evict, Group!NoticeEviction, Group!Crash, Group!Restart,
       Group!kafka
  <2> QED
    BY <1>1, <2>1 DEF IInv, TopicInv
<1>6. ASSUME UNCHANGED vars PROVE TopicInv'
  BY <1>1, <1>6 DEF vars, groupVars, IInv, TopicInv
<1>7. ASSUME NEW r \in Requests, Emit(r)
      PROVE  SentInv'
  <2>1. Orders!Next /\ topic' = Append(topic, saved[r]) /\ saved[r] \in Requests
        /\ emit[r] = "pending" /\ emit' = [emit EXCEPT ![r] = "sent"] /\ saved' = saved
    BY <1>7 DEF Emit, Orders!EmitSucceeds, Orders!Next, IInv, Orders!IInv, Orders!SavedInv,
                Orders!Committed, Orders!TypeOK
  <2>2. Sent' = Sent \cup {r} /\ r \notin Sent
    BY <2>1 DEF Sent, IInv, Orders!IInv, Orders!TypeOK
  <2>3. IsFiniteSet(Sent)
    BY OrdersAssumption, FS_Subset DEF Sent
  <2>4. published'[CheckoutCompleted] = Cardinality(Sent')
    <3>1. published'[CheckoutCompleted] = published[CheckoutCompleted] + 1
      BY <1>7 DEF Emit, Group!Publish, IInv, Group!IInv, Group!TypeOK
    <3>2. Cardinality(Sent \cup {r}) = Cardinality(Sent) + 1
      BY <2>2, <2>3, FS_AddElement
    <3>3. published[CheckoutCompleted] = Cardinality(Sent)
      BY DEF IInv, SentInv
    <3> QED BY <2>2, <3>1, <3>2, <3>3
  <2>5. /\ \A i \in DOMAIN topic : i \in DOMAIN topic' /\ topic'[i] = topic[i]
        /\ Len(topic) + 1 \in DOMAIN topic' /\ topic'[Len(topic) + 1] = saved[r]
    BY <2>1 DEF IInv, TopicInv
  <2>6. \A q \in Sent' : \E i \in DOMAIN topic' : topic'[i] = saved'[q]
    BY <2>1, <2>2, <2>5 DEF IInv, SentInv
  <2>7. \A q \in Requests : emit'[q] # "none" => pc'[q] \in {"respond", "done", "dead"}
    BY <2>1, EmittedStays DEF IInv, SentInv
  <2> QED BY <2>4, <2>6, <2>7 DEF SentInv
<1>8. ASSUME OrderStep PROVE SentInv'
  <2>1. Orders!Next /\ UNCHANGED <<topic, published>>
    BY <1>8 DEF OrderStep, groupVars
  <2>2. \A q \in Requests : emit[q] = "sent" => emit'[q] = "sent" /\ saved'[q] = saved[q]
    BY <2>1, EmittedStays DEF IInv, SentInv
  <2>3. Sent' = Sent
    BY <1>8, <2>2 DEF OrderStep, Sent
  <2>4. \A q \in Requests : emit'[q] # "none" => pc'[q] \in {"respond", "done", "dead"}
    BY <2>1, EmittedStays DEF IInv, SentInv
  <2> QED BY <2>1, <2>2, <2>3, <2>4 DEF IInv, SentInv, Sent
<1>9. ASSUME NotificationStep PROVE SentInv'
  <2>1. UNCHANGED <<published, topic, orderVars>>
    BY <1>9 DEF NotificationStep, Group!LoopStep, Group!GroupStep, Group!Deliver,
       Group!HandlerSucceeds, Group!Retry, Group!GiveUp, Group!PlainSkip,
       Group!DeadLetter, Group!DeadLetterLost, Group!Assign, Group!AutoCommit,
       Group!Rebalance, Group!Evict, Group!NoticeEviction, Group!Crash, Group!Restart,
       Group!kafka
  <2> QED
    BY <2>1 DEF orderVars, IInv, SentInv, Sent
<1>10. ASSUME UNCHANGED vars PROVE SentInv'
  BY <1>10 DEF vars, orderVars, groupVars, IInv, SentInv, Sent
<1>11. KindInv'
  <2>1. UNCHANGED <<wrapped, faulty, poison>>
    <3>1. ASSUME NEW r \in Requests, Emit(r) PROVE UNCHANGED <<wrapped, faulty, poison>>
      BY <3>1 DEF Emit, Group!Publish, Group!config
    <3>2. ASSUME NotificationStep PROVE UNCHANGED <<wrapped, faulty, poison>>
      BY <3>2 DEF NotificationStep, Group!LoopStep, Group!GroupStep, Group!Deliver,
         Group!HandlerSucceeds, Group!Retry, Group!GiveUp, Group!PlainSkip,
         Group!DeadLetter, Group!DeadLetterLost, Group!Assign, Group!AutoCommit,
         Group!Rebalance, Group!Evict, Group!NoticeEviction, Group!Crash, Group!Restart,
         Group!kafka, Group!config
    <3>3. OrderStep \/ UNCHANGED vars => UNCHANGED <<wrapped, faulty, poison>>
      BY DEF OrderStep, vars, groupVars
    <3> QED BY <3>1, <3>2, <3>3 DEF Next
  <2> QED BY <2>1 DEF IInv, KindInv
<1> QED
  BY <1>1, <1>2, <1>3, <1>4, <1>5, <1>6, <1>7, <1>8, <1>9, <1>10, <1>11 DEF Next, IInv

LEMMA Invariance == Spec => []IInv
  BY InitIInv, StepIInv, PTL DEF Spec

\* Whatever crashes, is replayed or handled again on either side, a buyer is
\* notified only of an order that is durable with all its items.
THEOREM NotifiedCorrect == Spec => []NotifiedOrdersAreStored
<1>1. IInv => NotifiedOrdersAreStored
  <2> SUFFICES ASSUME IInv, NEW msg \in handled
               PROVE  /\ topic[msg[2] + 1] \in Orders!Committed
                      /\ itemRows[topic[msg[2] + 1]] = NumItems
    BY DEF NotifiedOrdersAreStored, Notified
  <2>1. /\ msg \in {CheckoutCompleted} \X (0 .. Cardinality(Requests) - 1)
        /\ msg = <<CheckoutCompleted, msg[2]>>
        /\ msg[2] \in 0 .. Cardinality(Requests) - 1
    BY DEF IInv, Group!IInv, Group!TypeOK, Group!Messages
  <2>2. msg[2] < published[CheckoutCompleted]
    BY <2>1 DEF IInv, Group!IInv, Group!LogInv, Group!Settled
  <2>3. msg[2] + 1 \in 1 .. Len(topic)
    BY <2>1, <2>2, OrdersAssumption, FS_CardinalityType DEF IInv, TopicInv
  <2>4. topic[msg[2] + 1] \in Orders!Committed
    BY <2>3 DEF IInv, TopicInv
  <2>5. \A o \in Orders!Committed : itemRows[o] = NumItems
    BY DEF IInv, Orders!IInv, Orders!TypeOK, Orders!RowInv, Orders!Committed
  <2> QED
    BY <2>4, <2>5
<1> QED
  BY <1>1, Invariance, PTL

\* Whatever crashes on the consuming side, what was emitted is on the topic, and
\* the group commits no message whose buyer has not been notified.
THEOREM NothingForgottenCorrect == Spec => []NothingForgotten
<1>1. IInv => NothingForgotten
  <2> SUFFICES ASSUME IInv, NEW i \in DOMAIN topic, i <= committed[CheckoutCompleted]
               PROVE  topic[i] \in Notified
    BY DEF NothingForgotten, IInv, SentInv, Sent
  <2> DEFINE msg == <<CheckoutCompleted, i - 1>>
  <2>1. /\ i \in Nat \ {0}
        /\ committed[CheckoutCompleted] \in 0 .. Cardinality(Requests)
    BY DEF IInv, TopicInv, Group!IInv, Group!TypeOK
  <2>2. i - 1 \in 0 .. committed[CheckoutCompleted] - 1
        /\ i - 1 \in 0 .. Cardinality(Requests) - 1
    BY <2>1, OrdersAssumption, FS_CardinalityType
  <2>3. Group!Settled(msg) /\ msg \in Group!Messages
    BY <2>2 DEF IInv, Group!IInv, Group!NothingSkipped, Group!Messages
  <2>4. msg \notin dropped /\ ~ Group!DeadLettered(msg)
    BY <2>3 DEF IInv, KindInv, Group!IInv, Group!OutcomeInv
  <2>5. msg \in handled /\ msg[2] + 1 = i
    BY <2>1, <2>3, <2>4 DEF Group!Settled
  <2> QED BY <2>5 DEF Notified
<1> QED BY <1>1, Invariance, PTL

\* No event of order-service is kept from the topic by the bound on its length.
THEOREM RoomForEventsCorrect == Spec => []RoomForEvents
<1>1. IInv => RoomForEvents
  <2> SUFFICES ASSUME IInv, NEW r \in Requests, emit[r] = "pending"
               PROVE  published[CheckoutCompleted] < Cardinality(Requests)
    BY DEF RoomForEvents
  <2>1. Sent \subseteq Requests /\ Sent # Requests
    BY DEF Sent
  <2>2. Cardinality(Sent) < Cardinality(Requests)
    BY <2>1, OrdersAssumption, FS_Subset, FS_CardinalityType
  <2> QED BY <2>2 DEF IInv, SentInv
<1> QED BY <1>1, Invariance, PTL
=============================================================================
