-------------------------- MODULE DlqConsumerProofs --------------------------
(***************************************************************************)
(* DlqConsumer for any sets of replicas and topics, any number of messages *)
(* and attempts, and any number of crashes, rebalances and evictions: the  *)
(* inductive invariant IInv holds, hence nothing is skipped, messages are  *)
(* settled in order, and a healthy DLQ group loses nothing.                *)
(***************************************************************************)
EXTENDS DlqConsumer, FiniteSetTheorems, TLAPS

USE PrimaryAssumption, MaxAttemptsAssumption, MaxMessagesAssumption,
    MaxTroubleAssumption, NobodyAssumption

LEMMA InitIInv == Init => IInv
<1> SUFFICES ASSUME Init PROVE IInv
  OBVIOUS
<1> USE DEF Init
<1>1. TypeOK
  BY DEF TypeOK, LoopState, Stopped
<1>2. \A msg : ~ Settled(msg)
  BY DEF Settled, DeadLettered
<1>3. NothingSkipped /\ SettledInOrder /\ LogInv
  BY <1>2 DEF NothingSkipped, SettledInOrder, LogInv
<1>4. LoopInv /\ OwnerInv
  BY DEF LoopInv, OwnerInv, Stopped
<1>5. OutcomeInv
  BY DEF OutcomeInv, DeadLettered
<1> QED
  BY <1>1, <1>3, <1>4, <1>5 DEF IInv

-----------------------------------------------------------------------------
(* Steps that settle nothing.                                              *)

\* The outcome of a step that settles nothing stays as it is.
LEMMA SettledKept ==
  ASSUME UNCHANGED outcome
  PROVE  \A msg : /\ Settled(msg)' <=> Settled(msg)
                  /\ DeadLettered(msg)' <=> DeadLettered(msg)
BY DEF outcome, Settled, DeadLettered

\* A message is published.
LEMMA PublishIInv ==
  ASSUME IInv, NEW t \in Topics, NEW corrupt \in BOOLEAN, Publish(t, corrupt)
  PROVE  IInv'
<1> USE DEF Publish, config, members
<1>1. \A msg : /\ Settled(msg)' <=> Settled(msg)
               /\ DeadLettered(msg)' <=> DeadLettered(msg)
  BY SettledKept
<1>2. <<t, published[t]>> \in Messages /\ ~ Settled(<<t, published[t]>>)
  BY DEF IInv, LogInv, Messages, TypeOK
<1>3. TypeOK'
  BY <1>2 DEF IInv, TypeOK, outcome
<1>4. NothingSkipped' /\ SettledInOrder'
  BY <1>1 DEF IInv, NothingSkipped, SettledInOrder
<1>5. \A u \in Topics : published[u] \in Nat /\ published'[u] \in Nat /\ published[u] <= published'[u]
  BY DEF IInv, TypeOK
<1>6. LogInv'
  BY <1>1, <1>5 DEF IInv, LogInv, TypeOK
<1>7. LoopInv'
  BY <1>1, <1>5 DEF IInv, LoopInv, TypeOK, LoopState, Current
<1>8. OwnerInv'
  BY DEF IInv, OwnerInv
<1>9. OutcomeInv'
  <2>1. <<t, published[t]>> \notin handled
    BY <1>2 DEF Settled
  <2>2. poison \subseteq poison'
    OBVIOUS
  <2> QED
    BY <1>1, <2>1, <2>2 DEF IInv, OutcomeInv, outcome
<1> QED
  BY <1>3, <1>4, <1>6, <1>7, <1>8, <1>9 DEF IInv

\* A loop goes on with the message it is at, or ends.
LEMMA MoveIInv ==
  ASSUME IInv, NEW m \in Members, NEW t \in Topics, NEW l \in LoopState,
         loop' = [loop EXCEPT ![m][t] = l],
         \/ l = Stopped
         \/ /\ l.next = loop[m][t].next /\ l.marked = loop[m][t].marked
            /\ loop[m][t].phase # "stopped"
            /\ l.next < published[t]
            /\ l.phase = "dlq" => wrapped /\ (faulty \/ Current(m, t) \in poison),
         UNCHANGED <<config, kafka, members, outcome, trouble>>
  PROVE  IInv'
<1> USE DEF config, kafka, members, outcome
<1>1. \A msg : /\ Settled(msg)' <=> Settled(msg)
               /\ DeadLettered(msg)' <=> DeadLettered(msg)
  BY SettledKept
<1>2. /\ loop[m][t] \in LoopState
      /\ published \in [Topics -> 0 .. MaxMessages]
      /\ committed \in [Topics -> 0 .. MaxMessages]
  BY DEF IInv, TypeOK
<1>3. TypeOK'
  BY DEF IInv, TypeOK
<1>4. NothingSkipped' /\ SettledInOrder' /\ LogInv'
  BY <1>1 DEF IInv, NothingSkipped, SettledInOrder, LogInv
<1>5. \A n \in Members, u \in Topics :
        loop'[n][u] = IF n = m /\ u = t THEN l ELSE loop[n][u]
  BY DEF IInv, TypeOK
<1>6. LoopInv'
  <2> SUFFICES ASSUME NEW n \in Members, NEW u \in Topics
               PROVE  /\ loop'[n][u].marked = loop'[n][u].next
                      /\ loop'[n][u].next <= published[u]
                      /\ \A o \in 0 .. loop'[n][u].next - 1 : Settled(<<u, o>>)
                      /\ loop'[n][u].phase \in {"handling", "dlq"} =>
                            loop'[n][u].next < published[u]
                      /\ loop'[n][u].phase = "dlq" =>
                            wrapped /\ (faulty \/ <<u, loop'[n][u].next>> \in poison)
    BY <1>1 DEF LoopInv, Current
  <2>1. CASE n = m /\ u = t /\ l = Stopped
    BY <1>2, <1>5, <2>1 DEF Stopped
  <2>2. CASE n = m /\ u = t /\ l # Stopped
    <3>1. loop'[n][u] = l
      BY <1>5, <2>2
    <3>2. \A o \in 0 .. l.next - 1 : Settled(<<t, o>>)
      BY <2>2 DEF IInv, LoopInv
    <3> QED
      BY <1>2, <2>2, <3>1, <3>2 DEF IInv, LoopInv, LoopState, Current
  <2>3. CASE ~ (n = m /\ u = t)
    BY <1>5, <2>3 DEF IInv, LoopInv, Current
  <2> QED
    BY <2>1, <2>2, <2>3
<1>7. OwnerInv'
  BY <1>2, <1>5 DEF IInv, OwnerInv, Stopped
<1>8. OutcomeInv'
  BY <1>1 DEF IInv, OutcomeInv
<1> QED
  BY <1>3, <1>4, <1>6, <1>7, <1>8 DEF IInv

LEMMA LoopIInv ==
  ASSUME IInv, NEW m \in Members, NEW t \in Topics,
         Deliver(m, t) \/ Retry(m, t) \/ GiveUp(m, t) \/ NoticeEviction(m, t)
  PROVE  IInv'
<1>1. loop[m][t] \in LoopState /\ published[t] \in 0 .. MaxMessages
  BY DEF IInv, TypeOK
<1>2. CASE Deliver(m, t)
  <2> DEFINE l == [loop[m][t] EXCEPT !.phase = "handling", !.attempt = 1]
  <2>1. l \in LoopState
    <3>1. 1 \in 0 .. MaxAttempts
      OBVIOUS
    <3> QED
      BY <1>1, <3>1 DEF LoopState
  <2>2. l.phase = "handling" /\ l.next = loop[m][t].next /\ l.marked = loop[m][t].marked
    BY <1>1 DEF LoopState
  <2>3. loop' = [loop EXCEPT ![m][t] = l]
    BY <1>2 DEF Deliver
  <2> HIDE DEF l
  <2>4. loop[m][t].phase # "stopped" /\ l.next < published[t]
    BY <1>2, <2>2 DEF Deliver
  <2>5. UNCHANGED <<config, kafka, members, outcome, trouble>>
    BY <1>2 DEF Deliver
  <2>6. l.phase # "dlq"
    BY <2>2
  <2> QED
    BY <2>1, <2>2, <2>3, <2>4, <2>5, <2>6, MoveIInv
<1>3. CASE Retry(m, t)
  <2> DEFINE l == [loop[m][t] EXCEPT !.attempt = @ + 1]
  <2>1. /\ l \in LoopState /\ l.phase = "handling"
        /\ l.next = loop[m][t].next /\ l.marked = loop[m][t].marked
    <3>1. loop[m][t].phase = "handling" /\ loop[m][t].attempt + 1 \in 0 .. MaxAttempts
      BY <1>1, <1>3 DEF LoopState, Retry, HandlerFails
    <3> QED
      BY <1>1, <3>1 DEF LoopState
  <2>2. loop' = [loop EXCEPT ![m][t] = l]
    BY <1>3 DEF Retry
  <2>3. l.next < published[t]
    BY <1>3, <2>1 DEF Retry, HandlerFails, IInv, LoopInv
  <2> HIDE DEF l
  <2> QED
    BY <1>3, <2>1, <2>2, <2>3, MoveIInv DEF Retry, HandlerFails
<1>4. CASE GiveUp(m, t)
  <2> DEFINE l == [loop[m][t] EXCEPT !.phase = "dlq"]
  <2>1. /\ l \in LoopState
        /\ l.next = loop[m][t].next /\ l.marked = loop[m][t].marked
    BY <1>1 DEF LoopState
  <2>2. loop' = [loop EXCEPT ![m][t] = l]
    BY <1>4 DEF GiveUp
  <2>3. l.next < published[t]
    BY <1>4, <2>1 DEF GiveUp, HandlerFails, IInv, LoopInv
  <2> HIDE DEF l
  <2>4. loop[m][t].phase # "stopped" /\ wrapped /\ (faulty \/ Current(m, t) \in poison)
    BY <1>4 DEF GiveUp, HandlerFails
  <2>5. UNCHANGED <<config, kafka, members, outcome, trouble>>
    BY <1>4 DEF GiveUp
  <2> QED
    BY <2>1, <2>2, <2>3, <2>4, <2>5, MoveIInv
<1>5. CASE NoticeEviction(m, t)
  <2>1. Stopped \in LoopState
    BY DEF Stopped, LoopState
  <2> QED
    BY <1>5, <2>1, MoveIInv DEF NoticeEviction
<1> QED
  BY <1>2, <1>3, <1>4, <1>5

-----------------------------------------------------------------------------
(* Steps that settle the message in hand.                                  *)

LEMMA MarkIInv ==
  ASSUME IInv, NEW m \in Members, NEW t \in Topics,
         loop[m][t].phase \in {"handling", "dlq"}, Mark(m, t),
         UNCHANGED <<config, kafka, members, trouble>>,
         handled' \in SUBSET Messages,
         dead' \in SUBSET (Topics \X Messages),
         dropped' \in SUBSET Messages,
         \A msg : Settled(msg)' <=> Settled(msg) \/ msg = Current(m, t),
         OutcomeInv'
  PROVE  IInv'
<1> USE DEF config, kafka, members
<1> DEFINE next == loop[m][t].next
           l == StartAt(next + 1)
<1>1. /\ published[t] \in 0 .. MaxMessages /\ next \in 0 .. MaxMessages
      /\ next < published[t] /\ loop[m][t].marked = next
      /\ Current(m, t) = <<t, next>>
      /\ \A o \in 0 .. next - 1 : Settled(<<t, o>>)
  <2>1. published[t] \in 0 .. MaxMessages /\ next \in 0 .. MaxMessages
    BY DEF IInv, TypeOK, LoopState
  <2>2. /\ next < published[t] /\ loop[m][t].marked = next
        /\ \A o \in 0 .. next - 1 : Settled(<<t, o>>)
    BY DEF IInv, LoopInv
  <2> QED
    BY <2>1, <2>2 DEF Current
<1>2. l \in LoopState /\ l.phase = "idle" /\ l.next = next + 1 /\ l.marked = next + 1
  BY <1>1 DEF StartAt, LoopState
<1>3. loop' = [loop EXCEPT ![m][t] = l]
  BY DEF Mark
<1> HIDE DEF l
<1>4. \A n \in Members, u \in Topics :
        loop'[n][u] = IF n = m /\ u = t THEN l ELSE loop[n][u]
  BY <1>3 DEF IInv, TypeOK
<1>5. TypeOK'
  BY <1>2, <1>3 DEF IInv, TypeOK
<1> HIDE DEF next
<1>6. \A u, o : Settled(<<u, o>>)' <=> Settled(<<u, o>>) \/ (u = t /\ o = next)
  BY <1>1
<1>7. NothingSkipped'
  BY <1>6 DEF IInv, NothingSkipped
<1>8. SettledInOrder'
  BY <1>1, <1>6 DEF IInv, SettledInOrder
<1>9. LogInv'
  BY <1>1, <1>6 DEF IInv, LogInv
<1>10. LoopInv'
  <2> SUFFICES ASSUME NEW n \in Members, NEW u \in Topics
               PROVE  /\ loop'[n][u].marked = loop'[n][u].next
                      /\ loop'[n][u].next <= published[u]
                      /\ \A o \in 0 .. loop'[n][u].next - 1 : Settled(<<u, o>>)'
                      /\ loop'[n][u].phase \in {"handling", "dlq"} =>
                            loop'[n][u].next < published[u]
                      /\ loop'[n][u].phase = "dlq" =>
                            wrapped /\ (faulty \/ <<u, loop'[n][u].next>> \in poison)
    BY DEF LoopInv, Current
  <2>1. CASE n = m /\ u = t
    BY <1>1, <1>2, <1>4, <1>6, <2>1
  <2>2. CASE ~ (n = m /\ u = t)
    BY <1>4, <1>6, <2>2 DEF IInv, LoopInv, Current
  <2> QED
    BY <2>1, <2>2
<1>11. OwnerInv'
  <2>1. \A u \in Topics : committed[u] \in Nat
    BY DEF IInv, TypeOK
  <2> QED
    BY <1>1, <1>2, <1>4, <2>1 DEF IInv, OwnerInv
<1> QED
  BY <1>5, <1>7, <1>8, <1>9, <1>10, <1>11 DEF IInv

\* The message in hand is settled, and no other.
LEMMA SettlesOne ==
  ASSUME NEW m \in Members, NEW t \in Topics,
         \/ HandlerSucceeds(m, t) \/ PlainSkip(m, t)
         \/ DeadLetter(m, t) \/ DeadLetterLost(m, t)
  PROVE  \A msg : Settled(msg)' <=> Settled(msg) \/ msg = Current(m, t)
<1>1. CASE HandlerSucceeds(m, t)
  BY <1>1 DEF HandlerSucceeds, Settled, DeadLettered
<1>2. CASE PlainSkip(m, t)
  BY <1>2 DEF PlainSkip, Settled, DeadLettered
<1>3. CASE DeadLetter(m, t)
  <2>1. \A msg : DeadLettered(msg)' <=> DeadLettered(msg) \/ msg = Current(m, t)
    BY <1>3 DEF DeadLetter, DeadLettered
  <2> QED
    BY <1>3, <2>1 DEF DeadLetter, Settled
<1>4. CASE DeadLetterLost(m, t)
  BY <1>4 DEF DeadLetterLost, Settled, DeadLettered
<1> QED
  BY <1>1, <1>2, <1>3, <1>4

LEMMA SettleIInv ==
  ASSUME IInv, NEW m \in Members, NEW t \in Topics,
         \/ HandlerSucceeds(m, t) \/ PlainSkip(m, t)
         \/ DeadLetter(m, t) \/ DeadLetterLost(m, t)
  PROVE  IInv'
<1>1. Current(m, t) \in Messages
  <2>1. loop[m][t].phase \in {"handling", "dlq"}
    BY DEF HandlerSucceeds, PlainSkip, HandlerFails, DeadLetter, DeadLetterLost
  <2> QED
    BY <2>1 DEF IInv, TypeOK, LoopInv, LoopState, Current, Messages
<1>2. /\ handled \in SUBSET Messages
      /\ dead \in SUBSET (Topics \X Messages)
      /\ dropped \in SUBSET Messages
  BY DEF IInv, TypeOK
<1> HIDE DEF Current
<1> USE DEF config, kafka, members
<1>3. CASE HandlerSucceeds(m, t)
  <2>1. \A msg : DeadLettered(msg)' <=> DeadLettered(msg)
    BY <1>3 DEF HandlerSucceeds, DeadLettered
  <2>2. OutcomeInv'
    BY <1>3, <2>1 DEF HandlerSucceeds, IInv, OutcomeInv
  <2> QED
    BY <1>1, <1>2, <1>3, <2>2, SettlesOne, MarkIInv DEF HandlerSucceeds
<1>4. CASE PlainSkip(m, t)
  <2>1. \A msg : DeadLettered(msg)' <=> DeadLettered(msg)
    BY <1>4 DEF PlainSkip, DeadLettered
  <2>2. OutcomeInv'
    BY <1>4, <2>1 DEF PlainSkip, IInv, OutcomeInv
  <2> QED
    BY <1>1, <1>2, <1>4, <2>2, SettlesOne, MarkIInv DEF PlainSkip, HandlerFails
<1>5. CASE DeadLetter(m, t)
  <2>1. \A msg : DeadLettered(msg)' <=> DeadLettered(msg) \/ msg = Current(m, t)
    BY <1>5 DEF DeadLetter, DeadLettered
  <2>2. faulty \/ Current(m, t) \in poison
    BY <1>5 DEF DeadLetter, IInv, LoopInv
  <2>3. OutcomeInv'
    BY <1>5, <2>1, <2>2 DEF DeadLetter, IInv, OutcomeInv
  <2>4. dead' \in SUBSET (Topics \X Messages)
    BY <1>1, <1>2, <1>5 DEF DeadLetter
  <2> QED
    BY <1>2, <1>5, <2>3, <2>4, SettlesOne, MarkIInv DEF DeadLetter
<1>6. CASE DeadLetterLost(m, t)
  <2>1. \A msg : DeadLettered(msg)' <=> DeadLettered(msg)
    BY <1>6 DEF DeadLetterLost, DeadLettered
  <2>2. wrapped
    BY <1>6 DEF DeadLetterLost, IInv, LoopInv
  <2>3. OutcomeInv'
    BY <1>6, <2>1, <2>2 DEF DeadLetterLost, IInv, OutcomeInv
  <2> QED
    BY <1>1, <1>2, <1>6, <2>3, SettlesOne, MarkIInv DEF DeadLetterLost
<1> QED
  BY <1>3, <1>4, <1>5, <1>6

-----------------------------------------------------------------------------
(* Steps of the group and of the replicas.                                 *)

\* Steps that settle nothing keep what is about the log; what is left to show
\* is about committed offsets, owners and loops.
LEMMA GroupStepKeeps ==
  ASSUME IInv, UNCHANGED <<config, published, poison, outcome>>,
         TypeOK', LoopInv', OwnerInv',
         \A t \in Topics : /\ committed'[t] <= published[t]
                          /\ \A o \in 0 .. committed'[t] - 1 : Settled(<<t, o>>),
         ~ faulty /\ wrapped => hasDlq' = Members
  PROVE  IInv'
<1> USE DEF config, outcome
<1>1. \A msg : /\ Settled(msg)' <=> Settled(msg)
               /\ DeadLettered(msg)' <=> DeadLettered(msg)
  BY SettledKept
<1>2. NothingSkipped' /\ SettledInOrder' /\ LogInv'
  BY <1>1 DEF IInv, NothingSkipped, SettledInOrder, LogInv
<1>3. OutcomeInv'
  BY <1>1 DEF IInv, OutcomeInv
<1> QED
  BY <1>2, <1>3 DEF IInv

\* Loops that are where they were, ended, or start at what is committed.
LEMMA LoopsKept ==
  ASSUME IInv, UNCHANGED <<config, published, poison, outcome>>,
         \A m \in Members, t \in Topics :
            loop'[m][t] \in {loop[m][t], Stopped, StartAt(committed[t])}
  PROVE  LoopInv'
<1> SUFFICES ASSUME NEW m \in Members, NEW t \in Topics
             PROVE  /\ loop'[m][t].marked = loop'[m][t].next
                    /\ loop'[m][t].next <= published[t]
                    /\ \A o \in 0 .. loop'[m][t].next - 1 : Settled(<<t, o>>)
                    /\ loop'[m][t].phase \in {"handling", "dlq"} =>
                          loop'[m][t].next < published[t]
                    /\ loop'[m][t].phase = "dlq" =>
                          wrapped /\ (faulty \/ <<t, loop'[m][t].next>> \in poison)
  BY SettledKept DEF LoopInv, Current, config
<1>1. published[t] \in 0 .. MaxMessages /\ committed[t] \in 0 .. MaxMessages
  BY DEF IInv, TypeOK
<1>2. CASE loop'[m][t] = loop[m][t]
  BY <1>2 DEF IInv, LoopInv, Current
<1>3. CASE loop'[m][t] = Stopped
  BY <1>1, <1>3 DEF Stopped
<1>4. CASE loop'[m][t] = StartAt(committed[t])
  BY <1>1, <1>4 DEF StartAt, IInv, LogInv, NothingSkipped
<1> QED
  BY <1>2, <1>3, <1>4

\* What the loops have marked may be committed.
LEMMA MarkedIsSettled ==
  ASSUME IInv
  PROVE  /\ \A m \in Members, t \in Topics :
              /\ loop[m][t].marked \in 0 .. MaxMessages
              /\ loop[m][t].marked <= published[t]
              /\ \A o \in 0 .. loop[m][t].marked - 1 : Settled(<<t, o>>)
         /\ \A t \in Topics :
              /\ committed[t] \in 0 .. MaxMessages
              /\ committed[t] <= published[t]
              /\ \A o \in 0 .. committed[t] - 1 : Settled(<<t, o>>)
<1>1. \A m \in Members, t \in Topics :
        loop[m][t].marked \in 0 .. MaxMessages
  BY DEF IInv, TypeOK, LoopState
<1>2. \A m \in Members, t \in Topics :
        /\ loop[m][t].marked <= published[t]
        /\ \A o \in 0 .. loop[m][t].marked - 1 : Settled(<<t, o>>)
  BY DEF IInv, LoopInv
<1>3. \A t \in Topics : committed[t] \in 0 .. MaxMessages
  BY DEF IInv, TypeOK
<1> QED
  BY <1>1, <1>2, <1>3 DEF IInv, LogInv, NothingSkipped

LEMMA GroupIInv ==
  ASSUME IInv, NEW m \in Members, NEW t \in Topics,
         Assign(m, t) \/ AutoCommit(m, t) \/ Rebalance(m, t) \/ Evict(m, t)
  PROVE  IInv'
<1> USE DEF config, members, outcome
<1>1. /\ loop \in [Members -> [Topics -> LoopState]]
      /\ committed \in [Topics -> 0 .. MaxMessages]
      /\ assigned \in [Topics -> Members \cup {Nobody}]
  BY DEF IInv, TypeOK
<1>2. Stopped \in LoopState /\ StartAt(committed[t]) \in LoopState
  BY <1>1 DEF Stopped, StartAt, LoopState
<1>3. CASE Assign(m, t)
  <2>1. TypeOK'
    BY <1>1, <1>2, <1>3 DEF Assign, IInv, TypeOK
  <2>2. \A n \in Members, u \in Topics :
          loop'[n][u] = IF n = m /\ u = t THEN StartAt(committed[u]) ELSE loop[n][u]
    BY <1>1, <1>3 DEF Assign
  <2>3. LoopInv'
    BY <1>3, <2>2, LoopsKept DEF Assign
  <2>4. OwnerInv'
    <3>1. \A u \in Topics : assigned'[u] = IF u = t THEN m ELSE assigned[u]
      BY <1>1, <1>3 DEF Assign
    <3> QED
      BY <1>1, <1>3, <2>2, <3>1 DEF Assign, IInv, OwnerInv, StartAt
  <2> QED
    BY <1>3, <2>1, <2>3, <2>4, MarkedIsSettled, GroupStepKeeps DEF Assign, IInv, OutcomeInv
<1>4. CASE AutoCommit(m, t)
  <2>1. TypeOK'
    BY <1>1, <1>4, MarkedIsSettled DEF AutoCommit, IInv, TypeOK
  <2>2. LoopInv'
    BY <1>4, LoopsKept DEF AutoCommit
  <2>3. OwnerInv'
    BY <1>1, <1>4, MarkedIsSettled DEF AutoCommit, IInv, OwnerInv
  <2>4. \A u \in Topics : committed'[u] = IF u = t THEN loop[m][t].marked ELSE committed[u]
    BY <1>1, <1>4 DEF AutoCommit
  <2> QED
    BY <1>4, <2>1, <2>2, <2>3, <2>4, MarkedIsSettled, GroupStepKeeps
    DEF AutoCommit, IInv, OutcomeInv
<1>5. CASE Rebalance(m, t)
  <2>1. TypeOK'
    <3>1. trouble' \in 0 .. MaxTrouble
      BY <1>5 DEF Rebalance, IInv, TypeOK
    <3> QED
      BY <1>1, <1>2, <1>5, <3>1, MarkedIsSettled DEF Rebalance, IInv, TypeOK
  <2>2. \A n \in Members, u \in Topics :
          loop'[n][u] = IF n = m /\ u = t THEN Stopped ELSE loop[n][u]
    BY <1>1, <1>5 DEF Rebalance
  <2>3. LoopInv'
    BY <1>5, <2>2, LoopsKept DEF Rebalance
  <2>4. \A u \in Topics : /\ assigned'[u] = IF u = t THEN Nobody ELSE assigned[u]
                          /\ committed'[u] = IF u = t THEN loop[m][t].marked
                                             ELSE committed[u]
    BY <1>1, <1>5 DEF Rebalance
  <2>5. OwnerInv'
    BY <2>2, <2>4 DEF IInv, OwnerInv
  <2> QED
    BY <1>5, <2>1, <2>3, <2>4, <2>5, MarkedIsSettled, GroupStepKeeps
    DEF Rebalance, IInv, OutcomeInv
<1>6. CASE Evict(m, t)
  <2>1. trouble' \in 0 .. MaxTrouble
    BY <1>6 DEF Evict, IInv, TypeOK
  <2>2. TypeOK'
    BY <1>6, <2>1 DEF Evict, IInv, TypeOK
  <2>3. LoopInv'
    BY <1>6, LoopsKept DEF Evict
  <2>4. OwnerInv'
    BY <1>1, <1>6 DEF Evict, IInv, OwnerInv
  <2> QED
    BY <1>6, <2>2, <2>3, <2>4, MarkedIsSettled, GroupStepKeeps DEF Evict, IInv, OutcomeInv
<1> QED
  BY <1>3, <1>4, <1>5, <1>6

LEMMA ReplicaIInv ==
  ASSUME IInv, NEW m \in Members, Crash(m) \/ Restart(m)
  PROVE  IInv'
<1> USE DEF config, kafka, outcome
<1>1. loop \in [Members -> [Topics -> LoopState]] /\ Stopped \in LoopState
  BY DEF IInv, TypeOK, Stopped, LoopState
<1>2. CASE Crash(m)
  <2>1. trouble' \in 0 .. MaxTrouble
    BY <1>2 DEF Crash, IInv, TypeOK
  <2>2. TypeOK'
    BY <1>1, <1>2, <2>1 DEF Crash, IInv, TypeOK
  <2>3. \A n \in Members, u \in Topics :
          loop'[n][u] = IF n = m THEN Stopped ELSE loop[n][u]
    BY <1>1, <1>2 DEF Crash
  <2>4. LoopInv'
    BY <1>2, <2>3, LoopsKept DEF Crash
  <2>5. OwnerInv'
    BY <1>2, <2>3 DEF Crash, IInv, OwnerInv, Stopped
  <2> QED
    BY <1>2, <2>2, <2>4, <2>5, MarkedIsSettled, GroupStepKeeps DEF Crash, IInv, OutcomeInv
<1>3. CASE Restart(m)
  <2>1. hasDlq' \in SUBSET Members /\ (~ faulty /\ wrapped => hasDlq' = Members)
    BY <1>3 DEF Restart, IInv, TypeOK, OutcomeInv
  <2>2. TypeOK'
    BY <1>3, <2>1 DEF Restart, IInv, TypeOK
  <2>3. LoopInv'
    BY <1>3, LoopsKept DEF Restart
  <2>4. OwnerInv'
    BY <1>3 DEF Restart, IInv, OwnerInv
  <2> QED
    BY <1>3, <2>1, <2>2, <2>3, <2>4, MarkedIsSettled, GroupStepKeeps DEF Restart
<1> QED
  BY <1>2, <1>3

-----------------------------------------------------------------------------
LEMMA StepIInv == IInv /\ [Next]_vars => IInv'
<1> SUFFICES ASSUME IInv, [Next]_vars PROVE IInv'
  OBVIOUS
<1>1. ASSUME NEW t \in Topics, NEW corrupt \in BOOLEAN, Publish(t, corrupt)
      PROVE  IInv'
  BY <1>1, PublishIInv
<1>2. ASSUME NEW m \in Members, NEW t \in Topics, LoopStep(m, t) PROVE IInv'
  BY <1>2, LoopIInv, SettleIInv DEF LoopStep
<1>3. ASSUME NEW m \in Members, NEW t \in Topics, GroupStep(m, t) PROVE IInv'
  BY <1>3, LoopIInv, GroupIInv DEF GroupStep
<1>4. ASSUME NEW m \in Members, Crash(m) \/ Restart(m) PROVE IInv'
  BY <1>4, ReplicaIInv
<1>5. CASE UNCHANGED vars
  <2>1. /\ UNCHANGED <<config, published, poison, outcome>>
        /\ UNCHANGED <<committed, assigned, loop, hasDlq>>
    BY <1>5 DEF vars, config, outcome
  <2>2. TypeOK'
    BY <1>5 DEF vars, IInv, TypeOK
  <2>3. LoopInv' /\ OwnerInv'
    BY <2>1, LoopsKept DEF IInv, OwnerInv
  <2> QED
    BY <2>1, <2>2, <2>3, MarkedIsSettled, GroupStepKeeps DEF IInv, OutcomeInv
<1> QED
  BY <1>1, <1>2, <1>3, <1>4, <1>5 DEF Next

LEMMA Invariance == Spec => []IInv
  BY InitIInv, StepIInv, PTL DEF Spec

\* The type invariant: no loop leaves the log, no message is tried more often
\* than MaxAttempts says.
THEOREM TypeCorrect == Spec => []TypeOK
  BY Invariance, PTL DEF IInv

\* The committed offset never passes a message that is not settled.
THEOREM NothingSkippedCorrect == Spec => []NothingSkipped
  BY Invariance, PTL DEF IInv

\* Messages are settled in their order, whoever else is at work on the topic.
THEOREM SettledInOrderCorrect == Spec => []SettledInOrder
  BY Invariance, PTL DEF IInv

\* A healthy DLQ group has handled or dead-lettered whatever it has committed.
THEOREM HealthyGroupCorrect == Spec => []HealthyGroupLosesNothing
<1>1. IInv => HealthyGroupLosesNothing
  <2> SUFFICES ASSUME IInv, ~ faulty, wrapped, NEW t \in Topics,
                      NEW o \in 0 .. committed[t] - 1
               PROVE  IF <<t, o>> \in poison THEN DeadLettered(<<t, o>>)
                      ELSE <<t, o>> \in handled /\ ~ DeadLettered(<<t, o>>)
    BY DEF HealthyGroupLosesNothing
  <2>1. Settled(<<t, o>>) /\ <<t, o>> \in Messages
    BY DEF IInv, NothingSkipped, TypeOK, Messages
  <2> QED
    BY <2>1 DEF IInv, OutcomeInv, Settled
<1> QED
  BY <1>1, Invariance, PTL

-----------------------------------------------------------------------------
(* The group implements the safety part of DeliveryPromise.                *)

\* The settled messages of a topic are its first ones, as many as there are.
LEMMA SettledPrefix ==
  ASSUME IInv, NEW t \in Topics
  PROVE  /\ IsFiniteSet(SettledOf(t))
         /\ \A c \in 0 .. MaxMessages :
              (\A o \in 0 .. c - 1 : Settled(<<t, o>>)) => c <= Cardinality(SettledOf(t))
         /\ \A c \in 0 .. MaxMessages - 1 :
              /\ \A o \in 0 .. c - 1 : Settled(<<t, o>>)
              /\ ~ Settled(<<t, c>>)
              => Cardinality(SettledOf(t)) = c
<1>1. IsFiniteSet(SettledOf(t))
  <2>1. IsFiniteSet(0 .. MaxMessages - 1)
    BY FS_Interval
  <2> QED
    BY <2>1, FS_Subset DEF SettledOf
<1>2. \A c \in 0 .. MaxMessages : IsFiniteSet(0 .. c - 1) /\ Cardinality(0 .. c - 1) = c
  <2> TAKE c \in 0 .. MaxMessages
  <2>1. IsFiniteSet(0 .. c - 1)
    BY FS_Interval
  <2>2. Cardinality(0 .. c - 1) = IF 0 > c - 1 THEN 0 ELSE c - 1 - 0 + 1
    BY FS_Interval
  <2> QED
    BY <2>1, <2>2
<1>3. ASSUME NEW c \in 0 .. MaxMessages, \A o \in 0 .. c - 1 : Settled(<<t, o>>)
      PROVE  c <= Cardinality(SettledOf(t))
  <2>1. 0 .. c - 1 \subseteq SettledOf(t)
    BY <1>3 DEF SettledOf
  <2>2. Cardinality(0 .. c - 1) <= Cardinality(SettledOf(t))
    BY <1>1, <2>1, FS_Subset
  <2> QED
    BY <1>2, <2>2
<1>4. ASSUME NEW c \in 0 .. MaxMessages - 1, \A o \in 0 .. c - 1 : Settled(<<t, o>>),
             ~ Settled(<<t, c>>)
      PROVE  Cardinality(SettledOf(t)) = c
  <2>1. SettledOf(t) = 0 .. c - 1
    BY <1>4 DEF IInv, SettledInOrder, SettledOf
  <2> QED
    BY <1>2, <2>1
<1> QED
  BY <1>1, <1>3, <1>4

\* A step that settles nothing leaves counts and losses alone.
LEMMA CountsKept ==
  ASSUME UNCHANGED outcome
  PROVE  /\ UNCHANGED [t \in Topics |-> Cardinality(SettledOf(t))]
         /\ UNCHANGED [t \in Topics |-> LostOf(t)]
<1>1. \A t \in Topics : SettledOf(t)' = SettledOf(t)
  BY SettledKept DEF SettledOf
<1>2. \A t \in Topics : LostOf(t)' = LostOf(t)
  BY SettledKept DEF LostOf, Lost, outcome
<1> QED
  BY <1>1, <1>2

\* What a step that settles a message does to what is lost: a message settled
\* before is not lost by it, and a protected group loses none.
LEMMA LosesOne ==
  ASSUME IInv, NEW m \in Members, NEW t \in Topics,
         \/ HandlerSucceeds(m, t) \/ PlainSkip(m, t)
         \/ DeadLetter(m, t) \/ DeadLetterLost(m, t)
  PROVE  \/ \A msg : Lost(msg)' <=> Lost(msg) /\ msg # Current(m, t)
         \/ /\ ~ (wrapped /\ ~ faulty)
            /\ ~ Settled(Current(m, t)) \/ Lost(Current(m, t))
            /\ \A msg : Lost(msg)' <=> Lost(msg) \/ msg = Current(m, t)
         \/ \A msg : Lost(msg)' <=> Lost(msg)
<1>1. CASE HandlerSucceeds(m, t)
  BY <1>1 DEF HandlerSucceeds, Lost, DeadLettered
<1>2. CASE PlainSkip(m, t)
  <2>1. CASE Settled(Current(m, t)) /\ ~ Lost(Current(m, t))
    BY <1>2, <2>1 DEF PlainSkip, Lost, Settled, DeadLettered
  <2>2. CASE ~ Settled(Current(m, t)) \/ Lost(Current(m, t))
    BY <1>2, <2>2 DEF PlainSkip, Lost, Settled, DeadLettered
  <2> QED
    BY <2>1, <2>2
<1>3. CASE DeadLetter(m, t)
  <2>1. \A msg : DeadLettered(msg)' <=> DeadLettered(msg) \/ msg = Current(m, t)
    BY <1>3 DEF DeadLetter, DeadLettered
  <2> QED
    BY <1>3, <2>1 DEF DeadLetter, Lost
<1>4. CASE DeadLetterLost(m, t)
  <2>1. ~ (wrapped /\ ~ faulty)
    BY <1>4 DEF DeadLetterLost, IInv, OutcomeInv
  <2>2. CASE Settled(Current(m, t)) /\ ~ Lost(Current(m, t))
    BY <1>4, <2>2 DEF DeadLetterLost, Lost, Settled, DeadLettered
  <2>3. CASE ~ Settled(Current(m, t)) \/ Lost(Current(m, t))
    BY <1>4, <2>1, <2>3 DEF DeadLetterLost, Lost, Settled, DeadLettered
  <2> QED
    BY <2>2, <2>3
<1> QED
  BY <1>1, <1>2, <1>3, <1>4

\* A message is settled for the first time, or again: then the group at most
\* recovers it.
LEMMA SettleStep ==
  ASSUME IInv, NEW m \in Members, NEW t \in Topics,
         \/ HandlerSucceeds(m, t) \/ PlainSkip(m, t)
         \/ DeadLetter(m, t) \/ DeadLetterLost(m, t)
  PROVE  \/ Delivery!Keep(t) \/ Delivery!GiveUp(t) \/ Delivery!Recover(t)
         \/ UNCHANGED Delivery!promiseVars
<1> DEFINE next == loop[m][t].next
           counts == [u \in Topics |-> Cardinality(SettledOf(u))]
           losses == [u \in Topics |-> LostOf(u)]
<1>0. /\ loop[m][t].phase \in {"handling", "dlq"}
      /\ UNCHANGED <<published, committed, wrapped, faulty>>
  BY DEF HandlerSucceeds, PlainSkip, HandlerFails, DeadLetter, DeadLetterLost, kafka, config
<1>1. /\ next \in 0 .. MaxMessages - 1 /\ next < published[t]
      /\ \A o \in 0 .. next - 1 : Settled(<<t, o>>)
  <2>1. next \in 0 .. MaxMessages /\ published[t] \in 0 .. MaxMessages
    BY DEF IInv, TypeOK, LoopState
  <2>2. next < published[t] /\ \A o \in 0 .. next - 1 : Settled(<<t, o>>)
    BY <1>0 DEF IInv, LoopInv
  <2> QED
    BY <2>1, <2>2
<1>2. \A u, o : Settled(<<u, o>>)' <=> Settled(<<u, o>>) \/ (u = t /\ o = next)
  BY SettlesOne DEF Current
<1>3. \/ \A u, o : Lost(<<u, o>>)' <=> Lost(<<u, o>>) /\ ~ (u = t /\ o = next)
      \/ /\ ~ (wrapped /\ ~ faulty)
         /\ ~ Settled(<<t, next>>) \/ Lost(<<t, next>>)
         /\ \A u, o : Lost(<<u, o>>)' <=> Lost(<<u, o>>) \/ (u = t /\ o = next)
      \/ \A u, o : Lost(<<u, o>>)' <=> Lost(<<u, o>>)
  BY LosesOne DEF Current
<1>4. Lost(<<t, next>>) => Settled(<<t, next>>)
  BY DEF Lost, Settled
<1> HIDE DEF next
<1>5. \A u \in Topics \ {t} : SettledOf(u)' = SettledOf(u)
  BY <1>2 DEF SettledOf
<1>6. \A u \in Topics \ {t} : LostOf(u)' = LostOf(u)
  BY <1>3 DEF LostOf
<1>7. \/ LostOf(t)' = LostOf(t) \ {next}
      \/ /\ ~ (wrapped /\ ~ faulty)
         /\ ~ Settled(<<t, next>>) \/ Lost(<<t, next>>)
         /\ LostOf(t)' = LostOf(t) \cup {next}
      \/ LostOf(t)' = LostOf(t)
  BY <1>1, <1>3 DEF LostOf
<1>8. next \in LostOf(t) <=> Lost(<<t, next>>)
  BY <1>1 DEF LostOf
<1>9. CASE Settled(<<t, next>>)
  <2>1. counts' = counts
    BY <1>2, <1>5, <1>9 DEF SettledOf
  <2>2. CASE LostOf(t)' = LostOf(t)
    BY <1>0, <1>6, <2>1, <2>2 DEF Delivery!promiseVars
  <2>3. CASE LostOf(t)' # LostOf(t)
    <3>1. next \in LostOf(t) /\ LostOf(t)' = LostOf(t) \ {next}
      BY <1>7, <1>8, <1>9, <2>3
    <3>2. losses' = [losses EXCEPT ![t] = @ \ {next}]
      BY <1>6, <3>1
    <3> QED
      BY <1>0, <2>1, <3>1, <3>2 DEF Delivery!Recover
  <2> QED
    BY <2>2, <2>3
<1>10. CASE ~ Settled(<<t, next>>)
  <2>1. SettledOf(t)' = SettledOf(t) \cup {next} /\ next \notin SettledOf(t)
    BY <1>1, <1>2, <1>10 DEF SettledOf
  <2>2. Cardinality(SettledOf(t)) = next /\ IsFiniteSet(SettledOf(t))
    BY <1>1, <1>10, SettledPrefix
  <2>3. Cardinality(SettledOf(t)') = Cardinality(SettledOf(t)) + 1
    BY <2>1, <2>2, FS_AddElement
  <2>4. counts' = [counts EXCEPT ![t] = @ + 1]
    BY <1>5, <2>3
  <2>5. counts[t] < published[t] /\ counts[t] = next
    BY <1>1, <2>2
  <2>6. next \notin LostOf(t)
    BY <1>4, <1>8, <1>10
  <2>7. CASE LostOf(t)' = LostOf(t)
    <3>1. losses' = losses
      BY <1>6, <2>7
    <3> QED
      BY <1>0, <2>4, <2>5, <3>1 DEF Delivery!Keep
  <2>8. CASE LostOf(t)' # LostOf(t)
    <3>1. ~ (wrapped /\ ~ faulty) /\ LostOf(t)' = LostOf(t) \cup {next}
      BY <1>7, <2>6, <2>8
    <3>2. losses' = [losses EXCEPT ![t] = @ \cup {counts[t]}]
      BY <1>6, <2>5, <3>1
    <3> QED
      BY <1>0, <2>4, <2>5, <3>1, <3>2 DEF Delivery!GiveUp
  <2> QED
    BY <2>7, <2>8
<1> QED
  BY <1>9, <1>10

LEMMA CommitStep ==
  ASSUME IInv, NEW m \in Members, NEW t \in Topics,
         committed[t] <= loop[m][t].marked,
         committed' = [committed EXCEPT ![t] = loop[m][t].marked],
         UNCHANGED <<published, outcome, config>>
  PROVE  Delivery!Commit(t) \/ UNCHANGED Delivery!promiseVars
<1>1. /\ committed \in [Topics -> 0 .. MaxMessages]
      /\ loop[m][t].marked \in 0 .. MaxMessages
      /\ loop[m][t].marked <= Cardinality(SettledOf(t))
  BY MarkedIsSettled, SettledPrefix DEF IInv, TypeOK
<1>2. Cardinality(SettledOf(t)) \in Nat
  BY SettledPrefix, FS_CardinalityType
<1> USE DEF config
<1>3. CASE committed[t] = loop[m][t].marked
  BY <1>1, <1>3, CountsKept DEF Delivery!promiseVars
<1>4. CASE committed[t] < loop[m][t].marked
  <2>1. loop[m][t].marked \in committed[t] + 1 .. Cardinality(SettledOf(t))
    BY <1>1, <1>2, <1>4
  <2> QED
    BY <2>1, CountsKept DEF Delivery!Commit
<1> QED
  BY <1>1, <1>3, <1>4

LEMMA InitPromise == Init => Delivery!Init
<1> SUFFICES ASSUME Init PROVE Delivery!Init
  OBVIOUS
<1>1. \A t \in Topics : SettledOf(t) = {} /\ LostOf(t) = {}
  BY DEF Init, SettledOf, LostOf, Lost, Settled, DeadLettered
<1> QED
  BY <1>1, FS_EmptySet DEF Init, Delivery!Init

\* Every step of Next, by action.
LEMMA StepPromise == IInv /\ [Next]_vars => [Delivery!Next]_(Delivery!promiseVars)
<1> SUFFICES ASSUME IInv, [Next]_vars
             PROVE  Delivery!Next \/ UNCHANGED Delivery!promiseVars
  OBVIOUS
<1> USE DEF kafka, config
<1>1. ASSUME NEW t \in Topics, NEW corrupt \in BOOLEAN, Publish(t, corrupt)
      PROVE  Delivery!Publish(t)
  BY <1>1, CountsKept DEF Publish, Delivery!Publish
<1>2. ASSUME NEW m \in Members, NEW t \in Topics,
             \/ Deliver(m, t) \/ Retry(m, t) \/ GiveUp(m, t) \/ NoticeEviction(m, t)
             \/ Assign(m, t) \/ Evict(m, t) \/ Crash(m) \/ Restart(m)
      PROVE  UNCHANGED Delivery!promiseVars
  BY <1>2, CountsKept DEF Deliver, Retry, GiveUp, NoticeEviction, Assign, Evict, Crash,
     Restart, Delivery!promiseVars
<1>3. ASSUME NEW m \in Members, NEW t \in Topics,
             \/ HandlerSucceeds(m, t) \/ PlainSkip(m, t)
             \/ DeadLetter(m, t) \/ DeadLetterLost(m, t)
      PROVE  \/ Delivery!Keep(t) \/ Delivery!GiveUp(t) \/ Delivery!Recover(t)
             \/ UNCHANGED Delivery!promiseVars
  BY <1>3, SettleStep
<1>4. ASSUME NEW m \in Members, NEW t \in Topics, AutoCommit(m, t) \/ Rebalance(m, t)
      PROVE  Delivery!Commit(t) \/ UNCHANGED Delivery!promiseVars
  <2>1. committed[t] <= loop[m][t].marked
    BY <1>4, MarkedIsSettled DEF AutoCommit, Rebalance, IInv, OwnerInv
  <2> QED
    BY <1>4, <2>1, CommitStep DEF AutoCommit, Rebalance
<1>5. CASE UNCHANGED vars
  BY <1>5, CountsKept DEF vars, outcome, Delivery!promiseVars
<1> QED
  BY <1>1, <1>2, <1>3, <1>4, <1>5 DEF Next, LoopStep, GroupStep, Delivery!Next

\* The group keeps the safety part of its promise: messages are settled one by
\* one in their order, a protected group gives none up, and the committed offset
\* only grows, within the settled.
THEOREM PromiseSafety ==
  Spec => Delivery!Init /\ [][Delivery!Next]_(Delivery!promiseVars)
  BY InitPromise, StepPromise, Invariance, PTL DEF Spec
=============================================================================
