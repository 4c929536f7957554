---------------------------- MODULE ConversionProofs ----------------------------
(***************************************************************************)
(* ConversionFlow for any offers, notifications and replicas, any number   *)
(* of events and of drivers that die.  First the job alone, then what the  *)
(* services add: they use the job and the group as these may be used.      *)
(***************************************************************************)
EXTENDS ConversionFlow, FiniteSetTheorems, SequenceTheorems, TLAPS

\* The cardinality of FunnelJob is the one the library speaks of.
LEMMA JobCardinality == \A S : Job!Cardinality(S) = Cardinality(S)
  BY DEF Job!Cardinality, Cardinality

LEMMA CountIs ==
    ASSUME NEW k, NEW a, NEW b
    PROVE  Job!Count(k, a, b) = Cardinality(Job!Having(k[1], k[2], a[k[2]], b[k[2]]))
  BY JobCardinality DEF Job!Count

\* What is counted is a finite set of offsets.
LEMMA HavingFinite ==
    ASSUME NEW o, NEW t, NEW a \in Nat, NEW b \in Nat
    PROVE  IsFiniteSet(Job!Having(o, t, a, b)) /\ Cardinality(Job!Having(o, t, a, b)) \in Nat
<1>1. IsFiniteSet(a + 1 .. b)
  BY FS_Interval
<1>2. Job!Having(o, t, a, b) \in SUBSET (a + 1 .. b)
  BY DEF Job!Having
<1> QED BY <1>1, <1>2, FS_Subset, FS_CardinalityType

\* The counts of two pieces of a topic that follow each other add up.
LEMMA HavingSplits ==
    ASSUME NEW o, NEW t, NEW a \in Nat, NEW b \in Nat, a <= b
    PROVE  Cardinality(Job!Having(o, t, 0, b))
             = Cardinality(Job!Having(o, t, 0, a)) + Cardinality(Job!Having(o, t, a, b))
<1> DEFINE A == Job!Having(o, t, 0, a)
           B == Job!Having(o, t, a, b)
<1>1. Job!Having(o, t, 0, b) = A \cup B
  BY DEF Job!Having
<1>2. A \cap B = {}
  BY DEF Job!Having
<1>3. IsFiniteSet(A) /\ IsFiniteSet(B)
  BY HavingFinite
<1>4. Cardinality(A) \in Nat /\ Cardinality(B) \in Nat
  BY HavingFinite
<1>5. Cardinality(A \cup B) = Cardinality(A) + Cardinality(B) - Cardinality(A \cap B)
  BY <1>3, FS_Union
<1>6. Cardinality({}) = 0
  BY FS_EmptySet
<1> HIDE DEF A, B
<1>7. Cardinality(A \cup B) = Cardinality(A) + Cardinality(B)
  BY <1>2, <1>4, <1>5, <1>6
<1> QED BY <1>1, <1>7 DEF A, B

LEMMA CountType ==
    ASSUME NEW k \in Job!Rows, NEW a \in [Subscribed -> Nat],
           NEW b \in [Subscribed -> Nat]
    PROVE  Job!Count(k, a, b) \in Nat
  BY CountIs, HavingFinite DEF Job!Rows

LEMMA CountSplits ==
    ASSUME NEW k \in Job!Keys, NEW a \in [Subscribed -> Nat],
           NEW b \in [Subscribed -> Nat],
           \A t \in Subscribed : a[t] <= b[t]
    PROVE  Job!Count(k, Job!Start, b) = Job!Count(k, Job!Start, a) + Job!Count(k, a, b)
<1>1. k[2] \in Subscribed
  BY DEF Job!Keys
<1>2. a[k[2]] \in Nat /\ b[k[2]] \in Nat /\ a[k[2]] <= b[k[2]]
  BY <1>1
<1>3. Job!Start[k[2]] = 0
  BY <1>1 DEF Job!Start
<1> QED BY <1>2, <1>3, CountIs, HavingSplits

\* Events that are published behind b change no count up to b.
LEMMA CountStable ==
    ASSUME Job!TypeOK, NEW k \in Job!Rows, NEW a \in [Subscribed -> Nat],
           NEW b \in [Subscribed -> Nat],
           \A t \in Subscribed : b[t] <= Len(log[t]),
           NEW t \in Subscribed, NEW e \in Job!Event, Job!Publish(t, e)
    PROVE  Job!Count(k, a, b)' = Job!Count(k, a, b)
<1> DEFINE u == k[2]
<1>1. u \in Subscribed
  BY DEF Job!Rows
<1>2. log[u] \in Seq(Job!Event) /\ log'[u] \in Seq(Job!Event)
  BY <1>1 DEF Job!TypeOK, Job!Publish
<1>3. \A i \in 1 .. Len(log[u]) : log'[u][i] = log[u][i]
  BY <1>1, <1>2 DEF Job!TypeOK, Job!Publish
<1>4. a[u] \in Nat /\ b[u] \in Nat /\ b[u] <= Len(log[u])
  BY <1>1
<1>5. a[u] + 1 .. b[u] \subseteq 1 .. Len(log[u])
  BY <1>2, <1>4
<1>6. Job!Having(k[1], u, a[u], b[u])' = Job!Having(k[1], u, a[u], b[u])
  BY <1>3, <1>5 DEF Job!Having
<1> QED BY <1>6 DEF Job!Count

-----------------------------------------------------------------------------
LEMMA JobInitIInv == Job!Init => Job!IInv
<1> SUFFICES ASSUME Job!Init PROVE Job!IInv
  OBVIOUS
<1>1. Job!TypeOK
  <2>1. <<>> \in Seq(Job!Event)
    OBVIOUS
  <2>2. log \in [Subscribed -> Seq(Job!Event)]
    BY <2>1 DEF Job!Init
  <2> QED BY <2>2 DEF Job!Init, Job!TypeOK, Job!NoRows
<1>2. Job!BatchInv
  BY DEF Job!Init, Job!BatchInv
<1>3. Job!StageInv
  BY DEF Job!Init, Job!StageInv
<1>4. Job!CountInv
  <2> SUFFICES ASSUME NEW k \in Job!Keys PROVE Job!Count(k, Job!Start,
                      from) = 0 /\ daily[k] = 0
    BY DEF Job!Init, Job!CountInv, Job!CountedTo
  <2>1. Job!Having(k[1], k[2], Job!Start[k[2]], from[k[2]]) = {}
    BY DEF Job!Init, Job!Start, Job!Having, Job!Keys
  <2>2. Job!Count(k, Job!Start, from) = 0
    BY <2>1, CountIs, FS_EmptySet
  <2> QED BY <2>2 DEF Job!Init
<1> QED BY <1>1, <1>2, <1>3, <1>4 DEF Job!IInv

\* A new event lies behind the batch.
LEMMA JobPublishIInv ==
    ASSUME Job!IInv, NEW t \in Subscribed, NEW e \in Job!Event, Job!Publish(t, e)
    PROVE  Job!IInv'
<1> USE DEF Job!IInv
<1>1. Job!TypeOK'
  BY DEF Job!TypeOK, Job!Publish, Job!jobVars
<1>2. \A u \in Subscribed : Len(log[u]) \in Nat /\ Len(log[u]) <= Len(log'[u])
  <2> TAKE u \in Subscribed
  <2>1. log[u] \in Seq(Job!Event)
    BY DEF Job!TypeOK
  <2>2. log'[u] = log[u] \/ log'[u] = Append(log[u], e)
    BY DEF Job!TypeOK, Job!Publish
  <2> QED BY <2>1, <2>2
<1>3. Job!BatchInv'
  BY <1>1, <1>2 DEF Job!BatchInv, Job!Publish, Job!jobVars, Job!TypeOK
<1>4. \A u \in Subscribed : from[u] <= Len(log[u]) /\ upTo[u] <= Len(log[u])
  BY <1>2 DEF Job!BatchInv, Job!TypeOK
<1>5. /\ from \in [Subscribed -> Nat] /\ upTo \in [Subscribed -> Nat]
      /\ Job!Start \in [Subscribed -> Nat]
  BY DEF Job!TypeOK, Job!Start
<1>6. Job!StageInv'
  <2>1. \A k \in Job!Rows : Job!Count(k, from, upTo)' = Job!Count(k, from, upTo)
    BY <1>4, <1>5, CountStable DEF Job!Publish, Job!jobVars
  <2> QED BY <2>1 DEF Job!StageInv, Job!FunnelStats, Job!Publish, Job!jobVars
<1>7. Job!CountInv'
  <2>1. \A k \in Job!Keys : k \in Job!Rows
    BY DEF Job!Keys, Job!Rows
  <2>2. /\ Job!CountedTo \in [Subscribed -> Nat]
        /\ \A u \in Subscribed : Job!CountedTo[u] <= Len(log[u])
    BY <1>4, <1>5 DEF Job!CountedTo
  <2>3. Job!CountedTo' = Job!CountedTo /\ Job!Start' = Job!Start
    BY DEF Job!CountedTo, Job!Publish, Job!jobVars, Job!Start
  <2>4. \A k \in Job!Keys :
            Job!Count(k, Job!Start, Job!CountedTo)' = Job!Count(k, Job!Start, Job!CountedTo)
    BY <1>5, <2>1, <2>2, <2>3, CountStable
  <2> QED BY <2>4 DEF Job!CountInv, Job!Publish, Job!jobVars
<1> QED BY <1>1, <1>3, <1>6, <1>7

\* A step of the driver or of its cluster leaves the topics alone; if it leaves
\* the checkpoint alone as well, no count changes.
LEMMA SameBatch ==
    ASSUME UNCHANGED <<log, Job!checkpoint>>
    PROVE  /\ Job!FunnelStats' = Job!FunnelStats
           /\ \A k : Job!Count(k, Job!Start, from)' = Job!Count(k, Job!Start, from)
           /\ \A k : Job!Count(k, Job!Start, upTo)' = Job!Count(k, Job!Start, upTo)
  BY DEF Job!checkpoint, Job!FunnelStats, Job!Count, Job!Having, Job!Start

\* The table is ahead of the checkpoint by the batch, and only between the
\* upsert and the checkpoint.
LEMMA CountsOfBatch ==
    ASSUME Job!IInv, NEW k \in Job!Keys
    PROVE  /\ Job!Count(k, Job!Start, from) \in Nat /\ Job!FunnelStats[k] \in Nat
           /\ Job!Count(k, Job!Start, upTo) = Job!Count(k, Job!Start, from) + Job!FunnelStats[k]
<1>1. k \in Job!Rows
  BY DEF Job!Keys, Job!Rows
<1>2. /\ from \in [Subscribed -> Nat] /\ upTo \in [Subscribed -> Nat]
      /\ Job!Start \in [Subscribed -> Nat]
  BY DEF Job!IInv, Job!TypeOK, Job!Start
<1>3. \A t \in Subscribed : from[t] <= upTo[t]
  BY DEF Job!IInv, Job!BatchInv
<1> QED BY <1>1, <1>2, <1>3, CountType, CountSplits DEF Job!FunnelStats

LEMMA StatsType == Job!IInv => Job!FunnelStats \in [Job!Rows -> Nat]
<1> SUFFICES ASSUME Job!IInv PROVE Job!FunnelStats \in [Job!Rows -> Nat]
  OBVIOUS
<1>1. from \in [Subscribed -> Nat] /\ upTo \in [Subscribed -> Nat]
  BY DEF Job!IInv, Job!TypeOK
<1> QED BY <1>1, CountType DEF Job!FunnelStats

\* Every step of the job preserves the invariant.
LEMMA JobIInv ==
    ASSUME Job!IInv, Job!JobStep \/ Job!Crash
    PROVE  Job!IInv'
<1> USE DEF Job!IInv
<1> DEFINE Counted(k) == Job!Count(k, Job!Start, from)
           Planned(k) == Job!Count(k, Job!Start, upTo)
<1>1. \A k \in Job!Keys : /\ Counted(k) \in Nat /\ Job!FunnelStats[k] \in Nat
                       /\ Planned(k) = Counted(k) + Job!FunnelStats[k]
  BY CountsOfBatch
<1>2. /\ daily \in [Job!Keys -> Nat] /\ staging \in [Job!Rows -> Nat]
      /\ Job!Keys \subseteq Job!Rows
  BY DEF Job!TypeOK, Job!Keys, Job!Rows
<1>3. Job!FunnelStats = Job!NoRows => \A k \in Job!Keys : Job!FunnelStats[k] = 0
  BY <1>2 DEF Job!NoRows
<1>4. \A t \in Subscribed : Len(log[t]) \in Nat /\ from[t] \in Nat /\ upTo[t] \in Nat
  BY DEF Job!TypeOK
<1>5. CASE Job!Plan
  <2>1. Job!TypeOK'
    BY <1>4, <1>5 DEF Job!Plan, Job!TypeOK
  <2>2. Job!BatchInv'
    BY <1>4, <1>5 DEF Job!Plan, Job!BatchInv, Job!TypeOK
  <2>3. Job!StageInv'
    BY <1>5 DEF Job!Plan, Job!StageInv
  <2>4. \A k \in Job!Keys : Counted(k)' = Counted(k)
    BY <1>5 DEF Job!Plan, Job!Count, Job!Having, Job!Start
  <2>5. Job!CountInv'
    BY <1>5, <2>4 DEF Job!Plan, Job!CountInv, Job!CountedTo
  <2> QED BY <2>1, <2>2, <2>3, <2>5
<1>6. CASE Job!Commit
  <2>1. Job!TypeOK'
    BY <1>6 DEF Job!Commit, Job!TypeOK
  <2>2. Job!BatchInv'
    BY <1>4, <1>6 DEF Job!Commit, Job!BatchInv
  <2>3. Job!StageInv'
    BY <1>6 DEF Job!Commit, Job!StageInv
  <2>4. \A k \in Job!Keys : Counted(k)' = Planned(k)
    BY <1>6 DEF Job!Commit, Job!Count, Job!Having, Job!Start
  <2>5. Job!CountInv'
    BY <1>6, <2>4 DEF Job!Commit, Job!CountInv, Job!CountedTo
  <2> QED BY <2>1, <2>2, <2>3, <2>5
<1>7. ASSUME UNCHANGED <<log, Job!checkpoint>>,
             Job!NothingToCount \/ Job!WriteStaging \/ Job!Upsert \/ Job!UpsertRejected
               \/ Job!DropStaging \/ Job!Restart \/ Job!Crash
      PROVE  Job!IInv'
  <2>1. /\ Job!FunnelStats' = Job!FunnelStats
        /\ \A k : Counted(k)' = Counted(k) /\ Planned(k)' = Planned(k)
    BY <1>7, SameBatch
  <2>2. Job!TypeOK'
    <3>1. /\ log' \in [Subscribed -> Seq(Job!Event)] /\ from' \in [Subscribed -> Nat]
          /\ upTo' \in [Subscribed -> Nat]
      BY <1>7 DEF Job!TypeOK, Job!checkpoint
    <3>2. Job!FunnelStats \in [Job!Rows -> Nat] /\ Job!NoRows \in [Job!Rows -> Nat]
      BY StatsType DEF Job!NoRows
    <3>3. CASE Job!NothingToCount
      BY <3>1, <3>3 DEF Job!NothingToCount, Job!TypeOK
    <3>4. CASE Job!WriteStaging
      BY <3>1, <3>2, <3>4 DEF Job!WriteStaging, Job!TypeOK
    <3>5. CASE Job!Upsert
      <4>1. daily' \in [Job!Keys -> Nat]
        BY <1>2, <3>5 DEF Job!Upsert
      <4> QED BY <3>1, <3>5, <4>1 DEF Job!Upsert, Job!TypeOK
    <3>6. CASE Job!UpsertRejected \/ Job!Restart
      BY <3>1, <3>6 DEF Job!UpsertRejected, Job!Restart, Job!TypeOK
    <3>7. CASE Job!DropStaging
      BY <3>1, <3>2, <3>7 DEF Job!DropStaging, Job!TypeOK
    <3>8. CASE Job!Crash
      <4>1. recounted' \in BOOLEAN
        BY <3>8, Zenon DEF Job!Crash, Job!TypeOK
      <4>2. crashes' \in Nat
        BY <3>8 DEF Job!Crash, Job!TypeOK
      <4> QED BY <3>1, <3>8, <4>1, <4>2 DEF Job!Crash, Job!TypeOK
    <3> QED BY <1>7, <3>3, <3>4, <3>5, <3>6, <3>7, <3>8
  <2>3. Job!BatchInv'
    BY <1>7 DEF Job!BatchInv, Job!checkpoint
  <2>4. Job!StageInv'
    BY <1>7, <2>1
    DEF Job!StageInv, Job!NothingToCount, Job!WriteStaging, Job!Upsert,
        Job!UpsertRejected,
        Job!DropStaging, Job!Restart, Job!Crash
  <2>5. Job!CountInv'
    <3> SUFFICES ASSUME NEW k \in Job!Keys
                 PROVE  /\ Job!Count(k, Job!Start, Job!CountedTo)' <= daily'[k]
                        /\ ~ recounted' => daily'[k] <= Job!Count(k, Job!Start, Job!CountedTo)'
      BY DEF Job!CountInv
    <3> DEFINE Done == job \in {"upserted", "processed"}
    <3>1. Job!Count(k, Job!Start, Job!CountedTo) = IF Done THEN Planned(k) ELSE Counted(k)
      BY DEF Job!CountedTo
    <3>2. Job!Count(k, Job!Start, Job!CountedTo)' = IF Done' THEN Planned(k) ELSE Counted(k)
      BY <2>1 DEF Job!CountedTo
    <3>3. /\ Job!Count(k, Job!Start, Job!CountedTo) <= daily[k]
          /\ ~ recounted => daily[k] <= Job!Count(k, Job!Start, Job!CountedTo)
      BY DEF Job!CountInv
    <3>4. /\ Counted(k) \in Nat /\ Job!FunnelStats[k] \in Nat /\ daily[k] \in Nat
          /\ Planned(k) = Counted(k) + Job!FunnelStats[k]
          /\ Job!FunnelStats = Job!NoRows => Job!FunnelStats[k] = 0
      BY <1>1, <1>2, <1>3
    <3> HIDE DEF Planned, Counted
    <3>5. CASE Job!NothingToCount
      BY <3>1, <3>2, <3>3, <3>4, <3>5 DEF Job!NothingToCount
    <3>6. CASE Job!WriteStaging \/ Job!UpsertRejected \/ Job!DropStaging \/ Job!Restart
      BY <3>1, <3>2, <3>3, <3>6
      DEF Job!WriteStaging, Job!UpsertRejected, Job!DropStaging, Job!Restart
    <3>7. CASE Job!Upsert
      <4>1. daily'[k] = daily[k] + Job!FunnelStats[k]
        BY <3>7 DEF Job!Upsert, Job!StageInv
      <4> QED BY <3>1, <3>2, <3>3, <3>4, <3>7, <4>1 DEF Job!Upsert
    <3>8. CASE Job!Crash
      BY <3>1, <3>2, <3>3, <3>4, <3>8 DEF Job!Crash
    <3> QED BY <1>7, <3>5, <3>6, <3>7, <3>8
  <2> QED BY <2>2, <2>3, <2>4, <2>5
<1> QED
  BY <1>5, <1>6, <1>7
  DEF Job!JobStep, Job!checkpoint, Job!NothingToCount, Job!WriteStaging, Job!Upsert,
      Job!UpsertRejected,
      Job!DropStaging, Job!Restart, Job!Crash

LEMMA JobStepIInv == Job!IInv /\ [Job!Next]_(Job!vars) => Job!IInv'
<1> SUFFICES ASSUME Job!IInv, [Job!Next]_(Job!vars) PROVE Job!IInv'
  OBVIOUS
<1>1. CASE UNCHANGED Job!vars
  <2>1. /\ UNCHANGED <<log, Job!checkpoint>>
        /\ UNCHANGED <<job, staging, daily, crashes, recounted>>
    BY <1>1 DEF Job!vars, Job!jobVars, Job!checkpoint
  <2>2. /\ Job!FunnelStats' = Job!FunnelStats
        /\ \A k : Job!Count(k, Job!Start, from)' = Job!Count(k, Job!Start, from)
        /\ \A k : Job!Count(k, Job!Start, upTo)' = Job!Count(k, Job!Start, upTo)
    BY <2>1, SameBatch
  <2>3. Job!TypeOK' /\ Job!BatchInv' /\ Job!StageInv'
    BY <2>1, <2>2 DEF Job!checkpoint, Job!IInv, Job!TypeOK, Job!BatchInv, Job!StageInv
  <2>4. Job!CountInv'
    BY <2>1, <2>2 DEF Job!IInv, Job!CountInv, Job!CountedTo
  <2> QED BY <2>3, <2>4 DEF Job!IInv
<1> QED BY <1>1, JobPublishIInv, JobIInv DEF Job!Next

-----------------------------------------------------------------------------
\* The type invariant of the job.
THEOREM JobTypeCorrect == Job!Spec => []Job!TypeOK
  BY JobInitIInv, JobStepIInv, PTL DEF Job!Spec, Job!IInv

\* Wherever drivers die and come back, what is checkpointed has been counted;
\* as long as none died between an upsert and its checkpoint, nothing has been
\* counted twice or before it was planned.
THEOREM JobCountsCorrect == Job!Spec => []Job!CountsAreFaithful
<1>1. Job!IInv => Job!CountsAreFaithful
  <2> SUFFICES ASSUME Job!IInv, NEW k \in Job!Keys
               PROVE  /\ Job!Count(k, Job!Start, from) <= daily[k]
                      /\ ~ recounted => daily[k] <= Job!Count(k, Job!Start, upTo)
    BY DEF Job!CountsAreFaithful
  <2>1. /\ Job!Count(k, Job!Start, from) \in Nat /\ Job!FunnelStats[k] \in Nat
        /\ Job!Count(k, Job!Start, upTo) = Job!Count(k, Job!Start, from) + Job!FunnelStats[k]
    BY CountsOfBatch
  <2>2. daily[k] \in Nat
    BY DEF Job!IInv, Job!TypeOK
  <2> QED BY <2>1, <2>2 DEF Job!IInv, Job!CountInv, Job!CountedTo
<1> QED BY <1>1, JobInitIInv, JobStepIInv, PTL DEF Job!Spec

-----------------------------------------------------------------------------
(* The flow.                                                               *)

\* Every step of the flow is one of the job's, or of a producer on a topic it
\* subscribes to, or leaves the job and its topics alone.
LEMMA StepOfJob == [Next]_vars => [Job!Next]_(Job!vars)
<1> SUFFICES ASSUME [Next]_vars PROVE Job!Next \/ UNCHANGED <<log, jobVars>>
  BY DEF jobVars, Job!vars, Job!jobVars
<1>1. PageViewed \in Subscribed /\ Conversion \in Subscribed
  BY DEF Subscribed
<1>2. CASE ViewPage
  <2>1. \A o \in Offers : LandingView(o) \in Job!Event
    BY DEF LandingView, Job!Event
  <2>2. StorefrontView \in Job!Event /\ IngestView \in Job!Event
    BY DEF StorefrontView, IngestView, Job!Event
  <2>3. PICK e \in Job!Event : Job!Publish(PageViewed, e)
    BY <1>2, <2>1, <2>2 DEF ViewPage
  <2> QED BY <1>1, <2>3 DEF Job!Next
<1>3. ASSUME NEW c \in Conversions,
             Post(c) \/ EmitConversion(c) \/ EmitConversionFails(c) \/ AnswerVendor(c)
      PROVE  Job!Next \/ UNCHANGED <<log, jobVars>>
  <2>1. ConversionEvent \in Job!Event
    BY DEF ConversionEvent, Job!Event
  <2>2. Append2Log(c) => Job!Next
    BY <1>1, <2>1 DEF Append2Log, Job!Next
  <2> QED BY <1>3, <2>2 DEF Post, EmitConversion, EmitConversionFails, AnswerVendor
<1>4. ASSUME NEW m \in Members, LoopStep(m) \/ OtherGroupStep(m) \/ ConsumerCrashes(m)
      PROVE  UNCHANGED <<log, jobVars>>
  BY <1>4
  DEF LoopStep, Continue, Attribute, HandleConversion, OtherGroupStep, ConsumerCrashes
<1>5. CASE RestartWebhook \/ GroupRecovers \/ UNCHANGED vars
  BY <1>5 DEF RestartWebhook, GroupRecovers, vars
<1>6. CASE JobStep \/ JobCrashes
  BY <1>6 DEF JobStep, JobCrashes, Job!Next
<1> QED BY <1>2, <1>3, <1>4, <1>5, <1>6 DEF Next

\* The services use the job's topics the way FunnelJob lets producers use them.
THEOREM UsesJob == Spec => Job!Spec
<1>1. Init => Job!Init
  BY DEF Init
<1> QED BY <1>1, StepOfJob, PTL DEF Spec, Job!Spec

\* On what these services emit, too, what is checkpointed has been counted, and
\* nothing twice as long as no driver died between an upsert and its checkpoint.
THEOREM CountsCorrect == Spec => []CountsAreFaithful
  BY UsesJob, JobCountsCorrect, PTL DEF CountsAreFaithful

-----------------------------------------------------------------------------
(* The group of attribution-service.                                       *)

\* Every step of the flow is one of the consumer group's, or of the topic it
\* reads, or leaves them alone.
LEMMA StepOfGroup == [Next]_vars => [Group!Next]_(Group!vars)
<1> SUFFICES ASSUME [Next]_vars PROVE Group!Next \/ UNCHANGED groupVars
  BY DEF groupVars, Group!vars
<1>1. CASE ViewPage \/ RestartWebhook \/ JobStep \/ JobCrashes \/ UNCHANGED vars
  BY <1>1 DEF ViewPage, RestartWebhook, JobStep, JobCrashes, vars
<1>2. ASSUME NEW c \in Conversions,
             Post(c) \/ EmitConversion(c) \/ EmitConversionFails(c) \/ AnswerVendor(c)
      PROVE  Group!Next \/ UNCHANGED groupVars
  <2>1. Append2Log(c) => Group!Next
    BY DEF Append2Log, Group!Next
  <2> QED BY <1>2, <2>1 DEF Post, EmitConversion, EmitConversionFails, AnswerVendor
<1>3. ASSUME NEW m \in Members, LoopStep(m)
      PROVE  Group!Next \/ UNCHANGED groupVars
  BY <1>3 DEF LoopStep, Continue, Attribute, HandleConversion, Group!Next, Group!LoopStep,
              Group!GroupStep
<1>4. ASSUME NEW m \in Members, OtherGroupStep(m) \/ ConsumerCrashes(m)
      PROVE  Group!Next
  BY <1>4 DEF OtherGroupStep, ConsumerCrashes, Group!Next, Group!GroupStep
<1>5. CASE GroupRecovers
  BY <1>5 DEF GroupRecovers, Group!Next, Group!GroupStep
<1> QED BY <1>1, <1>2, <1>3, <1>4, <1>5 DEF Next

\* attribution-service is a consumer group as DlqConsumer describes it.
THEOREM UsesGroup == Spec => Group!Spec
<1>1. Init => Group!Init
  BY DEF Init
<1> QED BY <1>1, StepOfGroup, PTL DEF Spec, Group!Spec

-----------------------------------------------------------------------------
(* From the vendor's notification to the attribution.                      *)

LEMMA InitIInv == Init => IInv
<1> SUFFICES ASSUME Init PROVE IInv
  OBVIOUS
<1>1. Group!IInv
  BY BoundsAssumption, GroupAssumption, Group!InitIInv DEF Init
<1>2. TopicInv
  BY DEF Init, Group!Init, TopicInv
<1>3. AttributionInv
  BY DEF Init, Group!Init, AttributionInv, Group!Settled, Group!DeadLettered
<1> QED BY <1>1, <1>2, <1>3 DEF IInv

\* The webhook's steps leave the group's loops and what it has settled alone.
LEMMA WebhookIInv ==
  ASSUME IInv, NEW c \in Conversions,
         Post(c) \/ EmitConversion(c) \/ EmitConversionFails(c) \/ AnswerVendor(c)
  PROVE  TopicInv' /\ AttributionInv'
<1> USE DEF IInv
<1>1. UNCHANGED <<loop, handled, dead, dropped, attributionVars>>
  BY DEF Post, EmitConversion, EmitConversionFails, AnswerVendor, Append2Log,
         Group!Publish, Group!outcome, groupVars
<1>2. AttributionInv'
  BY <1>1 DEF AttributionInv, Group!Settled, Group!DeadLettered, attributionVars
<1>3. published[Conversion] \in Nat /\ Conversion \in {Conversion}
  BY BoundsAssumption DEF Group!IInv, Group!TypeOK
<1>4. ASSUME Append2Log(c)
      PROVE  /\ about' \in Seq(Conversions)
             /\ Len(about') = published'[Conversion]
             /\ \A i \in DOMAIN about : i \in DOMAIN about' /\ about'[i] = about[i]
             /\ \E i \in DOMAIN about' : about'[i] = c
  <2>1. about' = Append(about, c)
    BY <1>4 DEF Append2Log
  <2>2. published'[Conversion] = published[Conversion] + 1
    BY <1>3, <1>4 DEF Append2Log, Group!Publish, Group!IInv, Group!TypeOK
  <2>3. about \in Seq(Conversions) /\ Len(about) = published[Conversion]
    BY DEF TopicInv
  <2>4. Len(about) + 1 \in DOMAIN about' /\ about'[Len(about) + 1] = c
    BY <2>1, <2>3
  <2> QED BY <2>1, <2>2, <2>3, <2>4
<1>5. /\ about' \in Seq(Conversions)
      /\ Len(about') = published'[Conversion]
      /\ \A i \in DOMAIN about : i \in DOMAIN about' /\ about'[i] = about[i]
  <2>1. CASE Append2Log(c)
    BY <1>4, <2>1
  <2>2. CASE UNCHANGED <<about, published>>
    BY <2>2 DEF TopicInv
  <2> QED
    BY <2>1, <2>2 DEF Post, EmitConversion, EmitConversionFails, AnswerVendor, groupVars
<1>6. \A d \in Conversions : (\E i \in DOMAIN about : about[i] = d)
                               => \E i \in DOMAIN about' : about'[i] = d
  BY <1>5
<1>7. PICK state \in {"due", "emitting", "sent", "acknowledged", "forgotten"} :
        /\ notice' = [notice EXCEPT ![c] = state]
        /\ state \in {"sent", "acknowledged"} =>
             notice[c] = "sent" \/ Append2Log(c)
  BY DEF Post, EmitConversion, EmitConversionFails, AnswerVendor, Step
<1>8. notice' \in [Conversions -> {"due", "emitting", "sent", "acknowledged", "forgotten"}]
  BY <1>7 DEF TopicInv
<1>9. ASSUME NEW d \in Conversions, notice'[d] \in {"sent", "acknowledged"}
      PROVE  \E i \in DOMAIN about' : about'[i] = d
  <2>1. CASE d = c
    BY <1>4, <1>6, <1>7, <1>9, <2>1 DEF TopicInv
  <2>2. CASE d # c
    BY <1>6, <1>7, <1>9, <2>2 DEF TopicInv
  <2> QED BY <2>1, <2>2
<1> QED BY <1>2, <1>5, <1>8, <1>9 DEF TopicInv

\* A replica that has emitted marks its message, and no other step settles one.
LEMMA LoopStepIInv ==
  ASSUME IInv, NEW m \in Members, LoopStep(m)
  PROVE  AttributionInv'
<1> USE DEF IInv
<1>1. loop \in [Members -> [{Conversion} -> Group!LoopState]]
  BY DEF Group!IInv, Group!TypeOK
<1>2. \A o : Group!Settled(<<Conversion, o>>) <=>
        \/ <<Conversion, o>> \in handled \/ <<Conversion, o>> \in dropped
        \/ \E origin \in {Conversion} : <<origin, <<Conversion, o>>>> \in dead
  BY DEF Group!Settled, Group!DeadLettered
<1>3. CASE Continue(m)
  <2>1. /\ UNCHANGED <<handled, dead, dropped, emitted, attributed, unattributed>>
        /\ loop[m][Conversion].phase = "idle"
        /\ \A n \in Members : n # m => loop'[n] = loop[n]
    BY <1>1, <1>3 DEF Continue, Group!Deliver, Group!NoticeEviction, Group!outcome,
                      attributionVars
  <2>2. m \notin emitted
    BY <2>1 DEF AttributionInv
  <2> QED
    BY <2>1, <2>2 DEF AttributionInv, Group!Settled, Group!DeadLettered
<1>4. CASE Attribute(m)
  <2> DEFINE msg == loop[m][Conversion].next
  <2>1. /\ loop[m][Conversion].phase = "handling"
        /\ emitted' = emitted \cup {m}
        /\ UNCHANGED <<loop, handled, dead, dropped>>
        /\ attributed \cup unattributed \subseteq attributed' \cup unattributed'
        /\ msg \in attributed' \cup unattributed'
    BY <1>4 DEF Attribute, groupVars
  <2> QED
    BY <2>1 DEF AttributionInv, Group!Settled, Group!DeadLettered
<1>5. CASE HandleConversion(m)
  <2> DEFINE msg == loop[m][Conversion].next
  <2>1. /\ m \in emitted /\ emitted' = emitted \ {m}
        /\ handled' = handled \cup {<<Conversion, msg>>}
        /\ UNCHANGED <<dead, dropped, attributed, unattributed>>
        /\ \A n \in Members : n # m => loop'[n] = loop[n]
    BY <1>1, <1>5 DEF HandleConversion, Group!HandlerSucceeds, Group!Current, Group!Mark
  <2>2. msg \in attributed \cup unattributed
    BY <2>1 DEF AttributionInv
  <2>3. ASSUME NEW n \in emitted'
        PROVE  n \in Members /\ loop'[n] = loop[n] /\ n \in emitted
    BY <2>1 DEF AttributionInv
  <2>4. ASSUME NEW o \in 0 .. MaxPosts - 1, Group!Settled(<<Conversion, o>>)'
        PROVE  o \in attributed \cup unattributed
    <3>1. Group!Settled(<<Conversion, o>>) \/ o = msg
      BY <2>1, <2>4 DEF Group!Settled, Group!DeadLettered
    <3> QED BY <2>2, <3>1 DEF AttributionInv
  <2> QED
    BY <2>1, <2>3, <2>4 DEF AttributionInv
<1> QED BY <1>3, <1>4, <1>5 DEF LoopStep

\* The group's other steps settle nothing, and end the session of a replica
\* that has emitted only if it dies.
LEMMA OtherGroupIInv ==
  ASSUME IInv,
         \/ \E m \in Members : OtherGroupStep(m) \/ ConsumerCrashes(m)
         \/ GroupRecovers
  PROVE  TopicInv' /\ AttributionInv'
<1> USE DEF IInv
<1>1. loop \in [Members -> [{Conversion} -> Group!LoopState]]
  BY DEF Group!IInv, Group!TypeOK
<1>2. /\ UNCHANGED <<published, about, notice, handled, dead, dropped>>
      /\ UNCHANGED <<attributed, unattributed>>
  BY DEF OtherGroupStep, ConsumerCrashes, GroupRecovers, Group!AutoCommit, Group!Rebalance,
         Group!Evict, Group!Crash, Group!Restart, Group!Assign, Group!outcome, Group!kafka,
         webhookVars, attributionVars
<1>3. ASSUME NEW m \in emitted'
      PROVE  m \in emitted /\ loop'[m] = loop[m]
  <2>1. ASSUME NEW n \in Members, ConsumerCrashes(n)
        PROVE  m \in emitted /\ loop'[m] = loop[m]
    BY <1>1, <1>3, <2>1 DEF ConsumerCrashes, Group!Crash, AttributionInv
  <2>2. ASSUME NEW n \in Members,
               \/ OtherGroupStep(n)
               \/ GroupRecovers
        PROVE  emitted' = emitted
    BY <2>2 DEF OtherGroupStep, GroupRecovers, attributionVars
  <2>3. ASSUME NEW n \in Members,
               \/ Group!AutoCommit(n, Conversion) \/ Group!Evict(n, Conversion)
               \/ Group!Restart(n)
        PROVE  loop' = loop
    BY <2>3 DEF Group!AutoCommit, Group!Evict, Group!Restart
  <2>4. ASSUME NEW n \in Members, m \in emitted,
               Group!Rebalance(n, Conversion) \/ Group!Assign(n, Conversion)
        PROVE  loop'[m] = loop[m]
    <3>1. m # n /\ m \in Members
      BY <1>1, <2>4 DEF Group!Rebalance, Group!Assign, Group!Stopped, AttributionInv
    <3> QED BY <1>1, <2>4, <3>1 DEF Group!Rebalance, Group!Assign
  <2> QED
    BY <1>3, <2>1, <2>2, <2>3, <2>4 DEF OtherGroupStep, GroupRecovers
<1> QED
  BY <1>2, <1>3 DEF TopicInv, AttributionInv, Group!Settled, Group!DeadLettered

LEMMA StepIInv == IInv /\ [Next]_vars => IInv'
<1> SUFFICES ASSUME IInv, [Next]_vars PROVE IInv'
  OBVIOUS
<1>1. Group!IInv'
  BY BoundsAssumption, GroupAssumption, StepOfGroup, Group!StepIInv DEF IInv
<1>2. ASSUME NEW m \in Members, LoopStep(m)
      PROVE  TopicInv'
  BY <1>2 DEF LoopStep, Continue, Attribute, HandleConversion, Group!Deliver,
     Group!NoticeEviction, Group!HandlerSucceeds, Group!kafka, groupVars, webhookVars,
     IInv, TopicInv
<1>3. CASE RestartWebhook
  <2>1. AttributionInv'
    BY <1>3 DEF RestartWebhook, groupVars, attributionVars, IInv, AttributionInv,
                Group!Settled, Group!DeadLettered
  <2>2. TopicInv'
    BY <1>3 DEF RestartWebhook, groupVars, IInv, TopicInv
  <2> QED BY <1>1, <2>1, <2>2 DEF IInv
<1>4. CASE ViewPage \/ JobStep \/ JobCrashes \/ UNCHANGED vars
  <2>1. UNCHANGED <<groupVars, webhookVars, attributionVars>>
    BY <1>4 DEF ViewPage, JobStep, JobCrashes, vars
  <2> QED
    BY <1>1, <2>1 DEF groupVars, webhookVars, attributionVars, IInv, TopicInv,
                      AttributionInv, Group!Settled, Group!DeadLettered
<1> QED
  BY <1>1, <1>2, <1>3, <1>4, WebhookIInv, LoopStepIInv, OtherGroupIInv DEF Next, IInv

\* Whatever is posted twice, lost on the way back or handled again by another
\* replica: what the vendor was answered 200 for is on the topic, and the group
\* commits no message that it has not tried to attribute.
THEOREM NothingForgottenCorrect == Spec => []NothingForgotten
<1>1. IInv => NothingForgotten
  <2> SUFFICES ASSUME IInv, NEW i \in DOMAIN about, i <= committed[Conversion]
               PROVE  i - 1 \in attributed \cup unattributed
    BY DEF NothingForgotten, IInv, TopicInv
  <2>1. /\ i \in Nat \ {0}
        /\ committed[Conversion] \in 0 .. MaxPosts
    BY DEF IInv, TopicInv, Group!IInv, Group!TypeOK
  <2>2. i - 1 \in 0 .. committed[Conversion] - 1 /\ i - 1 \in 0 .. MaxPosts - 1
    BY <2>1, BoundsAssumption
  <2>3. Group!Settled(<<Conversion, i - 1>>)
    BY <2>2 DEF IInv, Group!IInv, Group!NothingSkipped
  <2> QED BY <2>2, <2>3 DEF IInv, AttributionInv
<1> QED BY <1>1, InitIInv, StepIInv, PTL DEF Spec
=============================================================================
