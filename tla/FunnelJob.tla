------------------------------ MODULE FunnelJob ------------------------------
(***************************************************************************)
(* infra/spark/jobs/funnel_analysis.py: a structured stream that adds the  *)
(* events of every micro-batch to the table analytics.funnel_daily.        *)
(*                                                                         *)
(* Spark writes a batch's end offsets into the checkpoint before it runs   *)
(* process_batch, and the fact that it is done after; a driver that comes  *)
(* back runs the batch in between again, over the same offsets.  Every     *)
(* statement of process_batch commits by itself.                           *)
(***************************************************************************)
EXTENDS Naturals, Sequences, FiniteSets, Functions

CONSTANTS Topics,       \* the topics the job subscribes to
          Offers,
          None,         \* the offer of an event that names none
          MaxEvents,    \* bound: events of all topics together
          MaxCrashes    \* bound: drivers that die, and failing statements

VARIABLES
    log,       \* the events of every topic, in Kafka
    job,       \* where process_batch is; "down": the driver has ended
    from,      \* checkpoint: the offsets of the batches that are done
    upTo,      \* checkpoint: the end offsets of the batch that was planned
    staging,   \* analytics.funnel_daily_stage
    daily,     \* analytics.funnel_daily: event_count by campaign_id, event_type
    crashes,   \* drivers that have died
    recounted  \* history: one of them died between the upsert and the checkpoint

checkpoint == <<from, upTo>>
jobVars == <<job, from, upTo, staging, daily, crashes, recounted>>
vars == <<log, jobVars>>

\* Of an event the job sees whether it has an event_id, and its offer_id.
Event == [id : BOOLEAN, offer : Offers \cup {None}]

Keys == Offers \X Topics
Rows == (Offers \cup {None}) \X Topics
NoRows == [k \in Rows |-> 0]

\* The offsets in (a[t], b[t]] of topic t whose events have an id and offer o.
Having(o, t, a, b) == {i \in a + 1 .. b : log[t][i].id /\ log[t][i].offer = o}
Count(k, a, b) == Cardinality(Having(k[1], k[2], a[k[2]], b[k[2]]))

\* filter(event_id is not null), groupBy(offer_id, event_type), count.
FunnelStats == [k \in Rows |-> Count(k, from, upTo)]

Init ==
    /\ log = [t \in Topics |-> <<>>]
    /\ job = "idle"
    /\ from = [t \in Topics |-> 0]
    /\ upTo = from
    /\ staging = NoRows
    /\ daily = [k \in Keys |-> 0]
    /\ crashes = 0
    /\ recounted = FALSE

\* Bound: the events of all topics.
Room == FoldFunction(LAMBDA l, n : Len(l) + n, 0, log) < MaxEvents

\* A producer appends an event.
Publish(t, e) ==
    /\ Room
    /\ log' = [log EXCEPT ![t] = Append(@, e)]
    /\ UNCHANGED jobVars

-----------------------------------------------------------------------------
(* The driver.                                                             *)

\* The trigger fires and there is something new.
Plan ==
    /\ job = "idle"
    /\ \E t \in Topics : from[t] < Len(log[t])
    /\ upTo' = [t \in Topics |-> Len(log[t])]
    /\ job' = "planned"
    /\ UNCHANGED <<log, from, staging, daily, crashes, recounted>>

\* Mutant of NothingToCount: a batch without rows raises.
NothingToCountRaises ==
    /\ job = "planned"
    /\ FunnelStats = NoRows
    /\ job' = "down"
    /\ UNCHANGED <<log, checkpoint, staging, daily, crashes, recounted>>

\* if funnel_stats.count() == 0: return
NothingToCount ==
    /\ job = "planned"
    /\ FunnelStats = NoRows
    /\ job' = "processed"
    /\ UNCHANGED <<log, checkpoint, staging, daily, crashes, recounted>>

\* mode="overwrite": what an earlier attempt left behind is gone.
WriteStaging ==
    /\ job = "planned"
    /\ FunnelStats # NoRows
    /\ staging' = FunnelStats
    /\ job' = "staged"
    /\ UNCHANGED <<log, checkpoint, daily, crashes, recounted>>

\* A row without a campaign_id violates the primary key.
Keyless(rows) == \E t \in Topics : rows[<<None, t>>] > 0

\* ON CONFLICT DO UPDATE: the counts are added.
Upsert ==
    /\ job = "staged"
    /\ ~ Keyless(staging)
    /\ daily' = [k \in Keys |-> daily[k] + staging[k]]
    /\ job' = "upserted"
    /\ UNCHANGED <<log, checkpoint, staging, crashes, recounted>>

\* The exception is raised again and ends the query and the driver.
UpsertRejected ==
    /\ job = "staged"
    /\ Keyless(staging)
    /\ job' = "down"
    /\ UNCHANGED <<log, checkpoint, staging, daily, crashes, recounted>>

DropStaging ==
    /\ job = "upserted"
    /\ staging' = NoRows
    /\ job' = "processed"
    /\ UNCHANGED <<log, checkpoint, daily, crashes, recounted>>

\* The batch is done.
Commit ==
    /\ job = "processed"
    /\ from' = upTo
    /\ job' = "idle"
    /\ UNCHANGED <<log, upTo, staging, daily, crashes, recounted>>

\* The driver dies within a batch: a statement raised, or Kubernetes or Airflow
\* ended it.  Between two batches its end changes nothing.
Crash ==
    /\ job \notin {"idle", "down"}
    /\ crashes < MaxCrashes
    /\ crashes' = crashes + 1
    /\ recounted' = IF job \in {"upserted", "processed"} /\ FunnelStats # NoRows
                    THEN TRUE ELSE recounted
    /\ job' = "down"
    /\ UNCHANGED <<log, checkpoint, staging, daily>>

\* Mutant of Restart: the batch that was planned is taken as done.
RestartBehind ==
    /\ job = "down"
    /\ from' = upTo
    /\ job' = "idle"
    /\ UNCHANGED <<log, upTo, staging, daily, crashes, recounted>>

\* A new driver takes up the batch that was planned.
Restart ==
    /\ job = "down"
    /\ job' = "planned"
    /\ UNCHANGED <<log, checkpoint, staging, daily, crashes, recounted>>

JobStep ==
    \/ Plan \/ NothingToCount \/ WriteStaging \/ Upsert \/ UpsertRejected
    \/ DropStaging \/ Commit \/ Restart

Next ==
    \/ \E t \in Topics, e \in Event : Publish(t, e)
    \/ JobStep
    \/ Crash

Spec == Init /\ [][Next]_vars

-----------------------------------------------------------------------------
(* Properties.                                                             *)

TypeOK ==
    /\ log \in [Topics -> Seq(Event)]
    /\ job \in {"idle", "planned", "staged", "upserted", "processed", "down"}
    /\ from \in [Topics -> Nat]
    /\ upTo \in [Topics -> Nat]
    /\ staging \in [Rows -> Nat]
    /\ daily \in [Keys -> Nat]
    /\ crashes \in Nat
    /\ recounted \in BOOLEAN

Start == [t \in Topics |-> 0]

\* Wherever drivers die and come back, what is checkpointed has been counted;
\* and as long as none died between an upsert and its checkpoint, nothing has
\* been counted twice or before it was planned.
CountsAreFaithful ==
    \A k \in Keys :
        /\ Count(k, Start, from) <= daily[k]
        /\ ~ recounted => daily[k] <= Count(k, Start, upTo)

\* funnel_analysis.py, on the stream: "(Exactly-Once)".  Between two batches
\* the table holds every event of the finished ones once.
CountedExactlyOnce ==
    job = "idle" => \A k \in Keys : daily[k] = Count(k, Start, from)

-----------------------------------------------------------------------------
(* The inductive invariant.                                                *)

\* The batch is a piece of the log.
BatchInv == \A t \in Topics : from[t] <= upTo[t] /\ upTo[t] <= Len(log[t])

\* The staging table holds the batch, and nothing of an earlier attempt.
StageInv == job = "staged" => staging = FunnelStats

\* Up to where the table has counted.
CountedTo == IF job \in {"upserted", "processed"} THEN upTo ELSE from

CountInv ==
    \A k \in Keys :
        /\ Count(k, Start, CountedTo) <= daily[k]
        /\ ~ recounted => daily[k] <= Count(k, Start, CountedTo)

IInv == TypeOK /\ BatchInv /\ StageInv /\ CountInv
=============================================================================
