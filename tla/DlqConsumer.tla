----------------------------- MODULE DlqConsumer -----------------------------
(***************************************************************************)
(* A consumer group of the shared event library: Consumer (plain) and      *)
(* DLQConsumer (its handler wrapped with retries and a dead-letter topic), *)
(* with the Kafka topics, the group's committed offsets and the rebalances *)
(* it lives with.  notification-service runs the wrapped kind, audit- and  *)
(* attribution-service the plain one.                                      *)
(*                                                                         *)
(* Each topic has one partition here; a message is its topic and offset.   *)
(* The group member that the coordinator has assigned a partition runs one *)
(* claim loop (ConsumeClaim) for it.  A member that was evicted may go on  *)
(* with its loop until it notices, beside the partition's next owner.      *)
(***************************************************************************)
EXTENDS Naturals, FiniteSets

CONSTANTS Members,       \* the replicas of the consuming service
          Topics,        \* the topics of the group
          Primary,       \* topics[0], the one the DLQ is named after
          MaxAttempts,   \* DLQOptions.MaxAttempts
          MaxMessages,   \* bound: messages published to a topic
          MaxTrouble,    \* bound: crashes, evictions and rebalances
          Nobody         \* not a member

ASSUME PrimaryAssumption == Primary \in Topics
ASSUME MaxAttemptsAssumption == MaxAttempts \in Nat \ {0}
ASSUME MaxMessagesAssumption == MaxMessages \in Nat
ASSUME MaxTroubleAssumption == MaxTrouble \in Nat
ASSUME NobodyAssumption == Nobody \notin Members

VARIABLES
    wrapped,     \* whether the group is a DLQConsumer
    faulty,      \* whether handlers and the DLQ may fail at random
    published,   \* messages of every topic: offsets 0 .. published - 1
    poison,      \* the messages no handler can process
    committed,   \* the group's committed offset of every topic
    assigned,    \* the member the coordinator has assigned every topic
    alive,       \* the members whose process runs
    hasDlq,      \* the members whose DLQ producer is not nil
    loop,        \* loop[m][t]: the claim loop of member m for topic t
    handled,     \* messages a handler has processed
    dead,        \* dead letters: <<DLQ topic's origin, message>>
    dropped,     \* messages given up without a dead letter
    trouble      \* crashes, evictions and rebalances so far

config == <<wrapped, faulty>>
kafka == <<published, poison, committed, assigned>>
members == <<alive, hasDlq>>
outcome == <<handled, dead, dropped>>
vars == <<wrapped, faulty, published, poison, committed, assigned, alive, hasDlq,
          loop, handled, dead, dropped, trouble>>

Messages == Topics \X (0 .. MaxMessages - 1)

\* A loop that is not running, and one that starts at offset o.
Stopped == [phase |-> "stopped", next |-> 0, marked |-> 0, attempt |-> 0]
StartAt(o) == [phase |-> "idle", next |-> o, marked |-> o, attempt |-> 0]

\* The message the loop of m for t is at.
Current(m, t) == <<t, loop[m][t].next>>

\* sess.MarkMessage, and on to the next message.
Mark(m, t) ==
    loop' = [loop EXCEPT ![m][t] = StartAt(@.next + 1)]

Init ==
    /\ wrapped \in BOOLEAN
    /\ faulty \in BOOLEAN
    /\ published = [t \in Topics |-> 0]
    /\ poison = {}
    /\ committed = [t \in Topics |-> 0]
    /\ assigned = [t \in Topics |-> Nobody]
    /\ alive = Members
    /\ hasDlq \in IF faulty /\ wrapped THEN SUBSET Members ELSE {Members}
    /\ loop = [m \in Members |-> [t \in Topics |-> Stopped]]
    /\ handled = {} /\ dead = {} /\ dropped = {}
    /\ trouble = 0

Publish(t, corrupt) ==
    /\ published[t] < MaxMessages
    /\ published' = [published EXCEPT ![t] = @ + 1]
    /\ poison' = IF corrupt THEN poison \cup {<<t, published[t]>>} ELSE poison
    /\ UNCHANGED <<config, committed, assigned, members, loop, outcome, trouble>>

-----------------------------------------------------------------------------
(* The claim loop: ConsumeClaim around the handler.                        *)

\* Mutant of Deliver: the message is marked before it is handled.
DeliverMarked(m, t) ==
    /\ loop[m][t].phase = "idle"
    /\ loop[m][t].next < published[t]
    /\ loop' = [loop EXCEPT ![m][t].phase = "handling", ![m][t].attempt = 1,
                            ![m][t].marked = @ + 1]
    /\ UNCHANGED <<config, kafka, members, outcome, trouble>>

Deliver(m, t) ==
    /\ loop[m][t].phase = "idle"
    /\ loop[m][t].next < published[t]
    /\ loop' = [loop EXCEPT ![m][t].phase = "handling", ![m][t].attempt = 1]
    /\ UNCHANGED <<config, kafka, members, outcome, trouble>>

HandlerSucceeds(m, t) ==
    /\ loop[m][t].phase = "handling"
    /\ Current(m, t) \notin poison
    /\ handled' = handled \cup {Current(m, t)}
    /\ Mark(m, t)
    /\ UNCHANGED <<config, kafka, members, dead, dropped, trouble>>

\* The handler returned an error: always for a poison message.
HandlerFails(m, t) ==
    /\ loop[m][t].phase = "handling"
    /\ faulty \/ Current(m, t) \in poison

\* Mutant of Retry: one attempt more than MaxAttempts.
RetryOnceMore(m, t) ==
    /\ HandlerFails(m, t)
    /\ wrapped
    /\ loop[m][t].attempt <= MaxAttempts
    /\ loop' = [loop EXCEPT ![m][t].attempt = @ + 1]
    /\ UNCHANGED <<config, kafka, members, outcome, trouble>>

\* The wrapped handler sleeps and tries again.
Retry(m, t) ==
    /\ HandlerFails(m, t)
    /\ wrapped
    /\ loop[m][t].attempt < MaxAttempts
    /\ loop' = [loop EXCEPT ![m][t].attempt = @ + 1]
    /\ UNCHANGED <<config, kafka, members, outcome, trouble>>

\* Mutant of GiveUp: the message is marked without a dead letter.
GiveUpSilently(m, t) ==
    /\ HandlerFails(m, t)
    /\ wrapped
    /\ loop[m][t].attempt = MaxAttempts
    /\ dropped' = dropped \cup {Current(m, t)}
    /\ Mark(m, t)
    /\ UNCHANGED <<config, kafka, members, handled, dead, trouble>>

GiveUp(m, t) ==
    /\ HandlerFails(m, t)
    /\ wrapped
    /\ loop[m][t].attempt = MaxAttempts
    /\ loop' = [loop EXCEPT ![m][t].phase = "dlq"]
    /\ UNCHANGED <<config, kafka, members, outcome, trouble>>

\* Mutant of PlainSkip: the message is not marked but delivered again.
PlainSkipAgain(m, t) ==
    /\ HandlerFails(m, t)
    /\ ~ wrapped
    /\ loop' = [loop EXCEPT ![m][t].phase = "idle", ![m][t].attempt = 0]
    /\ UNCHANGED <<config, kafka, members, outcome, trouble>>

\* The plain consumer logs the error and marks the message all the same.
PlainSkip(m, t) ==
    /\ HandlerFails(m, t)
    /\ ~ wrapped
    /\ dropped' = dropped \cup {Current(m, t)}
    /\ Mark(m, t)
    /\ UNCHANGED <<config, kafka, members, handled, dead, trouble>>

\* The DLQ is that of the group's first topic, whatever topic failed.
DeadLetter(m, t) ==
    /\ loop[m][t].phase = "dlq"
    /\ m \in hasDlq
    /\ dead' = dead \cup {<<Primary, Current(m, t)>>}
    /\ Mark(m, t)
    /\ UNCHANGED <<config, kafka, members, handled, dropped, trouble>>

\* No DLQ producer, or its Send failed: logged, and marked all the same.
DeadLetterLost(m, t) ==
    /\ loop[m][t].phase = "dlq"
    /\ m \notin hasDlq \/ faulty
    /\ dropped' = dropped \cup {Current(m, t)}
    /\ Mark(m, t)
    /\ UNCHANGED <<config, kafka, members, handled, dead, trouble>>

-----------------------------------------------------------------------------
(* The group, as sarama and the coordinator run it.                        *)

\* Mutant of Assign: Offsets.Initial is OffsetNewest.
AssignNewest(m, t) ==
    /\ m \in alive
    /\ assigned[t] = Nobody
    /\ loop[m][t] = Stopped
    /\ assigned' = [assigned EXCEPT ![t] = m]
    /\ loop' = [loop EXCEPT ![m][t] =
                  StartAt(IF committed[t] = 0 THEN published[t] ELSE committed[t])]
    /\ UNCHANGED <<config, published, poison, committed, members, outcome,
                   trouble>>

\* The loop starts at the committed offset, or with the oldest message.
Assign(m, t) ==
    /\ m \in alive
    /\ assigned[t] = Nobody
    /\ loop[m][t] = Stopped
    /\ assigned' = [assigned EXCEPT ![t] = m]
    /\ loop' = [loop EXCEPT ![m][t] = StartAt(committed[t])]
    /\ UNCHANGED <<config, published, poison, committed, members, outcome,
                   trouble>>

\* The periodic commit of the marked offset; only the owner's is accepted.
AutoCommit(m, t) ==
    /\ assigned[t] = m
    /\ loop[m][t].marked > committed[t]
    /\ committed' = [committed EXCEPT ![t] = loop[m][t].marked]
    /\ UNCHANGED <<config, published, poison, assigned, members, loop,
                   outcome, trouble>>

\* A rebalance: the loop ends between two messages and commits what it marked.
Rebalance(m, t) ==
    /\ trouble < MaxTrouble
    /\ assigned[t] = m
    /\ loop[m][t].phase = "idle"
    /\ trouble' = trouble + 1
    /\ committed' = [committed EXCEPT ![t] = loop[m][t].marked]
    /\ assigned' = [assigned EXCEPT ![t] = Nobody]
    /\ loop' = [loop EXCEPT ![m][t] = Stopped]
    /\ UNCHANGED <<config, published, poison, members, outcome>>

\* The coordinator gives up a member that stopped sending heartbeats.
Evict(m, t) ==
    /\ assigned[t] = m
    /\ assigned' = [assigned EXCEPT ![t] = Nobody]
    /\ IF m \in alive
       THEN trouble < MaxTrouble /\ trouble' = trouble + 1
       ELSE UNCHANGED trouble
    /\ UNCHANGED <<config, published, poison, committed, members, loop, outcome>>

\* An evicted member notices, between two messages; its marks are void.
NoticeEviction(m, t) ==
    /\ loop[m][t].phase = "idle"
    /\ assigned[t] # m
    /\ loop' = [loop EXCEPT ![m][t] = Stopped]
    /\ UNCHANGED <<config, kafka, members, outcome, trouble>>

\* A crash; also SIGTERM, upon which main returns without waiting for the loops.
Crash(m) ==
    /\ m \in alive
    /\ trouble < MaxTrouble
    /\ trouble' = trouble + 1
    /\ alive' = alive \ {m}
    /\ loop' = [loop EXCEPT ![m] = [t \in Topics |-> Stopped]]
    /\ UNCHANGED <<config, kafka, hasDlq, outcome>>

\* A replica that starts while Kafka is unreachable has no DLQ producer.
Restart(m) ==
    /\ m \notin alive
    /\ \A t \in Topics : assigned[t] # m
    /\ alive' = alive \cup {m}
    /\ hasDlq' \in IF faulty /\ wrapped THEN {hasDlq \cup {m}, hasDlq \ {m}} ELSE {hasDlq}
    /\ UNCHANGED <<config, kafka, loop, outcome, trouble>>

-----------------------------------------------------------------------------
LoopStep(m, t) ==
    \/ Deliver(m, t) \/ HandlerSucceeds(m, t) \/ Retry(m, t) \/ GiveUp(m, t)
    \/ PlainSkip(m, t) \/ DeadLetter(m, t) \/ DeadLetterLost(m, t)

GroupStep(m, t) ==
    \/ Assign(m, t) \/ AutoCommit(m, t) \/ Rebalance(m, t)
    \/ Evict(m, t) \/ NoticeEviction(m, t)

Next ==
    \/ \E t \in Topics, corrupt \in BOOLEAN : Publish(t, corrupt)
    \/ \E m \in Members, t \in Topics : LoopStep(m, t) \/ GroupStep(m, t)
    \/ \E m \in Members : Crash(m) \/ Restart(m)

\* Loops run, the periodic commit runs, the coordinator evicts the dead and
\* hands out what nobody owns, crashed pods are restarted.
Fairness ==
    /\ \A m \in Members, t \in Topics :
        /\ WF_vars(LoopStep(m, t))
        /\ WF_vars(AutoCommit(m, t))
        /\ WF_vars(Evict(m, t) /\ m \notin alive)
        /\ WF_vars(NoticeEviction(m, t))
    /\ \A t \in Topics : WF_vars(\E m \in Members : Assign(m, t))
    /\ \A m \in Members : WF_vars(Restart(m))

Spec == Init /\ [][Next]_vars
FairSpec == Spec /\ Fairness

-----------------------------------------------------------------------------
(* Properties.                                                             *)

LoopState == [phase : {"stopped", "idle", "handling", "dlq"},
              next : 0 .. MaxMessages, marked : 0 .. MaxMessages,
              attempt : 0 .. MaxAttempts]

TypeOK ==
    /\ wrapped \in BOOLEAN
    /\ faulty \in BOOLEAN
    /\ published \in [Topics -> 0 .. MaxMessages]
    /\ poison \in SUBSET Messages
    /\ committed \in [Topics -> 0 .. MaxMessages]
    /\ assigned \in [Topics -> Members \cup {Nobody}]
    /\ alive \in SUBSET Members
    /\ hasDlq \in SUBSET Members
    /\ loop \in [Members -> [Topics -> LoopState]]
    /\ handled \in SUBSET Messages
    /\ dead \in SUBSET (Topics \X Messages)
    /\ dropped \in SUBSET Messages
    /\ trouble \in 0 .. MaxTrouble

DeadLettered(msg) == \E origin \in Topics : <<origin, msg>> \in dead

Settled(msg) == msg \in handled \/ DeadLettered(msg) \/ msg \in dropped

\* The committed offset never passes a message that no replica has handled,
\* dead-lettered or given up, whoever crashed or was evicted meanwhile.
NothingSkipped ==
    \A t \in Topics : \A o \in 0 .. committed[t] - 1 : Settled(<<t, o>>)

\* A message is settled only after all earlier ones of its topic, even with
\* an evicted replica and its successor at work on the same partition.
SettledInOrder ==
    \A t \in Topics : \A o \in 0 .. MaxMessages - 1 :
        Settled(<<t, o>>) => \A i \in 0 .. o : Settled(<<t, i>>)

\* With healthy handlers, brokers and DLQ producers a DLQ group loses nothing
\* and dead-letters poison only: what is committed was handled unless it is
\* poison, and poison is in the dead-letter topic.
HealthyGroupLosesNothing ==
    ~ faulty /\ wrapped =>
        \A t \in Topics : \A o \in 0 .. committed[t] - 1 :
            IF <<t, o>> \in poison THEN DeadLettered(<<t, o>>)
            ELSE <<t, o>> \in handled /\ ~ DeadLettered(<<t, o>>)

SettledOf(t) == {o \in 0 .. MaxMessages - 1 : Settled(<<t, o>>)}

\* Given up by whoever had it: neither handled nor in a dead-letter topic.
Lost(msg) == msg \in dropped /\ msg \notin handled /\ ~ DeadLettered(msg)
LostOf(t) == {o \in 0 .. MaxMessages - 1 : Lost(<<t, o>>)}

\* The group implements the promise of at-least-once, in-order delivery: no
\* message blocks the ones behind it, and only a plain group, or one whose
\* handlers or DLQ fail at random, gives messages up.  For the plain group this
\* is ConsumeClaim, which marks what failed; dlq.go says that it gets stuck.
Delivery == INSTANCE DeliveryPromise WITH
    protected <- wrapped /\ ~ faulty,
    settled <- [t \in Topics |-> Cardinality(SettledOf(t))],
    lost <- [t \in Topics |-> LostOf(t)]

KeepsDeliveryPromise == Delivery!Spec

-----------------------------------------------------------------------------
(* The inductive invariant.                                                *)

\* What is settled has been published.
LogInv ==
    \A t \in Topics :
        /\ committed[t] <= published[t]
        /\ \A o \in 0 .. MaxMessages - 1 : Settled(<<t, o>>) => o < published[t]

\* A loop, that of an evicted replica included, is at a message all of whose
\* predecessors are settled, by itself or another; it has marked these.
LoopInv ==
    \A m \in Members, t \in Topics :
        /\ loop[m][t].marked = loop[m][t].next
        /\ loop[m][t].next <= published[t]
        /\ \A o \in 0 .. loop[m][t].next - 1 : Settled(<<t, o>>)
        /\ loop[m][t].phase \in {"handling", "dlq"} => loop[m][t].next < published[t]
        /\ loop[m][t].phase = "dlq" =>
            wrapped /\ (faulty \/ Current(m, t) \in poison)

\* The owner of a topic is never behind what is committed.
OwnerInv ==
    \A m \in Members, t \in Topics :
        assigned[t] = m /\ loop[m][t].phase # "stopped" => committed[t] <= loop[m][t].marked

\* Handlers process no poison; without random failures nothing else is
\* dead-lettered, and a DLQ group gives nothing up.
OutcomeInv ==
    /\ \A msg \in poison : msg \notin handled
    /\ ~ faulty => \A msg \in Messages : DeadLettered(msg) => msg \in poison
    /\ ~ faulty /\ wrapped => dropped = {} /\ hasDlq = Members

IInv == /\ TypeOK /\ NothingSkipped /\ SettledInOrder
        /\ LogInv /\ LoopInv /\ OwnerInv /\ OutcomeInv
=============================================================================
