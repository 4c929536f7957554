---------------------------- MODULE ConversionFlow ----------------------------
(***************************************************************************)
(* From a page view and a vendor's notification to the analytics: the      *)
(* pages of landing-service and storefront-service, the views a client     *)
(* posts to analytics-ingest-service, conversion-webhook,                  *)
(* attribution-service and the job that counts the funnel.  The group of   *)
(* attribution-service is DlqConsumer (the plain kind), the job FunnelJob, *)
(* as they are; both read what the services emit.                          *)
(***************************************************************************)
EXTENDS Naturals, Sequences, FiniteSets

CONSTANTS Conversions,   \* the vendor's notifications
          MaxPosts,      \* bound: posts of all notifications
          MaxViews,      \* bound: page views
          MaxEvents, MaxCrashes, Offers, None,
          Members, MaxAttempts, MaxTrouble, Nobody

ASSUME NoneAssumption == None \notin Offers
ASSUME BoundsAssumption ==
    /\ MaxPosts \in Nat /\ MaxViews \in Nat
    /\ MaxEvents \in Nat /\ MaxCrashes \in Nat
ASSUME GroupAssumption ==
    MaxAttempts \in Nat \ {0} /\ MaxTrouble \in Nat /\ Nobody \notin Members

PageViewed == "page.viewed"
Conversion == "conversion.completed"

VARIABLES log, job, from, upTo, staging, daily, crashes, recounted
VARIABLES wrapped, faulty, published, poison, committed, assigned, alive, hasDlq,
          loop, handled, dead, dropped, trouble
VARIABLES
    notice,       \* notice[c]: how far the vendor and the webhook are with c
    producer,     \* whether the webhook has a Kafka producer
    posts,        \* posts so far
    about,        \* the notification every event of Conversion is about
    emitted,      \* members that have emitted for the message they handle
    attributed,   \* messages with an event campaign.attributed
    unattributed  \* messages whose event could not be emitted so far

jobVars == <<job, from, upTo, staging, daily, crashes, recounted>>
groupVars == <<wrapped, faulty, published, poison, committed, assigned, alive,
               hasDlq, loop, handled, dead, dropped, trouble>>
webhookVars == <<notice, producer, posts, about>>
attributionVars == <<emitted, attributed, unattributed>>
vars == <<log, jobVars, groupVars, webhookVars, attributionVars>>

\* The topics the job subscribes to; nobody emits on the third.
Subscribed == {PageViewed, Conversion, "checkout.started"}

Job == INSTANCE FunnelJob WITH Topics <- Subscribed
Group == INSTANCE DlqConsumerProofs WITH
    Topics <- {Conversion},
    Primary <- Conversion,
    MaxMessages <- MaxPosts

\* HandleConversionEvent returns no error, whatever it is given.
Init ==
    /\ Job!Init
    /\ Group!Init
    /\ wrapped = FALSE
    /\ faulty = FALSE
    /\ notice = [c \in Conversions |-> "due"]
    /\ producer \in BOOLEAN
    /\ posts = 0
    /\ about = <<>>
    /\ emitted = {}
    /\ attributed = {}
    /\ unattributed = {}

-----------------------------------------------------------------------------
(* Pages.                                                                  *)

\* What three services send on page.viewed: landing-service an event with an id
\* and the offer of the page, storefront-service a map with neither, and
\* analytics-ingest-service an event with an id of its own and no offer: what
\* the client posted is in its metadata.
LandingView(o) == [id |-> TRUE, offer |-> o]
StorefrontView == [id |-> FALSE, offer |-> None]
IngestView == [id |-> TRUE, offer |-> None]

\* The goroutine of a request that has been answered emits its event; one that
\* cannot, or dies, leaves nothing behind.
ViewPage ==
    /\ Len(log[PageViewed]) < MaxViews
    /\ \E e \in {LandingView(o) : o \in Offers} \cup {StorefrontView, IngestView} :
        Job!Publish(PageViewed, e)
    /\ UNCHANGED <<groupVars, webhookVars, attributionVars>>

-----------------------------------------------------------------------------
(* conversion-webhook.                                                     *)

Step(c, state) == notice' = [notice EXCEPT ![c] = state]

\* The vendor posts what it has no 200 for.  Without a producer the webhook
\* answers 200 and forgets it.
Post(c) ==
    /\ notice[c] = "due"
    /\ posts < MaxPosts
    /\ posts' = posts + 1
    /\ Step(c, IF producer THEN "emitting" ELSE "forgotten")
    /\ UNCHANGED <<log, jobVars, groupVars, producer, about, attributionVars>>

\* The webhook's event has an id of its own and no offer.
ConversionEvent == [id |-> TRUE, offer |-> None]

Append2Log(c) ==
    /\ Job!Publish(Conversion, ConversionEvent)
    /\ Group!Publish(Conversion, FALSE)
    /\ about' = Append(about, c)

EmitConversion(c) ==
    /\ notice[c] = "emitting"
    /\ Append2Log(c)
    /\ Step(c, "sent")
    /\ UNCHANGED <<producer, posts, attributionVars>>

\* Mutant of EmitConversionFails: the error is logged and no more.
EmitConversionFailsSilently(c) ==
    /\ notice[c] = "emitting"
    /\ \/ Append2Log(c)
       \/ UNCHANGED <<log, jobVars, groupVars, about>>
    /\ Step(c, "sent")
    /\ UNCHANGED <<producer, posts, attributionVars>>

\* Emit returns an error, although Kafka may hold the event: 500, and the
\* vendor will post again.
EmitConversionFails(c) ==
    /\ notice[c] = "emitting"
    /\ \/ Append2Log(c)
       \/ UNCHANGED <<log, jobVars, groupVars, about>>
    /\ Step(c, "due")
    /\ UNCHANGED <<producer, posts, attributionVars>>

\* The 200 reaches the vendor, or it does not.
AnswerVendor(c) ==
    /\ notice[c] = "sent"
    /\ Step(c, "acknowledged") \/ Step(c, "due")
    /\ UNCHANGED <<log, jobVars, groupVars, producer, posts, about, attributionVars>>

\* The webhook dies and comes back, with or without a producer.
RestartWebhook ==
    /\ \E c \in Conversions : notice[c] \in {"emitting", "sent"}
    /\ notice' = [c \in Conversions |->
                    IF notice[c] \in {"emitting", "sent"} THEN "due" ELSE notice[c]]
    /\ producer' \in BOOLEAN
    /\ UNCHANGED <<log, jobVars, groupVars, posts, about, attributionVars>>

-----------------------------------------------------------------------------
(* attribution-service.                                                    *)

\* The handler emits campaign.attributed; without a producer it does not, and
\* an error is only logged.
Attribute(m) ==
    LET msg == loop[m][Conversion].next IN
    /\ loop[m][Conversion].phase = "handling"
    /\ m \notin emitted
    /\ emitted' = emitted \cup {m}
    /\ \/ attributed' = attributed \cup {msg} /\ unattributed' = unattributed \ {msg}
       \/ unattributed' = unattributed \cup ({msg} \ attributed) /\ UNCHANGED attributed
    /\ UNCHANGED <<log, jobVars, groupVars, webhookVars>>

HandleConversion(m) ==
    /\ m \in emitted
    /\ Group!HandlerSucceeds(m, Conversion)
    /\ emitted' = emitted \ {m}
    /\ UNCHANGED <<log, jobVars, webhookVars, attributed, unattributed>>

\* The loop goes on to the next message, or ends.
Continue(m) ==
    /\ Group!Deliver(m, Conversion) \/ Group!NoticeEviction(m, Conversion)
    /\ UNCHANGED <<log, jobVars, webhookVars, attributionVars>>

\* The partition is taken from a dead replica, which comes back, and given to a
\* living one.
GroupRecovers ==
    /\ \/ \E m \in Members \ alive : Group!Evict(m, Conversion)
       \/ \E m \in Members : Group!Restart(m) \/ Group!Assign(m, Conversion)
    /\ UNCHANGED <<log, jobVars, webhookVars, attributionVars>>

\* What the group does besides.
OtherGroupStep(m) ==
    /\ \/ Group!AutoCommit(m, Conversion)
       \/ Group!Rebalance(m, Conversion)
       \/ m \in alive /\ Group!Evict(m, Conversion)
    /\ UNCHANGED <<log, jobVars, webhookVars, attributionVars>>

\* A replica dies, maybe between its event and the mark.
ConsumerCrashes(m) ==
    /\ Group!Crash(m)
    /\ emitted' = emitted \ {m}
    /\ UNCHANGED <<log, jobVars, webhookVars, attributed, unattributed>>

-----------------------------------------------------------------------------
JobStep == Job!JobStep /\ UNCHANGED <<groupVars, webhookVars, attributionVars>>
JobCrashes == Job!Crash /\ UNCHANGED <<groupVars, webhookVars, attributionVars>>

LoopStep(m) == Continue(m) \/ Attribute(m) \/ HandleConversion(m)

Next ==
    \/ ViewPage
    \/ \E c \in Conversions : Post(c) \/ EmitConversion(c) \/ EmitConversionFails(c)
                              \/ AnswerVendor(c)
    \/ RestartWebhook
    \/ \E m \in Members : LoopStep(m) \/ OtherGroupStep(m) \/ ConsumerCrashes(m)
    \/ GroupRecovers
    \/ JobStep \/ JobCrashes

\* The group runs as in DlqConsumer; the job runs, and its driver is started
\* again, by the operator's restartPolicy or the next day's DAG run.
Fairness ==
    /\ \A m \in Members : WF_vars(LoopStep(m))
    /\ WF_vars(GroupRecovers)
    /\ WF_vars(JobStep)

Spec == Init /\ [][Next]_vars
FairSpec == Spec /\ Fairness

-----------------------------------------------------------------------------
(* Properties.                                                             *)

\* The job keeps its promise on what these services emit (see FunnelJob).
CountsAreFaithful == Job!CountsAreFaithful

\* Again and again every notification the vendor was answered 200 for, by a
\* webhook with a producer, is attributed, whichever replica of
\* attribution-service dies in between, unless the event of the attribution
\* could not be emitted.
Attributed(c) == \E i \in DOMAIN about :
    about[i] = c /\ i - 1 \in attributed \cup unattributed
AcknowledgedIsAttributed ==
    []<>(\A c \in Conversions : notice[c] = "acknowledged" => Attributed(c))

\* The safety behind it: what the vendor is answered 200 for, by a webhook with
\* a producer, is on the topic, and the group's committed offset never passes a
\* message that no replica has emitted, or tried to emit, an attribution for.
NothingForgotten ==
    /\ \A c \in Conversions :
        notice[c] \in {"sent", "acknowledged"} => \E i \in DOMAIN about : about[i] = c
    /\ \A i \in DOMAIN about :
        i <= committed[Conversion] => i - 1 \in attributed \cup unattributed

\* An event with an id and without an offer has been emitted, of a conversion
\* or by analytics-ingest-service: its row has no key.
Keyless == \E t \in Subscribed : \E i \in DOMAIN log[t] :
               log[t][i].id /\ log[t][i].offer = None

\* Again and again the job has counted every page view, however often its
\* driver dies and whatever else a batch is made of, as long as there is no
\* event of the kind above: it never gets past that.
EventsAreCounted == []<>(from[PageViewed] = Len(log[PageViewed]) \/ Keyless)

\* funnel_analysis.py, on the stream: "(Exactly-Once)" (see FunnelJob).
CountedExactlyOnce == Job!CountedExactlyOnce

-----------------------------------------------------------------------------
(* The inductive invariant.                                                *)

\* The webhook's events are the messages of the topic.
TopicInv ==
    /\ about \in Seq(Conversions)
    /\ Len(about) = published[Conversion]
    /\ notice \in [Conversions -> {"due", "emitting", "sent", "acknowledged", "forgotten"}]
    /\ \A c \in Conversions :
        notice[c] \in {"sent", "acknowledged"} => \E i \in DOMAIN about : about[i] = c

\* A replica that has emitted is still at the message it did so for; what is
\* settled, by whomever, has been attributed as far as that was possible.
AttributionInv ==
    /\ \A m \in emitted :
        /\ m \in Members
        /\ loop[m][Conversion].phase = "handling"
        /\ loop[m][Conversion].next \in attributed \cup unattributed
    /\ \A o \in 0 .. MaxPosts - 1 :
        Group!Settled(<<Conversion, o>>) => o \in attributed \cup unattributed

IInv == Group!IInv /\ TopicInv /\ AttributionInv
=============================================================================
