-------------------------- MODULE CheckoutPipeline --------------------------
(***************************************************************************)
(* From POST /v1/orders to the notification: order-service, the topic      *)
(* checkout.completed and the consumer group of notification-service.      *)
(* The two ends are the modules OrderService and DlqConsumer as they are;  *)
(* an emit of the one that succeeds is a message for the other.            *)
(***************************************************************************)
EXTENDS Naturals, FiniteSets, Sequences

CONSTANTS Requests, Pods, Checkouts, NumItems, MaxConns, MaxStops, Faults, None,
          Members, MaxAttempts, MaxTrouble, Nobody,
          CheckoutCompleted   \* the topic

ASSUME OrdersAssumption ==
    /\ IsFiniteSet(Requests)
    /\ NumItems \in Nat \ {0} /\ MaxConns \in Nat \ {0} /\ MaxStops \in Nat
    /\ Faults \in BOOLEAN
    /\ None \notin Requests \cup Checkouts \cup Pods
ASSUME GroupAssumption ==
    MaxAttempts \in Nat \ {0} /\ MaxTrouble \in Nat /\ Nobody \notin Members

VARIABLES keyed, checkout, pod, pc, tx, orderRows, itemRows, saved, answer,
          emit, podState, producer, stops

VARIABLES wrapped, faulty, published, poison, committed, assigned, alive, hasDlq,
          loop, handled, dead, dropped, trouble

VARIABLE topic   \* the OrderID of every message of the topic, oldest first

orderVars == <<keyed, checkout, pod, pc, tx, orderRows, itemRows, saved, answer,
               emit, podState, producer, stops>>
groupVars == <<wrapped, faulty, published, poison, committed, assigned, alive,
               hasDlq, loop, handled, dead, dropped, trouble>>
vars == <<orderVars, groupVars, topic>>

\* The two modules, each with what is proved about it.
Orders == INSTANCE OrderServiceProofs

\* No attempt emits twice, so the topic never holds more than an event each.
Group == INSTANCE DlqConsumerProofs WITH
    Topics <- {CheckoutCompleted},
    Primary <- CheckoutCompleted,
    MaxMessages <- Cardinality(Requests)

\* HandleNotification fails only on bytes that are no CheckoutCompleted, and
\* what order-service marshals always is one: nothing here is poison.
Init ==
    /\ Orders!Init
    /\ Group!Init
    /\ wrapped = TRUE
    /\ faulty = FALSE
    /\ topic = <<>>

\* producer.Emit: the event of the order that attempt r was given.
Emit(r) ==
    /\ Orders!EmitSucceeds(r)
    /\ Group!Publish(CheckoutCompleted, FALSE)
    /\ topic' = Append(topic, saved[r])

\* Any other step of order-service.
OrderStep ==
    /\ Orders!Next
    /\ \A r \in Requests : emit'[r] = "sent" => emit[r] = "sent"
    /\ UNCHANGED <<groupVars, topic>>

\* Any step of the notification group, its topic and its coordinator.
NotificationStep ==
    /\ \/ \E m \in Members :
            \/ Group!LoopStep(m, CheckoutCompleted)
            \/ Group!GroupStep(m, CheckoutCompleted)
            \/ Group!Crash(m)
            \/ Group!Restart(m)
    /\ UNCHANGED <<orderVars, topic>>

Next == (\E r \in Requests : Emit(r)) \/ OrderStep \/ NotificationStep

Spec == Init /\ [][Next]_vars
FairSpec == Spec /\ Orders!Fairness /\ Group!Fairness

-----------------------------------------------------------------------------
(* Properties.                                                             *)

\* The orders whose buyer has been notified, so far.
Notified == {topic[msg[2] + 1] : msg \in handled}

\* Whoever crashes on either side, a buyer is notified only of an order that
\* is durable with all its items.
NotifiedOrdersAreStored ==
    \A o \in Notified : o \in Orders!Committed /\ itemRows[o] = NumItems

\* An order that a client was given, in a 201 or a replay's 200, is notified
\* of, whatever crashes on the consuming side, unless the event was lost on
\* the producing side: its pod died or had no producer, or the emit failed.
ConfirmedOrdersAreNotified ==
    \A r \in Requests : (answer[r].status \in {200, 201}) ~>
        answer[r].order \in Notified \/ emit[r] \in {"none", "lost"}

\* The safety behind it: what was emitted is on the topic, and the group commits
\* no message whose buyer has not been notified.
NothingForgotten ==
    /\ \A r \in Requests : emit[r] = "sent" => \E i \in DOMAIN topic : topic[i] = saved[r]
    /\ \A i \in DOMAIN topic : i <= committed[CheckoutCompleted] => topic[i] \in Notified

\* The topic has room for every event that is still to come: MaxMessages, as
\* this module chooses it for the group, never stops an emit.
RoomForEvents ==
    \A r \in Requests :
        emit[r] = "pending" => published[CheckoutCompleted] < Cardinality(Requests)
=============================================================================
