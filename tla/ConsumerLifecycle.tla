------------------------- MODULE ConsumerLifecycle -------------------------
(***************************************************************************)
(* The life of a shared-lib Consumer in the process of a consuming service *)
(* (audit, attribution, notification): StartAsync, the goroutine of        *)
(* runWithRetry with its connect loop and its consume loop, readiness, and *)
(* the two goroutines that hear SIGTERM, main's and the consumer's own.    *)
(* What a session does with its messages is module DlqConsumer.            *)
(*                                                                         *)
(* A start is one call of StartAsync with a context of its own; a service  *)
(* makes one, the type allows more.                                        *)
(***************************************************************************)
EXTENDS Naturals, FiniteSets

CONSTANTS Starts,      \* the calls of StartAsync
          MaxBackoff,  \* 60s, in units of the first backoff
          MaxOutages   \* bound: times Kafka goes away

ASSUME MaxBackoffAssumption == MaxBackoff \in Nat \ {0}
ASSUME MaxOutagesAssumption == MaxOutages \in Nat

VARIABLES
    running,    \* c.running
    ready,      \* c.ready
    pc,         \* where the goroutine of every start is
    backoff,    \* its next backoff
    client,     \* the starts whose sarama consumer group is open
    cancelled,  \* the starts whose context is cancelled
    signalled,  \* the starts whose own goroutine has received SIGTERM
    kafka,      \* whether Kafka can be reached
    outages,    \* how often it went away
    process     \* the service's process

consumer == <<running, ready, pc, backoff, client>>
signals == <<cancelled, signalled, process>>
broker == <<kafka, outages>>
vars == <<running, ready, pc, backoff, client, cancelled, signalled, kafka,
          outages, process>>

Consuming == {"consume", "pause"}
Active == {"connect", "dial", "sleep", "connected", "reset"} \cup Consuming

Goto(s, l) == pc' = [pc EXCEPT ![s] = l]

\* consumerCtx is cancelled with its parent or by the signal.
ContextDone(s) == s \in cancelled \cup signalled

Init ==
    /\ running = FALSE
    /\ ready = FALSE
    /\ pc = [s \in Starts |-> "idle"]
    /\ backoff = [s \in Starts |-> 1]
    /\ client = {}
    /\ cancelled = {}
    /\ signalled = {}
    /\ kafka \in BOOLEAN
    /\ outages = 0
    /\ process = "up"

StartAsync(s) ==
    /\ process = "up"
    /\ pc[s] = "idle"
    /\ Goto(s, "start")
    /\ UNCHANGED <<running, ready, backoff, client, signals, broker>>

-----------------------------------------------------------------------------
(* runWithRetry.                                                           *)

\* Mutant of Claim: the flag is read under one lock and set under another.
ClaimUnchecked(s) ==
    /\ pc[s] = "start"
    /\ running' = TRUE
    /\ Goto(s, "connect")
    /\ UNCHANGED <<ready, backoff, client, signals, broker>>

\* The first critical section: one loop per Consumer, others return at once.
Claim(s) ==
    /\ pc[s] = "start"
    /\ running' = TRUE
    /\ Goto(s, IF running THEN "returned" ELSE "connect")
    /\ UNCHANGED <<ready, backoff, client, signals, broker>>

\* A cancelled context ends the connect loop, which leaves running as it is.
CheckContext(s) ==
    /\ pc[s] = "connect"
    /\ Goto(s, IF s \in cancelled THEN "abandoned" ELSE "dial")
    /\ UNCHANGED <<running, ready, backoff, client, signals, broker>>

Connect(s) ==
    /\ pc[s] = "dial"
    /\ kafka
    /\ client' = client \cup {s}
    /\ Goto(s, "connected")
    /\ UNCHANGED <<running, ready, backoff, signals, broker>>

\* Mutant of ConnectFails: the error is returned, as Start once did.
ConnectFailsForGood(s) ==
    /\ pc[s] = "dial"
    /\ ~ kafka
    /\ running' = FALSE
    /\ Goto(s, "returned")
    /\ UNCHANGED <<ready, backoff, client, signals, broker>>

ConnectFails(s) ==
    /\ pc[s] = "dial"
    /\ ~ kafka
    /\ Goto(s, "sleep")
    /\ UNCHANGED <<running, ready, backoff, client, signals, broker>>

\* Mutant of BackOff: the backoff is capped before it is doubled.
BackOffUncapped(s) ==
    /\ pc[s] = "sleep"
    /\ backoff' = [backoff EXCEPT ![s] = 2 * (IF @ > MaxBackoff THEN MaxBackoff ELSE @)]
    /\ Goto(s, "connect")
    /\ UNCHANGED <<running, ready, client, signals, broker>>

\* time.Sleep hears no cancellation; then the backoff doubles up to the cap.
BackOff(s) ==
    /\ pc[s] = "sleep"
    /\ backoff' = [backoff EXCEPT ![s] =
                     IF 2 * @ > MaxBackoff THEN MaxBackoff ELSE 2 * @]
    /\ Goto(s, "connect")
    /\ UNCHANGED <<running, ready, client, signals, broker>>

\* The second critical section; from here on the start hears SIGTERM.
SetReady(s) ==
    /\ pc[s] = "connected"
    /\ ready' = TRUE
    /\ Goto(s, "consume")
    /\ UNCHANGED <<running, backoff, client, signals, broker>>

\* Mutant of ConsumeReturns: consumerCtx is not derived from the caller's.
ConsumeReturnsDetached(s) ==
    /\ pc[s] = "consume"
    /\ Goto(s, IF s \in signalled THEN "reset" ELSE "pause")
    /\ UNCHANGED <<running, ready, backoff, client, signals, broker>>

\* Consume returns, at a rebalance, for an error or for the context, which
\* alone ends the loop.
ConsumeReturns(s) ==
    /\ pc[s] = "consume"
    /\ Goto(s, IF ContextDone(s) THEN "reset" ELSE "pause")
    /\ UNCHANGED <<running, ready, backoff, client, signals, broker>>

Resume(s) ==
    /\ pc[s] = "pause"
    /\ Goto(s, "consume")
    /\ UNCHANGED <<running, ready, backoff, client, signals, broker>>

\* Mutant of Reset: the deferred function clears running only.
ResetKeepsReady(s) ==
    /\ pc[s] = "reset"
    /\ running' = FALSE
    /\ Goto(s, "close")
    /\ UNCHANGED <<ready, backoff, client, signals, broker>>


\* The deferred function's critical section.
Reset(s) ==
    /\ pc[s] = "reset"
    /\ ready' = FALSE
    /\ running' = FALSE
    /\ Goto(s, "close")
    /\ UNCHANGED <<backoff, client, signals, broker>>

\* The group is closed behind that section: another start may be at work.
Close(s) ==
    /\ pc[s] = "close"
    /\ client' = client \ {s}
    /\ Goto(s, "returned")
    /\ UNCHANGED <<running, ready, backoff, signals, broker>>

-----------------------------------------------------------------------------
(* The service and its surroundings.                                       *)

\* Whoever started the consumer cancels its context.
Cancel(s) ==
    /\ process = "up"
    /\ pc[s] # "idle"
    /\ cancelled' = cancelled \cup {s}
    /\ UNCHANGED <<consumer, signalled, process, broker>>

\* SIGTERM, to main's goroutine and to every start that listens by now.
Terminate ==
    /\ process = "up"
    /\ process' = "terminating"
    /\ signalled' = {s \in Starts : pc[s] \in Consuming}
    /\ UNCHANGED <<consumer, cancelled, broker>>

\* main's goroutine: cancel(), then server.Close().
Shutdown ==
    /\ process = "terminating"
    /\ process' = "closing"
    /\ cancelled' = Starts
    /\ UNCHANGED <<consumer, signalled, broker>>

\* main returns, whatever the consumer's goroutine is at.
Exit ==
    /\ process = "closing"
    /\ process' = "gone"
    /\ client' = {}
    /\ UNCHANGED <<running, ready, pc, backoff, cancelled, signalled, broker>>

KafkaFails ==
    /\ kafka
    /\ outages < MaxOutages
    /\ kafka' = FALSE
    /\ outages' = outages + 1
    /\ UNCHANGED <<consumer, signals>>

KafkaRecovers ==
    /\ ~ kafka
    /\ kafka' = TRUE
    /\ UNCHANGED <<outages, consumer, signals>>

\* What the goroutine does for as long as the process lives.
Run(s) ==
    /\ process # "gone"
    /\ \/ Claim(s) \/ CheckContext(s) \/ Connect(s) \/ ConnectFails(s)
       \/ BackOff(s) \/ SetReady(s) \/ ConsumeReturns(s) \/ Resume(s)
       \/ Reset(s) \/ Close(s)

Next ==
    \/ \E s \in Starts : StartAsync(s) \/ Run(s) \/ Cancel(s)
    \/ Terminate \/ Shutdown \/ Exit
    \/ KafkaFails \/ KafkaRecovers

\* A goroutine runs while it can; a session without error and cancellation
\* may last for ever.
Fairness ==
    /\ \A s \in Starts : WF_vars(/\ Run(s)
                                 /\ pc[s] = "consume" => ContextDone(s) \/ ~ kafka)
    /\ WF_vars(Shutdown) /\ WF_vars(Exit)

Spec == Init /\ [][Next]_vars
FairSpec == Spec /\ Fairness

-----------------------------------------------------------------------------
(* Properties.                                                             *)

TypeOK ==
    /\ running \in BOOLEAN
    /\ ready \in BOOLEAN
    /\ pc \in [Starts -> Active \cup {"idle", "start", "close", "returned",
                                 "abandoned"}]
    /\ backoff \in [Starts -> 1 .. MaxBackoff]
    /\ client \in SUBSET Starts
    /\ cancelled \in SUBSET Starts
    /\ signalled \in SUBSET Starts
    /\ kafka \in BOOLEAN
    /\ outages \in 0 .. MaxOutages
    /\ process \in {"up", "terminating", "closing", "gone"}

\* However starts, cancellations and restarts overlap, one loop of a Consumer
\* is at work at a time: a group member never competes with itself.
OneLoop == \A s, q \in Starts : pc[s] \in Active /\ pc[q] \in Active => s = q

\* The readiness probe says yes only while some start is in its consume loop
\* with its group open; a start that closes takes nobody else's readiness.
ReadyWhileConsuming ==
    process # "gone" =>
        (ready <=> \E s \in client : pc[s] \in Consuming \cup {"reset"})

\* consumer.go on StartAsync: it retries until Kafka becomes available.  If
\* Kafka stays in the end, a loop that started is ready or has been told to stop.
RetriesUntilAvailable ==
    <>[]kafka => \A s \in Starts :
        (pc[s] \in Active) ~> (ready \/ ContextDone(s) \/ process # "up")

\* A start that is cancelled returns, or its process is gone: the connect
\* loop, the backoff and the consume loop all come to hear it.
CancelledReturns ==
    \A s \in Starts :
        (s \in cancelled /\ pc[s] # "idle") ~>
            (pc[s] \in {"returned", "abandoned"} \/ process = "gone")


-----------------------------------------------------------------------------
(* The inductive invariant.                                                *)

Holds == {s \in Starts : pc[s] \in Active \cup {"abandoned"}}

\* The flag is set while one of them holds it; an abandoned start never gives it
\* back.
FlagInv == running <=> Holds # {}

\* The flag is a lock: one start at most holds it.
HolderInv == \A s, q \in Holds : s = q

\* The group of a start is open from Connect to Close.
ClientInv ==
    process # "gone" =>
        client = {s \in Starts :
                    pc[s] \in Consuming \cup {"connected", "reset", "close"}}

IInv == TypeOK /\ HolderInv /\ FlagInv /\ ClientInv /\ ReadyWhileConsuming
=============================================================================
