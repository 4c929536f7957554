--------------------------- MODULE GracefulServer ---------------------------
(***************************************************************************)
(* One process of an HTTP service, from its start to its exit: the serving *)
(* goroutine, main with its signal, the handlers, and the goroutines that  *)
(* emit events behind the handlers' backs.  Three kinds of service share   *)
(* the pattern and differ in what they do about it:                        *)
(*   run         httpserver.Server.Run (cart, offer, redirect, user)       *)
(*   ingest      analytics-ingest-service, POST /ingest                    *)
(*   storefront  storefront-service, GET /                                 *)
(***************************************************************************)
EXTENDS Naturals, FiniteSets

CONSTANT Requests

VARIABLES
    kind,
    producer,  \* whether Kafka was there at the start
    ready,     \* s.ready, of the kind run
    server,    \* where the serving goroutine is
    main,      \* where main is
    req,       \* what became of every request
    event,     \* what became of the event behind it
    wg,        \* the counter of the wait group
    outcome    \* how the process ends

vars == <<kind, producer, ready, server, main, req, event, wg, outcome>>
config == <<kind, producer>>

\* Shutdown has closed the listener and lets no other one start.
ShuttingDown == main \in {"draining", "flush", "closing"}

InHandler == {r \in Requests : req[r] \in {"handling", "tracked"}}
Pending == {r \in Requests : event[r] = "pending"}

Init ==
    /\ kind \in {"run", "ingest", "storefront"}
    /\ producer \in BOOLEAN
    /\ ready = FALSE
    /\ server = IF kind = "run" THEN "start" ELSE "marked"
    /\ main = "start"
    /\ req = [r \in Requests |-> "new"]
    /\ event = [r \in Requests |-> "none"]
    /\ wg = 0
    /\ outcome = "none"

\* The process ends, and with it the goroutines that are left.
Die(how) ==
    /\ main' = "exited"
    /\ outcome' = how
    /\ req' = [r \in Requests |-> IF r \in InHandler THEN "aborted" ELSE req[r]]
    /\ event' = [r \in Requests |->
                   IF event[r] = "pending" THEN "lost" ELSE event[r]]
    /\ UNCHANGED <<config, ready, server, wg>>

-----------------------------------------------------------------------------
(* The serving goroutine.                                                  *)

\* ready is set before the listener exists.
MarkReady ==
    /\ server = "start"
    /\ server' = "marked"
    /\ ready' = TRUE
    /\ UNCHANGED <<config, main, req, event, wg, outcome>>

\* ListenAndServe, which returns ErrServerClosed if Shutdown was faster.
Listen ==
    /\ server = "marked"
    /\ server' = IF ShuttingDown THEN "closed" ELSE "listening"
    /\ UNCHANGED <<config, ready, main, req, event, wg, outcome>>

\* The port cannot be had.  Run hands the error to its select; the others
\* end the process where they are.
ListenFails ==
    /\ server = "marked"
    /\ ~ ShuttingDown
    /\ \/ /\ kind = "run"
          /\ server' = "failed"
          /\ UNCHANGED <<config, ready, main, req, event, wg, outcome>>
       \/ /\ kind # "run"
          /\ Die("failed")

-----------------------------------------------------------------------------
(* main.                                                                   *)

\* signal.Notify; a SIGTERM before it kills the process.
Notify ==
    /\ main = "start"
    /\ main' = "wait"
    /\ UNCHANGED <<config, ready, server, req, event, wg, outcome>>

Terminate ==
    \/ /\ main = "start"
       /\ Die("killed")
    \/ /\ main = "wait"
       /\ main' = "signalled"
       /\ UNCHANGED <<config, ready, server, req, event, wg, outcome>>

\* The other case of Run's select.
ServerError ==
    /\ main = "wait"
    /\ server = "failed"
    /\ Die("failed")

\* Mutant of MarkNotReady: the statement is missing.
MarkNotReadyForgotten ==
    /\ main = "signalled"
    /\ kind = "run"
    /\ main' = "unready"
    /\ UNCHANGED <<config, ready, server, req, event, wg, outcome>>

MarkNotReady ==
    /\ main = "signalled"
    /\ kind = "run"
    /\ main' = "unready"
    /\ ready' = FALSE
    /\ UNCHANGED <<config, server, req, event, wg, outcome>>

BeginShutdown ==
    /\ main = IF kind = "run" THEN "unready" ELSE "signalled"
    /\ main' = "draining"
    /\ server' = IF server = "listening" THEN "closed" ELSE server
    /\ UNCHANGED <<config, ready, req, event, wg, outcome>>

\* Mutant of Drained: Close instead of Shutdown.
DrainedAtOnce ==
    /\ main = "draining"
    /\ \/ kind = "run" /\ Die("clean")
       \/ /\ kind # "run"
          /\ main' = "flush"
          /\ UNCHANGED <<config, ready, server, req, event, wg, outcome>>

\* Shutdown returns when no handler is left.
Drained ==
    /\ main = "draining"
    /\ InHandler = {}
    /\ \/ kind = "run" /\ Die("clean")
       \/ /\ kind # "run"
          /\ main' = "flush"
          /\ UNCHANGED <<config, ready, server, req, event, wg, outcome>>

\* Mutant of DrainTimeout: Shutdown with a context that never expires.
DrainTimeoutNever == FALSE /\ UNCHANGED vars

\* Its context expires first: Run returns the error, on which the services
\* and the storefront call Fatalf; analytics-ingest only logs it.
DrainTimeout ==
    /\ main = "draining"
    /\ InHandler # {}
    /\ \/ kind # "ingest" /\ Die("timeout")
       \/ /\ kind = "ingest"
          /\ main' = "flush"
          /\ outcome' = "timeout"
          /\ UNCHANGED <<config, ready, server, req, event, wg>>

\* Mutant of WaitReturns: the wait is missing.
WaitReturnsAtOnce ==
    /\ main = "flush"
    /\ main' = "closing"
    /\ UNCHANGED <<config, ready, server, req, event, wg, outcome>>

\* wg.Wait returns; the producers' deferred Close and the exit follow.
WaitReturns ==
    /\ main = "flush"
    /\ wg = 0
    /\ main' = "closing"
    /\ UNCHANGED <<config, ready, server, req, event, wg, outcome>>

Exit ==
    /\ main = "closing"
    /\ Die(IF outcome = "none" THEN "clean" ELSE outcome)

Crash ==
    /\ main # "exited"
    /\ Die("killed")

-----------------------------------------------------------------------------
(* Handlers and the goroutines they start, while the process lives.        *)

Accept(r) ==
    /\ server = "listening"
    /\ req[r] = "new"
    /\ req' = [req EXCEPT ![r] = "handling"]
    /\ UNCHANGED <<config, ready, server, main, event, wg, outcome>>

\* wg.Add(1) and the go statement, both on the handler's own goroutine.
Track(r) ==
    /\ kind # "run"
    /\ producer
    /\ req[r] = "handling"
    /\ req' = [req EXCEPT ![r] = "tracked"]
    /\ event' = [event EXCEPT ![r] = "pending"]
    /\ wg' = wg + 1
    /\ UNCHANGED <<config, ready, server, main, outcome>>

\* A handler answers.  analytics-ingest refuses a body that is not JSON and
\* a topic it has no producer for; storefront tracks nothing without one.
Answer(r) ==
    /\ \/ req[r] = "tracked"
       \/ /\ req[r] = "handling"
          /\ kind = "storefront" => ~ producer
    /\ req' = [req EXCEPT ![r] = "answered"]
    /\ UNCHANGED <<config, ready, server, main, event, wg, outcome>>

\* Mutant of EmitEnds: Done is called for the error and deferred as well.
EmitEndsTwice(r) ==
    /\ event[r] = "pending"
    /\ \E e \in {"sent", "failed"} :
         /\ event' = [event EXCEPT ![r] = e]
         /\ wg' = IF e = "sent" THEN wg - 1 ELSE wg - 2
    /\ UNCHANGED <<config, ready, server, main, req, outcome>>

\* Emit returns, and the goroutine with it, by its deferred Done.
EmitEnds(r) ==
    /\ event[r] = "pending"
    /\ \E e \in {"sent", "failed"} : event' = [event EXCEPT ![r] = e]
    /\ wg' = wg - 1
    /\ UNCHANGED <<config, ready, server, main, req, outcome>>

\* What the goroutines beside main's do, for as long as the process lives.
ServerStep == main # "exited" /\ (MarkReady \/ Listen \/ ListenFails)
HandlerStep(r) == main # "exited" /\ (Accept(r) \/ Track(r) \/ Answer(r))
EmitStep(r) == main # "exited" /\ EmitEnds(r)

MainStep ==
    \/ Notify \/ Terminate \/ ServerError \/ MarkNotReady \/ BeginShutdown
    \/ Drained \/ DrainTimeout \/ WaitReturns \/ Exit

Next ==
    \/ MainStep \/ ServerStep \/ Crash
    \/ \E r \in Requests : HandlerStep(r) \/ EmitStep(r)

\* main goes on, contexts expire and emits end.  Nothing is assumed of the
\* handlers: what they read and whom they call may keep them for ever.
Fairness ==
    /\ WF_vars(MarkNotReady) /\ WF_vars(BeginShutdown)
    /\ WF_vars(Drained \/ DrainTimeout)
    /\ WF_vars(WaitReturns) /\ WF_vars(Exit)
    /\ \A r \in Requests : WF_vars(EmitStep(r))

Spec == Init /\ [][Next]_vars
FairSpec == Spec /\ Fairness

-----------------------------------------------------------------------------
(* Properties.                                                             *)

TypeOK ==
    /\ kind \in {"run", "ingest", "storefront"}
    /\ producer \in BOOLEAN
    /\ ready \in BOOLEAN
    /\ server \in {"start", "marked", "listening", "closed", "failed"}
    /\ main \in {"start", "wait", "signalled", "unready", "draining", "flush",
                 "closing", "exited"}
    /\ req \in [Requests -> {"new", "handling", "tracked", "answered", "aborted"}]
    /\ event \in [Requests -> {"none", "pending", "sent", "failed", "lost"}]
    /\ wg \in Nat
    /\ outcome \in {"none", "clean", "timeout", "failed", "killed"}

\* An exit that reports no error has cut no handler short.
CleanExitAnswers ==
    outcome = "clean" => \A r \in Requests : req[r] # "aborted"

\* The wait groups do what they are there for: an exit that reports no error
\* leaves no event behind, although nothing but the handlers orders the
\* counting of an event before the wait.
CleanExitFlushes ==
    outcome = "clean" => \A r \in Requests : event[r] # "lost"

\* server.go: "Mark not-ready immediately so load balancers drain
\* connections".  A process that had marked itself ready when it heard the
\* signal is not ready from the start of its shutdown on.
DrainsUnready ==
    [](main = "signalled" /\ server # "start" =>
         [](main = "unready" \/ ShuttingDown => ~ ready))

\* A signalled process ends, whatever its handlers wait for.
StopsInTheEnd == (main = "signalled") ~> (main = "exited")

-----------------------------------------------------------------------------
(* The inductive invariant.                                                *)

\* No handler starts behind the start of the shutdown.
ListenerInv == ShuttingDown => server # "listening"

\* The wait group counts exactly the pending events, while there is a process.
CountInv ==
    main # "exited" => IsFiniteSet(Pending) /\ wg = Cardinality(Pending)

\* Handlers are gone before the flush and events before the exit, unless the
\* drain timed out.
DrainInv ==
    /\ main \in {"flush", "closing"} /\ outcome = "none" => InHandler = {}
    /\ main = "closing" /\ outcome = "none" => wg = 0

\* While the process lives, its outcome is open or a drain that timed out,
\* and nothing is lost yet.
OutcomeInv ==
    main # "exited" =>
        /\ outcome \in {"none", "timeout"}
        /\ \A r \in Requests : req[r] # "aborted" /\ event[r] # "lost"

\* Only what a handler of the other two kinds tracked has an event.
EventInv == \A r \in Requests :
    kind = "run" \/ req[r] \in {"new", "handling"} => event[r] = "none"

IInv ==
    /\ TypeOK
    /\ ListenerInv
    /\ CountInv
    /\ DrainInv
    /\ OutcomeInv
    /\ EventInv
    /\ CleanExitAnswers
    /\ CleanExitFlushes
=============================================================================
