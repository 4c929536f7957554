---------------------------- MODULE OrderService ----------------------------
(***************************************************************************)
(* order-service: the POST /v1/orders handler, the PostgreSQL transaction  *)
(* of Repository.Create, the detached goroutine that emits the             *)
(* checkout.completed event, and the pods the handler runs in.             *)
(*                                                                         *)
(* Every attempt (one HTTP request: a first POST, a client's retry or the  *)
(* service mesh's) is a handler goroutine of some pod.  Handlers of all    *)
(* pods interleave at their calls to the shared database, which runs at    *)
(* READ COMMITTED: a query sees committed rows only, and an INSERT that    *)
(* meets an uncommitted row with its key waits for that row's transaction. *)
(* The id a handler mints (uuid) is the attempt itself.                    *)
(***************************************************************************)
EXTENDS Naturals, FiniteSets

CONSTANTS Requests,   \* the POST attempts
          Pods,       \* the replicas of the deployment
          Checkouts,  \* what clients are buying: retries share a checkout
          NumItems,   \* the line items of an order
          MaxConns,   \* connections of one pod's pool (20 in the code)
          MaxStops,   \* bound: SIGTERMs and crashes in a behaviour
          Faults,     \* whether database and broker calls may fail
          None        \* neither an attempt, a checkout nor a pod

ASSUME NumItemsAssumption == NumItems \in Nat \ {0}
ASSUME MaxConnsAssumption == MaxConns \in Nat \ {0}
ASSUME MaxStopsAssumption == MaxStops \in Nat
ASSUME FaultsAssumption == Faults \in BOOLEAN
ASSUME NoneAssumption == None \notin Requests \cup Checkouts \cup Pods

VARIABLES
    keyed,      \* checkouts whose attempts carry X-Idempotency-Key
    checkout,   \* the checkout of every attempt, None before it arrives
    pod,        \* the pod that serves every attempt
    pc,         \* where every handler is
    tx,         \* every attempt's transaction, as the database sees it
    orderRows,  \* rows of table orders, of whatever transaction
    itemRows,   \* how many rows of order_items every order has
    saved,      \* the order Repository.Create returned
    answer,     \* the response the handler wrote
    emit,       \* the goroutine that publishes the attempt's event
    podState,   \* the process of every pod
    producer,   \* whether that process has a Kafka producer
    stops       \* SIGTERMs and crashes so far

db == <<tx, orderRows, itemRows>>
process == <<podState, producer, stops>>
vars == <<keyed, checkout, pod, pc, tx, orderRows, itemRows, saved, answer,
          emit, podState, producer, stops>>

InTx == {"check", "insert", "items"}
Handling == {"received"} \cup InTx \cup {"commit", "announce", "respond"}

\* Whether event.NewProducer reaches a broker when a process starts.
Connected == IF Faults THEN BOOLEAN ELSE {TRUE}

NoAnswer == [status |-> 0, order |-> None, items |-> 0]

SameKey(r, q) ==
    /\ checkout[r] \in keyed
    /\ checkout[q] = checkout[r]

Committed == {q \in orderRows : tx[q] = "committed"}

\* The row findByIdempotencyKey can see.
Matches(r) == {q \in Committed : SameKey(r, q)}

\* Rows the unique index holds against r's INSERT: theirs are not rolled back.
Holders(r) ==
    {q \in orderRows \ {r} : SameKey(r, q) /\ tx[q] # "aborted"}

\* Handlers of pod p that hold a connection of its pool.
ConnsInUse(p) ==
    {q \in Requests : /\ pod[q] = p
                      /\ pc[q] # "dead"
                      /\ tx[q] = "open" \/ pc[q] = "commit"}

Goto(r, l) == pc' = [pc EXCEPT ![r] = l]

\* Mutant of Rollback: Create without the deferred tx.Rollback.
RollbackForgotten(r) == UNCHANGED tx

\* The deferred tx.Rollback of Create: whatever is still open is undone.
Rollback(r) == tx' = [tx EXCEPT ![r] = IF @ = "open" THEN "aborted" ELSE @]

InternalServerError(r) ==
    /\ answer' = [answer EXCEPT ![r] =
                    [status |-> 500, order |-> None, items |-> 0]]
    /\ Goto(r, "done")
    /\ UNCHANGED <<keyed, checkout, pod, saved, emit>>

Init ==
    /\ keyed \in SUBSET Checkouts
    /\ checkout = [r \in Requests |-> None]
    /\ pod = [r \in Requests |-> None]
    /\ pc = [r \in Requests |-> "idle"]
    /\ tx = [r \in Requests |-> "none"]
    /\ orderRows = {}
    /\ itemRows = [r \in Requests |-> 0]
    /\ saved = [r \in Requests |-> None]
    /\ answer = [r \in Requests |-> NoAnswer]
    /\ emit = [r \in Requests |-> "none"]
    /\ podState = [p \in Pods |-> "up"]
    /\ producer \in [Pods -> Connected]
    /\ stops = 0

-----------------------------------------------------------------------------
(* The handler.                                                            *)

\* A POST of checkout c reaches pod p; a retry is one more attempt for c.
Receive(r, c, p) ==
    /\ pc[r] = "idle"
    /\ podState[p] = "up"
    /\ checkout' = [checkout EXCEPT ![r] = c]
    /\ pod' = [pod EXCEPT ![r] = p]
    /\ Goto(r, "received")
    /\ UNCHANGED <<keyed, db, saved, answer, emit, process>>

\* The body is not JSON (400) or fails the validation (422), told apart by
\* nothing here: 422 stands for both.  Nothing is stored.
Reject(r) ==
    /\ pc[r] = "received"
    /\ answer' = [answer EXCEPT ![r] =
                    [status |-> 422, order |-> None, items |-> 0]]
    /\ Goto(r, "done")
    /\ UNCHANGED <<keyed, checkout, pod, db, saved, emit, process>>

\* pool.Begin waits for a free connection of the pod's pool.
Begin(r) ==
    /\ pc[r] = "received"
    /\ Cardinality(ConnsInUse(pod[r])) < MaxConns
    /\ tx' = [tx EXCEPT ![r] = "open"]
    /\ Goto(r, IF checkout[r] \in keyed THEN "check" ELSE "insert")
    /\ UNCHANGED <<keyed, checkout, pod, orderRows, itemRows, saved, answer,
                   emit, process>>

\* Create returns the order stored under the key, and rolls back.
Replay(r) ==
    /\ pc[r] = "check"
    /\ \E o \in Matches(r) : saved' = [saved EXCEPT ![r] = o]
    /\ Rollback(r)
    /\ Goto(r, "announce")
    /\ UNCHANGED <<keyed, checkout, pod, orderRows, itemRows, answer, emit,
                   process>>

CheckMissing(r) ==
    /\ pc[r] = "check"
    /\ Matches(r) = {}
    /\ Goto(r, "insert")
    /\ UNCHANGED <<keyed, checkout, pod, db, saved, answer, emit, process>>

\* Mutant of InsertOrder: idempotency_key is a plain column, not UNIQUE.
InsertOrderNotUnique(r) ==
    /\ pc[r] = "insert"
    /\ orderRows' = orderRows \cup {r}
    /\ Goto(r, "items")
    /\ UNCHANGED <<keyed, checkout, pod, tx, itemRows, saved, answer, emit,
                   process>>

\* The INSERT waits while another transaction may still commit the key.
InsertOrder(r) ==
    /\ pc[r] = "insert"
    /\ Holders(r) = {}
    /\ orderRows' = orderRows \cup {r}
    /\ Goto(r, "items")
    /\ UNCHANGED <<keyed, checkout, pod, tx, itemRows, saved, answer, emit,
                   process>>

\* The key was committed since the check: unique violation, a plain error.
InsertConflict(r) ==
    /\ pc[r] = "insert"
    /\ Holders(r) \cap Committed # {}
    /\ Rollback(r)
    /\ InternalServerError(r)
    /\ UNCHANGED <<orderRows, itemRows, process>>

\* Mutant of InsertItem: the loop over the items runs once too often.
InsertItemOnceMore(r) ==
    /\ pc[r] = "items"
    /\ itemRows[r] <= NumItems
    /\ itemRows' = [itemRows EXCEPT ![r] = @ + 1]
    /\ UNCHANGED <<keyed, checkout, pod, pc, tx, orderRows, saved, answer,
                   emit, process>>

InsertItem(r) ==
    /\ pc[r] = "items"
    /\ itemRows[r] < NumItems
    /\ itemRows' = [itemRows EXCEPT ![r] = @ + 1]
    /\ UNCHANGED <<keyed, checkout, pod, pc, tx, orderRows, saved, answer,
                   emit, process>>

\* tx.Commit is sent; the database decides on its own (DbCommit, DbAbort).
SendCommit(r) ==
    /\ pc[r] = "items"
    /\ itemRows[r] = NumItems
    /\ tx' = [tx EXCEPT ![r] = "committing"]
    /\ Goto(r, "commit")
    /\ UNCHANGED <<keyed, checkout, pod, orderRows, itemRows, saved, answer,
                   emit, process>>

\* Mutant of CommitDone: Create returns without waiting for the commit.
CommitDoneEarly(r) ==
    /\ pc[r] = "commit"
    /\ tx[r] \in {"committing", "committed"}
    /\ saved' = [saved EXCEPT ![r] = r]
    /\ Goto(r, "announce")
    /\ UNCHANGED <<keyed, checkout, pod, db, answer, emit, process>>

\* Mutant of CommitDone: only a replayed order is announced.
CommitDoneSilently(r) ==
    /\ pc[r] = "commit"
    /\ tx[r] = "committed"
    /\ saved' = [saved EXCEPT ![r] = r]
    /\ Goto(r, "respond")
    /\ UNCHANGED <<keyed, checkout, pod, db, answer, emit, process>>

CommitDone(r) ==
    /\ pc[r] = "commit"
    /\ tx[r] = "committed"
    /\ saved' = [saved EXCEPT ![r] = r]
    /\ Goto(r, "announce")
    /\ UNCHANGED <<keyed, checkout, pod, db, answer, emit, process>>

\* Mutant of CommitFailed: the error of tx.Commit is logged and forgotten.
CommitFailedIgnored(r) ==
    /\ pc[r] = "commit"
    /\ tx[r] = "aborted"
    /\ saved' = [saved EXCEPT ![r] = r]
    /\ Goto(r, "announce")
    /\ UNCHANGED <<keyed, checkout, pod, db, answer, emit, process>>

CommitFailed(r) ==
    /\ pc[r] = "commit"
    /\ tx[r] = "aborted"
    /\ InternalServerError(r)
    /\ UNCHANGED <<db, process>>

\* A database call fails (connection lost, request context cancelled, value
\* refused).  A commit whose outcome is unknown stays with the database.
DbCallFails(r) ==
    /\ Faults
    /\ pc[r] \in {"received", "commit"} \cup InTx
    /\ Rollback(r)
    /\ InternalServerError(r)
    /\ UNCHANGED <<orderRows, itemRows, process>>

\* The goroutine is started for a created and for a replayed order alike.
Announce(r) ==
    /\ pc[r] = "announce"
    /\ emit' = IF producer[pod[r]] THEN [emit EXCEPT ![r] = "pending"] ELSE emit
    /\ Goto(r, "respond")
    /\ UNCHANGED <<keyed, checkout, pod, db, saved, answer, process>>

\* Mutant of Respond: a replay is answered 201 like a creation.
RespondAlwaysCreated(r) ==
    /\ pc[r] = "respond"
    /\ answer' = [answer EXCEPT ![r] =
                    [status |-> 201, order |-> saved[r], items |-> NumItems]]
    /\ Goto(r, "done")
    /\ UNCHANGED <<keyed, checkout, pod, db, saved, emit, process>>

\* A replayed order comes from findByIdempotencyKey, which loads no items.
Respond(r) ==
    /\ pc[r] = "respond"
    /\ answer' = [answer EXCEPT ![r] =
                    [status |-> IF saved[r] = r THEN 201 ELSE 200,
                     order |-> saved[r],
                     items |-> IF saved[r] = r THEN NumItems ELSE 0]]
    /\ Goto(r, "done")
    /\ UNCHANGED <<keyed, checkout, pod, db, saved, emit, process>>

-----------------------------------------------------------------------------
(* The database.                                                           *)

DbCommit(r) ==
    /\ tx[r] = "committing"
    /\ tx' = [tx EXCEPT ![r] = "committed"]
    /\ UNCHANGED <<keyed, checkout, pod, pc, orderRows, itemRows, saved,
                   answer, emit, process>>

\* The server gives up a commit, or notices that the client is gone.
DbAbort(r) ==
    /\ \/ tx[r] = "committing" /\ (Faults \/ pc[r] = "dead")
       \/ tx[r] = "open" /\ pc[r] = "dead"
    /\ tx' = [tx EXCEPT ![r] = "aborted"]
    /\ UNCHANGED <<keyed, checkout, pod, pc, orderRows, itemRows, saved,
                   answer, emit, process>>

-----------------------------------------------------------------------------
(* The goroutine of producer.Emit, which nobody waits for.                 *)

EmitSucceeds(r) ==
    /\ emit[r] = "pending"
    /\ emit' = [emit EXCEPT ![r] = "sent"]
    /\ UNCHANGED <<keyed, checkout, pod, pc, db, saved, answer, process>>

\* The error is logged and the event dropped.
EmitFails(r) ==
    /\ Faults
    /\ emit[r] = "pending"
    /\ emit' = [emit EXCEPT ![r] = "lost"]
    /\ UNCHANGED <<keyed, checkout, pod, pc, db, saved, answer, process>>

-----------------------------------------------------------------------------
(* The processes.                                                          *)

On(p) == {r \in Requests : pod[r] = p /\ pc[r] \in Handling}

\* The process of pod p is gone, with its handlers and their goroutines.
Vanish(p) ==
    /\ podState' = [podState EXCEPT ![p] = "down"]
    /\ pc' = [r \in Requests |-> IF r \in On(p) THEN "dead" ELSE pc[r]]
    /\ emit' = [r \in Requests |->
                  IF pod[r] = p /\ emit[r] = "pending" THEN "lost" ELSE emit[r]]
    /\ UNCHANGED <<keyed, checkout, pod, db, saved, answer, producer>>

\* SIGTERM: srv.Shutdown takes no new request and waits for the handlers.
Terminate(p) ==
    /\ podState[p] = "up"
    /\ stops < MaxStops
    /\ stops' = stops + 1
    /\ podState' = [podState EXCEPT ![p] = "draining"]
    /\ UNCHANGED <<keyed, checkout, pod, pc, db, saved, answer, emit, producer>>

\* main returns once the handlers are done; emitting goroutines die with it.
\* After 30 seconds it exits whether they are done or not.
Exit(p) ==
    /\ podState[p] = "draining"
    /\ Vanish(p)
    /\ UNCHANGED stops

Crash(p) ==
    /\ podState[p] = "up"
    /\ stops < MaxStops
    /\ stops' = stops + 1
    /\ Vanish(p)

\* A process that starts while Kafka is unreachable runs without a producer.
Restart(p) ==
    /\ podState[p] = "down"
    /\ podState' = [podState EXCEPT ![p] = "up"]
    /\ \E b \in Connected : producer' = [producer EXCEPT ![p] = b]
    /\ UNCHANGED <<keyed, checkout, pod, pc, db, saved, answer, emit, stops>>

-----------------------------------------------------------------------------
HandlerStep(r) ==
    \/ Begin(r) \/ Replay(r) \/ CheckMissing(r)
    \/ InsertOrder(r) \/ InsertConflict(r) \/ InsertItem(r)
    \/ SendCommit(r) \/ CommitDone(r) \/ CommitFailed(r)
    \/ Announce(r) \/ Respond(r)

DbStep(r) == DbCommit(r) \/ DbAbort(r)

Next ==
    \/ \E r \in Requests :
        \/ \E c \in Checkouts, p \in Pods : Receive(r, c, p)
        \/ Reject(r) \/ DbCallFails(r)
        \/ HandlerStep(r) \/ DbStep(r)
        \/ EmitSucceeds(r) \/ EmitFails(r)
    \/ \E p \in Pods : Terminate(p) \/ Exit(p) \/ Crash(p) \/ Restart(p)

\* The Go scheduler runs every ready handler and goroutine, and PostgreSQL
\* settles every transaction; clients, faults and signals owe nothing.
Fairness ==
    /\ \A r \in Requests : /\ WF_vars(HandlerStep(r))
                           /\ WF_vars(DbStep(r))
                           /\ WF_vars(EmitSucceeds(r))
    /\ \A p \in Pods : WF_vars(Exit(p))

Spec == Init /\ [][Next]_vars
FairSpec == Spec /\ Fairness

-----------------------------------------------------------------------------
(* Properties.                                                             *)

TypeOK ==
    /\ keyed \in SUBSET Checkouts
    /\ checkout \in [Requests -> Checkouts \cup {None}]
    /\ pod \in [Requests -> Pods \cup {None}]
    /\ pc \in [Requests -> Handling \cup {"idle", "done", "dead"}]
    /\ tx \in [Requests -> {"none", "open", "committing", "committed", "aborted"}]
    /\ orderRows \in SUBSET Requests
    /\ itemRows \in [Requests -> 0 .. NumItems]
    /\ saved \in [Requests -> Requests \cup {None}]
    /\ answer \in [Requests -> [status : {0, 201, 200, 422, 500},
                                order : Requests \cup {None},
                                items : 0 .. NumItems]]
    /\ emit \in [Requests -> {"none", "pending", "sent", "lost"}]
    /\ podState \in [Pods -> {"up", "draining", "down"}]
    /\ producer \in [Pods -> BOOLEAN]
    /\ stops \in 0 .. MaxStops

\* However attempts with one idempotency key interleave, retry and die, in
\* whatever pods, at most one of them leaves an order behind.
OneOrderPerKey ==
    \A r, q \in Committed : SameKey(r, q) => r = q

\* A 201 or 200 names an order that is durable, with all its line items, and
\* that belongs to the attempt that is answered or to its key.
AnswersNameStoredOrders ==
    \A r \in Requests : answer[r].status \in {200, 201} =>
        LET o == answer[r].order IN
            /\ o \in Committed
            /\ o = r \/ SameKey(r, o)
            /\ itemRows[o] = NumItems

\* checkout.completed is never published, nor about to be, for an order that
\* is not durable with all its line items: no phantom order downstream.
EventsNameStoredOrders ==
    \A r \in Requests : emit[r] \in {"pending", "sent"} =>
        /\ saved[r] \in Committed
        /\ itemRows[saved[r]] = NumItems

\* What the client knows of the order: the promise says nothing of its items.
Told == [r \in Requests |->
            [status |-> answer[r].status, order |-> answer[r].order]]

\* The handler implements the promise: what is durable is what is committed,
\* what the client knows is what the handler wrote.
Promise == INSTANCE OrderPromise WITH orders <- Committed, answer <- Told

KeepsPromise == Promise!Spec

\* No attempt waits for ever, neither for a connection of the pool nor for
\* the transaction that holds its key: it is answered or its pod is gone.
EveryAttemptEnds ==
    \A r \in Requests : (pc[r] \in Handling) ~> (pc[r] \in {"done", "dead"})

\* Every durable order is published, by its own attempt or by a replay, unless
\* a pod was stopped, ran without a producer, or the attempt that stored it
\* was told of an error or could not reach the broker.
EveryOrderIsAnnounced ==
    \A r \in Requests : (r \in Committed) ~>
        \/ \E q \in Requests : saved[q] = r /\ emit[q] = "sent"
        \/ stops > 0 \/ \E p \in Pods : ~ producer[p]
        \/ answer[r].status = 500 \/ emit[r] = "lost"

\* Repository.Create's comment: if a matching order exists for the key it
\* returns that order without error.  An attempt that carries a key and is
\* answered 500 by a database that works has no matching order.
ReplayedWithoutError ==
    [][\A r \in Requests :
          (answer[r] = NoAnswer /\ answer'[r].status = 500) => Matches(r) = {}]_vars

-----------------------------------------------------------------------------
(* The inductive invariant: what has to hold besides for OneOrderPerKey    *)
(* and the promise to survive every step.                                  *)

\* Where a handler is says how far its transaction is.
HandlerInv(r) ==
    /\ pc[r] = "idle" => /\ checkout[r] = None /\ pod[r] = None
                         /\ tx[r] = "none" /\ saved[r] = None
    /\ pc[r] # "idle" => checkout[r] \in Checkouts /\ pod[r] \in Pods
    /\ pc[r] = "received" => tx[r] = "none"
    /\ pc[r] \in InTx => tx[r] = "open"
    /\ pc[r] = "items" => r \in orderRows
    /\ pc[r] # "done" => answer[r] = NoAnswer

\* What is about to be durable is complete.
RowInv(r) ==
    /\ tx[r] = "none" => r \notin orderRows
    /\ tx[r] \in {"committing", "committed"} =>
        r \in orderRows /\ itemRows[r] = NumItems

\* The unique index: of two rows with one key, one is rolled back.
KeyInv ==
    \A r, q \in orderRows :
        r # q /\ SameKey(r, q) => tx[r] = "aborted" \/ tx[q] = "aborted"

\* Create returns durable orders, and the event and the answer are about them.
SavedInv(r) ==
    /\ saved[r] # None =>
        saved[r] \in Committed /\ (saved[r] = r \/ SameKey(r, saved[r]))
    /\ pc[r] \in {"announce", "respond"} => saved[r] # None
    /\ emit[r] # "none" => saved[r] # None
    /\ answer[r].status \in {200, 201} =>
        saved[r] # None /\ answer[r].order = saved[r]

IInv ==
    /\ TypeOK
    /\ KeyInv
    /\ \A r \in Requests : HandlerInv(r) /\ RowInv(r) /\ SavedInv(r)
=============================================================================
