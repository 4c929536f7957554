---------------------------- MODULE OrderPromise ----------------------------
(***************************************************************************)
(* What POST /v1/orders promises, seen from outside order-service: orders  *)
(* become durable, and every answer that names an order names a durable    *)
(* one.  A checkout whose client sends the X-Idempotency-Key header gets   *)
(* at most one order however often the POST is sent; without the header    *)
(* every POST may create an order of its own.  An attempt may always be    *)
(* answered with an error, also one whose order is or becomes durable.     *)
(*                                                                         *)
(* An order is named by the attempt that minted its id.                    *)
(***************************************************************************)

CONSTANTS Requests,   \* the POST attempts, each one call of the handler
          Checkouts,  \* what the clients are buying: retries share a checkout
          None        \* neither an attempt nor a checkout

VARIABLES keyed,      \* the checkouts whose attempts carry an idempotency key
          checkout,   \* the checkout of every attempt, None before it arrives
          orders,     \* the durable orders
          answer      \* what the client of every attempt was told

promiseVars == <<keyed, checkout, orders, answer>>

\* Two attempts that carry the same idempotency key.
SameKey(r, q) ==
    /\ checkout[r] \in keyed
    /\ checkout[q] = checkout[r]

Unanswered == [status |-> 0, order |-> None]

Init ==
    /\ keyed \in SUBSET Checkouts
    /\ checkout = [r \in Requests |-> None]
    /\ orders = {}
    /\ answer = [r \in Requests |-> Unanswered]

Arrive(r, c) ==
    /\ checkout[r] = None
    /\ checkout' = [checkout EXCEPT ![r] = c]
    /\ UNCHANGED <<keyed, orders, answer>>

\* The order of attempt r becomes durable, perhaps after the client was told
\* of an error, but never beside another order under the same key.
Store(r) ==
    /\ checkout[r] # None
    /\ ~ \E q \in orders : q = r \/ SameKey(r, q)
    /\ orders' = orders \cup {r}
    /\ UNCHANGED <<keyed, checkout, answer>>

\* 201 for the attempt's own order, 200 for the one stored under its key.
Confirm(r) ==
    /\ answer[r] = Unanswered
    /\ \E o \in orders :
        /\ o = r \/ SameKey(r, o)
        /\ answer' = [answer EXCEPT ![r] =
                        [status |-> IF o = r THEN 201 ELSE 200, order |-> o]]
    /\ UNCHANGED <<keyed, checkout, orders>>

Refuse(r) ==
    /\ checkout[r] # None
    /\ answer[r] = Unanswered
    /\ \E s \in {422, 500} :
        answer' = [answer EXCEPT ![r] = [status |-> s, order |-> None]]
    /\ UNCHANGED <<keyed, checkout, orders>>

Next == \E r \in Requests :
    \/ \E c \in Checkouts : Arrive(r, c)
    \/ Store(r)
    \/ Confirm(r)
    \/ Refuse(r)

Spec == Init /\ [][Next]_promiseVars
=============================================================================
