----------------------------- MODULE CartService -----------------------------
(***************************************************************************)
(* cart-service: HandleCart on several pods.  Every pod keeps the carts of *)
(* all users in a map of its own, which its handlers share without a lock; *)
(* a request goes to any pod.                                              *)
(*                                                                         *)
(* A cart is a pointer to a slice of entries: the map is read and the      *)
(* slice is read again at every use, so each use is a step.  Uses that     *)
(* follow one another are steps of their own; where two of them coincide   *)
(* and one writes, Go promises nothing: a slice header is three words, and *)
(* two slices may share an array.  Race says which pods that has happened  *)
(* to; their handlers are stray until the pod restarts.                    *)
(*                                                                         *)
(* The event cart.updated goes to a topic that only audit-service reads;   *)
(* its outcome changes nothing here.                                       *)
(***************************************************************************)
EXTENDS Naturals, Sequences

CONSTANTS Requests, CartPods, Users, Offers,
          Wild,  \* what the carts of a pod may look like after a race
          None   \* no pod, no user, no offer; the nil cart

VARIABLES
    carts,   \* carts[p][u]: the entries of u's cart on pod p, or None
    cart,    \* the handler of every request
    raced    \* the pods whose handlers have raced since they started

cartVars == <<carts, cart, raced>>

Idle == [pc |-> "idle", method |-> None, pod |-> None, user |-> None,
         offer |-> None, at |-> 0, seen |-> <<>>, status |-> 0]

\* Mutant of Entry: the quantity of the request is lost.
EntryEmpty(o) == [offer |-> o, quantity |-> 0]

Entry(o) == [offer |-> o, quantity |-> 1]

\* What is left of a handler that has returned: its answer.
Reply(q, status, items) ==
    cart' = [cart EXCEPT ![q] = [Idle EXCEPT !.pc = "done", !.status = status,
                                             !.seen = items]]

\* The caller takes the answer.
Collect(q) ==
    /\ cart[q].pc = "done"
    /\ cart' = [cart EXCEPT ![q] = [Idle EXCEPT !.pc = "done"]]

\* The entries handler q finds when it looks its cart up.
Items(q) == carts[cart[q].pod][cart[q].user]

SetItems(q, items) ==
    carts' = [carts EXCEPT ![cart[q].pod][cart[q].user] = items]

Goto(q, pc) == cart' = [cart EXCEPT ![q].pc = pc]

Init ==
    /\ carts = [p \in CartPods |-> [u \in Users |-> None]]
    /\ cart = [q \in Requests |-> Idle]
    /\ raced = {}

Begin(q, p, method, u, o) ==
    /\ cart[q] = Idle
    /\ cart' = [cart EXCEPT ![q] =
                   [Idle EXCEPT !.pc = IF p \in raced THEN "stray" ELSE "check",
                                !.method = method, !.pod = p, !.user = u, !.offer = o]]
    /\ UNCHANGED <<carts, raced>>

\* if h.carts[userID] == nil
CheckCart(q) ==
    /\ cart[q].pc = "check"
    /\ Goto(q, IF Items(q) = None THEN "create" ELSE cart[q].method)
    /\ UNCHANGED <<carts, raced>>

\* A cart that another handler created meanwhile is replaced.
CreateCart(q) ==
    /\ cart[q].pc = "create"
    /\ SetItems(q, <<>>)
    /\ Goto(q, cart[q].method)
    /\ UNCHANGED raced

\* Mutant of GetCart: the answer is written before the cart is read.
GetCartEmpty(q) ==
    /\ cart[q].pc = "GET"
    /\ Reply(q, 200, <<>>)
    /\ UNCHANGED <<carts, raced>>

GetCart(q) ==
    /\ cart[q].pc = "GET"
    /\ Reply(q, 200, Items(q))
    /\ UNCHANGED <<carts, raced>>

\* The loop over the entries ends at the first one with the offer, or at none.
ScanItems(q) ==
    LET matches == {i \in DOMAIN Items(q) : Items(q)[i].offer = cart[q].offer} IN
    /\ cart[q].pc = "POST"
    /\ \/ matches = {} /\ Goto(q, "append")
       \/ \E i \in matches : /\ \A j \in matches : i <= j
                             /\ cart' = [cart EXCEPT ![q].pc = "update", ![q].at = i]
    /\ UNCHANGED <<carts, raced>>

\* Another handler is about to write what q writes.
Racing(q) ==
    \E r \in Requests \ {q} :
        /\ cart[r].pc = "update"
        /\ cart[r].pod = cart[q].pod /\ cart[r].user = cart[q].user
        /\ cart[r].at = cart[q].at

\* Handlers with a slice that may share the array whose index k gets entry e: an
\* array has room for another entry only once there are three.  The write adds
\* at most one unit to what they see.
Sharing(q, k, e) ==
    {r \in Requests \ {q} :
        /\ cart[r].pc = "store"
        /\ cart[r].pod = cart[q].pod /\ cart[r].user = cart[q].user
        /\ Len(cart[r].seen) >= 3 /\ k \in DOMAIN cart[r].seen
        /\ e.quantity <= cart[r].seen[k].quantity + 1}

\* q has written entry e at index k, and any of these see it.
Written(q, k, e) ==
    \E rs \in SUBSET Sharing(q, k, e) :
        cart' = [r \in Requests |->
                    IF r = q THEN [cart[q] EXCEPT !.pc = "emit"]
                    ELSE IF r \in rs THEN [cart[r] EXCEPT !.seen[k] = e]
                    ELSE cart[r]]

\* Mutant of UpdateQuantity: one unit too many.
UpdateQuantityTwice(q) ==
    /\ cart[q].pc = "update"
    /\ cart[q].at \in DOMAIN Items(q)
    /\ SetItems(q, [Items(q) EXCEPT ![cart[q].at].quantity = @ + 2])
    /\ Goto(q, "emit")
    /\ UNCHANGED raced

\* The entry at the index that was found, whatever offer it is for by now.
\* Of two unsynchronised additions one may be lost.
UpdateQuantity(q) ==
    /\ cart[q].pc = "update"
    /\ cart[q].at \in DOMAIN Items(q)
    /\ LET i == cart[q].at
           more == [Items(q) EXCEPT ![i].quantity = @ + 1] IN
       \/ SetItems(q, more) /\ Written(q, i, more[i])
       \/ Racing(q) /\ Goto(q, "emit") /\ UNCHANGED carts
    /\ UNCHANGED raced

\* The cart has been cleared meanwhile: index out of range.  net/http recovers
\* the panic and drops the connection, the gateway answers 502.
UpdatePanics(q) ==
    /\ cart[q].pc = "update"
    /\ cart[q].at \notin DOMAIN Items(q)
    /\ Reply(q, 502, <<>>)
    /\ UNCHANGED <<carts, raced>>

\* append(items, item): the slice is read ...
ReadItems(q) ==
    /\ cart[q].pc = "append"
    /\ cart' = [cart EXCEPT ![q].pc = "store", ![q].seen = Items(q)]
    /\ UNCHANGED <<carts, raced>>

\* ... and the new one is stored, over whatever is there.  Where CreateCart came
\* between, it may go to the replaced cart instead: as if the cart had been
\* created after it.
StoreItems(q) ==
    /\ cart[q].pc = "store"
    /\ SetItems(q, Append(cart[q].seen, Entry(cart[q].offer)))
    /\ Written(q, Len(cart[q].seen) + 1, Entry(cart[q].offer))
    /\ UNCHANGED raced

\* producer.Emit returns; an error is only logged.
EmitReturns(q) ==
    /\ cart[q].pc = "emit"
    /\ Reply(q, 200, <<>>)
    /\ UNCHANGED <<carts, raced>>

\* Mutant of ClearCart: a copy of the cart is cleared.
ClearCartCopy(q) ==
    /\ cart[q].pc = "DELETE"
    /\ Reply(q, 200, <<>>)
    /\ UNCHANGED <<carts, raced>>

ClearCart(q) ==
    /\ cart[q].pc = "DELETE"
    /\ SetItems(q, <<>>)
    /\ Reply(q, 200, <<>>)
    /\ UNCHANGED raced

Running(q) == cart[q].pc \notin {"idle", "done"}

\* Handlers q and r of one pod are about to use the same memory, q to write it:
\* the map, which every handler reads again and again, or the cart they share.
Conflict(q, r) ==
    /\ q # r /\ Running(q) /\ Running(r)
    /\ cart[q].pod = cart[r].pod
    /\ \/ cart[q].pc = "create"
       \/ cart[q].user = cart[r].user /\ cart[q].pc \in {"update", "store", "DELETE"}

Strayed(handler) == [handler EXCEPT !.pc = "stray", !.at = 0, !.seen = <<>>]

\* They do so at once.  From now on the memory of the pod may hold anything:
\* carts says no more of it, and None stands for what cannot be known.
Race(p) ==
    /\ \E q, r \in Requests : Conflict(q, r) /\ cart[q].pod = p
    /\ raced' = raced \cup {p}
    /\ carts' = [carts EXCEPT ![p] = [u \in Users |-> None]]
    /\ cart' = [q \in Requests |-> IF cart[q].pod = p /\ Running(q)
                                   THEN Strayed(cart[q]) ELSE cart[q]]

\* A handler of such a pod answers, with any cart where it is asked for one, or
\* panics.
Stray(q) ==
    /\ cart[q].pc = "stray"
    /\ \/ \E items \in IF cart[q].method = "GET" THEN Wild ELSE {<<>>} : Reply(q, 200, items)
       \/ Reply(q, 502, <<>>)
    /\ UNCHANGED <<carts, raced>>

\* A pod dies with its map and its handlers, also by the runtime's fatal error
\* "concurrent map writes", and comes back empty.
CrashCart(p) ==
    /\ carts' = [carts EXCEPT ![p] = [u \in Users |-> None]]
    /\ cart' = [q \in Requests |-> IF cart[q].pod = p /\ Running(q)
                                   THEN [Idle EXCEPT !.pc = "done", !.status = 502]
                                   ELSE cart[q]]
    /\ raced' = raced \ {p}

HandlerStep(q) ==
    \/ CheckCart(q) \/ CreateCart(q) \/ GetCart(q) \/ ScanItems(q)
    \/ UpdateQuantity(q) \/ UpdatePanics(q) \/ ReadItems(q) \/ StoreItems(q)
    \/ EmitReturns(q) \/ ClearCart(q) \/ Stray(q)

-----------------------------------------------------------------------------
Entries == [offer : Offers, quantity : Nat \ {0}]

TypeOK ==
    /\ carts \in [CartPods -> [Users -> Seq(Entries) \cup {None}]]
    /\ cart \in [Requests -> [pc : {"idle", "check", "create", "GET", "POST", "DELETE",
                                    "append", "store", "update", "emit", "stray",
                                    "done"},
                              method : {"GET", "POST", "DELETE", None},
                              pod : CartPods \cup {None},
                              user : Users \cup {None},
                              offer : Offers \cup {None},
                              at : Nat,
                              seen : Seq(Entries),
                              status : {0, 200, 502}]]
    /\ raced \in SUBSET CartPods
=============================================================================
