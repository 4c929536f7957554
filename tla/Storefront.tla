------------------------------ MODULE Storefront ------------------------------
(***************************************************************************)
(* The shop as a client sees it: storefront-service (the BFF), the routes  *)
(* of api-gateway, and behind them AuthService and CartService as they     *)
(* are.  The BFF knows a user by the cookie auth_user, which handleLogin   *)
(* sets from the answer of auth-service; a browser sends back the cookies  *)
(* it was given, a script sends what it likes.                             *)
(*                                                                         *)
(* Requests are numbered in the order in which they arrive.                *)
(***************************************************************************)
EXTENDS Naturals, Sequences, FiniteSets

CONSTANTS MaxRequests,   \* bound: requests to the shop
          MaxInFlight,   \* bound: requests that are under way at a time
          Workloads,     \* bound: sets of routes that are asked for together
          Routing,       \* bound: the pods that a request may be sent to
          Browsers, Scripts, AuthPods, CartPods, Users, Tokens, Offers, None,
          Wild,          \* what carts may look like after a race in cart-service
          Blank          \* a cookie that is there, with an empty value

ASSUME BoundsAssumption == MaxRequests \in Nat \ {0} /\ MaxInFlight \in Nat \ {0}
ASSUME RoutingAssumption == \A q \in 1 .. MaxRequests :
    Routing[q] \cap AuthPods # {} /\ Routing[q] \cap CartPods # {}
ASSUME NoneAssumption ==
    /\ None \notin AuthPods \cup CartPods \cup Users \cup Tokens \cup Offers
    /\ None \notin Seq([offer : Offers, quantity : Nat])
ASSUME WildAssumption == Wild \in SUBSET Seq([offer : Offers, quantity : Nat \ {0}])
ASSUME BlankAssumption == Blank \notin Users \cup {None}

Requests == 1 .. MaxRequests

VARIABLES users, owner, expired, blacklist, cache, auth, cleared, learned
VARIABLES carts, cart, raced
VARIABLES
    workload,   \* the routes that are asked for
    bff,        \* the storefront's handler of every request
    jar,        \* the cookie auth_user of every browser, or None
    loggedIn,   \* history: the user of every browser's last login, or None
    disturbed,  \* history: users whose cart nobody could predict any more
    book,       \* history: the cart another user expects, offer by offer
    home,       \* history: the pod of such a user's calls, or None
    begun       \* history: units that were in the carts or on their way

Auth == INSTANCE AuthService
Cart == INSTANCE CartService

authVars == <<users, owner, expired, blacklist, cache, auth, cleared, learned>>
cartVars == <<carts, cart, raced>>
bookkeeping == <<disturbed, book, home, begun>>
sessions == <<jar, loggedIn>>
vars == <<authVars, cartVars, workload, bff, sessions, bookkeeping>>

Clients == Browsers \cup Scripts
Outcomes == {"answered", "failed", "rejected"}
Protected == {"/cart", "/cart/add", "/checkout", "/payment/process"}
Routes == Protected \cup {"/login", "/signup", "/logout", "/cart/remove",
                          "/api/v1/validate"}

\* The method each route uses on /api/v1/cart.
CartMethod == [r \in Protected |-> CASE r = "/cart/add" -> "POST"
                                     [] r = "/payment/process" -> "DELETE"
                                     [] OTHER -> "GET"]

NoOffers == [o \in Offers |-> 0]

Waiting == [pc |-> "waiting", route |-> None, client |-> None, user |-> None,
            offer |-> None, seen |-> <<>>]

\* What is left of a request: "answered" with success, "failed" with an error.
Ended(outcome) == [Waiting EXCEPT !.pc = outcome]

Init ==
    /\ Auth!Init
    /\ workload \in Workloads
    /\ "/login" \notin workload => users = {}
    /\ bff = [q \in Requests |-> Waiting]
    /\ jar = [c \in Browsers |-> None]
    /\ loggedIn = [c \in Browsers |-> None]
    /\ cart = [q \in Requests |-> Cart!Idle]
    /\ disturbed = {}
    /\ carts = [p \in CartPods |-> [u \in Users |-> None]]
    /\ raced = {}
    /\ book = [u \in Users |-> NoOffers]
    /\ home = [u \in Users |-> None]
    /\ begun = 0

-----------------------------------------------------------------------------
(* A request arrives.                                                      *)

\* A call of q is still running at the service behind the gateway.
Behind(q) == Auth!Running(q) \/ Cart!Running(q)
InFlight(q) == bff[q].pc \in {"call", "called", "offers"} \/ Behind(q)

\* The requests are numbered as they come.
Turn(q) ==
    /\ bff[q].pc = "waiting"
    /\ \A r \in 1 .. q - 1 : bff[r].pc # "waiting"
    /\ Cardinality({r \in Requests : InFlight(r)}) < MaxInFlight

\* GetAuthenticatedUser: the value of the cookie, None if it is empty.
CookieUser(c) ==
    IF c \in Scripts THEN Users \cup {None}
    ELSE {IF jar[c] \in Users THEN jar[c] ELSE None}

Arrive(q, route, next) ==
    /\ Turn(q)
    /\ route \in workload
    /\ bff' = [bff EXCEPT ![q] = next]
    /\ UNCHANGED workload

Call(route, c, u) == [Waiting EXCEPT !.pc = "call", !.route = route,
                                     !.client = c, !.user = u]

\* A protected route without a user answers 401 ...
Reject(q, route, c) ==
    /\ route \in Protected
    /\ None \in CookieUser(c)
    /\ Arrive(q, route, [Ended("rejected") EXCEPT !.client = c])
    /\ UNCHANGED <<authVars, cartVars, sessions, bookkeeping>>

\* ... with a user, 405 or 400 where it looks at the method or the body ...
Refuse(q, route, c) ==
    /\ route \in {"/cart/add", "/payment/process"}
    /\ CookieUser(c) # {None}
    /\ Arrive(q, route, Ended("failed"))
    /\ UNCHANGED <<authVars, cartVars, sessions, bookkeeping>>

\* ... or it goes on to the cart.
Admit(q, route, c) ==
    /\ route \in Protected
    /\ \E u \in CookieUser(c) \ {None} : Arrive(q, route, Call(route, c, u))
    /\ UNCHANGED <<authVars, cartVars, sessions, bookkeeping>>

\* /login and /signup in a browser: the credentials are in the body.
Present(q, route, c) ==
    /\ route \in {"/login", "/signup"}
    /\ c \in Browsers
    /\ \E u \in Users : Arrive(q, route, Call(route, c, u))
    /\ UNCHANGED <<authVars, cartVars, sessions, bookkeeping>>

\* handleLogout clears both cookies; the token stays valid.
Logout(q, c) ==
    /\ c \in Browsers
    /\ Arrive(q, "/logout", Ended("answered"))
    /\ jar' = [jar EXCEPT ![c] = None]
    /\ loggedIn' = [loggedIn EXCEPT ![c] = None]
    /\ UNCHANGED <<authVars, cartVars, bookkeeping>>

\* handleRemoveFromCart: not implemented.
Remove(q, c) ==
    /\ Arrive(q, "/cart/remove", Ended("answered"))
    /\ UNCHANGED <<authVars, cartVars, sessions, bookkeeping>>

\* The gateway passes /api/v1/validate, which scripts ask for, on to
\* auth-service.
Validate(q, c) ==
    /\ c \in Scripts
    /\ Arrive(q, "/api/v1/validate",
              [Waiting EXCEPT !.pc = "called", !.route = "/api/v1/validate"])
    /\ \E t \in Tokens : \/ \E p \in AuthPods \cap Routing[q] : Auth!Validate(q, p, t)
                         \/ Auth!RejectToken(q, t)
    /\ UNCHANGED <<cartVars, sessions, bookkeeping>>

-----------------------------------------------------------------------------
(* Calls through the gateway.                                              *)

CallAuth(q, p) ==
    /\ bff[q].pc = "call"
    /\ \/ bff[q].route = "/login" /\ Auth!Login(q, p, bff[q].user)
       \/ bff[q].route = "/signup" /\ Auth!Signup(q, p, bff[q].user)
    /\ bff' = [bff EXCEPT ![q].pc = "called"]
    /\ UNCHANGED <<cartVars, workload, sessions, bookkeeping>>

\* Another request of the user is under way, at the BFF or behind it.
Overlaps(q, u) ==
    \E r \in Requests \ {q} :
        /\ bff[r].route \in Protected /\ bff[r].user = u
        /\ bff[r].pc \in {"called", "offers"} \/ Cart!Running(r)

\* Nobody can predict the carts of these users any more.
Disturb(us) ==
    /\ disturbed' = disturbed \cup us
    /\ book' = [u \in Users |-> IF u \in us THEN NoOffers ELSE book[u]]
    /\ home' = [u \in Users |-> IF u \in us THEN None ELSE home[u]]

\* Unless its cart is disturbed, u expects it to hold this from now on.
Expect(u, expected) ==
    /\ book' = IF u \in disturbed THEN book ELSE [book EXCEPT ![u] = expected]
    /\ UNCHANGED <<disturbed, home>>

\* The offer is the one in the body of /cart/add.
CallCart(q, p) ==
    LET u == bff[q].user IN
    /\ bff[q].pc = "call"
    /\ bff[q].route \in Protected
    /\ \E o \in IF bff[q].route = "/cart/add" THEN Offers ELSE {None} :
        /\ Cart!Begin(q, p, CartMethod[bff[q].route], u, o)
        /\ bff' = [bff EXCEPT ![q] = [@ EXCEPT !.pc = "called", !.offer = o]]
    /\ IF Overlaps(q, u) \/ home[u] \notin {None, p} \/ p \in raced THEN Disturb({u})
       ELSE /\ home' = IF u \in disturbed THEN home ELSE [home EXCEPT ![u] = p]
            /\ UNCHANGED <<disturbed, book>>
    /\ begun' = IF bff[q].route = "/cart/add" THEN begun + 1 ELSE begun
    /\ UNCHANGED <<authVars, carts, raced, workload, sessions>>

-----------------------------------------------------------------------------
(* What the BFF makes of the answer.                                       *)

Respond(q, outcome) == bff' = [bff EXCEPT ![q] = Ended(outcome)]

\* handleCart and handleCheckout fetch the offers next, to price the entries.
FetchNext(q, items) ==
    bff' = [bff EXCEPT ![q].pc = "offers", ![q].seen = items]

\* The call failed: no connection, an error status.  An addition answers 500;
\* payment does not look at it and succeeds; a cart is shown without entries.
WithoutCart(q) ==
    LET route == bff[q].route IN
    \/ route = "/cart/add" /\ Respond(q, "failed")
    \/ route \in {"/payment/process", "/checkout"} /\ Respond(q, "answered")
    \/ route = "/cart" /\ FetchNext(q, None)

\* The call got its 200.
WithCart(q) ==
    LET route == bff[q].route
        u == bff[q].user IN
    /\ \/ /\ route = "/cart/add"
          /\ Respond(q, "answered")
          /\ Expect(u, [book[u] EXCEPT ![bff[q].offer] = @ + 1])
       \/ /\ route = "/payment/process"
          /\ Respond(q, "answered")
          /\ Expect(u, NoOffers)
       \/ /\ route \in {"/cart", "/checkout"}
          /\ FetchNext(q, cart[q].seen)
          /\ Expect(u, book[u])

CartAnswers(q) ==
    /\ bff[q].pc = "called"
    /\ bff[q].route \in Protected
    /\ IF cart[q].status = 200 THEN WithCart(q)
       ELSE WithoutCart(q) /\ Disturb({bff[q].user})
    /\ Cart!Collect(q)
    /\ UNCHANGED <<authVars, carts, raced, workload, sessions, begun>>

\* The gateway or the service behind it cannot be reached.  The cart stays as
\* it is: the user can tell from the answer, except after a payment.
CartUnreachable(q) ==
    LET u == bff[q].user IN
    /\ bff[q].pc = "call"
    /\ bff[q].route \in Protected
    /\ WithoutCart(q)
    /\ IF Overlaps(q, u) \/ bff[q].route = "/payment/process" THEN Disturb({u})
       ELSE UNCHANGED <<disturbed, book, home>>
    /\ UNCHANGED <<authVars, cartVars, workload, sessions, begun>>

\* The client of GET and DELETE gives up after 5 s; the one of POST never does.
\* The handler behind it goes on.
CartTimesOut(q) ==
    /\ bff[q].pc = "called"
    /\ bff[q].route \in Protected \ {"/cart/add"}
    /\ Cart!Running(q)
    /\ WithoutCart(q)
    /\ Disturb({bff[q].user})
    /\ UNCHANGED <<authVars, cartVars, workload, sessions, begun>>

\* Mutant of FetchOffers: a call that fails is made again, for ever.
FetchOffersForEver(q) ==
    /\ bff[q].pc = "offers"
    /\ UNCHANGED vars

\* The page shows what was seen of the cart, at no price if the call failed.
FetchOffers(q) ==
    /\ bff[q].pc = "offers"
    /\ Respond(q, "answered")
    /\ UNCHANGED <<authVars, cartVars, workload, sessions, bookkeeping>>

\* The answer of Login holds a token and no username: auth_user is set empty.
SetCookies(q) ==
    LET c == bff[q].client IN
    /\ jar' = IF c \in Browsers THEN [jar EXCEPT ![c] = Blank] ELSE jar
    /\ loggedIn' = IF c \in Browsers THEN [loggedIn EXCEPT ![c] = bff[q].user]
                   ELSE loggedIn

\* A good answer of auth-service is a success for the client, any other a
\* failure; the gateway passes both on.
AuthAnswers(q) ==
    /\ bff[q].pc = "called"
    /\ bff[q].route \notin Protected
    /\ Auth!Collect(q)
    /\ Respond(q, IF auth[q].status \in {200, 201} THEN "answered" ELSE "failed")
    /\ IF bff[q].route = "/login" /\ auth[q].status = 200
       THEN SetCookies(q) ELSE UNCHANGED sessions
    /\ UNCHANGED <<users, owner, expired, blacklist, cache, cleared, learned, cartVars, workload, bookkeeping>>

AuthUnreachable(q) ==
    /\ bff[q].pc = "call"
    /\ bff[q].route \in {"/login", "/signup"}
    /\ Respond(q, "failed")
    /\ UNCHANGED <<authVars, cartVars, workload, sessions, bookkeeping>>

-----------------------------------------------------------------------------
Arrival(q) ==
    \E c \in Clients :
        \/ \E route \in Routes : Reject(q, route, c) \/ Refuse(q, route, c)
                                 \/ Admit(q, route, c) \/ Present(q, route, c)
        \/ Logout(q, c) \/ Remove(q, c) \/ Validate(q, c)

BffStep(q) ==
    \/ \E p \in AuthPods \cap Routing[q] : CallAuth(q, p)
    \/ \E p \in CartPods \cap Routing[q] : CallCart(q, p)
    \/ CartAnswers(q) \/ CartUnreachable(q) \/ CartTimesOut(q) \/ FetchOffers(q)
    \/ AuthAnswers(q) \/ AuthUnreachable(q)

AuthStep(q) ==
    Auth!HandlerStep(q) /\ UNCHANGED <<cartVars, workload, bff, sessions, bookkeeping>>

CartStep(q) ==
    Cart!HandlerStep(q) /\ UNCHANGED <<authVars, workload, bff, sessions, bookkeeping>>

AuthEnvironment ==
    /\ "/api/v1/validate" \in workload
    /\ Auth!Environment
    /\ UNCHANGED <<cartVars, workload, bff, sessions, bookkeeping>>

\* Whoever has a cart on a pod that crashes or whose handlers race, or is on the
\* way to it, cannot rely on it any more.
CartFails(p) ==
    /\ "/cart" \in workload
    /\ Cart!CrashCart(p) \/ Cart!Race(p)
    /\ Disturb({u \in Users : home[u] = p})
    /\ UNCHANGED <<authVars, workload, bff, sessions, begun>>

\* The requests that something can still happen to, whether answered or not.
UnderWay == {q \in Requests : InFlight(q)}

Next ==
    \/ \E q \in {r \in Requests : Turn(r)} : Arrival(q)
    \/ \E q \in UnderWay : BffStep(q) \/ AuthStep(q) \/ CartStep(q)
    \/ AuthEnvironment
    \/ \E p \in CartPods : CartFails(p)

\* A handler that can go on does, one or another: no request needs a fairness
\* of its own, since each takes finitely many steps.  Nothing is assumed of
\* clients, pods, Redis or tokens.
Fairness == WF_vars(\E q \in UnderWay : BffStep(q) \/ AuthStep(q) \/ CartStep(q))

Spec == Init /\ [][Next]_vars
FairSpec == Spec /\ Fairness

-----------------------------------------------------------------------------
(* Properties.                                                             *)

TypeOK ==
    /\ Auth!TypeOK
    /\ Cart!TypeOK
    /\ workload \in Workloads
    /\ bff \in [Requests -> [pc : {"waiting", "call", "called", "offers"} \cup Outcomes,
                             route : Routes \cup {None},
                             client : Clients \cup {None},
                             user : Users \cup {None},
                             offer : Offers \cup {None},
                             seen : Seq(Cart!Entries) \cup {None}]]
    /\ jar \in [Browsers -> Users \cup {None, Blank}]
    /\ loggedIn \in [Browsers -> Users \cup {None}]
    /\ book \in [Users -> [Offers -> Nat]]
    /\ home \in [Users -> CartPods \cup {None}]
    /\ disturbed \in SUBSET Users
    /\ begun \in Nat

\* auth-service keeps its promises behind the storefront (see AuthService).
FailsClosed == Auth!FailsClosed
RevocationSticks == Auth!RevocationSticks

\* No request of the user is under way.
Quiet(u) == \A q \in Requests :
    bff[q].user = u => bff[q].pc = "call" /\ ~ Cart!Running(q)

Kept(u) == IF home[u] = None \/ carts[home[u]][u] = None THEN <<>> ELSE carts[home[u]][u]

\* The units in a sequence of entries, of the offers in os; how many there are
\* of offer o, and how many in all.
Units(items, os) ==
    UNION {{i} \X (1 .. items[i].quantity) : i \in {j \in DOMAIN items : items[j].offer \in os}}
Quantity(items, o) == Cardinality(Units(items, {o}))
Total(items) == Cardinality(Units(items, Offers))

\* A user whose requests never overlapped, always met the same pod and were
\* answered or never reached it, and whose pod saw no race and no crash, finds
\* the cart the answers said: every addition that was answered 200 since the
\* last payment, one entry per offer.
CartIsKept ==
    \A u \in Users \ disturbed : Quiet(u) =>
        /\ \A o \in Offers : Quantity(Kept(u), o) = book[u][o]
        /\ \A i, j \in DOMAIN Kept(u) : Kept(u)[i].offer = Kept(u)[j].offer => i = j

\* Whatever overlaps, is cleared, crashes or times out, in whatever order the
\* handlers of a pod use its carts, no cart ever holds more units than were ever
\* added.  It needs that no two of these uses coincide: of a pod whose handlers
\* have raced nothing can be said until it restarts.
NothingFromNowhere ==
    \A p \in CartPods \ raced, u \in Users :
        carts[p][u] # None => Total(carts[p][u]) <= begun

\* The cart page shows such a user the whole cart, never a part of it or what a
\* failed addition asked for; or no entry at all when the call failed, and then
\* the cart still is what it was.
ShownAsKept ==
    \A q \in Requests :
        LET u == bff[q].user
            shown == IF bff[q].seen = None THEN Kept(u) ELSE bff[q].seen IN
        bff[q].pc = "offers" /\ u \notin disturbed =>
            \A o \in Offers : Quantity(shown, o) = book[u][o]

\* Again and again no request is left unanswered, although the BFF waits for
\* a POST without limit.
EveryRequestEnds == []<>(\A q \in Requests : bff[q].pc \in {"waiting"} \cup Outcomes)

\* handler.go: AuthResponse has the Username that main.go's "Protected Routes"
\* know a user by.  A browser is not answered 401 once it has logged in.
LoggedInIsRecognised ==
    [][\A q \in Requests :
        bff[q].pc = "waiting" /\ bff'[q].pc = "rejected" /\ bff'[q].client \in Browsers
            => loggedIn[bff'[q].client] = None]_vars

-----------------------------------------------------------------------------
(* The inductive invariant.                                                *)

\* A handler of cart-service knows whom and what it is about; it works for the
\* request of the BFF that called it, or for a user who gave up on his cart.
HandlerOf(q) ==
    /\ cart[q].pod \in CartPods
    /\ cart[q].user \in Users
    /\ cart[q].pc \notin {"check", "create", "stray"} => Cart!Items(q) # None
    /\ cart[q].pc = "stray" => cart[q].user \in disturbed
    /\ cart[q].method \in {"GET", "POST", "DELETE"}
    /\ cart[q].method = "POST" => cart[q].offer \in Offers
    /\ cart[q].pc \in {"GET", "POST", "DELETE"} => cart[q].method = cart[q].pc
    /\ cart[q].pc \in {"append", "store", "update", "emit"} => cart[q].method = "POST"
    /\ \/ cart[q].user \in disturbed
       \/ /\ bff[q].pc = "called" /\ bff[q].route \in Protected
          /\ cart[q].method = CartMethod[bff[q].route]
          /\ cart[q].user = bff[q].user
          /\ cart[q].offer = bff[q].offer

HandlerInv == \A q \in Requests : Cart!Running(q) => HandlerOf(q)

\* The BFF knows the user of what it calls, and has one call for each request.
BffInv ==
    \A q \in Requests :
        /\ bff[q].pc \in {"waiting", "call"} => cart[q] = Cart!Idle
        /\ bff[q].pc \in {"call", "called", "offers"} =>
            bff[q].user \in Users \/ bff[q].route = "/api/v1/validate"
        /\ bff[q].pc = "offers" => bff[q].route \in Protected
        /\ bff[q].pc = "called" /\ bff[q].route = "/cart/add" => bff[q].offer \in Offers

\* The entries are what b says, offer by offer, one entry each.
Holds(items, b) ==
    /\ \A i, j \in DOMAIN items : items[i].offer = items[j].offer => i = j
    /\ \A i \in DOMAIN items : items[i].quantity = b[items[i].offer]
    /\ \A o \in Offers : b[o] = 0 \/ \E i \in DOMAIN items : items[i].offer = o

\* A request of u is between its call of cart-service and its answer.
Active(q, u) ==
    /\ bff[q].user = u
    /\ bff[q].route \in Protected
    /\ bff[q].pc \in {"called", "offers"}

\* What the kept cart holds by now: the book, and what q has done to it.
Due(q) ==
    LET b == book[bff[q].user]
        add == bff[q].route = "/cart/add" /\ cart[q].pc \in {"emit", "done"}
        clear == bff[q].route = "/payment/process" /\ cart[q].pc = "done" IN
    IF bff[q].pc = "called" /\ add THEN [b EXCEPT ![bff[q].offer] = @ + 1]
    ELSE IF bff[q].pc = "called" /\ clear THEN NoOffers
    ELSE b

\* How far the one active request of an undisturbed user is.
Served(q, u) ==
    /\ bff[q].pc = "called" \/ Cart!Running(q) => home[u] \in CartPods
    /\ Cart!Running(q) => cart[q].pod = home[u] /\ cart[q].user = u
    /\ cart[q].pc = "create" => carts[home[u]][u] = None
    /\ cart[q].pc \in {"append", "store"} =>
        \A i \in DOMAIN Kept(u) : Kept(u)[i].offer # cart[q].offer
    /\ cart[q].pc = "store" => cart[q].seen = Kept(u)
    /\ cart[q].pc = "update" =>
        cart[q].at \in DOMAIN Kept(u) /\ Kept(u)[cart[q].at].offer = cart[q].offer
    /\ bff[q].pc = "offers" /\ bff[q].seen # None => Holds(bff[q].seen, book[u])
    /\ bff[q].pc = "called" /\ cart[q].pc = "done" /\ cart[q].status = 200
            /\ bff[q].route \in {"/cart", "/checkout"} =>
        Holds(cart[q].seen, book[u])
    /\ \/ Holds(Kept(u), Due(q))
       \/ bff[q].pc = "called" /\ cart[q].pc = "done" /\ cart[q].status # 200

\* A user who is not disturbed has a cart on one pod and one active request.
KeptOf(u) ==
    /\ \A p \in CartPods \ {home[u]} : carts[p][u] = None
    /\ \A q, r \in Requests : Active(q, u) /\ Active(r, u) => q = r
    /\ \A q \in Requests : Active(q, u) => Served(q, u)
    /\ (\A q \in Requests : ~ Active(q, u)) => Holds(Kept(u), book[u])

KeptInv == \A u \in Users \ disturbed : KeptOf(u)

\* Additions that have been begun and have not changed a cart yet.
Coming == {q \in Requests : /\ Cart!Running(q)
                            /\ cart[q].method = "POST"
                            /\ cart[q].pc \notin {"emit", "stray"}}

\* A sequence of entries leaves room for what is coming.
Within(items) ==
    /\ IsFiniteSet(Units(items, Offers))
    /\ Total(items) + Cardinality(Coming) <= begun

CountInv ==
    /\ Cardinality(Coming) <= begun
    /\ \A p \in CartPods, u \in Users : carts[p][u] # None => Within(carts[p][u])
    /\ \A q \in Requests : cart[q].pc = "store" => Within(cart[q].seen)

IInv == TypeOK /\ Auth!IInv /\ HandlerInv /\ BffInv /\ KeptInv /\ CountInv
=============================================================================
