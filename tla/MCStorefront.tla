---------------------------- MODULE MCStorefront ----------------------------
(* Small instances of Storefront for TLC. *)
EXTENDS Storefront

\* The routes that reach auth-service, and the ones that reach cart-service:
\* /checkout reads the cart as /cart does, so that the two run apart.
AccountRoutes == {"/login", "/signup", "/logout", "/cart/remove", "/api/v1/validate"}
CartRoutes == {"/cart/add", "/cart", "/payment/process"}
CheckoutRoutes == {"/cart/add", "/checkout"}
AccountsOrCarts == {AccountRoutes, CartRoutes, CheckoutRoutes}
LoginAndCart == {{"/login", "/cart"}}

\* Pods of a service are interchangeable: all requests go to one of them but the
\* second, which may go to any.
OnePods == {CHOOSE p \in AuthPods : TRUE, CHOOSE p \in CartPods : TRUE}
SecondToAny == [q \in 1 .. MaxRequests |-> IF q = 2 THEN AuthPods \cup CartPods ELSE OnePods]

\* More units than can be added.
TornCarts == {<<[offer |-> CHOOSE o \in Offers : TRUE, quantity |-> MaxRequests + 1]>>}
=============================================================================
