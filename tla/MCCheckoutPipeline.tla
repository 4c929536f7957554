------------------------- MODULE MCCheckoutPipeline -------------------------
(* Small instances of CheckoutPipeline for TLC. *)
EXTENDS CheckoutPipeline
=============================================================================
