------------------------ MODULE MCConsumerLifecycle ------------------------
(* Small instances of ConsumerLifecycle for TLC. *)
EXTENDS ConsumerLifecycle
=============================================================================
