-------------------------- MODULE MCGracefulServer --------------------------
(* Small instances of GracefulServer for TLC. *)
EXTENDS GracefulServer
=============================================================================
