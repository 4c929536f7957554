---------------------------- MODULE MCDlqConsumer ----------------------------
(* Small instances of DlqConsumer for TLC. *)
EXTENDS DlqConsumer

=============================================================================
