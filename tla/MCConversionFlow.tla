--------------------------- MODULE MCConversionFlow ---------------------------
(* Small instances of ConversionFlow for TLC. *)
EXTENDS ConversionFlow

=============================================================================
