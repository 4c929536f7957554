--------------------------- MODULE MCOrderService ---------------------------
(* Small instances of OrderService for TLC. *)
EXTENDS OrderService, TLC

\* Attempts, pods and checkouts are interchangeable.
Symmetry == Permutations(Requests) \cup Permutations(Pods) \cup Permutations(Checkouts)
=============================================================================
