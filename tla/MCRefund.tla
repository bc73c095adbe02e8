------------------------------ MODULE MCRefund ------------------------------
(* Refund for TLC.                                                          *)
EXTENDS Refund, TLC

(* Calls are interchangeable.                                               *)
Calls == Permutations(Requesters) \cup Permutations(Reconcilers)

=============================================================================
