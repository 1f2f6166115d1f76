-------------------------- MODULE MCIncomingPayment --------------------------
(* Instances of IncomingPayment for TLC. *)
EXTENDS IncomingPayment, TLC

Interchangeable == Permutations(Workers)
=============================================================================
