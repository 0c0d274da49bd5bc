----------------------------- MODULE MCPayments -----------------------------
(* Model-checking instance of Payments. *)
EXTENDS Payments, TLC

ClientSymmetry == Permutations(Clients) \cup Permutations(Invoices)
=============================================================================
