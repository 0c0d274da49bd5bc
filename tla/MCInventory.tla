---------------------------- MODULE MCInventory ----------------------------
(* Model-checking instance of Inventory: small sets.                       *)
EXTENDS Inventory, TLC

Symmetry == Permutations(Clients)
MCQuantities == {-1, 0, 2}
=============================================================================
