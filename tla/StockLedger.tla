---------------------------- MODULE StockLedger ----------------------------
(***************************************************************************)
(* What the inventory tables promise (docs/step110, "InventoryStock is a   *)
(* snapshot, InventoryMovement is the audit trail"): the snapshot of a SKU *)
(* is only edited together with movements of the same total.  The code     *)
(* keeps the promise for a SKU until an overlapping read-compute-write     *)
(* loses an update of it; from then on the SKU has drifted.                *)
(***************************************************************************)
EXTENDS Integers

CONSTANT Skus       \* ProductSku rows of the company

VARIABLES
    posted,         \* per SKU, total quantity of its InventoryMovement rows
    balance,        \* per SKU, InventoryBalance.quantity (a missing row reads 0)
    drifted         \* SKUs whose snapshot has lost an update

ledgerVars == <<posted, balance, drifted>>

Init ==
    /\ posted = [s \in Skus |-> 0]
    /\ balance = [s \in Skus |-> 0]
    /\ drifted = {}

\* One committed transaction: the same change reaches both tables, except for
\* the SKUs that have drifted.  A drifted SKU is never repaired.
Post ==
    /\ posted' \in [Skus -> Int]
    /\ balance' \in [Skus -> Int]
    /\ drifted \subseteq drifted' /\ drifted' \subseteq Skus
    /\ \A s \in Skus \ drifted' : balance'[s] - balance[s] = posted'[s] - posted[s]

Spec == Init /\ [][Post]_ledgerVars
=============================================================================
