----------------------------- MODULE Inventory -----------------------------
(***************************************************************************)
(* The stock tables of apps/api/src/inventory/inventory.service.ts and the *)
(* three code paths that write them: manual adjustment, resolution of an   *)
(* inventory audit issue, and the deduction made by a store-orders import. *)
(*                                                                         *)
(* The database runs READ COMMITTED: a request reads committed rows in one *)
(* step, and its writes become visible together when it commits.  The two  *)
(* paths of inventory.service.ts write an absolute quantity computed from  *)
(* the balance they read; the import path increments the row.              *)
(***************************************************************************)
EXTENDS Integers, FiniteSets

CONSTANTS
    Skus,          \* ProductSku rows of the company
    Issues,        \* ImportStagingRow rows that may carry an inventoryAudit
    Clients,       \* API requests in flight at the same time
    Quantities,    \* quantities a caller may send or an order line may have
    NoSku, NoIssue,\* "none yet", for the fields of a request
    MaxMovements   \* bound on the InventoryMovement rows of a behaviour

ASSUME InventoryAssumption ==
    /\ Quantities \subseteq Int
    /\ NoSku \notin Skus
    /\ NoIssue \notin Issues
    /\ MaxMovements \in Nat

VARIABLES
    posted,        \* per SKU, the total quantity of its InventoryMovement rows
    balance,       \* per SKU, InventoryBalance.quantity (a missing row reads 0)
    movements,     \* number of InventoryMovement rows
    audit,         \* per issue, normalizedPayloadJson.inventoryAudit.status
    resolutions,   \* per issue, its INVENTORY_AUDIT_RESOLUTION movements
    opened,        \* history: per issue, how often an import opened it
    request,       \* per client, the request in flight and what it has read
    raced,         \* history: SKUs written from a balance that was out of date
    contested      \* history: issues resolved by a request whose read of the
                   \* status was out of date

inventoryVars ==
    <<posted, balance, movements, audit, resolutions, opened, request, raced, contested>>

MovementTypes == {"IN", "OUT", "ADJUST"}
AuditStatus == {"NONE", "OPEN", "CLOSED"}
Phases == {"idle", "adjust", "auditRead", "resolve"}

\* seen is the balance the request read, stale that it has since changed, and
\* late that the issue it read as OPEN was closed by someone else meanwhile.
NewRequest(phase, s, i, delta, seen) ==
    [phase |-> phase, sku |-> s, issue |-> i, delta |-> delta, seen |-> seen,
     stale |-> FALSE, late |-> FALSE]

Idle == NewRequest("idle", NoSku, NoIssue, 0, 0)

Requests ==
    [phase : Phases, sku : Skus \cup {NoSku}, issue : Issues \cup {NoIssue},
     delta : Int, seen : Int, stale : BOOLEAN, late : BOOLEAN]

\* Phases of a request that has read the balance of its SKU.
HasRead == {"adjust", "resolve"}

Abs(n) == IF n < 0 THEN -n ELSE n

-----------------------------------------------------------------------------
Init ==
    /\ posted = [s \in Skus |-> 0]
    /\ balance = [s \in Skus |-> 0]
    /\ movements = 0
    /\ audit = [i \in Issues |-> "NONE"]
    /\ resolutions = [i \in Issues |-> 0]
    /\ opened = [i \in Issues |-> 0]
    /\ request = [c \in Clients |-> Idle]
    /\ raced = {}
    /\ contested = {}

\* The signed quantity a manual adjustment stores.
ManualDelta(type, quantity) == IF type = "OUT" THEN -quantity ELSE quantity

\* What the other requests' reads are worth after this step: those that hold a
\* read of a SKU in skus are stale, those that saw an issue in closed as OPEN
\* are late.
Invalidate(reqs, skus, closed) ==
    [c \in Clients |->
        [reqs[c] EXCEPT
            !.stale = @ \/ (reqs[c].phase \in HasRead /\ reqs[c].sku \in skus),
            !.late = @ \/ reqs[c].issue \in closed]]

-----------------------------------------------------------------------------
(* createManualAdjustment *)

\* Validation, then the read of the current balance inside the transaction.
BeginManualAdjustment(c, s, type, quantity) ==
    /\ request[c].phase = "idle"
    /\ quantity # 0
    /\ type \in {"IN", "OUT"} => quantity > 0
    /\ request' = [request EXCEPT ![c] =
          NewRequest("adjust", s, NoIssue, ManualDelta(type, quantity), balance[s])]
    /\ UNCHANGED <<posted, balance, movements, audit, resolutions, opened, raced, contested>>

\* Mutant: the balance moves against the movement.
WriteMovementSign(c, s) ==
    /\ movements < MaxMovements
    /\ movements' = movements + 1
    /\ posted' = [posted EXCEPT ![s] = @ + request[c].delta]
    /\ balance' = [balance EXCEPT ![s] = request[c].seen - request[c].delta]
    /\ raced' = IF request[c].stale THEN raced \cup {s} ELSE raced

\* Movement and absolute balance of request c on SKU s become visible.
WriteMovement(c, s) ==
    /\ movements < MaxMovements
    /\ movements' = movements + 1
    /\ posted' = [posted EXCEPT ![s] = @ + request[c].delta]
    /\ balance' = [balance EXCEPT ![s] = request[c].seen + request[c].delta]
    /\ raced' = IF request[c].stale THEN raced \cup {s} ELSE raced

CommitManualAdjustment(c, s) ==
    /\ request[c].phase = "adjust"
    /\ request[c].sku = s
    /\ WriteMovement(c, s)
    /\ request' = Invalidate([request EXCEPT ![c] = Idle], {s}, {})
    /\ UNCHANGED <<audit, resolutions, opened, contested>>

-----------------------------------------------------------------------------
(* resolveAuditIssue *)

\* Mutant: any issue an import ever recorded can be resolved.
BeginResolveAny(c, i, s, quantity) ==
    /\ request[c].phase = "idle"
    /\ audit[i] # "NONE"
    /\ Abs(quantity) > 0
    /\ request' = [request EXCEPT ![c] =
          NewRequest("auditRead", s, i, -Abs(quantity), 0)]
    /\ UNCHANGED <<posted, balance, movements, audit, resolutions, opened, raced, contested>>

\* The issue row is read and must be OPEN; quantity is the one recorded on it.
BeginResolve(c, i, s, quantity) ==
    /\ request[c].phase = "idle"
    /\ audit[i] = "OPEN"
    /\ Abs(quantity) > 0
    /\ request' = [request EXCEPT ![c] =
          NewRequest("auditRead", s, i, -Abs(quantity), 0)]
    /\ UNCHANGED <<posted, balance, movements, audit, resolutions, opened, raced, contested>>

\* Mutant: the balance row is taken as missing.
ReadNoBalance(c, s) ==
    /\ request[c].phase = "auditRead"
    /\ request[c].sku = s
    /\ request' = [request EXCEPT ![c].phase = "resolve"]
    /\ UNCHANGED <<posted, balance, movements, audit, resolutions, opened, raced, contested>>

\* The movement is inserted and the balance read, both in the open transaction.
ReadBalanceForResolve(c, s) ==
    /\ request[c].phase = "auditRead"
    /\ request[c].sku = s
    /\ request' = [request EXCEPT ![c].phase = "resolve", ![c].seen = balance[s]]
    /\ UNCHANGED <<posted, balance, movements, audit, resolutions, opened, raced, contested>>

CommitResolve(c, i, s) ==
    /\ request[c].phase = "resolve"
    /\ request[c].sku = s
    /\ request[c].issue = i
    /\ WriteMovement(c, s)
    /\ audit' = [audit EXCEPT ![i] = "CLOSED"]
    /\ resolutions' = [resolutions EXCEPT ![i] = @ + 1]
    /\ contested' = IF request[c].late THEN contested \cup {i} ELSE contested
    /\ request' = Invalidate([request EXCEPT ![c] = Idle], {s}, {i})
    /\ UNCHANGED opened

\* A request dies with its transaction: error, timeout or process crash.
Abort(c) ==
    /\ request[c].phase # "idle"
    /\ request' = [request EXCEPT ![c] = Idle]
    /\ UNCHANGED <<posted, balance, movements, audit, resolutions, opened, raced, contested>>

-----------------------------------------------------------------------------
(* What a committed store-orders import does to these tables               *)
(* (imports.service.ts): deduct[s] is what its new OUT movements take from *)
(* SKU s and count how many they are.  written gives the audit status in   *)
(* the payload it writes back to a staging row: OPEN for a row it could    *)
(* not deduct, and for a deducted row the one it read when it began.       *)

ImportCommit(deduct, count, written) ==
    /\ movements + count <= MaxMovements
    /\ movements' = movements + count
    /\ posted' = [s \in Skus |-> posted[s] - deduct[s]]
    /\ balance' = [s \in Skus |-> balance[s] - deduct[s]]
    /\ audit' = [i \in Issues |-> IF i \in DOMAIN written THEN written[i] ELSE audit[i]]
    /\ opened' = [i \in Issues |->
          IF i \in DOMAIN written /\ written[i] = "OPEN" THEN opened[i] + 1 ELSE opened[i]]
    /\ request' = Invalidate(request, {s \in Skus : deduct[s] # 0},
                             {i \in DOMAIN written : written[i] # "OPEN"})
    /\ UNCHANGED <<resolutions, raced, contested>>

\* One imported order line: deducted from a SKU, its row keeping the status the
\* import had read (possibly out of date by now), or left for manual review.
ImportDeduction(s, quantity, i, status) ==
    /\ quantity > 0
    /\ status = "OPEN" => opened[i] < MaxMovements
    /\ ImportCommit([t \in Skus |-> IF t = s THEN quantity ELSE 0], 1, [k \in {i} |-> status])

ImportUnresolved(i) ==
    /\ opened[i] < MaxMovements
    /\ ImportCommit([t \in Skus |-> 0], 0, [k \in {i} |-> "OPEN"])

-----------------------------------------------------------------------------
ClientNext ==
    \E c \in Clients :
        \/ \E s \in Skus, t \in MovementTypes, q \in Quantities :
                BeginManualAdjustment(c, s, t, q)
        \/ \E s \in Skus : CommitManualAdjustment(c, s)
        \/ \E i \in Issues, s \in Skus, q \in Quantities : BeginResolve(c, i, s, q)
        \/ \E s \in Skus : ReadBalanceForResolve(c, s)
        \/ \E i \in Issues, s \in Skus : CommitResolve(c, i, s)
        \/ Abort(c)

Next ==
    \/ ClientNext
    \/ \E s \in Skus, q \in Quantities, i \in Issues, status \in AuditStatus :
            ImportDeduction(s, q, i, status)
    \/ \E i \in Issues : ImportUnresolved(i)

Spec == Init /\ [][Next]_inventoryVars

-----------------------------------------------------------------------------
TypeOK ==
    /\ posted \in [Skus -> Int]
    /\ balance \in [Skus -> Int]
    /\ movements \in Nat
    /\ audit \in [Issues -> AuditStatus]
    /\ resolutions \in [Issues -> Nat]
    /\ opened \in [Issues -> Nat]
    /\ request \in [Clients -> Requests]
    /\ raced \in SUBSET Skus
    /\ contested \in SUBSET Issues

\* The balance of a SKU is the sum of its movements unless some request wrote
\* a quantity computed from a balance another transaction had changed since it
\* was read: the read-compute-write of createManualAdjustment and
\* resolveAuditIssue is the only way the snapshot leaves its audit trail.
BalanceIsSumUnlessRaced == \A s \in Skus \ raced : balance[s] = posted[s]

\* An issue is resolved at most once for each time an import opened it, unless
\* two requests read it OPEN together.
ResolvedOncePerOpening ==
    \A i \in Issues \ contested : resolutions[i] <= opened[i]

\* Every step edits the snapshot of a SKU together with movements of the same
\* total (docs/step110/STEP110_B_INVENTORY_FOUNDATION_SCHEMA_INSPECTION.md, "Do
\* not edit stock snapshot without writing a movement"), until a raced write.
Ledger == INSTANCE StockLedger WITH drifted <- raced
SnapshotFollowsMovements == Ledger!Spec

-----------------------------------------------------------------------------
(* The inductive invariant behind the properties.                          *)

\* A request that is not stale still holds the current balance of its SKU.
FreshReads ==
    \A c \in Clients :
        request[c].phase \in HasRead /\ ~request[c].stale
            => request[c].sku \in Skus /\ request[c].seen = balance[request[c].sku]

\* A resolver that is not late works on an issue that is still OPEN.
OpenWhileResolving ==
    \A c \in Clients :
        request[c].issue \in Issues /\ ~request[c].late
            => audit[request[c].issue] = "OPEN"

\* An opening that has not been resolved yet is still to be counted.
OpeningsLeft ==
    \A i \in Issues \ contested :
        /\ resolutions[i] <= opened[i]
        /\ audit[i] = "OPEN" => resolutions[i] < opened[i]

IInv ==
    /\ TypeOK
    /\ BalanceIsSumUnlessRaced
    /\ FreshReads
    /\ OpenWhileResolving
    /\ OpeningsLeft
=============================================================================
