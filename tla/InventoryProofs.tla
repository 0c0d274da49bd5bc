-------------------------- MODULE InventoryProofs --------------------------
(***************************************************************************)
(* The stock snapshot and its audit trail, for every number of SKUs,       *)
(* issues, requests in flight and quantities.                              *)
(***************************************************************************)
EXTENDS Inventory, TLAPS

\* A manual adjustment stores an integer quantity, whatever its type.
LEMMA ManualDeltaType ==
    ASSUME NEW t, NEW q \in Int
    PROVE  ManualDelta(t, q) \in Int
BY DEF ManualDelta

\* The quantity of an audit resolution is the negated absolute value.
LEMMA AbsType ==
    ASSUME NEW q \in Int
    PROVE  Abs(q) \in Nat
BY DEF Abs

\* Marking the reads that another transaction outdated keeps requests well
\* formed and changes nothing but the two marks.
LEMMA InvalidateType ==
    ASSUME NEW reqs \in [Clients -> Requests], NEW skus, NEW closed
    PROVE  Invalidate(reqs, skus, closed) \in [Clients -> Requests]
<1>1. SUFFICES ASSUME NEW c \in Clients
               PROVE  [reqs[c] EXCEPT
                        !.stale = @ \/ (reqs[c].phase \in HasRead /\ reqs[c].sku \in skus),
                        !.late = @ \/ reqs[c].issue \in closed] \in Requests
  BY DEF Invalidate
<1>2. reqs[c] \in Requests
  OBVIOUS
<1>3. (reqs[c].stale \/ (reqs[c].phase \in HasRead /\ reqs[c].sku \in skus)) \in BOOLEAN
  OBVIOUS
<1>4. (reqs[c].late \/ reqs[c].issue \in closed) \in BOOLEAN
  OBVIOUS
<1>. QED
  BY <1>2, <1>3, <1>4 DEF Requests

\* Field by field, what Invalidate leaves of a request.
LEMMA InvalidateFields ==
    ASSUME NEW reqs \in [Clients -> Requests], NEW skus, NEW closed, NEW c \in Clients
    PROVE  LET r == Invalidate(reqs, skus, closed)[c] IN
             /\ r.phase = reqs[c].phase
             /\ r.sku = reqs[c].sku
             /\ r.issue = reqs[c].issue
             /\ r.delta = reqs[c].delta
             /\ r.seen = reqs[c].seen
             /\ ~r.stale => ~reqs[c].stale /\ ~(reqs[c].phase \in HasRead /\ reqs[c].sku \in skus)
             /\ ~r.late => ~reqs[c].late /\ reqs[c].issue \notin closed
<1>1. reqs[c] \in Requests
  OBVIOUS
<1>. QED
  BY <1>1 DEF Invalidate, Requests

-----------------------------------------------------------------------------
\* Quantities are integers and the sentinels are outside their sets.
USE InventoryAssumption DEF AuditStatus, Phases, HasRead

\* A request that begins is well formed.
LEMMA NewRequestType ==
    ASSUME NEW phase \in Phases, NEW s \in Skus \cup {NoSku},
           NEW i \in Issues \cup {NoIssue}, NEW delta \in Int, NEW seen \in Int
    PROVE  NewRequest(phase, s, i, delta, seen) \in Requests
BY DEF NewRequest, Requests

\* The inductive invariant holds in the empty database.
LEMMA InitIInv == Init => IInv
<1>1. Idle \in Requests
  BY NewRequestType DEF Idle
<1>. QED
  BY <1>1 DEF Init, IInv, TypeOK, BalanceIsSumUnlessRaced, FreshReads, OpenWhileResolving,
        OpeningsLeft, Idle, NewRequest

\* Writing a movement and the absolute balance keeps the tables well formed.
LEMMA WriteMovementType ==
    ASSUME TypeOK, NEW c \in Clients, NEW s \in Skus, WriteMovement(c, s)
    PROVE  /\ posted' \in [Skus -> Int]
           /\ balance' \in [Skus -> Int]
           /\ movements' \in Nat
           /\ raced' \in SUBSET Skus
<1>1. request[c] \in Requests
  BY DEF TypeOK
<1>2. request[c].delta \in Int /\ request[c].seen \in Int
  BY <1>1 DEF Requests
<1>. QED
  BY <1>2 DEF TypeOK, WriteMovement

\* Every step keeps the types.
LEMMA StepTypeOK == TypeOK /\ [Next]_inventoryVars => TypeOK'
<1>. SUFFICES ASSUME TypeOK, [Next]_inventoryVars PROVE TypeOK'
  OBVIOUS
<1>1. Idle \in Requests
  BY NewRequestType DEF Idle
<1>2. ASSUME NEW c \in Clients, NEW s \in Skus, NEW t \in MovementTypes,
             NEW q \in Quantities, BeginManualAdjustment(c, s, t, q)
      PROVE  TypeOK'
  <2>1. ManualDelta(t, q) \in Int
    BY ManualDeltaType
  <2>2. NewRequest("adjust", s, NoIssue, ManualDelta(t, q), balance[s]) \in Requests
    BY <2>1, NewRequestType DEF TypeOK
  <2>. QED
    BY <1>2, <2>2 DEF TypeOK, BeginManualAdjustment
<1>3. ASSUME NEW c \in Clients, NEW s \in Skus, CommitManualAdjustment(c, s)
      PROVE  TypeOK'
  <2>1. request' \in [Clients -> Requests]
    BY <1>1, <1>3, InvalidateType DEF TypeOK, CommitManualAdjustment
  <2>2. WriteMovement(c, s)
    BY <1>3 DEF TypeOK, CommitManualAdjustment
  <2>3. /\ posted' \in [Skus -> Int]
        /\ balance' \in [Skus -> Int]
        /\ movements' \in Nat
        /\ raced' \in SUBSET Skus
    BY <2>2, WriteMovementType
  <2>4. UNCHANGED <<audit, resolutions, opened, contested>>
    BY <1>3 DEF CommitManualAdjustment
  <2>. QED
    BY <2>1, <2>3, <2>4 DEF TypeOK
<1>4. ASSUME NEW c \in Clients, NEW i \in Issues, NEW s \in Skus, NEW q \in Quantities,
             BeginResolve(c, i, s, q)
      PROVE  TypeOK'
  <2>1. -Abs(q) \in Int
    BY AbsType
  <2>2. NewRequest("auditRead", s, i, -Abs(q), 0) \in Requests
    BY <2>1, NewRequestType
  <2>. QED
    BY <1>4, <2>2 DEF TypeOK, BeginResolve
<1>5. ASSUME NEW c \in Clients, NEW s \in Skus, ReadBalanceForResolve(c, s)
      PROVE  TypeOK'
  <2>1. [request[c] EXCEPT !.phase = "resolve", !.seen = balance[s]] \in Requests
    BY ZenonT(60) DEF TypeOK, Requests
  <2>2. request' = [request EXCEPT ![c] =
                      [request[c] EXCEPT !.phase = "resolve", !.seen = balance[s]]]
    BY <1>5 DEF TypeOK, ReadBalanceForResolve
  <2>. QED
    BY <1>5, <2>1, <2>2 DEF TypeOK, ReadBalanceForResolve
<1>6. ASSUME NEW c \in Clients, NEW i \in Issues, NEW s \in Skus, CommitResolve(c, i, s)
      PROVE  TypeOK'
  <2>1. request' \in [Clients -> Requests]
    BY <1>1, <1>6, InvalidateType DEF TypeOK, CommitResolve
  <2>2. WriteMovement(c, s)
    BY <1>6 DEF TypeOK, CommitResolve
  <2>3. /\ posted' \in [Skus -> Int]
        /\ balance' \in [Skus -> Int]
        /\ movements' \in Nat
        /\ raced' \in SUBSET Skus
    BY <2>2, WriteMovementType
  <2>4. /\ audit' \in [Issues -> AuditStatus]
        /\ resolutions' \in [Issues -> Nat]
        /\ opened' \in [Issues -> Nat]
        /\ contested' \in SUBSET Issues
    BY <1>6 DEF TypeOK, CommitResolve
  <2>. QED
    BY <2>1, <2>3, <2>4 DEF TypeOK
<1>7. ASSUME NEW c \in Clients, Abort(c) PROVE TypeOK'
  BY <1>1, <1>7 DEF TypeOK, Abort
<1>8. ASSUME NEW deduct \in [Skus -> Int], NEW count \in Nat, NEW written,
             \A i \in DOMAIN written : written[i] \in AuditStatus,
             ImportCommit(deduct, count, written)
      PROVE  TypeOK'
  <2>1. request' \in [Clients -> Requests]
    BY <1>8, InvalidateType DEF TypeOK, ImportCommit
  <2>. QED
    BY <1>8, <2>1 DEF TypeOK, ImportCommit
<1>9. ASSUME NEW s \in Skus, NEW q \in Quantities, NEW i \in Issues,
             NEW status \in AuditStatus, ImportDeduction(s, q, i, status)
      PROVE  TypeOK'
  BY <1>8, <1>9 DEF ImportDeduction
<1>10. ASSUME NEW i \in Issues, ImportUnresolved(i) PROVE TypeOK'
  BY <1>8, <1>10 DEF ImportUnresolved
<1>11. CASE UNCHANGED inventoryVars
  BY <1>11 DEF TypeOK, inventoryVars
<1>. QED
  BY <1>2, <1>3, <1>4, <1>5, <1>6, <1>7, <1>9, <1>10, <1>11 DEF Next, ClientNext

-----------------------------------------------------------------------------
\* A step that starts, advances or drops one request and touches no table
\* keeps the rest of the invariant: the request either holds no balance, or
\* holds the one it just read, and its issue is OPEN or marked late.
LEMMA RequestStep ==
    ASSUME IInv, TypeOK', NEW c \in Clients, NEW r \in Requests,
           request' = [request EXCEPT ![c] = r],
           UNCHANGED <<posted, balance, movements, audit, resolutions, opened, raced, contested>>,
           r.phase \in HasRead /\ ~r.stale => r.sku \in Skus /\ r.seen = balance[r.sku],
           r.issue \in Issues /\ ~r.late => audit[r.issue] = "OPEN"
    PROVE  IInv'
<1>1. request'[c] = r /\ \A d \in Clients \ {c} : request'[d] = request[d]
  BY DEF IInv, TypeOK
<1>2. FreshReads'
  BY <1>1 DEF IInv, FreshReads
<1>3. OpenWhileResolving'
  BY <1>1 DEF IInv, OpenWhileResolving
<1>. QED
  BY <1>2, <1>3 DEF IInv, BalanceIsSumUnlessRaced, OpeningsLeft

\* Committing the absolute write of one request on SKU s: a fresh read makes
\* the write a correct one, and every other reader of s becomes stale.
LEMMA WriteStep ==
    ASSUME IInv, TypeOK', NEW c \in Clients, NEW s \in Skus, NEW closed,
           request[c].phase \in HasRead, request[c].sku = s, WriteMovement(c, s),
           request' = Invalidate([request EXCEPT ![c] = Idle], {s}, closed)
    PROVE  BalanceIsSumUnlessRaced' /\ FreshReads'
<1>. DEFINE reqs == [request EXCEPT ![c] = Idle]
<1>1. Idle \in Requests
  BY NewRequestType DEF Idle
<1>2. reqs \in [Clients -> Requests] /\ reqs[c] = Idle
      /\ \A d \in Clients \ {c} : reqs[d] = request[d]
  BY <1>1 DEF IInv, TypeOK
<1>6. request' = Invalidate(reqs, {s}, closed)
  OBVIOUS
<1>. HIDE DEF reqs
<1>3. request[c].delta \in Int /\ request[c].seen \in Int
  BY DEF IInv, TypeOK, Requests
<1>4. BalanceIsSumUnlessRaced'
  <2>1. \A t \in Skus \ {s} : balance'[t] = balance[t] /\ posted'[t] = posted[t]
    BY DEF WriteMovement, IInv, TypeOK
  <2>2. balance'[s] = request[c].seen + request[c].delta /\ posted'[s] = posted[s] + request[c].delta
    BY DEF WriteMovement, IInv, TypeOK
  <2>3. raced \subseteq raced' /\ (s \notin raced' => ~request[c].stale)
    BY DEF WriteMovement
  <2>4. s \notin raced' => request[c].seen = posted[s]
    BY <2>3 DEF IInv, FreshReads, BalanceIsSumUnlessRaced
  <2>. QED
    BY <2>1, <2>2, <2>3, <2>4 DEF IInv, BalanceIsSumUnlessRaced
<1>5. FreshReads'
  <2>. SUFFICES ASSUME NEW d \in Clients, request'[d].phase \in HasRead, ~request'[d].stale
                PROVE  request'[d].sku \in Skus /\ request'[d].seen = balance'[request'[d].sku]
    BY DEF FreshReads
  <2>1. /\ request'[d].phase = reqs[d].phase
        /\ request'[d].sku = reqs[d].sku
        /\ request'[d].seen = reqs[d].seen
        /\ ~reqs[d].stale /\ ~(reqs[d].phase \in HasRead /\ reqs[d].sku \in {s})
    BY <1>2, <1>6, InvalidateFields
  <2>2. d # c
    BY <1>2, <2>1 DEF Idle, NewRequest
  <2>3. request[d].sku \in Skus /\ request[d].seen = balance[request[d].sku]
    BY <1>2, <2>1, <2>2 DEF IInv, FreshReads
  <2>4. request[d].sku # s
    BY <1>2, <2>1, <2>2
  <2>. QED
    BY <1>2, <2>1, <2>2, <2>3, <2>4 DEF WriteMovement, IInv, TypeOK
<1>. QED
  BY <1>4, <1>5

\* A commit of an import shifts movements and balances of a SKU alike, makes
\* the readers of the SKUs it deducts stale, and only opens issues.
LEMMA ImportStep ==
    ASSUME IInv, TypeOK', NEW deduct \in [Skus -> Int], NEW count, NEW written,
           ImportCommit(deduct, count, written)
    PROVE  IInv'
<1>. DEFINE moved == {s \in Skus : deduct[s] # 0}
            closed == {i \in DOMAIN written : written[i] # "OPEN"}
<1>1. /\ balance' = [s \in Skus |-> balance[s] - deduct[s]]
      /\ posted' = [s \in Skus |-> posted[s] - deduct[s]]
      /\ request' = Invalidate(request, moved, closed)
      /\ audit' = [i \in Issues |-> IF i \in DOMAIN written THEN written[i] ELSE audit[i]]
      /\ opened' = [i \in Issues |->
            IF i \in DOMAIN written /\ written[i] = "OPEN" THEN opened[i] + 1 ELSE opened[i]]
      /\ UNCHANGED <<resolutions, raced, contested>>
  BY DEF ImportCommit
<1>2. \A s \in Skus : s \notin moved => balance'[s] = balance[s]
  BY <1>1 DEF IInv, TypeOK
<1>3. BalanceIsSumUnlessRaced'
  BY <1>1 DEF IInv, BalanceIsSumUnlessRaced
<1>8. \A i \in DOMAIN written : i \notin closed => written[i] = "OPEN"
  OBVIOUS
<1>. HIDE DEF moved, closed
<1>4. request \in [Clients -> Requests]
  BY DEF IInv, TypeOK
<1>5. FreshReads'
  <2>. SUFFICES ASSUME NEW d \in Clients, request'[d].phase \in HasRead, ~request'[d].stale
                PROVE  request'[d].sku \in Skus /\ request'[d].seen = balance'[request'[d].sku]
    BY DEF FreshReads
  <2>1. /\ request'[d].phase = request[d].phase
        /\ request'[d].sku = request[d].sku
        /\ request'[d].seen = request[d].seen
        /\ ~request[d].stale /\ ~(request[d].phase \in HasRead /\ request[d].sku \in moved)
    BY <1>1, <1>4, InvalidateFields
  <2>2. request[d].sku \in Skus /\ request[d].seen = balance[request[d].sku]
    BY <2>1 DEF IInv, FreshReads
  <2>. QED
    BY <1>2, <2>1, <2>2
<1>6. OpenWhileResolving'
  <2>. SUFFICES ASSUME NEW d \in Clients, request'[d].issue \in Issues, ~request'[d].late
                PROVE  audit'[request'[d].issue] = "OPEN"
    BY DEF OpenWhileResolving
  <2>1. request'[d].issue = request[d].issue /\ ~request[d].late /\ request[d].issue \notin closed
    BY <1>1, <1>4, InvalidateFields
  <2>. QED
    BY <1>1, <1>8, <2>1 DEF IInv, OpenWhileResolving
<1>7. OpeningsLeft'
  BY <1>1 DEF IInv, OpeningsLeft, TypeOK
<1>. QED
  BY <1>3, <1>5, <1>6, <1>7 DEF IInv

\* The inductive invariant is kept by every step.
LEMMA StepIInv == IInv /\ [Next]_inventoryVars => IInv'
<1>. SUFFICES ASSUME IInv, [Next]_inventoryVars PROVE IInv'
  OBVIOUS
<1>1. TypeOK /\ TypeOK'
  BY StepTypeOK DEF IInv
<1>2. Idle \in Requests /\ Idle.phase = "idle" /\ Idle.issue = NoIssue
  BY NewRequestType DEF Idle, NewRequest
<1>3. ASSUME NEW c \in Clients, NEW s \in Skus, NEW t \in MovementTypes,
             NEW q \in Quantities, BeginManualAdjustment(c, s, t, q)
      PROVE  IInv'
  <2>. DEFINE r == NewRequest("adjust", s, NoIssue, ManualDelta(t, q), balance[s])
  <2>1. ManualDelta(t, q) \in Int
    BY ManualDeltaType
  <2>2. r \in Requests
    BY <1>1, <2>1, NewRequestType DEF TypeOK
  <2>3. r.sku = s /\ r.seen = balance[s] /\ r.issue = NoIssue
    BY DEF NewRequest
  <2>4. /\ request' = [request EXCEPT ![c] = r]
        /\ UNCHANGED <<posted, balance, movements, audit, resolutions, opened, raced, contested>>
    BY <1>3 DEF BeginManualAdjustment
  <2>. HIDE DEF r
  <2>. QED
    BY <1>1, <2>2, <2>3, <2>4, RequestStep
<1>4. ASSUME NEW c \in Clients, NEW s \in Skus, CommitManualAdjustment(c, s)
      PROVE  IInv'
  <2>1. /\ request[c].phase \in HasRead
        /\ request[c].sku = s
        /\ WriteMovement(c, s)
        /\ request' = Invalidate([request EXCEPT ![c] = Idle], {s}, {})
        /\ UNCHANGED <<audit, resolutions, opened, contested>>
    BY <1>4 DEF CommitManualAdjustment
  <2>2. BalanceIsSumUnlessRaced' /\ FreshReads'
    BY <1>1, <2>1, WriteStep
  <2>3. [request EXCEPT ![c] = Idle] \in [Clients -> Requests]
    BY <1>1, <1>2 DEF TypeOK
  <2>4. OpenWhileResolving'
    <3>. SUFFICES ASSUME NEW d \in Clients, request'[d].issue \in Issues, ~request'[d].late
                  PROVE  audit'[request'[d].issue] = "OPEN"
      BY DEF OpenWhileResolving
    <3>. DEFINE reqs == [request EXCEPT ![c] = Idle]
    <3>1. request' = Invalidate(reqs, {s}, {}) /\ reqs \in [Clients -> Requests]
      BY <2>1, <2>3
    <3>2. reqs[d] = IF d = c THEN Idle ELSE request[d]
      BY <1>1 DEF TypeOK
    <3>. HIDE DEF reqs
    <3>3. request'[d].issue = reqs[d].issue /\ ~reqs[d].late
      BY <3>1, InvalidateFields
    <3>. QED
      BY <1>2, <2>1, <3>2, <3>3 DEF IInv, OpenWhileResolving
  <2>5. OpeningsLeft'
    BY <2>1 DEF IInv, OpeningsLeft
  <2>. QED
    BY <1>1, <2>2, <2>4, <2>5 DEF IInv
<1>5. ASSUME NEW c \in Clients, NEW i \in Issues, NEW s \in Skus, NEW q \in Quantities,
             BeginResolve(c, i, s, q)
      PROVE  IInv'
  <2>. DEFINE r == NewRequest("auditRead", s, i, -Abs(q), 0)
  <2>1. -Abs(q) \in Int
    BY AbsType
  <2>2. r \in Requests
    BY <2>1, NewRequestType
  <2>3. r.phase = "auditRead" /\ r.issue = i
    BY DEF NewRequest
  <2>4. /\ request' = [request EXCEPT ![c] = r]
        /\ audit[i] = "OPEN"
        /\ UNCHANGED <<posted, balance, movements, audit, resolutions, opened, raced, contested>>
    BY <1>5 DEF BeginResolve
  <2>. HIDE DEF r
  <2>. QED
    BY <1>1, <2>2, <2>3, <2>4, RequestStep
<1>6. ASSUME NEW c \in Clients, NEW s \in Skus, ReadBalanceForResolve(c, s)
      PROVE  IInv'
  <2>. DEFINE r == [request[c] EXCEPT !.phase = "resolve", !.seen = balance[s]]
  <2>1. request[c] \in Requests /\ balance[s] \in Int
    BY <1>1 DEF TypeOK
  <2>2. r \in Requests
    BY <2>1 DEF Requests
  <2>3. r.sku = request[c].sku /\ r.seen = balance[s] /\ r.issue = request[c].issue
        /\ r.late = request[c].late
    BY <2>1 DEF Requests
  <2>4. /\ request' = [request EXCEPT ![c] = r]
        /\ request[c].sku = s
        /\ UNCHANGED <<posted, balance, movements, audit, resolutions, opened, raced, contested>>
    BY <1>1, <1>6 DEF ReadBalanceForResolve, TypeOK
  <2>5. r.issue \in Issues /\ ~r.late => audit[r.issue] = "OPEN"
    BY <2>3 DEF IInv, OpenWhileResolving
  <2>. HIDE DEF r
  <2>. QED
    BY <1>1, <2>2, <2>3, <2>4, <2>5, RequestStep
<1>7. ASSUME NEW c \in Clients, NEW i \in Issues, NEW s \in Skus, CommitResolve(c, i, s)
      PROVE  IInv'
  <2>1. /\ request[c].phase \in HasRead
        /\ request[c].sku = s
        /\ request[c].issue = i
        /\ WriteMovement(c, s)
        /\ audit' = [audit EXCEPT ![i] = "CLOSED"]
        /\ resolutions' = [resolutions EXCEPT ![i] = @ + 1]
        /\ contested' = IF request[c].late THEN contested \cup {i} ELSE contested
        /\ request' = Invalidate([request EXCEPT ![c] = Idle], {s}, {i})
        /\ UNCHANGED opened
    BY <1>7 DEF CommitResolve
  <2>2. BalanceIsSumUnlessRaced' /\ FreshReads'
    BY <1>1, <2>1, WriteStep
  <2>3. [request EXCEPT ![c] = Idle] \in [Clients -> Requests]
    BY <1>1, <1>2 DEF TypeOK
  <2>4. OpenWhileResolving'
    <3>. SUFFICES ASSUME NEW d \in Clients, request'[d].issue \in Issues, ~request'[d].late
                  PROVE  audit'[request'[d].issue] = "OPEN"
      BY DEF OpenWhileResolving
    <3>. DEFINE reqs == [request EXCEPT ![c] = Idle]
    <3>1. request' = Invalidate(reqs, {s}, {i}) /\ reqs \in [Clients -> Requests]
      BY <2>1, <2>3
    <3>2. reqs[d] = IF d = c THEN Idle ELSE request[d]
      BY <1>1 DEF TypeOK
    <3>. HIDE DEF reqs
    <3>3. request'[d].issue = reqs[d].issue /\ ~reqs[d].late /\ reqs[d].issue \notin {i}
      BY <3>1, InvalidateFields
    <3>4. audit[request[d].issue] = "OPEN" /\ request[d].issue \in Issues \ {i}
          /\ request'[d].issue = request[d].issue
      BY <1>2, <3>2, <3>3 DEF IInv, OpenWhileResolving
    <3>. QED
      BY <1>1, <2>1, <3>4 DEF TypeOK
  <2>5. OpeningsLeft'
    <3>1. i \notin contested' => ~request[c].late /\ audit[i] = "OPEN"
      BY <2>1 DEF IInv, OpenWhileResolving
    <3>2. contested \subseteq contested'
      BY <2>1
    <3>3. \A j \in Issues \ {i} : audit'[j] = audit[j] /\ resolutions'[j] = resolutions[j]
      BY <1>1, <2>1 DEF TypeOK
    <3>4. audit'[i] = "CLOSED" /\ resolutions'[i] = resolutions[i] + 1
      BY <1>1, <2>1 DEF TypeOK
    <3>5. resolutions[i] \in Nat /\ opened[i] \in Nat
      BY <1>1 DEF TypeOK
    <3>. QED
      BY <2>1, <3>1, <3>2, <3>3, <3>4, <3>5 DEF IInv, OpeningsLeft
  <2>. QED
    BY <1>1, <2>2, <2>4, <2>5 DEF IInv
<1>8. ASSUME NEW c \in Clients, Abort(c) PROVE IInv'
  <2>1. /\ request' = [request EXCEPT ![c] = Idle]
        /\ UNCHANGED <<posted, balance, movements, audit, resolutions, opened, raced, contested>>
    BY <1>8 DEF Abort
  <2>. QED
    BY <1>1, <1>2, <2>1, RequestStep
<1>9. ASSUME NEW s \in Skus, NEW q \in Quantities, NEW i \in Issues,
             NEW status \in AuditStatus, ImportDeduction(s, q, i, status)
      PROVE  IInv'
  <2>. DEFINE deduct == [t \in Skus |-> IF t = s THEN q ELSE 0]
  <2>1. deduct \in [Skus -> Int] /\ ImportCommit(deduct, 1, [k \in {i} |-> status])
    BY <1>9 DEF ImportDeduction
  <2>. HIDE DEF deduct
  <2>. QED
    BY <1>1, <2>1, ImportStep
<1>10. ASSUME NEW i \in Issues, ImportUnresolved(i) PROVE IInv'
  <2>. DEFINE deduct == [t \in Skus |-> 0]
  <2>1. deduct \in [Skus -> Int] /\ ImportCommit(deduct, 0, [k \in {i} |-> "OPEN"])
    BY <1>10 DEF ImportUnresolved
  <2>. HIDE DEF deduct
  <2>. QED
    BY <1>1, <2>1, ImportStep
<1>11. CASE UNCHANGED inventoryVars
  BY <1>1, <1>11 DEF IInv, inventoryVars, BalanceIsSumUnlessRaced, FreshReads,
        OpenWhileResolving, OpeningsLeft
<1>. QED
  BY <1>3, <1>4, <1>5, <1>6, <1>7, <1>8, <1>9, <1>10, <1>11 DEF Next, ClientNext

-----------------------------------------------------------------------------
\* Type correctness of the stock tables and the requests on them.
THEOREM TypeCorrect == Spec => []TypeOK
<1>1. Init => TypeOK
  BY InitIInv DEF IInv
<1>. QED
  BY <1>1, StepTypeOK, PTL DEF Spec

\* The inductive invariant holds in every behaviour.
THEOREM AlwaysIInv == Spec => []IInv
BY InitIInv, StepIInv, PTL DEF Spec

\* The stock snapshot equals the sum of its movements for every SKU that no
\* request has written from an outdated read, however many requests of
\* createManualAdjustment, resolveAuditIssue and imports interleave.
THEOREM SnapshotIsSum == Spec => []BalanceIsSumUnlessRaced
<1>1. IInv => BalanceIsSumUnlessRaced
  BY DEF IInv
<1>. QED
  BY <1>1, InitIInv, StepIInv, PTL DEF Spec

\* resolveAuditIssue deducts stock at most once for each time an import opened
\* the issue, unless two resolutions of it overlapped.
THEOREM ResolvedOnce == Spec => []ResolvedOncePerOpening
<1>1. IInv => ResolvedOncePerOpening
  BY DEF IInv, OpeningsLeft, ResolvedOncePerOpening
<1>. QED
  BY <1>1, InitIInv, StepIInv, PTL DEF Spec

-----------------------------------------------------------------------------
\* The empty database is an initial state of the abstract ledger.
LEMMA InitLedger == Init => Ledger!Init
BY DEF Init, Ledger!Init

\* Writing a movement and the absolute balance posts to the abstract ledger: a
\* fresh read makes both tables move by the quantity of the movement.
LEMMA WritePosts ==
    ASSUME IInv, TypeOK', NEW c \in Clients, NEW s \in Skus,
           request[c].phase \in HasRead, request[c].sku = s, WriteMovement(c, s)
    PROVE  Ledger!Post
<1>1. request[c].delta \in Int /\ request[c].seen \in Int
  BY DEF IInv, TypeOK, Requests
<1>2. raced \subseteq raced' /\ (s \notin raced' => ~request[c].stale)
  BY DEF WriteMovement
<1>3. s \notin raced' => request[c].seen = balance[s]
  BY <1>2 DEF IInv, FreshReads
<1>4. ASSUME NEW t \in Skus \ raced'
      PROVE  balance'[t] - balance[t] = posted'[t] - posted[t]
  <2>1. balance[t] \in Int /\ posted[t] \in Int
    BY DEF IInv, TypeOK
  <2>2. CASE t = s
    <3>1. balance'[t] = request[c].seen + request[c].delta
          /\ posted'[t] = posted[t] + request[c].delta
      BY <2>2 DEF WriteMovement, IInv, TypeOK
    <3>. QED
      BY <1>1, <1>3, <2>1, <2>2, <3>1
  <2>3. CASE t # s
    BY <2>1, <2>3 DEF WriteMovement, IInv, TypeOK
  <2>. QED
    BY <2>2, <2>3
<1>. QED
  BY <1>2, <1>4 DEF TypeOK, Ledger!Post

\* The deductions of an import post to the abstract ledger.
LEMMA ImportPosts ==
    ASSUME IInv, TypeOK', NEW deduct \in [Skus -> Int], NEW count, NEW written,
           ImportCommit(deduct, count, written)
    PROVE  Ledger!Post
<1>1. ASSUME NEW t \in Skus
      PROVE  balance'[t] - balance[t] = posted'[t] - posted[t]
  BY DEF ImportCommit, IInv, TypeOK
<1>. QED
  BY <1>1 DEF ImportCommit, TypeOK, Ledger!Post

\* A step that writes neither stock table is a stutter of the ledger, the
\* others post to it.
LEMMA StepLedger ==
    IInv /\ IInv' /\ [Next]_inventoryVars => [Ledger!Post]_(Ledger!ledgerVars)
<1>. SUFFICES ASSUME IInv, IInv', [Next]_inventoryVars
              PROVE  Ledger!Post \/ UNCHANGED <<posted, balance, raced>>
  BY DEF Ledger!ledgerVars
<1>1. TypeOK'
  BY DEF IInv
<1>2. ASSUME NEW c \in Clients, NEW s \in Skus, CommitManualAdjustment(c, s)
      PROVE  Ledger!Post
  BY <1>1, <1>2, WritePosts DEF CommitManualAdjustment
<1>3. ASSUME NEW c \in Clients, NEW i \in Issues, NEW s \in Skus, CommitResolve(c, i, s)
      PROVE  Ledger!Post
  BY <1>1, <1>3, WritePosts DEF CommitResolve
<1>4. ASSUME NEW s \in Skus, NEW q \in Quantities, NEW i \in Issues,
             NEW status \in AuditStatus, ImportDeduction(s, q, i, status)
      PROVE  Ledger!Post
  <2>. DEFINE deduct == [t \in Skus |-> IF t = s THEN q ELSE 0]
  <2>1. deduct \in [Skus -> Int] /\ ImportCommit(deduct, 1, [k \in {i} |-> status])
    BY <1>4 DEF ImportDeduction
  <2>. HIDE DEF deduct
  <2>. QED
    BY <1>1, <2>1, ImportPosts
<1>5. ASSUME NEW i \in Issues, ImportUnresolved(i) PROVE Ledger!Post
  <2>. DEFINE deduct == [t \in Skus |-> 0]
  <2>1. deduct \in [Skus -> Int] /\ ImportCommit(deduct, 0, [k \in {i} |-> "OPEN"])
    BY <1>5 DEF ImportUnresolved
  <2>. HIDE DEF deduct
  <2>. QED
    BY <1>1, <2>1, ImportPosts
<1>6. ASSUME NEW c \in Clients,
             \/ \E s \in Skus, t \in MovementTypes, q \in Quantities :
                    BeginManualAdjustment(c, s, t, q)
             \/ \E i \in Issues, s \in Skus, q \in Quantities : BeginResolve(c, i, s, q)
             \/ \E s \in Skus : ReadBalanceForResolve(c, s)
             \/ Abort(c)
      PROVE  UNCHANGED <<posted, balance, raced>>
  BY <1>6 DEF BeginManualAdjustment, BeginResolve, ReadBalanceForResolve, Abort
<1>7. CASE UNCHANGED inventoryVars
  BY <1>7 DEF inventoryVars
<1>. QED
  BY <1>2, <1>3, <1>4, <1>5, <1>6, <1>7 DEF Next, ClientNext

\* The stock tables implement the ledger of docs/step110 for every SKU no raced
\* write has touched: no step of any of the three code paths moves the snapshot
\* of such a SKU without movements of the same total.
THEOREM ImplementsLedger == Spec => SnapshotFollowsMovements
<1>1. Spec => []IInv
  BY InitIInv, StepIInv, PTL DEF Spec
<1>. QED
  BY <1>1, InitLedger, StepLedger, PTL DEF Spec, SnapshotFollowsMovements, Ledger!Spec
=============================================================================
