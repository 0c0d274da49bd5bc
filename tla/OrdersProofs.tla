---------------------------- MODULE OrdersProofs ----------------------------
(***************************************************************************)
(* The store-orders import keeps the ledger, the movements and the audit   *)
(* issues in agreement, for every number of jobs, files, lines, workers    *)
(* and clients.                                                            *)
(***************************************************************************)
EXTENDS StoreOrdersImport, FiniteSetTheorems, WellFoundedInduction, TLAPS

JobSet ==
    [status : {"NONE", "PENDING", "SUCCEEDED"}, file : Files \cup {<<>>},
     policy : Policies \cup {""}, conflicts : SUBSET Months]
RowSet == [match : Matches, target : TxIds \cup {NoTx}]

-----------------------------------------------------------------------------
(* Rows and their order *)

\* Transaction ids, row numbers and bounds are natural numbers.
LEMMA Bounds ==
    /\ MaxTransactions \in Nat /\ MaxMovements \in Nat /\ MaxRows \in Nat
    /\ RowNos \subseteq Nat /\ \A id \in TxIds \cup {NoTx} : id \in Int
<1>1. MaxTransactions \in Nat /\ MaxMovements \in Nat /\ MaxRows \in Nat
  BY StoreOrdersImportAssumption
<1>. QED
  BY <1>1 DEF TxIds, RowNos, NoTx

\* A nonempty set of natural numbers has a least one.
LEMMA LeastNatural ==
    ASSUME NEW T \in SUBSET Nat, T # {}
    PROVE  \E x \in T : \A y \in T : x <= y
<1>. DEFINE R == OpToRel(<, Nat)
<1>1. \E x \in T : \A y \in T : <<y, x>> \notin R
  BY NatLessThanWellFounded, WFMin
<1>2. \A y, x \in Nat : y < x => <<y, x>> \in R
  BY DEF OpToRel
<1>. HIDE DEF R
<1>3. PICK x \in T : \A y \in T : <<y, x>> \notin R
  BY <1>1
<1>4. ASSUME NEW y \in T PROVE x <= y
  <2>1. x \in Nat /\ y \in Nat
    OBVIOUS
  <2>2. ~(y < x)
    BY <1>2, <1>3, <2>1, Zenon
  <2>. QED
    BY <2>1, <2>2
<1>. QED
  BY <1>4

\* The row a commit is at is one it has still to do.
LEMMA RowAtFacts ==
    ASSUME NEW c, c.todo \in SUBSET RowNos, c.todo # {}
    PROVE  RowAt(c) \in c.todo /\ RowAt(c) \in RowNos
<1>1. c.todo \in SUBSET Nat
  BY StoreOrdersImportAssumption DEF RowNos
<1>2. \E n \in c.todo : \A m \in c.todo : n <= m
  BY <1>1, LeastNatural
<1>. QED
  BY <1>2 DEF RowAt

\* Files are sequences of lines of one module.
LEMMA FileFacts ==
    ASSUME NEW f \in Files
    PROVE  /\ DOMAIN f \subseteq RowNos
           /\ \A n \in DOMAIN f : f[n] \in Lines /\ LineInfo[f[n]].module = ModuleOf(f)
           /\ FileMonths(f) \subseteq Months /\ NoMonth \notin FileMonths(f)
<1>1. f \in Seq(Lines) /\ Len(f) \in RowNos
      /\ \A n \in DOMAIN f : LineInfo[f[n]].module = ModuleOf(f)
  BY StoreOrdersImportAssumption
<1>2. DOMAIN f = 1..Len(f) /\ \A n \in DOMAIN f : f[n] \in Lines
  BY <1>1
<1>3. DOMAIN f \subseteq RowNos
  BY <1>1, <1>2, StoreOrdersImportAssumption DEF RowNos
<1>. QED
  BY <1>1, <1>2, <1>3 DEF FileMonths, Months

\* The functions a commit builds row by row.
LEMMA RowFunctions ==
    ASSUME NEW c \in Requests
    PROVE  /\ DOMAIN c.targets \in SUBSET RowNos
           /\ c.targets \in [DOMAIN c.targets -> TxIds \cup {NoTx}]
           /\ \A n \in DOMAIN c.targets : c.targets[n] \in TxIds \cup {NoTx} /\ c.targets[n] \in Int
           /\ DOMAIN c.audits \in SUBSET RowNos
           /\ c.audits \in [DOMAIN c.audits -> Inv!AuditStatus]
<1>1. PICK R \in SUBSET RowNos : c.targets \in [R -> TxIds \cup {NoTx}]
  <2>1. c.targets \in UNION {[T -> TxIds \cup {NoTx}] : T \in SUBSET RowNos}
    BY DEF Requests
  <2>. QED
    BY <2>1
<1>2. PICK A \in SUBSET RowNos : c.audits \in [A -> Inv!AuditStatus]
  <2>1. c.audits \in UNION {[T -> Inv!AuditStatus] : T \in SUBSET RowNos}
    BY DEF Requests
  <2>. QED
    BY <2>1
<1>. QED
  BY <1>1, <1>2, Bounds

\* A free worker has nothing in hand.
LEMMA FreeFacts ==
    /\ Free \in Requests /\ IsFiniteSet(Free.moved)
    /\ Free.phase = "idle" /\ Free.job = NoJob /\ Free.choice = "none" /\ Free.todo = {}
    /\ Free.created = {} /\ Free.moved = {} /\ Free.gone = {} /\ Free.seen = {}
    /\ DOMAIN Free.targets = {} /\ DOMAIN Free.audits = {}
<1>1. /\ [n \in RowNos |-> "NONE"] \in [RowNos -> Inv!AuditStatus]
      /\ [s \in Skus |-> 0] \in [Skus -> Int]
      /\ [n \in {} |-> NoTx] \in [{} -> TxIds \cup {NoTx}]
      /\ [n \in {} |-> "NONE"] \in [{} -> Inv!AuditStatus]
  BY DEF Inv!AuditStatus
<1>2. {} \in SUBSET RowNos
  OBVIOUS
<1>3. /\ [n \in {} |-> NoTx] \in UNION {[R -> TxIds \cup {NoTx}] : R \in SUBSET RowNos}
      /\ [n \in {} |-> "NONE"] \in UNION {[R -> Inv!AuditStatus] : R \in SUBSET RowNos}
  BY <1>1, <1>2
<1>4. IsFiniteSet({})
  BY FS_EmptySet
<1>. QED
  BY <1>1, <1>3, <1>4 DEF Free, Requests

\* The types that the invariant includes.
LEMMA Types ==
    ASSUME IInv
    PROVE  /\ work \in [Workers -> Requests] /\ \A w \in Workers : IsFiniteSet(work[w].moved)
           /\ lastTx \in 0..MaxTransactions /\ lastTx \in Nat /\ lastTx <= lastTx
           /\ job \in [Jobs -> JobSet] /\ staging \in [Rows -> RowSet]
           /\ ledger \in SUBSET Transactions /\ moves \in SUBSET Moves
           /\ racedLines \subseteq Lines /\ racedRows \subseteq Rows
           /\ Inv!TypeOK /\ Inv!IInv
<1>1. TypeOK
  BY DEF IInv
<1>2. lastTx \in 0..MaxTransactions
  BY <1>1 DEF TypeOK
<1>3. lastTx \in Nat /\ lastTx <= lastTx
  BY <1>2, Bounds
<1>. QED
  BY <1>1, <1>3 DEF IInv, TypeOK, JobSet, RowSet

-----------------------------------------------------------------------------
(* The stock tables *)

\* A step that does not touch them keeps their invariant.
LEMMA StockSame ==
    ASSUME Inv!IInv, UNCHANGED stockVars
    PROVE  Inv!IInv'
BY DEF stockVars, Inv!IInv, Inv!TypeOK, Inv!BalanceIsSumUnlessRaced, Inv!FreshReads,
       Inv!OpenWhileResolving, Inv!OpeningsLeft

\* Marking the reads that a commit outdated keeps resolution requests well formed and
\* changes nothing but the two marks.
LEMMA StockInvalidate ==
    ASSUME NEW reqs \in [Clients -> Inv!Requests], NEW skus, NEW closed
    PROVE  /\ Inv!Invalidate(reqs, skus, closed) \in [Clients -> Inv!Requests]
           /\ \A c \in Clients :
                 LET r == Inv!Invalidate(reqs, skus, closed)[c] IN
                 /\ r.phase = reqs[c].phase /\ r.sku = reqs[c].sku /\ r.issue = reqs[c].issue
                 /\ r.delta = reqs[c].delta /\ r.seen = reqs[c].seen
                 /\ ~r.stale => ~reqs[c].stale /\ ~(reqs[c].phase \in Inv!HasRead /\ reqs[c].sku \in skus)
                 /\ ~r.late => ~reqs[c].late /\ reqs[c].issue \notin closed
<1>1. \A c \in Clients : reqs[c] \in Inv!Requests
  OBVIOUS
<1>2. \A c \in Clients :
          /\ (reqs[c].stale \/ (reqs[c].phase \in Inv!HasRead /\ reqs[c].sku \in skus)) \in BOOLEAN
          /\ (reqs[c].late \/ reqs[c].issue \in closed) \in BOOLEAN
  OBVIOUS
<1>3. \A c \in Clients :
          [reqs[c] EXCEPT
              !.stale = @ \/ (reqs[c].phase \in Inv!HasRead /\ reqs[c].sku \in skus),
              !.late = @ \/ reqs[c].issue \in closed] \in Inv!Requests
  BY <1>1, <1>2 DEF Inv!Requests
<1>4. Inv!Invalidate(reqs, skus, closed) \in [Clients -> Inv!Requests]
  BY <1>3 DEF Inv!Invalidate
<1>5. ASSUME NEW c \in Clients
      PROVE  LET r == Inv!Invalidate(reqs, skus, closed)[c] IN
             /\ r.phase = reqs[c].phase /\ r.sku = reqs[c].sku /\ r.issue = reqs[c].issue
             /\ r.delta = reqs[c].delta /\ r.seen = reqs[c].seen
             /\ ~r.stale => ~reqs[c].stale /\ ~(reqs[c].phase \in Inv!HasRead /\ reqs[c].sku \in skus)
             /\ ~r.late => ~reqs[c].late /\ reqs[c].issue \notin closed
  BY <1>1 DEF Inv!Invalidate, Inv!Requests
<1>. QED
  BY <1>4, <1>5

\* An import's deductions shift movements and balances of a SKU alike, make the
\* readers of the SKUs it deducts stale, and only open issues.
LEMMA StockCommit ==
    ASSUME Inv!IInv, NEW deduct \in [Skus -> Int], NEW count \in Nat, NEW written,
           \A r \in DOMAIN written : written[r] \in Inv!AuditStatus,
           Inv!ImportCommit(deduct, count, written)
    PROVE  Inv!IInv' /\ Inv!Ledger!Post
<1>. DEFINE moved == {s \in Skus : deduct[s] # 0}
            closed == {r \in DOMAIN written : written[r] # "OPEN"}
<1>0. /\ request \in [Clients -> Inv!Requests] /\ balance \in [Skus -> Int] /\ posted \in [Skus -> Int]
      /\ Inv!TypeOK
  BY DEF Inv!IInv, Inv!TypeOK
<1>1. /\ balance' = [s \in Skus |-> balance[s] - deduct[s]]
      /\ posted' = [s \in Skus |-> posted[s] - deduct[s]]
      /\ request' = Inv!Invalidate(request, moved, closed)
      /\ audit' = [r \in Rows |-> IF r \in DOMAIN written THEN written[r] ELSE audit[r]]
      /\ opened' = [r \in Rows |->
            IF r \in DOMAIN written /\ written[r] = "OPEN" THEN opened[r] + 1 ELSE opened[r]]
      /\ UNCHANGED <<resolutions, raced, contested>>
  BY DEF Inv!ImportCommit
<1>2. \A s \in Skus : s \notin moved => balance'[s] = balance[s]
  BY <1>0, <1>1
<1>3. \A r \in DOMAIN written : r \notin closed => written[r] = "OPEN"
  OBVIOUS
<1>. HIDE DEF moved, closed
<1>4. /\ request' \in [Clients -> Inv!Requests]
      /\ \A d \in Clients :
            /\ request'[d].phase = request[d].phase /\ request'[d].sku = request[d].sku
            /\ request'[d].issue = request[d].issue /\ request'[d].seen = request[d].seen
            /\ ~request'[d].stale =>
                  ~request[d].stale /\ ~(request[d].phase \in Inv!HasRead /\ request[d].sku \in moved)
            /\ ~request'[d].late => ~request[d].late /\ request[d].issue \notin closed
  BY <1>0, <1>1, StockInvalidate
<1>5. Inv!TypeOK'
  <2>1. movements' \in Nat
    BY <1>0 DEF Inv!TypeOK, Inv!ImportCommit
  <2>. QED
    BY <1>0, <1>1, <1>4, <2>1 DEF Inv!TypeOK
<1>6. Inv!BalanceIsSumUnlessRaced'
  BY <1>0, <1>1 DEF Inv!IInv, Inv!BalanceIsSumUnlessRaced
<1>7. Inv!FreshReads'
  BY <1>2, <1>4 DEF Inv!IInv, Inv!FreshReads
<1>8. Inv!OpenWhileResolving'
  BY <1>1, <1>3, <1>4 DEF Inv!IInv, Inv!OpenWhileResolving
<1>9. Inv!OpeningsLeft'
  BY <1>0, <1>1 DEF Inv!IInv, Inv!OpeningsLeft, Inv!TypeOK
<1>10. Inv!Ledger!Post
  <2>1. \A s \in Skus : balance'[s] - balance[s] = posted'[s] - posted[s]
    BY <1>0, <1>1
  <2>. QED
    BY <1>0, <1>1, <1>5, <2>1 DEF Inv!TypeOK, Inv!Ledger!Post
<1>. QED
  BY <1>5, <1>6, <1>7, <1>8, <1>9, <1>10 DEF Inv!IInv

\* A resolution that starts or reads keeps the tables, and the request holds no
\* balance or the one it just read, and its issue is OPEN or marked late.
LEMMA StockRequest ==
    ASSUME Inv!IInv, NEW c \in Clients, NEW q \in Inv!Requests,
           request' = [request EXCEPT ![c] = q],
           UNCHANGED <<posted, balance, movements, audit, resolutions, opened, raced, contested>>,
           q.phase \in Inv!HasRead /\ ~q.stale => q.sku \in Skus /\ q.seen = balance[q.sku],
           q.issue \in Rows /\ ~q.late => audit[q.issue] = "OPEN"
    PROVE  Inv!IInv'
<1>1. request'[c] = q /\ \A d \in Clients \ {c} : request'[d] = request[d]
  BY DEF Inv!IInv, Inv!TypeOK
<1>2. Inv!TypeOK'
  BY DEF Inv!IInv, Inv!TypeOK
<1>3. Inv!FreshReads' /\ Inv!OpenWhileResolving'
  BY <1>1 DEF Inv!IInv, Inv!FreshReads, Inv!OpenWhileResolving
<1>. QED
  BY <1>2, <1>3 DEF Inv!IInv, Inv!BalanceIsSumUnlessRaced, Inv!OpeningsLeft

\* The resolution of an audit issue begins: the issue is OPEN.
LEMMA StockBegin ==
    ASSUME Inv!IInv, NEW c \in Clients, NEW r \in Rows, NEW s \in Skus, NEW quantity \in Int,
           Inv!BeginResolve(c, r, s, quantity)
    PROVE  Inv!IInv'
<1>. DEFINE q == Inv!NewRequest("auditRead", s, r, -Inv!Abs(quantity), 0)
<1>1. -Inv!Abs(quantity) \in Int
  BY DEF Inv!Abs
<1>2. q \in Inv!Requests
  BY <1>1 DEF Inv!NewRequest, Inv!Requests, Inv!Phases
<1>3. q.phase \notin Inv!HasRead /\ q.issue = r
  BY DEF Inv!NewRequest, Inv!HasRead
<1>4. /\ request' = [request EXCEPT ![c] = q] /\ audit[r] = "OPEN"
      /\ UNCHANGED <<posted, balance, movements, audit, resolutions, opened, raced, contested>>
  BY DEF Inv!BeginResolve
<1>. HIDE DEF q
<1>. QED
  BY <1>2, <1>3, <1>4, StockRequest

\* It reads the balance.
LEMMA StockRead ==
    ASSUME Inv!IInv, NEW c \in Clients, NEW s \in Skus, Inv!ReadBalanceForResolve(c, s)
    PROVE  Inv!IInv'
<1>. DEFINE q == [request[c] EXCEPT !.phase = "resolve", !.seen = balance[s]]
<1>0. request \in [Clients -> Inv!Requests] /\ request[c] \in Inv!Requests /\ balance[s] \in Int
  BY DEF Inv!IInv, Inv!TypeOK
<1>1. q \in Inv!Requests
  BY <1>0 DEF Inv!Requests, Inv!Phases
<1>2. q.sku = request[c].sku /\ q.seen = balance[s] /\ q.issue = request[c].issue /\ q.late = request[c].late
  BY <1>0 DEF Inv!Requests
<1>3. /\ request' = [request EXCEPT ![c] = q] /\ request[c].sku = s
      /\ UNCHANGED <<posted, balance, movements, audit, resolutions, opened, raced, contested>>
  BY <1>0 DEF Inv!ReadBalanceForResolve
<1>4. q.issue \in Rows /\ ~q.late => audit[q.issue] = "OPEN"
  BY <1>2 DEF Inv!IInv, Inv!OpenWhileResolving
<1>. HIDE DEF q
<1>. QED
  BY <1>1, <1>2, <1>3, <1>4, StockRequest

\* It writes its movement and closes the issue: a fresh read makes the balance the sum
\* of the movements, and a late one contests the issue.
LEMMA StockResolve ==
    ASSUME Inv!IInv, NEW c \in Clients, NEW r \in Rows, NEW s \in Skus, Inv!CommitResolve(c, r, s)
    PROVE  Inv!IInv' /\ Inv!Ledger!Post /\ \A i \in Rows : audit[i] # "NONE" => audit'[i] # "NONE"
<1>. DEFINE reqs == [request EXCEPT ![c] = Inv!Idle]
<1>0. /\ Inv!TypeOK /\ request \in [Clients -> Inv!Requests]
      /\ posted \in [Skus -> Int] /\ balance \in [Skus -> Int]
      /\ request[c].delta \in Int /\ request[c].seen \in Int
  BY DEF Inv!IInv, Inv!TypeOK, Inv!Requests
<1>1. /\ request[c].phase \in Inv!HasRead /\ request[c].sku = s /\ request[c].issue = r
      /\ movements' = movements + 1
      /\ posted' = [posted EXCEPT ![s] = @ + request[c].delta]
      /\ balance' = [balance EXCEPT ![s] = request[c].seen + request[c].delta]
      /\ raced' = IF request[c].stale THEN raced \cup {s} ELSE raced
      /\ audit' = [audit EXCEPT ![r] = "CLOSED"] /\ resolutions' = [resolutions EXCEPT ![r] = @ + 1]
      /\ contested' = IF request[c].late THEN contested \cup {r} ELSE contested
      /\ request' = Inv!Invalidate(reqs, {s}, {r}) /\ UNCHANGED opened
  BY DEF Inv!CommitResolve, Inv!WriteMovement, Inv!HasRead
<1>2. /\ Inv!Idle \in Inv!Requests /\ Inv!Idle.phase = "idle" /\ Inv!Idle.issue = NoIssue
      /\ NoIssue \notin Rows
  BY StoreOrdersImportAssumption
     DEF Inv!Idle, Inv!NewRequest, Inv!Requests, Inv!Phases
<1>3. reqs \in [Clients -> Inv!Requests] /\ reqs[c] = Inv!Idle
      /\ \A d \in Clients \ {c} : reqs[d] = request[d]
  BY <1>0, <1>2
<1>. HIDE DEF reqs
<1>4. /\ request' \in [Clients -> Inv!Requests]
      /\ \A d \in Clients :
            /\ request'[d].phase = reqs[d].phase /\ request'[d].sku = reqs[d].sku
            /\ request'[d].issue = reqs[d].issue /\ request'[d].seen = reqs[d].seen
            /\ ~request'[d].stale =>
                  ~reqs[d].stale /\ ~(reqs[d].phase \in Inv!HasRead /\ reqs[d].sku \in {s})
            /\ ~request'[d].late => ~reqs[d].late /\ reqs[d].issue \notin {r}
  BY <1>1, <1>3, StockInvalidate
<1>5. Inv!TypeOK'
  <2>1. audit' \in [Rows -> Inv!AuditStatus] /\ resolutions' \in [Rows -> Nat] /\ movements' \in Nat
    BY <1>0, <1>1 DEF Inv!TypeOK, Inv!AuditStatus
  <2>2. posted' \in [Skus -> Int] /\ balance' \in [Skus -> Int]
    BY <1>0, <1>1
  <2>. QED
    BY <1>0, <1>1, <1>4, <2>1, <2>2 DEF Inv!TypeOK
<1>6. /\ \A t \in Skus \ {s} : balance'[t] = balance[t] /\ posted'[t] = posted[t]
      /\ balance'[s] = request[c].seen + request[c].delta
      /\ posted'[s] = posted[s] + request[c].delta
      /\ raced \subseteq raced' /\ (s \notin raced' => request[c].seen = balance[s])
  BY <1>0, <1>1 DEF Inv!IInv, Inv!FreshReads
<1>7. Inv!BalanceIsSumUnlessRaced'
  <2>1. \A t \in Skus \ raced : balance[t] = posted[t]
    BY DEF Inv!IInv, Inv!BalanceIsSumUnlessRaced
  <2>2. \A t \in Skus \ raced' : balance'[t] = posted'[t]
    BY <1>6, <2>1
  <2>. QED
    BY <2>2 DEF Inv!BalanceIsSumUnlessRaced
<1>8. Inv!FreshReads'
  <2>. SUFFICES ASSUME NEW d \in Clients, request'[d].phase \in Inv!HasRead, ~request'[d].stale
                PROVE  request'[d].sku \in Skus /\ request'[d].seen = balance'[request'[d].sku]
    BY DEF Inv!FreshReads
  <2>1. d # c
    BY <1>2, <1>3, <1>4 DEF Inv!HasRead
  <2>. QED
    BY <1>3, <1>4, <1>6, <2>1 DEF Inv!IInv, Inv!FreshReads
<1>9. Inv!OpenWhileResolving'
  <2>. SUFFICES ASSUME NEW d \in Clients, request'[d].issue \in Rows, ~request'[d].late
                PROVE  audit'[request'[d].issue] = "OPEN"
    BY DEF Inv!OpenWhileResolving
  <2>1. d # c
    BY <1>2, <1>3, <1>4
  <2>2. audit[request[d].issue] = "OPEN" /\ request[d].issue \in Rows \ {r}
        /\ request'[d].issue = request[d].issue
    BY <1>3, <1>4, <2>1 DEF Inv!IInv, Inv!OpenWhileResolving
  <2>. QED
    BY <1>0, <1>1, <2>2 DEF Inv!TypeOK
<1>10. Inv!OpeningsLeft'
  <2>1. r \notin contested' => ~request[c].late /\ audit[r] = "OPEN"
    BY <1>1 DEF Inv!IInv, Inv!OpenWhileResolving
  <2>2. contested \subseteq contested'
    BY <1>1
  <2>3. /\ \A i \in Rows \ {r} : audit'[i] = audit[i] /\ resolutions'[i] = resolutions[i]
        /\ audit'[r] = "CLOSED" /\ resolutions'[r] = resolutions[r] + 1
        /\ resolutions[r] \in Nat /\ opened[r] \in Nat
    BY <1>0, <1>1 DEF Inv!TypeOK
  <2>. QED
    BY <1>1, <2>1, <2>2, <2>3 DEF Inv!IInv, Inv!OpeningsLeft
<1>11. Inv!Ledger!Post
  <2>1. ASSUME NEW t \in Skus \ raced' PROVE balance'[t] - balance[t] = posted'[t] - posted[t]
    BY <1>0, <1>6
  <2>. QED
    BY <1>5, <1>6, <2>1 DEF Inv!TypeOK, Inv!Ledger!Post
<1>12. \A i \in Rows : audit[i] # "NONE" => audit'[i] # "NONE"
  BY <1>0, <1>1 DEF Inv!TypeOK
<1>. QED
  BY <1>5, <1>7, <1>8, <1>9, <1>10, <1>11, <1>12 DEF Inv!IInv

-----------------------------------------------------------------------------
(* Steps of one worker *)

\* A worker that has nothing in hand fits the tables when its request does.
LEMMA EmptyFits ==
    ASSUME NEW w \in Workers, RequestFits(w)', work'[w].phase \notin CommitPhases,
           work'[w].created = {}, work'[w].moved = {}, work'[w].seen = {}, work'[w].gone = {},
           DOMAIN work'[w].targets = {}, DOMAIN work'[w].audits = {}, work'[w].choice = "none"
    PROVE  Fits(w)'
<1>1. WritesFit(w)' /\ IdsFit(w)' /\ GoneFits(w)' /\ LinesFit(w)'
  BY DEF WritesFit, IdsFit, GoneFits, LinesFit
<1>2. DeductionsFit(w)'
  BY DEF DeductionsFit, Deducts
<1>3. TracesFit(w)' /\ ReimportsFit(w)'
  BY DEF TracesFit, ReimportsFit
<1>. QED
  BY <1>1, <1>2, <1>3 DEF Fits

\* So does a free one.
LEMMA FreeFits ==
    ASSUME NEW w \in Workers, work'[w] = Free
    PROVE  Fits(w)'
<1>1. RequestFits(w)'
  BY FreeFacts DEF RequestFits, CommitPhases
<1>. QED
  BY <1>1, FreeFacts, EmptyFits DEF CommitPhases

\* What another worker has read or written still fits when the tables are as
\* they were and the worker that moved fits.
LEMMA Bystander ==
    ASSUME IInv, NEW w \in Workers, NEW v \in Others(w),
           work' \in [Workers -> Requests], \A u \in Others(w) : work'[u] = work[u],
           lastTx' \in Nat, lastTx <= lastTx',
           racedLines \subseteq racedLines', racedRows \subseteq racedRows',
           UNCHANGED <<job, staging, ledger, moves>>,
           Fits(w)'
    PROVE  Fits(v)'
<1>0. v \in Workers /\ v # w /\ w \in Others(v) /\ work'[v] = work[v] /\ lastTx \in Nat
  <2>1. lastTx \in 0..MaxTransactions /\ MaxTransactions \in Nat
    BY StoreOrdersImportAssumption DEF IInv, TypeOK
  <2>. QED
    BY <2>1 DEF Others
<1>1. Fits(v)
  BY <1>0 DEF IInv
<1>2. RequestFits(v)'
  <2>1. NewRows(work[v].job)' = NewRows(work[v].job)
    BY DEF NewRows
  <2>2. \A u \in Others(v) : u # w => work'[u] = work[u]
    BY DEF Others
  <2>3. work[v].phase = "preview" => \A u \in Others(v) : work'[u].phase = "preview" => work'[u].job # work[v].job
    BY <1>0, <1>1, <2>2 DEF Fits, RequestFits
  <2>4. work[v].target \in Int
    <3>1. work[v] \in Requests
      BY <1>0 DEF IInv, TypeOK
    <3>2. work[v].target \in TxIds \cup {NoTx}
      BY <3>1 DEF Requests
    <3>. QED
      BY <3>2, Bounds
  <2>5. work[v].choice \notin {"none", "skip"} => work[v].target \in 1..lastTx'
    BY <1>0, <1>1, <2>4 DEF Fits, RequestFits
  <2>. HIDE DEF NewRows
  <2>. QED
    BY <1>0, <1>1, <2>1, <2>3, <2>5 DEF Fits, RequestFits
<1>3. WritesFit(v)'
  BY <1>0, <1>1 DEF Fits, WritesFit
<1>4. IdsFit(v)'
  <2>1. \A t \in work[v].created : t.id \in 1..lastTx' /\ \A u \in ledger' : t.id # u.id
    BY <1>0, <1>1 DEF Fits, IdsFit
  <2>2. \A u \in Workers : \A t \in work'[u].created : t.id \notin work[v].gone
    BY <1>0, <1>1 DEF Fits, IdsFit, Others
  <2>3. \A u \in Workers : \A t \in work[v].created : t.id \notin work'[u].gone
    BY <1>0, <1>1 DEF Fits, IdsFit, Others
  <2>4. \A u \in Others(v) : \A a \in work'[u].created : \A t \in work[v].created : t.id # a.id
    BY <1>0, <1>1 DEF Fits, IdsFit, Others
  <2>5. work[v].gone \subseteq 1..lastTx'
    BY <1>0, <1>1 DEF Fits, IdsFit
  <2>6. \A n \in DOMAIN work[v].targets : work[v].targets[n] <= lastTx'
    <3>1. work[v] \in Requests
      BY <1>0 DEF IInv, TypeOK
    <3>2. \A n \in DOMAIN work[v].targets : work[v].targets[n] \in Int
      BY <3>1, RowFunctions
    <3>. QED
      BY <1>0, <1>1, <3>2 DEF Fits, IdsFit
  <2>. QED
    BY <1>0, <1>1, <2>1, <2>2, <2>3, <2>4, <2>5, <2>6 DEF Fits, IdsFit
<1>5. GoneFits(v)'
  BY <1>0, <1>1 DEF Fits, GoneFits
<1>6. LinesFit(v)'
  <2>1. \A u \in Others(v) : u # w => work'[u] = work[u]
    BY DEF Others
  <2>. QED
    BY <1>0, <1>1, <2>1 DEF Fits, LinesFit
<1>7. DeductionsFit(v)'
  <2>0. PICK j : j = work[v].job
    OBVIOUS
  <2>1. \A u \in Others(w), r \in RowNos : Deducts(u, j, r)' <=> Deducts(u, j, r)
    BY DEF Deducts
  <2>2. SUFFICES ASSUME NEW r \in RowNos, Deducts(v, j, r)', <<j, r>> \notin racedRows'
                 PROVE  /\ \A u \in Others(v) : ~Deducts(u, j, r)'
                        /\ \A m \in moves : m.job = j /\ m.row = r =>
                              /\ \A n \in work[v].moved : n.row = r => m.sku # n.sku
                              /\ work[v].choice = "deduct" /\ RowAt(work[v]) = r => m.sku # work[v].sku
    BY <1>0, <2>0 DEF DeductionsFit
  <2>3. Deducts(v, j, r) /\ <<j, r>> \notin racedRows
    BY <1>0, <2>1, <2>2 DEF Others
  <2>4. ~Deducts(w, j, r)'
    <3>1. SUFFICES ASSUME Deducts(w, j, r)' PROVE FALSE
      OBVIOUS
    <3>2. work'[w].job = j
      BY <3>1 DEF Deducts
    <3>3. DeductionsFit(w)'
      BY DEF Fits
    <3>. QED
      BY <1>0, <2>2, <3>1, <3>2, <3>3 DEF DeductionsFit
  <2>5. \A u \in Others(v) : u # w => ~Deducts(u, j, r)'
    BY <1>1, <2>0, <2>1, <2>3 DEF Fits, DeductionsFit, Others
  <2>. QED
    BY <1>0, <1>1, <2>0, <2>3, <2>4, <2>5 DEF Fits, DeductionsFit, Others
<1>8. TracesFit(v)'
  BY <1>0, <1>1 DEF Fits, TracesFit
<1>9. ReimportsFit(v)'
  <2>1. NewRows(work[v].job)' = NewRows(work[v].job)
    BY DEF NewRows
  <2>. QED
    BY <1>0, <1>1, <2>1 DEF Fits, ReimportsFit
<1>. QED
  BY <1>2, <1>3, <1>4, <1>5, <1>6, <1>7, <1>8, <1>9 DEF Fits

\* A step of one worker that leaves the tables alone keeps the invariant when
\* that worker fits afterwards.
LEMMA LocalStep ==
    ASSUME IInv, NEW w \in Workers, NEW d \in Requests, IsFiniteSet(d.moved),
           work' = [work EXCEPT ![w] = d],
           lastTx' \in 0..MaxTransactions, lastTx <= lastTx',
           racedLines \subseteq racedLines', racedLines' \subseteq Lines,
           racedRows \subseteq racedRows', racedRows' \subseteq Rows,
           UNCHANGED <<job, staging, ledger, moves, aliases>>, UNCHANGED stockVars,
           Fits(w)'
    PROVE  IInv'
<1>0. work \in [Workers -> Requests] /\ work'[w] = d /\ \A u \in Others(w) : work'[u] = work[u]
  BY DEF IInv, TypeOK, Others
<1>1. work' \in [Workers -> Requests]
  BY <1>0
<1>2. lastTx \in Int /\ lastTx' \in Nat
  BY Bounds, Types
<1>3. Inv!TypeOK' /\ Inv!IInv'
  BY Types, StockSame DEF Inv!IInv
<1>4. TypeOK'
  <2>1. \A u \in Workers : IsFiniteSet(work'[u].moved)
    BY <1>0 DEF IInv, TypeOK, Others
  <2>. QED
    BY <1>1, <1>3, <2>1 DEF IInv, TypeOK
<1>5. LedgerIds'
  <2>1. \A t \in ledger : t.id \in 1..lastTx'
    BY <1>2 DEF IInv, LedgerIds
  <2>2. \A r \in Rows : staging[r].target \in Int
    BY Types, Bounds DEF RowSet
  <2>3. \A r \in Rows : staging[r].target <= lastTx'
    BY <1>2, <2>2 DEF IInv, LedgerIds
  <2>. QED
    BY <2>1, <2>3 DEF IInv, LedgerIds
<1>6. \A j \in Jobs : JobFits(j)'
  BY DEF IInv, JobFits
<1>7. ASSUME NEW v \in Workers PROVE Fits(v)'
  <2>1. CASE v = w
    BY <2>1
  <2>2. CASE v # w
    BY <2>2, <1>0, <1>1, <1>2, Bystander DEF Others
  <2>. QED
    BY <2>1, <2>2
<1>8. SameHashOnlyByOverlap' /\ OneMovementPerRowAndSku'
  BY DEF IInv, SameHashOnlyByOverlap, OneMovementPerRowAndSku
<1>9. NoOrderSilentlyUndeducted'
  BY DEF IInv, NoOrderSilentlyUndeducted, stockVars
<1>. QED
  BY <1>3, <1>4, <1>5, <1>6, <1>7, <1>8, <1>9 DEF IInv

\* A worker that is done, or gives up, with the tables as they were.
LEMMA KeepsRollback ==
    ASSUME IInv, NEW w \in Workers, Rollback(w)
    PROVE  IInv'
<1>1. work' = [work EXCEPT ![w] = Free]
      /\ UNCHANGED <<job, staging, ledger, lastTx, moves, aliases, racedLines, racedRows>>
      /\ UNCHANGED stockVars
  BY DEF Rollback
<1>2. work'[w] = Free
  BY <1>1 DEF IInv, TypeOK
<1>3. Fits(w)'
  BY <1>2, FreeFits
<1>. QED
  BY <1>1, <1>3, Types, FreeFacts, LocalStep

\* A preview takes up a job nobody works on.
LEMMA KeepsBeginPreview ==
    ASSUME IInv, NEW w \in Workers, NEW j \in Jobs, NEW f \in Files, NEW policy \in Policies,
           BeginPreview(w, j, f, policy)
    PROVE  IInv'
<1>. DEFINE C == FileMonths(f) \cap {Month(t.line) : t \in ledger}
            d == [Free EXCEPT !.phase = "preview", !.job = j, !.file = f, !.policy = policy,
                              !.conflicts = C]
<1>1. /\ work' = [work EXCEPT ![w] = d] /\ job[j] = Unused /\ \A v \in Workers : work[v].job # j
      /\ UNCHANGED <<job, staging, ledger, lastTx, moves, aliases, racedLines, racedRows>>
      /\ UNCHANGED stockVars
  BY DEF BeginPreview
<1>2. C \subseteq FileMonths(f) /\ C \in SUBSET Months
  BY FileFacts
<1>. HIDE DEF C
<1>3. d \in Requests
  BY ZenonT(60), <1>2, FreeFacts DEF Requests, CommitPhases
<1>4. /\ d.phase = "preview" /\ d.job = j /\ d.file = f /\ d.policy = policy /\ d.conflicts = C
      /\ d.created = {} /\ d.moved = {} /\ d.seen = {} /\ d.gone = {} /\ d.choice = "none"
      /\ DOMAIN d.targets = {} /\ DOMAIN d.audits = {}
  BY ZenonT(60), FreeFacts DEF Free
<1>. HIDE DEF d
<1>5. work'[w] = d /\ \A v \in Others(w) : work'[v] = work[v]
  BY <1>1, Types DEF Others
<1>6. RequestFits(w)'
  BY <1>1, <1>2, <1>4, <1>5 DEF RequestFits, CommitPhases, Others
<1>7. Fits(w)'
  BY <1>4, <1>5, <1>6, EmptyFits DEF CommitPhases
<1>8. IsFiniteSet(d.moved)
  BY <1>4, FS_EmptySet
<1>. QED
  BY <1>1, <1>3, <1>7, <1>8, Types, LocalStep

\* A commit reads the job, its new rows and the audits in their payloads; what it
\* is going to delete is of the job's module and months.
LEMMA KeepsBeginCommit ==
    ASSUME IInv, NEW w \in Workers, NEW j \in Jobs, NEW policy \in Policies,
           BeginCommit(w, j, policy)
    PROVE  IInv'
<1>. DEFINE G == IF policy = "replace_existing_months" THEN {t.id : t \in Replaceable(j)} ELSE {}
            P == [n \in RowNos |-> audit[<<j, n>>]]
            d == [Free EXCEPT !.phase = "delete", !.job = j, !.file = job[j].file,
                     !.policy = policy, !.conflicts = job[j].conflicts, !.todo = NewRows(j),
                     !.payload = P, !.gone = G]
<1>1. /\ work' = [work EXCEPT ![w] = d] /\ job[j] # Unused
      /\ UNCHANGED <<job, staging, ledger, lastTx, moves, aliases, racedLines, racedRows>>
      /\ UNCHANGED stockVars
  BY DEF BeginCommit
<1>2. JobFits(j) /\ job[j].file \in Files
  BY <1>1 DEF IInv, JobFits
<1>3. /\ G \subseteq {t.id : t \in ledger}
      /\ \A t \in ledger : t.id \in G =>
            LineInfo[t.line].module = ModuleOf(job[j].file) /\ Month(t.line) \in job[j].conflicts
  <2>1. \A t, u \in ledger : t.id = u.id => t = u
    BY DEF IInv, LedgerIds
  <2>. QED
    BY <2>1 DEF Replaceable
<1>4. P \in [RowNos -> Inv!AuditStatus]
  <2>1. audit \in [Rows -> Inv!AuditStatus]
    BY DEF IInv, TypeOK, Inv!TypeOK
  <2>. QED
    BY <2>1 DEF Rows
<1>5. NewRows(j) \in SUBSET RowNos
  BY <1>2, FileFacts DEF NewRows
<1>6. G \in SUBSET TxIds /\ G \subseteq 1..lastTx
  <2>1. \A t \in ledger : t.id \in TxIds
    BY Types DEF Transactions
  <2>2. \A t \in ledger : t.id \in 1..lastTx
    BY DEF IInv, LedgerIds
  <2>. QED
    BY <1>3, <2>1, <2>2
<1>. HIDE DEF G, P
<1>7. job[j].conflicts \in SUBSET Months
  BY DEF IInv, TypeOK
<1>8. d \in Requests
  BY ZenonT(60), <1>2, <1>4, <1>5, <1>6, <1>7, FreeFacts DEF Requests, CommitPhases
<1>9. /\ d.phase = "delete" /\ d.job = j /\ d.file = job[j].file /\ d.policy = policy
      /\ d.conflicts = job[j].conflicts /\ d.todo = NewRows(j) /\ d.gone = G
      /\ d.created = {} /\ d.moved = {} /\ d.seen = {} /\ d.choice = "none"
      /\ DOMAIN d.targets = {} /\ DOMAIN d.audits = {}
  BY ZenonT(60), FreeFacts DEF Free
<1>. HIDE DEF d
<1>10. work'[w] = d /\ \A v \in Others(w) : work'[v] = work[v]
  BY <1>1, Types DEF Others
<1>11. NewRows(j)' = NewRows(j)
  BY <1>1 DEF NewRows
<1>12. RequestFits(w)'
  BY <1>1, <1>9, <1>10, <1>11 DEF RequestFits, CommitPhases
<1>13. IdsFit(w)'
  <2>1. \A v \in Workers : \A t \in work'[v].created : t.id \notin G
    BY <1>3, <1>9, <1>10 DEF IInv, Fits, IdsFit, Others
  <2>. QED
    BY <1>1, <1>6, <1>9, <1>10, <2>1 DEF IdsFit
<1>14. WritesFit(w)' /\ LinesFit(w)' /\ TracesFit(w)'
  BY <1>9, <1>10 DEF WritesFit, LinesFit, TracesFit
<1>15. GoneFits(w)'
  BY <1>1, <1>3, <1>9, <1>10 DEF GoneFits
<1>16. DeductionsFit(w)'
  BY <1>9, <1>10 DEF DeductionsFit, Deducts
<1>17. ReimportsFit(w)'
  BY <1>9, <1>10, <1>11 DEF ReimportsFit
<1>18. Fits(w)'
  BY <1>12, <1>13, <1>14, <1>15, <1>16, <1>17 DEF Fits
<1>19. IsFiniteSet(d.moved)
  BY <1>9, FS_EmptySet
<1>. QED
  BY <1>1, <1>8, <1>18, <1>19, Types, LocalStep

\* The deletion takes place: the commit keeps locked what it has deleted.
LEMMA KeepsDeleteReplaced ==
    ASSUME IInv, NEW w \in Workers, DeleteReplaced(w)
    PROVE  IInv'
<1>. DEFINE c == work[w]
            G == c.gone \cap {t.id : t \in ledger}
            d == [c EXCEPT !.phase = "rows", !.gone = G]
<1>0. c \in Requests /\ IsFiniteSet(c.moved) /\ Fits(w)
  BY Types DEF IInv
<1>1. /\ work' = [work EXCEPT ![w] = d] /\ c.phase = "delete"
      /\ UNCHANGED <<job, staging, ledger, lastTx, moves, aliases, racedLines, racedRows>>
      /\ UNCHANGED stockVars
  BY Types DEF DeleteReplaced
<1>2. G \subseteq c.gone
  OBVIOUS
<1>. HIDE DEF G
<1>3. d \in Requests
  BY <1>0, <1>2 DEF Requests, CommitPhases
<1>4. /\ d.phase = "rows" /\ d.gone = G /\ d.job = c.job /\ d.file = c.file /\ d.policy = c.policy
      /\ d.conflicts = c.conflicts /\ d.todo = c.todo /\ d.created = c.created /\ d.moved = c.moved
      /\ d.seen = c.seen /\ d.choice = c.choice /\ d.targets = c.targets /\ d.audits = c.audits
  BY <1>0 DEF Requests
<1>. HIDE DEF d
<1>5. work'[w] = d /\ \A v \in Others(w) : work'[v] = work[v]
  BY <1>1, Types DEF Others
<1>6. PICK j : j = c.job /\ NewRows(j)' = NewRows(j)
  BY <1>1 DEF NewRows
<1>7. /\ c.created = {} /\ c.moved = {} /\ c.seen = {} /\ c.choice = "none" /\ DOMAIN c.audits = {}
  BY <1>0, <1>1 DEF Fits, RequestFits
<1>8. RequestFits(w)'
  BY <1>0, <1>1, <1>4, <1>5, <1>6, <1>7 DEF Fits, RequestFits, CommitPhases
<1>9. WritesFit(w)' /\ LinesFit(w)' /\ TracesFit(w)'
  BY <1>0, <1>4, <1>5, <1>7 DEF Fits, WritesFit, LinesFit, TracesFit
<1>10. IdsFit(w)'
  <2>1. \A v \in Workers : \A t \in work'[v].created : t.id \notin G
    BY <1>0, <1>2, <1>4, <1>5 DEF Fits, IdsFit, Others
  <2>2. G \subseteq 1..lastTx
    BY <1>0, <1>2 DEF Fits, IdsFit
  <2>3. \A n \in DOMAIN c.targets : c.targets[n] <= lastTx
    BY <1>0 DEF Fits, IdsFit
  <2>. QED
    BY <1>1, <1>4, <1>5, <1>7, <2>1, <2>2, <2>3 DEF IdsFit
<1>11. GoneFits(w)'
  BY <1>0, <1>1, <1>2, <1>4, <1>5 DEF Fits, GoneFits
<1>12. DeductionsFit(w)'
  BY <1>4, <1>5, <1>7 DEF DeductionsFit, Deducts
<1>13. ReimportsFit(w)'
  BY <1>0, <1>1, <1>4, <1>5, <1>6, <1>7 DEF Fits, ReimportsFit, CommitPhases
<1>14. Fits(w)'
  BY <1>8, <1>9, <1>10, <1>11, <1>12, <1>13 DEF Fits
<1>. QED
  BY <1>0, <1>1, <1>3, <1>4, <1>14, Types, LocalStep

\* A commit goes on to its next row with a decision, its writes as they were: what
\* it has written still fits.
LEMMA SameWrites ==
    ASSUME IInv, NEW w \in Workers, NEW d \in Requests,
           work' = [work EXCEPT ![w] = d],
           UNCHANGED <<job, staging, ledger, lastTx, moves, racedLines>>,
           racedRows \subseteq racedRows',
           d.job = work[w].job, d.file = work[w].file, d.policy = work[w].policy,
           d.conflicts = work[w].conflicts, d.todo = work[w].todo, d.gone = work[w].gone,
           d.created = work[w].created, d.moved = work[w].moved, d.targets = work[w].targets,
           d.audits = work[w].audits, work[w].seen \subseteq d.seen
    PROVE  /\ IdsFit(w)' /\ GoneFits(w)' /\ LinesFit(w)'
           /\ work[w].phase \notin {"deduct", "write"} \/ d.phase \in {"deduct", "write"} => WritesFit(w)'
           /\ d.choice # "deduct" => DeductionsFit(w)'
           /\ RowAt(d) = RowAt(work[w])
           /\ work'[w] = d /\ NewRows(d.job)' = NewRows(d.job)
<1>1. work'[w] = d /\ \A v \in Others(w) : work'[v] = work[v]
  BY Types DEF Others
<1>2. Fits(w)
  BY DEF IInv
<1>3. IdsFit(w)'
  <2>1. \A v \in Workers : work'[v].created = work[v].created /\ work'[v].gone = work[v].gone
    BY <1>1 DEF Others
  <2>. QED
    BY <1>1, <1>2, <2>1 DEF Fits, IdsFit
<1>4. GoneFits(w)' /\ LinesFit(w)'
  BY <1>1, <1>2 DEF Fits, GoneFits, LinesFit
<1>5. RowAt(d) = RowAt(work[w])
  BY DEF RowAt
<1>6. ASSUME work[w].phase \notin {"deduct", "write"} \/ d.phase \in {"deduct", "write"}
      PROVE  WritesFit(w)'
  BY <1>1, <1>2, <1>5, <1>6 DEF Fits, WritesFit
<1>7. ASSUME d.choice # "deduct" PROVE DeductionsFit(w)'
  <2>1. PICK j : j = work[w].job
    OBVIOUS
  <2>2. \A v \in Others(w), r \in RowNos : Deducts(v, j, r)' <=> Deducts(v, j, r)
    BY <1>1 DEF Deducts
  <2>3. \A r \in RowNos : Deducts(w, j, r)' => Deducts(w, j, r)
    BY <1>1, <1>7 DEF Deducts
  <2>. QED
    BY <1>1, <1>2, <1>7, <2>1, <2>2, <2>3 DEF Fits, DeductionsFit
<1>8. NewRows(d.job)' = NewRows(d.job)
  BY DEF NewRows
<1>. QED
  BY <1>1, <1>3, <1>4, <1>5, <1>6, <1>7, <1>8

\* A row that is not imported: passed over, or found in the ledger.
LEMMA KeepsSkipRow ==
    ASSUME IInv, NEW w \in Workers, SkipRow(w)
    PROVE  IInv'
<1>. DEFINE c == work[w]
            n == RowAt(c)
            l == c.file[n]
            conflict == c.policy = "skip_existing_months" /\ Month(l) \in c.conflicts
<1>0. c \in Requests /\ IsFiniteSet(c.moved) /\ Fits(w) /\ work \in [Workers -> Requests]
  BY Types DEF IInv
<1>1. /\ c.phase = "rows" /\ c.todo # {}
      /\ UNCHANGED <<job, staging, ledger, lastTx, moves, aliases, racedLines, racedRows>>
      /\ UNCHANGED stockVars
  BY DEF SkipRow
<1>2. n \in c.todo /\ n \in RowNos
  BY <1>0, <1>1, RowAtFacts DEF Requests
<1>3. /\ c.choice = "none" /\ c.job \in Jobs /\ job[c.job] # Unused /\ c.file = job[c.job].file
      /\ c.todo \subseteq NewRows(c.job) /\ c.policy \in Policies
  BY <1>0, <1>1 DEF Fits, RequestFits, CommitPhases
<1>4. c.file \in Files /\ n \in DOMAIN c.file /\ l \in Lines
  <2>1. JobFits(c.job)
    BY <1>3 DEF IInv
  <2>2. c.file \in Files
    BY <1>3, <2>1 DEF JobFits
  <2>3. n \in DOMAIN c.file
    BY <1>2, <1>3 DEF NewRows
  <2>. QED
    BY <2>2, <2>3, FileFacts
<1>5. PICK j : j = c.job
  OBVIOUS
<1>6. PICK choice \in {"skip", "existing"}, target \in TxIds \cup {NoTx} :
          /\ work' = [work EXCEPT ![w] = [c EXCEPT !.phase = "write", !.choice = choice,
                                                   !.target = target, !.seen = @ \cup {l}]]
          /\ choice = "skip" => l \in c.seen \/ conflict
          /\ choice = "existing" =>
                l \notin c.seen /\ \E t \in Existing(w, l) : t.id = target
  <2>1. CASE /\ l \in c.seen \/ conflict
             /\ work' = [work EXCEPT ![w].phase = "write", ![w].choice = "skip",
                                     ![w].seen = @ \cup {l}]
    <3>1. work' = [work EXCEPT ![w] = [c EXCEPT !.phase = "write", !.choice = "skip",
                                                !.seen = @ \cup {l}]]
      BY <2>1, <1>0
    <3>2. [c EXCEPT !.phase = "write", !.choice = "skip", !.seen = @ \cup {l}] =
          [c EXCEPT !.phase = "write", !.choice = "skip", !.target = c.target, !.seen = @ \cup {l}]
      BY <1>0 DEF Requests
    <3>3. c.target \in TxIds \cup {NoTx}
      BY <1>0 DEF Requests
    <3>. QED
      BY <2>1, <3>1, <3>2, <3>3
  <2>2. CASE /\ l \notin c.seen /\ ~conflict
             /\ \E t \in Existing(w, l) :
                   work' = [work EXCEPT ![w].phase = "write", ![w].choice = "existing",
                                        ![w].target = t.id, ![w].seen = @ \cup {l}]
    <3>1. PICK t \in Existing(w, l) :
                   work' = [work EXCEPT ![w].phase = "write", ![w].choice = "existing",
                                        ![w].target = t.id, ![w].seen = @ \cup {l}]
      BY <2>2
    <3>2. work' = [work EXCEPT ![w] = [c EXCEPT !.phase = "write", !.choice = "existing",
                                                !.target = t.id, !.seen = @ \cup {l}]]
      BY <3>1, <1>0
    <3>3. t \in Transactions
      BY <1>0, <3>1, Types DEF Existing, Visible, Requests
    <3>. QED
      BY <2>2, <3>1, <3>2, <3>3 DEF Transactions
  <2>. QED
    BY <2>1, <2>2 DEF SkipRow
<1>. DEFINE d == [c EXCEPT !.phase = "write", !.choice = choice, !.target = target,
                           !.seen = @ \cup {l}]
<1>7. d \in Requests
  BY ZenonT(60), <1>0, <1>4, <1>6 DEF Requests, CommitPhases
<1>8. /\ d.phase = "write" /\ d.gone = c.gone /\ d.job = c.job /\ d.file = c.file
      /\ d.policy = c.policy /\ d.conflicts = c.conflicts /\ d.todo = c.todo
      /\ d.created = c.created /\ d.moved = c.moved /\ d.seen = c.seen \cup {l}
      /\ d.choice = choice /\ d.target = target /\ d.targets = c.targets /\ d.audits = c.audits
  BY <1>0 DEF Requests
<1>9. work' = [work EXCEPT ![w] = d]
  BY <1>6
<1>. HIDE DEF d
<1>10. PICK e \in Requests : e = d
  BY <1>7
<1>11. /\ IdsFit(w)' /\ GoneFits(w)' /\ LinesFit(w)' /\ WritesFit(w)' /\ DeductionsFit(w)'
       /\ RowAt(d) = n /\ work'[w] = d /\ NewRows(j)' = NewRows(j)
  <2>1. /\ IdsFit(w)' /\ GoneFits(w)' /\ LinesFit(w)' /\ WritesFit(w)' /\ DeductionsFit(w)'
        /\ RowAt(e) = RowAt(work[w]) /\ work'[w] = e
    BY ZenonT(60), <1>1, <1>6, <1>8, <1>9, <1>10, SameWrites
  <2>2. NewRows(j)' = NewRows(j)
    BY <1>1 DEF NewRows
  <2>. QED
    BY <1>10, <2>1, <2>2
<1>12. ASSUME choice = "existing"
       PROVE  target \in 1..lastTx /\ \A t \in c.created : t.id # target
  <2>1. PICK t \in Existing(w, l) : t.id = target
    BY <1>6, <1>12
  <2>2. t \notin c.created
    BY <1>0, <1>6, <1>12, <2>1 DEF Existing, Fits, WritesFit
  <2>3. t \in ledger
    BY <2>1, <2>2 DEF Existing, Visible
  <2>4. t.id \in 1..lastTx
    BY <2>3 DEF IInv, LedgerIds
  <2>5. \A u \in c.created : u.id # t.id
    BY SMTT(30), <1>0, <2>3 DEF Fits, IdsFit
  <2>. QED
    BY <2>1, <2>4, <2>5
<1>13. RequestFits(w)'
  BY <1>0, <1>1, <1>3, <1>5, <1>6, <1>8, <1>11, <1>12 DEF Fits, RequestFits, CommitPhases
<1>14. TracesFit(w)'
  BY <1>0, <1>1, <1>2, <1>3, <1>8, <1>11 DEF Fits, TracesFit, WritesFit
<1>15. ReimportsFit(w)'
  <2>. SUFFICES ASSUME c.policy = "replace_existing_months"
                PROVE  /\ \A m \in NewRows(j) \ c.todo : c.file[m] \in c.seen \cup {l}
                       /\ \A k \in c.seen \cup {l} :
                             \/ \E t \in c.created : t.line = k
                             \/ Found(d, k)
                             \/ /\ choice = "existing" /\ c.file[n] = k
                                /\ \A t \in c.created : t.id # target
    BY <1>5, <1>8, <1>11 DEF ReimportsFit
  <2>1. \A m \in NewRows(j) \ c.todo : c.file[m] \in c.seen
    BY <1>0, <1>1, <1>5 DEF Fits, ReimportsFit, CommitPhases
  <2>2. \A k \in c.seen : (\E t \in c.created : t.line = k) \/ Found(c, k)
    BY <1>0, <1>1, <1>3 DEF Fits, ReimportsFit, CommitPhases
  <2>3. \A k : Found(c, k) => Found(d, k)
    BY <1>8 DEF Found
  <2>4. l \in c.seen \/ choice = "existing"
    BY <1>6
  <2>. QED
    BY <1>12, <2>1, <2>2, <2>3, <2>4
<1>16. Fits(w)'
  BY <1>11, <1>13, <1>14, <1>15 DEF Fits
<1>. QED
  BY <1>0, <1>1, <1>7, <1>8, <1>9, <1>16, Types, LocalStep

\* What a commit knows of its job, its file and the row it is at.
LEMMA CommitFacts ==
    ASSUME IInv, NEW w \in Workers, work[w].phase \in CommitPhases
    PROVE  /\ work[w].job \in Jobs /\ job[work[w].job] # Unused /\ work[w].policy \in Policies
           /\ work[w].file = job[work[w].job].file /\ work[w].conflicts = job[work[w].job].conflicts
           /\ JobFits(work[w].job) /\ work[w].file \in Files
           /\ work[w].todo \subseteq NewRows(work[w].job)
           /\ work[w].todo # {} =>
                 /\ RowAt(work[w]) \in work[w].todo /\ RowAt(work[w]) \in RowNos
                 /\ RowAt(work[w]) \in DOMAIN work[w].file
                 /\ work[w].file[RowAt(work[w])] \in Lines
                 /\ Month(work[w].file[RowAt(work[w])]) # NoMonth
                 /\ LineInfo[work[w].file[RowAt(work[w])]].module = ModuleOf(work[w].file)
<1>0. work[w] \in Requests /\ RequestFits(w)
  BY Types DEF IInv, Fits
<1>1. /\ work[w].job \in Jobs /\ job[work[w].job] # Unused /\ work[w].policy \in Policies
      /\ work[w].file = job[work[w].job].file /\ work[w].conflicts = job[work[w].job].conflicts
      /\ work[w].todo \subseteq NewRows(work[w].job)
  BY <1>0 DEF RequestFits
<1>2. JobFits(work[w].job)
  BY <1>1 DEF IInv
<1>3. work[w].file \in Files
  BY <1>1, <1>2 DEF JobFits
<1>4. ASSUME work[w].todo # {}
      PROVE  /\ RowAt(work[w]) \in work[w].todo /\ RowAt(work[w]) \in RowNos
             /\ RowAt(work[w]) \in DOMAIN work[w].file
             /\ work[w].file[RowAt(work[w])] \in Lines
             /\ Month(work[w].file[RowAt(work[w])]) # NoMonth
             /\ LineInfo[work[w].file[RowAt(work[w])]].module = ModuleOf(work[w].file)
  <2>1. RowAt(work[w]) \in work[w].todo /\ RowAt(work[w]) \in RowNos
    BY <1>0, <1>4, RowAtFacts DEF Requests
  <2>2. /\ RowAt(work[w]) \in DOMAIN work[w].file
        /\ staging[<<work[w].job, RowAt(work[w])>>].match = "new"
    BY <1>1, <2>1 DEF NewRows
  <2>3. Month(work[w].file[RowAt(work[w])]) # NoMonth
    BY <1>1, <1>2, <2>2 DEF JobFits
  <2>. QED
    BY <1>3, <2>1, <2>2, <2>3, FileFacts
<1>. QED
  BY <1>1, <1>2, <1>3, <1>4

\* The row's transaction is created: no other of its line is visible, and one that
\* another commit has created makes the line a raced one.
LEMMA KeepsCreateRow ==
    ASSUME IInv, NEW w \in Workers, CreateRow(w)
    PROVE  IInv'
<1>. DEFINE c == work[w]
            n == RowAt(c)
            l == c.file[n]
            id == lastTx + 1
            new == [id |-> id, line |-> l, job |-> c.job, row |-> n]
            phase == IF ModuleOf(c.file) = "store-orders" THEN "deduct" ELSE "write"
            d == [c EXCEPT !.phase = phase, !.choice = "create", !.target = id,
                           !.seen = @ \cup {l}, !.created = @ \cup {new}]
<1>0. c \in Requests /\ IsFiniteSet(c.moved) /\ Fits(w) /\ work \in [Workers -> Requests]
  BY Types DEF IInv
<1>1. /\ c.phase = "rows" /\ c.todo # {} /\ l \notin c.seen /\ Existing(w, l) = {}
      /\ lastTx < MaxTransactions /\ lastTx' = id
      /\ racedLines' = IF \E v \in Others(w) : \E t \in work[v].created : t.line = l
                       THEN racedLines \cup {l} ELSE racedLines
      /\ UNCHANGED <<job, staging, ledger, moves, aliases, racedRows>> /\ UNCHANGED stockVars
  BY DEF CreateRow
<1>2. work' = [work EXCEPT ![w] = d]
  BY <1>0 DEF CreateRow
<1>3. /\ c.job \in Jobs /\ job[c.job] # Unused /\ c.policy \in Policies
      /\ c.file = job[c.job].file /\ c.conflicts = job[c.job].conflicts
      /\ c.todo \subseteq NewRows(c.job) /\ c.file \in Files
      /\ n \in c.todo /\ n \in RowNos /\ n \in DOMAIN c.file /\ l \in Lines
      /\ Month(l) # NoMonth /\ LineInfo[l].module = ModuleOf(c.file)
  BY <1>1, CommitFacts DEF CommitPhases
<1>4. lastTx \in Nat /\ id \in Nat /\ id \in 0..MaxTransactions /\ id \in TxIds /\ lastTx <= id
  BY <1>1, Types, Bounds DEF TxIds
<1>5. PICK j : j = c.job /\ NewRows(j)' = NewRows(j)
  BY <1>1 DEF NewRows
<1>6. new \in Transactions /\ new.id = id /\ new.line = l /\ new.job = c.job /\ new.row = n
  BY <1>3, <1>4 DEF Transactions
<1>. HIDE DEF new
<1>7. phase \in {"deduct", "write"} /\ (LineInfo[l].module = "store-orders" => phase = "deduct")
  BY SMTT(30), <1>3
<1>. HIDE DEF phase
<1>8. d \in Requests
  BY ZenonT(60), <1>0, <1>3, <1>4, <1>6, <1>7 DEF Requests, CommitPhases
<1>9. /\ d.phase = phase /\ d.gone = c.gone /\ d.job = c.job /\ d.file = c.file
      /\ d.policy = c.policy /\ d.conflicts = c.conflicts /\ d.todo = c.todo
      /\ d.created = c.created \cup {new} /\ d.moved = c.moved /\ d.seen = c.seen \cup {l}
      /\ d.choice = "create" /\ d.target = id /\ d.targets = c.targets /\ d.audits = c.audits
  BY <1>0 DEF Requests
<1>. HIDE DEF d
<1>10. work'[w] = d /\ \A v \in Others(w) : work'[v] = work[v]
  BY <1>0, <1>2 DEF Others
<1>11. RowAt(d) = n
  BY <1>9 DEF RowAt
<1>12. \A t \in c.created : t.row \notin c.todo /\ t.line # l /\ t.id < id
  <2>1. \A t \in c.created : t.row \notin c.todo /\ t.id \in 1..lastTx
    BY <1>0, <1>1 DEF Fits, WritesFit, IdsFit
  <2>2. \A t \in c.created : t.line # l
    BY <1>1 DEF Existing, Visible
  <2>. QED
    BY <1>4, <2>1, <2>2
<1>13. RequestFits(w)'
  <2>1. id \in 1..lastTx'
    BY SMTT(30), <1>1, <1>4
  <2>. QED
    BY <1>0, <1>1, <1>3, <1>5, <1>7, <1>9, <1>10, <1>11, <2>1 DEF RequestFits, CommitPhases
<1>14. WritesFit(w)'
  BY <1>0, <1>3, <1>6, <1>7, <1>9, <1>10, <1>11, <1>12 DEF Fits, WritesFit
<1>15. IdsFit(w)'
  <2>0. Fits(w) /\ \A v \in Workers : IdsFit(v)
    BY DEF IInv, Fits
  <2>1. \A t \in d.created : t.id \in 1..lastTx' /\ \A u \in ledger : t.id # u.id
    <3>1. \A u \in ledger : u.id \in 1..lastTx
      BY DEF IInv, LedgerIds
    <3>2. \A u \in ledger : u.id # id
      BY <1>4, <3>1
    <3>3. \A t \in c.created : t.id \in 1..lastTx /\ \A u \in ledger : t.id # u.id
      BY <1>0 DEF Fits, IdsFit
    <3>4. id \in 1..lastTx' /\ \A k \in 1..lastTx : k \in 1..lastTx'
      BY <1>1, <1>4
    <3>. QED
      BY <1>6, <1>9, <3>2, <3>3, <3>4
  <2>2. \A t, u \in d.created : t.id = u.id => t = u
    <3>1. \A t, u \in c.created : t.id = u.id => t = u
      BY <1>0 DEF Fits, IdsFit
    <3>2. \A t \in c.created : t.id # id
      <4>1. \A t \in c.created : t.id \in 1..lastTx
        BY <1>0 DEF Fits, IdsFit
      <4>. QED
        BY <1>4, <4>1
    <3>. QED
      BY <1>6, <1>9, <3>1, <3>2
  <2>3. \A v \in Workers : id \notin work[v].gone /\ \A t \in work[v].created : t.id # id
    <3>1. \A v \in Workers : work[v].gone \subseteq 1..lastTx /\ \A t \in work[v].created : t.id \in 1..lastTx
      BY <2>0 DEF IdsFit
    <3>2. id \notin 1..lastTx
      BY <1>4
    <3>. QED
      BY <3>1, <3>2
  <2>4. \A v \in Workers : \A t \in work'[v].created : t.id \notin d.gone
    <3>1. \A v \in Workers : \A t \in work[v].created : t.id \notin c.gone
      BY <1>0 DEF Fits, IdsFit
    <3>. QED
      BY <1>6, <1>9, <1>10, <2>3, <3>1 DEF Others
  <2>5. \A v \in Workers : \A t \in d.created : t.id \notin work'[v].gone
    <3>1. \A v \in Workers : \A t \in c.created : t.id \notin work[v].gone
      BY <1>0 DEF Fits, IdsFit
    <3>. QED
      BY <1>6, <1>9, <1>10, <2>3, <3>1 DEF Others
  <2>6. \A v \in Others(w) : \A u \in work'[v].created : \A t \in d.created : t.id # u.id
    <3>1. \A v \in Others(w) : \A u \in work[v].created : \A t \in c.created : t.id # u.id
      BY <1>0 DEF Fits, IdsFit
    <3>. QED
      BY <1>6, <1>9, <1>10, <2>3, <3>1 DEF Others
  <2>7. d.gone \subseteq 1..lastTx'
    <3>1. c.gone \subseteq 1..lastTx
      BY <1>0 DEF Fits, IdsFit
    <3>. QED
      BY <1>1, <1>4, <1>9, <3>1
  <2>8. \A m \in DOMAIN d.targets : d.targets[m] <= lastTx'
    <3>1. \A m \in DOMAIN c.targets : c.targets[m] <= lastTx
      BY <1>0 DEF Fits, IdsFit
    <3>2. \A m \in DOMAIN c.targets : c.targets[m] \in TxIds \cup {NoTx}
      BY <1>0, RowFunctions
    <3>. QED
      BY <1>1, <1>4, <1>9, <3>1, <3>2, Bounds
  <2>. QED
    BY <1>1, <1>10, <2>1, <2>2, <2>4, <2>5, <2>6, <2>7, <2>8 DEF IdsFit
<1>16. GoneFits(w)'
  BY <1>0, <1>1, <1>9, <1>10 DEF Fits, GoneFits
<1>17. LinesFit(w)'
  <2>1. \A u \in ledger : u.line = l => u.id \in c.gone
    BY <1>1 DEF Existing, Visible
  <2>2. \A v \in Others(w) : \A u \in work[v].created : u.line = l => l \in racedLines'
    BY <1>1
  <2>3. racedLines \subseteq racedLines'
    BY <1>1
  <2>. QED
    BY <1>0, <1>1, <1>6, <1>9, <1>10, <1>12, <2>1, <2>2, <2>3 DEF Fits, LinesFit
<1>18. DeductionsFit(w)'
  <2>2. \A v \in Others(w), r \in RowNos : Deducts(v, j, r)' <=> Deducts(v, j, r)
    BY <1>10 DEF Deducts
  <2>3. \A r \in RowNos : Deducts(w, j, r)' => Deducts(w, j, r)
    BY <1>9, <1>10 DEF Deducts
  <2>. QED
    BY <1>0, <1>1, <1>5, <1>9, <1>10, <2>2, <2>3 DEF Fits, DeductionsFit
<1>19. TracesFit(w)'
  <2>1. c.choice = "none"
    BY <1>0, <1>1 DEF Fits, RequestFits
  <2>2. \A t \in c.created : Deductible(t.line) =>
            \/ t.row \in DOMAIN c.audits /\ c.audits[t.row] = "OPEN"
            \/ \E m \in c.moved \cup moves : m.job = c.job /\ m.row = t.row
    BY <1>0, <1>1, <2>1 DEF Fits, TracesFit
  <2>3. Deductible(new.line) => new.row \in c.todo /\ phase = "deduct"
    BY <1>3, <1>6, <1>7 DEF Deductible
  <2>4. \A m \in DOMAIN c.audits : c.audits[m] = "OPEN" \/ \E k \in c.moved : k.row = m
    BY <1>0 DEF Fits, TracesFit
  <2>. QED
    BY <1>1, <1>9, <1>10, <2>2, <2>3, <2>4 DEF TracesFit
<1>20. ReimportsFit(w)'
  <2>1. c.choice = "none"
    BY <1>0, <1>1 DEF Fits, RequestFits
  <2>2. \A k : Found(c, k) => Found(d, k)
    <3>1. \A m \in DOMAIN c.targets : c.targets[m] <= lastTx
      BY <1>0 DEF Fits, IdsFit
    <3>2. \A m \in DOMAIN c.targets : c.targets[m] \in TxIds \cup {NoTx}
      BY <1>0, RowFunctions
    <3>3. \A m \in DOMAIN c.targets : c.targets[m] # id
      BY <1>4, <3>1, <3>2, Bounds
    <3>. QED
      BY <1>6, <1>9, <3>3 DEF Found
  <2>3. c.policy = "replace_existing_months" =>
            /\ \A m \in NewRows(j) \ c.todo : c.file[m] \in c.seen
            /\ \A k \in c.seen : (\E t \in c.created : t.line = k) \/ Found(c, k)
    BY <1>0, <1>1, <1>5, <2>1 DEF Fits, ReimportsFit, CommitPhases
  <2>. HIDE DEF Found
  <2>4. c.policy = "replace_existing_months" =>
            /\ \A m \in NewRows(j) \ d.todo : d.file[m] \in d.seen
            /\ \A k \in d.seen : (\E t \in d.created : t.line = k) \/ Found(d, k)
    BY <1>6, <1>9, <2>2, <2>3
  <2>. QED
    BY <1>5, <1>9, <1>10, <2>4 DEF ReimportsFit
<1>21. Fits(w)'
  BY SMTT(30), <1>13, <1>14, <1>15, <1>16, <1>17, <1>18, <1>19, <1>20 DEF Fits
<1>22. /\ IsFiniteSet(d.moved) /\ racedLines \subseteq racedLines' /\ racedLines' \subseteq Lines
       /\ lastTx' \in 0..MaxTransactions /\ lastTx <= lastTx'
       /\ racedRows \subseteq racedRows' /\ racedRows' \subseteq Rows
  BY <1>0, <1>1, <1>3, <1>4, <1>9, Types
<1>. QED
  BY <1>1, <1>2, <1>8, <1>21, <1>22, LocalStep

\* The decision on a created row: nothing to deduct, no SKU, deducted before, or to
\* be deducted; if another open commit deducts it too, the row is a raced one.
LEMMA KeepsDecideDeduction ==
    ASSUME IInv, NEW w \in Workers, DecideDeduction(w)
    PROVE  IInv'
<1>. DEFINE c == work[w]
            n == RowAt(c)
            l == c.file[n]
            contended == \E v \in Others(w) : Deducts(v, c.job, n)
<1>0. c \in Requests /\ IsFiniteSet(c.moved) /\ Fits(w) /\ work \in [Workers -> Requests]
  BY Types DEF IInv
<1>1. /\ c.phase = "deduct"
      /\ UNCHANGED <<job, staging, ledger, lastTx, moves, aliases, racedLines>> /\ UNCHANGED stockVars
  BY DEF DecideDeduction
<1>2. c.todo # {} /\ c.choice = "create" /\ c.target \in 1..lastTx /\ l \in c.seen
  BY <1>0, <1>1 DEF Fits, RequestFits, CommitPhases
<1>3. /\ c.job \in Jobs /\ job[c.job] # Unused /\ c.policy \in Policies
      /\ c.file = job[c.job].file /\ c.conflicts = job[c.job].conflicts
      /\ c.todo \subseteq NewRows(c.job) /\ c.file \in Files
      /\ n \in c.todo /\ n \in RowNos /\ n \in DOMAIN c.file /\ l \in Lines
  BY SMTT(30), <1>1, <1>2, CommitFacts DEF CommitPhases
<1>4. PICK choice \in {"create", "unresolved", "deduct"}, s \in Skus \cup {NoSku} :
          /\ work' = [work EXCEPT ![w] = [c EXCEPT !.phase = "write", !.choice = choice, !.sku = s]]
          /\ choice = "create" /\ LineInfo[l].quantity # 0 =>
                \E m \in moves : m.job = c.job /\ m.row = n
          /\ IF choice = "deduct"
             THEN /\ s \in Skus /\ ~AlreadyDeducted(c.job, n, s)
                  /\ racedRows' = IF contended THEN racedRows \cup {<<c.job, n>>} ELSE racedRows
             ELSE racedRows' = racedRows
  <2>1. \A choice, s : Decide(w, choice, s) =>
            work' = [work EXCEPT ![w] = [c EXCEPT !.phase = "write", !.choice = choice, !.sku = s]]
    BY <1>0 DEF Decide
  <2>2. NoSku \in Skus \cup {NoSku}
    OBVIOUS
  <2>3. \A label : label \in DOMAIN DirectSku => DirectSku[label] \in Skus
    BY StoreOrdersImportAssumption
  <2>4. Resolved(LineInfo[l].label) \subseteq Skus
    BY <2>3 DEF Resolved
  <2>5. \/ Decide(w, "unresolved", NoSku) /\ racedRows' = racedRows
        \/ LineInfo[l].quantity = 0 /\ Decide(w, "create", NoSku) /\ racedRows' = racedRows
        \/ \E s \in Resolved(LineInfo[l].label) :
              \/ AlreadyDeducted(c.job, n, s) /\ Decide(w, "create", NoSku) /\ racedRows' = racedRows
              \/ /\ ~AlreadyDeducted(c.job, n, s) /\ Decide(w, "deduct", s)
                 /\ racedRows' = IF contended THEN racedRows \cup {<<c.job, n>>} ELSE racedRows
    BY DEF DecideDeduction
  <2>. HIDE DEF contended
  <2>6. CASE Decide(w, "unresolved", NoSku) /\ racedRows' = racedRows
    BY <2>1, <2>2, <2>6
  <2>7. CASE LineInfo[l].quantity = 0 /\ Decide(w, "create", NoSku) /\ racedRows' = racedRows
    BY <2>1, <2>2, <2>7
  <2>8. ASSUME NEW s \in Resolved(LineInfo[l].label), AlreadyDeducted(c.job, n, s),
               Decide(w, "create", NoSku), racedRows' = racedRows
        PROVE  \E m \in moves : m.job = c.job /\ m.row = n
    BY <2>8 DEF AlreadyDeducted
  <2>. QED
    BY <2>1, <2>2, <2>4, <2>5, <2>6, <2>7, <2>8
<1>. DEFINE d == [c EXCEPT !.phase = "write", !.choice = choice, !.sku = s]
<1>5. PICK j : j = c.job /\ NewRows(j)' = NewRows(j)
  BY <1>1 DEF NewRows
<1>6. d \in Requests
  BY ZenonT(60), <1>0, <1>4 DEF Requests, CommitPhases
<1>7. /\ d.phase = "write" /\ d.gone = c.gone /\ d.job = c.job /\ d.file = c.file
      /\ d.policy = c.policy /\ d.conflicts = c.conflicts /\ d.todo = c.todo
      /\ d.created = c.created /\ d.moved = c.moved /\ d.seen = c.seen
      /\ d.choice = choice /\ d.sku = s /\ d.target = c.target
      /\ d.targets = c.targets /\ d.audits = c.audits
  BY <1>0 DEF Requests
<1>8. work' = [work EXCEPT ![w] = d]
  BY <1>4
<1>. HIDE DEF d
<1>9. /\ racedRows \subseteq racedRows' /\ racedRows' \subseteq Rows
      /\ choice = "deduct" /\ contended => <<c.job, n>> \in racedRows'
  BY <1>3, <1>4, Types DEF Rows
<1>10. /\ IdsFit(w)' /\ GoneFits(w)' /\ LinesFit(w)' /\ WritesFit(w)'
       /\ choice # "deduct" => DeductionsFit(w)'
       /\ RowAt(d) = n /\ work'[w] = d
  <2>1. PICK e \in Requests : e = d
    BY <1>6
  <2>2. /\ IdsFit(w)' /\ GoneFits(w)' /\ LinesFit(w)' /\ WritesFit(w)'
        /\ choice # "deduct" => DeductionsFit(w)'
        /\ RowAt(e) = RowAt(work[w]) /\ work'[w] = e
    BY <1>1, <1>7, <1>8, <1>9, <2>1, SameWrites
  <2>. QED
    BY <2>1, <2>2
<1>11. \A v \in Others(w) : work'[v] = work[v]
  BY <1>0, <1>8 DEF Others
<1>12. RequestFits(w)'
  BY <1>0, <1>1, <1>2, <1>3, <1>4, <1>5, <1>7, <1>10 DEF RequestFits, CommitPhases
<1>13. ASSUME choice = "deduct" PROVE DeductionsFit(w)'
  <2>1. \A v \in Others(w), r \in RowNos : Deducts(v, j, r)' <=> Deducts(v, j, r)
    BY <1>11 DEF Deducts
  <2>2. \A r \in RowNos : Deducts(w, j, r)' => Deducts(w, j, r) \/ r = n
    BY <1>7, <1>10 DEF Deducts
  <2>3. ASSUME NEW r \in RowNos, r # n, Deducts(w, j, r)', <<j, r>> \notin racedRows'
        PROVE  /\ \A v \in Others(w) : ~Deducts(v, j, r)'
               /\ \A m \in moves : m.job = j /\ m.row = r =>
                     \A k \in c.moved : k.row = r => m.sku # k.sku
    BY <1>0, <1>5, <1>9, <2>1, <2>2, <2>3 DEF Fits, DeductionsFit
  <2>4. \A k \in c.moved : k.row # n
    BY <1>0, <1>3 DEF Fits, WritesFit
  <2>5. \A m \in moves : m.job = j /\ m.row = n => m.sku # s
    BY <1>4, <1>5, <1>13 DEF AlreadyDeducted
  <2>0. PICK q \in RowNos : q = n
    BY <1>3
  <2>6. <<j, q>> \in racedRows' \/ \A v \in Others(w) : ~Deducts(v, j, q)'
    <3>1. \A v \in Others(w) : Deducts(v, j, q)' <=> Deducts(v, j, q)
      BY <2>1
    <3>2. contended \/ \A v \in Others(w) : ~Deducts(v, j, n)
      BY <1>5 DEF contended
    <3>. QED
      BY <1>5, <1>9, <1>13, <2>0, <3>1, <3>2
  <2>. QED
    BY <1>1, <1>5, <1>7, <1>10, <2>0, <2>3, <2>4, <2>5, <2>6 DEF DeductionsFit
<1>14. TracesFit(w)'
  <2>1. ASSUME NEW t \in c.created, Deductible(t.line)
        PROVE  \/ t.row \in c.todo /\ choice \in {"unresolved", "deduct"}
               \/ t.row \in DOMAIN c.audits /\ c.audits[t.row] = "OPEN"
               \/ \E m \in c.moved \cup moves : m.job = c.job /\ m.row = t.row
    <3>1. CASE t.row \in c.todo
      <4>1. t.row = n /\ t.line = l
        BY <1>0, <2>1, <3>1 DEF Fits, WritesFit
      <4>2. choice = "create" => \E m \in moves : m.job = c.job /\ m.row = n
        BY <1>4, <2>1, <4>1 DEF Deductible
      <4>. QED
        BY <3>1, <4>1, <4>2
    <3>2. CASE t.row \notin c.todo
      BY <1>0, <2>1, <3>2 DEF Fits, TracesFit
    <3>. QED
      BY <3>1, <3>2
  <2>2. \A m \in DOMAIN c.audits : c.audits[m] = "OPEN" \/ \E k \in c.moved : k.row = m
    BY <1>0 DEF Fits, TracesFit
  <2>. QED
    BY <1>1, <1>7, <1>10, <2>1, <2>2 DEF TracesFit
<1>15. ReimportsFit(w)'
  <2>1. \A k : Found(c, k) => Found(d, k)
    BY <1>7 DEF Found
  <2>2. c.policy = "replace_existing_months" =>
            /\ \A m \in NewRows(j) \ c.todo : c.file[m] \in c.seen
            /\ \A k \in c.seen : (\E t \in c.created : t.line = k) \/ Found(c, k)
    BY <1>0, <1>1, <1>2, <1>5 DEF Fits, ReimportsFit, CommitPhases
  <2>3. c.policy = "replace_existing_months" =>
            /\ \A m \in NewRows(j) \ d.todo : d.file[m] \in d.seen
            /\ \A k \in d.seen : (\E t \in d.created : t.line = k) \/ Found(d, k)
    BY <1>7, <2>1, <2>2
  <2>. QED
    BY <1>5, <1>7, <1>10, <2>3 DEF ReimportsFit
<1>16. Fits(w)'
  BY <1>10, <1>12, <1>13, <1>14, <1>15 DEF Fits
<1>17. IsFiniteSet(d.moved)
  BY <1>0, <1>7
<1>. QED
  BY <1>1, <1>6, <1>8, <1>9, <1>16, <1>17, Types, LocalStep

\* The target of a row joins those of the rows before it.
LEMMA PutTarget ==
    ASSUME NEW c \in Requests, NEW n \in RowNos, NEW value \in TxIds \cup {NoTx}
    PROVE  /\ Put(c.targets, n, value) \in UNION {[R -> TxIds \cup {NoTx}] : R \in SUBSET RowNos}
           /\ DOMAIN Put(c.targets, n, value) = DOMAIN c.targets \cup {n}
           /\ Put(c.targets, n, value)[n] = value
           /\ \A k \in DOMAIN c.targets : k # n => Put(c.targets, n, value)[k] = c.targets[k]
<1>1. Put(c.targets, n, value) \in [DOMAIN c.targets \cup {n} -> TxIds \cup {NoTx}]
  BY RowFunctions DEF Put
<1>2. [DOMAIN c.targets \cup {n} -> TxIds \cup {NoTx}] \in {[R -> TxIds \cup {NoTx}] : R \in SUBSET RowNos}
  BY RowFunctions
<1>3. Put(c.targets, n, value) \in UNION {[R -> TxIds \cup {NoTx}] : R \in SUBSET RowNos}
  BY <1>1, <1>2, Zenon
<1>. QED
  BY <1>3 DEF Put

\* So does its audit.
LEMMA PutAudit ==
    ASSUME NEW c \in Requests, NEW n \in RowNos, NEW value \in Inv!AuditStatus
    PROVE  /\ Put(c.audits, n, value) \in UNION {[R -> Inv!AuditStatus] : R \in SUBSET RowNos}
           /\ DOMAIN Put(c.audits, n, value) = DOMAIN c.audits \cup {n}
           /\ Put(c.audits, n, value)[n] = value
           /\ \A k \in DOMAIN c.audits : k # n => Put(c.audits, n, value)[k] = c.audits[k]
<1>1. Put(c.audits, n, value) \in [DOMAIN c.audits \cup {n} -> Inv!AuditStatus]
  BY RowFunctions DEF Put
<1>2. [DOMAIN c.audits \cup {n} -> Inv!AuditStatus] \in {[R -> Inv!AuditStatus] : R \in SUBSET RowNos}
  BY RowFunctions
<1>3. Put(c.audits, n, value) \in UNION {[R -> Inv!AuditStatus] : R \in SUBSET RowNos}
  BY <1>1, <1>2, Zenon
<1>. QED
  BY <1>3 DEF Put

\* The row is done: its movement, target and audit join the commit's writes.
LEMMA KeepsWriteRow ==
    ASSUME IInv, NEW w \in Workers, WriteRow(w)
    PROVE  IInv'
<1>. DEFINE c == work[w]
            n == RowAt(c)
            l == c.file[n]
            deduct == c.choice = "deduct"
            found == IF c.choice = "skip" THEN staging[<<c.job, n>>].target ELSE c.target
            moved == IF deduct THEN c.moved \cup {Movement(c, n)} ELSE c.moved
            taken == IF deduct THEN [c.taken EXCEPT ![c.sku] = c.taken[c.sku] + LineInfo[l].quantity] ELSE c.taken
            targets == Put(c.targets, n, found)
            audits == CASE c.choice = "deduct" -> Put(c.audits, n, c.payload[n])
                        [] c.choice = "unresolved" -> Put(c.audits, n, "OPEN")
                        [] OTHER -> c.audits
            d == [c EXCEPT !.phase = "rows", !.todo = @ \ {n}, !.choice = "none", !.target = NoTx,
                           !.sku = NoSku, !.moved = moved, !.taken = taken, !.targets = targets,
                           !.audits = audits]
<1>0. c \in Requests /\ IsFiniteSet(c.moved) /\ Fits(w) /\ work \in [Workers -> Requests]
  BY Types DEF IInv
<1>1. /\ c.phase = "write"
      /\ UNCHANGED <<job, staging, ledger, lastTx, moves, aliases, racedLines, racedRows>>
      /\ UNCHANGED stockVars
  BY DEF WriteRow
<1>2. work' = [work EXCEPT ![w] = d]
  BY Zenon DEF WriteRow
<1>3. /\ c.todo # {} /\ l \in c.seen /\ c.choice # "none"
      /\ deduct => c.sku \in Skus
      /\ c.choice # "skip" => c.target \in 1..lastTx
  BY <1>0, <1>1 DEF Fits, RequestFits, CommitPhases
<1>4. /\ c.job \in Jobs /\ job[c.job] # Unused /\ c.policy \in Policies
      /\ c.file = job[c.job].file /\ c.conflicts = job[c.job].conflicts
      /\ c.todo \subseteq NewRows(c.job) /\ c.file \in Files
      /\ n \in c.todo /\ n \in RowNos /\ n \in DOMAIN c.file /\ l \in Lines
  BY <1>1, <1>3, CommitFacts DEF CommitPhases
<1>5. PICK j : j = c.job /\ NewRows(j)' = NewRows(j)
  BY <1>1 DEF NewRows
<1>6. found \in TxIds \cup {NoTx} /\ found <= lastTx
  <2>1. <<c.job, n>> \in Rows
    BY <1>4 DEF Rows
  <2>2. staging[<<c.job, n>>].target \in TxIds \cup {NoTx} /\ staging[<<c.job, n>>].target <= lastTx
    BY <2>1, Types DEF IInv, LedgerIds, RowSet
  <2>3. c.target \in TxIds \cup {NoTx}
    BY <1>0 DEF Requests
  <2>4. c.choice # "skip" => c.target <= lastTx
    BY <1>3, Types
  <2>. QED
    BY <2>2, <2>3, <2>4
<1>7. deduct => /\ Movement(c, n) \in Moves /\ Movement(c, n).job = c.job /\ Movement(c, n).row = n
                /\ Movement(c, n).sku = c.sku
  <2>1. deduct => c.target \in TxIds
    BY <1>3, Types, Bounds DEF TxIds
  <2>. QED
    BY <1>3, <1>4, <2>1 DEF Movement, Moves
<1>8. moved \in SUBSET Moves /\ IsFiniteSet(moved)
  <2>1. c.moved \in SUBSET Moves
    BY <1>0 DEF Requests
  <2>2. IsFiniteSet(c.moved \cup {Movement(c, n)})
    BY <1>0, FS_AddElement
  <2>. QED
    BY <1>0, <1>7, <2>1, <2>2
<1>9. taken \in [Skus -> Int]
  <2>1. LineInfo[l].quantity \in Int
    BY <1>4, StoreOrdersImportAssumption DEF Quantities
  <2>2. c.taken \in [Skus -> Int]
    BY <1>0 DEF Requests
  <2>. QED
    BY <1>3, <2>1, <2>2
<1>10. /\ targets \in UNION {[R -> TxIds \cup {NoTx}] : R \in SUBSET RowNos}
       /\ DOMAIN targets = DOMAIN c.targets \cup {n} /\ targets[n] = found
       /\ \A k \in DOMAIN c.targets : k # n => targets[k] = c.targets[k]
  <2>1. PICK value \in TxIds \cup {NoTx} : value = found
    BY <1>6
  <2>2. PICK q \in RowNos : q = n
    BY <1>4
  <2>. HIDE DEF found
  <2>. QED
    BY ZenonT(60), <1>0, <2>1, <2>2, PutTarget
<1>11. /\ audits \in UNION {[R -> Inv!AuditStatus] : R \in SUBSET RowNos}
       /\ c.choice \in {"deduct", "unresolved"} => DOMAIN audits = DOMAIN c.audits \cup {n}
       /\ c.choice \notin {"deduct", "unresolved"} => audits = c.audits
       /\ c.choice = "unresolved" => audits[n] = "OPEN"
       /\ \A k \in DOMAIN c.audits : k # n => audits[k] = c.audits[k]
  <2>1. PICK q \in RowNos : q = n
    BY <1>4
  <2>2. PICK value \in Inv!AuditStatus : value = c.payload[q]
    BY <1>0 DEF Requests
  <2>3. PICK open \in Inv!AuditStatus : open = "OPEN"
    BY DEF Inv!AuditStatus
  <2>4. c.audits \in UNION {[R -> Inv!AuditStatus] : R \in SUBSET RowNos}
    BY <1>0 DEF Requests
  <2>. HIDE DEF audits
  <2>5. CASE c.choice = "deduct"
    <3>1. audits = Put(c.audits, q, value)
      BY <2>1, <2>2, <2>5 DEF audits
    <3>2. /\ Put(c.audits, q, value) \in UNION {[R -> Inv!AuditStatus] : R \in SUBSET RowNos}
          /\ DOMAIN Put(c.audits, q, value) = DOMAIN c.audits \cup {q}
          /\ Put(c.audits, q, value)[q] = value
          /\ \A k \in DOMAIN c.audits : k # q => Put(c.audits, q, value)[k] = c.audits[k]
      BY ZenonT(60), <1>0, PutAudit
    <3>. QED
      BY <2>1, <2>2, <2>5, <3>1, <3>2
  <2>6. CASE c.choice = "unresolved"
    <3>1. audits = Put(c.audits, q, open)
      BY <2>1, <2>3, <2>6 DEF audits
    <3>2. /\ Put(c.audits, q, open) \in UNION {[R -> Inv!AuditStatus] : R \in SUBSET RowNos}
          /\ DOMAIN Put(c.audits, q, open) = DOMAIN c.audits \cup {q}
          /\ Put(c.audits, q, open)[q] = open
          /\ \A k \in DOMAIN c.audits : k # q => Put(c.audits, q, open)[k] = c.audits[k]
      BY ZenonT(60), <1>0, PutAudit
    <3>. QED
      BY <2>1, <2>3, <2>6, <3>1, <3>2
  <2>7. CASE c.choice \notin {"deduct", "unresolved"}
    BY <2>4, <2>7 DEF audits
  <2>. QED
    BY <2>5, <2>6, <2>7
<1>12. /\ deduct => moved = c.moved \cup {Movement(c, n)}
       /\ ~deduct => moved = c.moved
       /\ c.choice = "existing" => found = c.target
  OBVIOUS
<1>. HIDE DEF found, moved, taken, targets, audits
<1>13. d \in Requests
  BY ZenonT(60), <1>0, <1>8, <1>9, <1>10, <1>11 DEF Requests, CommitPhases
<1>14. /\ d.phase = "rows" /\ d.gone = c.gone /\ d.job = c.job /\ d.file = c.file
       /\ d.policy = c.policy /\ d.conflicts = c.conflicts /\ d.todo = c.todo \ {n}
       /\ d.created = c.created /\ d.moved = moved /\ d.seen = c.seen
       /\ d.choice = "none" /\ d.targets = targets /\ d.audits = audits
  BY <1>0 DEF Requests
<1>. HIDE DEF d
<1>15. work'[w] = d /\ \A v \in Others(w) : work'[v] = work[v]
  BY <1>0, <1>2 DEF Others
<1>16. RequestFits(w)'
  BY <1>1, <1>4, <1>5, <1>14, <1>15 DEF RequestFits, CommitPhases
<1>17. WritesFit(w)'
  <2>1. \A t \in c.created :
            /\ t.job = c.job /\ t.row \in DOMAIN c.file /\ t.line = c.file[t.row]
            /\ Month(t.line) # NoMonth /\ t.line \in c.seen /\ t.row \notin d.todo
    BY <1>0, <1>14 DEF Fits, WritesFit
  <2>2. \A m \in c.moved : m.job = c.job /\ m.row \notin c.todo
    BY <1>0 DEF Fits, WritesFit
  <2>3. \A m \in moved : m.job = c.job /\ m.row \notin d.todo
    BY <1>7, <1>12, <1>14, <2>2
  <2>4. \A m, k \in c.moved : m.row = k.row => m = k
    BY <1>0 DEF Fits, WritesFit
  <2>5. \A m, k \in moved : m.row = k.row => m = k
    BY <1>4, <1>7, <1>12, <2>2, <2>4
  <2>6. DOMAIN targets \cap d.todo = {}
    BY <1>0, <1>10, <1>14 DEF Fits, WritesFit
  <2>. QED
    BY <1>14, <1>15, <2>1, <2>3, <2>5, <2>6 DEF WritesFit
<1>18. IdsFit(w)'
  <2>1. \A v \in Workers : work'[v].created = work[v].created /\ work'[v].gone = work[v].gone
    BY <1>14, <1>15 DEF Others
  <2>2. \A m \in DOMAIN targets : targets[m] <= lastTx
    BY <1>0, <1>6, <1>10 DEF Fits, IdsFit
  <2>. QED
    BY <1>0, <1>1, <1>14, <1>15, <2>1, <2>2 DEF Fits, IdsFit
<1>19. GoneFits(w)' /\ LinesFit(w)'
  BY <1>0, <1>1, <1>14, <1>15 DEF Fits, GoneFits, LinesFit
<1>20. DeductionsFit(w)'
  <2>1. \A v \in Others(w), r \in RowNos : Deducts(v, j, r)' <=> Deducts(v, j, r)
    BY <1>15 DEF Deducts
  <2>2. \A r \in RowNos : Deducts(w, j, r)' => Deducts(w, j, r)
    BY <1>7, <1>12, <1>14, <1>15 DEF Deducts
  <2>3. ASSUME NEW r \in RowNos, Deducts(w, j, r), <<j, r>> \notin racedRows
        PROVE  /\ \A v \in Others(w) : ~Deducts(v, j, r)
               /\ \A m \in moves : m.job = j /\ m.row = r =>
                     \A k \in moved : k.row = r => m.sku # k.sku
    BY <1>0, <1>5, <1>7, <1>12, <2>3 DEF Fits, DeductionsFit
  <2>. QED
    BY <1>1, <1>5, <1>14, <1>15, <2>1, <2>2, <2>3 DEF DeductionsFit
<1>21. TracesFit(w)'
  <2>1. ASSUME NEW t \in c.created, Deductible(t.line)
        PROVE  \/ t.row \in DOMAIN audits /\ audits[t.row] = "OPEN"
               \/ \E m \in moved \cup moves : m.job = c.job /\ m.row = t.row
    <3>1. \/ t.row = n /\ c.choice \in {"unresolved", "deduct"}
          \/ t.row \in DOMAIN c.audits /\ c.audits[t.row] = "OPEN"
          \/ \E m \in c.moved \cup moves : m.job = c.job /\ m.row = t.row
      BY <1>0, <1>1, <2>1 DEF Fits, TracesFit, WritesFit
    <3>. QED
      BY <1>7, <1>11, <1>12, <3>1
  <2>2. \A m \in DOMAIN c.audits : c.audits[m] = "OPEN" \/ \E k \in c.moved : k.row = m
    BY <1>0 DEF Fits, TracesFit
  <2>3. \A m \in DOMAIN audits : audits[m] = "OPEN" \/ \E k \in moved : k.row = m
    BY <1>7, <1>11, <1>12, <2>2
  <2>. QED
    BY <1>1, <1>14, <1>15, <2>1, <2>3 DEF TracesFit
<1>22. ReimportsFit(w)'
  <2>. SUFFICES ASSUME c.policy = "replace_existing_months"
                PROVE  /\ \A m \in NewRows(j) \ d.todo : d.file[m] \in d.seen
                       /\ \A k \in d.seen : (\E t \in d.created : t.line = k) \/ Found(d, k)
    BY <1>5, <1>14, <1>15 DEF ReimportsFit
  <2>1. \A m \in NewRows(j) \ c.todo : c.file[m] \in c.seen
    BY <1>0, <1>1, <1>5 DEF Fits, ReimportsFit, CommitPhases
  <2>2. ASSUME NEW k \in c.seen
        PROVE  (\E t \in c.created : t.line = k) \/ Found(d, k)
    <3>1. \/ \E t \in c.created : t.line = k
          \/ Found(c, k)
          \/ c.choice = "existing" /\ l = k /\ \A t \in c.created : t.id # c.target
      BY <1>0, <1>1 DEF Fits, ReimportsFit, CommitPhases
    <3>2. n \notin DOMAIN c.targets
      BY <1>0, <1>4 DEF Fits, WritesFit
    <3>3. Found(c, k) => Found(d, k)
      BY <1>10, <1>14, <3>2 DEF Found
    <3>4. ASSUME c.choice = "existing", l = k, \A t \in c.created : t.id # c.target
          PROVE  Found(d, k)
      <4>1. found = c.target /\ found # NoTx
        BY <1>3, <1>12, <3>4 DEF NoTx
      <4>. QED
        BY <1>10, <1>14, <3>4, <4>1 DEF Found
    <3>. QED
      BY <3>1, <3>3, <3>4
  <2>. QED
    BY <1>3, <1>14, <2>1, <2>2
<1>23. Fits(w)'
  BY <1>16, <1>17, <1>18, <1>19, <1>20, <1>21, <1>22 DEF Fits
<1>24. IsFiniteSet(d.moved)
  BY <1>8, <1>14
<1>. QED
  BY <1>1, <1>2, <1>13, <1>23, <1>24, Types, LocalStep

\* A preview's job and rows are stored: nobody else worked for that job.
LEMMA KeepsFinishPreview ==
    ASSUME IInv, NEW w \in Workers, FinishPreview(w)
    PROVE  IInv'
<1>. DEFINE p == work[w]
            stored == [status |-> "PENDING", file |-> p.file, policy |-> p.policy,
                       conflicts |-> p.conflicts]
<1>0. p \in Requests /\ RequestFits(w) /\ work \in [Workers -> Requests]
      /\ job \in [Jobs -> JobSet] /\ staging \in [Rows -> RowSet]
  BY Types DEF IInv, Fits
<1>1. /\ p.phase = "preview" /\ job' = [job EXCEPT ![p.job] = stored]
      /\ staging' = [r \in Rows |->
            IF r[1] = p.job /\ r[2] \in DOMAIN p.file
            THEN [match |-> MatchStatus(p.file[r[2]], p.conflicts, p.policy), target |-> NoTx]
            ELSE staging[r]]
      /\ work' = [work EXCEPT ![w] = Free]
      /\ UNCHANGED <<ledger, lastTx, moves, aliases, racedLines, racedRows>>
      /\ UNCHANGED stockVars
  BY DEF FinishPreview
<1>2. /\ p.job \in Jobs /\ job[p.job] = Unused /\ p.policy \in Policies
      /\ p.file \in Files /\ p.conflicts \subseteq FileMonths(p.file) /\ p.conflicts \in SUBSET Months
      /\ \A v \in Others(w) : work[v].phase = "preview" => work[v].job # p.job
      /\ p.created = {} /\ p.gone = {}
  BY <1>0, <1>1 DEF RequestFits, Requests
<1>3. work'[w] = Free /\ \A v \in Others(w) : work'[v] = work[v]
  BY <1>0, <1>1 DEF Others
<1>4. stored \in JobSet /\ job' \in [Jobs -> JobSet] /\ job'[p.job] = stored
      /\ \A j \in Jobs : j # p.job => job'[j] = job[j]
  BY <1>0, <1>1, <1>2 DEF JobSet
<1>5. /\ staging' \in [Rows -> RowSet]
      /\ \A r \in Rows : staging'[r] = staging[r] \/ staging'[r].target = NoTx
      /\ \A r \in Rows : r[1] # p.job => staging'[r] = staging[r]
      /\ \A n \in DOMAIN p.file :
            staging'[<<p.job, n>>].match = MatchStatus(p.file[n], p.conflicts, p.policy)
  <2>1. \A l : MatchStatus(l, p.conflicts, p.policy) \in Matches
    BY DEF MatchStatus, Matches
  <2>2. NoTx \in TxIds \cup {NoTx}
    OBVIOUS
  <2>3. \A n \in DOMAIN p.file : <<p.job, n>> \in Rows
    BY <1>2, FileFacts DEF Rows
  <2>. HIDE DEF MatchStatus
  <2>. QED
    BY <1>0, <1>1, <2>1, <2>2, <2>3 DEF RowSet
<1>. HIDE DEF stored
<1>12. Inv!TypeOK' /\ Inv!IInv'
  BY <1>1, Types, StockSame DEF Inv!IInv
<1>6. TypeOK'
  <2>1. work' \in [Workers -> Requests] /\ \A v \in Workers : IsFiniteSet(work'[v].moved)
    BY <1>0, <1>1, <1>3, FreeFacts, Types DEF Others
  <2>. QED
    BY <1>1, <1>4, <1>5, <1>12, <2>1 DEF IInv, TypeOK, JobSet, RowSet
<1>7. LedgerIds'
  <2>1. NoTx <= lastTx
    BY Types, Bounds DEF NoTx
  <2>. QED
    BY <1>1, <1>5, <2>1 DEF IInv, LedgerIds
<1>8. ASSUME NEW j \in Jobs PROVE JobFits(j)'
  <2>1. CASE j = p.job
    <3>1. stored.file = p.file /\ stored.conflicts = p.conflicts /\ stored.policy = p.policy
      BY DEF stored
    <3>2. ASSUME NEW n \in DOMAIN p.file
          PROVE  /\ staging'[<<p.job, n>>].match = "new" => Month(p.file[n]) # NoMonth
                 /\ p.policy = "replace_existing_months" /\ Month(p.file[n]) \in p.conflicts =>
                       staging'[<<p.job, n>>].match = "new"
      <4>1. Month(p.file[n]) \in p.conflicts => Month(p.file[n]) # NoMonth
        BY <1>2, FileFacts
      <4>. HIDE DEF Month
      <4>. QED
        BY <1>5, <4>1 DEF MatchStatus
    <3>. QED
      BY <1>2, <1>4, <2>1, <3>1, <3>2 DEF JobFits
  <2>2. CASE j # p.job
    <3>1. JobFits(j) /\ job'[j] = job[j]
      BY <1>4, <2>2 DEF IInv
    <3>2. job[j] # Unused => \A n \in DOMAIN job[j].file : staging'[<<j, n>>] = staging[<<j, n>>]
      BY <1>5, <2>2, <3>1, FileFacts DEF JobFits, Rows
    <3>. QED
      BY <3>1, <3>2 DEF JobFits
  <2>. QED
    BY <2>1, <2>2
<1>9. ASSUME NEW v \in Workers, v # w PROVE Fits(v)'
  <2>0. v \in Others(w) /\ w \in Others(v) /\ Fits(v) /\ work'[v] = work[v]
    BY <1>3, <1>9 DEF IInv, Others
  <2>1. PICK j : j = work[v].job
    OBVIOUS
  <2>2. work[v].phase \in {"preview"} \cup CommitPhases => j \in Jobs /\ j # p.job
    BY <1>2, <2>0, <2>1 DEF Fits, RequestFits
  <2>3. j \in Jobs /\ j # p.job => job'[j] = job[j]
    BY <1>4
  <2>4. work[v].phase \in CommitPhases => NewRows(j)' = NewRows(j)
    <3>1. SUFFICES ASSUME work[v].phase \in CommitPhases PROVE NewRows(j)' = NewRows(j)
      OBVIOUS
    <3>2. j \in Jobs /\ j # p.job /\ job'[j] = job[j] /\ job[j].file \in Files
      BY <2>1, <2>2, <2>3, <3>1, CommitFacts
    <3>3. \A n \in DOMAIN job[j].file : staging'[<<j, n>>] = staging[<<j, n>>]
      BY <1>5, <3>2, FileFacts DEF Rows
    <3>. QED
      BY <3>2, <3>3 DEF NewRows
  <2>. HIDE DEF NewRows
  <2>5. RequestFits(v)'
    <3>1. \A u \in Others(v) : work'[u] = work[u] \/ work'[u].phase = "idle"
      BY <1>3, FreeFacts DEF Others
    <3>2. work[v].phase = "preview" =>
              \A u \in Others(v) : work'[u].phase = "preview" => work'[u].job # work[v].job
      BY <2>0, <3>1 DEF Fits, RequestFits
    <3>. QED
      BY <1>1, <2>0, <2>1, <2>2, <2>3, <2>4, <3>2 DEF Fits, RequestFits
  <2>6. WritesFit(v)' /\ GoneFits(v)' /\ TracesFit(v)'
    BY <1>1, <2>0 DEF Fits, WritesFit, GoneFits, TracesFit
  <2>7. /\ \A u \in Workers : work'[u].created = work[u].created /\ work'[u].gone = work[u].gone
    BY <1>2, <1>3, FreeFacts DEF Others
  <2>8. IdsFit(v)' /\ LinesFit(v)'
    BY <1>1, <2>0, <2>7 DEF Fits, IdsFit, LinesFit, Others
  <2>9. DeductionsFit(v)'
    <3>1. \A r \in RowNos : Deducts(v, j, r)' <=> Deducts(v, j, r)
      BY <2>0 DEF Deducts
    <3>2. \A u \in Others(v), r \in RowNos : Deducts(u, j, r)' => Deducts(u, j, r)
      BY <1>3, FreeFacts DEF Deducts, Others
    <3>. QED
      BY <1>1, <2>0, <2>1, <3>1, <3>2 DEF Fits, DeductionsFit
  <2>10. ReimportsFit(v)'
    BY <2>0, <2>1, <2>4 DEF Fits, ReimportsFit
  <2>. QED
    BY <2>5, <2>6, <2>8, <2>9, <2>10 DEF Fits
<1>10. Fits(w)'
  BY <1>3, FreeFits
<1>11. SameHashOnlyByOverlap' /\ OneMovementPerRowAndSku' /\ NoOrderSilentlyUndeducted'
  BY <1>1 DEF IInv, SameHashOnlyByOverlap, OneMovementPerRowAndSku, NoOrderSilentlyUndeducted, stockVars
<1>. QED
  BY <1>6, <1>7, <1>8, <1>9, <1>10, <1>11, <1>12 DEF IInv

-----------------------------------------------------------------------------
(* A commit becomes visible *)

\* What a commit that has done its rows is known to be.
LEMMA DoneFacts ==
    ASSUME IInv, NEW w \in Workers, FinishCommit(w)
    PROVE  /\ work[w] \in Requests /\ IsFiniteSet(work[w].moved) /\ Fits(w)
           /\ work[w].phase = "rows" /\ work[w].todo = {} /\ work[w].choice = "none"
           /\ work[w].job \in Jobs /\ job[work[w].job] # Unused /\ work[w].policy \in Policies
           /\ work[w].created \in SUBSET Transactions /\ work[w].moved \in SUBSET Moves
           /\ work[w].file \in Files /\ work[w].file = job[work[w].job].file
           /\ \A v \in Workers : Fits(v)
<1>1. work[w].phase = "rows" /\ work[w].todo = {}
  BY DEF FinishCommit
<1>2. work[w] \in Requests /\ IsFiniteSet(work[w].moved) /\ Fits(w) /\ \A v \in Workers : Fits(v)
  BY Types DEF IInv
<1>3. work[w].choice = "none"
  BY <1>1, <1>2 DEF Fits, RequestFits
<1>4. /\ work[w].job \in Jobs /\ job[work[w].job] # Unused /\ work[w].policy \in Policies
      /\ work[w].file \in Files /\ work[w].file = job[work[w].job].file
  BY <1>1, CommitFacts DEF CommitPhases
<1>. QED
  BY <1>1, <1>2, <1>3, <1>4 DEF Requests

\* What it leaves of the jobs, their rows and the requests.
LEMMA DoneTables ==
    ASSUME IInv, NEW w \in Workers, FinishCommit(w)
    PROVE  /\ work' \in [Workers -> Requests] /\ work'[w] = Free
           /\ \A v \in Others(w) : work'[v] = work[v]
           /\ \A v \in Workers : IsFiniteSet(work'[v].moved)
           /\ job' \in [Jobs -> JobSet] /\ job'[work[w].job].status = "SUCCEEDED"
           /\ \A j \in Jobs : /\ j # work[w].job => job'[j] = job[j]
                              /\ job'[j].file = job[j].file /\ job'[j].conflicts = job[j].conflicts
                              /\ job[j] # Unused <=> job'[j] # Unused
           /\ staging' \in [Rows -> RowSet]
           /\ \A r \in Rows : staging'[r].match = staging[r].match /\ staging'[r].target <= lastTx
           /\ \A j \in Jobs : NewRows(j)' = NewRows(j) \/ job[j] = Unused
<1>. DEFINE c == work[w]
<1>0. /\ work \in [Workers -> Requests] /\ job \in [Jobs -> JobSet] /\ staging \in [Rows -> RowSet]
      /\ c \in Requests /\ c.job \in Jobs /\ job[c.job] # Unused /\ c.policy \in Policies /\ Fits(w)
  BY Types, DoneFacts
<1>1. /\ work' = [work EXCEPT ![w] = Free]
      /\ staging' = [r \in Rows |-> IF r[1] = c.job /\ r[2] \in DOMAIN c.targets
                                    THEN [staging[r] EXCEPT !.target = c.targets[r[2]]] ELSE staging[r]]
      /\ job' = [job EXCEPT ![c.job] = [[@ EXCEPT !.status = "SUCCEEDED"] EXCEPT !.policy = c.policy]]
  BY <1>0 DEF FinishCommit
<1>2. /\ work' \in [Workers -> Requests] /\ work'[w] = Free
      /\ \A v \in Others(w) : work'[v] = work[v]
      /\ \A v \in Workers : IsFiniteSet(work'[v].moved)
  BY <1>0, <1>1, FreeFacts, Types DEF Others
<1>. HIDE DEF c
<1>3. /\ job' \in [Jobs -> JobSet] /\ job'[c.job].status = "SUCCEEDED"
      /\ job'[c.job].file = job[c.job].file /\ job'[c.job].conflicts = job[c.job].conflicts
      /\ \A j \in Jobs : j # c.job => job'[j] = job[j]
  BY <1>0, <1>1 DEF JobSet
<1>4. \A j \in Jobs : /\ job'[j].file = job[j].file /\ job'[j].conflicts = job[j].conflicts
                      /\ job[j] # Unused <=> job'[j] # Unused
  <2>1. Unused.status = "NONE"
    BY DEF Unused
  <2>2. job'[c.job] # Unused
    BY <1>3, <2>1
  <2>. QED
    BY <1>0, <1>3, <2>2
<1>5. /\ staging' \in [Rows -> RowSet]
      /\ \A r \in Rows : staging'[r].match = staging[r].match /\ staging'[r].target <= lastTx
  <2>1. \A n \in DOMAIN c.targets : c.targets[n] \in TxIds \cup {NoTx} /\ c.targets[n] <= lastTx
    BY <1>0, RowFunctions DEF Fits, IdsFit, c
  <2>2. \A r \in Rows : staging[r].target <= lastTx
    BY DEF IInv, LedgerIds
  <2>. QED
    BY <1>0, <1>1, <2>1, <2>2 DEF RowSet
<1>6. ASSUME NEW j \in Jobs, job[j] # Unused PROVE NewRows(j)' = NewRows(j)
  <2>1. job[j].file \in Files
    BY <1>6 DEF IInv, JobFits
  <2>2. \A n \in DOMAIN job[j].file : <<j, n>> \in Rows
    BY <2>1, FileFacts DEF Rows
  <2>3. \A n \in DOMAIN job[j].file : staging'[<<j, n>>].match = staging[<<j, n>>].match
    BY <1>5, <2>2
  <2>. QED
    BY <1>4, <2>3 DEF NewRows
<1>. QED
  BY <1>2, <1>3, <1>4, <1>5, <1>6 DEF c

\* The audits and the stock it leaves.
LEMMA DoneStock ==
    ASSUME IInv, NEW w \in Workers, FinishCommit(w)
    PROVE  /\ Inv!TypeOK' /\ Inv!IInv' /\ Inv!Ledger!Post
           /\ \A n \in RowNos :
                 IF n \in DOMAIN work[w].audits
                 THEN audit'[<<work[w].job, n>>] = work[w].audits[n]
                 ELSE audit'[<<work[w].job, n>>] = audit[<<work[w].job, n>>]
           /\ \A r \in Rows : r[1] # work[w].job => audit'[r] = audit[r]
<1>. DEFINE c == work[w]
            written == [r \in {c.job} \X DOMAIN c.audits |-> c.audits[r[2]]]
<1>0. c \in Requests /\ IsFiniteSet(c.moved) /\ c.job \in Jobs /\ Inv!IInv
  BY DoneFacts, Types
<1>1. Inv!ImportCommit(c.taken, Cardinality(c.moved), written)
  BY DEF FinishCommit
<1>2. c.taken \in [Skus -> Int] /\ Cardinality(c.moved) \in Nat
  BY <1>0, FS_CardinalityType DEF Requests
<1>3. DOMAIN c.audits \in SUBSET RowNos /\ c.audits \in [DOMAIN c.audits -> Inv!AuditStatus]
  BY <1>0, RowFunctions
<1>4. /\ DOMAIN written = {c.job} \X DOMAIN c.audits
      /\ \A r \in DOMAIN written : written[r] = c.audits[r[2]] /\ r[2] \in DOMAIN c.audits
  OBVIOUS
<1>5. \A r \in DOMAIN written : written[r] \in Inv!AuditStatus
  BY <1>3, <1>4
<1>6. audit' = [r \in Rows |-> IF r \in DOMAIN written THEN written[r] ELSE audit[r]]
  BY <1>1 DEF Inv!ImportCommit
<1>. HIDE DEF written, c
<1>7. Inv!TypeOK' /\ Inv!IInv' /\ Inv!Ledger!Post
  BY <1>0, <1>1, <1>2, <1>5, StockCommit DEF Inv!IInv
<1>8. \A n \in RowNos : <<c.job, n>> \in Rows
  BY <1>0 DEF Rows
<1>9. \A n \in RowNos : IF n \in DOMAIN c.audits THEN audit'[<<c.job, n>>] = c.audits[n]
                        ELSE audit'[<<c.job, n>>] = audit[<<c.job, n>>]
  BY <1>4, <1>6, <1>8
<1>10. \A r \in Rows : r[1] # c.job => audit'[r] = audit[r]
  BY <1>4, <1>6
<1>. QED
  BY <1>7, <1>9, <1>10 DEF c

\* The ledger and the movements a commit publishes keep their ids, their one hash and
\* movement apart from raced ones, and the trace of every order.
LEMMA DoneLedger ==
    ASSUME IInv, NEW w \in Workers, FinishCommit(w)
    PROVE  /\ ledger' \in SUBSET Transactions /\ moves' \in SUBSET Moves
           /\ LedgerIds' /\ SameHashOnlyByOverlap' /\ OneMovementPerRowAndSku'
           /\ NoOrderSilentlyUndeducted'
<1>. DEFINE c == work[w]
<1>0. /\ c \in Requests /\ Fits(w) /\ c.todo = {} /\ c.choice = "none" /\ c.phase = "rows" /\ c.job \in Jobs
      /\ c.created \in SUBSET Transactions /\ c.moved \in SUBSET Moves
      /\ ledger \in SUBSET Transactions /\ moves \in SUBSET Moves
      /\ lastTx' = lastTx /\ racedLines' = racedLines /\ racedRows' = racedRows
  BY DoneFacts, Types DEF FinishCommit
<1>1. /\ ledger' = {t \in ledger : t.id \notin c.gone} \cup c.created
      /\ moves' = moves \cup c.moved
  BY DEF FinishCommit, Visible
<1>. HIDE DEF c
<1>2. LedgerIds'
  <2>1. \A t \in ledger : t.id \in 1..lastTx
    BY DEF IInv, LedgerIds
  <2>2. \A t, u \in ledger : t.id = u.id => t = u
    BY DEF IInv, LedgerIds
  <2>3. \A t \in c.created : t.id \in 1..lastTx /\ \A u \in ledger : t.id # u.id
    BY <1>0 DEF Fits, IdsFit, c
  <2>4. \A t, u \in c.created : t.id = u.id => t = u
    BY <1>0 DEF Fits, IdsFit, c
  <2>5. \A r \in Rows : staging'[r].target <= lastTx
    BY DoneTables
  <2>6. \A t, u \in ledger' : t.id = u.id => t = u
    BY <1>1, <2>2, <2>3, <2>4
  <2>. QED
    BY <1>0, <1>1, <2>1, <2>3, <2>5, <2>6 DEF LedgerIds
<1>3. SameHashOnlyByOverlap'
  <2>1. \A t \in c.created :
            /\ \A u \in ledger : u.line = t.line => u.id \in c.gone \/ t.line \in racedLines
            /\ \A u \in c.created : u.line = t.line => u = t
    BY <1>0 DEF Fits, LinesFit, c
  <2>2. \A t, u \in ledger : t # u /\ t.line = u.line => t.line \in racedLines
    BY DEF IInv, SameHashOnlyByOverlap
  <2>. QED
    BY <1>0, <1>1, <2>1, <2>2 DEF SameHashOnlyByOverlap
<1>4. OneMovementPerRowAndSku'
  <2>1. \A m, k \in moves : m # k /\ m.job = k.job /\ m.row = k.row /\ m.sku = k.sku
            => <<m.job, m.row>> \in racedRows
    BY DEF IInv, OneMovementPerRowAndSku
  <2>2. \A m, k \in c.moved : m.row = k.row => m = k
    BY <1>0 DEF Fits, WritesFit, c
  <2>3. \A m \in c.moved : m.job = c.job /\ m.row \in RowNos
    BY <1>0 DEF Fits, WritesFit, Moves, c
  <2>4. ASSUME NEW m \in c.moved, NEW k \in moves, m.job = k.job, m.row = k.row, m.sku = k.sku
        PROVE  <<c.job, m.row>> \in racedRows
    <3>1. Deducts(w, c.job, m.row)
      BY DEF Deducts, c
    <3>2. DeductionsFit(w)
      BY <1>0 DEF Fits
    <3>. QED
      BY <2>3, <2>4, <3>1, <3>2 DEF DeductionsFit, c
  <2>5. ASSUME NEW m \in moves', NEW k \in moves',
               m # k, m.job = k.job, m.row = k.row, m.sku = k.sku
        PROVE  <<m.job, m.row>> \in racedRows
    <3>1. CASE m \in moves /\ k \in moves
      BY <2>1, <2>5, <3>1
    <3>2. CASE m \in c.moved /\ k \in c.moved
      BY <2>2, <2>5, <3>2
    <3>3. CASE m \in c.moved /\ k \in moves
      BY <2>3, <2>4, <2>5, <3>3
    <3>4. CASE m \in moves /\ k \in c.moved
      BY <2>3, <2>4, <2>5, <3>4
    <3>. QED
      BY <1>1, <3>1, <3>2, <3>3, <3>4
  <2>. QED
    BY <1>0, <2>5 DEF OneMovementPerRowAndSku
<1>5. NoOrderSilentlyUndeducted'
  <2>. SUFFICES ASSUME NEW t \in ledger', Deductible(t.line),
                       ~ \E m \in moves' : m.job = t.job /\ m.row = t.row
                PROVE  audit'[<<t.job, t.row>>] # "NONE"
    BY DEF NoOrderSilentlyUndeducted, Deductible
  <2>1. t.job \in Jobs /\ t.row \in RowNos
    BY <1>0, <1>1 DEF Transactions
  <2>2. \A n \in DOMAIN c.audits : c.audits[n] = "OPEN" \/ \E m \in c.moved : m.row = n
    BY <1>0 DEF Fits, TracesFit, c
  <2>3. \A m \in c.moved : m.job = c.job
    BY <1>0 DEF Fits, WritesFit, c
  <2>4. t.job = c.job /\ t.row \in DOMAIN c.audits => audit'[<<t.job, t.row>>] # "NONE"
    BY <1>1, <2>1, <2>2, <2>3, DoneStock DEF c
  <2>5. CASE t \in c.created
    <3>1. t.job = c.job /\ t.row \in DOMAIN c.audits
      BY <1>0, <1>1, <2>5 DEF Fits, WritesFit, TracesFit, c
    <3>. QED
      BY <2>4, <3>1
  <2>6. CASE t \in ledger
    <3>1. audit[<<t.job, t.row>>] # "NONE"
      BY <1>1, <2>6 DEF IInv, NoOrderSilentlyUndeducted, Deductible
    <3>2. <<t.job, t.row>> \in Rows
      BY <2>1 DEF Rows
    <3>3. t.job # c.job => audit'[<<t.job, t.row>>] = audit[<<t.job, t.row>>]
      BY <3>2, DoneStock DEF c
    <3>4. t.job = c.job /\ t.row \notin DOMAIN c.audits =>
              audit'[<<t.job, t.row>>] = audit[<<t.job, t.row>>]
      BY <2>1, DoneStock DEF c
    <3>. QED
      BY <2>4, <3>1, <3>3, <3>4
  <2>. QED
    BY <1>1, <2>5, <2>6
<1>. QED
  BY <1>0, <1>1, <1>2, <1>3, <1>4, <1>5

\* What the other open requests hold still fits when a commit has been published.
LEMMA DoneOthers ==
    ASSUME IInv, NEW w \in Workers, FinishCommit(w), NEW v \in Workers, v # w
    PROVE  Fits(v)'
<1>. DEFINE c == work[w]
<1>0. /\ c \in Requests /\ Fits(w) /\ c.choice = "none" /\ c.job \in Jobs /\ job[c.job] # Unused
      /\ lastTx' = lastTx /\ racedLines' = racedLines /\ racedRows' = racedRows
      /\ c.moved \in SUBSET Moves
  BY DoneFacts DEF FinishCommit
<1>1. /\ ledger' = {t \in ledger : t.id \notin c.gone} \cup c.created
      /\ moves' = moves \cup c.moved
  BY DEF FinishCommit, Visible
<1>2. v \in Others(w) /\ w \in Others(v) /\ Fits(v) /\ work'[v] = work[v] /\ work'[w] = Free
  BY DoneFacts, DoneTables DEF Others
<1>3. \A u \in Others(v) : work'[u] = work[u] \/ work'[u] = Free
  BY DoneTables DEF Others
<1>4. PICK j : j = work[v].job
  OBVIOUS
<1>5. /\ j \in Jobs /\ job[j] # Unused => NewRows(j)' = NewRows(j)
      /\ j \in Jobs => /\ job'[j].file = job[j].file /\ job'[j].conflicts = job[j].conflicts
                       /\ job[j] # Unused <=> job'[j] # Unused
                       /\ j # c.job => job'[j] = job[j]
  BY DoneTables
<1>. HIDE DEF c
<1>6. RequestFits(v)'
  <2>1. work[v].phase = "preview" =>
            \A u \in Others(v) : work'[u].phase = "preview" => work'[u].job # work[v].job
    BY <1>2, <1>3, FreeFacts DEF Fits, RequestFits
  <2>. HIDE DEF NewRows
  <2>. QED
    BY <1>0, <1>2, <1>4, <1>5, <2>1 DEF Fits, RequestFits
<1>7. WritesFit(v)'
  BY <1>2 DEF Fits, WritesFit
<1>8. \A u \in Workers : work'[u].created \subseteq work[u].created /\ work'[u].gone \subseteq work[u].gone
  BY <1>2, <1>3, FreeFacts DEF Others
<1>9. IdsFit(v)'
  <2>1. \A t \in work[v].created : t.id \in 1..lastTx /\ \A u \in ledger \cup c.created : t.id # u.id
    BY <1>2 DEF Fits, IdsFit, c
  <2>. QED
    BY <1>0, <1>1, <1>2, <1>8, <2>1 DEF Fits, IdsFit, Others
<1>10. GoneFits(v)'
  <2>1. \A t \in c.created : t.id \notin work[v].gone
    BY <1>0 DEF Fits, IdsFit, c
  <2>. QED
    BY <1>1, <1>2, <2>1 DEF Fits, GoneFits
<1>11. LinesFit(v)'
  <2>1. \A t \in work[v].created, u \in c.created : u.line = t.line => t.line \in racedLines
    BY <1>2 DEF Fits, LinesFit, c
  <2>. QED
    BY <1>0, <1>1, <1>2, <1>8, <2>1 DEF Fits, LinesFit, Others
<1>12. DeductionsFit(v)'
  <2>1. \A r \in RowNos : Deducts(v, j, r)' <=> Deducts(v, j, r)
    BY <1>2 DEF Deducts
  <2>2. \A u \in Others(v), r \in RowNos : Deducts(u, j, r)' => Deducts(u, j, r)
    BY <1>3, FreeFacts DEF Deducts
  <2>3. ASSUME NEW r \in RowNos, NEW m \in c.moved, m.job = j, m.row = r
        PROVE  Deducts(w, j, r)
    <3>1. c.job = j
      BY <1>0, <2>3 DEF Fits, WritesFit, c
    <3>. QED
      BY <2>3, <3>1 DEF Deducts, c
  <2>4. ASSUME NEW r \in RowNos, Deducts(v, j, r), <<j, r>> \notin racedRows
        PROVE  /\ \A u \in Others(v) : ~Deducts(u, j, r)
               /\ \A m \in moves' : m.job = j /\ m.row = r =>
                     /\ \A n \in work[v].moved : n.row = r => m.sku # n.sku
                     /\ work[v].choice = "deduct" /\ RowAt(work[v]) = r => m.sku # work[v].sku
    <3>1. /\ \A u \in Others(v) : ~Deducts(u, j, r)
          /\ \A m \in moves : m.job = j /\ m.row = r =>
                     /\ \A n \in work[v].moved : n.row = r => m.sku # n.sku
                     /\ work[v].choice = "deduct" /\ RowAt(work[v]) = r => m.sku # work[v].sku
      BY <1>2, <1>4, <2>4 DEF Fits, DeductionsFit
    <3>2. \A m \in c.moved : ~(m.job = j /\ m.row = r)
      BY <1>2, <2>3, <3>1
    <3>. QED
      BY <1>1, <3>1, <3>2
  <2>. QED
    BY <1>0, <1>2, <1>4, <2>1, <2>2, <2>4 DEF DeductionsFit
<1>13. TracesFit(v)'
  BY <1>1, <1>2 DEF Fits, TracesFit
<1>14. ReimportsFit(v)'
  <2>1. work[v].phase \in CommitPhases => NewRows(j)' = NewRows(j)
    BY <1>2, <1>4, <1>5, CommitFacts
  <2>. QED
    BY <1>2, <1>4, <2>1 DEF Fits, ReimportsFit
<1>. QED
  BY SMTT(30), <1>6, <1>7, <1>9, <1>10, <1>11, <1>12, <1>13, <1>14 DEF Fits

\* All rows are done: the commit keeps the invariant.
LEMMA KeepsFinishCommit ==
    ASSUME IInv, NEW w \in Workers, FinishCommit(w)
    PROVE  IInv'
<1>1. TypeOK'
  <2>1. UNCHANGED <<lastTx, aliases, racedLines, racedRows>>
    BY DEF FinishCommit
  <2>. QED
    BY <2>1, DoneTables, DoneStock, DoneLedger DEF IInv, TypeOK, JobSet, RowSet
<1>2. ASSUME NEW j \in Jobs PROVE JobFits(j)'
  <2>1. JobFits(j)
    BY DEF IInv
  <2>2. \A n \in DOMAIN job[j].file : job[j].file \in Files => staging'[<<j, n>>].match = staging[<<j, n>>].match
    BY FileFacts, DoneTables DEF Rows
  <2>3. /\ j # work[w].job => job'[j] = job[j]
        /\ job'[j].file = job[j].file /\ job'[j].conflicts = job[j].conflicts
        /\ job[j] # Unused <=> job'[j] # Unused
        /\ job'[work[w].job].status = "SUCCEEDED"
    BY DoneTables
  <2>. QED
    BY <2>1, <2>2, <2>3 DEF JobFits
<1>3. ASSUME NEW v \in Workers PROVE Fits(v)'
  <2>1. CASE v = w
    BY <2>1, DoneTables, FreeFits
  <2>2. CASE v # w
    BY <2>2, DoneOthers
  <2>. QED
    BY <2>1, <2>2
<1>. QED
  BY <1>1, <1>2, <1>3, DoneLedger, DoneStock DEF IInv

-----------------------------------------------------------------------------
(* The other requests, and all steps together *)

\* A step outside the imports keeps the invariant if the ledger only loses rows and
\* recorded audits stay recorded.
LEMMA OutsideStep ==
    ASSUME IInv, ledger' \subseteq ledger, aliases' \subseteq AliasLabels \X Skus,
           UNCHANGED <<job, staging, lastTx, moves, work, racedLines, racedRows>>,
           Inv!IInv', \A r \in Rows : audit[r] # "NONE" => audit'[r] # "NONE"
    PROVE  IInv'
<1>1. TypeOK'
  BY DEF IInv, TypeOK, Inv!IInv
<1>2. LedgerIds'
  BY DEF IInv, LedgerIds
<1>3. ASSUME NEW j \in Jobs PROVE JobFits(j)'
  BY DEF IInv, JobFits
<1>4. ASSUME NEW v \in Workers PROVE Fits(v)'
  <2>1. Fits(v)
    BY DEF IInv
  <2>2. PICK j : j = work[v].job /\ NewRows(j)' = NewRows(j)
    BY DEF NewRows
  <2>3. RequestFits(v)' /\ ReimportsFit(v)'
    BY <2>1, <2>2 DEF Fits, RequestFits, ReimportsFit
  <2>4. WritesFit(v)' /\ IdsFit(v)' /\ GoneFits(v)' /\ LinesFit(v)' /\ TracesFit(v)'
    BY <2>1 DEF Fits, WritesFit, IdsFit, GoneFits, LinesFit, TracesFit
  <2>5. \A u \in Workers, r \in RowNos : Deducts(u, j, r)' <=> Deducts(u, j, r)
    BY DEF Deducts
  <2>6. DeductionsFit(v)'
    BY <2>1, <2>2, <2>5 DEF Fits, DeductionsFit, Others
  <2>. QED
    BY <2>3, <2>4, <2>6 DEF Fits
<1>5. SameHashOnlyByOverlap' /\ OneMovementPerRowAndSku'
  BY DEF IInv, SameHashOnlyByOverlap, OneMovementPerRowAndSku
<1>6. NoOrderSilentlyUndeducted'
  BY Types DEF IInv, NoOrderSilentlyUndeducted, Transactions, Rows
<1>. QED
  BY <1>1, <1>2, <1>3, <1>4, <1>5, <1>6 DEF IInv

\* A transaction is deleted by hand.
LEMMA KeepsDeleteTransaction ==
    ASSUME IInv, NEW t \in ledger, DeleteTransaction(t)
    PROVE  IInv'
<1>1. Inv!IInv' /\ \A r \in Rows : audit[r] # "NONE" => audit'[r] # "NONE"
  BY Types, StockSame DEF DeleteTransaction, stockVars
<1>2. aliases' \subseteq AliasLabels \X Skus
  BY DEF IInv, TypeOK, DeleteTransaction
<1>. QED
  BY <1>1, <1>2, OutsideStep DEF DeleteTransaction

\* An alias is added, re-pointed or deactivated.
LEMMA KeepsEditAlias ==
    ASSUME IInv, NEW label \in AliasLabels,
           NEW old, NEW new \in {{}} \cup {{<<label, s>>} : s \in Skus},
           EditAlias(label, old, new)
    PROVE  IInv'
<1>1. Inv!IInv' /\ \A r \in Rows : audit[r] # "NONE" => audit'[r] # "NONE"
  BY Types, StockSame DEF EditAlias, stockVars
<1>2. aliases' \subseteq AliasLabels \X Skus
  <2>1. \A s \in Skus : <<label, s>> \in AliasLabels \X Skus
    OBVIOUS
  <2>2. new \subseteq AliasLabels \X Skus
    BY <2>1
  <2>3. aliases \subseteq AliasLabels \X Skus
    BY DEF IInv, TypeOK
  <2>. QED
    BY <2>2, <2>3 DEF EditAlias
<1>. QED
  BY <1>1, <1>2, OutsideStep DEF EditAlias

\* An audit issue of a staging row is resolved.
LEMMA KeepsResolveAudit ==
    ASSUME IInv, NEW c \in Clients, ResolveAudit(c)
    PROVE  IInv'
<1>1. PICK r \in Rows, s \in Skus :
          \/ /\ job[r[1]] # Unused /\ r[2] \in DOMAIN job[r[1]].file
             /\ Inv!BeginResolve(c, r, s, LineInfo[job[r[1]].file[r[2]]].quantity)
          \/ Inv!ReadBalanceForResolve(c, s)
          \/ Inv!CommitResolve(c, r, s)
  BY DEF ResolveAudit
<1>2. r[1] \in Jobs
  BY DEF Rows
<1>3. ASSUME job[r[1]] # Unused, r[2] \in DOMAIN job[r[1]].file
      PROVE  LineInfo[job[r[1]].file[r[2]]].quantity \in Int
  <2>1. job[r[1]].file \in Files
    BY <1>2, <1>3 DEF IInv, JobFits
  <2>2. job[r[1]].file[r[2]] \in Lines
    BY <1>3, <2>1, FileFacts
  <2>. QED
    BY <2>2, StoreOrdersImportAssumption DEF Quantities
<1>4. \/ \E quantity \in Int : Inv!BeginResolve(c, r, s, quantity)
      \/ Inv!ReadBalanceForResolve(c, s)
      \/ Inv!CommitResolve(c, r, s)
  BY <1>1, <1>3
<1>5. Inv!IInv' /\ \A i \in Rows : audit[i] # "NONE" => audit'[i] # "NONE"
  <2>1. ASSUME NEW quantity \in Int, Inv!BeginResolve(c, r, s, quantity)
        PROVE  Inv!IInv' /\ audit' = audit
    BY <2>1, Types, StockBegin DEF Inv!BeginResolve
  <2>2. ASSUME Inv!ReadBalanceForResolve(c, s) PROVE Inv!IInv' /\ audit' = audit
    BY <2>2, Types, StockRead DEF Inv!ReadBalanceForResolve
  <2>3. ASSUME Inv!CommitResolve(c, r, s)
        PROVE  Inv!IInv' /\ \A i \in Rows : audit[i] # "NONE" => audit'[i] # "NONE"
    BY <2>3, Types, StockResolve
  <2>. QED
    BY <1>4, <2>1, <2>2, <2>3
<1>6. UNCHANGED importVars /\ aliases \subseteq AliasLabels \X Skus
  BY DEF ResolveAudit, IInv, TypeOK
<1>. QED
  BY SMTT(30), <1>5, <1>6, OutsideStep DEF importVars

\* The invariant holds before anything has been imported.
LEMMA InitIInv == Init => IInv
<1>. SUFFICES ASSUME Init PROVE IInv
  OBVIOUS
<1>1. Inv!TypeOK /\ Inv!IInv
  <2>1. Inv!TypeOK
    BY DEF Init, Inv!Init, Inv!TypeOK, Inv!AuditStatus, Inv!Idle, Inv!NewRequest, Inv!Requests, Inv!Phases
  <2>2. \A c \in Clients : request[c].phase = "idle" /\ request[c].issue \notin Rows
    BY StoreOrdersImportAssumption DEF Init, Inv!Init, Inv!Idle, Inv!NewRequest
  <2>3. Inv!BalanceIsSumUnlessRaced /\ Inv!FreshReads /\ Inv!OpenWhileResolving /\ Inv!OpeningsLeft
    BY <2>2 DEF Init, Inv!Init, Inv!BalanceIsSumUnlessRaced, Inv!FreshReads, Inv!OpenWhileResolving,
                Inv!OpeningsLeft, Inv!HasRead
  <2>. QED
    BY <2>1, <2>3 DEF Inv!IInv
<1>2. TypeOK
  <2>1. Unused \in JobSet /\ NoRow \in RowSet
    BY DEF Unused, NoRow, JobSet, RowSet, Matches
  <2>2. lastTx \in 0..MaxTransactions
    BY Bounds DEF Init
  <2>. QED
    BY <1>1, <2>1, <2>2, FreeFacts DEF Init, TypeOK, JobSet, RowSet
<1>3. LedgerIds
  BY DEF Init, LedgerIds, NoRow, NoTx
<1>4. \A j \in Jobs : JobFits(j)
  BY DEF Init, JobFits
<1>5. ASSUME NEW w \in Workers PROVE Fits(w)
  <2>1. work[w] = Free
    BY DEF Init
  <2>2. RequestFits(w) /\ WritesFit(w) /\ IdsFit(w) /\ GoneFits(w) /\ LinesFit(w)
    BY <2>1, FreeFacts DEF RequestFits, WritesFit, IdsFit, GoneFits, LinesFit, CommitPhases
  <2>3. DeductionsFit(w) /\ TracesFit(w) /\ ReimportsFit(w)
    BY <2>1, FreeFacts DEF DeductionsFit, Deducts, TracesFit, ReimportsFit, CommitPhases
  <2>. QED
    BY <2>2, <2>3 DEF Fits
<1>6. SameHashOnlyByOverlap /\ OneMovementPerRowAndSku /\ NoOrderSilentlyUndeducted
  BY DEF Init, SameHashOnlyByOverlap, OneMovementPerRowAndSku, NoOrderSilentlyUndeducted
<1>. QED
  BY <1>1, <1>2, <1>3, <1>4, <1>5, <1>6 DEF IInv

\* Every step keeps it.
LEMMA StepIInv == IInv /\ [Next]_vars => IInv'
<1>. SUFFICES ASSUME IInv, [Next]_vars PROVE IInv'
  OBVIOUS
<1>1. CASE ImportNext
  <2>1. ASSUME NEW w \in Workers, NEW j \in Jobs, NEW f \in Files, NEW p \in Policies,
               BeginPreview(w, j, f, p)
        PROVE  IInv'
    BY <2>1, KeepsBeginPreview
  <2>2. ASSUME NEW w \in Workers, NEW j \in Jobs, NEW p \in Policies, BeginCommit(w, j, p)
        PROVE  IInv'
    BY <2>2, KeepsBeginCommit
  <2>3. ASSUME NEW w \in Workers, FinishPreview(w) \/ DeleteReplaced(w) \/ SkipRow(w) PROVE IInv'
    BY <2>3, KeepsFinishPreview, KeepsDeleteReplaced, KeepsSkipRow
  <2>4. ASSUME NEW w \in Workers, CreateRow(w) \/ DecideDeduction(w) \/ WriteRow(w) PROVE IInv'
    BY <2>4, KeepsCreateRow, KeepsDecideDeduction, KeepsWriteRow
  <2>5. ASSUME NEW w \in Workers, FinishCommit(w) \/ Rollback(w) PROVE IInv'
    BY <2>5, KeepsFinishCommit, KeepsRollback
  <2>. QED
    BY <1>1, <2>1, <2>2, <2>3, <2>4, <2>5 DEF ImportNext
<1>2. ASSUME NEW t \in ledger, DeleteTransaction(t) PROVE IInv'
  BY <1>2, KeepsDeleteTransaction
<1>3. ASSUME NEW label \in AliasLabels, NEW old \in {{}} \cup {{<<label, s>>} : s \in Skus},
             NEW new \in {{}} \cup {{<<label, s>>} : s \in Skus}, EditAlias(label, old, new)
      PROVE  IInv'
  BY <1>3, KeepsEditAlias
<1>4. ASSUME NEW c \in Clients, ResolveAudit(c) PROVE IInv'
  BY <1>4, KeepsResolveAudit
<1>5. CASE UNCHANGED vars
  <2>1. Inv!IInv' /\ \A r \in Rows : audit[r] # "NONE" => audit'[r] # "NONE"
    BY <1>5, Types, StockSame DEF stockVars, vars
  <2>2. UNCHANGED importVars /\ aliases \subseteq AliasLabels \X Skus
    BY <1>5 DEF vars, IInv, TypeOK
  <2>. QED
    BY <2>1, <2>2, OutsideStep DEF importVars
<1>. QED
  BY <1>1, <1>2, <1>3, <1>4, <1>5 DEF Next

-----------------------------------------------------------------------------
\* In every reachable state the tables and the open requests fit each other.
THEOREM AlwaysIInv == Spec => []IInv
<1>. QED
  BY InitIInv, StepIInv, PTL DEF Spec

\* Two rows of the ledger carry one dedupe hash only if two commits that were open
\* together both looked it up: whatever the files, policies, deletions and recommits.
THEOREM OneHashUnlessRaced == Spec => []SameHashOnlyByOverlap
<1>1. IInv => SameHashOnlyByOverlap
  BY DEF IInv
<1>. QED
  BY <1>1, AlwaysIInv, PTL

\* A staging row is deducted once per SKU, however often its job is committed, unless
\* two open commits of it both passed the duplicate check.
THEOREM DeductedOnceUnlessRaced == Spec => []OneMovementPerRowAndSku
<1>1. IInv => OneMovementPerRowAndSku
  BY DEF IInv
<1>. QED
  BY <1>1, AlwaysIInv, PTL

\* No imported order line is lost to the stock: it has a movement or an audit issue.
THEOREM EveryOrderTraced == Spec => []NoOrderSilentlyUndeducted
<1>1. IInv => NoOrderSilentlyUndeducted
  BY DEF IInv
<1>. QED
  BY <1>1, AlwaysIInv, PTL

\* What a commit removes or adds is of the module and the months of its file.
THEOREM StaysInFile == Spec => CommitStaysInFile
<1>1. ASSUME IInv, NEW w \in Workers, FinishCommit(w),
             NEW t \in (ledger \ ledger') \cup (ledger' \ ledger)
      PROVE  LineInfo[t.line].module = ModuleOf(work[w].file) /\ Month(t.line) \in FileMonths(work[w].file)
  <2>1. /\ Fits(w) /\ work[w].file \in Files /\ work[w].conflicts \subseteq FileMonths(work[w].file)
    BY <1>1, DoneFacts, CommitFacts DEF JobFits, CommitPhases
  <2>2. (t \in ledger /\ t.id \in work[w].gone) \/ t \in work[w].created
    BY <1>1 DEF FinishCommit, Visible
  <2>3. CASE t \in ledger /\ t.id \in work[w].gone
    BY <2>1, <2>3 DEF Fits, GoneFits
  <2>4. CASE t \in work[w].created
    <3>1. /\ t.row \in DOMAIN work[w].file /\ t.line = work[w].file[t.row] /\ Month(t.line) # NoMonth
      BY <2>1, <2>4 DEF Fits, WritesFit
    <3>. QED
      BY <2>1, <3>1, FileFacts DEF FileMonths
  <2>. QED
    BY <2>2, <2>3, <2>4
<1>2. IInv => [\A w \in Workers :
                  FinishCommit(w) =>
                      \A t \in (ledger \ ledger') \cup (ledger' \ ledger) :
                          /\ LineInfo[t.line].module = ModuleOf(work[w].file)
                          /\ Month(t.line) \in FileMonths(work[w].file)]_vars
  BY <1>1
<1>. QED
  BY <1>2, AlwaysIInv, PTL DEF CommitStaysInFile

\* A replacing commit of a freshly previewed job imports again what it deleted, except
\* a line another commit has inserted since.
THEOREM Reimports == Spec => ReplaceReimports
<1>1. ASSUME IInv, NEW w \in Workers, FinishCommit(w),
             work[w].policy = "replace_existing_months",
             job[work[w].job].policy = "replace_existing_months",
             job[work[w].job].status = "PENDING",
             NEW n \in DOMAIN work[w].file, Month(work[w].file[n]) \in work[w].conflicts
      PROVE  Found(work[w], work[w].file[n]) \/ \E t \in ledger' : t.line = work[w].file[n]
  <2>1. /\ Fits(w) /\ work[w].phase = "rows" /\ work[w].todo = {} /\ work[w].choice = "none"
        /\ work[w].job \in Jobs /\ job[work[w].job] # Unused /\ work[w].file = job[work[w].job].file
    BY <1>1, DoneFacts
  <2>2. JobFits(work[w].job) /\ work[w].conflicts = job[work[w].job].conflicts
    BY <1>1, <2>1, CommitFacts DEF CommitPhases
  <2>3. n \in NewRows(work[w].job)
    BY <1>1, <2>1, <2>2 DEF JobFits, NewRows
  <2>4. \/ \E t \in work[w].created : t.line = work[w].file[n]
        \/ Found(work[w], work[w].file[n])
    BY <1>1, <2>1, <2>3 DEF Fits, ReimportsFit, CommitPhases
  <2>5. work[w].created \subseteq ledger'
    BY <1>1 DEF FinishCommit, Visible
  <2>. QED
    BY <2>4, <2>5
<1>2. IInv => [\A w \in Workers :
                  LET c == work[w] IN
                  /\ FinishCommit(w)
                  /\ c.policy = "replace_existing_months"
                  /\ job[c.job].policy = "replace_existing_months"
                  /\ job[c.job].status = "PENDING"
                  => \A n \in DOMAIN c.file :
                        Month(c.file[n]) \in c.conflicts
                            => Found(c, c.file[n]) \/ \E t \in ledger' : t.line = c.file[n]]_vars
  BY <1>1
<1>. QED
  BY <1>2, AlwaysIInv, PTL DEF ReplaceReimports

\* Imports and audit resolutions together keep the balance of a SKU the sum of its
\* movements until a resolution writes a balance it read too early.
THEOREM SnapshotIsSum == Spec => []Inv!BalanceIsSumUnlessRaced
<1>1. IInv => Inv!BalanceIsSumUnlessRaced
  BY DEF IInv, Inv!IInv
<1>. QED
  BY <1>1, AlwaysIInv, PTL

\* An audit issue that commits of its job open, again and again, is resolved at most
\* once each time, unless two requests read it OPEN together.
THEOREM ResolvedOnce == Spec => []Inv!ResolvedOncePerOpening
<1>1. IInv => Inv!ResolvedOncePerOpening
  BY DEF IInv, Inv!IInv, Inv!OpeningsLeft, Inv!ResolvedOncePerOpening
<1>. QED
  BY <1>1, AlwaysIInv, PTL

\* A step of an import or a resolution posts to the ledger of docs/step110, or leaves
\* it alone.
LEMMA StepLedger == IInv /\ [Next]_vars => [Inv!Ledger!Post]_(Inv!Ledger!ledgerVars)
<1>. SUFFICES ASSUME IInv, [Next]_vars PROVE Inv!Ledger!Post \/ UNCHANGED <<posted, balance, raced>>
  BY DEF Inv!Ledger!ledgerVars
<1>1. ASSUME NEW w \in Workers, FinishCommit(w) PROVE Inv!Ledger!Post
  BY SMTT(30), <1>1, DoneStock
<1>2. ASSUME NEW w \in Workers,
             \/ \E j \in Jobs, f \in Files, p \in Policies : BeginPreview(w, j, f, p)
             \/ \E j \in Jobs, p \in Policies : BeginCommit(w, j, p)
             \/ FinishPreview(w) \/ DeleteReplaced(w) \/ SkipRow(w) \/ CreateRow(w)
             \/ DecideDeduction(w) \/ WriteRow(w) \/ Rollback(w)
      PROVE  UNCHANGED stockVars
  BY <1>2 DEF BeginPreview, BeginCommit, FinishPreview, DeleteReplaced, SkipRow, CreateRow,
              DecideDeduction, WriteRow, Rollback
<1>3. CASE ImportNext
  BY <1>1, <1>2, <1>3 DEF ImportNext, stockVars
<1>4. ASSUME NEW c \in Clients, ResolveAudit(c)
      PROVE  Inv!Ledger!Post \/ UNCHANGED <<posted, balance, raced>>
  <2>1. PICK r \in Rows, s \in Skus :
            \/ Inv!BeginResolve(c, r, s, LineInfo[job[r[1]].file[r[2]]].quantity)
            \/ Inv!ReadBalanceForResolve(c, s)
            \/ Inv!CommitResolve(c, r, s)
    BY <1>4 DEF ResolveAudit
  <2>2. CASE Inv!CommitResolve(c, r, s)
    BY <2>2, Types, StockResolve
  <2>. QED
    BY SMTT(30), <2>1, <2>2 DEF Inv!BeginResolve, Inv!ReadBalanceForResolve
<1>5. ASSUME NEW t, DeleteTransaction(t) PROVE UNCHANGED stockVars
  BY <1>5 DEF DeleteTransaction
<1>6. ASSUME NEW label, NEW old, NEW new, EditAlias(label, old, new) PROVE UNCHANGED stockVars
  BY <1>6 DEF EditAlias
<1>7. CASE UNCHANGED vars
  BY <1>7 DEF vars, stockVars
<1>. QED
  BY <1>3, <1>4, <1>5, <1>6, <1>7 DEF Next, stockVars

\* With imports of any number of rows, the stock tables still implement the ledger of
\* docs/step110 for every SKU no raced write has touched.
THEOREM ImplementsLedger == Spec => Inv!SnapshotFollowsMovements
<1>1. Init => Inv!Ledger!Init
  BY DEF Init, Inv!Init, Inv!Ledger!Init
<1>. QED
  BY <1>1, AlwaysIInv, StepLedger, PTL DEF Spec, Inv!SnapshotFollowsMovements, Inv!Ledger!Spec
=============================================================================
