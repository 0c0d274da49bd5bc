---------------------------- MODULE AmazonOrders ----------------------------
(***************************************************************************)
(* Orders fetched from Amazon's SP-API and booked as income.               *)
(* amazon-sp-api-orders-real-importjob-persistence.service.ts stores the   *)
(* fetched order items as an import job and its staging rows, in two       *)
(* statements.  A commit (amazon-sp-api-orders-transaction-commit) reviews *)
(* the job - twice, for the transactions and for the stock movements it    *)
(* would lead to - then looks its hashes up once more and creates all of   *)
(* its transactions in one database transaction.  Job and staging rows are *)
(* not updated by it.                                                      *)
(***************************************************************************)
EXTENDS LedgerImport

CONSTANTS
    OrderFiles       \* fetched items, [line, bad, free]: bad if a review blocks
                     \* them whatever the ledger holds, free if priced at 0

ASSUME AmazonOrdersAssumption ==
    /\ OrderFiles \subseteq Seq([line : Lines, bad : BOOLEAN, free : BOOLEAN])
    /\ \A f \in OrderFiles : Len(f) \in RowNos

\* The hashes of f that are in the ledger, order headers aside.
Existing(f) == {l \in Hashes(f) : Booked(l) # {}}

-----------------------------------------------------------------------------
\* The job is created with its final status, before it has any rows.
PersistJob(w, j, f) ==
    /\ work[w].phase = "idle"
    /\ job[j] = Unused
    /\ job' = [job EXCEPT ![j] =
          [status |-> "SUCCEEDED", kind |-> "amazon", file |-> f]]
    /\ work' = [work EXCEPT ![w] = [Free EXCEPT
          !.phase = "persist", !.kind = "amazon", !.job = j, !.file = f]]
    /\ UNCHANGED <<staging, ledger, lastTx, raced, cut, removed, partial>>

\* createMany of the rows.
PersistRows(w) ==
    LET p == work[w] IN
    /\ p.phase = "persist"
    /\ staging' = [r \in Rows |->
          IF r[1] = p.job /\ r[2] \in DOMAIN p.file
          THEN [match |-> "pending", target |-> NoTx] ELSE staging[r]]
    /\ work' = [work EXCEPT ![w] = Free]
    /\ UNCHANGED <<job, ledger, lastTx, raced, cut, removed, partial>>

-----------------------------------------------------------------------------
\* Mutant: the review lets a job go on with the rows that are ready.
PassesAny(f) == (\E n \in DOMAIN f : ~f[n].bad) /\ Existing(f) = {}

\* A review passes when no row is blocked: by its own data, by another row with
\* its hash, or by a transaction of that hash.  (Bad rows stand also for a missing
\* alias and for two items of one SKU.)
Passes(f) ==
    /\ \A n \in DOMAIN f : ~f[n].bad
    /\ \A m, n \in DOMAIN f : m # n => f[m].line # f[n].line
    /\ Existing(f) = {}

\* The job, its rows and the ledger are read for the transactions; a job without
\* rows is refused ...
ReviewOrders(w, j) ==
    /\ work[w].phase = "idle"
    /\ job[j].kind = "amazon"
    /\ \A n \in DOMAIN job[j].file : staging[<<j, n>>] # NoRow
    /\ Passes(job[j].file)
    /\ work' = [work EXCEPT ![w] = [Free EXCEPT
          !.phase = "review", !.kind = "amazon", !.job = j, !.file = job[j].file]]
    /\ UNCHANGED <<job, staging, ledger, lastTx, raced, cut, removed, partial>>

\* ... and again for the stock movements.
ReviewStock(w) ==
    /\ work[w].phase = "review"
    /\ work' = [work EXCEPT ![w] =
          IF Passes(work[w].file) THEN [work[w] EXCEPT !.phase = "reviewed"] ELSE Free]
    /\ UNCHANGED <<job, staging, ledger, lastTx, raced, cut, removed, partial>>

\* existingTransactions, kept until the commit ends.
LookupOrders(w) ==
    LET c == work[w]
        existing == Existing(c.file)
    IN
    /\ c.phase = "reviewed"
    /\ work' = [work EXCEPT ![w].phase = "book", ![w].seen = existing]
    /\ raced' = raced \cup {l \in Hashes(c.file) \ existing : \E v \in Others(w) : l \in Absent(v)}
    /\ UNCHANGED <<job, staging, ledger, lastTx, cut, removed, partial>>

\* One database transaction for the rows that are ready; an item priced at 0 is
\* skipped.
BookOrders(w) ==
    LET c == work[w] IN
    /\ c.phase = "book"
    /\ CreateAll(c.job, c.file,
                 {n \in DOMAIN c.file :
                     ~c.file[n].bad /\ ~c.file[n].free /\ c.file[n].line \notin c.seen})
    /\ work' = [work EXCEPT ![w] = Free]
    /\ UNCHANGED <<job, staging, raced, cut, removed, partial>>

AdvanceOrders(w) ==
    \/ PersistRows(w)
    \/ ReviewStock(w)
    \/ LookupOrders(w)
    \/ BookOrders(w)

OrdersNext ==
    \E w \in Workers :
        \/ \E j \in Jobs, f \in OrderFiles : PersistJob(w, j, f)
        \/ \E j \in Jobs : ReviewOrders(w, j)
        \/ AdvanceOrders(w)

-----------------------------------------------------------------------------
\* A job whose booking began is booked as a whole: once one of its orders is in
\* the ledger, so are all the others that have a price, but for those a user
\* deleted.
BookedTogether ==
    \A j \in Jobs : job[j].kind = "amazon" /\ (\E t \in ledger : t.job = j) =>
        \A n \in DOMAIN job[j].file :
            LET row == job[j].file[n] IN
            row.free \/ Known(row.line)

\* A SUCCEEDED job without rows was left by a persistence that died.
RowlessOnlyWhenCut ==
    \A j \in Jobs : job[j].kind = "amazon" =>
        \/ \A n \in DOMAIN job[j].file : staging[<<j, n>>] # NoRow
        \/ j \in cut
        \/ \E w \in Workers : work[w].phase = "persist" /\ work[w].job = j
=============================================================================
