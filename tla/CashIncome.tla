----------------------------- MODULE CashIncome -----------------------------
(***************************************************************************)
(* The cash-income import (commitCashIncomeContract of                     *)
(* apps/api/src/imports/imports.service.ts).  The client sends the rows    *)
(* its preview returned; no job is kept.  All rows must be valid; then one *)
(* database transaction looks up and creates them row by row.              *)
(***************************************************************************)
EXTENDS LedgerImport

CONSTANTS
    CashFiles        \* rows, [line, bad]; the hash of a line covers its row
                     \* number, so the same line elsewhere is another one

ASSUME CashIncomeAssumption ==
    /\ CashFiles \subseteq Seq([line : Lines, bad : BOOLEAN])
    /\ \A f \in CashFiles : Len(f) \in RowNos
    /\ \A f, g \in CashFiles : \A m \in DOMAIN f, n \in DOMAIN g :
          f[m].line = g[n].line => m = n

\* canCommit, and the transaction starts.
BeginCash(w, f) ==
    /\ work[w].phase = "idle"
    /\ \A n \in DOMAIN f : ~f[n].bad
    /\ work' = [work EXCEPT ![w] = [Free EXCEPT !.phase = "cash", !.kind = "cash", !.file = f]]
    /\ UNCHANGED <<job, staging, ledger, lastTx, raced, cut, removed, partial>>

\* The next row is looked up, and created if its hash is not there; the creation
\* is seen by others when the transaction commits.
CashRow(w) ==
    LET c == work[w]
        n == Len(c.matches) + 1
        l == c.file[n].line
        match == IF Lookup(l) = {} THEN "new" ELSE "duplicate"
    IN
    /\ c.phase = "cash" /\ n <= Len(c.file)
    /\ work' = [work EXCEPT ![w].matches = Append(@, match)]
    /\ raced' = raced \cup {x \in {l} : match = "new" /\ \E v \in Others(w) : x \in Absent(v)}
    /\ UNCHANGED <<job, staging, ledger, lastTx, cut, removed, partial>>

CommitCash(w) ==
    LET c == work[w] IN
    /\ c.phase = "cash" /\ Len(c.matches) = Len(c.file)
    /\ CreateAll(NoJob, c.file, {n \in DOMAIN c.file : c.matches[n] = "new"})
    /\ work' = [work EXCEPT ![w] = Free]
    /\ UNCHANGED <<job, staging, raced, cut, removed, partial>>

AdvanceCash(w) == CashRow(w) \/ CommitCash(w)

CashNext ==
    \E w \in Workers :
        \/ \E f \in CashFiles : BeginCash(w, f)
        \/ AdvanceCash(w)
=============================================================================
