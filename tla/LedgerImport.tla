---------------------------- MODULE LedgerImport ----------------------------
(***************************************************************************)
(* The three ledger imports of apps/api/src/imports/imports.service.ts     *)
(* that run without a database transaction, one committed statement after  *)
(* another: "expense" (previewExpenseImportContract, commitExpenseImport-  *)
(* Contract), "income" (previewIncomeImportContract, commitIncomeImport-   *)
(* Contract) and "direct" (commitExpenseImport, the older one-step path).  *)
(*                                                                         *)
(* A request may die between any two statements.  A job can be committed   *)
(* as soon as it exists, by several requests at once and again afterwards: *)
(* its id is in the import history while its preview still runs, and when  *)
(* the preview has died.                                                   *)
(* The other imports that book income in the same tables are AmazonOrders  *)
(* and CashIncome.                                                         *)
(***************************************************************************)
EXTENDS Integers, FiniteSets, Sequences

CONSTANTS
    Jobs,            \* ImportJob rows
    Kinds,           \* the kinds of file import offered, see above
    Lines,           \* contents of a row: one dedupe hash each
    Files,           \* uploads: sequences of [line, bad], bad for a rejected row
    MaxRows,         \* most rows of a file
    Earlier,         \* lines an earlier import may have booked
    Workers,         \* requests in flight at the same time
    MaxTransactions, \* bound on the Transaction rows ever created
    MaxDeletions,    \* bound on those a user deletes
    NoJob

\* "amazon" is the kind of the jobs of AmazonOrders.
FileKinds == {"expense", "income", "direct"}
AllKinds == FileKinds \cup {"amazon"}
RowNos == 1..MaxRows
Rows == Jobs \X RowNos
NoTx == 0

ASSUME LedgerImportAssumption ==
    /\ Kinds \subseteq FileKinds
    /\ MaxRows \in Nat \ {0} /\ MaxTransactions \in Nat \ {0} /\ MaxDeletions \in Nat
    /\ NoJob \notin Jobs /\ Earlier \subseteq Lines
    /\ Files \subseteq Seq([line : Lines, bad : BOOLEAN])
    /\ \A f \in Files : Len(f) \in RowNos

VARIABLES
    job,      \* ImportJob: status, kind and the file it was made from
    staging,  \* ImportStagingRow: matchStatus and targetEntityId
    ledger,   \* Transaction rows, as [id, line, job, row]
    lastTx,   \* number of Transaction ids handed out
    work,     \* per worker, its request
    raced,    \* history: lines that two requests had both looked up as absent
    cut,      \* history: jobs one of whose requests died
    removed,  \* history: lines a user deleted from the ledger
    partial   \* history: jobs whose last commit had read only part of their rows

vars == <<job, staging, ledger, lastTx, work, raced, cut, removed, partial>>

Unused == [status |-> "NONE", kind |-> "none", file |-> <<>>]
NoRow == [match |-> "none", target |-> NoTx]

\* matches holds the row statuses this request works from, row the number of
\* the next row, seen the hashes met in the file and failed that some row was
\* counted as an error.
Free ==
    [phase |-> "idle", kind |-> "none", job |-> NoJob, file |-> <<>>, matches |-> <<>>,
     row |-> 1, seen |-> {}, failed |-> FALSE, tx |-> NoTx]

Others(w) == Workers \ {w}
Booked(l) == {t \in ledger : t.line = l}
Known(l) == Booked(l) # {} \/ l \in removed
Hashes(f) == {f[n].line : n \in DOMAIN f}

\* The lines request w has looked up as absent and is going to insert: the row of
\* a file, the orders of a job, the rows of a cash commit.
Absent(w) ==
    LET c == work[w] IN
    CASE c.phase = "create" -> {c.file[c.row].line}
      [] c.phase = "book" -> Hashes(c.file) \ c.seen
      [] c.phase = "cash" -> {c.file[n].line : n \in {m \in DOMAIN c.matches : c.matches[m] = "new"}}
      [] OTHER -> {}

Done(w) == work[w].row > Len(work[w].matches)

\* All rows of the file were there when request c read them.
ReadWhole(c) == \A n \in DOMAIN c.matches : c.matches[n] # "none"
MoveOn(w, failed) ==
    work' = [work EXCEPT ![w].phase = "rows", ![w].row = @ + 1, ![w].failed = @ \/ failed]

Init ==
    /\ job = [j \in Jobs |-> Unused]
    /\ staging = [r \in Rows |-> NoRow]
    /\ \/ ledger = {} /\ lastTx = 0
       \/ \E l \in Earlier :
             ledger = {[id |-> 1, line |-> l, job |-> NoJob, row |-> 1]} /\ lastTx = 1
    /\ work = [w \in Workers |-> Free]
    /\ raced = {}
    /\ cut = {}
    /\ removed = {}
    /\ partial = {}

-----------------------------------------------------------------------------
(* Preview *)

\* The job row is created first; commitExpenseImport goes straight to work, on
\* the rows that carry no error.
BeginPreview(w, j, kind, f) ==
    /\ work[w].phase = "idle"
    /\ job[j] = Unused
    /\ kind = "direct" => \E n \in DOMAIN f : ~f[n].bad
    /\ job' = [job EXCEPT ![j] =
          [status |-> IF kind = "income" THEN "PENDING" ELSE "PROCESSING",
           kind |-> kind, file |-> f]]
    /\ work' = [work EXCEPT ![w] = [Free EXCEPT
          !.phase = IF kind = "direct" THEN "rows" ELSE "preview",
          !.kind = kind, !.job = j, !.file = f,
          !.matches = IF kind = "direct"
                      THEN [n \in DOMAIN f |-> IF f[n].bad THEN "error" ELSE "new"] ELSE <<>>]]
    /\ UNCHANGED <<staging, ledger, lastTx, raced, cut, removed, partial>>

\* The status of the next row: validation, for income the hashes of the rows
\* before it (rejected ones included), then the lookup in the ledger.
PreviewMatch(p, row) ==
    IF row.bad THEN "error"
    ELSE IF p.kind = "income" /\ row.line \in p.seen THEN "duplicate"
    ELSE IF Booked(row.line) # {} THEN "duplicate"
    ELSE "new"

\* An expense row is stored at once, an income row kept for createMany.
PreviewRow(w) ==
    LET p == work[w]
        n == Len(p.matches) + 1
        match == PreviewMatch(p, p.file[n])
    IN
    /\ p.phase = "preview" /\ n <= Len(p.file)
    /\ work' = [work EXCEPT ![w].matches = Append(@, match), ![w].seen = @ \cup {p.file[n].line}]
    /\ \/ /\ p.kind = "income"
          /\ UNCHANGED staging
       \/ /\ p.kind = "expense"
          /\ \/ match # "duplicate" /\ staging' = [staging EXCEPT
                   ![<<p.job, n>>] = [match |-> match, target |-> NoTx]]
             \/ \E t \in Booked(p.file[n].line) : match = "duplicate" /\ staging' =
                   [staging EXCEPT ![<<p.job, n>>] = [match |-> match, target |-> t.id]]
    /\ UNCHANGED <<job, ledger, lastTx, raced, cut, removed, partial>>

\* createMany of the income rows.
StoreIncomeRows(w) ==
    LET p == work[w] IN
    /\ p.phase = "preview" /\ p.kind = "income" /\ Len(p.matches) = Len(p.file)
    /\ staging' = [r \in Rows |->
          IF r[1] = p.job /\ r[2] \in DOMAIN p.matches
          THEN [match |-> p.matches[r[2]], target |-> NoTx] ELSE staging[r]]
    /\ work' = [work EXCEPT ![w].phase = "stored"]
    /\ UNCHANGED <<job, ledger, lastTx, raced, cut, removed, partial>>

\* The job's counts and status are updated, whatever the status has become.
FinishPreview(w) ==
    LET p == work[w]
        failed == p.kind = "income" /\ \E n \in DOMAIN p.matches : p.matches[n] = "error"
    IN
    /\ \/ p.phase = "stored"
       \/ p.phase = "preview" /\ p.kind = "expense" /\ Len(p.matches) = Len(p.file)
    /\ job' = [job EXCEPT ![p.job].status = IF failed THEN "FAILED" ELSE "PROCESSING"]
    /\ work' = [work EXCEPT ![w] = Free]
    /\ UNCHANGED <<staging, ledger, lastTx, raced, cut, removed, partial>>

-----------------------------------------------------------------------------
(* Commit *)

\* The job and the rows it has so far are read, "none" for a row not stored (yet);
\* no status is required, and only the expense commit asks for a row.  A job made
\* by the direct path is an expense job to commitExpenseImportContract.
BeginCommit(w, j) ==
    /\ work[w].phase = "idle"
    /\ job[j].kind \in FileKinds
    /\ LET stored == {n \in DOMAIN job[j].file : staging[<<j, n>>] # NoRow} IN
       /\ stored # {} \/ job[j].kind = "income"
       /\ work' = [work EXCEPT ![w] = [Free EXCEPT
             !.phase = "rows", !.job = j, !.file = job[j].file,
             !.kind = IF job[j].kind = "income" THEN "income" ELSE "expense",
             !.matches = [n \in DOMAIN job[j].file |-> staging[<<j, n>>].match]]]
    /\ UNCHANGED <<job, staging, ledger, lastTx, raced, cut, removed, partial>>

\* Mutant: a row committed before is an error to every commit.
CountsAsErrorAlways(kind, match) == match \in {"error", "committed"}

\* A row that is not 'new' is counted and left alone; a committed row is a
\* duplicate to the expense commit and an error to the income commit.  A row that
\* was not stored is not counted.
CountsAsError(kind, match) ==
    \/ match = "error"
    \/ match = "committed" /\ kind = "income"

\* commitExpenseImport stores the rejected row.
PassRow(w) ==
    LET c == work[w]
        match == c.matches[c.row]
    IN
    /\ c.phase = "rows" /\ ~Done(w)
    /\ match # "new"
    /\ MoveOn(w, CountsAsError(c.kind, match))
    /\ staging' = IF c.kind = "direct"
                  THEN [staging EXCEPT ![<<c.job, c.row>>] = [match |-> "error", target |-> NoTx]]
                  ELSE staging
    /\ UNCHANGED <<job, ledger, lastTx, raced, cut, removed, partial>>

\* Mutant: the commit relies on the lookup made by the preview.
LookupNothing(l) == {}

\* The lookup by dedupeHash of a 'new' row.
Lookup(l) == Booked(l)

\* The hash is in the ledger by now: the row becomes a duplicate.
MarkDuplicate(w) ==
    LET c == work[w] IN
    /\ c.phase = "rows" /\ ~Done(w)
    /\ c.matches[c.row] = "new"
    /\ \E t \in Lookup(c.file[c.row].line) :
          staging' = [staging EXCEPT ![<<c.job, c.row>>] = [match |-> "duplicate", target |-> t.id]]
    /\ MoveOn(w, FALSE)
    /\ UNCHANGED <<job, ledger, lastTx, raced, cut, removed, partial>>

\* The hash is not in the ledger: the request goes on to insert it.
FindNothing(w) ==
    LET c == work[w]
        l == c.file[c.row].line
    IN
    /\ c.phase = "rows" /\ ~Done(w)
    /\ c.matches[c.row] = "new"
    /\ Lookup(l) = {}
    /\ work' = [work EXCEPT ![w].phase = "create"]
    /\ raced' = raced \cup {x \in {l} : \E v \in Others(w) : x \in Absent(v)}
    /\ UNCHANGED <<job, staging, ledger, lastTx, cut, removed, partial>>

CreateTransaction(w) ==
    LET c == work[w]
        id == lastTx + 1
    IN
    /\ c.phase = "create"
    /\ id <= MaxTransactions
    /\ lastTx' = id
    /\ ledger' = ledger \cup {[id |-> id, line |-> c.file[c.row].line, job |-> c.job, row |-> c.row]}
    /\ work' = [work EXCEPT ![w].phase = "link", ![w].tx = id]
    /\ UNCHANGED <<job, staging, raced, cut, removed, partial>>

\* Mutants: the row is marked without its target, or without moving on.
LinkRowNoTarget(w) ==
    LET c == work[w] IN
    /\ c.phase = "link"
    /\ staging' = [staging EXCEPT ![<<c.job, c.row>>] = [match |-> "committed", target |-> NoTx]]
    /\ MoveOn(w, FALSE)
    /\ UNCHANGED <<job, ledger, lastTx, raced, cut, removed, partial>>
LinkRowAgain(w) ==
    LET c == work[w] IN
    /\ c.phase = "link"
    /\ staging' = [staging EXCEPT ![<<c.job, c.row>>] = [match |-> "committed", target |-> c.tx]]
    /\ UNCHANGED <<job, ledger, lastTx, work, raced, cut, removed, partial>>

\* The staging row is pointed at the transaction; the direct path creates it
\* here, as a 'new' row.
LinkRow(w) ==
    LET c == work[w] IN
    /\ c.phase = "link"
    /\ staging' = [staging EXCEPT ![<<c.job, c.row>>] =
          [match |-> IF c.kind = "direct" THEN "new" ELSE "committed", target |-> c.tx]]
    /\ MoveOn(w, FALSE)
    /\ UNCHANGED <<job, ledger, lastTx, raced, cut, removed, partial>>

\* Mutant: a commit that got through its rows has succeeded.
FinalStatusThrough(failed) == "SUCCEEDED"

FinalStatus(failed) == IF failed THEN "FAILED" ELSE "SUCCEEDED"

FinishCommit(w) ==
    LET c == work[w] IN
    /\ c.phase = "rows" /\ Done(w)
    /\ job' = [job EXCEPT ![c.job].status = FinalStatus(c.failed)]
    /\ work' = [work EXCEPT ![w] = Free]
    /\ partial' = IF ReadWhole(c) THEN partial \ {c.job} ELSE partial \cup {c.job}
    /\ UNCHANGED <<staging, ledger, lastTx, raced, cut, removed>>

-----------------------------------------------------------------------------
\* One database transaction creates the transactions of the rows in new, in
\* their order.
CreateAll(j, f, new) ==
    /\ lastTx + Cardinality(new) <= MaxTransactions
    /\ lastTx' = lastTx + Cardinality(new)
    /\ ledger' = ledger \cup {[id |-> lastTx + Cardinality({m \in new : m <= n}),
                               line |-> f[n].line, job |-> j, row |-> n] : n \in new}

\* A statement fails or the process dies: what was written stays.
Die(w) ==
    /\ work[w].phase # "idle"
    /\ work' = [work EXCEPT ![w] = Free]
    /\ cut' = cut \cup ({work[w].job} \ {NoJob})
    /\ UNCHANGED <<job, staging, ledger, lastTx, raced, removed, partial>>

\* TransactionService.remove: the row is deleted, staging rows keep its id.
DeleteTransaction(t) ==
    /\ t \in ledger
    /\ lastTx - Cardinality(ledger) < MaxDeletions
    /\ ledger' = ledger \ {t}
    /\ removed' = removed \cup {t.line}
    /\ UNCHANGED <<job, staging, lastTx, work, raced, cut, partial>>

Advance(w) ==
    \/ PreviewRow(w)
    \/ StoreIncomeRows(w)
    \/ FinishPreview(w)
    \/ PassRow(w)
    \/ MarkDuplicate(w)
    \/ FindNothing(w)
    \/ CreateTransaction(w)
    \/ LinkRow(w)
    \/ FinishCommit(w)

Interrupt ==
    \/ \E w \in Workers : Die(w)
    \/ \E t \in ledger : DeleteTransaction(t)

LedgerNext ==
    \E w \in Workers :
        \/ \E j \in Jobs, kind \in Kinds, f \in Files : BeginPreview(w, j, kind, f)
        \/ \E j \in Jobs : BeginCommit(w, j)
        \/ Advance(w)

-----------------------------------------------------------------------------
\* However often a commit dies and is repeated, one hash is booked once, unless
\* two requests looked it up before either inserted it.
BookedOnceUnlessRaced ==
    \A t, u \in ledger : t # u /\ t.line = u.line => t.line \in raced

\* SUCCEEDED is never claimed for a file with a rejected line, or with a line
\* that is not in the ledger though no user deleted it, after any sequence of
\* interrupted and repeated commits; but for a job whose last commit found only
\* part of its rows, while its preview was still storing them or after it died.
SucceededMeansBooked ==
    \A j \in Jobs \ partial : job[j].kind \in FileKinds /\ job[j].status = "SUCCEEDED" =>
        \A n \in DOMAIN job[j].file :
            LET row == job[j].file[n] IN
            ~row.bad /\ Known(row.line)

\* A transaction of a file that its staging row does not point to was left by a
\* request that died, or inserted by two commits of the job at once or around a
\* deletion, or is being linked.
UnlinkedOnlyWhenCut ==
    \A t \in ledger :
        \/ t.job = NoJob \/ job[t.job].kind \notin FileKinds
        \/ staging[<<t.job, t.row>>].target = t.id
        \/ t.job \in cut
        \/ t.line \in raced \cup removed
        \/ \E w \in Workers : work[w].phase = "link" /\ work[w].tx = t.id

\* Some preview of job j has not made its last update.
Previewing(j) == \E w \in Workers : work[w].phase \in {"preview", "stored"} /\ work[w].job = j

\* Repeating the commit of an expense job that succeeded leaves it SUCCEEDED, unless
\* that success was of part of its rows, or its preview has yet to finish.
ExpenseSuccessIsFinal ==
    [][\A j \in Jobs \ partial :
            job[j].kind \in {"expense", "direct"} /\ job[j].status = "SUCCEEDED" /\ ~Previewing(j)
            => job'[j].status = "SUCCEEDED"]_vars

\* A commit that does not die brings its job to SUCCEEDED or FAILED.
CommitSettles ==
    \A j \in Jobs :
        (\E w \in Workers : work[w].job = j /\ work[w].phase = "rows")
            ~> (job[j].status \in {"SUCCEEDED", "FAILED"} \/ j \in cut)
=============================================================================
