------------------------- MODULE StoreOrdersImport -------------------------
(***************************************************************************)
(* The two-step Amazon CSV import of apps/api/src/imports: previewImport   *)
(* stores a job and its staging rows, commitImport turns the 'new' rows    *)
(* into Transaction rows in one database transaction and, for store-orders *)
(* files, deducts stock.  Nothing guards the job status, so a job may be   *)
(* committed again, and by several requests at once.                       *)
(*                                                                         *)
(* READ COMMITTED: a statement reads what is committed when it starts plus *)
(* its own transaction's writes; the writes of a transaction are kept with *)
(* its worker and reach the tables in FinishCommit; rows it has written    *)
(* stay locked until then.  The stock tables are those of Inventory.       *)
(***************************************************************************)
EXTENDS Integers, FiniteSets, Sequences

CONSTANTS
    Jobs,            \* ImportJob rows
    Lines,           \* contents of a CSV line: one dedupe hash each
    LineInfo,        \* per line, [module, month, label, quantity]
    Files,           \* CSV files: sequences of lines of one module
    MaxRows,         \* most lines of a file
    NoMonth,         \* a line whose date cannot be parsed
    NoLabel,         \* a line without a SKU
    DirectSku,       \* labels that are a skuCode or externalSku, to their SKU
    AliasLabels,     \* labels that can only be resolved by an alias
    Workers,         \* import requests in flight at the same time
    Skus, Clients, NoSku, NoIssue, MaxMovements, \* see Inventory
    MaxTransactions, \* bound on the Transaction rows ever created
    NoJob

Modules == {"store-orders", "store-operation"}
Policies == {"skip_existing_months", "replace_existing_months"}
RowNos == 1..MaxRows
Rows == Jobs \X RowNos
TxIds == 1..MaxTransactions
NoTx == 0
Quantities == {LineInfo[l].quantity : l \in Lines}

Month(l) == LineInfo[l].month
ModuleOf(f) == LineInfo[f[1]].module
FileMonths(f) == {Month(f[n]) : n \in DOMAIN f} \ {NoMonth}

ASSUME StoreOrdersImportAssumption ==
    /\ NoSku \notin Skus /\ NoIssue \notin Rows /\ NoJob \notin Jobs
    /\ MaxTransactions \in Nat /\ MaxMovements \in Nat /\ MaxRows \in Nat
    /\ Quantities \subseteq Int
    /\ \A f \in Files :
          /\ f \in Seq(Lines) /\ Len(f) \in RowNos
          /\ \A n \in DOMAIN f : LineInfo[f[n]].module = ModuleOf(f)
    /\ \A label \in DOMAIN DirectSku : DirectSku[label] \in Skus
    /\ DOMAIN DirectSku \cap AliasLabels = {}

VARIABLES
    job,             \* ImportJob: status, file, policy, conflict months
    staging,         \* ImportStagingRow: matchStatus and targetEntityId
    ledger,          \* imported Transaction rows
    lastTx,          \* number of transaction ids handed out
    moves,           \* AMAZON_ORDER_IMPORT rows of InventoryMovement
    aliases,         \* active ProductSkuAlias rows, as <<label, SKU>>
    work,            \* per worker, its request and uncommitted writes
    racedLines,      \* history: lines two open commits both decided to create
    racedRows,       \* history: rows two open commits both decided to deduct
    posted, balance, movements, audit, resolutions, opened, request,
    raced, contested

Inv == INSTANCE Inventory WITH Issues <- Rows

importVars == <<job, staging, ledger, lastTx, moves, aliases, work, racedLines, racedRows>>
stockVars ==
    <<posted, balance, movements, audit, resolutions, opened, request, raced, contested>>
vars == <<importVars, stockVars>>

Unused == [status |-> "NONE", file |-> <<>>, policy |-> "", conflicts |-> {}]
NoRow == [match |-> "none", target |-> NoTx]

\* What a request holds: choice is the decision on the first row of todo,
\* payload the audit status of each row when the commit read it, the rest the
\* writes that FinishCommit publishes; taken is what moved takes from each SKU.
Free ==
    [phase |-> "idle", job |-> NoJob, file |-> <<>>, policy |-> "", conflicts |-> {},
     todo |-> {}, payload |-> [n \in RowNos |-> "NONE"], seen |-> {}, choice |-> "none",
     target |-> NoTx, sku |-> NoSku, gone |-> {}, created |-> {}, moved |-> {},
     taken |-> [s \in Skus |-> 0], targets |-> [n \in {} |-> NoTx], audits |-> [n \in {} |-> "NONE"]]

Others(w) == Workers \ {w}

\* The row a commit is at: rows are taken in the order of their numbers.
RowAt(c) == CHOOSE n \in c.todo : \A m \in c.todo : n <= m

Init ==
    /\ job = [j \in Jobs |-> Unused]
    /\ staging = [r \in Rows |-> NoRow]
    /\ ledger = {}
    /\ lastTx = 0
    /\ moves = {}
    /\ aliases = {}
    /\ work = [w \in Workers |-> Free]
    /\ racedLines = {}
    /\ racedRows = {}
    /\ Inv!Init

-----------------------------------------------------------------------------
(* previewImport *)

\* detectMonthConflicts: months of the file that already hold transactions.
BeginPreview(w, j, f, policy) ==
    /\ work[w].phase = "idle"
    /\ job[j] = Unused
    /\ \A v \in Workers : work[v].job # j
    /\ work' = [work EXCEPT ![w] = [Free EXCEPT
          !.phase = "preview", !.job = j, !.file = f, !.policy = policy,
          !.conflicts = FileMonths(f) \cap {Month(t.line) : t \in ledger}]]
    /\ UNCHANGED <<job, staging, ledger, lastTx, moves, aliases, racedLines, racedRows>>
    /\ UNCHANGED stockVars

\* Mutant: a row that is already in the ledger is a duplicate whatever the policy.
MatchStatusNoReplace(l, conflicts, policy) ==
    IF Month(l) = NoMonth THEN "error"
    ELSE IF Month(l) \in conflicts /\ policy = "skip_existing_months" THEN "conflict"
    ELSE IF \E t \in ledger : t.line = l THEN "duplicate"
    ELSE "new"

\* Mutant: rows of a skipped month get a status the schema does not know.
MatchStatusSkipped(l, conflicts, policy) ==
    IF Month(l) \in conflicts /\ policy = "skip_existing_months" THEN "skipped" ELSE "new"

\* buildStoreOrderPreviewRows, buildStoreOperationPreviewRows
MatchStatus(l, conflicts, policy) ==
    IF Month(l) = NoMonth THEN "error"
    ELSE IF Month(l) \in conflicts /\ policy = "skip_existing_months" THEN "conflict"
    ELSE IF /\ \E t \in ledger : t.line = l
            /\ ~(Month(l) \in conflicts /\ policy = "replace_existing_months")
         THEN "duplicate"
    ELSE "new"

\* The hashes are looked up after the month statistics; then the job and its
\* rows are created together.
FinishPreview(w) ==
    LET p == work[w] IN
    /\ p.phase = "preview"
    /\ job' = [job EXCEPT ![p.job] =
          [status |-> "PENDING", file |-> p.file, policy |-> p.policy, conflicts |-> p.conflicts]]
    /\ staging' = [r \in Rows |->
          IF r[1] = p.job /\ r[2] \in DOMAIN p.file
          THEN [match |-> MatchStatus(p.file[r[2]], p.conflicts, p.policy), target |-> NoTx]
          ELSE staging[r]]
    /\ work' = [work EXCEPT ![w] = Free]
    /\ UNCHANGED <<ledger, lastTx, moves, aliases, racedLines, racedRows>>
    /\ UNCHANGED stockVars

-----------------------------------------------------------------------------
(* commitImport *)

\* Mutant: replace deletes the months of every module.
ReplaceableAnyModule(j) == {t \in ledger : Month(t.line) \in job[j].conflicts}

\* buildPreciseReplaceWhere: this module's imported rows of the months that
\* were in conflict when the job was previewed.
Replaceable(j) ==
    {t \in ledger : /\ Month(t.line) \in job[j].conflicts
                    /\ LineInfo[t.line].module = ModuleOf(job[j].file)}

\* The rows marked 'new'.
NewRows(j) == {n \in DOMAIN job[j].file : staging[<<j, n>>].match = "new"}

\* The job and its 'new' rows are read and the deleteMany starts: its target
\* rows are fixed now, even if it then waits for the locks of another commit.
BeginCommit(w, j, policy) ==
    /\ work[w].phase = "idle"
    /\ job[j] # Unused
    /\ work' = [work EXCEPT ![w] = [Free EXCEPT
          !.phase = "delete", !.job = j, !.file = job[j].file, !.policy = policy,
          !.conflicts = job[j].conflicts, !.todo = NewRows(j),
          !.payload = [n \in RowNos |-> audit[<<j, n>>]],
          !.gone = IF policy = "replace_existing_months"
                   THEN {t.id : t \in Replaceable(j)} ELSE {}]]
    /\ UNCHANGED <<job, staging, ledger, lastTx, moves, aliases, racedLines, racedRows>>
    /\ UNCHANGED stockVars

\* Ids a commit has deleted and so keeps locked.
DeletedBy(v) == IF work[v].phase = "delete" THEN {} ELSE work[v].gone

DeleteReplaced(w) ==
    /\ work[w].phase = "delete"
    /\ \A v \in Others(w) : DeletedBy(v) \cap work[w].gone = {}
    /\ work' = [work EXCEPT ![w].phase = "rows", ![w].gone = @ \cap {t.id : t \in ledger}]
    /\ UNCHANGED <<job, staging, ledger, lastTx, moves, aliases, racedLines, racedRows>>
    /\ UNCHANGED stockVars

\* What the statements of this commit see of the Transaction table.
Visible(w) == {t \in ledger : t.id \notin work[w].gone} \cup work[w].created

\* Mutant: the lookup is restricted to the job.
ExistingInJob(w, l) == {t \in Visible(w) : t.line = l /\ t.job = work[w].job}

\* The lookup by dedupeHash.
Existing(w, l) == {t \in Visible(w) : t.line = l}

\* A row that is not imported: repeated in the file, in a conflict month, or
\* already in the table; the latter remembers the transaction found.
SkipRow(w) ==
    LET c == work[w]
        l == c.file[RowAt(c)]
        conflict == c.policy = "skip_existing_months" /\ Month(l) \in c.conflicts
    IN
    /\ c.phase = "rows" /\ c.todo # {}
    /\ \/ /\ l \in c.seen \/ conflict
          /\ work' = [work EXCEPT ![w].phase = "write", ![w].choice = "skip",
                                  ![w].seen = @ \cup {l}]
       \/ /\ l \notin c.seen /\ ~conflict
          /\ \E t \in Existing(w, l) :
                work' = [work EXCEPT ![w].phase = "write", ![w].choice = "existing",
                                     ![w].target = t.id, ![w].seen = @ \cup {l}]
    /\ UNCHANGED <<job, staging, ledger, lastTx, moves, aliases, racedLines, racedRows>>
    /\ UNCHANGED stockVars

\* No visible transaction has the hash: the Transaction row is inserted.
CreateRow(w) ==
    LET c == work[w]
        n == RowAt(c)
        l == c.file[n]
        id == lastTx + 1
    IN
    /\ c.phase = "rows" /\ c.todo # {}
    /\ l \notin c.seen
    /\ ~(c.policy = "skip_existing_months" /\ Month(l) \in c.conflicts)
    /\ Existing(w, l) = {}
    /\ lastTx < MaxTransactions
    /\ lastTx' = id
    /\ work' = [work EXCEPT
          ![w].phase = IF ModuleOf(c.file) = "store-orders" THEN "deduct" ELSE "write",
          ![w].choice = "create", ![w].target = id, ![w].seen = @ \cup {l},
          ![w].created = @ \cup {[id |-> id, line |-> l, job |-> c.job, row |-> n]}]
    /\ racedLines' = IF \E v \in Others(w) : \E t \in work[v].created : t.line = l
                     THEN racedLines \cup {l} ELSE racedLines
    /\ UNCHANGED <<job, staging, ledger, moves, aliases, racedRows>>
    /\ UNCHANGED stockVars

-----------------------------------------------------------------------------
(* applyStoreOrderInventoryDeduction, in the same database transaction *)

\* SKUs a label resolves to: a direct match wins, else any active alias.
Resolved(label) ==
    IF label \in DOMAIN DirectSku THEN {DirectSku[label]}
    ELSE {s \in Skus : <<label, s>> \in aliases}

\* Mutants: the check looks at the SKU only, or only at movements whose
\* transaction still exists.
AlreadyDeductedSku(j, n, s) == \E m \in moves : m.sku = s
AlreadyDeductedLive(j, n, s) ==
    \E m \in moves : m.job = j /\ m.row = n /\ m.sku = s /\ \E t \in ledger : t.id = m.tx

\* Movements of this staging row on SKU s, the duplicate check of the code.
AlreadyDeducted(j, n, s) == \E m \in moves : m.job = j /\ m.row = n /\ m.sku = s

\* The open commit of v has deducted this row, or decided to.
Deducts(v, j, n) ==
    /\ work[v].job = j
    /\ \/ \E m \in work[v].moved : m.row = n
       \/ work[v].choice = "deduct" /\ RowAt(work[v]) = n

Decide(w, choice, s) ==
    work' = [work EXCEPT ![w].phase = "write", ![w].choice = choice, ![w].sku = s]

DecideDeduction(w) ==
    LET c == work[w]
        n == RowAt(c)
        line == LineInfo[c.file[n]]
    IN
    /\ c.phase = "deduct"
    /\ \/ /\ line.label = NoLabel
          /\ Decide(w, "unresolved", NoSku)
          /\ UNCHANGED racedRows
       \/ /\ line.label # NoLabel /\ line.quantity = 0
          /\ Decide(w, "create", NoSku)
          /\ UNCHANGED racedRows
       \/ /\ line.label # NoLabel /\ line.quantity # 0 /\ Resolved(line.label) = {}
          /\ Decide(w, "unresolved", NoSku)
          /\ UNCHANGED racedRows
       \/ /\ line.label # NoLabel /\ line.quantity # 0
          /\ \E s \in Resolved(line.label) :
                \/ /\ AlreadyDeducted(c.job, n, s)
                   /\ Decide(w, "create", NoSku)
                   /\ UNCHANGED racedRows
                \/ /\ ~AlreadyDeducted(c.job, n, s)
                   /\ Decide(w, "deduct", s)
                   /\ racedRows' = IF \E v \in Others(w) : Deducts(v, c.job, n)
                                   THEN racedRows \cup {<<c.job, n>>} ELSE racedRows
    /\ UNCHANGED <<job, staging, ledger, lastTx, moves, aliases, racedLines>>
    /\ UNCHANGED stockVars

\* Rows whose locks open transactions hold: balances and staging rows.
LocksSku(v, s) == \E m \in work[v].moved : m.sku = s
LocksRow(v, r) == work[v].job = r[1] /\ r[2] \in DOMAIN work[v].targets

\* The movement that a commit creates for its row n.
Movement(c, n) == [job |-> c.job, row |-> n, sku |-> c.sku, tx |-> c.target]

Put(f, n, value) == [k \in DOMAIN f \cup {n} |-> IF k = n THEN value ELSE f[k]]

\* The movement, the balance increment and the update of the staging row.  A
\* deducted row gets back the payload read by BeginCommit, an unresolved one an
\* OPEN audit; a skipped one keeps its target.
WriteRow(w) ==
    LET c == work[w]
        n == RowAt(c)
        quantity == LineInfo[c.file[n]].quantity
    IN
    /\ c.phase = "write"
    /\ \A v \in Others(w) : ~LocksRow(v, <<c.job, n>>) /\ ~LocksSku(v, c.sku)
    /\ work' = [work EXCEPT ![w] = [c EXCEPT
          !.phase = "rows", !.todo = @ \ {n}, !.choice = "none",
          !.target = NoTx, !.sku = NoSku,
          !.moved = IF c.choice = "deduct" THEN @ \cup {Movement(c, n)} ELSE @,
          !.taken = IF c.choice = "deduct"
                   THEN [@ EXCEPT ![c.sku] = c.taken[c.sku] + quantity] ELSE @,
          !.targets = Put(@, n, IF c.choice = "skip" THEN staging[<<c.job, n>>].target ELSE c.target),
          !.audits = CASE c.choice = "deduct" -> Put(@, n, c.payload[n])
                       [] c.choice = "unresolved" -> Put(@, n, "OPEN")
                       [] OTHER -> @]]
    /\ UNCHANGED <<job, staging, ledger, lastTx, moves, aliases, racedLines, racedRows>>
    /\ UNCHANGED stockVars

\* All rows are done: job SUCCEEDED, everything becomes visible together.
FinishCommit(w) ==
    LET c == work[w] IN
    /\ c.phase = "rows" /\ c.todo = {}
    /\ ledger' = Visible(w)
    /\ moves' = moves \cup c.moved
    /\ staging' = [r \in Rows |->
          IF r[1] = c.job /\ r[2] \in DOMAIN c.targets
          THEN [staging[r] EXCEPT !.target = c.targets[r[2]]] ELSE staging[r]]
    /\ job' = [job EXCEPT ![c.job].status = "SUCCEEDED", ![c.job].policy = c.policy]
    /\ Inv!ImportCommit(c.taken, Cardinality(c.moved),
          [r \in {c.job} \X DOMAIN c.audits |-> c.audits[r[2]]])
    /\ work' = [work EXCEPT ![w] = Free]
    /\ UNCHANGED <<lastTx, aliases, racedLines, racedRows>>

\* Error, deadlock victim, transaction timeout or crash: nothing is kept.
Rollback(w) ==
    /\ work[w].phase # "idle"
    /\ work' = [work EXCEPT ![w] = Free]
    /\ UNCHANGED <<job, staging, ledger, lastTx, moves, aliases, racedLines, racedRows>>
    /\ UNCHANGED stockVars

-----------------------------------------------------------------------------
(* The other requests that touch these tables *)

\* TransactionService.remove: one ledger row is deleted, nothing else.
DeleteTransaction(t) ==
    /\ t \in ledger
    /\ \A w \in Workers : t.id \notin DeletedBy(w)
    /\ ledger' = ledger \ {t}
    /\ UNCHANGED <<job, staging, lastTx, moves, aliases, work, racedLines, racedRows>>
    /\ UNCHANGED stockVars

\* createProductSkuAlias: a new active alias (other stores may have their own),
\* or an existing one re-pointed or deactivated.
EditAlias(label, old, new) ==
    /\ old \subseteq {a \in aliases : a[1] = label} /\ Cardinality(old) <= 1
    /\ old # new
    /\ aliases' = (aliases \ old) \cup new
    /\ UNCHANGED <<job, staging, ledger, lastTx, moves, work, racedLines, racedRows>>
    /\ UNCHANGED stockVars

\* resolveAuditIssue on a staging row, with the quantity recorded there; its
\* writes wait for the locks of open commits.
ResolveAudit(c) ==
    /\ \E r \in Rows, s \in Skus :
          \/ /\ job[r[1]] # Unused /\ r[2] \in DOMAIN job[r[1]].file
             /\ Inv!BeginResolve(c, r, s, LineInfo[job[r[1]].file[r[2]]].quantity)
          \/ Inv!ReadBalanceForResolve(c, s)
          \/ /\ \A w \in Workers : ~LocksSku(w, s) /\ ~LocksRow(w, r)
             /\ Inv!CommitResolve(c, r, s)
    /\ UNCHANGED importVars

ImportNext ==
    \E w \in Workers :
        \/ \E j \in Jobs, f \in Files, p \in Policies : BeginPreview(w, j, f, p)
        \/ FinishPreview(w)
        \/ \E j \in Jobs, p \in Policies : BeginCommit(w, j, p)
        \/ DeleteReplaced(w)
        \/ SkipRow(w)
        \/ CreateRow(w)
        \/ DecideDeduction(w)
        \/ WriteRow(w)
        \/ FinishCommit(w)
        \/ Rollback(w)

Next ==
    \/ ImportNext
    \/ \E t \in ledger : DeleteTransaction(t)
    \/ \E label \in AliasLabels :
          \E old, new \in {{}} \cup {{<<label, s>>} : s \in Skus} : EditAlias(label, old, new)
    \/ \E c \in Clients : ResolveAudit(c)

Spec == Init /\ [][Next]_vars

-----------------------------------------------------------------------------
Months == {Month(l) : l \in Lines}
Matches == {"none", "new", "duplicate", "conflict", "error"}
Transactions == [id : TxIds, line : Lines, job : Jobs, row : RowNos]
Moves == [job : Jobs, row : RowNos, sku : Skus, tx : TxIds]
CommitPhases == {"delete", "rows", "deduct", "write"}

Requests ==
    [phase : {"idle", "preview"} \cup CommitPhases, job : Jobs \cup {NoJob},
     file : Files \cup {<<>>}, policy : Policies \cup {""}, conflicts : SUBSET Months,
     todo : SUBSET RowNos, payload : [RowNos -> Inv!AuditStatus], seen : SUBSET Lines,
     choice : {"none", "skip", "existing", "create", "unresolved", "deduct"},
     target : TxIds \cup {NoTx}, sku : Skus \cup {NoSku}, gone : SUBSET TxIds,
     created : SUBSET Transactions, moved : SUBSET Moves, taken : [Skus -> Int],
     targets : UNION {[R -> TxIds \cup {NoTx}] : R \in SUBSET RowNos},
     audits : UNION {[R -> Inv!AuditStatus] : R \in SUBSET RowNos}]

TypeOK ==
    /\ job \in [Jobs -> [status : {"NONE", "PENDING", "SUCCEEDED"}, file : Files \cup {<<>>},
                         policy : Policies \cup {""}, conflicts : SUBSET Months]]
    /\ staging \in [Rows -> [match : Matches, target : TxIds \cup {NoTx}]]
    /\ ledger \in SUBSET Transactions
    /\ lastTx \in 0..MaxTransactions
    /\ moves \in SUBSET Moves
    /\ aliases \subseteq AliasLabels \X Skus
    /\ work \in [Workers -> Requests]
    /\ \A w \in Workers : IsFiniteSet(work[w].moved)
    /\ racedLines \subseteq Lines /\ racedRows \subseteq Rows
    /\ Inv!TypeOK

\* Two transactions carry the same dedupe hash only if two commits that were
\* open together both looked it up before either committed: the lookup of
\* commitImport is all that stands for a unique index on dedupeHash.
SameHashOnlyByOverlap ==
    \A t, u \in ledger : t # u /\ t.line = u.line => t.line \in racedLines

\* The duplicate check of the deduction keeps one movement per staging row and
\* SKU, across recommits, unless two open commits of the job both passed it.
OneMovementPerRowAndSku ==
    \A m, n \in moves :
        m # n /\ m.job = n.job /\ m.row = n.row /\ m.sku = n.sku
            => <<m.job, m.row>> \in racedRows

\* Every imported order line with a quantity has left a trace in the stock
\* tables: a movement of its staging row, or an audit issue on it.
NoOrderSilentlyUndeducted ==
    \A t \in ledger :
        LineInfo[t.line].module = "store-orders" /\ LineInfo[t.line].quantity # 0
            => \/ \E m \in moves : m.job = t.job /\ m.row = t.row
               \/ audit[<<t.job, t.row>>] # "NONE"

-----------------------------------------------------------------------------
(* Action properties *)

Alone(w) == \A v \in Others(w) : work[v].phase = "idle"

\* A row of line l was found in the ledger and not created.
Found(c, l) ==
    \E n \in DOMAIN c.targets :
        c.file[n] = l /\ c.targets[n] # NoTx /\ \A t \in c.created : t.id # c.targets[n]

\* A commit whose policy and preview policy are both replace leaves every line
\* of the file that falls in a replaced month in the ledger, whatever happened
\* since the preview: what deleteMany removed is imported again.  Only a line
\* that another commit inserted after that, and this one found, may be gone.
ReplaceReimports ==
    [][\A w \in Workers :
        LET c == work[w] IN
        /\ FinishCommit(w)
        /\ c.policy = "replace_existing_months"
        /\ job[c.job].policy = "replace_existing_months"
        /\ job[c.job].status = "PENDING"
        => \A n \in DOMAIN c.file :
              Month(c.file[n]) \in c.conflicts
                  => Found(c, c.file[n]) \/ \E t \in ledger' : t.line = c.file[n]]_vars

\* A commit leaves the other module's transactions, and the months outside its
\* file, as they were.
CommitStaysInFile ==
    [][\A w \in Workers :
        FinishCommit(w) =>
            \A t \in (ledger \ ledger') \cup (ledger' \ ledger) :
                /\ LineInfo[t.line].module = ModuleOf(work[w].file)
                /\ Month(t.line) \in FileMonths(work[w].file)]_vars

-----------------------------------------------------------------------------
(* The inductive invariant *)

\* What the preview found still describes the job; in its first commit, a row
\* of a month to be replaced is new.
JobFits(j) ==
    job[j] # Unused =>
        /\ job[j].file \in Files /\ job[j].conflicts \subseteq FileMonths(job[j].file)
        /\ \A n \in DOMAIN job[j].file :
              /\ staging[<<j, n>>].match = "new" => Month(job[j].file[n]) # NoMonth
              /\ /\ job[j].status = "PENDING" /\ job[j].policy = "replace_existing_months"
                 /\ Month(job[j].file[n]) \in job[j].conflicts
                 => staging[<<j, n>>].match = "new"

\* A request works for its job: a preview creates it, alone; a commit has what
\* it read of it, and the rows it has not come to are new ones.
RequestFits(w) ==
    LET c == work[w] IN
    /\ c.phase = "preview" =>
          /\ c.job \in Jobs /\ job[c.job] = Unused /\ c.policy \in Policies
          /\ c.file \in Files /\ c.conflicts \subseteq FileMonths(c.file)
          /\ \A v \in Others(w) : work[v].phase = "preview" => work[v].job # c.job
    /\ c.phase \in CommitPhases =>
          /\ c.job \in Jobs /\ job[c.job] # Unused /\ c.policy \in Policies
          /\ c.file = job[c.job].file /\ c.conflicts = job[c.job].conflicts
          /\ c.todo \subseteq NewRows(c.job)
    /\ c.phase \in {"deduct", "write"} => c.todo # {} /\ c.file[RowAt(c)] \in c.seen
    /\ c.phase \in {"idle", "preview", "delete"} =>
          c.created = {} /\ c.moved = {} /\ c.seen = {} /\ DOMAIN c.audits = {}
    /\ c.phase \in {"idle", "preview"} => c.gone = {}
    /\ CASE c.phase = "write" -> c.choice # "none"
         [] c.phase = "deduct" -> c.choice = "create"
         [] OTHER -> c.choice = "none"
    /\ c.choice = "deduct" => c.sku \in Skus
    /\ c.choice \notin {"none", "skip"} => c.target \in 1..lastTx

\* What a commit has created and moved is of rows of its job that it is done with.
WritesFit(w) ==
    LET c == work[w] IN
    /\ \A t \in c.created :
          /\ t.job = c.job /\ t.row \in DOMAIN c.file /\ t.line = c.file[t.row]
          /\ Month(t.line) # NoMonth /\ t.line \in c.seen
          /\ t.row \in c.todo => c.phase \in {"deduct", "write"} /\ t.row = RowAt(c)
    /\ \A m \in c.moved : m.job = c.job /\ m.row \notin c.todo
    /\ \A m, n \in c.moved : m.row = n.row => m = n
    /\ DOMAIN c.targets \cap c.todo = {}

\* Transaction ids are unique, also those not committed yet; what a commit
\* deletes was committed.
LedgerIds ==
    /\ \A t \in ledger : t.id \in 1..lastTx
    /\ \A t, u \in ledger : t.id = u.id => t = u
    /\ \A r \in Rows : staging[r].target <= lastTx

IdsFit(w) ==
    LET c == work[w] IN
    /\ \A t \in c.created : t.id \in 1..lastTx /\ \A u \in ledger : t.id # u.id
    /\ \A t, u \in c.created : t.id = u.id => t = u
    /\ \A v \in Workers : \A t \in work[v].created : t.id \notin c.gone
    /\ \A v \in Workers : \A t \in c.created : t.id \notin work[v].gone
    /\ \A v \in Others(w) : \A u \in work[v].created : \A t \in c.created : t.id # u.id
    /\ c.gone \subseteq 1..lastTx
    /\ \A n \in DOMAIN c.targets : c.targets[n] <= lastTx

\* A commit deletes transactions of its own module and months.
GoneFits(w) ==
    \A t \in ledger :
        t.id \in work[w].gone =>
            /\ LineInfo[t.line].module = ModuleOf(work[w].file)
            /\ Month(t.line) \in work[w].conflicts

\* A line an open commit has created is in the ledger, or created by another, only
\* if it deletes it or the line was raced for.
LinesFit(w) ==
    \A t \in work[w].created :
        /\ \A u \in ledger :
              u.line = t.line => u.id \in work[w].gone \/ t.line \in racedLines
        /\ \A u \in work[w].created : u.line = t.line => u = t
        /\ \A v \in Others(w) : \A u \in work[v].created : u.line = t.line => t.line \in racedLines

\* A row that an open commit deducts, or is about to, from a SKU has no movement
\* on it and is not another's to deduct, unless it was raced for.
DeductionsFit(w) ==
    LET c == work[w] IN
    \A r \in RowNos : Deducts(w, c.job, r) =>
        \/ <<c.job, r>> \in racedRows
        \/ /\ \A v \in Others(w) : ~Deducts(v, c.job, r)
           /\ \A m \in moves : m.job = c.job /\ m.row = r =>
                 /\ \A n \in c.moved : n.row = r => m.sku # n.sku
                 /\ c.choice = "deduct" /\ RowAt(c) = r => m.sku # c.sku

\* An order line with a quantity.
Deductible(l) == LineInfo[l].module = "store-orders" /\ LineInfo[l].quantity # 0

\* An order a commit has created has its trace, or gets it when its row is done.
TracesFit(w) ==
    LET c == work[w] IN
    /\ \A t \in c.created : Deductible(t.line) =>
          \/ t.row \in c.todo /\ (c.phase = "deduct" \/ c.choice \in {"unresolved", "deduct"})
          \/ t.row \in DOMAIN c.audits /\ c.audits[t.row] = "OPEN"
          \/ \E m \in c.moved \cup moves : m.job = c.job /\ m.row = t.row
    /\ \A n \in DOMAIN c.audits : c.audits[n] = "OPEN" \/ \E m \in c.moved : m.row = n

\* The lines a replacing commit has come to are created, or found.
ReimportsFit(w) ==
    LET c == work[w] IN
    c.phase \in CommitPhases /\ c.policy = "replace_existing_months" =>
        /\ \A n \in NewRows(c.job) \ c.todo : c.file[n] \in c.seen
        /\ \A l \in c.seen :
              \/ \E t \in c.created : t.line = l
              \/ Found(c, l)
              \/ /\ c.choice = "existing" /\ c.file[RowAt(c)] = l
                 /\ \A t \in c.created : t.id # c.target

Fits(w) ==
    RequestFits(w) /\ WritesFit(w) /\ IdsFit(w) /\ GoneFits(w) /\ LinesFit(w)
    /\ DeductionsFit(w) /\ TracesFit(w) /\ ReimportsFit(w)

IInv ==
    /\ TypeOK /\ Inv!IInv
    /\ LedgerIds
    /\ \A j \in Jobs : JobFits(j)
    /\ \A w \in Workers : Fits(w)
    /\ SameHashOnlyByOverlap /\ OneMovementPerRowAndSku /\ NoOrderSilentlyUndeducted

-----------------------------------------------------------------------------
(* What the documents promise *)

\* STEP110_N, "Do not deduct inventory twice for the same import row": import
\* and audit resolution together deduct a staging row at most once.
RowDeductedOnce ==
    \A r \in Rows :
        Cardinality({m \in moves : m.job = r[1] /\ m.row = r[2]}) + resolutions[r] <= 1

\* STEP110_A, "Never deduct inventory twice for the same imported order line":
\* one line of an export, however often it is imported, leaves at most one
\* movement.
LineDeductedOnce ==
    \A m, n \in moves : job[m.job].file[m.row] = job[n.job].file[n.row] => m = n

\* ImportMonthConflictDialog, replace_existing_months "deletes the old data of
\* the conflict months, then imports the file's months again".
ReplaceReimportsFile ==
    [][\A w \in Workers :
        FinishCommit(w) /\ Alone(w) /\ work[w].policy = "replace_existing_months" =>
            \A n \in DOMAIN work[w].file :
                Month(work[w].file[n]) \in work[w].conflicts
                    => \E t \in ledger' : t.line = work[w].file[n]]_vars
=============================================================================
