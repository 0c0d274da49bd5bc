-------------------------- MODULE BookingImports --------------------------
(***************************************************************************)
(* The imports that book into the ledger beside the store-orders import:   *)
(* files of expenses and income, orders of the SP-API, cash income.  They  *)
(* share the workers, the import jobs and the table of transactions.       *)
(***************************************************************************)
EXTENDS AmazonOrders, CashIncome

Next ==
    \/ LedgerNext
    \/ OrdersNext
    \/ CashNext
    \/ Interrupt

Spec == Init /\ [][Next]_vars

Proceed(w) == Advance(w) \/ AdvanceOrders(w) \/ AdvanceCash(w)

\* The event loop resumes every request whose statement has returned.
FairSpec == Spec /\ \A w \in Workers : WF_vars(Proceed(w))

-----------------------------------------------------------------------------
Statuses == {"NONE", "PENDING", "PROCESSING", "SUCCEEDED", "FAILED"}
Matches == {"new", "duplicate", "error", "committed"}
ReadMatches == Matches \cup {"none"}
CommitPhases == {"rows", "create", "link"}
FilePhases == CommitPhases \cup {"preview", "stored"}
OrderPhases == {"persist", "review", "reviewed", "book"}
AllFiles == Files \cup OrderFiles \cup CashFiles \cup {<<>>}

TypeOK ==
    /\ job \in [Jobs -> [status : Statuses, kind : AllKinds \cup {"none"}, file : AllFiles]]
    /\ staging \in [Rows -> [match : Matches \cup {"none", "pending"}, target : 0..MaxTransactions]]
    /\ \A t \in ledger : t \in [id : 1..lastTx, line : Lines, job : Jobs \cup {NoJob}, row : RowNos]
    /\ lastTx \in 0..MaxTransactions
    /\ work \in [Workers -> [phase : FilePhases \cup OrderPhases \cup {"idle", "cash"},
                            kind : AllKinds \cup {"none", "cash"}, job : Jobs \cup {NoJob},
                            file : AllFiles, matches : Seq(ReadMatches), row : 1..MaxRows + 1,
                            seen : SUBSET Lines, failed : BOOLEAN, tx : 0..lastTx]]
    /\ raced \subseteq Lines /\ cut \subseteq Jobs /\ removed \subseteq Lines
    /\ partial \subseteq Jobs

\* What a job claims is in the ledger: all of a file that SUCCEEDED by a commit of
\* all its rows, all of the orders of a job that has booked one.
ClaimsAreBooked == SucceededMeansBooked /\ BookedTogether

\* What an import leaves half written, it left by dying.
HalfWrittenOnlyWhenCut == UnlinkedOnlyWhenCut /\ RowlessOnlyWhenCut

-----------------------------------------------------------------------------
(* The inductive invariant *)

JobsOfFiles ==
    \A j \in Jobs :
        /\ job[j].kind \in FileKinds => job[j].file \in Files
        /\ job[j].kind = "amazon" => job[j].file \in OrderFiles

\* A request works on the file of its job, with the statuses of its rows.
OnFile(w) ==
    LET c == work[w] IN
    c.phase \in FilePhases =>
        /\ c.job \in Jobs /\ job[c.job].kind \in FileKinds /\ c.kind \in FileKinds
        /\ c.file = job[c.job].file
        /\ Len(c.matches) <= Len(c.file)
        /\ c.phase # "preview" => Len(c.matches) = Len(c.file)
        /\ c.phase \in {"create", "link"} => ~Done(w) /\ c.matches[c.row] = "new"

OnOrders(w) ==
    LET c == work[w] IN
    c.phase \in OrderPhases =>
        /\ c.job \in Jobs /\ job[c.job].kind = "amazon"
        /\ c.file = job[c.job].file
        /\ c.phase # "persist" => \A n \in DOMAIN c.file :
               /\ ~c.file[n].bad
               /\ \A m \in DOMAIN c.file : m # n => c.file[m].line # c.file[n].line
        /\ c.phase = "book" => \A l \in c.seen : Known(l)

OnCash(w) ==
    work[w].phase = "cash" =>
        work[w].file \in CashFiles /\ Len(work[w].matches) <= Len(work[w].file)

\* A preview has its job to itself.
PreviewsAlone ==
    \A w \in Workers : work[w].phase \in {"preview", "stored"} =>
        /\ work[w].kind # "direct" /\ job[work[w].job].kind = work[w].kind
        /\ \A v \in Others(w) : work[v].phase \in {"preview", "stored"} => work[v].job # work[w].job
        /\ work[w].seen \subseteq {work[w].file[n].line : n \in DOMAIN work[w].matches}
        /\ ReadWhole(work[w])

\* The one-step path tells bad rows from new ones only.
DirectRows ==
    \A w \in Workers : work[w].phase \in CommitPhases /\ work[w].kind = "direct" =>
        /\ job[work[w].job].kind = "direct"
        /\ \A n \in DOMAIN work[w].matches :
              work[w].matches[n] = IF work[w].file[n].bad THEN "error" ELSE "new"

\* The rows a preview has yet to store are not there, those a commit has read are.
Staged(j, n) == staging[<<j, n>>].match # "none"
RowsAsRead ==
    \A w \in Workers :
        LET c == work[w] IN
        /\ c.phase = "preview" =>
              \A n \in RowNos : c.kind = "income" \/ n > Len(c.matches) => ~Staged(c.job, n)
        /\ c.phase \in CommitPhases /\ c.kind # "direct" =>
              \A n \in DOMAIN c.matches : c.matches[n] # "none" => Staged(c.job, n)

\* What the status of row n of file f says: the bad rows are the errors, a
\* committed row is in the ledger, a duplicate is in the ledger or above in the file.
Justified(f, n, match) ==
    /\ f[n].bad <=> match = "error"
    /\ match = "committed" => Known(f[n].line)
    /\ match = "duplicate" =>
          Known(f[n].line) \/ \E m \in DOMAIN f : m < n /\ f[m].line = f[n].line

StatusesJustified ==
    /\ \A j \in Jobs : job[j].kind \in FileKinds => \A n \in DOMAIN job[j].file :
          /\ staging[<<j, n>>].match # "pending"
          /\ Staged(j, n) => Justified(job[j].file, n, staging[<<j, n>>].match)
    /\ \A j \in Jobs : job[j].kind = "none" => \A n \in RowNos : ~Staged(j, n)
    /\ \A w \in Workers : work[w].phase \in FilePhases => \A n \in DOMAIN work[w].matches :
          work[w].matches[n] # "none" => Justified(work[w].file, n, work[w].matches[n])

\* A request that read the whole file and counted no error has all rows it passed in
\* the ledger.
PassedRowsKnown ==
    \A w \in Workers :
        LET c == work[w] IN
        /\ c.phase \in CommitPhases /\ ~c.failed /\ ReadWhole(c) =>
              \A n \in DOMAIN c.file : n < c.row => ~c.file[n].bad /\ Known(c.file[n].line)
        /\ c.phase = "link" => Known(c.file[c.row].line)

\* A request that counted an error, other than for income, has a bad row in its
\* file; for income a row committed before is an error too.
FailedOnBadRow ==
    \A w \in Workers :
        LET c == work[w] IN
        c.phase \in CommitPhases =>
            /\ c.kind = "income" <=> job[c.job].kind = "income"
            /\ c.failed /\ c.kind # "income" => \E n \in DOMAIN c.file : c.file[n].bad

\* A transaction of a job is of a row of its file that was not rejected.
TransactionsOfRows ==
    \A t \in ledger : t.job # NoJob =>
        /\ job[t.job].kind \in AllKinds
        /\ job[t.job].kind \in FileKinds =>
              /\ t.row \in DOMAIN job[t.job].file
              /\ t.line = job[t.job].file[t.row].line /\ ~job[t.job].file[t.row].bad
              /\ job[t.job].kind # "direct" => Staged(t.job, t.row)

\* A transaction about to be linked is the one of its row, or deleted.
LinkedNext ==
    \A w \in Workers :
        LET c == work[w] IN
        c.phase = "link" =>
            /\ c.tx > 0
            /\ \A t \in ledger : t.id = c.tx =>
                  t.job = c.job /\ t.row = c.row /\ t.line = c.file[c.row].line
            /\ (\E t \in ledger : t.id = c.tx) \/ c.file[c.row].line \in removed

\* What a request is going to insert is not there, and no one else inserts it.
AbsentUnlessRaced ==
    \A w \in Workers : \A l \in Absent(w) \ raced :
        Booked(l) = {} /\ \A v \in Others(w) : l \notin Absent(v)

IInv ==
    /\ TypeOK
    /\ JobsOfFiles
    /\ \A w \in Workers : OnFile(w) /\ OnOrders(w) /\ OnCash(w)
    /\ PreviewsAlone /\ DirectRows
    /\ RowsAsRead /\ StatusesJustified /\ PassedRowsKnown
    /\ FailedOnBadRow
    /\ TransactionsOfRows /\ LinkedNext
    /\ AbsentUnlessRaced /\ BookedOnceUnlessRaced
    /\ ClaimsAreBooked /\ HalfWrittenOnlyWhenCut
=============================================================================
