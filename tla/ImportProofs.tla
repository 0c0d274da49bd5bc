---------------------------- MODULE ImportProofs ----------------------------
(***************************************************************************)
(* The imports that book into the ledger keep the inductive invariant of   *)
(* BookingImports - for every number of requests, jobs, files and lines.   *)
(***************************************************************************)
EXTENDS BookingImports, FiniteSetTheorems, TLAPS

\* What the provers need to know of a sequence.
LEMMA SeqFacts ==
    ASSUME NEW S, NEW s \in Seq(S)
    PROVE  /\ Len(s) \in Nat /\ DOMAIN s = 1..Len(s)
           /\ \A n \in 1..Len(s) : s[n] \in S
OBVIOUS

\* The rows of a file are numbered from 1.
LEMMA FilesAreSequences ==
    ASSUME NEW f \in AllFiles
    PROVE  /\ DOMAIN f = 1..Len(f) /\ Len(f) \in 0..MaxRows
           /\ DOMAIN f \subseteq RowNos
           /\ \A n \in DOMAIN f : f[n].line \in Lines
<1>. DEFINE R == [line : Lines, bad : BOOLEAN]
            O == [line : Lines, bad : BOOLEAN, free : BOOLEAN]
<1>0. MaxRows \in Nat
  BY LedgerImportAssumption
<1>1. CASE f \in Seq(R) \cup Seq(O) /\ Len(f) \in RowNos
  <2>1. DOMAIN f = 1..Len(f) /\ \A n \in DOMAIN f : f[n] \in R \cup O
    BY <1>1, SeqFacts
  <2>2. \A r \in R \cup O : r.line \in Lines
    OBVIOUS
  <2>. HIDE DEF R, O
  <2>. QED
    BY <1>0, <1>1, <2>1, <2>2 DEF RowNos
<1>2. CASE f = <<>>
  BY <1>0, <1>2
<1>3. CASE f \in Files \cup OrderFiles \cup CashFiles
  BY <1>1, <1>3, LedgerImportAssumption, AmazonOrdersAssumption, CashIncomeAssumption
<1>. QED
  BY <1>2, <1>3 DEF AllFiles

\* A function on 1..k is a sequence.
LEMMA FunctionIsSeq ==
    ASSUME NEW S, NEW k \in Nat, NEW g \in [1..k -> S]
    PROVE  g \in Seq(S) /\ Len(g) = k
OBVIOUS

\* What is known stays known: a transaction that is deleted leaves its line.
LEMMA KnownKept == [Next]_vars => \A l : Known(l) => Known(l)'
<1>. SUFFICES ASSUME [Next]_vars PROVE \A l : Known(l) => Known(l)'
  OBVIOUS
<1>. USE DEF Known, Booked
<1>1. ASSUME NEW t \in ledger, DeleteTransaction(t) PROVE \A l : Known(l) => Known(l)'
  BY <1>1 DEF DeleteTransaction
<1>2. ASSUME ledger \subseteq ledger', removed \subseteq removed'
      PROVE  \A l : Known(l) => Known(l)'
  BY <1>2
<1>3. ASSUME LedgerNext PROVE ledger \subseteq ledger' /\ removed \subseteq removed'
  <2>1. ASSUME NEW w \in Workers, NEW kind \in Kinds, NEW j \in Jobs, NEW f \in Files,
               BeginPreview(w, j, kind, f)
        PROVE  ledger \subseteq ledger' /\ removed \subseteq removed'
    BY <2>1 DEF BeginPreview
  <2>2. ASSUME NEW w \in Workers, NEW j \in Jobs, BeginCommit(w, j)
        PROVE  ledger \subseteq ledger' /\ removed \subseteq removed'
    BY <2>2 DEF BeginCommit
  <2>3. ASSUME NEW w \in Workers,
               PreviewRow(w) \/ StoreIncomeRows(w) \/ FinishPreview(w) \/ PassRow(w)
        PROVE  ledger \subseteq ledger' /\ removed \subseteq removed'
    <3>1. CASE PreviewRow(w)
      BY <3>1 DEF PreviewRow
    <3>2. CASE StoreIncomeRows(w)
      BY <3>2 DEF StoreIncomeRows
    <3>3. CASE FinishPreview(w)
      BY <3>3 DEF FinishPreview
    <3>4. CASE PassRow(w)
      BY <3>4 DEF PassRow
    <3>. QED
      BY <2>3, <3>1, <3>2, <3>3, <3>4
  <2>4. ASSUME NEW w \in Workers,
               MarkDuplicate(w) \/ FindNothing(w) \/ LinkRow(w) \/ FinishCommit(w)
        PROVE  ledger \subseteq ledger' /\ removed \subseteq removed'
    <3>1. CASE MarkDuplicate(w)
      BY <3>1 DEF MarkDuplicate
    <3>2. CASE FindNothing(w)
      BY <3>2 DEF FindNothing
    <3>3. CASE LinkRow(w)
      BY <3>3 DEF LinkRow
    <3>4. CASE FinishCommit(w)
      BY <3>4 DEF FinishCommit
    <3>. QED
      BY <2>4, <3>1, <3>2, <3>3, <3>4
  <2>5. ASSUME NEW w \in Workers, CreateTransaction(w)
        PROVE  ledger \subseteq ledger' /\ removed \subseteq removed'
    BY SMTT(30), <2>5 DEF CreateTransaction
  <2>. QED
    BY <1>3, <2>1, <2>2, <2>3, <2>4, <2>5, Zenon DEF LedgerNext, Advance
<1>4. ASSUME OrdersNext PROVE ledger \subseteq ledger' /\ removed \subseteq removed'
  BY ZenonT(60), <1>4 DEF OrdersNext, AdvanceOrders, PersistJob, ReviewOrders, PersistRows, ReviewStock,
      LookupOrders, BookOrders, CreateAll
<1>5. ASSUME CashNext PROVE ledger \subseteq ledger' /\ removed \subseteq removed'
  BY <1>5 DEF CashNext, AdvanceCash, BeginCash, CashRow, CommitCash, CreateAll
<1>6. ASSUME NEW w \in Workers, Die(w) PROVE ledger \subseteq ledger' /\ removed \subseteq removed'
  BY <1>6 DEF Die
<1>7. ASSUME UNCHANGED vars PROVE ledger \subseteq ledger' /\ removed \subseteq removed'
  BY <1>7 DEF vars
<1>. QED
  BY <1>1, <1>2, <1>3, <1>4, <1>5, <1>6, <1>7 DEF Next, Interrupt

\* A job keeps its kind and its file.
LEMMA JobsKept ==
    TypeOK /\ [Next]_vars =>
        \A j \in Jobs : job[j].kind # "none" =>
            job'[j].kind = job[j].kind /\ job'[j].file = job[j].file
<1>. SUFFICES ASSUME TypeOK, [Next]_vars, NEW j \in Jobs, job[j].kind # "none"
              PROVE  job'[j].kind = job[j].kind /\ job'[j].file = job[j].file
  OBVIOUS
<1>0. job \in [Jobs -> [status : Statuses, kind : AllKinds \cup {"none"}, file : AllFiles]]
  BY DEF TypeOK
<1>1. ASSUME NEW w \in Workers, NEW i \in Jobs, NEW kind \in Kinds, NEW f \in Files,
             BeginPreview(w, i, kind, f)
      PROVE  job'[j] = job[j]
  BY <1>0, <1>1 DEF BeginPreview, Unused
<1>2. ASSUME NEW w \in Workers, NEW i \in Jobs, NEW f \in OrderFiles, PersistJob(w, i, f)
      PROVE  job'[j] = job[j]
  BY <1>0, <1>2 DEF PersistJob, Unused
<1>3. ASSUME NEW w \in Workers, FinishPreview(w)
      PROVE  job'[j].kind = job[j].kind /\ job'[j].file = job[j].file
  BY <1>0, <1>3 DEF FinishPreview
<1>4. ASSUME NEW w \in Workers, FinishCommit(w)
      PROVE  job'[j].kind = job[j].kind /\ job'[j].file = job[j].file
  <2>1. \E status : job' = [job EXCEPT ![work[w].job].status = status]
    BY <1>4 DEF FinishCommit
  <2>. QED
    BY <1>0, <2>1
<1>5. ASSUME NEW w \in Workers,
             \/ PersistRows(w)
             \/ \E i \in Jobs : BeginCommit(w, i) \/ ReviewOrders(w, i)
             \/ PreviewRow(w) \/ StoreIncomeRows(w) \/ PassRow(w) \/ MarkDuplicate(w)
             \/ FindNothing(w) \/ CreateTransaction(w) \/ LinkRow(w)
             \/ ReviewStock(w) \/ LookupOrders(w) \/ BookOrders(w)
             \/ CashRow(w) \/ CommitCash(w) \/ \E f \in CashFiles : BeginCash(w, f)
             \/ Die(w) \/ \E t \in ledger : DeleteTransaction(t)
      PROVE  job' = job
  BY <1>5 DEF PersistRows, BeginCommit, ReviewOrders, PreviewRow, StoreIncomeRows, PassRow, MarkDuplicate,
      FindNothing, CreateTransaction, LinkRow, ReviewStock, LookupOrders, BookOrders, CashRow,
      CommitCash, BeginCash, Die, DeleteTransaction
<1>. QED
  BY <1>1, <1>2, <1>3, <1>4, <1>5
     DEF Next, LedgerNext, Advance, OrdersNext, AdvanceOrders, CashNext, AdvanceCash, Interrupt,
         DeleteTransaction, vars

\* A file being staged stays staged.
LEMMA StagedKept ==
    IInv /\ [Next]_vars =>
        \A j \in Jobs, n \in RowNos : Staged(j, n) => Staged(j, n)'
<1>. SUFFICES ASSUME IInv, [Next]_vars, NEW j \in Jobs, NEW n \in RowNos, Staged(j, n)
              PROVE  Staged(j, n)'
  OBVIOUS
<1>. USE DEF Staged
<1>0. /\ staging \in [Jobs \X RowNos -> [match : Matches \cup {"none", "pending"}, target : 0..MaxTransactions]]
      /\ \A w \in Workers : work[w].matches \in Seq(ReadMatches)
      /\ "none" \notin Matches /\ ReadMatches = Matches \cup {"none"}
  BY DEF IInv, TypeOK, Rows, Matches, ReadMatches
<1>a. ASSUME NEW r, NEW m, NEW t, m # "none",
             staging' = [staging EXCEPT ![r] = [match |-> m, target |-> t]]
      PROVE  Staged(j, n)'
  <2>1. staging'[<<j, n>>] = staging[<<j, n>>] \/ staging'[<<j, n>>].match = m
    BY <1>0, <1>a
  <2>. QED
    BY <1>a, <2>1
<1>1. ASSUME NEW w \in Workers, PreviewRow(w) PROVE Staged(j, n)'
  <2>1. PreviewMatch(work[w], work[w].file[Len(work[w].matches) + 1]) # "none"
    BY DEF PreviewMatch
  <2>2. \/ staging' = staging
        \/ \E r, t : staging' = [staging EXCEPT ![r] =
              [match |-> PreviewMatch(work[w], work[w].file[Len(work[w].matches) + 1]), target |-> t]]
    BY <1>1 DEF PreviewRow
  <2>. QED
    BY <1>a, <2>1, <2>2
<1>2. ASSUME NEW w \in Workers, StoreIncomeRows(w) PROVE Staged(j, n)'
  <2>1. \A m \in DOMAIN work[w].matches : work[w].matches[m] # "none"
    BY <1>2 DEF IInv, PreviewsAlone, ReadWhole, StoreIncomeRows
  <2>. QED
    BY <1>0, <1>2, <2>1 DEF StoreIncomeRows, Rows
<1>3. ASSUME NEW w \in Workers, PersistRows(w) PROVE Staged(j, n)'
  BY <1>0, <1>3 DEF PersistRows, Rows
<1>4. ASSUME NEW w \in Workers, PassRow(w) \/ MarkDuplicate(w) \/ LinkRow(w) PROVE Staged(j, n)'
  <2>1. \/ staging' = staging
        \/ \E r, t : \E m \in Matches : staging' = [staging EXCEPT ![r] = [match |-> m, target |-> t]]
    BY <1>4 DEF PassRow, MarkDuplicate, LinkRow, Matches
  <2>. QED
    BY <1>0, <1>a, <2>1
<1>5. ASSUME NEW w \in Workers,
             \/ \E i \in Jobs, kind \in Kinds, f \in Files : BeginPreview(w, i, kind, f)
             \/ \E i \in Jobs, f \in OrderFiles : PersistJob(w, i, f)
             \/ \E i \in Jobs : BeginCommit(w, i) \/ ReviewOrders(w, i)
             \/ FinishPreview(w) \/ FinishCommit(w)
             \/ FindNothing(w) \/ CreateTransaction(w)
             \/ ReviewStock(w) \/ LookupOrders(w) \/ BookOrders(w)
             \/ CashRow(w) \/ CommitCash(w) \/ \E f \in CashFiles : BeginCash(w, f)
             \/ Die(w) \/ \E t \in ledger : DeleteTransaction(t)
      PROVE  staging' = staging
  BY <1>5 DEF BeginPreview, PersistJob, BeginCommit, ReviewOrders, FinishPreview, FinishCommit,
      FindNothing, CreateTransaction, ReviewStock, LookupOrders, BookOrders, CashRow,
      CommitCash, BeginCash, Die, DeleteTransaction
<1>. QED
  BY <1>1, <1>2, <1>3, <1>4, <1>5
     DEF Next, LedgerNext, Advance, OrdersNext, AdvanceOrders, CashNext, AdvanceCash, Interrupt,
         DeleteTransaction, vars

\* The transactions that one database transaction creates.
LEMMA CreateAllFacts ==
    ASSUME TypeOK, NEW j \in Jobs \cup {NoJob}, NEW f \in AllFiles, NEW new \in SUBSET DOMAIN f,
           CreateAll(j, f, new)
    PROVE  /\ lastTx' \in lastTx..MaxTransactions
           /\ ledger \subseteq ledger'
           /\ \A t \in ledger' \ ledger :
                 \E n \in new : \E id \in lastTx + 1..lastTx' :
                    t = [id |-> id, line |-> f[n].line, job |-> j, row |-> n]
           /\ \A t, u \in ledger' \ ledger : t.row = u.row => t = u
           /\ \A n \in new : \E t \in ledger' : t.line = f[n].line
<1>. DEFINE upto(n) == {m \in new : m <= n}
            row(n) == [id |-> lastTx + Cardinality(upto(n)), line |-> f[n].line, job |-> j, row |-> n]
<1>1. IsFiniteSet(new)
  <2>1. new \subseteq 1..Len(f) /\ Len(f) \in Int
    BY FilesAreSequences
  <2>2. IsFiniteSet(1..Len(f))
    BY <2>1, FS_Interval
  <2>. QED
    BY <2>1, <2>2, FS_Subset
<1>2. ASSUME NEW n \in new PROVE Cardinality(upto(n)) \in 1..Cardinality(new)
  <2>1. IsFiniteSet(upto(n)) /\ Cardinality(upto(n)) <= Cardinality(new)
    BY <1>1, FS_Subset
  <2>2. n \in upto(n)
    BY FilesAreSequences
  <2>3. Cardinality(upto(n)) \in Nat /\ Cardinality(upto(n)) # 0 /\ Cardinality(new) \in Nat
    BY <1>1, <2>1, <2>2, FS_CardinalityType, FS_EmptySet
  <2>. HIDE DEF upto
  <2>. QED
    BY <2>1, <2>3
<1>3. Cardinality(new) \in Nat
  BY <1>1, FS_CardinalityType
<1>4. /\ lastTx' = lastTx + Cardinality(new) /\ lastTx' <= MaxTransactions
      /\ ledger' = ledger \cup {row(n) : n \in new}
  BY DEF CreateAll
<1>5. lastTx \in Nat /\ MaxTransactions \in Nat
  BY LedgerImportAssumption DEF TypeOK
<1>6. ASSUME NEW t \in ledger' \ ledger PROVE \E n \in new : t = row(n)
  BY <1>4
<1>. HIDE DEF upto
<1>7. ASSUME NEW n \in new
      PROVE  /\ lastTx + Cardinality(upto(n)) \in lastTx + 1..lastTx'
             /\ row(n) \in ledger' /\ row(n).line = f[n].line /\ row(n).row = n
  BY <1>2, <1>3, <1>4, <1>5
<1>8. \A t \in ledger' \ ledger :
         \E n \in new : \E id \in lastTx + 1..lastTx' :
             t = [id |-> id, line |-> f[n].line, job |-> j, row |-> n]
  BY <1>6, <1>7
<1>9. \A t, u \in ledger' \ ledger : t.row = u.row => t = u
  BY <1>6, <1>7
<1>10. lastTx' \in lastTx..MaxTransactions /\ ledger \subseteq ledger'
  BY <1>3, <1>4, <1>5
<1>. QED
  BY <1>7, <1>8, <1>9, <1>10

\* The request of a worker, and the next row of its file.
LEMMA RequestFacts ==
    ASSUME IInv, NEW w \in Workers
    PROVE  /\ work[w].job \in Jobs \cup {NoJob} /\ work[w].file \in AllFiles
           /\ work[w].matches \in Seq(ReadMatches) /\ Len(work[w].matches) \in Nat
           /\ DOMAIN work[w].matches = 1..Len(work[w].matches)
           /\ \A n \in DOMAIN work[w].matches : work[w].matches[n] \in ReadMatches
           /\ work[w].row \in 1..MaxRows + 1 /\ work[w].seen \subseteq Lines
           /\ work[w].phase \in FilePhases =>
                 /\ work[w].job \in Jobs /\ job[work[w].job].kind \in FileKinds
                 /\ work[w].file = job[work[w].job].file
                 /\ Len(work[w].matches) <= Len(work[w].file)
                 /\ DOMAIN work[w].matches \subseteq DOMAIN work[w].file
           /\ work[w].phase \in CommitPhases \cup {"stored"} =>
                 DOMAIN work[w].matches = DOMAIN work[w].file
           /\ work[w].phase \in {"create", "link"} \/ (work[w].phase = "rows" /\ ~Done(w)) =>
                 work[w].row \in DOMAIN work[w].file /\ work[w].row \in RowNos
<1>1. work \in [Workers -> [phase : FilePhases \cup OrderPhases \cup {"idle", "cash"},
                            kind : AllKinds \cup {"none", "cash"}, job : Jobs \cup {NoJob},
                            file : AllFiles, matches : Seq(ReadMatches), row : 1..MaxRows + 1,
                            seen : SUBSET Lines, failed : BOOLEAN, tx : 0..lastTx]]
  BY DEF IInv, TypeOK
<1>2. /\ work[w].job \in Jobs \cup {NoJob} /\ work[w].file \in AllFiles
      /\ work[w].matches \in Seq(ReadMatches)
      /\ work[w].row \in 1..MaxRows + 1 /\ work[w].seen \subseteq Lines
  BY <1>1
<1>3. /\ Len(work[w].matches) \in Nat /\ DOMAIN work[w].matches = 1..Len(work[w].matches)
      /\ \A n \in DOMAIN work[w].matches : work[w].matches[n] \in ReadMatches
  BY <1>2, SeqFacts
<1>4. /\ Len(work[w].file) \in 0..MaxRows /\ DOMAIN work[w].file = 1..Len(work[w].file)
      /\ DOMAIN work[w].file \subseteq RowNos
  BY <1>2, FilesAreSequences
<1>5. OnFile(w) /\ MaxRows \in Nat
  BY LedgerImportAssumption DEF IInv
<1>. QED
  BY <1>2, <1>3, <1>4, <1>5 DEF OnFile, FilePhases, CommitPhases, Done

\* Types.
LEMMA StepTypeOK == IInv /\ [Next]_vars => TypeOK'
<1>. SUFFICES ASSUME IInv, [Next]_vars PROVE TypeOK'
  OBVIOUS
<1>. DEFINE Job == [status : Statuses, kind : AllKinds \cup {"none"}, file : AllFiles]
            Staging == [match : Matches \cup {"none", "pending"}, target : 0..MaxTransactions]
            Tx == [id : 1..lastTx, line : Lines, job : Jobs \cup {NoJob}, row : RowNos]
            Request(last) ==
                [phase : FilePhases \cup OrderPhases \cup {"idle", "cash"},
                 kind : AllKinds \cup {"none", "cash"}, job : Jobs \cup {NoJob}, file : AllFiles,
                 matches : Seq(ReadMatches), row : 1..MaxRows + 1, seen : SUBSET Lines,
                 failed : BOOLEAN, tx : 0..last]
<1>0. /\ job \in [Jobs -> Job] /\ staging \in [Rows -> Staging]
      /\ ledger \subseteq Tx /\ lastTx \in 0..MaxTransactions
      /\ work \in [Workers -> Request(lastTx)]
      /\ raced \subseteq Lines /\ cut \subseteq Jobs /\ removed \subseteq Lines
      /\ partial \subseteq Jobs
  BY DEF IInv, TypeOK
<1>a. ASSUME job' \in [Jobs -> Job], staging' \in [Rows -> Staging], UNCHANGED <<ledger, lastTx>>,
             work' \in [Workers -> Request(lastTx)],
             raced' \subseteq Lines, cut' \subseteq Jobs, removed' \subseteq Lines,
             partial' \subseteq Jobs
      PROVE  TypeOK'
  BY <1>0, <1>a DEF TypeOK
<1>b. MaxRows \in Nat /\ MaxTransactions \in Nat /\ NoJob \notin Jobs /\ Kinds \subseteq FileKinds
  BY LedgerImportAssumption
<1>c. Free \in Request(lastTx)
  <2>1. <<>> \in Seq(ReadMatches) /\ <<>> \in AllFiles
    BY DEF AllFiles
  <2>. QED
    BY <1>0, <1>b, <2>1 DEF Free, NoTx
<1>d. ASSUME NEW f \in AllFiles, NEW n \in DOMAIN f PROVE f[n].line \in Lines
  BY <1>d, FilesAreSequences
<1>w. ASSUME NEW w \in Workers, NEW r \in Request(lastTx), work' = [work EXCEPT ![w] = r]
      PROVE  work' \in [Workers -> Request(lastTx)]
  <2>. HIDE DEF Request
  <2>. QED
    BY <1>0, <1>w
<1>h. ASSUME NEW w \in Workers, NEW phase \in FilePhases \cup OrderPhases,
             work' = [work EXCEPT ![w].phase = phase]
      PROVE  work' \in [Workers -> Request(lastTx)]
  <2>1. ASSUME NEW r \in Request(lastTx) PROVE [r EXCEPT !.phase = phase] \in Request(lastTx)
    OBVIOUS
  <2>2. work' = [work EXCEPT ![w] = [work[w] EXCEPT !.phase = phase]] /\ work[w] \in Request(lastTx)
    BY <1>0, <1>h
  <2>. QED
    BY <1>w, <2>1, <2>2
<1>i. /\ \A t \in ledger : t.id \in 0..MaxTransactions
      /\ \A w \in Workers : work[w].tx \in 0..MaxTransactions
  BY <1>0, <1>b
<1>j. ASSUME NEW i, NEW status \in Statuses,
             job' = [job EXCEPT ![i].status = status]
      PROVE  job' \in [Jobs -> Job]
  <2>1. ASSUME NEW r \in Job PROVE [r EXCEPT !.status = status] \in Job
    OBVIOUS
  <2>. HIDE DEF Job
  <2>2. job' = [job EXCEPT ![i] = [job[i] EXCEPT !.status = status]]
    BY <1>0, <1>j
  <2>. QED
    BY <1>0, <2>1, <2>2
<1>f. ASSUME NEW r, NEW m \in Matches, NEW t \in 0..MaxTransactions,
             staging' = [staging EXCEPT ![r] = [match |-> m, target |-> t]]
      PROVE  staging' \in [Rows -> Staging]
  BY <1>0, <1>f
<1>1. ASSUME NEW w \in Workers, NEW j \in Jobs, NEW kind \in Kinds, NEW f \in Files,
             BeginPreview(w, j, kind, f)
      PROVE  TypeOK'
  <2>1. f \in AllFiles /\ kind \in FileKinds
    BY <1>b DEF AllFiles
  <2>2. [n \in DOMAIN f |-> IF f[n].bad THEN "error" ELSE "new"] \in Seq(ReadMatches)
    BY <2>1, FilesAreSequences, FunctionIsSeq DEF Matches, ReadMatches
  <2>3. work' \in [Workers -> Request(lastTx)]
    BY ZenonT(60), <1>0, <1>1, <1>c, <2>1, <2>2 DEF BeginPreview, Free, FilePhases, CommitPhases, AllKinds
  <2>4. job' \in [Jobs -> Job]
    BY <1>0, <1>1, <2>1 DEF BeginPreview, AllKinds, Statuses
  <2>. QED
    BY <1>0, <1>1, <1>a, <2>3, <2>4 DEF BeginPreview
<1>2. ASSUME NEW w \in Workers, PreviewRow(w) PROVE TypeOK'
  <2>. DEFINE n == Len(work[w].matches) + 1
              m == PreviewMatch(work[w], work[w].file[n])
  <2>1. m \in Matches
    BY SMTT(30) DEF PreviewMatch, Matches
  <2>2. n \in DOMAIN work[w].file
    BY <1>2, RequestFacts, FilesAreSequences DEF PreviewRow
  <2>3. Append(work[w].matches, m) \in Seq(ReadMatches)
    BY <2>1, RequestFacts DEF ReadMatches
  <2>4. work[w].seen \cup {work[w].file[n].line} \subseteq Lines
    BY <2>2, <1>d, RequestFacts
  <2>5. work' = [work EXCEPT ![w] = [work[w] EXCEPT !.matches = Append(work[w].matches, m),
                                        !.seen = work[w].seen \cup {work[w].file[n].line}]]
    BY <1>0, <1>2 DEF PreviewRow
  <2>6. work' \in [Workers -> Request(lastTx)]
    <3>1. work[w] \in Request(lastTx)
      BY <1>0
    <3>. HIDE DEF n, m
    <3>2. [work[w] EXCEPT !.matches = Append(work[w].matches, m),
                          !.seen = work[w].seen \cup {work[w].file[n].line}] \in Request(lastTx)
      BY <2>3, <2>4, <3>1
    <3>. QED
      BY <1>0, <2>5, <3>2
  <2>7. \/ staging' = staging
        \/ \E t \in 0..MaxTransactions : staging' =
              [staging EXCEPT ![<<work[w].job, n>>] = [match |-> m, target |-> t]]
    <3>1. 0 \in 0..MaxTransactions
      BY <1>b
    <3>. HIDE DEF n
    <3>2. \/ staging' = staging
          \/ staging' = [staging EXCEPT ![<<work[w].job, n>>] = [match |-> m, target |-> NoTx]]
          \/ \E t \in Booked(work[w].file[n].line) :
                staging' = [staging EXCEPT ![<<work[w].job, n>>] = [match |-> m, target |-> t.id]]
      BY <1>2 DEF PreviewRow, n
    <3>. QED
      BY <1>i, <3>1, <3>2 DEF NoTx, Booked
  <2>8. staging' \in [Rows -> Staging]
    BY <1>0, <1>f, <2>1, <2>7
  <2>. QED
    BY <1>0, <1>2, <1>a, <2>6, <2>8 DEF PreviewRow
<1>3. ASSUME NEW w \in Workers, StoreIncomeRows(w) PROVE TypeOK'
  <2>1. work' \in [Workers -> Request(lastTx)]
    BY <1>3, <1>h DEF StoreIncomeRows, FilePhases
  <2>2. staging' \in [Rows -> Staging]
    BY <1>0, <1>3, <1>b, RequestFacts DEF StoreIncomeRows, NoTx, ReadMatches
  <2>. QED
    BY <1>0, <1>3, <1>a, <2>1, <2>2 DEF StoreIncomeRows
<1>4. ASSUME NEW w \in Workers, FinishPreview(w) PROVE TypeOK'
  <2>1. work' \in [Workers -> Request(lastTx)]
    BY SMTT(30), <1>0, <1>4, <1>c DEF FinishPreview
  <2>2. job' \in [Jobs -> Job]
    BY <1>4, <1>j DEF FinishPreview, Statuses
  <2>. QED
    BY <1>0, <1>4, <1>a, <2>1, <2>2 DEF FinishPreview
<1>5. ASSUME NEW w \in Workers, NEW j \in Jobs, BeginCommit(w, j) PROVE TypeOK'
  <2>. DEFINE matches == [n \in DOMAIN job[j].file |-> staging[<<j, n>>].match]
  <2>1. job[j].file \in AllFiles
    BY <1>0
  <2>2. \A n \in DOMAIN job[j].file : staging[<<j, n>>].match \in ReadMatches
    <3>1. SUFFICES ASSUME NEW n \in DOMAIN job[j].file PROVE staging[<<j, n>>].match \in ReadMatches
      OBVIOUS
    <3>2. <<j, n>> \in Rows
      BY <2>1, FilesAreSequences DEF Rows
    <3>3. staging[<<j, n>>].match # "pending"
      BY <1>5 DEF BeginCommit, IInv, StatusesJustified
    <3>. QED
      BY <1>0, <3>2, <3>3 DEF ReadMatches
  <2>3. matches \in Seq(ReadMatches)
    <3>1. Len(job[j].file) \in Nat /\ matches \in [1..Len(job[j].file) -> ReadMatches]
      BY <2>1, <2>2, FilesAreSequences
    <3>. QED
      BY <3>1, FunctionIsSeq
  <2>4. \E k \in AllKinds : work' = [work EXCEPT ![w] = [Free EXCEPT
             !.phase = "rows", !.job = j, !.file = job[j].file, !.kind = k, !.matches = matches]]
    BY <1>5 DEF BeginCommit, AllKinds, FileKinds
  <2>5. work' \in [Workers -> Request(lastTx)]
    <3>. HIDE DEF matches
    <3>1. ASSUME NEW k \in AllKinds
          PROVE  [Free EXCEPT !.phase = "rows", !.job = j, !.file = job[j].file, !.kind = k,
                              !.matches = matches] \in Request(lastTx)
      BY <1>c, <2>1, <2>3 DEF FilePhases, CommitPhases
    <3>. QED
      BY ZenonT(60), <1>w, <2>4, <3>1
  <2>. QED
    BY <1>0, <1>5, <1>a, <2>5 DEF BeginCommit
<1>e. ASSUME NEW w \in Workers, NEW failed \in BOOLEAN, MoveOn(w, failed),
             work[w].phase = "link" \/ (work[w].phase = "rows" /\ ~Done(w))
      PROVE  work' \in [Workers -> Request(lastTx)]
  <2>1. work[w].row + 1 \in 1..MaxRows + 1
    BY <1>b, <1>e, RequestFacts DEF RowNos
  <2>. QED
    BY <1>0, <1>e, <2>1 DEF MoveOn, FilePhases, CommitPhases
<1>6. ASSUME NEW w \in Workers, PassRow(w) PROVE TypeOK'
  <2>1. work' \in [Workers -> Request(lastTx)]
    BY <1>6, <1>e DEF PassRow, CountsAsError
  <2>2. staging' \in [Rows -> Staging]
    <3>1. \/ staging' = staging
          \/ \E r : staging' = [staging EXCEPT ![r] = [match |-> "error", target |-> NoTx]]
      BY <1>6 DEF PassRow
    <3>. QED
      BY <1>0, <1>b, <1>f, <3>1 DEF NoTx, Matches
  <2>. QED
    BY <1>0, <1>6, <1>a, <2>1, <2>2 DEF PassRow
<1>7. ASSUME NEW w \in Workers, MarkDuplicate(w) PROVE TypeOK'
  <2>1. work' \in [Workers -> Request(lastTx)]
    BY <1>7, <1>e DEF MarkDuplicate
  <2>2. staging' \in [Rows -> Staging]
    BY <1>7, <1>f, <1>i DEF MarkDuplicate, Lookup, Booked, Matches
  <2>. QED
    BY <1>0, <1>7, <1>a, <2>1, <2>2 DEF MarkDuplicate
<1>8. ASSUME NEW w \in Workers, FindNothing(w) PROVE TypeOK'
  <2>1. work' \in [Workers -> Request(lastTx)]
    BY <1>8, <1>h DEF FindNothing, FilePhases, CommitPhases
  <2>2. raced' \subseteq Lines
    BY <1>0, <1>8, <1>d, RequestFacts DEF FindNothing
  <2>. QED
    BY <1>0, <1>8, <1>a, <2>1, <2>2 DEF FindNothing
<1>9. ASSUME NEW w \in Workers, CreateTransaction(w) PROVE TypeOK'
  <2>1. lastTx' = lastTx + 1 /\ lastTx' \in 1..MaxTransactions
    BY <1>0, <1>9 DEF CreateTransaction
  <2>2. work' \in [Workers -> Request(lastTx')]
    <3>1. work' = [work EXCEPT ![w].phase = "link", ![w].tx = lastTx']
      BY <1>9, <2>1 DEF CreateTransaction
    <3>2. ASSUME NEW r \in Request(lastTx)
          PROVE  r \in Request(lastTx') /\ [r EXCEPT !.phase = "link", !.tx = lastTx'] \in Request(lastTx')
      <4>1. 0..lastTx \subseteq 0..lastTx' /\ lastTx' \in 0..lastTx' /\ "link" \in FilePhases
        BY <1>0, <2>1 DEF FilePhases, CommitPhases
      <4>2. r \in Request(lastTx')
        BY <4>1
      <4>. QED
        BY <4>1, <4>2
    <3>. HIDE DEF Request
    <3>3. work' = [work EXCEPT ![w] = [work[w] EXCEPT !.phase = "link", !.tx = lastTx']]
      BY <1>0, <3>1
    <3>. QED
      BY <1>0, <3>2, <3>3
  <2>3. ledger' \subseteq [id : 1..lastTx', line : Lines, job : Jobs \cup {NoJob}, row : RowNos]
    <3>1. /\ work[w].file[work[w].row].line \in Lines
          /\ work[w].job \in Jobs /\ work[w].row \in RowNos
      BY <1>9, <1>d, RequestFacts DEF CreateTransaction, FilePhases, CommitPhases
    <3>. QED
      BY <1>0, <1>9, <2>1, <3>1 DEF CreateTransaction
  <2>. QED
    BY <1>0, <1>9, <2>1, <2>2, <2>3 DEF TypeOK, CreateTransaction
<1>10. ASSUME NEW w \in Workers, LinkRow(w) PROVE TypeOK'
  <2>1. work' \in [Workers -> Request(lastTx)]
    BY <1>10, <1>e DEF LinkRow
  <2>2. work[w].tx \in 0..MaxTransactions
    BY <1>i
  <2>3. staging' \in [Rows -> Staging]
    BY <1>10, <1>f, <2>2 DEF LinkRow, Matches
  <2>. QED
    BY <1>0, <1>10, <1>a, <2>1, <2>3 DEF LinkRow
<1>11. ASSUME NEW w \in Workers, FinishCommit(w) PROVE TypeOK'
  <2>1. work' \in [Workers -> Request(lastTx)]
    BY SMTT(30), <1>0, <1>11, <1>c DEF FinishCommit
  <2>2. job' \in [Jobs -> Job]
    BY <1>11, <1>j DEF FinishCommit, FinalStatus, Statuses
  <2>3. partial' \subseteq Jobs
    BY <1>0, <1>11, RequestFacts DEF FinishCommit, FilePhases, CommitPhases
  <2>. QED
    BY <1>0, <1>11, <1>a, <2>1, <2>2, <2>3 DEF FinishCommit
<1>12. ASSUME NEW w \in Workers, NEW j \in Jobs, NEW f \in OrderFiles, PersistJob(w, j, f)
       PROVE  TypeOK'
  <2>1. f \in AllFiles
    BY DEF AllFiles
  <2>2. work' \in [Workers -> Request(lastTx)]
    BY <1>0, <1>12, <1>c, <2>1 DEF PersistJob, OrderPhases, AllKinds
  <2>3. job' \in [Jobs -> Job]
    BY <1>0, <1>12, <2>1 DEF PersistJob, AllKinds, Statuses
  <2>. QED
    BY <1>0, <1>12, <1>a, <2>2, <2>3 DEF PersistJob
<1>13. ASSUME NEW w \in Workers, PersistRows(w) PROVE TypeOK'
  <2>1. work' \in [Workers -> Request(lastTx)]
    BY <1>0, <1>13, <1>c DEF PersistRows
  <2>2. staging' \in [Rows -> Staging]
    BY <1>0, <1>13, <1>b DEF PersistRows, NoTx
  <2>. QED
    BY <1>0, <1>13, <1>a, <2>1, <2>2 DEF PersistRows
<1>14. ASSUME NEW w \in Workers, NEW j \in Jobs, ReviewOrders(w, j) PROVE TypeOK'
  <2>1. work' \in [Workers -> Request(lastTx)]
    BY ZenonT(60), <1>0, <1>14, <1>c DEF ReviewOrders, OrderPhases, AllKinds
  <2>. QED
    BY <1>0, <1>14, <1>a, <2>1 DEF ReviewOrders
<1>15. ASSUME NEW w \in Workers, ReviewStock(w) PROVE TypeOK'
  <2>1. work' \in [Workers -> Request(lastTx)]
    <3>1. CASE work' = [work EXCEPT ![w] = Free]
      BY <1>0, <1>c, <3>1
    <3>2. CASE work' = [work EXCEPT ![w] = [work[w] EXCEPT !.phase = "reviewed"]]
      <4>1. [work[w] EXCEPT !.phase = "reviewed"] \in Request(lastTx)
        <5>1. work[w] \in Request(lastTx) /\ "reviewed" \in OrderPhases
          BY <1>0 DEF OrderPhases
        <5>. QED
          BY <5>1
      <4>. QED
        BY <1>w, <3>2, <4>1
    <3>. QED
      BY <1>15, <3>1, <3>2 DEF ReviewStock
  <2>. QED
    BY <1>0, <1>15, <1>a, <2>1 DEF ReviewStock
<1>16. ASSUME NEW w \in Workers, LookupOrders(w) PROVE TypeOK'
  <2>1. Hashes(work[w].file) \subseteq Lines
    BY <1>d, RequestFacts DEF Hashes
  <2>2. work' \in [Workers -> Request(lastTx)]
    <3>1. \E seen \in SUBSET Lines : work' = [work EXCEPT ![w].phase = "book", ![w].seen = seen]
      BY <1>16, <2>1 DEF LookupOrders, Existing
    <3>2. ASSUME NEW seen \in SUBSET Lines, NEW r \in Request(lastTx)
          PROVE  [r EXCEPT !.phase = "book", !.seen = seen] \in Request(lastTx)
      BY DEF OrderPhases
    <3>3. \E seen \in SUBSET Lines :
             work' = [work EXCEPT ![w] = [work[w] EXCEPT !.phase = "book", !.seen = seen]]
      BY <1>0, <3>1
    <3>4. work[w] \in Request(lastTx)
      BY <1>0
    <3>. HIDE DEF Request
    <3>. QED
      BY <1>w, <3>2, <3>3, <3>4
  <2>3. raced' \subseteq Lines
    BY <1>0, <1>16, <2>1 DEF LookupOrders
  <2>. QED
    BY <1>0, <1>16, <1>a, <2>2, <2>3 DEF LookupOrders
<1>g. ASSUME NEW w \in Workers, NEW j \in Jobs \cup {NoJob}, NEW f \in AllFiles,
             NEW new \in SUBSET DOMAIN f, CreateAll(j, f, new),
             work' = [work EXCEPT ![w] = Free],
             UNCHANGED <<job, staging, raced, cut, removed, partial>>
      PROVE  TypeOK'
  <2>1. TypeOK
    BY DEF IInv
  <2>2. /\ lastTx' \in lastTx..MaxTransactions
        /\ \A t \in ledger' \ ledger : \E n \in new : \E id \in lastTx + 1..lastTx' :
               t = [id |-> id, line |-> f[n].line, job |-> j, row |-> n]
    BY <1>g, <2>1, CreateAllFacts
  <2>3. work' \in [Workers -> Request(lastTx')]
    BY <1>0, <1>c, <1>g, <2>2
  <2>4. ASSUME NEW t \in ledger'
        PROVE  t \in [id : 1..lastTx', line : Lines, job : Jobs \cup {NoJob}, row : RowNos]
    <3>1. CASE t \in ledger
      BY <1>0, <2>2, <3>1
    <3>2. CASE t \notin ledger
      <4>1. PICK n \in new, id \in lastTx + 1..lastTx' :
               t = [id |-> id, line |-> f[n].line, job |-> j, row |-> n]
        BY <2>2, <3>2
      <4>2. id \in 1..lastTx' /\ f[n].line \in Lines /\ n \in RowNos
        BY <1>0, <1>d, <2>2, FilesAreSequences
      <4>. QED
        BY <4>1, <4>2
    <3>. QED
      BY <3>1, <3>2
  <2>. QED
    BY <1>0, <1>b, <1>g, <2>2, <2>3, <2>4 DEF TypeOK
<1>17. ASSUME NEW w \in Workers, BookOrders(w) PROVE TypeOK'
  <2>1. \E new \in SUBSET DOMAIN work[w].file : CreateAll(work[w].job, work[w].file, new)
    BY <1>17 DEF BookOrders
  <2>. QED
    BY <1>17, <1>g, <2>1, RequestFacts DEF BookOrders
<1>18. ASSUME NEW w \in Workers, NEW f \in CashFiles, BeginCash(w, f) PROVE TypeOK'
  <2>1. f \in AllFiles
    BY DEF AllFiles
  <2>2. work' \in [Workers -> Request(lastTx)]
    BY <1>0, <1>18, <1>c, <2>1 DEF BeginCash
  <2>. QED
    BY <1>0, <1>18, <1>a, <2>2 DEF BeginCash
<1>19. ASSUME NEW w \in Workers, CashRow(w) PROVE TypeOK'
  <2>. DEFINE n == Len(work[w].matches) + 1
              m == IF Lookup(work[w].file[n].line) = {} THEN "new" ELSE "duplicate"
  <2>1. n \in DOMAIN work[w].file
    BY <1>19, RequestFacts, FilesAreSequences DEF CashRow
  <2>2. Append(work[w].matches, m) \in Seq(ReadMatches)
    BY RequestFacts DEF Matches, ReadMatches
  <2>3. work' \in [Workers -> Request(lastTx)]
    <3>1. work' = [work EXCEPT ![w].matches = Append(work[w].matches, m)]
      BY <1>0, <1>19 DEF CashRow
    <3>2. ASSUME NEW ms \in Seq(ReadMatches), NEW r \in Request(lastTx)
          PROVE  [r EXCEPT !.matches = ms] \in Request(lastTx)
      OBVIOUS
    <3>3. work' = [work EXCEPT ![w] = [work[w] EXCEPT !.matches = Append(work[w].matches, m)]]
      BY <1>0, <3>1
    <3>4. work[w] \in Request(lastTx)
      BY <1>0
    <3>. HIDE DEF Request
    <3>. QED
      BY <1>w, <2>2, <3>2, <3>3, <3>4
  <2>4. raced' \subseteq Lines
    BY <1>0, <1>19, <1>d, <2>1, RequestFacts DEF CashRow
  <2>. QED
    BY <1>0, <1>19, <1>a, <2>3, <2>4 DEF CashRow
<1>20. ASSUME NEW w \in Workers, CommitCash(w) PROVE TypeOK'
  <2>1. \E new \in SUBSET DOMAIN work[w].file : CreateAll(NoJob, work[w].file, new)
    BY <1>20 DEF CommitCash
  <2>. QED
    BY <1>20, <1>g, <2>1, RequestFacts DEF CommitCash
<1>21. ASSUME NEW w \in Workers, Die(w) PROVE TypeOK'
  <2>1. work' \in [Workers -> Request(lastTx)]
    BY <1>0, <1>21, <1>c DEF Die
  <2>2. cut' \subseteq Jobs
    BY <1>0, <1>21, RequestFacts DEF Die
  <2>. QED
    BY <1>0, <1>21, <1>a, <2>1, <2>2 DEF Die
<1>22. ASSUME NEW t \in ledger, DeleteTransaction(t) PROVE TypeOK'
  BY <1>0, <1>22 DEF DeleteTransaction, TypeOK
<1>23. ASSUME UNCHANGED vars PROVE TypeOK'
  BY <1>0, <1>23, <1>a DEF vars
<1>. QED
  BY <1>1, <1>2, <1>3, <1>4, <1>5, <1>6, <1>7, <1>8, <1>9, <1>10, <1>11, <1>12, <1>13, <1>14,
     <1>15, <1>16, <1>17, <1>18, <1>19, <1>20, <1>21, <1>22, <1>23
     DEF Next, LedgerNext, Advance, OrdersNext, AdvanceOrders, CashNext, AdvanceCash, Interrupt

\* The actions of worker w.
Acts(w) ==
    \/ \E j \in Jobs, kind \in Kinds, f \in Files : BeginPreview(w, j, kind, f)
    \/ \E j \in Jobs : BeginCommit(w, j)
    \/ Advance(w)
    \/ \E j \in Jobs, f \in OrderFiles : PersistJob(w, j, f)
    \/ \E j \in Jobs : ReviewOrders(w, j)
    \/ AdvanceOrders(w)
    \/ \E f \in CashFiles : BeginCash(w, f)
    \/ AdvanceCash(w)
    \/ Die(w)

\* A step is of one worker, or leaves all of them alone.
LEMMA OneWorker ==
    IInv /\ [Next]_vars =>
        \/ \E w \in Workers :
              Acts(w) /\ (\A v \in Workers : v # w => work'[v] = work[v]) /\ w \in DOMAIN work'
        \/ /\ UNCHANGED <<job, staging, work, raced, cut, partial>>
           /\ (\E t \in ledger : DeleteTransaction(t)) \/ UNCHANGED <<ledger, lastTx, removed>>
<1>. SUFFICES ASSUME IInv, [Next]_vars
              PROVE  \/ \E w \in Workers :
                           /\ Acts(w) /\ \A v \in Workers : v # w => work'[v] = work[v]
                           /\ w \in DOMAIN work'
                     \/ /\ UNCHANGED <<job, staging, work, raced, cut, partial>>
                        /\ (\E t \in ledger : DeleteTransaction(t)) \/ UNCHANGED <<ledger, lastTx, removed>>
  OBVIOUS
<1>1. DOMAIN work = Workers
  BY DEF IInv, TypeOK
<1>2. ASSUME NEW w \in Workers, NEW r, work' = [work EXCEPT ![w] = r]
      PROVE  (\A v \in Workers : v # w => work'[v] = work[v]) /\ w \in DOMAIN work'
  BY <1>1, <1>2
<1>3. ASSUME NEW w \in Workers, Acts(w)
      PROVE  (\A v \in Workers : v # w => work'[v] = work[v]) /\ w \in DOMAIN work'
  <2>1. CASE Advance(w)
    BY <1>1, <2>1 DEF Advance, PreviewRow, StoreIncomeRows, FinishPreview, PassRow, MarkDuplicate,
        FindNothing, CreateTransaction, LinkRow, FinishCommit, MoveOn
  <2>2. CASE AdvanceOrders(w)
    BY <1>1, <2>2 DEF AdvanceOrders, PersistRows, ReviewStock, LookupOrders, BookOrders
  <2>3. CASE AdvanceCash(w)
    BY <1>1, <2>3 DEF AdvanceCash, CashRow, CommitCash
  <2>4. CASE ~(Advance(w) \/ AdvanceOrders(w) \/ AdvanceCash(w))
    BY <1>1, <1>3, <2>4 DEF Acts, BeginPreview, BeginCommit, PersistJob, ReviewOrders, BeginCash, Die
  <2>. QED
    BY SMTT(30), <2>1, <2>2, <2>3, <2>4
<1>4. CASE \E t \in ledger : DeleteTransaction(t)
  BY <1>4 DEF DeleteTransaction
<1>5. CASE UNCHANGED vars
  BY <1>5 DEF vars
<1>. QED
  BY <1>3, <1>4, <1>5 DEF Next, LedgerNext, OrdersNext, CashNext, Interrupt, Acts

\* The file of a job is of its kind.
LEMMA StepJobsOfFiles == IInv /\ [Next]_vars => JobsOfFiles'
<1>. SUFFICES ASSUME IInv, [Next]_vars, NEW j \in Jobs
              PROVE  /\ job'[j].kind \in FileKinds => job'[j].file \in Files
                     /\ job'[j].kind = "amazon" => job'[j].file \in OrderFiles
  BY DEF JobsOfFiles
<1>0. TypeOK /\ JobsOfFiles /\ "none" \notin FileKinds /\ "amazon" \notin FileKinds /\ Kinds \subseteq FileKinds
      /\ DOMAIN job = Jobs
  BY LedgerImportAssumption DEF IInv, FileKinds, TypeOK
<1>1. CASE job[j].kind # "none"
  BY <1>0, <1>1, JobsKept DEF JobsOfFiles
<1>2. CASE job[j].kind = "none"
  <2>1. ASSUME NEW w \in Workers, NEW i \in Jobs, NEW kind \in Kinds, NEW f \in Files,
               BeginPreview(w, i, kind, f), i = j
        PROVE  job'[j].kind \in FileKinds /\ job'[j].file \in Files
    BY <1>0, <2>1 DEF BeginPreview
  <2>2. ASSUME NEW w \in Workers, NEW i \in Jobs, NEW f \in OrderFiles, PersistJob(w, i, f), i = j
        PROVE  job'[j].kind = "amazon" /\ job'[j].file \in OrderFiles
    BY <1>0, <2>2 DEF PersistJob
  <2>3. ASSUME NEW w \in Workers, NEW i \in Jobs, i # j,
               \/ \E kind \in Kinds, f \in Files : BeginPreview(w, i, kind, f)
               \/ \E f \in OrderFiles : PersistJob(w, i, f)
        PROVE  job'[j] = job[j]
    BY <1>0, <2>3 DEF BeginPreview, PersistJob
  <2>4. ASSUME NEW w \in Workers, FinishPreview(w) \/ FinishCommit(w)
        PROVE  job'[j] = job[j]
    <3>0. work[w].job # j
      <4>1. work[w].phase \in FilePhases
        BY <2>4 DEF FinishPreview, FinishCommit, FilePhases, CommitPhases
      <4>. QED
        BY <1>0, <1>2, <4>1, RequestFacts
    <3>1. CASE FinishPreview(w)
      BY <1>0, <3>0, <3>1 DEF FinishPreview
    <3>2. CASE FinishCommit(w)
      <4>1. \E status : job' = [job EXCEPT ![work[w].job].status = status]
        BY <3>2 DEF FinishCommit
      <4>. QED
        BY <1>0, <3>0, <4>1
    <3>. QED
      BY <2>4, <3>1, <3>2
  <2>5. ASSUME NEW w \in Workers,
               \/ \E i \in Jobs : BeginCommit(w, i) \/ ReviewOrders(w, i)
               \/ PreviewRow(w) \/ StoreIncomeRows(w) \/ PassRow(w) \/ MarkDuplicate(w)
               \/ FindNothing(w) \/ CreateTransaction(w) \/ LinkRow(w)
               \/ ReviewStock(w) \/ LookupOrders(w) \/ BookOrders(w)
               \/ CashRow(w) \/ CommitCash(w) \/ \E f \in CashFiles : BeginCash(w, f)
               \/ Die(w) \/ PersistRows(w)
        PROVE  job' = job
    BY <2>5 DEF PersistRows, BeginCommit, ReviewOrders, PreviewRow, StoreIncomeRows, PassRow, MarkDuplicate,
        FindNothing, CreateTransaction, LinkRow, ReviewStock, LookupOrders, BookOrders, CashRow,
        CommitCash, BeginCash, Die
  <2>6. ASSUME NEW w \in Workers, Acts(w)
        PROVE  /\ job'[j].kind \in FileKinds => job'[j].file \in Files
               /\ job'[j].kind = "amazon" => job'[j].file \in OrderFiles
    <3>1. \/ \E i \in Jobs, kind \in Kinds, f \in Files : BeginPreview(w, i, kind, f)
          \/ \E i \in Jobs, f \in OrderFiles : PersistJob(w, i, f)
          \/ FinishPreview(w) \/ FinishCommit(w)
          \/ job' = job
      BY <2>5, <2>6 DEF Acts, Advance, AdvanceOrders, AdvanceCash
    <3>2. CASE \E i \in Jobs, kind \in Kinds, f \in Files : BeginPreview(w, i, kind, f)
      BY <1>0, <1>2, <2>1, <2>3, <3>2 DEF JobsOfFiles
    <3>3. CASE \E i \in Jobs, f \in OrderFiles : PersistJob(w, i, f)
      BY <1>0, <1>2, <2>2, <2>3, <3>3 DEF JobsOfFiles
    <3>. QED
      BY <1>0, <1>2, <2>4, <3>1, <3>2, <3>3 DEF JobsOfFiles
  <2>. QED
    BY <1>0, <1>2, <2>6, OneWorker DEF JobsOfFiles
<1>. QED
  BY <1>1, <1>2

\* A request works on the file of its job.
LEMMA StepRequests ==
    IInv /\ [Next]_vars => \A v \in Workers : (OnFile(v) /\ OnOrders(v) /\ OnCash(v))'
<1>. SUFFICES ASSUME IInv, [Next]_vars, NEW v \in Workers
              PROVE  (OnFile(v) /\ OnOrders(v) /\ OnCash(v))'
  OBVIOUS
<1>. DEFINE Fine(w) == OnFile(w) /\ OnOrders(w) /\ OnCash(w)
<1>0. /\ TypeOK /\ JobsOfFiles /\ Fine(v) /\ DOMAIN job = Jobs /\ DOMAIN work = Workers
      /\ "none" \notin FileKinds /\ "amazon" \notin FileKinds /\ Kinds \subseteq FileKinds
  BY LedgerImportAssumption DEF IInv, FileKinds, TypeOK
<1>1. ASSUME work'[v] = work[v] PROVE Fine(v)'
  <2>1. OnFile(v)'
    BY <1>0, <1>1, JobsKept DEF OnFile, Done
  <2>2. OnOrders(v)'
    BY <1>0, <1>1, JobsKept, KnownKept DEF OnOrders
  <2>. QED
    BY <1>0, <1>1, <2>1, <2>2 DEF OnCash
<1>2. ASSUME work'[v].phase = "idle" PROVE Fine(v)'
  BY <1>2 DEF OnFile, OnOrders, OnCash, FilePhases, CommitPhases, OrderPhases
<1>3. ASSUME work'[v].phase \in FilePhases PROVE (OnOrders(v) /\ OnCash(v))'
  BY <1>3 DEF OnOrders, OnCash, FilePhases, CommitPhases, OrderPhases
<1>4. ASSUME work'[v].phase \in OrderPhases PROVE (OnFile(v) /\ OnCash(v))'
  BY <1>4 DEF OnFile, OnCash, FilePhases, CommitPhases, OrderPhases
<1>5. ASSUME work'[v].phase = "cash" PROVE (OnFile(v) /\ OnOrders(v))'
  BY <1>5 DEF OnFile, OnOrders, FilePhases, CommitPhases, OrderPhases
<1>6. ASSUME NEW j \in Jobs, NEW kind \in Kinds, NEW f \in Files, BeginPreview(v, j, kind, f)
      PROVE  Fine(v)'
  <2>1. /\ work'[v].job = j /\ work'[v].file = f /\ work'[v].kind = kind
        /\ work'[v].phase = IF kind = "direct" THEN "rows" ELSE "preview"
        /\ work'[v].matches = IF kind = "direct"
                              THEN [n \in DOMAIN f |-> IF f[n].bad THEN "error" ELSE "new"] ELSE <<>>
    BY <1>0, <1>6 DEF BeginPreview, Free
  <2>2. job'[j].kind = kind /\ job'[j].file = f
    BY <1>0, <1>6 DEF BeginPreview
  <2>3. f \in AllFiles
    BY DEF AllFiles
  <2>4. Len(f) \in Nat /\ DOMAIN f = 1..Len(f)
    BY <2>3, FilesAreSequences
  <2>5. Len(work'[v].matches) <= Len(f) /\ (kind = "direct" => Len(work'[v].matches) = Len(f))
    <3>1. [n \in DOMAIN f |-> IF f[n].bad THEN "error" ELSE "new"] \in [1..Len(f) -> Matches]
      BY <2>4 DEF Matches
    <3>2. Len([n \in DOMAIN f |-> IF f[n].bad THEN "error" ELSE "new"]) = Len(f)
      BY <2>4, <3>1, FunctionIsSeq
    <3>. QED
      BY <2>1, <2>4, <3>2
  <2>6. OnFile(v)'
    BY <1>0, <2>1, <2>2, <2>5 DEF OnFile, FilePhases, CommitPhases
  <2>. QED
    BY <1>3, <2>1, <2>6 DEF FilePhases, CommitPhases
<1>7. ASSUME PreviewRow(v) PROVE Fine(v)'
  <2>1. /\ work'[v].phase = "preview" /\ UNCHANGED job
        /\ work'[v].job = work[v].job /\ work'[v].file = work[v].file /\ work'[v].kind = work[v].kind
        /\ Len(work[v].matches) + 1 <= Len(work[v].file)
        /\ work[v].phase = "preview"
        /\ \E m : work'[v].matches = Append(work[v].matches, m)
    BY <1>0, <1>7 DEF PreviewRow
  <2>2. Len(work'[v].matches) = Len(work[v].matches) + 1
    BY <2>1, RequestFacts
  <2>3. OnFile(v)'
    BY <1>0, <2>1, <2>2 DEF OnFile, FilePhases
  <2>. QED
    BY SMTT(30), <1>3, <2>1, <2>3 DEF FilePhases
<1>8. ASSUME StoreIncomeRows(v) PROVE Fine(v)'
  <2>1. /\ work'[v].phase = "stored" /\ UNCHANGED job
        /\ work'[v].job = work[v].job /\ work'[v].file = work[v].file /\ work'[v].kind = work[v].kind
        /\ Len(work[v].matches) = Len(work[v].file) /\ work'[v].matches = work[v].matches
        /\ work[v].phase = "preview"
    BY <1>0, <1>8 DEF StoreIncomeRows
  <2>2. OnFile(v)'
    BY <1>0, <2>1 DEF OnFile, FilePhases
  <2>. QED
    BY <1>3, <2>1, <2>2 DEF FilePhases
<1>9. ASSUME NEW j \in Jobs, BeginCommit(v, j) PROVE Fine(v)'
  <2>. DEFINE matches == [n \in DOMAIN job[j].file |-> staging[<<j, n>>].match]
  <2>1. /\ work'[v].phase = "rows" /\ work'[v].job = j /\ UNCHANGED job
        /\ work'[v].file = job[j].file /\ work'[v].matches = matches
        /\ work'[v].kind \in FileKinds /\ job[j].kind \in FileKinds
    BY <1>0, <1>9 DEF BeginCommit, Free, FileKinds
  <2>2. /\ Len(job[j].file) \in Nat /\ DOMAIN job[j].file = 1..Len(job[j].file)
    <3>1. job[j].file \in AllFiles
      BY DEF IInv, TypeOK
    <3>. QED
      BY <3>1, FilesAreSequences
  <2>3. Len(matches) = Len(job[j].file)
    BY <2>2
  <2>4. OnFile(v)'
    BY <1>0, <2>1, <2>2, <2>3 DEF OnFile, FilePhases, CommitPhases
  <2>. QED
    BY <1>3, <2>1, <2>4 DEF FilePhases, CommitPhases
<1>10. ASSUME PassRow(v) \/ MarkDuplicate(v) \/ LinkRow(v) PROVE Fine(v)'
  <2>1. /\ work'[v].phase = "rows" /\ UNCHANGED job /\ work[v].phase \in {"rows", "link"}
        /\ work'[v].job = work[v].job /\ work'[v].file = work[v].file /\ work'[v].kind = work[v].kind
        /\ work'[v].matches = work[v].matches
    <3>1. \E failed : MoveOn(v, failed)
      BY <1>10 DEF PassRow, MarkDuplicate, LinkRow
    <3>2. UNCHANGED job /\ work[v].phase \in {"rows", "link"}
      BY <1>10 DEF PassRow, MarkDuplicate, LinkRow
    <3>. QED
      BY <1>0, <3>1, <3>2 DEF MoveOn
  <2>2. OnFile(v)'
    BY <1>0, <2>1 DEF OnFile, FilePhases, CommitPhases
  <2>. QED
    BY <1>3, <2>1, <2>2 DEF FilePhases, CommitPhases
<1>11. ASSUME FindNothing(v) PROVE Fine(v)'
  <2>1. /\ work'[v].phase = "create" /\ UNCHANGED job /\ work[v].phase = "rows" /\ ~Done(v)
        /\ work'[v].job = work[v].job /\ work'[v].file = work[v].file /\ work'[v].kind = work[v].kind
        /\ work'[v].matches = work[v].matches /\ work'[v].row = work[v].row
        /\ work[v].matches[work[v].row] = "new"
    BY <1>0, <1>11 DEF FindNothing
  <2>2. OnFile(v)'
    BY <1>0, <2>1 DEF OnFile, FilePhases, CommitPhases, Done
  <2>. QED
    BY <1>3, <2>1, <2>2 DEF FilePhases, CommitPhases
<1>12. ASSUME CreateTransaction(v) PROVE Fine(v)'
  <2>1. /\ work'[v].phase = "link" /\ UNCHANGED job /\ work[v].phase = "create"
        /\ work'[v].job = work[v].job /\ work'[v].file = work[v].file /\ work'[v].kind = work[v].kind
        /\ work'[v].matches = work[v].matches /\ work'[v].row = work[v].row
    BY <1>0, <1>12 DEF CreateTransaction
  <2>2. OnFile(v)'
    BY <1>0, <2>1 DEF OnFile, FilePhases, CommitPhases, Done
  <2>. QED
    BY <1>3, <2>1, <2>2 DEF FilePhases, CommitPhases
<1>13. ASSUME FinishPreview(v) \/ FinishCommit(v) \/ PersistRows(v) \/ BookOrders(v)
              \/ CommitCash(v) \/ Die(v)
       PROVE  Fine(v)'
  BY <1>0, <1>13, <1>2 DEF FinishPreview, FinishCommit, PersistRows, BookOrders, CommitCash, Die, Free
<1>14. ASSUME NEW j \in Jobs, NEW f \in OrderFiles, PersistJob(v, j, f) PROVE Fine(v)'
  <2>1. work'[v].phase = "persist" /\ work'[v].job = j /\ work'[v].file = f
    BY <1>0, <1>14 DEF PersistJob, Free
  <2>2. job'[j].kind = "amazon" /\ job'[j].file = f
    BY <1>0, <1>14 DEF PersistJob
  <2>3. OnOrders(v)'
    BY <2>1, <2>2 DEF OnOrders
  <2>. QED
    BY <1>4, <2>1, <2>3 DEF OrderPhases
<1>15. ASSUME NEW j \in Jobs, ReviewOrders(v, j) PROVE Fine(v)'
  <2>1. /\ work'[v].phase = "review" /\ work'[v].job = j /\ work'[v].file = job[j].file
        /\ UNCHANGED job /\ job[j].kind = "amazon" /\ Passes(job[j].file)
    BY <1>0, <1>15 DEF ReviewOrders, Free
  <2>2. OnOrders(v)'
    BY <2>1 DEF OnOrders, Passes
  <2>. QED
    BY <1>4, <2>1, <2>2 DEF OrderPhases
<1>16. ASSUME ReviewStock(v) PROVE Fine(v)'
  <2>1. CASE work'[v].phase = "idle"
    BY <1>2, <2>1
  <2>2. CASE work'[v].phase # "idle"
    <3>1. /\ work'[v].phase = "reviewed" /\ work'[v].job = work[v].job /\ UNCHANGED job
          /\ work'[v].file = work[v].file /\ work[v].phase = "review"
      BY <1>0, <1>16, <2>2 DEF ReviewStock, Free
    <3>2. OnOrders(v)'
      BY <1>0, <3>1 DEF OnOrders, OrderPhases
    <3>. QED
      BY <1>4, <3>1, <3>2 DEF OrderPhases
  <2>. QED
    BY <2>1, <2>2
<1>17. ASSUME LookupOrders(v) PROVE Fine(v)'
  <2>1. /\ work'[v].phase = "book" /\ work'[v].job = work[v].job /\ UNCHANGED <<job, ledger, removed>>
        /\ work'[v].file = work[v].file /\ work[v].phase = "reviewed"
        /\ work'[v].seen = Existing(work[v].file)
    BY <1>0, <1>17 DEF LookupOrders
  <2>2. \A l \in Existing(work[v].file) : Known(l)'
    BY <2>1 DEF Existing, Known, Booked
  <2>3. OnOrders(v)'
    BY <1>0, <2>1, <2>2 DEF OnOrders, OrderPhases
  <2>. QED
    BY <1>4, <2>1, <2>3 DEF OrderPhases
<1>18. ASSUME NEW f \in CashFiles, BeginCash(v, f) PROVE Fine(v)'
  <2>1. /\ work'[v].phase = "cash" /\ work'[v].file = f /\ work'[v].matches = <<>>
    BY <1>0, <1>18 DEF BeginCash, Free
  <2>2. Len(f) \in Nat
    BY FilesAreSequences DEF AllFiles
  <2>. QED
    BY <1>5, <2>1, <2>2 DEF OnCash
<1>19. ASSUME CashRow(v) PROVE Fine(v)'
  <2>1. /\ work'[v].phase = "cash" /\ work'[v].file = work[v].file /\ work[v].phase = "cash"
        /\ Len(work[v].matches) + 1 <= Len(work[v].file)
        /\ work'[v].matches = Append(work[v].matches,
              IF Lookup(work[v].file[Len(work[v].matches) + 1].line) = {} THEN "new" ELSE "duplicate")
    BY <1>0, <1>19 DEF CashRow
  <2>2. Len(work'[v].matches) = Len(work[v].matches) + 1
    BY <2>1, RequestFacts
  <2>. QED
    BY <1>0, <1>5, <2>1, <2>2 DEF OnCash
<1>20. ASSUME Acts(v) PROVE Fine(v)'
  BY <1>20, <1>6, <1>7, <1>8, <1>9, <1>10, <1>11, <1>12, <1>13, <1>14, <1>15, <1>16, <1>17, <1>18, <1>19
     DEF Acts, Advance, AdvanceOrders, AdvanceCash
<1>. QED
  BY <1>1, <1>20, OneWorker

\* The request after each action.
Same(w) ==
    /\ work'[w].job = work[w].job /\ work'[w].kind = work[w].kind /\ work'[w].file = work[w].file
    /\ work'[w].matches = work[w].matches
LEMMA RequestAfter ==
    ASSUME IInv, NEW w \in Workers
    PROVE  /\ PassRow(w) \/ MarkDuplicate(w) \/ LinkRow(w) =>
                 /\ work'[w].phase = "rows" /\ work'[w].row = work[w].row + 1 /\ Same(w)
                 /\ work[w].failed => work'[w].failed
                 /\ work[w].phase \in {"rows", "link"}
           /\ PassRow(w) /\ ~work'[w].failed =>
                 ~CountsAsError(work[w].kind, work[w].matches[work[w].row])
           /\ FindNothing(w) =>
                 /\ work[w].phase = "rows" /\ work'[w].phase = "create" /\ Same(w)
                 /\ work'[w].row = work[w].row /\ work'[w].failed = work[w].failed
           /\ CreateTransaction(w) =>
                 /\ work[w].phase = "create" /\ work'[w].phase = "link" /\ Same(w)
                 /\ work'[w].row = work[w].row /\ work'[w].failed = work[w].failed
                 /\ work'[w].tx = lastTx + 1
           /\ FinishPreview(w) \/ FinishCommit(w) \/ PersistRows(w) \/ BookOrders(w)
              \/ CommitCash(w) \/ Die(w) => work'[w].phase = "idle"
           /\ \A j \in Jobs : BeginCommit(w, j) =>
                 /\ work'[w].phase = "rows" /\ work'[w].job = j /\ work'[w].file = job[j].file
                 /\ work'[w].kind # "direct" /\ work'[w].row = 1
                 /\ work'[w].matches = [n \in DOMAIN job[j].file |-> staging[<<j, n>>].match]
           /\ \A j \in Jobs : ReviewOrders(w, j) =>
                 work'[w].phase = "review" /\ work'[w].job = j /\ work'[w].file = job[j].file
           /\ \A j \in Jobs, f \in OrderFiles : PersistJob(w, j, f) =>
                 work'[w].phase = "persist" /\ work'[w].job = j /\ work'[w].file = f
           /\ ReviewStock(w) => work'[w].phase \in {"idle", "reviewed"}
           /\ LookupOrders(w) =>
                 /\ work'[w].phase = "book" /\ Same(w)
                 /\ work'[w].seen = Existing(work[w].file)
           /\ \A f \in CashFiles : BeginCash(w, f) => work'[w].phase = "cash" /\ work'[w].matches = <<>>
           /\ CashRow(w) =>
                 /\ work'[w].phase = "cash" /\ work'[w].file = work[w].file
                 /\ work'[w].matches = Append(work[w].matches,
                       IF Lookup(work[w].file[Len(work[w].matches) + 1].line) = {}
                       THEN "new" ELSE "duplicate")
<1>0. DOMAIN work = Workers
  BY DEF IInv, TypeOK
<1>1. ASSUME PassRow(w) \/ MarkDuplicate(w) \/ LinkRow(w)
      PROVE  /\ work'[w].phase = "rows" /\ work'[w].row = work[w].row + 1 /\ Same(w)
             /\ work[w].failed => work'[w].failed
             /\ work[w].phase \in {"rows", "link"}
  <2>1. (\E failed \in BOOLEAN : MoveOn(w, failed)) /\ work[w].phase \in {"rows", "link"}
    BY <1>1 DEF PassRow, MarkDuplicate, LinkRow, CountsAsError
  <2>2. PICK failed \in BOOLEAN : MoveOn(w, failed)
    BY <2>1
  <2>3. work'[w].phase = "rows" /\ work'[w].row = work[w].row + 1 /\ Same(w)
    BY <1>0, <2>2 DEF MoveOn, Same
  <2>4. work'[w].failed = (work[w].failed \/ failed)
    BY <1>0, <2>2 DEF MoveOn
  <2>. QED
    BY <2>1, <2>3, <2>4
<1>a. ASSUME PassRow(w), ~work'[w].failed
      PROVE  ~CountsAsError(work[w].kind, work[w].matches[work[w].row])
  <2>. DEFINE failed == CountsAsError(work[w].kind, work[w].matches[work[w].row])
  <2>1. MoveOn(w, failed)
    BY <1>a DEF PassRow
  <2>2. work'[w].failed = (work[w].failed \/ failed)
    BY <1>0, <2>1 DEF MoveOn
  <2>. QED
    BY <1>a, <2>2
<1>2. ASSUME FindNothing(w)
      PROVE  /\ work[w].phase = "rows" /\ work'[w].phase = "create" /\ Same(w)
             /\ work'[w].row = work[w].row /\ work'[w].failed = work[w].failed
  BY <1>0, <1>2 DEF FindNothing, Same
<1>3. ASSUME CreateTransaction(w)
      PROVE  /\ work[w].phase = "create" /\ work'[w].phase = "link" /\ Same(w)
             /\ work'[w].row = work[w].row /\ work'[w].failed = work[w].failed
             /\ work'[w].tx = lastTx + 1
  BY <1>0, <1>3 DEF CreateTransaction, Same
<1>4. ASSUME FinishPreview(w) \/ FinishCommit(w) \/ PersistRows(w) \/ BookOrders(w)
             \/ CommitCash(w) \/ Die(w)
      PROVE  work'[w].phase = "idle"
  BY <1>0, <1>4 DEF FinishPreview, FinishCommit, PersistRows, BookOrders, CommitCash, Die, Free
<1>5. ASSUME NEW j \in Jobs, BeginCommit(w, j)
      PROVE  /\ work'[w].phase = "rows" /\ work'[w].job = j /\ work'[w].file = job[j].file
             /\ work'[w].kind # "direct" /\ work'[w].row = 1
             /\ work'[w].matches = [n \in DOMAIN job[j].file |-> staging[<<j, n>>].match]
  BY <1>0, <1>5 DEF BeginCommit, Free
<1>6. ASSUME NEW j \in Jobs, ReviewOrders(w, j)
      PROVE  work'[w].phase = "review" /\ work'[w].job = j /\ work'[w].file = job[j].file
  BY <1>0, <1>6 DEF ReviewOrders, Free
<1>7. ASSUME NEW j \in Jobs, NEW f \in OrderFiles, PersistJob(w, j, f)
      PROVE  work'[w].phase = "persist" /\ work'[w].job = j /\ work'[w].file = f
  BY <1>0, <1>7 DEF PersistJob, Free
<1>8. ASSUME ReviewStock(w) PROVE work'[w].phase \in {"idle", "reviewed"}
  BY <1>0, <1>8 DEF ReviewStock, Free
<1>9. ASSUME LookupOrders(w)
      PROVE  work'[w].phase = "book" /\ Same(w) /\ work'[w].seen = Existing(work[w].file)
  BY <1>0, <1>9 DEF LookupOrders, Same
<1>10. ASSUME NEW f \in CashFiles, BeginCash(w, f)
       PROVE  work'[w].phase = "cash" /\ work'[w].matches = <<>>
  BY <1>0, <1>10 DEF BeginCash, Free
<1>11. ASSUME CashRow(w)
       PROVE  /\ work'[w].phase = "cash" /\ work'[w].file = work[w].file
              /\ work'[w].matches = Append(work[w].matches,
                    IF Lookup(work[w].file[Len(work[w].matches) + 1].line) = {}
                    THEN "new" ELSE "duplicate")
  BY <1>0, <1>11 DEF CashRow
<1>. QED
  BY <1>1, <1>a, <1>2, <1>3, <1>4, <1>5, <1>6, <1>7, <1>8, <1>9, <1>10, <1>11

\* A preview has its job to itself.
LEMMA StepPreviewsAlone == IInv /\ [Next]_vars => PreviewsAlone'
<1>. DEFINE Previews(w) == work[w].phase \in {"preview", "stored"}
            Read(w) == /\ work[w].seen \subseteq {work[w].file[n].line : n \in DOMAIN work[w].matches}
                       /\ ReadWhole(work[w])
<1>. SUFFICES ASSUME IInv, [Next]_vars, NEW w \in Workers, Previews(w)'
              PROVE  /\ work'[w].kind # "direct" /\ job'[work'[w].job].kind = work'[w].kind
                     /\ \A v \in Workers \ {w} : Previews(v)' => work'[v].job # work'[w].job
                     /\ Read(w)'
  BY DEF PreviewsAlone, Others
<1>0. /\ TypeOK /\ PreviewsAlone /\ DOMAIN job = Jobs /\ DOMAIN work = Workers
      /\ "none" \notin FileKinds /\ "amazon" \notin FileKinds /\ Kinds \subseteq FileKinds
      /\ \A v \in Workers : OnOrders(v)
  BY LedgerImportAssumption DEF IInv, FileKinds, TypeOK
<1>1. ASSUME NEW v \in Workers, Previews(v)
      PROVE  /\ work[v].job \in Jobs /\ job[work[v].job].kind \in FileKinds
             /\ job[work[v].job].kind = work[v].kind /\ work[v].kind # "direct"
  BY <1>0, <1>1, RequestFacts DEF PreviewsAlone, FilePhases
\* A request that previews begins to, or goes on.
<1>3. ASSUME NEW a \in Workers, Acts(a), Previews(a)'
      PROVE  \/ /\ Previews(a) /\ work'[a].job = work[a].job /\ work'[a].kind = work[a].kind
                /\ UNCHANGED job
                /\ Read(a)'
             \/ /\ job[work'[a].job] = Unused /\ work'[a].job \in Jobs
                /\ work'[a].kind # "direct" /\ job'[work'[a].job].kind = work'[a].kind
                /\ work'[a].seen = {} /\ work'[a].matches = <<>>
  <2>1. CASE PreviewRow(a)
    <3>1. /\ work'[a] = [work[a] EXCEPT !.matches = Append(@,
                           PreviewMatch(work[a], work[a].file[Len(work[a].matches) + 1])),
                         !.seen = @ \cup {work[a].file[Len(work[a].matches) + 1].line}]
          /\ work[a].phase = "preview" /\ UNCHANGED job
      BY SMTT(30), <1>0, <2>1 DEF PreviewRow
    <3>2. /\ Previews(a) /\ work'[a].job = work[a].job /\ work'[a].kind = work[a].kind
          /\ UNCHANGED job /\ work'[a].file = work[a].file
          /\ work'[a].seen = work[a].seen \cup {work[a].file[Len(work[a].matches) + 1].line}
          /\ work'[a].matches = Append(work[a].matches,
                PreviewMatch(work[a], work[a].file[Len(work[a].matches) + 1]))
      BY <1>0, <2>1 DEF PreviewRow
    <3>3. DOMAIN work'[a].matches = DOMAIN work[a].matches \cup {Len(work[a].matches) + 1}
      BY <3>2, RequestFacts
    <3>4. Read(a)
      BY <1>0, <3>2 DEF PreviewsAlone
    <3>5. work'[a].seen \subseteq {work'[a].file[n].line : n \in DOMAIN work'[a].matches}
      BY <3>2, <3>3, <3>4
    <3>6. PreviewMatch(work[a], work[a].file[Len(work[a].matches) + 1]) # "none"
      BY DEF PreviewMatch
    <3>7. ASSUME NEW n \in DOMAIN work'[a].matches PROVE work'[a].matches[n] # "none"
      BY <3>2, <3>3, <3>4, <3>6, <3>7, RequestFacts DEF ReadWhole
    <3>. QED
      BY <3>2, <3>5, <3>7 DEF ReadWhole
  <2>2. CASE StoreIncomeRows(a)
    <3>1. /\ Previews(a) /\ work'[a].job = work[a].job /\ work'[a].kind = work[a].kind
          /\ UNCHANGED job /\ work'[a].file = work[a].file
          /\ work'[a].seen = work[a].seen /\ work'[a].matches = work[a].matches
      BY <1>0, <2>2 DEF StoreIncomeRows
    <3>. QED
      BY <1>0, <3>1 DEF PreviewsAlone, ReadWhole
  <2>3. ASSUME NEW j \in Jobs, NEW kind \in Kinds, NEW f \in Files, BeginPreview(a, j, kind, f)
        PROVE  /\ job[work'[a].job] = Unused /\ work'[a].job \in Jobs
               /\ work'[a].kind # "direct" /\ job'[work'[a].job].kind = work'[a].kind
               /\ work'[a].seen = {} /\ work'[a].matches = <<>>
    <3>1. /\ work'[a].job = j /\ work'[a].kind = kind /\ work'[a].seen = {} /\ kind # "direct"
          /\ work'[a].matches = <<>>
      BY <1>0, <1>3, <2>3 DEF BeginPreview, Free
    <3>. QED
      BY <1>0, <2>3, <3>1 DEF BeginPreview
  <2>4. CASE \/ PassRow(a) \/ MarkDuplicate(a) \/ LinkRow(a) \/ FinishPreview(a) \/ FinishCommit(a)
             \/ PersistRows(a) \/ BookOrders(a) \/ CommitCash(a) \/ Die(a) \/ FindNothing(a)
             \/ CreateTransaction(a) \/ LookupOrders(a) \/ ReviewStock(a) \/ CashRow(a)
             \/ \E j \in Jobs : BeginCommit(a, j) \/ ReviewOrders(a, j)
             \/ \E j \in Jobs, f \in OrderFiles : PersistJob(a, j, f)
             \/ \E f \in CashFiles : BeginCash(a, f)
    <3>1. work'[a].phase \notin {"preview", "stored"}
      BY <2>4, RequestAfter
    <3>. QED
      BY <1>3, <3>1
  <2>. QED
    BY <1>3, <2>1, <2>2, <2>3, <2>4 DEF Acts, Advance, AdvanceOrders, AdvanceCash
<1>4. CASE UNCHANGED <<job, work>>
  BY <1>0, <1>4 DEF PreviewsAlone, Others
<1>5. ASSUME NEW a \in Workers, Acts(a), \A v \in Workers : v # a => work'[v] = work[v], a = w
      PROVE  /\ work'[w].kind # "direct" /\ job'[work'[w].job].kind = work'[w].kind
             /\ \A v \in Workers \ {w} : Previews(v)' => work'[v].job # work'[w].job
             /\ Read(w)'
  <2>1. \A v \in Workers \ {w} : work'[v] = work[v]
    BY <1>5
  <2>2. CASE /\ Previews(w) /\ work'[w].job = work[w].job /\ work'[w].kind = work[w].kind
             /\ UNCHANGED job /\ Read(w)'
    <3>1. work'[w].kind # "direct" /\ job'[work'[w].job].kind = work'[w].kind
      BY <1>0, <1>1, <2>2 DEF PreviewsAlone
    <3>2. \A v \in Workers \ {w} : Previews(v)' => work'[v].job # work'[w].job
      BY <1>0, <2>1, <2>2 DEF PreviewsAlone, Others
    <3>. QED
      BY <2>2, <3>1, <3>2
  <2>3. CASE /\ job[work'[w].job] = Unused /\ work'[w].job \in Jobs
             /\ work'[w].kind # "direct" /\ job'[work'[w].job].kind = work'[w].kind
             /\ work'[w].seen = {} /\ work'[w].matches = <<>>
    <3>1. ASSUME NEW v \in Workers \ {w}, Previews(v)' PROVE work'[v].job # work'[w].job
      <4>1. Previews(v) /\ work'[v].job = work[v].job
        BY <2>1, <3>1
      <4>2. job[work[v].job].kind # "none" /\ job[work'[w].job].kind = "none"
        BY <1>0, <1>1, <2>3, <4>1 DEF Unused
      <4>. QED
        BY <4>1, <4>2
    <3>2. Read(w)'
      BY <2>3 DEF ReadWhole
    <3>. QED
      BY <2>3, <3>1, <3>2
  <2>. QED
    BY <1>3, <1>5, <2>2, <2>3
<1>6. ASSUME NEW a \in Workers, Acts(a), \A v \in Workers : v # a => work'[v] = work[v], a # w
      PROVE  /\ work'[w].kind # "direct" /\ job'[work'[w].job].kind = work'[w].kind
             /\ \A v \in Workers \ {w} : Previews(v)' => work'[v].job # work'[w].job
             /\ Read(w)'
  <2>1. work'[w] = work[w] /\ Previews(w)
    BY <1>6
  <2>2. job'[work[w].job].kind = job[work[w].job].kind
    BY <1>0, <1>1, <1>6, <2>1, JobsKept
  <2>3. ASSUME NEW v \in Workers \ {w}, Previews(v)' PROVE work'[v].job # work[w].job
    <3>1. CASE v # a
      BY <1>0, <1>6, <2>1, <2>3, <3>1 DEF PreviewsAlone, Others
    <3>2. CASE v = a
      BY <1>0, <1>1, <1>3, <1>6, <2>1, <2>3, <3>2 DEF PreviewsAlone, Others, Unused
    <3>. QED
      BY <3>1, <3>2
  <2>. QED
    BY <1>0, <1>1, <2>1, <2>2, <2>3 DEF PreviewsAlone
<1>. QED
  BY <1>4, <1>5, <1>6, OneWorker

\* A request that commits begins to, or goes on.
LEMMA CommitGoesOn ==
    ASSUME IInv, NEW w \in Workers, Acts(w), work'[w].phase \in CommitPhases
    PROVE  \/ \E j \in Jobs, f \in Files : BeginPreview(w, j, "direct", f)
           \/ \E j \in Jobs : BeginCommit(w, j)
           \/ /\ PassRow(w) \/ MarkDuplicate(w) \/ LinkRow(w) \/ FindNothing(w) \/ CreateTransaction(w)
              /\ Same(w) /\ work[w].phase \in CommitPhases /\ UNCHANGED job
<1>. USE DEF CommitPhases
<1>0. DOMAIN work = Workers
  BY DEF IInv, TypeOK
<1>1. ASSUME NEW j \in Jobs, NEW kind \in Kinds, NEW f \in Files, BeginPreview(w, j, kind, f)
      PROVE  kind = "direct"
  BY <1>0, <1>1 DEF BeginPreview, Free
<1>2. CASE PreviewRow(w) \/ StoreIncomeRows(w)
  <2>1. work'[w].phase \in {"preview", "stored"}
    <3>1. CASE PreviewRow(w)
      BY <1>0, <3>1 DEF PreviewRow
    <3>2. CASE StoreIncomeRows(w)
      BY <1>0, <3>2 DEF StoreIncomeRows
    <3>. QED
      BY <1>2, <3>1, <3>2
  <2>. QED
    BY <2>1
<1>3. CASE PassRow(w) \/ MarkDuplicate(w) \/ LinkRow(w) \/ FindNothing(w) \/ CreateTransaction(w)
  <2>1. UNCHANGED job
    BY <1>3 DEF PassRow, MarkDuplicate, LinkRow, FindNothing, CreateTransaction
  <2>. QED
    BY SMTT(30), <1>3, <2>1, RequestAfter
<1>4. CASE \/ FinishPreview(w) \/ FinishCommit(w) \/ AdvanceOrders(w) \/ AdvanceCash(w) \/ Die(w)
           \/ \E j \in Jobs : ReviewOrders(w, j)
           \/ \E j \in Jobs, f \in OrderFiles : PersistJob(w, j, f)
           \/ \E f \in CashFiles : BeginCash(w, f)
  BY <1>4, RequestAfter DEF AdvanceOrders, AdvanceCash
<1>. QED
  BY <1>1, <1>2, <1>3, <1>4 DEF Acts, Advance

\* The one-step path tells bad rows from new ones only.
LEMMA StepDirectRows == IInv /\ [Next]_vars => DirectRows'
<1>. DEFINE Fine(w) ==
       work[w].phase \in CommitPhases /\ work[w].kind = "direct" =>
           /\ job[work[w].job].kind = "direct"
           /\ \A n \in DOMAIN work[w].matches :
                 work[w].matches[n] = IF work[w].file[n].bad THEN "error" ELSE "new"
<1>. SUFFICES ASSUME IInv, [Next]_vars, NEW w \in Workers PROVE Fine(w)'
  BY DEF DirectRows
<1>0. /\ TypeOK /\ Fine(w) /\ DOMAIN job = Jobs /\ DOMAIN work = Workers /\ "none" \notin FileKinds
      /\ CommitPhases \subseteq FilePhases
  BY DEF IInv, DirectRows, FileKinds, TypeOK, FilePhases
<1>1. CASE work[w].phase \in CommitPhases /\ Same(w)
  <2>1. work[w].job \in Jobs /\ job[work[w].job].kind # "none"
    BY <1>0, <1>1, RequestFacts
  <2>. QED
    BY <1>0, <1>1, <2>1, JobsKept DEF Same
<1>2. CASE work'[w] = work[w]
  BY <1>1, <1>2 DEF Same
<1>3. ASSUME NEW j \in Jobs, NEW f \in Files, BeginPreview(w, j, "direct", f) PROVE Fine(w)'
  <2>1. /\ work'[w].kind = "direct" /\ work'[w].job = j /\ work'[w].file = f
        /\ work'[w].matches = [n \in DOMAIN f |-> IF f[n].bad THEN "error" ELSE "new"]
    BY <1>0, <1>3 DEF BeginPreview, Free
  <2>2. job'[j].kind = "direct"
    BY <1>0, <1>3 DEF BeginPreview
  <2>. QED
    BY <2>1, <2>2
<1>4. ASSUME NEW j \in Jobs, BeginCommit(w, j) PROVE Fine(w)'
  BY <1>4, RequestAfter
<1>5. ASSUME Acts(w), work'[w].phase \in CommitPhases PROVE Fine(w)'
  BY <1>1, <1>3, <1>4, <1>5, CommitGoesOn
<1>. QED
  BY <1>2, <1>5, OneWorker

\* What a status says, after a step.
KnownAfter(l) == (\E t \in ledger' : t.line = l) \/ l \in removed'
JustifiedAfter(f, n, match) ==
    /\ f[n].bad <=> match = "error"
    /\ match = "committed" => KnownAfter(f[n].line)
    /\ match = "duplicate" =>
          KnownAfter(f[n].line) \/ \E m \in DOMAIN f : m < n /\ f[m].line = f[n].line

LEMMA JustifiedKept ==
    [Next]_vars => /\ \A l : Known(l) => KnownAfter(l)
                   /\ \A f, n, match : Justified(f, n, match) => JustifiedAfter(f, n, match)
<1>1. [Next]_vars => \A l : Known(l) => KnownAfter(l)
  BY KnownKept DEF Known, Booked, KnownAfter
<1>. QED
  BY <1>1 DEF Justified, JustifiedAfter

\* The row that a commit is about to pass.
LEMMA NextRow ==
    ASSUME IInv, NEW w \in Workers, PassRow(w) \/ MarkDuplicate(w) \/ LinkRow(w)
    PROVE  /\ work[w].row \in DOMAIN work[w].file /\ work[w].row \in RowNos
           /\ work[w].row \in DOMAIN work[w].matches
           /\ work[w].job \in Jobs /\ job[work[w].job].kind \in FileKinds
           /\ work[w].file = job[work[w].job].file
           /\ work[w].matches[work[w].row] # "none" =>
                 Justified(work[w].file, work[w].row, work[w].matches[work[w].row])
           /\ LinkRow(w) => work[w].matches[work[w].row] = "new"
<1>1. \/ work[w].phase = "rows" /\ ~Done(w)
      \/ LinkRow(w) /\ work[w].phase = "link" /\ ~Done(w) /\ work[w].matches[work[w].row] = "new"
  <2>1. OnFile(w)
    BY DEF IInv
  <2>. QED
    BY <2>1 DEF PassRow, MarkDuplicate, LinkRow, OnFile, FilePhases, CommitPhases
<1>2. work[w].phase \in FilePhases /\ work[w].phase \in CommitPhases
  BY <1>1 DEF FilePhases, CommitPhases
<1>3. LinkRow(w) => work[w].phase = "link"
  BY DEF LinkRow
<1>. QED
  BY <1>1, <1>2, <1>3, RequestFacts DEF IInv, StatusesJustified

\* What the actions write into the staging rows.
LEMMA Written ==
    ASSUME IInv, [Next]_vars, NEW w \in Workers, Acts(w), NEW j \in Jobs, NEW n \in RowNos
    PROVE  \/ staging'[<<j, n>>] = staging[<<j, n>>]
           \/ /\ j = work[w].job /\ job[j].kind \in FileKinds
              /\ staging'[<<j, n>>].match \in Matches
              /\ JustifiedAfter(job[j].file, n, staging'[<<j, n>>].match)
           \/ job[j].kind = "amazon" /\ staging'[<<j, n>>].match = "pending"
<1>. DEFINE Goal ==
               \/ staging'[<<j, n>>] = staging[<<j, n>>]
               \/ /\ j = work[w].job /\ job[j].kind \in FileKinds
                  /\ staging'[<<j, n>>].match \in Matches
                  /\ JustifiedAfter(job[j].file, n, staging'[<<j, n>>].match)
               \/ job[j].kind = "amazon" /\ staging'[<<j, n>>].match = "pending"
<1>0. /\ staging \in [Rows -> [match : Matches \cup {"none", "pending"}, target : 0..MaxTransactions]]
      /\ <<j, n>> \in Rows /\ OnOrders(w) /\ StatusesJustified /\ PassedRowsKnown
      /\ \A f, i, m : Justified(f, i, m) => JustifiedAfter(f, i, m)
  BY JustifiedKept DEF IInv, TypeOK, Rows
<1>a. ASSUME NEW i, NEW m \in Matches, NEW t,
             staging' = [staging EXCEPT ![<<work[w].job, i>>] = [match |-> m, target |-> t]],
             i = n /\ j = work[w].job =>
                 job[j].kind \in FileKinds /\ JustifiedAfter(job[j].file, n, m)
      PROVE  Goal
  <2>1. CASE i = n /\ j = work[w].job
    BY <1>0, <1>a, <2>1
  <2>2. CASE ~(i = n /\ j = work[w].job)
    BY <1>0, <1>a, <2>2
  <2>. QED
    BY <2>1, <2>2
<1>1. CASE PreviewRow(w)
  <2>. DEFINE i == Len(work[w].matches) + 1
              m == PreviewMatch(work[w], work[w].file[i])
  <2>1. m \in Matches
    BY DEF PreviewMatch, Matches
  <2>2. CASE work[w].kind = "expense"
    <3>1. PICK t : staging' = [staging EXCEPT ![<<work[w].job, i>>] = [match |-> m, target |-> t]]
      BY <1>1, <2>2 DEF PreviewRow
    <3>2. Justified(work[w].file, i, m)
      BY <2>2 DEF Justified, PreviewMatch, Known
    <3>3. job[work[w].job].kind \in FileKinds /\ work[w].file = job[work[w].job].file
      BY <1>1, RequestFacts DEF PreviewRow, FilePhases
    <3>. HIDE DEF i, m, Goal
    <3>. QED
      BY <1>0, <1>a, <2>1, <3>1, <3>2, <3>3
  <2>3. CASE work[w].kind = "income"
    BY <1>1, <2>3 DEF PreviewRow
  <2>. QED
    BY <1>1, <2>2, <2>3 DEF PreviewRow
<1>2. CASE StoreIncomeRows(w)
  <2>1. /\ work[w].phase \in FilePhases /\ job[work[w].job].kind \in FileKinds
        /\ work[w].file = job[work[w].job].file
        /\ \A i \in DOMAIN work[w].matches :
              work[w].matches[i] # "none" /\ work[w].matches[i] \in Matches
    <3>1. ReadWhole(work[w]) /\ work[w].phase = "preview"
      BY <1>2 DEF IInv, PreviewsAlone, StoreIncomeRows
    <3>. QED
      BY <3>1, RequestFacts DEF FilePhases, ReadMatches, ReadWhole
  <2>2. CASE j = work[w].job /\ n \in DOMAIN work[w].matches
    <3>1. staging'[<<j, n>>].match = work[w].matches[n]
      BY <1>0, <1>2, <2>2 DEF StoreIncomeRows
    <3>2. Justified(work[w].file, n, work[w].matches[n])
      BY <1>0, <2>1, <2>2 DEF StatusesJustified
    <3>. QED
      BY <1>0, <2>1, <2>2, <3>1, <3>2
  <2>3. CASE ~(j = work[w].job /\ n \in DOMAIN work[w].matches)
    BY <1>0, <1>2, <2>3 DEF StoreIncomeRows
  <2>. QED
    BY <2>2, <2>3
<1>3. CASE PassRow(w)
  <2>1. CASE work[w].kind = "direct"
    <3>1. staging' = [staging EXCEPT ![<<work[w].job, work[w].row>>] = [match |-> "error", target |-> NoTx]]
      BY <1>3, <2>1 DEF PassRow
    <3>2. work[w].file[work[w].row].bad
      <4>1. work[w].phase \in CommitPhases /\ work[w].matches[work[w].row] # "new"
        BY <1>3 DEF PassRow, CommitPhases
      <4>. QED
        BY <1>3, <2>1, <4>1, NextRow DEF IInv, DirectRows
    <3>3. "error" \in Matches /\ JustifiedAfter(work[w].file, work[w].row, "error")
      BY <3>2 DEF Matches, JustifiedAfter
    <3>. HIDE DEF Goal
    <3>. QED
      BY <1>3, <1>a, <3>1, <3>3, NextRow
  <2>2. CASE work[w].kind # "direct"
    BY <1>3, <2>2 DEF PassRow
  <2>. QED
    BY <2>1, <2>2
<1>4. CASE MarkDuplicate(w)
  <2>1. PICK t \in Lookup(work[w].file[work[w].row].line) :
           staging' = [staging EXCEPT ![<<work[w].job, work[w].row>>] = [match |-> "duplicate", target |-> t.id]]
    BY <1>4 DEF MarkDuplicate
  <2>2. Known(work[w].file[work[w].row].line)
    BY <2>1 DEF Lookup, Known
  <2>3. ~work[w].file[work[w].row].bad
    BY <1>4, NextRow DEF MarkDuplicate, Justified
  <2>4. "duplicate" \in Matches /\ JustifiedAfter(work[w].file, work[w].row, "duplicate")
    BY <2>2, <2>3, JustifiedKept DEF Matches, JustifiedAfter
  <2>. HIDE DEF Goal
  <2>. QED
    BY <1>4, <1>a, <2>1, <2>4, NextRow
<1>5. CASE LinkRow(w)
  <2>1. \E m \in {"new", "committed"} :
           staging' = [staging EXCEPT ![<<work[w].job, work[w].row>>] = [match |-> m, target |-> work[w].tx]]
    BY <1>5 DEF LinkRow
  <2>2. Known(work[w].file[work[w].row].line)
    BY <1>0, <1>5 DEF LinkRow, PassedRowsKnown
  <2>3. ~work[w].file[work[w].row].bad
    BY <1>5, NextRow DEF Justified
  <2>4. \A m \in {"new", "committed"} : m \in Matches /\ JustifiedAfter(work[w].file, work[w].row, m)
    BY <2>2, <2>3, JustifiedKept DEF Matches, JustifiedAfter
  <2>. HIDE DEF Goal
  <2>. QED
    BY <1>5, <1>a, <2>1, <2>4, NextRow
<1>6. CASE PersistRows(w)
  <2>1. job[work[w].job].kind = "amazon"
    BY <1>0, <1>6 DEF PersistRows, OnOrders, OrderPhases
  <2>. QED
    BY <1>0, <1>6, <2>1 DEF PersistRows
<1>7. CASE \/ \E i \in Jobs, kind \in Kinds, f \in Files : BeginPreview(w, i, kind, f)
           \/ \E i \in Jobs, f \in OrderFiles : PersistJob(w, i, f)
           \/ \E i \in Jobs : BeginCommit(w, i) \/ ReviewOrders(w, i)
           \/ FinishPreview(w) \/ FinishCommit(w) \/ FindNothing(w) \/ CreateTransaction(w)
           \/ ReviewStock(w) \/ LookupOrders(w) \/ BookOrders(w)
           \/ CashRow(w) \/ CommitCash(w) \/ \E f \in CashFiles : BeginCash(w, f)
           \/ Die(w)
  <2>1. staging' = staging
    BY <1>7 DEF BeginPreview, PersistJob, BeginCommit, ReviewOrders, FinishPreview, FinishCommit,
        FindNothing, CreateTransaction, ReviewStock, LookupOrders, BookOrders, CashRow,
        CommitCash, BeginCash, Die
  <2>. QED
    BY SMTT(30), <2>1
<1>. QED
  BY <1>1, <1>2, <1>3, <1>4, <1>5, <1>6, <1>7 DEF Acts, Advance, AdvanceOrders, AdvanceCash

\* Who stores a row.
LEMMA RowsStored ==
    ASSUME IInv, NEW w \in Workers, Acts(w), NEW j \in Jobs, NEW n \in RowNos,
           ~Staged(j, n), Staged(j, n)'
    PROVE  \/ PreviewRow(w) /\ work[w].job = j /\ work[w].kind = "expense"
              /\ n = Len(work[w].matches) + 1
           \/ StoreIncomeRows(w) /\ work[w].job = j
           \/ PersistRows(w) /\ job[j].kind = "amazon"
           \/ /\ work[w].phase \in CommitPhases /\ work[w].kind = "direct" /\ work[w].job = j
<1>. USE DEF Staged
<1>0. /\ staging \in [Rows -> [match : Matches \cup {"none", "pending"}, target : 0..MaxTransactions]]
      /\ <<j, n>> \in Rows /\ OnOrders(w) /\ RowsAsRead
  BY DEF IInv, TypeOK, Rows
<1>a. ASSUME NEW i, NEW r, staging' = [staging EXCEPT ![i] = r] PROVE i = <<j, n>>
  BY <1>0, <1>a
<1>1. CASE PreviewRow(w)
  <2>. DEFINE m == Len(work[w].matches) + 1
  <2>1. work[w].kind = "expense"
    BY <1>1 DEF PreviewRow
  <2>2. \E r : staging' = [staging EXCEPT ![<<work[w].job, m>>] = r]
    BY <1>1, <2>1 DEF PreviewRow
  <2>3. <<work[w].job, m>> = <<j, n>>
    BY <1>a, <2>2
  <2>. QED
    BY <1>1, <2>1, <2>3
<1>2. CASE StoreIncomeRows(w)
  BY <1>0, <1>2 DEF StoreIncomeRows
<1>3. CASE PersistRows(w)
  BY <1>0, <1>3 DEF PersistRows, OnOrders, OrderPhases
<1>4. CASE PassRow(w) \/ MarkDuplicate(w) \/ LinkRow(w)
  <2>1. /\ \E r : staging' = [staging EXCEPT ![<<work[w].job, work[w].row>>] = r]
        /\ PassRow(w) => work[w].kind = "direct"
    BY <1>4 DEF PassRow, MarkDuplicate, LinkRow
  <2>2. <<work[w].job, work[w].row>> = <<j, n>>
    BY <1>a, <2>1
  <2>3. work[w].phase \in CommitPhases
    BY <1>4 DEF PassRow, MarkDuplicate, LinkRow, CommitPhases
  <2>4. ~PassRow(w) => work[w].matches[work[w].row] = "new" /\ work[w].row \in DOMAIN work[w].matches
    BY <1>4, NextRow DEF MarkDuplicate
  <2>5. work[w].kind = "direct"
    BY <1>0, <2>1, <2>2, <2>3, <2>4 DEF RowsAsRead
  <2>. QED
    BY <2>2, <2>3, <2>5
<1>5. CASE \/ \E i \in Jobs, kind \in Kinds, f \in Files : BeginPreview(w, i, kind, f)
           \/ \E i \in Jobs, f \in OrderFiles : PersistJob(w, i, f)
           \/ \E i \in Jobs : BeginCommit(w, i) \/ ReviewOrders(w, i)
           \/ FinishPreview(w) \/ FinishCommit(w) \/ FindNothing(w) \/ CreateTransaction(w)
           \/ ReviewStock(w) \/ LookupOrders(w) \/ BookOrders(w)
           \/ CashRow(w) \/ CommitCash(w) \/ \E f \in CashFiles : BeginCash(w, f)
           \/ Die(w)
  <2>1. staging' = staging
    BY <1>5 DEF BeginPreview, PersistJob, BeginCommit, ReviewOrders, FinishPreview, FinishCommit,
        FindNothing, CreateTransaction, ReviewStock, LookupOrders, BookOrders, CashRow,
        CommitCash, BeginCash, Die
  <2>. QED
    BY SMTT(30), <2>1
<1>. QED
  BY <1>1, <1>2, <1>3, <1>4, <1>5 DEF Acts, Advance, AdvanceOrders, AdvanceCash

\* What a preview has yet to store is not there, what a commit has read is.
LEMMA StepRowsAsRead == IInv /\ [Next]_vars => RowsAsRead'
<1>. DEFINE After(j, n) == staging'[<<j, n>>].match # "none"
            Unstored(w) == work[w].phase = "preview" =>
               \A n \in RowNos :
                   work[w].kind = "income" \/ n > Len(work[w].matches) => ~Staged(work[w].job, n)
            ReadRows(w) == work[w].phase \in CommitPhases /\ work[w].kind # "direct" =>
               \A n \in DOMAIN work[w].matches :
                   work[w].matches[n] # "none" => Staged(work[w].job, n)
<1>. SUFFICES ASSUME IInv, [Next]_vars, NEW w \in Workers PROVE Unstored(w)' /\ ReadRows(w)'
  BY DEF RowsAsRead
<1>0. /\ TypeOK /\ Unstored(w) /\ ReadRows(w) /\ PreviewsAlone /\ DirectRows /\ StatusesJustified
      /\ DOMAIN job = Jobs /\ DOMAIN work = Workers
      /\ CommitPhases \subseteq FilePhases /\ {"preview", "stored"} \subseteq FilePhases
      /\ "amazon" \notin FileKinds
  BY DEF IInv, FileKinds, TypeOK, FilePhases, RowsAsRead
<1>1. \A j \in Jobs, n \in RowNos : Staged(j, n) => After(j, n)
  BY StagedKept DEF Staged
<1>2. work[w].phase \in CommitPhases =>
          work[w].job \in Jobs /\ DOMAIN work[w].matches \subseteq RowNos
  BY <1>0, RequestFacts, FilesAreSequences
\* A commit that goes on, or whose worker does not move.
<1>3. ASSUME work[w].phase \in CommitPhases, Same(w) PROVE ReadRows(w)'
  BY <1>0, <1>1, <1>2, <1>3 DEF Same, Staged
<1>4. ASSUME NEW j \in Jobs, BeginCommit(w, j) PROVE ReadRows(w)'
  <2>1. /\ work'[w].job = j
        /\ work'[w].matches = [n \in DOMAIN job[j].file |-> staging[<<j, n>>].match]
    BY <1>4, RequestAfter
  <2>2. staging' = staging
    BY <1>4 DEF BeginCommit
  <2>. QED
    BY <2>1, <2>2 DEF Staged
\* A preview, during a step of another worker: nobody else stores rows of its job.
<1>5. ASSUME work[w].phase = "preview", work'[w] = work[w], NEW n \in RowNos, ~Staged(work[w].job, n)
      PROVE  ~After(work[w].job, n)
  <2>1. /\ work[w].job \in Jobs /\ job[work[w].job].kind \in FileKinds
        /\ job[work[w].job].kind # "direct"
    BY <1>0, <1>5, RequestFacts DEF PreviewsAlone
  <2>2. ASSUME NEW a \in Workers, a # w, Acts(a), After(work[w].job, n) PROVE FALSE
    <3>1. work[a].phase \in {"preview", "stored"} => work[a].job # work[w].job
      BY <1>0, <1>5, <2>2 DEF PreviewsAlone, Others
    <3>2. PreviewRow(a) \/ StoreIncomeRows(a) => work[a].phase \in {"preview", "stored"}
      BY DEF PreviewRow, StoreIncomeRows
    <3>3. ~(work[a].phase \in CommitPhases /\ work[a].kind = "direct" /\ work[a].job = work[w].job)
      BY <1>0, <2>1 DEF DirectRows
    <3>. QED
      BY <1>0, <1>5, <2>1, <2>2, <3>1, <3>2, <3>3, RowsStored DEF Staged
  <2>3. ASSUME Acts(w) PROVE ~After(work[w].job, n)
    <3>1. work'[w].phase = "preview" /\ work'[w].matches = work[w].matches
      BY <1>5
    <3>2. ~PreviewRow(w)
      <4>1. PreviewRow(w) => \E m : work'[w].matches = Append(work[w].matches, m)
        BY <1>0 DEF PreviewRow
      <4>. QED
        BY <3>1, <4>1, RequestFacts
    <3>3. ~StoreIncomeRows(w)
      <4>1. StoreIncomeRows(w) => work'[w].phase = "stored"
        BY <1>0 DEF StoreIncomeRows
      <4>. QED
        BY <3>1, <4>1
    <3>4. ~PersistRows(w) /\ work[w].phase \notin CommitPhases
      BY <1>5 DEF PersistRows, CommitPhases
    <3>. QED
      BY <1>5, <2>1, <2>3, <3>2, <3>3, <3>4, RowsStored DEF Staged
  <2>4. CASE UNCHANGED staging
    BY <1>5, <2>4 DEF Staged
  <2>. QED
    BY <2>2, <2>3, <2>4, OneWorker
<1>6. ASSUME work'[w] = work[w] PROVE Unstored(w)' /\ ReadRows(w)'
  <2>1. ReadRows(w)'
    BY <1>3, <1>6 DEF Same
  <2>2. Unstored(w)'
    BY SMTT(30), <1>0, <1>5, <1>6 DEF Staged
  <2>. QED
    BY <2>1, <2>2
<1>7. ASSUME PreviewRow(w) PROVE Unstored(w)'
  <2>1. /\ work[w].phase = "preview" /\ work'[w].job = work[w].job /\ work'[w].kind = work[w].kind
        /\ \E m : work'[w].matches = Append(work[w].matches, m)
    BY <1>0, <1>7 DEF PreviewRow
  <2>2. Len(work'[w].matches) = Len(work[w].matches) + 1 /\ Len(work[w].matches) \in Nat
    BY <2>1, RequestFacts
  <2>4. CASE work[w].kind = "income"
    <3>1. staging' = staging
      BY <1>7, <2>4 DEF PreviewRow
    <3>. QED
      BY <1>0, <2>1, <2>4, <3>1 DEF Staged
  <2>5. CASE work[w].kind = "expense"
    <3>. DEFINE m == Len(work[w].matches) + 1
    <3>1. \E r : staging' = [staging EXCEPT ![<<work[w].job, m>>] = r]
      BY <1>7, <2>5 DEF PreviewRow
    <3>2. ASSUME NEW n \in RowNos, n > m PROVE staging'[<<work[w].job, n>>] = staging[<<work[w].job, n>>]
      BY <2>2, <3>1, <3>2
    <3>3. ASSUME NEW n \in RowNos, n > m PROVE ~Staged(work[w].job, n)
      BY <1>0, <2>1, <2>2, <3>3 DEF RowNos
    <3>. QED
      BY <2>1, <2>2, <2>5, <3>2, <3>3 DEF Staged
  <2>. QED
    BY <1>7, <2>4, <2>5 DEF PreviewRow
<1>8. ASSUME NEW j \in Jobs, NEW kind \in Kinds, NEW f \in Files, BeginPreview(w, j, kind, f)
      PROVE  Unstored(w)' /\ ReadRows(w)'
  <2>1. job[j].kind = "none" /\ staging' = staging /\ work'[w].job = j /\ work'[w].kind = kind
        /\ work'[w].phase = IF kind = "direct" THEN "rows" ELSE "preview"
    BY <1>0, <1>8 DEF BeginPreview, Unused, Free
  <2>2. \A n \in RowNos : ~Staged(j, n)
    BY <1>0, <2>1 DEF StatusesJustified
  <2>. QED
    BY <2>1, <2>2 DEF Staged, CommitPhases
<1>9. ASSUME Acts(w) PROVE Unstored(w)' /\ ReadRows(w)'
  <2>1. CASE work'[w].phase \in CommitPhases
    <3>1. ASSUME NEW j \in Jobs, NEW f \in Files, BeginPreview(w, j, "direct", f) PROVE ReadRows(w)'
      <4>1. work'[w].kind = "direct"
        BY <1>0, <3>1 DEF BeginPreview, Free
      <4>. QED
        BY <4>1
    <3>2. ReadRows(w)'
      BY <1>3, <1>4, <1>9, <2>1, <3>1, CommitGoesOn
    <3>. QED
      BY <2>1, <3>2 DEF CommitPhases
  <2>2. CASE work'[w].phase \notin CommitPhases
    <3>1. CASE \/ PassRow(w) \/ MarkDuplicate(w) \/ LinkRow(w) \/ FinishPreview(w) \/ FinishCommit(w)
               \/ FindNothing(w) \/ CreateTransaction(w) \/ AdvanceOrders(w) \/ AdvanceCash(w) \/ Die(w)
               \/ \E j \in Jobs : BeginCommit(w, j) \/ ReviewOrders(w, j)
               \/ \E j \in Jobs, f \in OrderFiles : PersistJob(w, j, f)
               \/ \E f \in CashFiles : BeginCash(w, f)
      <4>1. work'[w].phase # "preview"
        BY <3>1, RequestAfter DEF AdvanceOrders, AdvanceCash
      <4>. QED
        BY <2>2, <4>1
    <3>2. CASE StoreIncomeRows(w)
      <4>1. work'[w].phase = "stored"
        BY <1>0, <3>2 DEF StoreIncomeRows
      <4>. QED
        BY <2>2, <4>1
    <3>. QED
      BY <1>7, <1>8, <1>9, <2>2, <3>1, <3>2 DEF Acts, Advance
  <2>. QED
    BY <2>1, <2>2
<1>. QED
  BY <1>6, <1>9, OneWorker

\* The statuses keep saying the truth.
LEMMA StepStatusesJustified == IInv /\ [Next]_vars => StatusesJustified'
<1>. DEFINE SaysTruth(w, n) ==
       work'[w].matches[n] # "none" => JustifiedAfter(work'[w].file, n, work'[w].matches[n])
<1>. SUFFICES ASSUME IInv, [Next]_vars PROVE StatusesJustified'
  OBVIOUS
<1>0. /\ TypeOK /\ StatusesJustified /\ DOMAIN job = Jobs /\ DOMAIN work = Workers
      /\ "none" \notin FileKinds /\ "amazon" \notin FileKinds
      /\ "none" \notin Matches /\ "pending" \notin Matches
      /\ \A w \in Workers : OnOrders(w)
      /\ \A j \in Jobs : job[j].kind \in AllKinds \cup {"none"} /\ job[j].file \in AllFiles
      /\ \A j \in Jobs : job'[j].kind \in AllKinds \cup {"none"} /\ job'[j].file \in AllFiles
  BY StepTypeOK DEF IInv, TypeOK, FileKinds, Matches
<1>1. \A f, n, m : Justified(f, n, m) => JustifiedAfter(f, n, m)
  BY JustifiedKept
<1>2. \A j \in Jobs : DOMAIN job[j].file \subseteq RowNos /\ DOMAIN job'[j].file \subseteq RowNos
  BY <1>0, FilesAreSequences
\* A staging row, whoever has written it.
<1>3. ASSUME NEW j \in Jobs, NEW n \in RowNos
      PROVE  \/ staging'[<<j, n>>] = staging[<<j, n>>]
             \/ /\ job[j].kind \in FileKinds
                /\ staging'[<<j, n>>].match \in Matches
                /\ JustifiedAfter(job[j].file, n, staging'[<<j, n>>].match)
             \/ job[j].kind = "amazon"
  BY <1>3, Written, OneWorker
<1>4. ASSUME NEW j \in Jobs, job'[j].kind \in FileKinds, NEW n \in DOMAIN job'[j].file
      PROVE  /\ staging'[<<j, n>>].match # "pending"
             /\ staging'[<<j, n>>].match # "none" =>
                   JustifiedAfter(job'[j].file, n, staging'[<<j, n>>].match)
  <2>1. n \in RowNos
    BY <1>2
  <2>2. CASE job[j].kind = "none"
    <3>1. staging'[<<j, n>>] = staging[<<j, n>>]
      BY <1>0, <1>3, <2>1, <2>2
    <3>2. staging[<<j, n>>].match = "none"
      BY <1>0, <2>1, <2>2 DEF StatusesJustified, Staged
    <3>. QED
      BY <3>1, <3>2
  <2>3. CASE job[j].kind # "none"
    <3>1. job'[j].file = job[j].file /\ job[j].kind \in FileKinds
      BY <1>0, <1>4, <2>3, JobsKept
    <3>2. /\ staging[<<j, n>>].match # "pending"
          /\ staging[<<j, n>>].match # "none" => Justified(job[j].file, n, staging[<<j, n>>].match)
      BY <1>0, <1>4, <3>1 DEF StatusesJustified, Staged
    <3>. QED
      BY <1>0, <1>1, <1>3, <2>1, <3>1, <3>2
  <2>. QED
    BY <2>2, <2>3
<1>5. ASSUME NEW j \in Jobs, job'[j].kind = "none", NEW n \in RowNos
      PROVE  staging'[<<j, n>>].match = "none"
  <2>1. job[j].kind = "none"
    BY <1>0, <1>5, JobsKept
  <2>2. staging[<<j, n>>].match = "none"
    BY <1>0, <2>1 DEF StatusesJustified, Staged
  <2>. QED
    BY <1>0, <1>3, <2>1, <2>2
\* The statuses a request works from.
<1>6. ASSUME NEW w \in Workers, work[w].phase \in FilePhases, Same(w), NEW n \in DOMAIN work[w].matches
      PROVE  SaysTruth(w, n)
  BY <1>0, <1>1, <1>6 DEF Same, StatusesJustified
<1>7. ASSUME NEW w \in Workers, PreviewRow(w), NEW n \in DOMAIN work'[w].matches
      PROVE  SaysTruth(w, n)
  <2>. DEFINE i == Len(work[w].matches) + 1
              m == PreviewMatch(work[w], work[w].file[i])
  <2>1. /\ work[w].phase = "preview" /\ work'[w].file = work[w].file
        /\ work'[w].matches = Append(work[w].matches, m)
    BY <1>0, <1>7 DEF PreviewRow
  <2>2. Justified(work[w].file, i, m)
    <3>1. work[w].seen \subseteq {work[w].file[k].line : k \in DOMAIN work[w].matches}
      BY <2>1 DEF IInv, PreviewsAlone
    <3>2. \A k \in DOMAIN work[w].matches : k \in DOMAIN work[w].file /\ k < i
      BY <2>1, RequestFacts DEF FilePhases
    <3>. QED
      BY <3>1, <3>2 DEF Justified, PreviewMatch, Known
  <2>3. CASE n = i
    BY <1>1, <2>1, <2>2, <2>3, RequestFacts
  <2>4. CASE n # i
    <3>1. n \in DOMAIN work[w].matches /\ work'[w].matches[n] = work[w].matches[n]
      BY <1>7, <2>1, <2>4, RequestFacts
    <3>2. work[w].matches[n] # "none" => Justified(work[w].file, n, work[w].matches[n])
      BY <1>0, <2>1, <3>1 DEF StatusesJustified, FilePhases
    <3>. QED
      BY <1>1, <2>1, <3>1, <3>2
  <2>. QED
    BY <2>3, <2>4
<1>8. ASSUME NEW w \in Workers, NEW j \in Jobs, BeginCommit(w, j), NEW n \in DOMAIN work'[w].matches
      PROVE  SaysTruth(w, n)
  <2>1. /\ work'[w].file = job[j].file
        /\ work'[w].matches = [i \in DOMAIN job[j].file |-> staging[<<j, i>>].match]
    BY <1>8, RequestAfter
  <2>2. job[j].kind \in FileKinds /\ n \in DOMAIN job[j].file
    BY <1>8, <2>1 DEF BeginCommit
  <2>3. staging[<<j, n>>].match # "none" => Justified(job[j].file, n, staging[<<j, n>>].match)
    BY <1>0, <2>2 DEF StatusesJustified, Staged
  <2>. QED
    BY <1>1, <2>1, <2>2, <2>3
<1>9. ASSUME NEW w \in Workers, NEW j \in Jobs, NEW kind \in Kinds, NEW f \in Files,
             BeginPreview(w, j, kind, f), NEW n \in DOMAIN work'[w].matches
      PROVE  SaysTruth(w, n)
  <2>1. /\ work'[w].file = f
        /\ work'[w].matches = IF kind = "direct"
                              THEN [i \in DOMAIN f |-> IF f[i].bad THEN "error" ELSE "new"] ELSE <<>>
    BY <1>0, <1>9 DEF BeginPreview, Free
  <2>2. work'[w].matches # <<>>
    BY <1>9
  <2>3. /\ n \in DOMAIN f
        /\ work'[w].matches[n] = IF f[n].bad THEN "error" ELSE "new"
    BY <1>9, <2>1, <2>2
  <2>. QED
    BY <2>1, <2>3 DEF JustifiedAfter
<1>10. ASSUME NEW w \in Workers, Acts(w), work'[w].phase \in FilePhases, NEW n \in DOMAIN work'[w].matches
       PROVE  SaysTruth(w, n)
  <2>1. CASE \/ PassRow(w) \/ MarkDuplicate(w) \/ LinkRow(w) \/ FindNothing(w) \/ CreateTransaction(w)
             \/ StoreIncomeRows(w)
    <3>1. Same(w) /\ work[w].phase \in FilePhases
      <4>1. CASE StoreIncomeRows(w)
        BY <1>0, <4>1 DEF StoreIncomeRows, Same, FilePhases
      <4>. QED
        BY <2>1, <4>1, RequestAfter DEF FilePhases, CommitPhases
    <3>. QED
      BY <1>6, <1>10, <3>1 DEF Same
  <2>2. CASE \/ FinishPreview(w) \/ FinishCommit(w) \/ AdvanceOrders(w) \/ AdvanceCash(w) \/ Die(w)
             \/ \E j \in Jobs : ReviewOrders(w, j)
             \/ \E j \in Jobs, f \in OrderFiles : PersistJob(w, j, f)
             \/ \E f \in CashFiles : BeginCash(w, f)
    <3>1. work'[w].phase \in {"idle", "persist", "review", "reviewed", "book", "cash"}
      BY <2>2, RequestAfter DEF AdvanceOrders, AdvanceCash
    <3>. QED
      BY <1>10, <3>1 DEF FilePhases, CommitPhases
  <2>. QED
    BY <1>7, <1>8, <1>9, <1>10, <2>1, <2>2 DEF Acts, Advance
<1>11. ASSUME NEW w \in Workers, work'[w].phase \in FilePhases, NEW n \in DOMAIN work'[w].matches
       PROVE  SaysTruth(w, n)
  <2>1. CASE work'[w] = work[w]
    BY <1>6, <1>11, <2>1 DEF Same
  <2>. QED
    BY <1>10, <1>11, <2>1, OneWorker
<1>. QED
  BY <1>4, <1>5, <1>11 DEF StatusesJustified, Staged, Justified, JustifiedAfter, Known, Booked, KnownAfter

\* A request that counted no error has what it passed in the ledger.
LEMMA StepPassedRowsKnown == IInv /\ [Next]_vars => PassedRowsKnown'
<1>. DEFINE Passed(w) == work'[w].phase \in CommitPhases /\ ~work'[w].failed /\ ReadWhole(work'[w]) =>
                \A n \in DOMAIN work'[w].file :
                   n < work'[w].row => ~work'[w].file[n].bad /\ KnownAfter(work'[w].file[n].line)
            Linked(w) == work'[w].phase = "link" => KnownAfter(work'[w].file[work'[w].row].line)
<1>. SUFFICES ASSUME IInv, [Next]_vars, NEW w \in Workers PROVE Passed(w) /\ Linked(w)
  BY DEF PassedRowsKnown, KnownAfter, Known, Booked
<1>0. /\ PassedRowsKnown /\ DOMAIN work = Workers /\ CommitPhases \subseteq FilePhases
      /\ \A l : Known(l) => KnownAfter(l)
      /\ DOMAIN work[w].file \subseteq Nat /\ work[w].row \in Nat
  <2>1. DOMAIN work[w].file = 1..Len(work[w].file) /\ work[w].row \in 1..MaxRows + 1
    BY RequestFacts, FilesAreSequences
  <2>. QED
    BY <2>1, JustifiedKept DEF IInv, TypeOK, FilePhases
<1>1. ASSUME work'[w].file = work[w].file, work'[w].row = work[w].row,
             work'[w].matches = work[w].matches, work[w].phase \in CommitPhases, work'[w].failed = work[w].failed
      PROVE  Passed(w)
  BY <1>0, <1>1 DEF PassedRowsKnown, ReadWhole
<1>2. CASE work'[w] = work[w]
  BY <1>0, <1>1, <1>2 DEF PassedRowsKnown
<1>3. ASSUME PassRow(w) \/ MarkDuplicate(w) \/ LinkRow(w) PROVE Passed(w) /\ Linked(w)
  <2>1. /\ work'[w].phase = "rows" /\ work'[w].row = work[w].row + 1 /\ Same(w)
        /\ work[w].failed => work'[w].failed
        /\ work[w].phase \in CommitPhases
    BY <1>3, RequestAfter DEF CommitPhases
  <2>. SUFFICES ASSUME ~work'[w].failed, ReadWhole(work[w]),
                       NEW n \in DOMAIN work[w].file, n < work[w].row + 1
                PROVE  ~work[w].file[n].bad /\ KnownAfter(work[w].file[n].line)
    <3>1. ReadWhole(work'[w]) => ReadWhole(work[w])
      BY <2>1 DEF Same, ReadWhole
    <3>. QED
      BY <2>1, <3>1 DEF Same
  <2>2. CASE n < work[w].row
    BY <1>0, <2>1, <2>2 DEF PassedRowsKnown
  <2>3. CASE n = work[w].row
    <3>1. work[w].matches[n] # "none" /\ Justified(work[w].file, n, work[w].matches[n])
      BY <1>3, <2>3, NextRow DEF ReadWhole
    <3>2. CASE PassRow(w)
      <4>1. ~CountsAsError(work[w].kind, work[w].matches[n]) /\ work[w].matches[n] # "new"
        BY <2>3, <3>2, RequestAfter DEF PassRow
      <4>2. work[w].matches[n] \in {"duplicate", "committed"}
        BY <2>3, <3>1, <3>2, <4>1, NextRow, RequestFacts DEF CountsAsError, Matches, ReadMatches
      <4>3. ASSUME NEW m \in DOMAIN work[w].file, m < n PROVE Known(work[w].file[m].line)
        BY <1>0, <2>1, <2>3, <4>3 DEF PassedRowsKnown
      <4>. QED
        BY SMTT(30), <1>0, <3>1, <4>2, <4>3 DEF Justified
    <3>3. CASE MarkDuplicate(w)
      <4>1. Known(work[w].file[n].line) /\ work[w].matches[n] = "new"
        BY <2>3, <3>3 DEF MarkDuplicate, Lookup, Known
      <4>. QED
        BY <1>0, <3>1, <4>1 DEF Justified
    <3>4. CASE LinkRow(w)
      <4>1. Known(work[w].file[n].line) /\ work[w].matches[n] = "new"
        BY <1>0, <2>3, <3>4, NextRow DEF LinkRow, PassedRowsKnown
      <4>. QED
        BY <1>0, <3>1, <4>1 DEF Justified
    <3>. QED
      BY <1>3, <3>2, <3>3, <3>4
  <2>. QED
    BY <1>0, <2>2, <2>3
<1>4. ASSUME FindNothing(w) PROVE Passed(w) /\ Linked(w)
  BY <1>1, <1>4, RequestAfter DEF Same, CommitPhases
<1>5. ASSUME CreateTransaction(w) PROVE Passed(w) /\ Linked(w)
  <2>1. Passed(w)
    BY <1>1, <1>5, RequestAfter DEF Same, CommitPhases
  <2>2. work'[w].file = work[w].file /\ work'[w].row = work[w].row
    BY <1>5, RequestAfter DEF Same
  <2>3. KnownAfter(work[w].file[work[w].row].line)
    <3>. DEFINE t == [id |-> lastTx + 1, line |-> work[w].file[work[w].row].line, job |-> work[w].job,
                      row |-> work[w].row]
    <3>1. t \in ledger' /\ t.line = work[w].file[work[w].row].line
      BY <1>5 DEF CreateTransaction
    <3>. HIDE DEF t
    <3>. QED
      BY <3>1 DEF KnownAfter
  <2>. QED
    BY <2>1, <2>2, <2>3
<1>6. ASSUME work'[w].phase = "rows", work'[w].row = 1, work'[w].file \in AllFiles
      PROVE  Passed(w) /\ Linked(w)
  BY <1>6, FilesAreSequences
<1>7. ASSUME Acts(w), work'[w].phase \in CommitPhases PROVE Passed(w) /\ Linked(w)
  <2>1. ASSUME NEW j \in Jobs, NEW f \in Files, BeginPreview(w, j, "direct", f)
        PROVE  work'[w].phase = "rows" /\ work'[w].row = 1
    BY <1>0, <2>1 DEF BeginPreview, Free
  <2>2. work'[w].file \in AllFiles
    BY StepTypeOK DEF TypeOK
  <2>. QED
    BY <1>3, <1>4, <1>5, <1>6, <1>7, <2>1, <2>2, CommitGoesOn, RequestAfter
<1>. QED
  BY <1>2, <1>7, OneWorker DEF CommitPhases

\* The transactions that a step adds to the ledger: of a row, of the orders of a
\* job, of the rows of cash income.
OfRow(w, t) ==
    /\ work[w].job \in Jobs /\ job[work[w].job].kind \in FileKinds
    /\ work[w].file = job[work[w].job].file
    /\ work[w].row \in DOMAIN work[w].file /\ ~work[w].file[work[w].row].bad
    /\ t = [id |-> lastTx + 1, line |-> work[w].file[work[w].row].line,
            job |-> work[w].job, row |-> work[w].row]
OfOrders(w, t) ==
    /\ work[w].job \in Jobs /\ job[work[w].job].kind = "amazon"
    /\ work[w].file = job[work[w].job].file
    /\ t.job = work[w].job /\ t.row \in DOMAIN work[w].file
    /\ t.line = work[w].file[t.row].line /\ t.line \notin work[w].seen /\ t.id > lastTx
OfCash(w, t) ==
    /\ t.job = NoJob /\ t.row \in DOMAIN work[w].file
    /\ t.line = work[w].file[t.row].line /\ work[w].matches[t.row] = "new"
    /\ t.row \in DOMAIN work[w].matches /\ t.id > lastTx
NewTransactions == ledger' \ ledger
RowsDiffer == \A t, u \in NewTransactions : t.row = u.row => t = u

LEMMA Created ==
    ASSUME IInv, [Next]_vars, NewTransactions # {}
    PROVE  \E w \in Workers :
              \/ CreateTransaction(w) /\ \A t \in NewTransactions : OfRow(w, t)
              \/ BookOrders(w) /\ RowsDiffer /\ \A t \in NewTransactions : OfOrders(w, t)
              \/ CommitCash(w) /\ RowsDiffer /\ \A t \in NewTransactions : OfCash(w, t)
<1>0. TypeOK /\ StatusesJustified /\ lastTx \in Nat /\ \A w \in Workers : OnFile(w) /\ OnOrders(w) /\ OnCash(w)
  BY DEF IInv, TypeOK
<1>1. ASSUME NEW w \in Workers, CreateTransaction(w), NEW t \in NewTransactions
      PROVE  OfRow(w, t)
  <2>1. work[w].phase = "create" /\ work[w].phase \in FilePhases /\ work[w].phase \in CommitPhases
    BY <1>1 DEF CreateTransaction, FilePhases, CommitPhases
  <2>2. /\ work[w].row \in DOMAIN work[w].file /\ work[w].row \in DOMAIN work[w].matches
        /\ work[w].matches[work[w].row] = "new"
    BY <1>0, <2>1, RequestFacts DEF OnFile
  <2>3. ~work[w].file[work[w].row].bad
    BY <1>0, <2>1, <2>2 DEF StatusesJustified, Justified
  <2>. QED
    BY <1>1, <2>1, <2>2, <2>3, RequestFacts DEF CreateTransaction, OfRow, NewTransactions
<1>2. ASSUME NEW w \in Workers, BookOrders(w)
      PROVE  RowsDiffer /\ \A t \in NewTransactions : OfOrders(w, t)
  <2>. DEFINE new == {n \in DOMAIN work[w].file :
                ~work[w].file[n].bad /\ ~work[w].file[n].free /\ work[w].file[n].line \notin work[w].seen}
  <2>1. work[w].job \in Jobs /\ job[work[w].job].kind = "amazon" /\ work[w].file = job[work[w].job].file
    BY <1>0, <1>2 DEF BookOrders, OnOrders, OrderPhases
  <2>2. CreateAll(work[w].job, work[w].file, new) /\ work[w].file \in AllFiles
    BY <1>2, RequestFacts DEF BookOrders
  <2>3. /\ RowsDiffer
        /\ \A t \in NewTransactions : \E n \in new : \E id \in lastTx + 1..lastTx' :
              t = [id |-> id, line |-> work[w].file[n].line, job |-> work[w].job, row |-> n]
    <3>1. new \in SUBSET DOMAIN work[w].file
      OBVIOUS
    <3>. HIDE DEF new
    <3>. QED
      BY <1>0, <2>1, <2>2, <3>1, CreateAllFacts DEF NewTransactions, RowsDiffer
  <2>. QED
    BY <1>0, <2>1, <2>3 DEF OfOrders
<1>3. ASSUME NEW w \in Workers, CommitCash(w)
      PROVE  RowsDiffer /\ \A t \in NewTransactions : OfCash(w, t)
  <2>. DEFINE new == {n \in DOMAIN work[w].file : work[w].matches[n] = "new"}
  <2>1. CreateAll(NoJob, work[w].file, new) /\ work[w].file \in AllFiles
        /\ Len(work[w].matches) = Len(work[w].file)
    BY <1>3, RequestFacts DEF CommitCash
  <2>2. /\ RowsDiffer
        /\ \A t \in NewTransactions : \E n \in new : \E id \in lastTx + 1..lastTx' :
              t = [id |-> id, line |-> work[w].file[n].line, job |-> NoJob, row |-> n]
    <3>1. new \in SUBSET DOMAIN work[w].file
      OBVIOUS
    <3>. HIDE DEF new
    <3>. QED
      BY <1>0, <2>1, <3>1, CreateAllFacts DEF NewTransactions, RowsDiffer
  <2>3. DOMAIN work[w].matches = DOMAIN work[w].file
    BY <2>1, RequestFacts, FilesAreSequences
  <2>. QED
    BY <1>0, <2>2, <2>3 DEF OfCash
<1>4. ASSUME NEW w \in Workers, Acts(w), ~CreateTransaction(w), ~BookOrders(w), ~CommitCash(w) PROVE FALSE
  <2>1. ledger' = ledger
    BY <1>4 DEF Acts, Advance, AdvanceOrders, AdvanceCash, BeginPreview, PersistJob, BeginCommit,
        ReviewOrders, PreviewRow, StoreIncomeRows, FinishPreview, FinishCommit, PassRow,
        MarkDuplicate, FindNothing, LinkRow, PersistRows, ReviewStock, LookupOrders, CashRow, BeginCash, Die
  <2>. QED
    BY <2>1 DEF NewTransactions
<1>5. ASSUME NEW u \in ledger, DeleteTransaction(u) PROVE FALSE
  BY <1>5 DEF DeleteTransaction, NewTransactions
<1>. QED
  BY <1>1, <1>2, <1>3, <1>4, <1>5, OneWorker DEF NewTransactions

\* A transaction of a job stays one of a row of its file.
LEMMA StepTransactionsOfRows == IInv /\ [Next]_vars => TransactionsOfRows'
<1>. SUFFICES ASSUME IInv, [Next]_vars, NEW t \in ledger', t.job # NoJob
              PROVE  /\ job'[t.job].kind \in AllKinds
                     /\ job'[t.job].kind \in FileKinds =>
                           /\ t.row \in DOMAIN job'[t.job].file
                           /\ t.line = job'[t.job].file[t.row].line /\ ~job'[t.job].file[t.row].bad
                           /\ job'[t.job].kind # "direct" => Staged(t.job, t.row)'
  BY DEF TransactionsOfRows, Staged
<1>0. /\ TypeOK /\ TransactionsOfRows /\ DirectRows /\ RowsAsRead /\ "none" \notin AllKinds /\ FileKinds \subseteq AllKinds
      /\ "amazon" \in AllKinds \ FileKinds
  BY DEF IInv, AllKinds, FileKinds
<1>1. t.job \in Jobs
  BY StepTypeOK DEF TypeOK
<1>2. CASE t \in ledger
  <2>1. t.row \in RowNos
    BY <1>0, <1>2 DEF TypeOK
  <2>. QED
    BY <1>0, <1>1, <1>2, <2>1, JobsKept, StagedKept DEF TransactionsOfRows
<1>3. ASSUME NEW w \in Workers, CreateTransaction(w), OfRow(w, t)
      PROVE  /\ job'[t.job].kind \in AllKinds
             /\ t.row \in DOMAIN job'[t.job].file
             /\ t.line = job'[t.job].file[t.row].line /\ ~job'[t.job].file[t.row].bad
             /\ job'[t.job].kind # "direct" => Staged(t.job, t.row)'
  <2>1. job'[t.job].kind = job[t.job].kind /\ job'[t.job].file = job[t.job].file
    BY SMTT(30), <1>0, <1>3, JobsKept DEF OfRow
  <2>2. job[t.job].kind # "direct" => Staged(t.job, t.row)'
    <3>1. work[w].phase = "create" /\ work[w].phase \in CommitPhases /\ staging' = staging
      BY <1>3 DEF CreateTransaction, CommitPhases
    <3>2. work[w].matches[work[w].row] = "new" /\ work[w].row \in DOMAIN work[w].matches
      BY <3>1, RequestFacts DEF IInv, OnFile, FilePhases, CommitPhases
    <3>. QED
      BY <1>0, <1>3, <3>1, <3>2 DEF DirectRows, RowsAsRead, OfRow, Staged
  <2>. QED
    BY <1>0, <1>3, <2>1, <2>2 DEF OfRow
<1>4. ASSUME job[t.job].kind = "amazon"
      PROVE  job'[t.job].kind \in AllKinds \ FileKinds
  BY <1>0, <1>1, <1>4, JobsKept
<1>. QED
  BY <1>2, <1>3, <1>4, Created DEF NewTransactions, OfOrders, OfCash

\* A transaction about to be linked stays the one of its row, or is deleted.
LEMMA StepLinkedNext == IInv /\ [Next]_vars => LinkedNext'
<1>. SUFFICES ASSUME IInv, [Next]_vars, NEW w \in Workers, work'[w].phase = "link"
              PROVE  /\ work'[w].tx > 0
                     /\ \A t \in ledger' : t.id = work'[w].tx =>
                           /\ t.job = work'[w].job /\ t.row = work'[w].row
                           /\ t.line = work'[w].file[work'[w].row].line
                     /\ \/ \E t \in ledger' : t.id = work'[w].tx
                        \/ work'[w].file[work'[w].row].line \in removed'
  BY DEF LinkedNext
<1>0. /\ LinkedNext /\ lastTx \in Nat /\ work[w].tx \in 0..lastTx
      /\ \A t \in ledger : t.id \in 1..lastTx
  BY DEF IInv, TypeOK
<1>1. CASE CreateTransaction(w)
  <2>. DEFINE new == [id |-> lastTx + 1, line |-> work[w].file[work[w].row].line, job |-> work[w].job,
                      row |-> work[w].row]
  <2>1. /\ work'[w].tx = lastTx + 1 /\ work'[w].job = work[w].job /\ work'[w].row = work[w].row
        /\ work'[w].file = work[w].file
    BY <1>1, RequestAfter DEF Same
  <2>2. ledger' = ledger \cup {new}
    BY <1>1 DEF CreateTransaction
  <2>3. \A t \in ledger' : t.id = lastTx + 1 => t = new
    BY <1>0, <2>2
  <2>4. /\ new \in ledger' /\ new.id = lastTx + 1 /\ new.job = work[w].job /\ new.row = work[w].row
        /\ new.line = work[w].file[work[w].row].line
    BY <2>2
  <2>. HIDE DEF new
  <2>. QED
    BY <1>0, <2>1, <2>3, <2>4
<1>2. CASE work'[w] = work[w]
  <2>1. /\ work[w].tx > 0
        /\ \A t \in ledger : t.id = work[w].tx =>
              t.job = work[w].job /\ t.row = work[w].row /\ t.line = work[w].file[work[w].row].line
        /\ (\E t \in ledger : t.id = work[w].tx) \/ work[w].file[work[w].row].line \in removed
    BY <1>0, <1>2 DEF LinkedNext
  <2>2. \A t \in ledger' \ ledger : t.id > lastTx
    BY <1>0, Created DEF NewTransactions, OfRow, OfOrders, OfCash
  <2>3. \A t \in ledger' \ ledger : t.id # work[w].tx
    BY <1>0, <2>2
  <2>4. \/ ledger \subseteq ledger' /\ removed \subseteq removed'
        \/ \E u \in ledger : ledger' = ledger \ {u} /\ removed' = removed \cup {u.line}
    <3>1. ASSUME NEW a \in Workers, Acts(a) PROVE ledger \subseteq ledger' /\ removed \subseteq removed'
      BY <3>1 DEF Acts, Advance, AdvanceOrders, AdvanceCash, BeginPreview, PersistJob, BeginCommit,
        ReviewOrders, PreviewRow, StoreIncomeRows, FinishPreview, FinishCommit, PassRow, BookOrders,
        MarkDuplicate, FindNothing, LinkRow, PersistRows, ReviewStock, LookupOrders, CashRow, BeginCash, Die,
        CommitCash, CreateAll, CreateTransaction
    <3>. QED
      BY SMTT(30), <3>1, OneWorker DEF DeleteTransaction
  <2>. QED
    BY <1>2, <2>1, <2>3, <2>4
<1>3. ASSUME Acts(w) PROVE CreateTransaction(w)
  <2>1. work'[w].phase \in CommitPhases
    BY DEF CommitPhases
  <2>2. ASSUME NEW j \in Jobs, NEW f \in Files, BeginPreview(w, j, "direct", f) PROVE work'[w].phase = "rows"
    BY <2>2 DEF BeginPreview, Free, IInv, TypeOK
  <2>. QED
    BY <1>3, <2>1, <2>2, CommitGoesOn, RequestAfter
<1>. QED
  BY <1>1, <1>2, <1>3, OneWorker

\* The lines a request has looked up as absent, after a step.
AbsentAfter(w) ==
    LET c == work'[w] IN
    CASE c.phase = "create" -> {c.file[c.row].line}
      [] c.phase = "book" -> Hashes(c.file) \ c.seen
      [] c.phase = "cash" -> {c.file[n].line : n \in {m \in DOMAIN c.matches : c.matches[m] = "new"}}
      [] OTHER -> {}

\* A line a request adds to them is not in the ledger, and raced if another
\* request has it.
LEMMA Looked ==
    ASSUME IInv, [Next]_vars, NEW w \in Workers, Acts(w), NEW l \in AbsentAfter(w), l \notin Absent(w)
    PROVE  /\ Booked(l) = {} /\ ledger' = ledger
           /\ l \in raced' \/ \A v \in Others(w) : l \notin Absent(v)
<1>0. DOMAIN work = Workers
  BY DEF IInv, TypeOK
<1>1. CASE FindNothing(w)
  <2>1. l = work[w].file[work[w].row].line
    BY <1>1, RequestAfter DEF AbsentAfter, Same
  <2>. QED
    BY <1>1, <2>1 DEF FindNothing, Lookup
<1>2. CASE LookupOrders(w)
  <2>1. l \in Hashes(work[w].file) \ Existing(work[w].file)
    BY <1>2, RequestAfter DEF AbsentAfter, Same
  <2>2. Booked(l) = {}
    BY <2>1 DEF Existing
  <2>. QED
    BY <1>2, <2>1, <2>2 DEF LookupOrders
<1>3. CASE CashRow(w)
  <2>. DEFINE i == Len(work[w].matches) + 1
              m == IF Lookup(work[w].file[i].line) = {} THEN "new" ELSE "duplicate"
  <2>1. /\ work[w].phase = "cash" /\ work'[w].phase = "cash" /\ work'[w].file = work[w].file
        /\ work'[w].matches = Append(work[w].matches, m)
    BY <1>3, RequestAfter DEF CashRow
  <2>2. PICK n \in DOMAIN work'[w].matches : work'[w].matches[n] = "new" /\ l = work[w].file[n].line
    BY SMTT(30), <2>1 DEF AbsentAfter
  <2>3. CASE n # i
    <3>1. n \in DOMAIN work[w].matches /\ work[w].matches[n] = "new"
      BY <2>1, <2>2, <2>3, RequestFacts
    <3>. QED
      BY <2>1, <2>2, <3>1 DEF Absent
  <2>4. CASE n = i
    <3>1. m = "new"
      BY <2>1, <2>2, <2>4, RequestFacts
    <3>2. Booked(l) = {}
      BY <2>2, <2>4, <3>1 DEF Lookup
    <3>3. raced' = raced \cup {x \in {work[w].file[i].line} :
                                m = "new" /\ \E v \in Others(w) : x \in Absent(v)}
      BY <1>3 DEF CashRow
    <3>4. ledger' = ledger
      BY <1>3 DEF CashRow
    <3>. QED
      BY <2>2, <2>4, <3>1, <3>2, <3>3, <3>4
  <2>. QED
    BY SMTT(30), <2>3, <2>4
<1>4. CASE \E f \in CashFiles : BeginCash(w, f)
  BY <1>4, RequestAfter DEF AbsentAfter
<1>5. CASE \/ PreviewRow(w) \/ StoreIncomeRows(w)
           \/ \E j \in Jobs, kind \in Kinds, f \in Files : BeginPreview(w, j, kind, f)
  <2>1. work'[w].phase \in {"preview", "stored", "rows"}
    <3>1. CASE PreviewRow(w)
      BY <1>0, <3>1 DEF PreviewRow
    <3>2. CASE StoreIncomeRows(w)
      BY <1>0, <3>2 DEF StoreIncomeRows
    <3>3. CASE \E j \in Jobs, kind \in Kinds, f \in Files : BeginPreview(w, j, kind, f)
      BY <1>0, <3>3 DEF BeginPreview, Free
    <3>. QED
      BY <1>5, <3>1, <3>2, <3>3
  <2>. QED
    BY <2>1 DEF AbsentAfter
<1>6. CASE \/ FinishPreview(w) \/ PassRow(w) \/ MarkDuplicate(w) \/ LinkRow(w) \/ FinishCommit(w)
           \/ CreateTransaction(w) \/ PersistRows(w) \/ ReviewStock(w) \/ BookOrders(w) \/ CommitCash(w)
           \/ Die(w) \/ \E j \in Jobs : BeginCommit(w, j) \/ ReviewOrders(w, j)
           \/ \E j \in Jobs, f \in OrderFiles : PersistJob(w, j, f)
  <2>1. work'[w].phase \in {"idle", "rows", "link", "review", "reviewed", "persist"}
    BY <1>6, RequestAfter
  <2>. QED
    BY <2>1 DEF AbsentAfter
<1>. QED
  BY <1>1, <1>2, <1>3, <1>4, <1>5, <1>6 DEF Acts, Advance, AdvanceOrders, AdvanceCash

\* Lines raced for, requests that died and deletions are not forgotten.
LEMMA HistoryKept == [Next]_vars => raced \subseteq raced' /\ cut \subseteq cut' /\ removed \subseteq removed'
<1>. SUFFICES ASSUME [Next]_vars PROVE raced \subseteq raced' /\ cut \subseteq cut' /\ removed \subseteq removed'
  OBVIOUS
<1>1. CASE LedgerNext
  BY ZenonT(60), <1>1 DEF LedgerNext, Advance, BeginPreview, BeginCommit, PreviewRow, StoreIncomeRows,
      FinishPreview, PassRow, MarkDuplicate, FindNothing, CreateTransaction, LinkRow, FinishCommit
<1>2. CASE OrdersNext
  BY <1>2 DEF OrdersNext, AdvanceOrders, PersistJob, ReviewOrders, PersistRows, ReviewStock,
      LookupOrders, BookOrders
<1>3. CASE CashNext
  BY <1>3 DEF CashNext, AdvanceCash, BeginCash, CashRow, CommitCash
<1>4. CASE Interrupt
  BY <1>4 DEF Interrupt, Die, DeleteTransaction
<1>5. CASE UNCHANGED vars
  BY <1>5 DEF vars
<1>. QED
  BY <1>1, <1>2, <1>3, <1>4, <1>5 DEF Next

\* A line that a step books was absent to the request that books it.
LEMMA BooksAbsent ==
    ASSUME IInv, [Next]_vars, NEW t \in NewTransactions
    PROVE  \E w \in Workers : t.line \in Absent(w) /\ AbsentAfter(w) = {}
<1>1. ASSUME NEW w \in Workers, CreateTransaction(w), OfRow(w, t)
      PROVE  t.line \in Absent(w) /\ AbsentAfter(w) = {}
  BY ZenonT(60), <1>1, RequestAfter DEF Absent, AbsentAfter, OfRow
<1>2. ASSUME NEW w \in Workers, BookOrders(w), OfOrders(w, t)
      PROVE  t.line \in Absent(w) /\ AbsentAfter(w) = {}
  BY ZenonT(60), <1>2, RequestAfter DEF Absent, AbsentAfter, OfOrders, BookOrders, Hashes
<1>3. ASSUME NEW w \in Workers, CommitCash(w), OfCash(w, t)
      PROVE  t.line \in Absent(w) /\ AbsentAfter(w) = {}
  BY <1>3, RequestAfter DEF Absent, AbsentAfter, OfCash, CommitCash
<1>. QED
  BY SMTT(30), <1>1, <1>2, <1>3, Created

\* What a request is going to insert stays absent, and its own, unless raced for.
LEMMA StepAbsentUnlessRaced == IInv /\ [Next]_vars => AbsentUnlessRaced'
<1>. SUFFICES ASSUME IInv, [Next]_vars, NEW w \in Workers, NEW l \in AbsentAfter(w), l \notin raced'
              PROVE  /\ \A t \in ledger' : t.line # l
                     /\ \A v \in Others(w) : l \notin AbsentAfter(v)
  BY DEF AbsentUnlessRaced, AbsentAfter, Absent, Booked, Others
<1>0. AbsentUnlessRaced /\ l \notin raced
  BY HistoryKept DEF IInv
<1>1. \A v \in Workers : work'[v] = work[v] => AbsentAfter(v) = Absent(v)
  BY DEF Absent, AbsentAfter
\* Of the requests that have the line now, all but one had it before.
<1>2. ASSUME NEW v \in Workers, l \in AbsentAfter(v), l \notin Absent(v)
      PROVE  /\ Booked(l) = {} /\ ledger' = ledger
             /\ \A u \in Others(v) : l \notin Absent(u) /\ AbsentAfter(u) = Absent(u)
  <2>1. PICK a \in Workers : Acts(a) /\ \A u \in Workers : u # a => work'[u] = work[u]
    BY <1>1, <1>2, OneWorker
  <2>2. a = v
    BY <1>1, <1>2, <2>1
  <2>3. /\ Booked(l) = {} /\ ledger' = ledger
        /\ l \in raced' \/ \A u \in Others(v) : l \notin Absent(u)
    BY <1>2, <2>1, <2>2, Looked
  <2>4. \A u \in Others(v) : AbsentAfter(u) = Absent(u)
    BY <1>1, <2>1, <2>2 DEF Others
  <2>. QED
    BY <2>3, <2>4
<1>3. \A t \in ledger' : t.line # l
  <2>1. CASE l \notin Absent(w)
    BY <1>2, <2>1 DEF Booked
  <2>2. CASE l \in Absent(w)
    <3>1. \A t \in ledger : t.line # l
      BY <1>0, <2>2 DEF AbsentUnlessRaced, Booked
    <3>2. ASSUME NEW t \in NewTransactions, t.line = l PROVE FALSE
      <4>1. PICK v \in Workers : l \in Absent(v) /\ AbsentAfter(v) = {}
        BY <3>2, BooksAbsent
      <4>2. v # w
        BY <4>1
      <4>. QED
        BY <1>0, <2>2, <4>1, <4>2 DEF AbsentUnlessRaced, Others
    <3>. QED
      BY <3>1, <3>2 DEF NewTransactions
  <2>. QED
    BY <2>1, <2>2
<1>4. ASSUME NEW v \in Others(w), l \in AbsentAfter(v) PROVE FALSE
  <2>1. v \in Workers /\ v # w /\ w \in Others(v)
    BY DEF Others
  <2>2. CASE l \in Absent(w) /\ l \in Absent(v)
    BY <1>0, <2>2 DEF AbsentUnlessRaced
  <2>3. CASE l \notin Absent(w)
    BY <1>2, <1>4, <2>3
  <2>4. CASE l \notin Absent(v)
    BY <1>2, <1>4, <2>1, <2>4
  <2>. QED
    BY <2>2, <2>3, <2>4
<1>. QED
  BY <1>3, <1>4

\* A line is booked once, unless raced for.
LEMMA StepBookedOnce == IInv /\ [Next]_vars => BookedOnceUnlessRaced'
<1>. SUFFICES ASSUME IInv, [Next]_vars, NEW t \in ledger', NEW u \in ledger', t # u, t.line = u.line
              PROVE  t.line \in raced'
  BY DEF BookedOnceUnlessRaced
<1>0. AbsentUnlessRaced /\ BookedOnceUnlessRaced /\ raced \subseteq raced'
  BY HistoryKept DEF IInv
<1>1. ASSUME NEW x \in NewTransactions, NEW y \in ledger, x.line = y.line PROVE x.line \in raced
  <2>1. PICK w \in Workers : x.line \in Absent(w)
    BY BooksAbsent
  <2>2. y \in Booked(x.line)
    BY <1>1 DEF Booked
  <2>. QED
    BY <1>0, <2>1, <2>2 DEF AbsentUnlessRaced
<1>2. CASE t \in ledger /\ u \in ledger
  BY <1>0, <1>2 DEF BookedOnceUnlessRaced
<1>3. ASSUME t \in NewTransactions, u \in NewTransactions PROVE FALSE
  <2>1. ASSUME NEW w \in Workers, OfRow(w, t), OfRow(w, u) PROVE FALSE
    BY SMTT(30), <2>1 DEF OfRow
  <2>2. ASSUME NEW w \in Workers, BookOrders(w), RowsDiffer, OfOrders(w, t), OfOrders(w, u) PROVE FALSE
    <3>1. work[w].phase = "book" /\ OnOrders(w)
      BY <2>2 DEF BookOrders, IInv
    <3>2. t.row # u.row
      BY <1>3, <2>2 DEF RowsDiffer
    <3>. QED
      BY <2>2, <3>1, <3>2 DEF OnOrders, OrderPhases, OfOrders
  <2>3. ASSUME NEW w \in Workers, CommitCash(w), RowsDiffer, OfCash(w, t), OfCash(w, u) PROVE FALSE
    <3>1. work[w].file \in CashFiles
      BY <2>3 DEF CommitCash, IInv, OnCash
    <3>2. t.row # u.row
      BY <1>3, <2>3 DEF RowsDiffer
    <3>. QED
      BY <2>3, <3>1, <3>2, CashIncomeAssumption DEF OfCash
  <2>. QED
    BY <1>3, <2>1, <2>2, <2>3, Created
<1>. QED
  BY <1>0, <1>1, <1>2, <1>3 DEF NewTransactions

\* A job is found to be read whole by the end of a commit of it, and by nothing else.
LEMMA PartialKept ==
    IInv /\ [Next]_vars =>
        \A j \in partial : j \in partial' \/ \E w \in Workers : FinishCommit(w) /\ work[w].job = j
<1>. SUFFICES ASSUME IInv, [Next]_vars, NEW j \in partial
              PROVE  j \in partial' \/ \E w \in Workers : FinishCommit(w) /\ work[w].job = j
  OBVIOUS
<1>1. ASSUME NEW w \in Workers, FinishCommit(w) PROVE j \in partial' \/ work[w].job = j
  BY <1>1 DEF FinishCommit
<1>2. ASSUME NEW w \in Workers,
             \/ \E i \in Jobs, kind \in Kinds, f \in Files : BeginPreview(w, i, kind, f)
             \/ \E i \in Jobs, f \in OrderFiles : PersistJob(w, i, f)
             \/ \E i \in Jobs : BeginCommit(w, i) \/ ReviewOrders(w, i)
             \/ PreviewRow(w) \/ StoreIncomeRows(w) \/ FinishPreview(w) \/ PassRow(w)
             \/ MarkDuplicate(w) \/ FindNothing(w) \/ CreateTransaction(w) \/ LinkRow(w)
             \/ PersistRows(w) \/ ReviewStock(w) \/ LookupOrders(w) \/ BookOrders(w)
             \/ CashRow(w) \/ CommitCash(w) \/ \E f \in CashFiles : BeginCash(w, f)
             \/ Die(w)
      PROVE  partial' = partial
  BY <1>2 DEF BeginPreview, PersistJob, BeginCommit, ReviewOrders, PreviewRow, StoreIncomeRows,
      FinishPreview, PassRow, MarkDuplicate, FindNothing, CreateTransaction, LinkRow, PersistRows,
      ReviewStock, LookupOrders, BookOrders, CashRow, CommitCash, BeginCash, Die
<1>3. ASSUME NEW w \in Workers, Acts(w) PROVE FinishCommit(w) \/ partial' = partial
  BY <1>2, <1>3 DEF Acts, Advance, AdvanceOrders, AdvanceCash
<1>. QED
  BY <1>1, <1>3, OneWorker

\* What a job claims stays in the ledger.
LEMMA StepClaims == IInv /\ [Next]_vars => ClaimsAreBooked'
<1>. SUFFICES ASSUME IInv, [Next]_vars PROVE ClaimsAreBooked'
  OBVIOUS
<1>0. /\ TypeOK /\ SucceededMeansBooked /\ BookedTogether /\ PassedRowsKnown /\ TransactionsOfRows
      /\ DOMAIN job = Jobs /\ "amazon" \notin FileKinds
      /\ \A l : Known(l) => KnownAfter(l)
      /\ "none" \notin AllKinds
  BY JustifiedKept DEF IInv, TypeOK, ClaimsAreBooked, FileKinds, AllKinds
\* Every row of a file that succeeds.
<1>1. ASSUME NEW j \in Jobs, j \notin partial', job'[j].kind \in FileKinds,
             job'[j].status = "SUCCEEDED", NEW n \in DOMAIN job'[j].file
      PROVE  ~job'[j].file[n].bad /\ KnownAfter(job'[j].file[n].line)
  <2>1. CASE job'[j] = job[j] /\ j \notin partial
    BY <1>0, <1>1, <2>1 DEF SucceededMeansBooked
  <2>2. ASSUME NEW w \in Workers, FinishCommit(w), work[w].job = j
        PROVE  ~job'[j].file[n].bad /\ KnownAfter(job'[j].file[n].line)
    <3>1. work[w].phase = "rows" /\ work[w].phase \in CommitPhases /\ work[w].phase \in FilePhases /\ Done(w)
      BY <2>2 DEF FinishCommit, FilePhases, CommitPhases
    <3>2. job'[j].file = job[j].file /\ FinalStatus(work[w].failed) = "SUCCEEDED"
      BY <1>0, <1>1, <2>2 DEF FinishCommit
    <3>3. job[j].file = work[w].file /\ n \in 1..Len(work[w].matches)
      BY <1>1, <2>2, <3>1, <3>2, RequestFacts
    <3>4. n < work[w].row
      BY <3>1, <3>3, RequestFacts, LedgerImportAssumption DEF Done
    <3>5. ~work[w].failed
      BY <3>2 DEF FinalStatus
    <3>6. ReadWhole(work[w])
      BY <1>1, <2>2 DEF FinishCommit
    <3>. QED
      BY <1>0, <1>1, <3>1, <3>2, <3>3, <3>4, <3>5, <3>6 DEF PassedRowsKnown
  <2>3. ASSUME NEW w \in Workers, Acts(w)
        PROVE  job'[j] = job[j] \/ (FinishCommit(w) /\ work[w].job = j)
    <3>1. ASSUME NEW i \in Jobs, NEW kind \in Kinds, NEW f \in Files, BeginPreview(w, i, kind, f)
          PROVE  job'[j] = job[j]
      BY <1>0, <1>1, <3>1 DEF BeginPreview
    <3>2. ASSUME NEW i \in Jobs, NEW f \in OrderFiles, PersistJob(w, i, f) PROVE job'[j] = job[j]
      BY <1>0, <1>1, <3>2 DEF PersistJob
    <3>3. ASSUME PersistRows(w) PROVE job'[j] = job[j]
      BY <3>3 DEF PersistRows
    <3>4. ASSUME FinishPreview(w) PROVE job'[j] = job[j]
      BY <1>0, <1>1, <3>4 DEF FinishPreview
    <3>5. ASSUME FinishCommit(w) PROVE job'[j] = job[j] \/ work[w].job = j
      BY <1>0, <3>5 DEF FinishCommit
    <3>6. CASE \/ PreviewRow(w) \/ StoreIncomeRows(w) \/ PassRow(w) \/ MarkDuplicate(w)
               \/ FindNothing(w) \/ CreateTransaction(w) \/ LinkRow(w) \/ ReviewStock(w)
               \/ LookupOrders(w) \/ BookOrders(w) \/ AdvanceCash(w) \/ Die(w)
               \/ \E i \in Jobs : BeginCommit(w, i) \/ ReviewOrders(w, i)
               \/ \E f \in CashFiles : BeginCash(w, f)
      <4>1. job' = job
        BY <3>6 DEF PreviewRow, StoreIncomeRows, PassRow, MarkDuplicate, FindNothing,
            CreateTransaction, LinkRow, ReviewStock, LookupOrders, BookOrders, AdvanceCash,
            CashRow, CommitCash, Die, BeginCommit, ReviewOrders, BeginCash
      <4>. QED
        BY SMTT(30), <4>1
    <3>. QED
      BY <2>3, <3>1, <3>2, <3>3, <3>4, <3>5, <3>6 DEF Acts, Advance, AdvanceOrders
  <2>. QED
    BY <1>1, <2>1, <2>2, <2>3, PartialKept, OneWorker
\* Every order of a job that has booked one.
<1>2. ASSUME NEW j \in Jobs, job'[j].kind = "amazon", NEW t \in ledger', t.job = j,
             NEW n \in DOMAIN job'[j].file
      PROVE  job'[j].file[n].free \/ KnownAfter(job'[j].file[n].line)
  <2>1. CASE t \in ledger
    <3>1. job[j].kind # "none"
      BY <1>0, <1>2, <2>1, LedgerImportAssumption DEF TransactionsOfRows
    <3>2. job'[j].kind = job[j].kind /\ job'[j].file = job[j].file
      BY <1>0, <3>1, JobsKept
    <3>. QED
      BY <1>0, <1>2, <2>1, <3>2 DEF BookedTogether
  <2>2. ASSUME NEW w \in Workers, BookOrders(w), OfOrders(w, t)
        PROVE  job'[j].file[n].free \/ KnownAfter(job'[j].file[n].line)
    <3>. DEFINE new == {m \in DOMAIN work[w].file :
             ~work[w].file[m].bad /\ ~work[w].file[m].free /\ work[w].file[m].line \notin work[w].seen}
    <3>1. job'[j].file = work[w].file
      BY <1>0, <1>2, <2>2, JobsKept DEF OfOrders
    <3>2. work[w].phase = "book" /\ OnOrders(w)
      BY <2>2 DEF BookOrders, IInv
    <3>3. ~work[w].file[n].bad /\ \A l \in work[w].seen : Known(l)
      BY <1>2, <3>1, <3>2 DEF OnOrders, OrderPhases
    <3>4. \A m \in new : \E u \in ledger' : u.line = work[w].file[m].line
      <4>1. CreateAll(work[w].job, work[w].file, new)
        BY <2>2 DEF BookOrders
      <4>2. /\ work[w].job \in Jobs \cup {NoJob} /\ work[w].file \in AllFiles
            /\ new \in SUBSET DOMAIN work[w].file
        BY RequestFacts
      <4>3. TypeOK
        BY <1>0
      <4>. HIDE DEF new
      <4>. QED
        BY ZenonT(60), <4>1, <4>2, <4>3, CreateAllFacts
    <3>5. CASE n \in new
      BY <3>1, <3>4, <3>5 DEF KnownAfter
    <3>6. CASE n \notin new
      BY <1>0, <1>2, <3>1, <3>3, <3>6
    <3>. QED
      BY <3>5, <3>6
  <2>3. ASSUME NEW w \in Workers, OfRow(w, t) PROVE FALSE
    <3>1. job[j].kind \in FileKinds /\ job[j].kind # "none"
      BY <1>2, <2>3 DEF OfRow, FileKinds
    <3>. QED
      BY <1>0, <1>2, <3>1, JobsKept
  <2>4. ASSUME NEW w \in Workers, OfCash(w, t) PROVE FALSE
    BY <1>2, <2>4, LedgerImportAssumption DEF OfCash
  <2>. QED
    BY <2>1, <2>2, <2>3, <2>4, Created DEF NewTransactions
<1>. QED
  BY <1>1, <1>2 DEF ClaimsAreBooked, SucceededMeansBooked, BookedTogether, KnownAfter, Known, Booked

\* A request that is writing the rows of a job goes on to write them all, or dies.
LEMMA StepRowless == IInv /\ [Next]_vars => RowlessOnlyWhenCut'
<1>. DEFINE Complete(j) ==
               \/ \A n \in DOMAIN job'[j].file : staging'[<<j, n>>] # NoRow
               \/ j \in cut'
               \/ \E w \in Workers : work'[w].phase = "persist" /\ work'[w].job = j
<1>. SUFFICES ASSUME IInv, [Next]_vars, NEW j \in Jobs, job'[j].kind = "amazon" PROVE Complete(j)
  BY DEF RowlessOnlyWhenCut
<1>0. /\ TypeOK /\ RowlessOnlyWhenCut /\ DOMAIN job = Jobs /\ "amazon" \notin FileKinds
      /\ job[j].kind \in AllKinds \cup {"none"} /\ job[j].file \in AllFiles
      /\ Kinds \subseteq FileKinds /\ cut \subseteq cut'
      /\ \A n \in DOMAIN job[j].file : n \in RowNos
      /\ \A n \in RowNos : <<j, n>> \in Rows
  <2>1. TypeOK /\ HalfWrittenOnlyWhenCut
    BY DEF IInv
  <2>2. job[j].kind \in AllKinds \cup {"none"} /\ job[j].file \in AllFiles /\ DOMAIN job = Jobs
    BY <2>1 DEF TypeOK
  <2>. QED
    BY <2>1, <2>2, FilesAreSequences, HistoryKept, LedgerImportAssumption
       DEF HalfWrittenOnlyWhenCut, FileKinds, Rows
<1>1. CASE \E w \in Workers, f \in OrderFiles : PersistJob(w, j, f)
  BY <1>1, RequestAfter
<1>2. ASSUME job[j].kind # "amazon", NEW w \in Workers, Acts(w) PROVE \E f \in OrderFiles : PersistJob(w, j, f)
  <2>1. ASSUME NEW i \in Jobs, NEW kind \in Kinds, NEW f \in Files, BeginPreview(w, i, kind, f) PROVE FALSE
    BY <1>0, <1>2, <2>1 DEF BeginPreview
  <2>2. ASSUME FinishPreview(w) \/ FinishCommit(w) \/ PersistRows(w) PROVE FALSE
    <3>1. job'[j].kind = job[j].kind
      <4>1. job \in [Jobs -> [status : Statuses, kind : AllKinds \cup {"none"}, file : AllFiles]]
        BY <1>0 DEF TypeOK
      <4>2. CASE FinishPreview(w)
        BY <4>1, <4>2 DEF FinishPreview
      <4>3. CASE FinishCommit(w)
        BY <4>1, <4>3 DEF FinishCommit
      <4>4. CASE PersistRows(w)
        BY <4>1, <4>4 DEF PersistRows
      <4>. QED
        BY <2>2, <4>2, <4>3, <4>4
    <3>. QED
      BY <1>2, <3>1
  <2>3. ASSUME NEW i \in Jobs, NEW f \in OrderFiles, PersistJob(w, i, f) PROVE i = j
    BY <1>0, <1>2, <2>3 DEF PersistJob
  <2>4. ASSUME \/ PreviewRow(w) \/ StoreIncomeRows(w) \/ PassRow(w) \/ MarkDuplicate(w)
               \/ FindNothing(w) \/ CreateTransaction(w) \/ LinkRow(w) \/ ReviewStock(w)
               \/ LookupOrders(w) \/ BookOrders(w) \/ AdvanceCash(w) \/ Die(w)
               \/ \E i \in Jobs : BeginCommit(w, i) \/ ReviewOrders(w, i)
               \/ \E f \in CashFiles : BeginCash(w, f)
        PROVE  FALSE
    <3>1. job' = job
      BY <2>4 DEF PreviewRow, StoreIncomeRows, PassRow, MarkDuplicate, FindNothing,
          CreateTransaction, LinkRow, ReviewStock, LookupOrders, BookOrders, AdvanceCash,
          CashRow, CommitCash, Die, BeginCommit, ReviewOrders, BeginCash
    <3>. QED
      BY SMTT(30), <1>2, <3>1
  <2>. QED
    BY <1>2, <2>1, <2>2, <2>3, <2>4 DEF Acts, Advance, AdvanceOrders
<1>3. ASSUME job[j].kind = "amazon" PROVE job'[j].file = job[j].file
  BY <1>0, <1>3, JobsKept
<1>4. ASSUME job[j].kind = "amazon", NEW n \in DOMAIN job[j].file, staging[<<j, n>>] # NoRow
      PROVE  staging'[<<j, n>>] # NoRow
  <2>1. \/ staging'[<<j, n>>] = staging[<<j, n>>]
        \/ staging'[<<j, n>>].match \in Matches \cup {"pending"}
    BY <1>0, Written, OneWorker
  <2>. QED
    BY <1>4, <2>1 DEF NoRow, Matches
<1>5. ASSUME job[j].kind = "amazon",
             NEW w \in Workers, work[w].phase = "persist", work[w].job = j, Acts(w)
      PROVE  Complete(j)
  <2>1. PersistRows(w) \/ Die(w)
    BY <1>5 DEF Acts, Advance, AdvanceOrders, AdvanceCash, BeginPreview, PersistJob, BeginCommit,
        ReviewOrders, PreviewRow, StoreIncomeRows, FinishPreview, FinishCommit, PassRow,
        MarkDuplicate, FindNothing, CreateTransaction, LinkRow, ReviewStock, LookupOrders,
        BookOrders, CashRow, CommitCash, BeginCash
  <2>2. CASE PersistRows(w)
    <3>1. work[w].file = job[j].file
      BY <1>5 DEF IInv, OnOrders, OrderPhases
    <3>2. \A n \in DOMAIN job[j].file : staging'[<<j, n>>] = [match |-> "pending", target |-> NoTx]
      BY <1>0, <1>5, <2>2, <3>1 DEF PersistRows
    <3>. QED
      BY <1>3, <1>5, <3>2 DEF NoRow
  <2>3. CASE Die(w)
    BY <1>5, <2>3, LedgerImportAssumption DEF Die
  <2>. QED
    BY <2>1, <2>2, <2>3
<1>6. CASE job[j].kind = "amazon"
  <2>1. CASE \A n \in DOMAIN job[j].file : staging[<<j, n>>] # NoRow
    BY <1>3, <1>4, <1>6, <2>1
  <2>2. ASSUME NEW w \in Workers, work[w].phase = "persist", work[w].job = j PROVE Complete(j)
    <3>1. CASE work'[w] = work[w]
      BY <2>2, <3>1
    <3>. QED
      BY <1>5, <1>6, <2>2, <3>1, OneWorker
  <2>. QED
    BY <1>0, <1>6, <2>1, <2>2 DEF RowlessOnlyWhenCut
<1>7. CASE job' = job
  BY <1>6, <1>7
<1>. QED
  BY <1>1, <1>2, <1>6, <1>7, OneWorker

\* Who overwrites the staging row of a transaction: a commit that links another
\* transaction of its line.
LEMMA Overwritten ==
    ASSUME IInv, [Next]_vars, NEW t \in ledger, t.job # NoJob, job[t.job].kind \in FileKinds,
           NEW w \in Workers, Acts(w),
           staging'[<<t.job, t.row>>] # staging[<<t.job, t.row>>]
    PROVE  \/ staging'[<<t.job, t.row>>].target = t.id
           \/ t.line \in raced \cup removed
<1>0. /\ t.job \in Jobs /\ t.row \in RowNos /\ <<t.job, t.row>> \in Rows
      /\ staging \in [Rows -> [match : Matches \cup {"none", "pending"}, target : 0..MaxTransactions]]
      /\ BookedOnceUnlessRaced /\ LinkedNext /\ "amazon" \notin FileKinds
  BY DEF IInv, TypeOK, Rows, FileKinds
<1>1. t.job = work[w].job
  BY <1>0, Written
<1>2. /\ t.row \in DOMAIN job[t.job].file
      /\ t.line = job[t.job].file[t.row].line /\ ~job[t.job].file[t.row].bad
      /\ job[t.job].kind # "direct" => Staged(t.job, t.row)
  BY SMTT(30) DEF IInv, TransactionsOfRows
<1>3. ASSUME PreviewRow(w) \/ StoreIncomeRows(w) PROVE FALSE
  <2>1. work[w].phase = "preview"
    BY <1>3 DEF PreviewRow, StoreIncomeRows
  <2>2. Staged(t.job, t.row)
    BY <1>1, <1>2, <2>1 DEF IInv, PreviewsAlone
  <2>3. work[w].kind # "income" /\ ~(t.row > Len(work[w].matches))
    BY SMTT(30), <1>0, <1>1, <2>1, <2>2 DEF IInv, RowsAsRead
  <2>4. \E r : staging' = [staging EXCEPT ![<<work[w].job, Len(work[w].matches) + 1>>] = r]
    BY <1>3, <2>3 DEF PreviewRow, StoreIncomeRows
  <2>5. t.row = Len(work[w].matches) + 1
    BY <1>0, <2>4
  <2>. QED
    BY <2>3, <2>5, RequestFacts
<1>4. ASSUME PassRow(w) \/ MarkDuplicate(w) \/ LinkRow(w)
      PROVE  /\ t.row = work[w].row /\ t.line = work[w].file[work[w].row].line
             /\ ~work[w].file[work[w].row].bad
  <2>1. ASSUME NEW m, staging' = [staging EXCEPT ![<<work[w].job, work[w].row>>] = m] PROVE t.row = work[w].row
    BY <1>0, <2>1
  <2>2. \E m : staging' = [staging EXCEPT ![<<work[w].job, work[w].row>>] = m]
    <3>1. CASE PassRow(w)
      BY <3>1 DEF PassRow
    <3>2. CASE MarkDuplicate(w)
      BY <3>2 DEF MarkDuplicate
    <3>3. CASE LinkRow(w)
      BY <3>3 DEF LinkRow
    <3>. QED
      BY <1>4, <3>1, <3>2, <3>3
  <2>3. t.row = work[w].row /\ work[w].file = job[t.job].file
    BY <1>1, <1>4, <2>1, <2>2, NextRow
  <2>. QED
    BY <1>2, <2>3
<1>5. ASSUME PassRow(w) PROVE FALSE
  <2>1. work[w].kind = "direct" /\ work[w].matches[work[w].row] # "new" /\ work[w].phase \in CommitPhases
    BY <1>5 DEF PassRow, CommitPhases
  <2>2. work[w].row \in DOMAIN work[w].matches
    BY <1>5, NextRow
  <2>. QED
    BY <1>4, <1>5, <2>1, <2>2 DEF IInv, DirectRows
<1>6. ASSUME NEW u \in ledger, u.line = t.line, staging'[<<t.job, t.row>>].target = u.id
      PROVE  staging'[<<t.job, t.row>>].target = t.id \/ t.line \in raced
  BY <1>0, <1>6 DEF BookedOnceUnlessRaced
<1>7. CASE MarkDuplicate(w)
  <2>1. PICK u \in Lookup(work[w].file[work[w].row].line) :
           staging' = [staging EXCEPT ![<<work[w].job, work[w].row>>] = [match |-> "duplicate", target |-> u.id]]
    BY <1>7 DEF MarkDuplicate
  <2>2. u \in ledger /\ u.line = t.line
    BY <1>4, <1>7 DEF Lookup, Booked
  <2>3. staging'[<<t.job, t.row>>].target = u.id
    BY <1>0, <1>1, <1>4, <1>7, <2>1
  <2>. QED
    BY <1>6, <2>2, <2>3
<1>8. CASE LinkRow(w)
  <2>1. staging'[<<t.job, t.row>>].target = work[w].tx
    BY <1>0, <1>1, <1>4, <1>8 DEF LinkRow
  <2>2. \/ \E u \in ledger : u.id = work[w].tx /\ u.line = t.line
        \/ t.line \in removed
    BY <1>0, <1>4, <1>8 DEF LinkRow, LinkedNext
  <2>. QED
    BY <1>6, <2>1, <2>2
<1>9. CASE \/ AdvanceCash(w) \/ FinishPreview(w) \/ FinishCommit(w) \/ FindNothing(w)
           \/ CreateTransaction(w) \/ ReviewStock(w) \/ LookupOrders(w) \/ BookOrders(w) \/ Die(w)
           \/ \E j \in Jobs, kind \in Kinds, f \in Files : BeginPreview(w, j, kind, f)
           \/ \E j \in Jobs, f \in OrderFiles : PersistJob(w, j, f)
           \/ \E j \in Jobs : BeginCommit(w, j) \/ ReviewOrders(w, j)
           \/ \E f \in CashFiles : BeginCash(w, f)
  <2>1. staging' = staging
    BY <1>9 DEF AdvanceCash, CashRow, CommitCash, FinishPreview, FinishCommit, FindNothing,
        CreateTransaction, ReviewStock, LookupOrders, BookOrders, Die, BeginPreview, PersistJob,
        BeginCommit, ReviewOrders, BeginCash
  <2>. QED
    BY SMTT(30), <2>1
<1>10. ASSUME PersistRows(w) PROVE FALSE
  BY <1>0, <1>1, <1>10 DEF PersistRows, IInv, OnOrders, OrderPhases
<1>. QED
  BY <1>3, <1>5, <1>7, <1>8, <1>9, <1>10 DEF Acts, Advance, AdvanceOrders

\* A transaction is linked to its row, is being linked, or its request died.
LEMMA StepUnlinked == IInv /\ [Next]_vars => UnlinkedOnlyWhenCut'
<1>. DEFINE Excused(t) ==
               \/ t.job = NoJob \/ job'[t.job].kind \notin FileKinds
               \/ staging'[<<t.job, t.row>>].target = t.id
               \/ t.job \in cut'
               \/ t.line \in raced' \cup removed'
               \/ \E w \in Workers : work'[w].phase = "link" /\ work'[w].tx = t.id
<1>. SUFFICES ASSUME IInv, [Next]_vars, NEW t \in ledger' PROVE Excused(t)
  BY DEF UnlinkedOnlyWhenCut
<1>0. /\ TypeOK /\ UnlinkedOnlyWhenCut /\ TransactionsOfRows /\ LinkedNext
      /\ raced \subseteq raced' /\ cut \subseteq cut' /\ removed \subseteq removed'
      /\ "amazon" \notin FileKinds /\ FileKinds \subseteq AllKinds /\ "none" \notin AllKinds
  BY HistoryKept DEF IInv, HalfWrittenOnlyWhenCut, FileKinds, AllKinds
\* A transaction this step inserts.
<1>1. CASE t \in NewTransactions
  <2>1. ASSUME NEW w \in Workers, CreateTransaction(w), OfRow(w, t) PROVE Excused(t)
    <3>1. t.id = lastTx + 1
      BY <2>1 DEF OfRow
    <3>. QED
      BY <2>1, <3>1, RequestAfter
  <2>2. ASSUME NEW w \in Workers, OfOrders(w, t) PROVE Excused(t)
    <3>1. t.job \in Jobs /\ job[t.job].kind = "amazon"
      BY <2>2 DEF OfOrders
    <3>. QED
      BY <1>0, <3>1, JobsKept
  <2>3. ASSUME NEW w \in Workers, OfCash(w, t) PROVE Excused(t)
    BY <2>3 DEF OfCash
  <2>. QED
    BY <1>1, <2>1, <2>2, <2>3, Created
\* One that was there.
<1>2. CASE t \in ledger /\ t.job # NoJob /\ job'[t.job].kind \in FileKinds
  <2>1. t.job \in Jobs /\ job[t.job].kind \in FileKinds
    <3>1. t.job \in Jobs /\ job[t.job].kind \in AllKinds
      BY <1>0, <1>2 DEF TypeOK, TransactionsOfRows
    <3>. QED
      BY <1>0, <1>2, <3>1, JobsKept
  <2>2. CASE t.job \in cut \/ t.line \in raced \cup removed
    BY <1>0, <2>2
  <2>3. CASE staging[<<t.job, t.row>>].target = t.id
    <3>1. CASE staging'[<<t.job, t.row>>] = staging[<<t.job, t.row>>]
      BY <2>3, <3>1
    <3>2. CASE staging'[<<t.job, t.row>>] # staging[<<t.job, t.row>>]
      BY <1>0, <1>2, <2>1, <3>2, Overwritten, OneWorker
    <3>. QED
      BY <3>1, <3>2
  <2>4. ASSUME NEW w \in Workers, work[w].phase = "link", work[w].tx = t.id PROVE Excused(t)
    <3>1. t.job = work[w].job /\ t.row = work[w].row
      BY <1>0, <1>2, <2>4 DEF LinkedNext
    <3>2. CASE work'[w] = work[w]
      BY <2>4, <3>2
    <3>3. ASSUME Acts(w) PROVE LinkRow(w) \/ Die(w)
      BY <2>4, <3>3 DEF Acts, Advance, AdvanceOrders, AdvanceCash, BeginPreview, PersistJob,
          BeginCommit, ReviewOrders, PreviewRow, StoreIncomeRows, FinishPreview, FinishCommit,
          PassRow, MarkDuplicate, FindNothing, CreateTransaction, PersistRows, ReviewStock,
          LookupOrders, BookOrders, CashRow, CommitCash, BeginCash
    <3>4. CASE LinkRow(w)
      <4>1. <<t.job, t.row>> \in DOMAIN staging
        BY <1>0, <1>2, <2>1 DEF TypeOK, Rows
      <4>2. staging'[<<t.job, t.row>>].target = t.id
        BY <2>4, <3>1, <3>4, <4>1 DEF LinkRow
      <4>. QED
        BY <4>2
    <3>5. CASE Die(w)
      BY <2>1, <3>1, <3>5, LedgerImportAssumption DEF Die
    <3>. QED
      BY <3>2, <3>3, <3>4, <3>5, OneWorker
  <2>. QED
    BY <1>0, <1>2, <2>1, <2>2, <2>3, <2>4 DEF UnlinkedOnlyWhenCut
<1>. QED
  BY <1>1, <1>2 DEF NewTransactions

\* Only a row that counts as an error makes a request fail.
LEMMA FailsOnError ==
    ASSUME IInv, NEW w \in Workers, PassRow(w) \/ MarkDuplicate(w) \/ LinkRow(w), work'[w].failed
    PROVE  \/ work[w].failed
           \/ PassRow(w) /\ CountsAsError(work[w].kind, work[w].matches[work[w].row])
<1>0. DOMAIN work = Workers
  BY DEF IInv, TypeOK
<1>1. ASSUME NEW failed \in BOOLEAN, MoveOn(w, failed) PROVE work[w].failed \/ failed
  BY <1>0, <1>1 DEF MoveOn
<1>2. CASE PassRow(w)
  <2>. DEFINE failed == CountsAsError(work[w].kind, work[w].matches[work[w].row])
  <2>1. MoveOn(w, failed) /\ failed \in BOOLEAN
    BY <1>2 DEF PassRow, CountsAsError
  <2>. HIDE DEF failed
  <2>2. work[w].failed \/ failed
    BY <1>1, <2>1
  <2>. QED
    BY <1>2, <2>2 DEF failed
<1>3. CASE MarkDuplicate(w) \/ LinkRow(w)
  BY <1>1, <1>3 DEF MarkDuplicate, LinkRow
<1>. QED
  BY <1>2, <1>3

\* A request that counted an error has a bad row, unless it is for income.
LEMMA StepFailedOnBadRow == IInv /\ [Next]_vars => FailedOnBadRow'
<1>. DEFINE Fine(w) ==
               /\ work'[w].kind = "income" <=> job'[work'[w].job].kind = "income"
               /\ work'[w].failed /\ work'[w].kind # "income" =>
                     \E n \in DOMAIN work'[w].file : work'[w].file[n].bad
<1>. SUFFICES ASSUME IInv, [Next]_vars, NEW w \in Workers, work'[w].phase \in CommitPhases
              PROVE  Fine(w)
  BY DEF FailedOnBadRow
<1>0. /\ FailedOnBadRow /\ DOMAIN work = Workers /\ DOMAIN job = Jobs
      /\ "none" \notin FileKinds /\ CommitPhases \subseteq FilePhases
  BY DEF IInv, TypeOK, FileKinds, FilePhases
<1>1. ASSUME Same(w), work[w].phase \in CommitPhases
      PROVE  /\ work'[w].kind = "income" <=> job'[work'[w].job].kind = "income"
             /\ work[w].failed /\ work'[w].kind # "income" =>
                   \E n \in DOMAIN work'[w].file : work'[w].file[n].bad
  <2>1. work[w].job \in Jobs /\ job[work[w].job].kind # "none"
    BY <1>0, <1>1, RequestFacts
  <2>2. job'[work[w].job].kind = job[work[w].job].kind
    BY <2>1, JobsKept DEF IInv
  <2>. QED
    BY <1>0, <1>1, <2>2 DEF FailedOnBadRow, Same
<1>2. CASE work'[w] = work[w]
  BY <1>1, <1>2 DEF Same
<1>3. CASE PassRow(w) \/ MarkDuplicate(w) \/ LinkRow(w)
  <2>1. Same(w) /\ work[w].phase \in CommitPhases
    BY <1>3, RequestAfter DEF CommitPhases
  <2>2. CASE work'[w].failed /\ ~work[w].failed /\ work'[w].kind # "income"
    <3>1. PassRow(w) /\ CountsAsError(work[w].kind, work[w].matches[work[w].row])
      BY <1>3, <2>2, FailsOnError
    <3>2. work[w].matches[work[w].row] = "error"
      BY <2>1, <2>2, <3>1 DEF CountsAsError, Same
    <3>3. work[w].row \in DOMAIN work[w].file /\ work[w].file[work[w].row].bad
      BY <3>1, <3>2, NextRow DEF Justified
    <3>. QED
      BY <1>1, <2>1, <3>3 DEF Same
  <2>. QED
    BY <1>1, <2>1, <2>2
<1>4. CASE FindNothing(w) \/ CreateTransaction(w)
  <2>1. Same(w) /\ work[w].phase \in CommitPhases /\ work'[w].failed = work[w].failed
    BY <1>4, RequestAfter DEF CommitPhases
  <2>. QED
    BY <1>1, <2>1
<1>5. ASSUME NEW j \in Jobs, BeginCommit(w, j) PROVE Fine(w)
  <2>1. work'[w].kind = (IF job[j].kind = "income" THEN "income" ELSE "expense") /\ ~work'[w].failed
        /\ work'[w].job = j /\ job' = job
    BY <1>0, <1>5 DEF BeginCommit, Free
  <2>. QED
    BY <2>1
<1>6. ASSUME NEW j \in Jobs, NEW f \in Files, BeginPreview(w, j, "direct", f) PROVE Fine(w)
  <2>1. work'[w].kind = "direct" /\ ~work'[w].failed /\ work'[w].job = j
    BY <1>0, <1>6 DEF BeginPreview, Free
  <2>2. job'[j].kind = "direct"
    BY <1>0, <1>6 DEF BeginPreview
  <2>. QED
    BY <2>1, <2>2
<1>. QED
  BY <1>2, <1>3, <1>4, <1>5, <1>6, OneWorker, CommitGoesOn

\* What a step does to the status of a file's job: the end of a commit that
\* counted no error, and of no other, says SUCCEEDED.
LEMMA StatusAfter ==
    ASSUME IInv, [Next]_vars, NEW j \in Jobs, job[j].kind \in FileKinds
    PROVE  \/ job'[j].status = job[j].status
           \/ job'[j].status # "SUCCEEDED" /\ Previewing(j)
           \/ \E w \in Workers :
                 /\ work[w].phase = "rows" /\ work[w].job = j
                 /\ job'[j].status = FinalStatus(work[w].failed)
<1>0. /\ DOMAIN job = Jobs /\ job[j] # Unused /\ "none" \notin FileKinds /\ "amazon" \notin FileKinds
      /\ job[j].kind # "amazon"
  BY DEF IInv, TypeOK, FileKinds, Unused
<1>1. ASSUME NEW w \in Workers, FinishPreview(w)
      PROVE  \/ job'[j].status = job[j].status
             \/ job'[j].status # "SUCCEEDED" /\ Previewing(j)
  <2>1. CASE work[w].job = j
    <3>1. Previewing(j)
      BY <1>1, <2>1 DEF FinishPreview, Previewing
    <3>2. job'[j].status \in {"FAILED", "PROCESSING"}
      BY <1>0, <1>1, <2>1 DEF FinishPreview
    <3>. QED
      BY <3>1, <3>2
  <2>2. CASE work[w].job # j
    BY <1>0, <1>1, <2>2 DEF FinishPreview
  <2>. QED
    BY <2>1, <2>2
<1>2. ASSUME NEW w \in Workers, FinishCommit(w)
      PROVE  \/ job'[j].status = job[j].status
             \/ /\ work[w].phase = "rows" /\ work[w].job = j
                /\ job'[j].status = FinalStatus(work[w].failed)
  <2>1. CASE work[w].job = j
    BY <1>0, <1>2, <2>1 DEF FinishCommit
  <2>2. CASE work[w].job # j
    BY <1>0, <1>2, <2>2 DEF FinishCommit
  <2>. QED
    BY <2>1, <2>2
<1>3. ASSUME NEW w \in Workers, NEW i \in Jobs, NEW kind \in Kinds, NEW f \in Files,
             BeginPreview(w, i, kind, f)
      PROVE  job'[j] = job[j]
  BY <1>0, <1>3 DEF BeginPreview
<1>4. ASSUME NEW w \in Workers, NEW i \in Jobs, NEW f \in OrderFiles, PersistJob(w, i, f)
      PROVE  job'[j] = job[j]
  BY <1>0, <1>4 DEF PersistJob
<1>5. ASSUME NEW w \in Workers, PersistRows(w)
      PROVE  job'[j].status = job[j].status
  BY SMTT(30), <1>5 DEF PersistRows
<1>6. ASSUME NEW w \in Workers,
             \/ \E i \in Jobs : BeginCommit(w, i) \/ ReviewOrders(w, i)
             \/ PreviewRow(w) \/ StoreIncomeRows(w) \/ PassRow(w) \/ MarkDuplicate(w)
             \/ FindNothing(w) \/ CreateTransaction(w) \/ LinkRow(w)
             \/ ReviewStock(w) \/ LookupOrders(w) \/ BookOrders(w)
             \/ CashRow(w) \/ CommitCash(w) \/ \E f \in CashFiles : BeginCash(w, f)
             \/ Die(w)
      PROVE  job' = job
  BY <1>6 DEF BeginCommit, ReviewOrders, PreviewRow, StoreIncomeRows, PassRow, MarkDuplicate,
      FindNothing, CreateTransaction, LinkRow, ReviewStock, LookupOrders, BookOrders, CashRow,
      CommitCash, BeginCash, Die
<1>. QED
  BY <1>1, <1>2, <1>3, <1>4, <1>5, <1>6, OneWorker DEF Acts, Advance, AdvanceOrders, AdvanceCash

\* What was claimed of an expense file stays claimed: repeating the commit finds
\* no bad row, and rows committed before are no errors to it.
LEMMA StepSuccessIsFinal ==
    IInv /\ [Next]_vars =>
        \A j \in Jobs \ partial :
            job[j].kind \in {"expense", "direct"} /\ job[j].status = "SUCCEEDED" /\ ~Previewing(j)
            => job'[j].status = "SUCCEEDED"
<1>. SUFFICES ASSUME IInv, [Next]_vars, NEW j \in Jobs, j \notin partial, ~Previewing(j),
                     job[j].kind \in {"expense", "direct"}, job[j].status = "SUCCEEDED"
              PROVE  job'[j].status = "SUCCEEDED"
  OBVIOUS
<1>1. job[j].kind \in FileKinds
  BY DEF FileKinds
<1>2. \A n \in DOMAIN job[j].file : ~job[j].file[n].bad
  BY <1>1 DEF IInv, ClaimsAreBooked, SucceededMeansBooked
<1>3. ASSUME NEW w \in Workers, work[w].phase = "rows", work[w].job = j
      PROVE  ~work[w].failed
  <2>1. work[w].phase \in CommitPhases /\ work[w].file = job[j].file
    BY <1>3, RequestFacts DEF FilePhases, CommitPhases
  <2>2. work[w].kind # "income"
    BY <1>3, <2>1 DEF IInv, FailedOnBadRow
  <2>. QED
    BY <1>2, <2>1, <2>2 DEF IInv, FailedOnBadRow
<1>. QED
  BY <1>1, <1>3, StatusAfter DEF FinalStatus

-----------------------------------------------------------------------------
\* The program starts in the invariant.
LEMMA InitIInv == Init => IInv
<1>. SUFFICES ASSUME Init PROVE IInv
  OBVIOUS
<1>0. /\ MaxRows \in Nat \ {0} /\ MaxTransactions \in Nat \ {0} /\ NoJob \notin Jobs /\ Earlier \subseteq Lines
      /\ 1 \in 1..MaxRows + 1 /\ 1 \in RowNos
  BY LedgerImportAssumption DEF RowNos
<1>1. /\ job = [j \in Jobs |-> Unused] /\ staging = [r \in Rows |-> NoRow]
      /\ work = [w \in Workers |-> Free]
      /\ raced = {} /\ cut = {} /\ removed = {} /\ partial = {}
  BY DEF Init
<1>2. /\ \A j \in Jobs : job[j].status = "NONE" /\ job[j].kind = "none"
      /\ \A j \in Jobs, n \in RowNos : staging[<<j, n>>].match = "none"
      /\ \A w \in Workers : work[w].phase = "idle"
  BY <1>1 DEF Unused, NoRow, Free, Rows
<1>3. /\ \A t \in ledger : t \in [id : 1..lastTx, line : Lines, job : Jobs \cup {NoJob}, row : RowNos]
      /\ \A t \in ledger : t.job = NoJob
      /\ \A t, u \in ledger : t = u
      /\ lastTx \in 0..MaxTransactions
  <2>1. CASE ledger = {} /\ lastTx = 0
    BY <1>0, <2>1
  <2>2. ASSUME NEW l \in Earlier, lastTx = 1,
               ledger = {[id |-> 1, line |-> l, job |-> NoJob, row |-> 1]}
        PROVE  /\ \A t \in ledger : t \in [id : 1..lastTx, line : Lines, job : Jobs \cup {NoJob}, row : RowNos]
               /\ \A t \in ledger : t.job = NoJob
               /\ \A t, u \in ledger : t = u
               /\ lastTx \in 0..MaxTransactions
    <3>. DEFINE e == [id |-> 1, line |-> l, job |-> NoJob, row |-> 1]
    <3>1. e \in [id : 1..lastTx, line : Lines, job : Jobs \cup {NoJob}, row : RowNos] /\ e.job = NoJob
      BY <1>0, <2>2
    <3>2. ledger = {e}
      BY <2>2
    <3>. HIDE DEF e
    <3>. QED
      BY <1>0, <2>2, <3>1, <3>2
  <2>. QED
    BY <2>1, <2>2 DEF Init
<1>4. TypeOK
  <2>1. Unused \in [status : Statuses, kind : AllKinds \cup {"none"}, file : AllFiles]
    BY DEF Unused, Statuses, AllFiles
  <2>2. NoRow \in [match : Matches \cup {"none", "pending"}, target : 0..MaxTransactions]
    BY <1>0 DEF NoRow, NoTx
  <2>3. Free \in [phase : FilePhases \cup OrderPhases \cup {"idle", "cash"},
                  kind : AllKinds \cup {"none", "cash"}, job : Jobs \cup {NoJob},
                  file : AllFiles, matches : Seq(ReadMatches), row : 1..MaxRows + 1,
                  seen : SUBSET Lines, failed : BOOLEAN, tx : 0..lastTx]
    <3>1. <<>> \in Seq(ReadMatches) /\ <<>> \in AllFiles
      BY DEF AllFiles
    <3>2. 0 \in 0..lastTx
      BY <1>0, <1>3
    <3>. QED
      BY <1>0, <3>1, <3>2 DEF Free, NoTx
  <2>. QED
    BY <1>1, <1>3, <2>1, <2>2, <2>3 DEF TypeOK
<1>5. JobsOfFiles /\ RowsAsRead /\ StatusesJustified
  BY <1>2 DEF JobsOfFiles, RowsAsRead, StatusesJustified, Staged, FileKinds, FilePhases, CommitPhases
<1>6. \A w \in Workers : OnFile(w) /\ OnOrders(w) /\ OnCash(w)
  BY <1>2 DEF OnFile, OnOrders, OnCash, FilePhases, CommitPhases, OrderPhases
<1>7. PreviewsAlone /\ DirectRows /\ PassedRowsKnown /\ LinkedNext /\ FailedOnBadRow
  BY <1>2 DEF PreviewsAlone, DirectRows, PassedRowsKnown, LinkedNext, CommitPhases, FailedOnBadRow
<1>8. TransactionsOfRows /\ AbsentUnlessRaced /\ BookedOnceUnlessRaced
  BY <1>2, <1>3 DEF TransactionsOfRows, AbsentUnlessRaced, BookedOnceUnlessRaced, Absent
<1>9. ClaimsAreBooked /\ HalfWrittenOnlyWhenCut
  BY <1>2, <1>3 DEF ClaimsAreBooked, SucceededMeansBooked, BookedTogether, HalfWrittenOnlyWhenCut,
      UnlinkedOnlyWhenCut, RowlessOnlyWhenCut, FileKinds
<1>. QED
  BY <1>4, <1>5, <1>6, <1>7, <1>8, <1>9 DEF IInv

\* Every step of a file import, of the SP-API orders, of cash income, every
\* death of a request and every deletion keeps the invariant.
LEMMA StepIInv == IInv /\ [Next]_vars => IInv'
<1>. SUFFICES ASSUME IInv, [Next]_vars PROVE IInv'
  OBVIOUS
<1>1. TypeOK' /\ JobsOfFiles' /\ PreviewsAlone' /\ DirectRows' /\ RowsAsRead'
  BY StepTypeOK, StepJobsOfFiles, StepPreviewsAlone, StepDirectRows, StepRowsAsRead
<1>2. (\A w \in Workers : OnFile(w) /\ OnOrders(w) /\ OnCash(w))'
  BY StepRequests
<1>3. StatusesJustified' /\ PassedRowsKnown' /\ TransactionsOfRows' /\ LinkedNext'
      /\ FailedOnBadRow'
  BY StepStatusesJustified, StepPassedRowsKnown, StepTransactionsOfRows, StepLinkedNext,
     StepFailedOnBadRow
<1>4. AbsentUnlessRaced' /\ BookedOnceUnlessRaced' /\ ClaimsAreBooked'
  BY StepAbsentUnlessRaced, StepBookedOnce, StepClaims
<1>5. HalfWrittenOnlyWhenCut'
  BY StepRowless, StepUnlinked DEF HalfWrittenOnlyWhenCut
<1>. QED
  BY <1>1, <1>2, <1>3, <1>4, <1>5 DEF IInv

\* Whatever previews, commits, orders, cash income, deaths of requests and
\* deletions are interleaved, the jobs, their staging rows, the ledger and the
\* requests in flight agree as the inductive invariant says.
THEOREM AlwaysIInv == Spec => []IInv
<1>1. Init => IInv
  BY InitIInv
<1>2. IInv /\ [Next]_vars => IInv'
  BY StepIInv
<1>. QED
  BY <1>1, <1>2, PTL DEF Spec

\* However often commits die and are repeated, one dedupe hash is booked once,
\* unless two requests looked it up before either inserted it.
THEOREM BookedOnce == Spec => []BookedOnceUnlessRaced
<1>1. IInv => BookedOnceUnlessRaced
  BY DEF IInv
<1>. QED
  BY <1>1, AlwaysIInv, PTL

\* A file that is SUCCEEDED by a commit that found all its rows has no rejected row
\* and is in the ledger as a whole, and of a job of orders all are booked once one
\* is - but for what a user deleted.
THEOREM Claims == Spec => []ClaimsAreBooked
<1>1. IInv => ClaimsAreBooked
  BY DEF IInv
<1>. QED
  BY <1>1, AlwaysIInv, PTL

\* Only a request that died leaves a job of orders without rows, or a transaction
\* that the row of its file does not point to (two requests in a race, or around
\* a deletion, aside).
THEOREM HalfWritten == Spec => []HalfWrittenOnlyWhenCut
<1>1. IInv => HalfWrittenOnlyWhenCut
  BY DEF IInv
<1>. QED
  BY <1>1, AlwaysIInv, PTL

\* Repeating the commit of an expense file that is SUCCEEDED leaves it SUCCEEDED,
\* whatever else runs and dies meanwhile - unless that success was of part of its
\* rows, or its preview has yet to finish.
THEOREM SuccessIsFinal == Spec => ExpenseSuccessIsFinal
<1>1. IInv /\ [Next]_vars =>
        [\A j \in Jobs \ partial :
            job[j].kind \in {"expense", "direct"} /\ job[j].status = "SUCCEEDED" /\ ~Previewing(j)
            => job'[j].status = "SUCCEEDED"]_vars
  BY StepSuccessIsFinal
<1>. QED
  BY <1>1, AlwaysIInv, PTL DEF Spec, ExpenseSuccessIsFinal
=============================================================================
