---------------------------- MODULE Bookkeeping ----------------------------
(***************************************************************************)
(* The bookkeeping API: rows created under the plan limits, edited and     *)
(* deleted, files attached to transactions, and the dashboard cache that   *)
(* is cleared when the answer to one of these writes has been sent.  A     *)
(* client has one request in flight.                                       *)
(***************************************************************************)
EXTENDS PlanLimits, Attachments

CONSTANTS Viewers

VARIABLES entry, blame, fill, answering

Cache == INSTANCE DashboardCache WITH Writers <- Clients

cacheVars == <<entry, blame, fill, answering>>
bookVars == <<rowVars, planVars, fileVars, cacheVars>>

Init == InitRows /\ InitPlan /\ InitFiles /\ Cache!InitCache

Free(c) ==
    /\ edit[c] = Absent
    /\ creating[c] = Absent
    /\ filing[c] = Absent
    /\ c \notin answering

-----------------------------------------------------------------------------
(* Requests, each under the path the middleware watches or not.            *)

\* POST /api/transactions, /api/accounts and /store.
BeginCreate(c, table) ==
    /\ Free(c)
    /\ CheckAllowed(c, table)
    /\ UNCHANGED <<rowVars, fileVars, cacheVars>>

\* The middleware does not watch /store, and a summary shows no new store.
CommitCreate(c, r, p, v) ==
    /\ CreateChecked(c, r, p, v)
    /\ IF TableOf[r] = "Store" THEN UNCHANGED cacheVars ELSE Cache!WatchedWrite(c)
    /\ UNCHANGED fileVars

\* POST /api/fund-transfer has no limit to check.
CreateTransfer(c, r, v) ==
    /\ Free(c)
    /\ TableOf[r] = "FundTransfer"
    /\ CreateUnchecked(r, Always, v)
    /\ Cache!WatchedWrite(c)
    /\ UNCHANGED fileVars

\* PATCH of transactions, fund transfers and accounts; stores have none.
BeginUpdate(c, r, ask) ==
    /\ Free(c)
    /\ TableOf[r] # "Store"
    /\ BeginEdit(c, r, ask)
    /\ UNCHANGED <<planVars, fileVars, cacheVars>>

CommitUpdate(c) ==
    /\ CommitEdit(c)
    /\ Cache!WatchedWrite(c)
    /\ UNCHANGED <<planVars, fileVars>>

\* DELETE /api/transactions/:id: the row is read to check its company, which
\* never changes, and deleted with its attachments' rows.
Remove(c, r) ==
    /\ Free(c)
    /\ TableOf[r] = "Transaction"
    /\ Delete(r)
    /\ Cascade(r)
    /\ Cache!WatchedWrite(c)
    /\ UNCHANGED planVars

\* A request is refused after it began: no response under 400, no clearing.
Fail(c) ==
    /\ \/ DropEdit(c) /\ UNCHANGED planVars
       \/ DropCreation(c) /\ UNCHANGED rowVars
    /\ UNCHANGED <<fileVars, cacheVars>>

\* The attachment requests touch no row the summary shows; the answer to a
\* successful one clears the cache all the same.
BeginFile(c, t, f) ==
    /\ Free(c)
    /\ \/ BeginUpload(c, t, f)
       \/ attached[f] = t /\ BeginDeleteAttachment(c, f)
    /\ UNCHANGED <<rowVars, planVars, cacheVars>>

\* The step ends its request without an error.
Succeeds(c) ==
    \/ At(c, "stored") /\ filing'[c] = Absent
    \/ At(c, "unlink") /\ filing[c].file \notin stored'

StepFile(c) ==
    /\ FileStep(c)
    /\ IF Succeeds(c) THEN Cache!HarmlessWrite(c) ELSE UNCHANGED cacheVars
    /\ UNCHANGED <<rowVars, planVars>>

-----------------------------------------------------------------------------
(* What happens around the requests.                                       *)

\* A transaction of an import commit.  (A payment's is made under a watched
\* path and differs here only in that it is answered.)
Post(r, p, v) ==
    /\ TableOf[r] = "Transaction"
    /\ CreateUnchecked(r, p, v)
    /\ Cache!UnwatchedWrite
    /\ UNCHANGED fileVars

ChangeOfPlan(p) == ChangePlan(p) /\ UNCHANGED <<rowVars, fileVars, cacheVars>>

\* The range of a summary moves with the date; its entries outlive that by at
\* most their 30 seconds, as with any write.
ChangeOfMonth == NextMonth /\ UNCHANGED <<rowVars, fileVars, cacheVars>>

CacheStep ==
    /\ \/ \E v \in Viewers : Cache!BeginFill(v) \/ Cache!StoreFill(v) \/ Cache!DropFill(v)
       \/ \E c \in Clients : Cache!Answer(c) \/ Cache!Disconnect(c)
    /\ UNCHANGED <<rowVars, planVars, fileVars>>

ExpireEntry == Cache!Expire /\ UNCHANGED <<rowVars, planVars, fileVars>>

\* The API process restarts.
Restart ==
    /\ RestartRows
    /\ RestartPlan
    /\ RestartFiles
    /\ Cache!RestartCache

Next ==
    \/ \E c \in Clients, table \in Limited : BeginCreate(c, table)
    \/ \E c \in Clients, r \in Rows, p \in Periods, v \in Contents : CommitCreate(c, r, p, v)
    \/ \E c \in Clients, r \in Rows, v \in Contents : CreateTransfer(c, r, v)
    \/ \E c \in Clients, r \in Rows, ask \in [Fields -> Values \cup {Keep}] : BeginUpdate(c, r, ask)
    \/ \E c \in Clients : CommitUpdate(c) \/ Fail(c)
    \/ \E c \in Clients, r \in Rows : Remove(c, r)
    \/ \E c \in Clients, t \in Rows, f \in Files : BeginFile(c, t, f)
    \/ \E c \in Clients : StepFile(c)
    \/ \E r \in Rows, p \in Periods, v \in Contents : Post(r, p, v)
    \/ \E p \in Plans : ChangeOfPlan(p)
    \/ ChangeOfMonth
    \/ CacheStep
    \/ ExpireEntry
    \/ Restart

\* Time goes on, so an entry's 30 seconds pass.
Spec == Init /\ [][Next]_bookVars

-----------------------------------------------------------------------------
TypeOK == RowTypeOK /\ PlanTypeOK /\ FileTypeOK /\ Cache!CacheTypeOK

\* The dashboard serves an old summary only for a reason it has to live with.
OutdatedOnlyWhenExcused == Cache!OutdatedOnlyWhenExcused

\* The inductive invariants of the parts.
IInv == RowIInv /\ PlanIInv /\ FileIInv /\ Cache!CacheIInv
=============================================================================
