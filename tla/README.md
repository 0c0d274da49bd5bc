# LedgerSeiri: formal models

TLA+ modules, TLC configurations and TLAPS proofs for the API of LedgerSeiri
(`apps/api`), a multi-tenant bookkeeping application for Amazon sellers: NestJS
over PostgreSQL through Prisma. Requests run concurrently in a Node process (or
several); each `await` is a place where another request may run, and the
database runs transactions at its default isolation level, READ COMMITTED.
Nothing else coordinates requests, so the models are about what overlapping
requests, crashes between statements, retries and reordered messages do to
the rows.

Paths below are under `apps/api/src/` unless they start with `docs/` or `apps/`.

## The system

| Component | State | Operations | Talks to |
|---|---|---|---|
| Inventory stock ledger `inventory/` | `InventoryBalance`, `InventoryMovement`, audit issues inside staging payloads | manual adjustment, audit resolution, alias edits | imports deduct from the same balances |
| Store-orders import `imports/imports.service.ts` | `ImportJob`, `ImportStagingRow`, `Transaction` | preview, commit under a month-conflict policy, inventory deduction per row | inventory, transactions |
| Ledger imports (expense, income, cash) `imports/imports.service.ts` | the same tables; cash income keeps no job | preview, row-by-row commit; one-transaction commit for cash | transactions |
| Invoices and payments `invoice/`, `payment/` | `Invoice`, `PaymentReceipt`, `Transaction` | create invoice, record payment | transactions |
| Billing `billing/` | `WorkspaceSubscription`, `BillingWebhookEvent` | checkout, webhook, sync | Stripe; plan limits read the row |
| Transactions `transaction/` | `Transaction` | create, edit, delete | every importer writes the table |
| Attachments `transaction-attachment/` | `TransactionAttachment`, files on disk | upload, delete | transactions |
| Accounts, fund transfers `accounts/`, `fund-transfer/` | `Account`, `FundTransfer` | create, edit | balances are summed when read |
| Plan limits `common/`, `store/`, `accounts/` | counts of rows | check, then create | billing row |
| Sessions `auth/` | `RefreshSession`, `PasswordResetToken` | login, rotate, revoke, reset | |
| Dashboard cache `dashboard/` | a process-local map with a time to live | read, compute and store, invalidate on writes | every writer |
| Reconciliation decisions `reconciliation-decision/` | decision rows and their audit rows | submit, list | platform overrides |
| Platform operations `platform-ops/` | `PlatformOperation` and items | batch override, retry, suspend, assign | decisions, tenants |
| SP-API orders `imports/amazon-sp-api-*` | `ImportJob`, `ImportStagingRow`, `Transaction` | fetch, persist, review, commit | Amazon; transactions |
| SP-API connection `imports/amazon-sp-api-token-*` | connection, credential, token cache | authorise, persist, refresh | Amazon |
| Web application `apps/web` | browser state | forms and dialogs | the API |

What is hard in each, and what would make it correct:

- **Inventory.** Balances are read, computed and written back as absolute
  numbers. Correct: the balance of a SKU is the sum of its movements, and an
  audit issue leads to one movement.
- **Store-orders import.** Decisions are fixed at preview (row statuses,
  conflict months) and applied at commit, possibly much later, possibly twice,
  possibly beside another commit; duplicate checks are lookups without a unique
  index. Correct: a line is in the ledger once, its stock is deducted once or a
  person is told why not, and a policy does what its dialog says.
- **Ledger imports.** The commit is not a transaction: each row is a lookup, an
  insert and a link, each of which the process may not survive, and it may be asked for
  before the preview has ended. Correct: a job called SUCCEEDED has booked its file, as far
  as its commit has read it, and a repeated commit books nothing twice.
- **Payments.** The amount paid is computed from a read made before the
  transaction. Correct: invoice, receipts and ledger agree, and an invoice that
  is paid stays paid.
- **Billing.** Stripe delivers at least once and in no order. Correct: no event
  is lost, and in the end the row is the current subscription.
- **SP-API orders.** A job is finished before its rows exist; a commit is
  reviewed as a whole, then skips what is already there. Correct: a job is booked whole or not at all.
- **Bookkeeping by hand.** An edit writes the whole row it read. Correct: a
  field holds what was last asked for it, and a summary shows it.
- **Plan limits.** Count, compare, create. Correct: no month, and no number of
  accounts or stores, exceeds the largest limit the workspace has had.
- **Attachments.** File and row are written and deleted in two steps, and the
  database deletes rows by cascade. Correct: a row has its file and a file its row.
- **Dashboard cache.** It is cleared after the response, by path. Correct: an old summary
  has a reason.
- **Decisions and operations.** Previous values are read before they are
  replaced, outcomes written after what they report. Correct: audit rows are the history of
  their target, reports tell what was done, a retry repeats nothing its source has done.
- **Sessions and resets.** A token is checked in one statement and spent in
  another. Correct: one session has one successor, one token sets one password, and the
  reuse alarm stays quiet in ordinary use.

The hazards in `PROJECT.json` name the lines.

## Modules

| Module | Stands for |
|---|---|
| `StockLedger` | What `docs/step110` promises of the inventory tables: any database transaction moves the balance of a SKU and the sum of its movements by the same amount, for every SKU that has not drifted. |
| `Inventory` | `createManualAdjustment` and `resolveAuditIssue`, split at the reads their writes depend on, and the operators by which an import deducts. It implements `StockLedger`, with the SKUs a raced write has touched (`raced`) as the drifted ones. |
| `InventoryProofs` | Theorems about `Inventory`. |
| `StoreOrdersImport` | `previewImport`, `commitImport` and its deduction; instantiates `Inventory`, with staging rows as issues, so that imports and audit resolutions share the same balances; its inductive invariant. |
| `OrdersProofs` | theorems about `StoreOrdersImport` and the stock tables under it. |
| `LedgerImport` | the expense and the income import: preview, commit and crash, row by row. |
| `AmazonOrders` | SP-API orders: the job and its rows persisted, reviewed and booked; extends `LedgerImport`. |
| `CashIncome` | the commit of cash income; extends `LedgerImport`. |
| `BookingImports` | composes the three: one ledger, the same workers and jobs; its inductive invariant. |
| `ImportProofs` | theorems about `BookingImports`. |
| `Payments` | `create` of invoices and of payments. |
| `PaymentsProofs` | Theorems about `Payments`. |
| `BillingSync` | checkout, webhook and sync around an external Stripe. |
| `BillingProofs` | theorems about `BillingSync`. |
| `EditableRows` | the tables users keep by hand, and `update` of transactions, fund transfers and accounts. |
| `PlanLimits` | creation under a plan's limits; extends `EditableRows`. |
| `Attachments` | files and rows of attachments, over the rows of `EditableRows`. |
| `DashboardCache` | one entry of the summary cache. |
| `Bookkeeping` | composes the four: one client, one request, the answer clearing the cache. It implements the specification of each. |
| `BookkeepingProofs` | theorems about the four parts, each for itself, and about the composition. |
| `AuditTrail` | values changed under audit, submissions and single overrides. |
| `PlatformOperations` | operations on these values with their items, statuses and retries; extends `AuditTrail`. |
| `PlatformProofs` | theorems about both. |
| `Sessions`, `PasswordReset`, `Auth` | refresh sessions, reset tokens, and both together. |
| `AuthProofs` | theorems about `Auth`. |
| `MC...` | One per specification: the values TLC needs that a configuration cannot express, and symmetry. |

### How state and actions correspond to the code

**Inventory.** `balance` is `InventoryBalance.quantity`; `posted` the sum and
`movements` the number of `InventoryMovement` rows; `audit` the status of the
issue stored in a staging row's payload. A request is the record of what a
handler has read (`request`). `BeginManualAdjustment` is everything up to and
including the read of the balance, `CommitManualAdjustment` the insert, the
upsert and the commit: other requests see the two writes together, and only then.
`BeginResolve`, `ReadBalanceForResolve` and `CommitResolve` split the resolution
at its two reads inside the database transaction, of the issue and of the balance:
neither locks, so under READ COMMITTED another transaction may commit after it. `Abort` is any error or crash before the commit. `raced`, `contested`,
`resolutions` and `opened` are history variables: which balances were written
from a stale read, which issues were resolved by a request that was late, and
how often each issue was opened and resolved. They change no guard.

**StoreOrdersImport.** A worker carries one request. `BeginPreview` reads the
months the company already has transactions in; `FinishPreview` stores the job and a status per
row. `BeginCommit` reads the job and its rows; `DeleteReplaced`, then for each
row `SkipRow` or `CreateRow`, `DecideDeduction` (resolution of the SKU through
aliases, and the check for an earlier movement) and `WriteRow` (movement,
decrement, payload), then `FinishCommit`, in the order of the code.
The writes of an uncommitted commit are kept in its worker's record and become visible at
`FinishCommit`; `Rollback` drops them. Row locks are modelled where the code takes them:
a second commit waits for the balance of a SKU and for a staging row the first has updated (`LocksSku`,
`LocksRow`). `EditAlias`, `ResolveAudit` and `DeleteTransaction` are the other
handlers that touch the same rows. The reads at the start of `commitImport`
are one step, because nothing between them depends on their order. The rows a commit has
still to do are a set, taken in the order of their numbers (`RowAt`); what its movements take from each
balance is a running total, because the code increments row by row. A label is looked up as the
set of active pairs of label and SKU, at most one per label.

**LedgerImport, AmazonOrders, CashIncome.** In `LedgerImport` no database transaction encloses the rows, so each statement
is an action: `Lookup` in `FindNothing` or `MarkDuplicate`, `CreateTransaction`,
`LinkRow`, `FinishCommit`. `Die` is a failed statement or a dead process between
any two. The three kinds of job differ in what the preview stores, in what counts
as an error, and in whether the commit looks a line up. The counters a job keeps are abstracted
to whether any row failed, the only thing its final status depends on. A commit takes any job there is, in
any status: the import history shows the id of a job whose preview still runs or has died. It reads the rows that are stored by
then (`BeginCommit`; "none" stands for one that is not, `ReadWhole` says that there is no such row), and only the expense commit
refuses a job without any. A preview that ends after a commit of its job writes its status over that of the commit. The history
variable `partial` holds the jobs whose last finished commit had read part of the file. A database that already holds a booking of a line, made by an
earlier import (`Earlier`), is an initial state: that is how a line of a first commit can be a duplicate.
`PersistJob` and `PersistRows` are the two statements of the SP-API persistence.
`ReviewOrders` and `ReviewStock` are the two projections of the final review, each with a lookup
in the ledger, and `LookupOrders` and `BookOrders` the lookup of the commit and its transaction.
What a review refuses without looking at the ledger (a cancelled order, no price, an unknown SKU,
two items of one SKU) is one mark on a row, `bad`; an item priced at 0 passes the review and is
skipped by the commit (`free`). `CashRow` is the lookup and the insert of one row in an open
database transaction, so its insert is seen by others at `CommitCash`. `Absent` is what a request has
looked up and not found, and is about to insert; a line goes into the history `raced` when a second request finds it
absent too.

**Payments.** `BeginPayment` is the read before the database transaction,
`CommitPayment` the transaction. `income` is what payments have posted to the
ledger; later edits of those transactions are not part of this module.

**BillingSync.** One workspace. Stripe's subscriptions, the events about them
and the buyer are external actions (`Subscribe`, `Change`, `Invoice`). A request
passes through `Receive`, for checkout and invoice events `ResolveCurrent` (Stripe
is asked for the customer's subscriptions), `WriteRow` and `MarkProcessed`;
`BeginSync` enters the same path without an event. `Fail` is an error answer or a
crash at any point; the event then comes again. The statuses modelled are
`active`, `past_due` and `canceled`; the code treats `trialing` and `unpaid` as
variants of these two first, and stores `incomplete` and `paused` as ACTIVE.

**Bookkeeping.** `row` holds the editable fields of a row; `BeginEdit` is the read
of `update`, which fills in the fields a request leaves out, `CommitEdit` its
write of all of them. `CheckAllowed` is the plan and the count with the comparison,
`CreateChecked` the create; a transaction is dated by the request, the count is of the
present month. `BeginUpload`, `PutFile` and `CreateRow`, and `BeginDeleteAttachment`,
`DeleteRow` and `Unlink`, are the statements of the two attachment handlers,
each with its failures: a statement that fails, one that succeeds and whose answer is
lost (`CreateRowMisleads`), a disk operation that fails. `Cascade` is what the foreign
key does when a transaction is deleted. `Restart` loses every request in flight. A
write under a watched path moves its client to `answering`; `Answer` sends the response
and clears the cache, `Disconnect` is a client that has gone. The figures of a summary are
abstracted to whether it shows the rows as they are. `asked`, `reverted`, `allowed`,
`unchecked`, `stray`, `misled` and `blame` are history variables. Balances of accounts are summed
when they are read, so fund transfers have no state besides their row.

**AuditTrail, PlatformOperations.** A target is a reconciliation decision, a company or a
user; its value the decision, the status or the company. `BeginSubmit` is the read of
`submitBatch`, which sees no row of another company (`HeldByOthers`), `BeginOverride` that of
the transaction of a single override, `CommitRequest` the upserts, by key alone, and
audit rows in the order of the items; `owner` is the company of a decision's row. `CreateCompany` is `POST /company` for a user
who exists: it moves the user and writes no audit row, which the history variable `unaudited` records. An operation goes through its targets:
`ReadTarget` and `WriteTarget` are one transaction, split at its read because another change
may commit in between; `ReportDone` and `ReportFailed` write the item; `Finish` the status.
`WriteMisleads`, `ReportFails` and `FinishMisleads` are statements that fail, or succeed
without an answer, inside a `try` whose catch reports the target as failed;
`Abandon` is one outside. `RetryFailed` is the retry as the code makes it: whatever the operation
was, its failed items become a batch override of decisions, which approves when the operation recorded no value.

**Sessions, PasswordReset.** A tab is a request in flight. `Check` is the lookup of the
session presented, `Rotate`, `Sweep` and `RevokeOne` the writes that may follow, `Answer` the arrival
of the response, `LoseAnswer` and `Restart` that of none. A cookie is shared by the
tabs of a browser. Only the answer with a new session changes it: `clearRefreshCookie` sends no `Secure` attribute, and a browser
disregards such a header for a name with the prefix `__Host-`, so the cookie stays until it expires or is replaced.
`excused` is a history variable: the sessions whose revocation the browser does not learn of, or may overtake. `CountRecent` and `CreateToken`, `CheckToken` and `SetPassword` are split where the
code awaits. The age of a token is abstracted to the two limits the code compares it with.

## Runs

| Run | Shows | Bounds |
|---|---|---|
| `inventory` | types; balances equal their movements and issues are resolved once per opening, except by stale requests; the stock tables implement `StockLedger`; the inductive invariant | 2 clients, 2 SKUs, 1 issue, 3 movements, quantities -1, 0, 2 |
| `orders` | no imported order is left undeducted without a trace, whatever happens to aliases, issues and transactions; a `replace` commit imports again what it deletes; a commit stays within its module and its file's months; the inductive invariant | 2 jobs of 2 rows, 1 worker, 1 client, 3 transactions, 2 movements; files with a repeated line, with an alias and an unreadable date, and of the other module |
| `orders_overlap` | a line is in the ledger twice, and a row deducted from one SKU twice, only through overlapping commits; repeated commits and deleted transactions are not enough | 2 jobs of one row, 2 workers, 3 transactions, 3 movements |
| `orders_row_deducted`, `orders_line_deducted`, `orders_replace_reimports` (violated) | what the documents and the conflict dialog promise, each against the code | 1 worker, one row |
| `ledger` | a SUCCEEDED file job has booked its file, unless its last commit found only part of it, and an SP-API job that booked an order has booked all; what is half written was left by a crash; a line is booked twice only when two requests looked it up at once; an expense job stays SUCCEEDED once its preview has ended; every commit that survives ends in a final status; the inductive invariant | 1 job of 2 rows, 2 workers, crashes anywhere, 4 transactions; a behaviour is of files of the 3 kinds in an empty ledger, of the same with a line booked earlier and 1 deletion, of orders (priced, free or blocked), or of cash files that overlap |
| `payments` | books agree, PAID means covered and is final, except after a stale write | 3 clients, 2 invoices with totals 0, 2 or 3, payments of 1 or 2, 3 payments |
| `billing` | when all events are answered the row is current, unless its last write came late; every event is processed in the end; the inductive invariant | 2 webhook requests; a behaviour is of 1 subscription with 3 events of any kind, 1 sync and 1 failure, or of 2 subscriptions with 5 events, one of which may be a cancellation |
| `bookkeeping` | an edit stands unless one that had read the row before undoes it; limits hold for what they check; attachment rows have files and files rows; an old summary has its reason; the inductive invariants of the four parts | 2 clients, 1 viewer, 2 values, 2 months, 2 plans with limits 1 and 2, 2 files; a behaviour is of one of five mixes: edits of a transfer, creations of two transactions or of two accounts while plan and month change, files of a transaction, edits of a transaction with summaries |
| `platform` | audit rows are the history of their target; items and statuses tell what was done; a retry repeats nothing its source has done; every handler ends; the inductive invariant | 4 targets (a decision made, one not made, a company, a user), 2 companies that submit, 3 operations, 1 client, 2 items per submission, 1 fault; a behaviour is of operations that overlap with submissions, of operations on a user who creates companies, or of an operation and its retries |
| `auth` | a session has one successor; the reuse alarm has an excuse; links keep to their limit; a token sets one password; the inductive invariant | 2 browsers and 2 requests in flight, 3 sessions; 2 tokens, limit 1, 2 requests for a link, 2 resets; ids, requests and browsers are symmetric; a behaviour is of sessions or of resets |

The bounds are the smallest at which every hazard happens: two requests for
a race (a third adds no new kind of stale read, since a write depends on one
earlier read), two jobs for a line imported twice, two months so that one can be in
conflict and the other not, one SKU and a changing alias in the import runs because
the duplicate check is per SKU, two in `inventory` so that a write can spoil the wrong one,
one failure per behaviour in `billing` because each property relates a failure to the retry after it.
`orders` has one worker: what its properties are about is what happens between
preview and commit; `orders_overlap` has two, with files of one row.
Counters of the database (`MaxMovements`, `MaxTransactions`, `MaxPayments`,
`MaxEvents`, `MaxDeletions`, `MaxFailures`) stop the actions that raise them.
`CHECK_DEADLOCK FALSE` is set where the system may then stop.
Mixes (`mix` and `part` in the MC modules) bound a product: parts whose rows never meet are explored one at
a time. In `bookkeeping` the parts share the clients and the rows, so their combination is what the proofs are for.
The reset limit is 5 in the code; the property relates a count to a limit, and 1 with 2 requests is the smallest limit two
requests can exceed together. Limits of 1 and 2 rows stand for the plans in the same way.
`platform` has three operations so that a retry can be retried, and overlap with one that still runs.

A run marked violated states what a document, a comment or the user interface
says, with the line quoted in `PROJECT.json`, and TLC's trace shows the code
doing otherwise. Next to each stands the property the code does keep: the same
statement except for what a named history variable records (`...UnlessRaced`,
`HalfWrittenOnlyWhenCut`, `CurrentUnlessOutdated`).

Deviations that have no run of their own, met while modelling:

- Two overlapping adjustments of one SKU lose one of them (`inventory.service.ts`
  1388). The model has this: it is why the refinement lets a SKU in `raced` drift.
- A job previewed before a month held data adds rows to it under
  `skip_existing_months` (`imports.service.ts` 4060), while the dialog says
  the month's data is not changed.
- Committing a SUCCEEDED income job again counts the rows already booked as
  errors and marks the job FAILED (`imports.service.ts` 5587, 5670); only
  `ExpenseSuccessIsFinal` holds.
- A Stripe event that is handled last leaves the plan it carries, also when it is
  the older one (`billing/billing.controller.ts` 511), until another event comes.
- A user deleting one order of a booked SP-API job cannot book it again from that job: the
  review refuses the whole job for the orders still there. A job with two items of one SKU is
  refused as well (`amazon-sp-api-orders-transaction-commit.service.ts` 104), and
  an item priced at 0 is skipped without a trace in its staging row (181).
- The SP-API import and the CSV import of the same order compute different hashes, and so do two
  cash files that hold a line at different row numbers (`imports.service.ts` 3534): both are booked.
- A logout or a second refresh that overtakes a refresh leaves its successor live
  (`auth/refresh.service.ts` 65): `ChainIntact` names it in `overlapped`.
- `docs/04-auth-session-design.md` 174 and `docs/06-api-contract.md` 267 say that a logout clears the refresh cookie. The
  header it sends has no `Secure` attribute (`auth/refresh.controller.ts` 36), and browsers disregard it for a `__Host-` cookie:
  the revoked session stays in the cookie, and the refresh the web client sends after its next 401 is taken for
  reuse, which ends all sessions of the user. `AlarmOnlyWhenExcused` counts a logout among the excuses for that reason.
- A job is committed whatever its status (`imports/imports.service.ts` 4722, 5557), also while its preview runs and after that has
  died: it is called SUCCEEDED with the rows booked that were stored by then, for income also with none; a preview that still runs
  sets it back to PROCESSING (4696). `SucceededMeansBooked` and `ExpenseSuccessIsFinal` leave out these cases.
- `submitBatch` looks rows up by company and upserts them by key (`reconciliation-decision/reconciliation-decision.service.ts`
  31, 46): a key another company holds is taken over, and audited with no previous value. `POST /company` moves a
  user without an audit row (`company/company.controller.ts` 24), whereas an administrator's assignment leaves one.
- Two retries of one operation may both carry out the same override, each with its audit row: neither knows of the other
  (`platform-ops/platform-reconciliation-operation.service.ts` 175). `RetryNeverRepeats` is about a retry and its source.
- A retry of a failed suspension or assignment is carried out as a batch override that
  approves decisions (`platform-ops/platform-reconciliation-operation.service.ts` 183); it
  finds no decision under the id of a company or a user and fails again. A retried override is applied
  to whatever decision a reviewer has made since.
- The key of the summary cache holds no company (`dashboard/dashboard-cache.ts`); the
  model is of one workspace.
- `account/account.controller.ts` declares routes that `accounts/` also declares;
  the latter are registered first and answer.

### Fairness

- `BookingImports`, `FairSpec`: weak fairness of each worker's next step (`Proceed`). A
  request that has started is carried on by the event loop until it ends or dies.
  Starting requests is not fair, nor is dying.
- `BillingSync`, `FairSpec`: weak fairness of each request's next step, and of
  the delivery of each event that is not yet answered: Stripe retries deliveries
  that fail. Failures are bounded; with unboundedly many nothing could be promised.
- `PlatformOperations`, `FairSpec`: weak fairness of each handler's next step when
  the database answers (`Proceed`); faults are not fair and are bounded.

## Proofs

The theorems hold for every set of rows, clients, sessions and so on, and for every bound, from the
assumptions the modules name: null values are not members of the sets
they stand beside, quantities and bounds are numbers, sets that are counted are finite
(`InventoryAssumption`, `PaymentsAssumption`, `EditableRowsAssumption`, `PlanLimitsAssumption`,
`AttachmentsAssumption`, `SessionsAssumption`, `PasswordResetAssumption`, `LedgerImportAssumption`,
`AmazonOrdersAssumption`, `CashIncomeAssumption`, `BillingSyncAssumption`, `AuditTrailAssumption`,
`PlatformOperationsAssumption`, `StoreOrdersImportAssumption`). Files are sequences of rows, and a file of the store-orders import has
at least one row and rows of one module. Subscriptions and audited targets are finitely many, because the models count
them. TLC evaluates each assumption in a run. Each proof has the same shape: an invariant `...IInv` with
the types, the properties and what requests in flight still know; a lemma per action or per
kind of action; a theorem `Spec => []IInv`, and the properties from it.

- **`AlwaysIInv`, `SnapshotIsSum`, `ResolvedOnce`, `ImplementsLedger`** (`Inventory`). The invariants
  are not inductive: whether a commit preserves the sum depends on what its
  request read. `IInv` adds `FreshReads` (a request that is not `stale` has read the balance as it is),
  `OpenWhileResolving` (a request that is not `late` resolves an issue
  that is still OPEN) and `OpeningsLeft` (resolutions so far, and one more while the issue is open, do not
  exceed its openings). `RequestStep` is the lemma for the actions that move a
  request and no table, `WriteStep` for the two commits, `ImportStep` for the
  imports. `ImplementsLedger` is the refinement: `WritePosts` and `ImportPosts` show
  that these steps are steps of the abstract ledger, because a write from a
  fresh read (`FreshReads`) changes the balance by the quantity of its movement;
  every other step is a stutter.
- **`AlwaysIInv`, `BooksAgree`, `PaidIsCovered`, `PaidIsFinal`** (`Payments`). `IInv` adds to
  the types and the sums: `InFlight` and `FreshReads` (what a request holds is
  the invoice's paid amount unless it is stale) and `NothingBeforeIssue` (an
  invoice that does not exist has no payments). `PaidIsFinal` is an action
  property: a fresh commit only raises the amount paid.
- **`AlwaysIInv`, `OneHashUnlessRaced`, `DeductedOnceUnlessRaced`, `EveryOrderTraced`, `StaysInFile`,
  `Reimports`** (`StoreOrdersImport`). A commit works through its rows on what it read at the start and on its own
  uncommitted writes, while deletions, resolutions, alias edits and other commits go on. `JobFits` says what
  the preview left in the job (a row of a month to be replaced is `new` until the first commit), and
  `Fits(w)` what the request of `w` holds, in eight parts: `RequestFits` (it works for its job, and the
  rows it has not come to are new ones), `WritesFit`, `IdsFit` and `GoneFits` (its created, moved and deleted rows),
  and one part per property: `LinesFit` (a line it has created is in the ledger, or created by another, only
  if it deletes it or it was raced for), `DeductionsFit` (the same of rows and movements), `TracesFit`
  (an order it has created has its trace, or is the row it is at), and `ReimportsFit` (a line it has come to is
  created or found). The properties speak of the ledger, so they are inductive only with what open
  commits will add to it. `LocalStep` is the lemma for the steps that move one request and no table, `Bystander`
  that for the other requests; `DoneTables`, `DoneStock`, `DoneLedger` and `DoneOthers` take `FinishCommit` apart.
  `Reimports` and `StaysInFile` are action properties. The former excuses a line that was found in the ledger
  and not created (`Found`): another commit inserted it after the months were deleted, and a user may delete it
  before this commit ends.
- **`SnapshotIsSum`, `ResolvedOnce`, `ImplementsLedger`** (`StoreOrdersImport` over `Inventory`). The import carries
  the inductive invariant of the stock tables along (the `Stock...` lemmas), so that their theorems hold of the
  composed system as well: import and audit resolution together implement `StockLedger`. The deduction of a whole commit is one step of
  it, whose total is that of its movements.
- **`EditsStand`** (`EditableRows`). `KeptIsCurrent`: for every field an edit leaves out and that no
  one has written since, what it is going to write is what the row holds.
- **`LimitsHold`** (`PlanLimits`). `RoomLeft`: a creation whose count nobody
  has overtaken still has room, so its row keeps within the limit; the rows
  in `unchecked` do not count towards the bound, while they do in the check.
- **`RowsHaveFiles`, `OrphansExplained`** (`Attachments`). `FilingAgrees`: where
  file and row stand at each step of a request, and which two requests can hold the same file.
- **`SummariesExcused`** (`DashboardCache`). The property is inductive with its types.
- **`ImplementsParts`, `Inductive`, `Safe`** (`Bookkeeping`). Every step of the composition is a step
  of each part or leaves it alone (`StepsOfLimits`, `StepsOfFiles`, `StepsOfCache`), so
  the composition implements the four specifications and has their invariants.
- **`Inductive`, `ChainsIntact`, `AlarmsExcused`, `ResetsLimited`, `TokensUsedOnce`** (`Auth`).
  `Holding` (a session a request answers with is in no cookie and no other request),
  `PresentedIsLive` (a revoked session is in a cookie, or about to be presented, only for a recorded
  reason, or because the answer that replaces it is on its way) and `ParentsExist` for sessions; `ResetsPending` (a count nobody has overtaken leaves room; a
  token one reset has checked alone is not used) for resets.

- **`AlwaysIInv`, `BookedOnce`, `Claims`, `HalfWritten`, `SuccessIsFinal`** (`BookingImports`). A commit works from the statuses its
  preview left, the ledger from what several commits inserted, and a request may die anywhere; so
  `IInv` says what each of them still means. `Justified`: a bad row is an
  error, a committed row is in the ledger, a duplicate is there or above in its file. `PassedRowsKnown`: a request
  that read the whole file and counted no error has every row it passed in the ledger, hence SUCCEEDED means booked.
  `TransactionsOfRows`, `RowsAsRead` and `PreviewsAlone` together keep a preview from
  overwriting a staging row that a transaction hangs on: a commit of the same job works on rows that are stored, the preview on rows
  that are not. `DirectRows` does so for the one-step path, which passes bad rows only, and `LinkedNext` for a commit. `AbsentUnlessRaced`:
  what a request is about to insert is not in the ledger and no other is about to insert it, unless raced for,
  hence `BookedOnce`. `FailedOnBadRow` is for
  `SuccessIsFinal`, an action property: an expense job is FAILED only for a bad row of its file, and a file with one has
  never SUCCEEDED by a commit that read it whole. Each part has its lemma (`StepRowsAsRead`, `StepLinkedNext`, ...), over `Acts`, the steps of one request.

- **`AlwaysIInv`, `Current`** (`BillingSync`). `ChangePending` is the property for the time before everything is
  settled: a row that is not current, and was not written late, has an event for which it is still to be written.
  `OfCheckouts` and `AboutSubscriptions` say that what events, requests and the row name exists at Stripe with the
  same customer, so that Stripe has an answer when it is asked for that customer's subscription.
- **`AlwaysIInv`, `HistoryAlways`, `ReportsAlwaysAgree`, `RetriesNeverRepeat`** (`AuditTrail`, `PlatformOperations`).
  `RequestsFresh` and `RunsFresh`: what a submission or a handler read is still so unless it is recorded as late;
  a read of a user without a row in the trail since (`unaudited`) is late from the start, and so is that of a row of another company.
  `Fits(o)` relates an operation, its handler, its items and the audit rows: `OperationFits` (a retry's targets are those
  its source reported FAILED), `RunFits`, `ChangesFit` (a target still to do is not changed, one that is behind is changed once or excused),
  `ItemsFit`, `CountsFit` (the counts so far are those of the targets done with) and `StatusFits`.

TLC checks each `IInv` on the instances above. Every invariant and action property that a passing run checks is
a theorem. Only model-checked is liveness: `CommitSettles`, `EventuallyProcessed` and
`OperationEnds`; the proof system does not reason about ENABLED, which fairness rests on. Induction over data is avoided: sequences and files are treated by position,
and where a least element is needed (`RowAt`, the events in their order), the well-foundedness of the naturals
gives it (`LeastNatural`). The properties of the violated runs are false and have no theorem.

## Plan

1. *Further proofs*: the safety facts behind the liveness properties, statable without ENABLED: a measure that every step of a
   handler lowers, such as the statements an operation or a commit has still to run. `BookedTogether` and the other
   parts of the properties could be refined to abstract ledgers of their own, as `StockLedger` is for the inventory.
2. *SP-API connection*: authorisation, token persistence and refresh, with the
   connection's status.
3. *SP-API inventory*: `deductAmazonSpApiOrdersInventory` composed with
   `Inventory`, when a route reaches it: check, movement and balance are separate
   statements, and it stores OUT movements with a positive quantity, unlike the other writers.
4. *Pure algorithms*: sync-window planner, month normalisation, stock status, as
   functions against reference definitions.

## Not modelled

The web application, static sites and deployment; read-only reporting
(dashboard aggregates, reports, platform analytics); registration, login audit and
administrators' sessions, single statements whose order matters to nothing else; CSV
column parsing and the account resolution of the cash preview, which store nothing; SP-API
contract objects, gates and test doubles under `imports/` and `imports/dto/`,
which are constants and validators without state. The inventory deduction of SP-API orders, the
historical sync with its window planner, and the loop of
`platform-reconciliation-batch.service.ts` exist in the source but no route reaches them. The SP-API
connection has its own tables and touches none of those modelled here; it is the next in the plan.
`PROJECT.json` lists every component with its status.
