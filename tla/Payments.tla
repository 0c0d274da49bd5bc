------------------------------ MODULE Payments ------------------------------
(***************************************************************************)
(* Invoices and the payments recorded against them: create of apps/api/src *)
(* /invoice/invoice.service.ts and of payment/payment.service.ts.          *)
(*                                                                         *)
(* A payment reads the invoice before its database transaction begins and  *)
(* writes paidAmount and status, computed from that read, inside it.       *)
(***************************************************************************)
EXTENDS Integers

CONSTANTS
    Invoices,     \* Invoice rows
    Totals,       \* totalAmount of an invoice
    Amounts,      \* amounts of a payment
    Clients,      \* payment requests in flight at the same time
    NoInvoice,
    MaxPayments   \* bound on the PaymentReceipt rows of a behaviour

ASSUME PaymentsAssumption ==
    /\ Totals \subseteq Nat
    /\ Amounts \subseteq Nat \ {0}
    /\ NoInvoice \notin Invoices
    /\ MaxPayments \in Nat

VARIABLES
    total,        \* Invoice.totalAmount
    paid,         \* Invoice.paidAmount
    status,       \* Invoice.status, NONE before the row exists
    received,     \* per invoice, the sum of its PaymentReceipt rows
    income,       \* per invoice, what its payments posted as INVOICE_PAYMENT transactions
    payments,     \* number of PaymentReceipt rows
    request,      \* per client, the payment in flight and what it has read
    raced         \* history: invoices written from a paidAmount out of date

paymentVars == <<total, paid, status, received, income, payments, request, raced>>

Statuses == {"NONE", "ISSUED", "PARTIALLY_PAID", "PAID"}

\* seen is the paidAmount read, stale that another payment has changed it.
Requests == [invoice : Invoices \cup {NoInvoice}, amount : Nat, seen : Nat, stale : BOOLEAN]
Idle == [invoice |-> NoInvoice, amount |-> 0, seen |-> 0, stale |-> FALSE]

Init ==
    /\ total = [i \in Invoices |-> 0]
    /\ paid = [i \in Invoices |-> 0]
    /\ status = [i \in Invoices |-> "NONE"]
    /\ received = [i \in Invoices |-> 0]
    /\ income = [i \in Invoices |-> 0]
    /\ payments = 0
    /\ request = [c \in Clients |-> Idle]
    /\ raced = {}

-----------------------------------------------------------------------------
\* InvoiceService.create: every invoice starts as ISSUED, even a zero one.
CreateInvoice(i, amount) ==
    /\ status[i] = "NONE"
    /\ total' = [total EXCEPT ![i] = amount]
    /\ status' = [status EXCEPT ![i] = "ISSUED"]
    /\ UNCHANGED <<paid, received, income, payments, request, raced>>

\* Mutants: an exact payment leaves the invoice partially paid; only an exact
\* payment settles it.
NextStatusStrict(newPaid, amount) ==
    IF newPaid <= 0 THEN "ISSUED" ELSE IF newPaid <= amount THEN "PARTIALLY_PAID" ELSE "PAID"
NextStatusExact(newPaid, amount) ==
    IF newPaid <= 0 THEN "ISSUED" ELSE IF newPaid # amount THEN "PARTIALLY_PAID" ELSE "PAID"

NextStatus(newPaid, amount) ==
    IF newPaid <= 0 THEN "ISSUED" ELSE IF newPaid < amount THEN "PARTIALLY_PAID" ELSE "PAID"

\* Mutant: what was paid before is not read.
BeginPaymentBlind(c, i, amount) ==
    /\ request[c] = Idle
    /\ status[i] # "NONE"
    /\ request' = [request EXCEPT ![c] =
          [invoice |-> i, amount |-> amount, seen |-> 0, stale |-> FALSE]]
    /\ UNCHANGED <<total, paid, status, received, income, payments, raced>>

\* PaymentService.create up to the transaction: the invoice is read, whatever
\* its status.
BeginPayment(c, i, amount) ==
    /\ request[c] = Idle
    /\ status[i] # "NONE"
    /\ request' = [request EXCEPT ![c] =
          [invoice |-> i, amount |-> amount, seen |-> paid[i], stale |-> FALSE]]
    /\ UNCHANGED <<total, paid, status, received, income, payments, raced>>

\* Mutant: paidAmount is set to the amount of this payment.
WritePaidOver(i, r) == paid' = [paid EXCEPT ![i] = r.amount]

\* The absolute paidAmount computed from the read.
WritePaid(i, r) == paid' = [paid EXCEPT ![i] = r.seen + r.amount]

\* The transaction: receipt, invoice and ledger row become visible together.
CommitPayment(c, i) ==
    LET r == request[c] IN
    /\ r.invoice = i
    /\ payments < MaxPayments
    /\ payments' = payments + 1
    /\ received' = [received EXCEPT ![i] = @ + r.amount]
    /\ income' = [income EXCEPT ![i] = @ + r.amount]
    /\ WritePaid(i, r)
    /\ status' = [status EXCEPT ![i] = NextStatus(r.seen + r.amount, total[i])]
    /\ raced' = IF r.stale THEN raced \cup {i} ELSE raced
    /\ request' = [d \in Clients |->
          IF d = c THEN Idle
          ELSE [request[d] EXCEPT !.stale = @ \/ request[d].invoice = i]]
    /\ UNCHANGED total

\* The request fails, or the process dies, before its transaction commits.
Abort(c) ==
    /\ request[c] # Idle
    /\ request' = [request EXCEPT ![c] = Idle]
    /\ UNCHANGED <<total, paid, status, received, income, payments, raced>>

Next ==
    \/ \E i \in Invoices, amount \in Totals : CreateInvoice(i, amount)
    \/ \E c \in Clients, i \in Invoices, amount \in Amounts : BeginPayment(c, i, amount)
    \/ \E c \in Clients, i \in Invoices : CommitPayment(c, i)
    \/ \E c \in Clients : Abort(c)

Spec == Init /\ [][Next]_paymentVars

-----------------------------------------------------------------------------
TypeOK ==
    /\ total \in [Invoices -> Nat]
    /\ paid \in [Invoices -> Nat]
    /\ status \in [Invoices -> Statuses]
    /\ received \in [Invoices -> Nat]
    /\ income \in [Invoices -> Nat]
    /\ payments \in Nat
    /\ request \in [Clients -> Requests]
    /\ raced \in SUBSET Invoices

\* Invoice, receipts and ledger agree on what was paid, unless a payment wrote
\* a paidAmount computed from a read that another payment had outdated.
BooksAgreeUnlessRaced ==
    \A i \in Invoices \ raced : paid[i] = received[i] /\ income[i] = received[i]

\* An invoice is PAID exactly when its receipts cover it, unless payments raced
\* (a zero invoice counts as covered only once something was received).
PaidMeansCovered ==
    \A i \in Invoices \ raced :
        status[i] = "PAID" <=> received[i] > 0 /\ received[i] >= total[i]

\* A settled invoice is never reopened by a payment that read it in time.
PaidIsFinalUnlessRaced ==
    [][\A i \in Invoices : status[i] = "PAID" /\ i \notin raced' => status'[i] = "PAID"]_paymentVars

-----------------------------------------------------------------------------
(* The inductive invariant *)

\* A read that is not stale is still the paidAmount of its invoice.
FreshReads ==
    \A c \in Clients :
        request[c].invoice \in Invoices /\ ~request[c].stale
            => request[c].seen = paid[request[c].invoice]

\* A request in flight carries an amount, for an invoice that exists.
InFlight ==
    \A c \in Clients :
        request[c].invoice \in Invoices
            => request[c].amount > 0 /\ status[request[c].invoice] # "NONE"

NothingBeforeIssue ==
    \A i \in Invoices : status[i] = "NONE" => received[i] = 0

IInv ==
    /\ TypeOK
    /\ BooksAgreeUnlessRaced
    /\ PaidMeansCovered
    /\ FreshReads
    /\ InFlight
    /\ NothingBeforeIssue
=============================================================================
