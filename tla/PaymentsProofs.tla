--------------------------- MODULE PaymentsProofs ---------------------------
(***************************************************************************)
(* Invoices agree with their receipts and with the ledger, for every number*)
(* of invoices, of payments in flight and of amounts.                      *)
(***************************************************************************)
EXTENDS Payments, TLAPS

USE PaymentsAssumption

\* The status written with a payment is one of the schema's, and it is PAID
\* exactly when the new paidAmount is positive and covers the total.
LEMMA NextStatusMeans ==
    ASSUME NEW newPaid \in Nat, NEW amount \in Nat
    PROVE  /\ NextStatus(newPaid, amount) \in Statuses \ {"NONE"}
           /\ NextStatus(newPaid, amount) = "PAID" <=> newPaid > 0 /\ newPaid >= amount
BY DEF NextStatus, Statuses

\* The inductive invariant holds before any invoice exists.
LEMMA InitIInv == Init => IInv
BY DEF Init, IInv, TypeOK, BooksAgreeUnlessRaced, PaidMeansCovered, FreshReads, InFlight,
       NothingBeforeIssue, Idle, Requests, Statuses

\* Marking the other payments of an invoice as stale keeps them well formed and
\* changes nothing else of them.
LEMMA MarkStale ==
    ASSUME NEW r \in Requests, NEW i
    PROVE  LET s == [r EXCEPT !.stale = @ \/ r.invoice = i] IN
             /\ s \in Requests
             /\ s.invoice = r.invoice
             /\ s.amount = r.amount
             /\ s.seen = r.seen
             /\ ~s.stale => ~r.stale /\ r.invoice # i
<1>1. (r.stale \/ r.invoice = i) \in BOOLEAN
  OBVIOUS
<1>. QED
  BY <1>1 DEF Requests

\* Every step keeps the inductive invariant.
LEMMA StepIInv == IInv /\ [Next]_paymentVars => IInv'
<1>. SUFFICES ASSUME IInv, [Next]_paymentVars PROVE IInv'
  OBVIOUS
<1>. USE DEF IInv
<1>1. Idle \in Requests /\ Idle.invoice \notin Invoices
  BY DEF Idle, Requests
<1>2. ASSUME NEW i \in Invoices, NEW amount \in Totals, CreateInvoice(i, amount)
      PROVE  IInv'
  <2>1. TypeOK'
    BY <1>2 DEF CreateInvoice, TypeOK, Statuses
  <2>2. received[i] = 0
    BY <1>2 DEF CreateInvoice, NothingBeforeIssue
  <2>3. PaidMeansCovered'
    BY <1>2, <2>2 DEF CreateInvoice, TypeOK, PaidMeansCovered
  <2>4. (BooksAgreeUnlessRaced /\ FreshReads)'
    BY <1>2 DEF CreateInvoice, BooksAgreeUnlessRaced, FreshReads
  <2>5. (InFlight /\ NothingBeforeIssue)'
    BY <1>2 DEF CreateInvoice, TypeOK, InFlight, NothingBeforeIssue
  <2>. QED
    BY <2>1, <2>3, <2>4, <2>5
<1>3. ASSUME NEW c \in Clients, NEW i \in Invoices, NEW amount \in Amounts,
             BeginPayment(c, i, amount)
      PROVE  IInv'
  <2>. DEFINE r == [invoice |-> i, amount |-> amount, seen |-> paid[i], stale |-> FALSE]
  <2>1. r \in Requests /\ r.amount > 0
    BY DEF Requests, TypeOK
  <2>2. request' = [request EXCEPT ![c] = r]
    BY <1>3 DEF BeginPayment
  <2>3. UNCHANGED <<total, paid, status, received, income, payments, raced>>
    BY <1>3 DEF BeginPayment
  <2>4. status[i] # "NONE"
    BY <1>3 DEF BeginPayment
  <2>5. TypeOK'
    BY <2>1, <2>2, <2>3 DEF TypeOK
  <2>6. FreshReads'
    BY <2>2, <2>3 DEF FreshReads, TypeOK
  <2>7. InFlight'
    BY <2>1, <2>2, <2>3, <2>4 DEF InFlight, TypeOK
  <2>8. (BooksAgreeUnlessRaced /\ PaidMeansCovered /\ NothingBeforeIssue)'
    BY <2>3 DEF BooksAgreeUnlessRaced, PaidMeansCovered, NothingBeforeIssue
  <2>. QED
    BY <2>5, <2>6, <2>7, <2>8
<1>4. ASSUME NEW c \in Clients, NEW i \in Invoices, CommitPayment(c, i)
      PROVE  IInv'
  <2>. DEFINE r == request[c]
  <2>1. /\ r \in Requests
        /\ r.invoice = i
        /\ r.amount \in Nat
        /\ r.seen \in Nat
        /\ r.amount > 0
    BY <1>4 DEF CommitPayment, TypeOK, Requests, InFlight
  <2>2. /\ payments' = payments + 1
        /\ received' = [received EXCEPT ![i] = @ + r.amount]
        /\ income' = [income EXCEPT ![i] = @ + r.amount]
        /\ paid' = [paid EXCEPT ![i] = r.seen + r.amount]
        /\ status' = [status EXCEPT ![i] = NextStatus(r.seen + r.amount, total[i])]
        /\ raced' = IF r.stale THEN raced \cup {i} ELSE raced
        /\ UNCHANGED total
    BY <1>4 DEF CommitPayment, WritePaid
  <2>3. request' = [d \in Clients |->
            IF d = c THEN Idle
            ELSE [request[d] EXCEPT !.stale = @ \/ request[d].invoice = i]]
    BY <1>4 DEF CommitPayment
  <2>4. ASSUME NEW d \in Clients
        PROVE  /\ request'[d] \in Requests
               /\ request'[d].invoice \in Invoices =>
                     /\ request'[d].invoice = request[d].invoice
                     /\ request'[d].amount = request[d].amount
                     /\ request'[d].seen = request[d].seen
                     /\ ~request'[d].stale => ~request[d].stale /\ request[d].invoice # i
    <3>1. request[d] \in Requests
      BY DEF TypeOK
    <3>2. CASE d = c
      BY <1>1, <2>3, <3>2
    <3>3. CASE d # c
      BY ZenonT(60), <2>3, <3>1, <3>3, MarkStale
    <3>. QED
      BY <3>2, <3>3
  <2>5. /\ NextStatus(r.seen + r.amount, total[i]) \in Statuses \ {"NONE"}
        /\ NextStatus(r.seen + r.amount, total[i]) = "PAID"
              <=> r.seen + r.amount > 0 /\ r.seen + r.amount >= total[i]
    BY <2>1, NextStatusMeans DEF TypeOK
  <2>6. i \notin raced' => r.seen = paid[i] /\ i \notin raced
    BY <2>1, <2>2 DEF FreshReads
  <2>7. TypeOK'
    <3>1. request' \in [Clients -> Requests]
      BY <2>3, <2>4
    <3>2. status' \in [Invoices -> Statuses]
      BY <2>2, <2>5 DEF TypeOK
    <3>. QED
      BY <2>1, <2>2, <3>1, <3>2 DEF TypeOK
  <2>8. BooksAgreeUnlessRaced'
    BY <2>1, <2>2, <2>6 DEF BooksAgreeUnlessRaced, TypeOK
  <2>9. PaidMeansCovered'
    <3>1. SUFFICES ASSUME NEW k \in Invoices, k \notin raced'
                   PROVE  (status[k] = "PAID" <=> received[k] > 0 /\ received[k] >= total[k])'
      BY DEF PaidMeansCovered
    <3>2. CASE k = i
      <4>1. received'[i] = r.seen + r.amount
        BY <2>1, <2>2, <2>6, <3>1, <3>2 DEF BooksAgreeUnlessRaced, TypeOK
      <4>2. status'[i] = NextStatus(r.seen + r.amount, total[i])
        BY <2>2 DEF TypeOK
      <4>. QED
        BY <2>2, <2>5, <3>2, <4>1, <4>2
    <3>3. CASE k # i
      BY <2>2, <3>1, <3>3 DEF PaidMeansCovered, TypeOK
    <3>. QED
      BY <3>2, <3>3
  <2>10. FreshReads'
    BY <2>2, <2>4 DEF FreshReads, TypeOK
  <2>11. InFlight'
    <3>1. \A k \in Invoices : status[k] # "NONE" => status'[k] # "NONE"
      BY <2>2, <2>5 DEF TypeOK
    <3>. QED
      BY <2>4, <3>1 DEF InFlight
  <2>12. NothingBeforeIssue'
    BY <2>2, <2>5 DEF NothingBeforeIssue, TypeOK
  <2>. QED
    BY <2>7, <2>8, <2>9, <2>10, <2>11, <2>12
<1>5. ASSUME NEW c \in Clients, Abort(c) PROVE IInv'
  <2>1. TypeOK'
    BY <1>1, <1>5 DEF Abort, TypeOK
  <2>2. (FreshReads /\ InFlight)'
    BY <1>1, <1>5 DEF Abort, FreshReads, InFlight, TypeOK
  <2>. QED
    BY <1>5, <2>1, <2>2 DEF Abort, BooksAgreeUnlessRaced, PaidMeansCovered, NothingBeforeIssue
<1>6. CASE UNCHANGED paymentVars
  BY <1>6 DEF paymentVars, TypeOK, BooksAgreeUnlessRaced, PaidMeansCovered, FreshReads,
              InFlight, NothingBeforeIssue
<1>. QED
  BY <1>2, <1>3, <1>4, <1>5, <1>6 DEF Next

\* The inductive invariant holds in every behaviour.
THEOREM AlwaysIInv == Spec => []IInv
BY InitIInv, StepIInv, PTL DEF Spec

-----------------------------------------------------------------------------
\* Whatever payments are recorded and however they interleave, paidAmount, the
\* receipts and the INVOICE_PAYMENT income of an invoice agree until a payment
\* commits a paidAmount computed from an outdated read.
THEOREM BooksAgree == Spec => []BooksAgreeUnlessRaced
<1>1. IInv => BooksAgreeUnlessRaced
  BY DEF IInv
<1>. QED
  BY <1>1, AlwaysIInv, PTL

\* An invoice is PAID exactly when its receipts cover it, until then.
THEOREM PaidIsCovered == Spec => []PaidMeansCovered
<1>1. IInv => PaidMeansCovered
  BY DEF IInv
<1>. QED
  BY <1>1, AlwaysIInv, PTL

\* No payment that read the invoice in time reopens a settled invoice: a larger
\* paidAmount covers the total as well.
THEOREM PaidIsFinal == Spec => PaidIsFinalUnlessRaced
<1>. DEFINE Final == \A i \in Invoices :
                        status[i] = "PAID" /\ i \notin raced' => status'[i] = "PAID"
<1>1. IInv /\ [Next]_paymentVars => [Final]_paymentVars
  <2>. SUFFICES ASSUME IInv, Next, NEW k \in Invoices, status[k] = "PAID", k \notin raced'
                PROVE  status'[k] = "PAID"
    OBVIOUS
  <2>1. status \in [Invoices -> Statuses]
    BY DEF IInv, TypeOK
  <2>2. ASSUME NEW c \in Clients, NEW i \in Invoices, CommitPayment(c, i)
        PROVE  status'[k] = "PAID"
    <3>. DEFINE r == request[c]
    <3>1. /\ r.invoice = i
          /\ status' = [status EXCEPT ![i] = NextStatus(r.seen + r.amount, total[i])]
          /\ raced' = IF r.stale THEN raced \cup {i} ELSE raced
      BY <2>2 DEF CommitPayment
    <3>2. CASE k # i
      BY <2>1, <3>1, <3>2
    <3>3. CASE k = i
      <4>1. ~r.stale /\ i \notin raced
        BY <3>1, <3>3
      <4>2. r.seen = received[i] /\ received[i] > 0 /\ received[i] >= total[i]
        BY <3>1, <3>3, <4>1 DEF IInv, FreshReads, BooksAgreeUnlessRaced, PaidMeansCovered
      <4>3. r.amount \in Nat /\ received[i] \in Nat /\ total[i] \in Nat
        BY DEF IInv, TypeOK, Requests
      <4>4. NextStatus(r.seen + r.amount, total[i]) = "PAID"
        BY <4>2, <4>3, NextStatusMeans
      <4>. QED
        BY <2>1, <3>1, <3>3, <4>4
    <3>. QED
      BY <3>2, <3>3
  <2>3. ASSUME NEW i \in Invoices, NEW amount \in Totals, CreateInvoice(i, amount)
        PROVE  status'[k] = "PAID"
    BY <2>1, <2>3 DEF CreateInvoice
  <2>4. ASSUME NEW c \in Clients, NEW i \in Invoices, NEW amount \in Amounts,
               BeginPayment(c, i, amount)
        PROVE  status'[k] = "PAID"
    BY <2>4 DEF BeginPayment
  <2>5. ASSUME NEW c \in Clients, Abort(c)
        PROVE  status'[k] = "PAID"
    BY <2>5 DEF Abort
  <2>. QED
    BY <2>2, <2>3, <2>4, <2>5 DEF Next
<1>. QED
  BY <1>1, AlwaysIInv, PTL DEF Spec, PaidIsFinalUnlessRaced
=============================================================================
