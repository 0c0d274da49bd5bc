SPECIFICATION Spec
CONSTANTS
    Invoices = {i1, i2}
    Totals = {0, 2, 3}
    Amounts = {1, 2}
    Clients = {c1, c2, c3}
    NoInvoice = NoInvoice
    MaxPayments = 3
SYMMETRY ClientSymmetry
INVARIANTS
    BooksAgreeUnlessRaced
    PaidMeansCovered
    IInv
PROPERTIES
    PaidIsFinalUnlessRaced
CHECK_DEADLOCK FALSE
