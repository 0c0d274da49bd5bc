SPECIFICATION MCSpec
CONSTANTS
    rent = rent
    sale = sale
    Lines = {rent, sale}
    Jobs = {j1}
    Kinds = {"expense", "income", "direct"}
    Files <- MixedFiles
    OrderFiles <- FetchedFiles
    CashFiles <- CashRows
    MaxRows = 2
    Earlier = {sale}
    Workers = {w1, w2}
    MaxTransactions = 4
    MaxDeletions = 1
    NoJob = NoJob
INVARIANTS
    IInv
    ClaimsAreBooked
    HalfWrittenOnlyWhenCut
    BookedOnceUnlessRaced
PROPERTIES
    ExpenseSuccessIsFinal
    CommitSettles
CHECK_DEADLOCK FALSE
