SPECIFICATION Spec
CONSTANTS
    Skus = {s1, s2}
    Issues = {i1}
    Clients = {c1, c2}
    NoSku = NoSku
    NoIssue = NoIssue
    Quantities <- MCQuantities
    MaxMovements = 3
SYMMETRY Symmetry
INVARIANTS
    BalanceIsSumUnlessRaced
    ResolvedOncePerOpening
    IInv
PROPERTIES
    SnapshotFollowsMovements
