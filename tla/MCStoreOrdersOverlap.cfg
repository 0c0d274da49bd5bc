SPECIFICATION Spec
CONSTANTS
    order1 = order1
    order2 = order2
    order3 = order3
    fee1 = fee1
    jan = jan
    feb = feb
    direct = direct
    nickname = nickname
    s1 = s1
    NoMonth = NoMonth
    NoLabel = NoLabel
    NoSku = NoSku
    NoIssue = NoIssue
    NoJob = NoJob
    Lines <- MCLines
    LineInfo <- MCLineInfo
    DirectSku <- MCDirectSku
    Skus = {s1}
    Jobs = {j1, j2}
    Files <- OneOrder
    MaxRows = 1
    AliasLabels = {}
    Workers = {w1, w2}
    Clients = {}
    MaxMovements = 3
    MaxTransactions = 3
SYMMETRY JobWorkerSymmetry
INVARIANTS
    SameHashOnlyByOverlap
    OneMovementPerRowAndSku
