SPECIFICATION MCSpec
CONSTANTS
    t1 = t1
    t2 = t2
    f1 = f1
    a1 = a1
    a2 = a2
    Rows = {t1, t2, f1, a1, a2}
    TableOf <- MCTableOf
    Fields <- MCFields
    Values = {1, 2}
    Clients = {c1, c2}
    Absent = Absent
    Keep = Keep
    Months = {1, 2}
    Plans = {"STARTER", "STANDARD"}
    Limit <- MCLimit
    Files = {k1, k2}
    Viewers = {v1}
INVARIANTS
    LastEditStands
    WithinLimit
    RowHasFile
    OrphanOnlyWhenCut
    OutdatedOnlyWhenExcused
    IInv
