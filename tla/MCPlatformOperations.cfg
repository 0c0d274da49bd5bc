SPECIFICATION MCSpec
CONSTANTS
    d1 = d1
    d2 = d2
    m1 = m1
    u1 = u1
    k1 = k1
    k2 = k2
    o1 = o1
    o2 = o2
    o3 = o3
    Targets = {d1, d2, m1, u1}
    Companies = {k1, k2}
    TableOf <- MCTableOf
    ValuesOf <- MCValuesOf
    Clients = {c1}
    Operations = {o1, o2, o3}
    MaxItems = 2
    MaxFaults = 1
    Absent = Absent
INVARIANTS
    IInv
    TrailIsHistory
    ReportsAgree
    RetryNeverRepeats
PROPERTIES
    OperationEnds
