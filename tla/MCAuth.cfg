SPECIFICATION MCSpec
SYMMETRY Symmetric
CONSTANTS
    Browsers = {b1, b2}
    Tabs = {t1, t2}
    Ids = {s1, s2, s3}
    Absent = Absent
    Tokens = {k1, k2}
    Askers = {a1, a2}
    Resetters = {r1, r2}
    MaxRecent = 1
    NoToken = NoToken
INVARIANTS
    ChainIntact
    AlarmOnlyWhenExcused
    ResetsWithinLimit
    TokenUsedOnceUnlessRaced
    IInv
