SPECIFICATION MCSpec
CONSTANTS
    sub1 = sub1
    sub2 = sub2
    Subs = {sub1, sub2}
    Plans = {standard}
    Hooks = {h1, h2}
    Syncs = {y1}
    NoSub = NoSub
    NoPlan = NoPlan
    MaxEvents = 5
    MaxFailures = 1
INVARIANTS
    IInv
    CurrentUnlessOutdated
PROPERTIES
    EventuallyProcessed
CHECK_DEADLOCK FALSE
