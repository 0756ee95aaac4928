CONSTANTS
    c1 = c1
    c2 = c2
    p1 = p1
    Coros = {c1, c2}
    Plain = {p1}
    None = None
    Capacity = 1
    Setups <- MCSetups
    SendCalls = 1
    RecvCalls = 2
    PermitOutlivesSender = TRUE
SPECIFICATION FairSpec
PROPERTY ClosedForGood
CHECK_DEADLOCK FALSE
