CONSTANTS
    c1 = c1
    c2 = c2
    p1 = p1
    Coros = {c1, c2}
    Plain = {p1}
    None = None
    Capacity = 1
    Setups <- MCSetups
    SendCalls = 1
    RecvCalls = 2
    PermitOutlivesSender = FALSE
SPECIFICATION FairSpec
INVARIANTS
    SlotsAccounted
    EnoughWakeups
    StopIsFinal
PROPERTY AllFinish
\* A stop that gets into the list of a wakeupAll() can leave another waiter suspended
\* for good: the program really stops there.
CHECK_DEADLOCK FALSE
