\* Two coroutines and a blocking thread on one event or latch.
CONSTANTS
    Coros = {c1, c2}
    Plain = {p1}
    None = None
    Count = 2
    Rounds = 2
SPECIFICATION EventFairSpec
INVARIANTS
    EventNoLostWakeup
    AutoClearStopIsFinal
PROPERTIES
    EventAllFinish
\* A stop that takes a waiter out of wakeupAll's list can leave another waiter
\* suspended for good: the program really stops there.
CHECK_DEADLOCK FALSE
