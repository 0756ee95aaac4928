\* Two coroutines and a blocking thread on one event.
CONSTANTS
    Coros = {c1, c2}
    Plain = {p1}
    None = None
    Count = 1
    Rounds = 1
SPECIFICATION EventSpec
INVARIANT StoppedNotResumed
CHECK_DEADLOCK FALSE
