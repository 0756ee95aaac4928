\* Two coroutines and a blocking thread, each making two calls.
CONSTANTS
    Coros = {c1, c2}
    Plain = {p1}
    None = None
    Rounds = 2
SPECIFICATION MutexFairSpec
INVARIANTS
    OneOwner
    MutexNoLostWakeup
    StoppedNotResumed
    NodesOutliveLinks
PROPERTIES
    MutexAllFinish
    MutexImplementsPermits
