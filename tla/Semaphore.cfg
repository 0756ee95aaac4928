\* Two coroutines and two blocking threads share one permit and may add more.
CONSTANTS
    Coros = {c1, c2}
    Plain = {p1, p2}
    None = None
    Permits = 1
    MaxAdd = 2
    Rounds = 1
SPECIFICATION SemaphoreFairSpec
INVARIANTS
    PermitsConserved
    EnoughWakeups
PROPERTIES
    SemaphoreAllFinish
    SemaphoreImplementsPermits
