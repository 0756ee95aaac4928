\* Two coroutines, scheduled by two other threads that also stop run().
CONSTANTS
    Coros = {c1, c2}
    Loop = Loop
    Others = {p1, p2}
    Delays = {0, 2}
    MaxTime = 2
    Slices = 1
    Calls = 2
SPECIFICATION FairSpec
PROPERTY StopEndsRun
