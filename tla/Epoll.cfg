\* Two coroutines, one file, and other threads.
CONSTANTS
    Coros = {c1, c2}
    Loop = Loop
    Delays = {0, 1}
    MaxTime = 1
    Slices = 2
    Fds = {f1}
    Events = {in, out}
    Hup = Hup
    Others = {p1, p2}
    Calls = 2
    Quit = Quit
    EventFd = EventFd
    TimerFd = TimerFd
SPECIFICATION FairSpec
INVARIANTS
    OnePlace
    OneWakeup
    WakesInTime
    QuitWithinRun
PROPERTIES
    ImplementsExecutor
    NobodyForgotten
    StopEndsRun
