CONSTANTS
    Programs = {"whenAny", "whenAll", "group", "scope", "scheduleOn", "thread",
    "await", "generator", "fiber", "oneshot", "futex", "pool",
    "duplex", "reader", "writer", "tls", "uring", "iocp", "qt",
    "process", "signal", "lookup"}
    Tasks = 3
    GroupTasks = 2
    Lockers = {1, 2, 3}
    Locks = 2
    Callables = {1, 2, 3}
    Limit = 2
    QtCoros = {1, 2}
    QtKinds = {"recv", "connect", "poll", "overlapped"}
    QtDelays = {0, 3}
    QtTime = 4
    QtSlices = 1
    QtArrivals = 1
    QtMs = 2
    QtRounds = TRUE
    FiberAwaits = 3
    SignalWaiters = {1, 2}
    SignalHandlers = {7, 8}
    PipeSize = 2
    PipeBytes = 3
    PipeSizes = {0, 1, 2}
    RingOps = {1, 2}
    RingLocal = {1}
    RingEntries = 2
    PortOps = {1, 2}
    PortPackets = {2}
    PortBatch = 2
    PortDepth = 2
    PortPosts = 3
SPECIFICATION ProgramSpec
INVARIANTS AllEnded GroupSound ScopeSound NothingLeftBehind OnceInOrder WokenOnce
    QtSound OwnersOutlive
PROPERTIES OneAnswer FirstWins LockIsPermit Answered
\* A program that has ended stops.
CHECK_DEADLOCK FALSE
