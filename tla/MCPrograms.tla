----------------------------- MODULE MCPrograms -----------------------------
(* One small program at a time of those that stand on their own: which one *)
(* is chosen with the initial state.  A program keeps its variables, in    *)
(* the order in which its module declares them, in v1, v2, ...; those it   *)
(* has no use for stay 0.                                                  *)
EXTENDS Naturals, Sequences, FiniteSets

CONSTANTS
    Programs,           \* the programs to choose from
    Tasks,              \* how many tasks whenAny, whenAll and a scope have
    GroupTasks,         \* and a group
    Lockers, Locks,     \* the threads of the futex lock, and the calls of each
    Callables, Limit,   \* of the thread pool
    QtCoros, QtKinds, QtDelays, QtTime, QtSlices, QtArrivals, QtMs, QtRounds,  \* of Qt's loop
    FiberAwaits,                                     \* of the fiber
    SignalWaiters, SignalHandlers,                   \* of the signal
    PipeSize, PipeBytes, PipeSizes,                  \* of the duplex stream
    RingOps, RingLocal, RingEntries,                 \* of io_uring
    PortOps, PortPackets, PortBatch, PortDepth, PortPosts  \* of the completion port

\* The pool has one worker where hardware_concurrency() is 0, and no duplex stream is
\* made that has no room.
ASSUME ProgramsAssumption ==
    /\ Tasks \in Nat \ {0} /\ GroupTasks \in Nat
    /\ Limit \in Nat \ {0}
    /\ IsFiniteSet(QtCoros) /\ 0 \notin QtCoros
    /\ 0 \notin SignalWaiters
    /\ PipeSize \in Nat \ {0} /\ PipeBytes \in Nat /\ PipeSizes \subseteq Nat
    /\ IsFiniteSet(RingOps) /\ RingLocal \subseteq RingOps
    /\ IsFiniteSet(PortOps) /\ PortBatch \in Nat \ {0} /\ PortDepth \in Nat
    /\ QtMs \in Nat \ {0} /\ QtRounds \in BOOLEAN
    /\ QtDelays \subseteq Nat /\ QtTime \in Nat /\ QtSlices \in Nat /\ QtArrivals \in Nat

VARIABLES program, v1, v2, v3, v4, v5, v6, v7, v8, v9, v10, v11, v12, v13, v14, v15, v16, v17, v18, v19, v20

\* What a program with n variables leaves alone.
After18 == <<v19, v20>>
After15 == <<v16, v17, v18, After18>>
After14 == <<v15, After15>>
After13 == <<v14, After14>>
After12 == <<v13, After13>>
After11 == <<v12, After12>>
After10 == <<v11, After11>>
After9 == <<v10, After10>>
After8 == <<v9, After9>>
After6 == <<v7, v8, After8>>
After5 == <<v6, After6>>
After4 == <<v5, After5>>

Unused18 == v19 = 0 /\ v20 = 0
Unused15 == v16 = 0 /\ v17 = 0 /\ v18 = 0 /\ Unused18
Unused14 == v15 = 0 /\ Unused15
Unused13 == v14 = 0 /\ Unused14
Unused12 == v13 = 0 /\ Unused13
Unused11 == v12 = 0 /\ Unused12
Unused10 == v11 = 0 /\ Unused11
Unused9 == v10 = 0 /\ Unused10
Unused8 == v9 = 0 /\ Unused9
Unused6 == v7 = 0 /\ v8 = 0 /\ Unused8
Unused5 == v6 = 0 /\ Unused6
Unused4 == v5 = 0 /\ Unused5

programVars == <<program, v1, v2, v3, v4, After4>>

AnyOf == INSTANCE WhenAny WITH
    N <- Tasks,
    child <- v1, asked <- v2, caller <- v3, loop <- v4, aw <- v5
AllOf == INSTANCE WhenAll WITH
    N <- Tasks,
    child <- v1, asked <- v2, caller <- v3, loop <- v4, aw <- v5
Group == INSTANCE TaskGroup WITH
    N <- GroupTasks,
    child <- v1, asked <- v2, caller <- v3, loop <- v4, aw <- v5,
    refs <- v6, handles <- v7, finished <- v8, handler <- v9
Scope == INSTANCE TaskScope WITH
    N <- Tasks,
    child <- v1, asked <- v2, caller <- v3, loop <- v4, aw <- v5,
    refs <- v6, handles <- v7, finished <- v8, handler <- v9
Migration == INSTANCE ScheduleOn WITH
    N <- 1,
    child <- v1, asked <- v2, caller <- v3, loop <- v4, aw <- v5
Threaded == INSTANCE Thread WITH
    N <- 1,
    child <- v1, asked <- v2, caller <- v3, loop <- v4, aw <- v5
Waits == INSTANCE Await WITH
    N <- 1,
    child <- v1, asked <- v2, caller <- v3, loop <- v4, aw <- v5,
    refs <- v6, handles <- v7, finished <- v8, handler <- v9
Yields == INSTANCE Generator WITH
    Values <- 2, Awaits <- 2,
    gen <- v1, produced <- v2, left <- v3, value <- v4, threw <- v5,
    prev <- v6, consumer <- v7, got <- v8, ready <- v9, stopAsked <- v10
Fibers == INSTANCE Fiber WITH
    Awaits <- FiberAwaits,
    kind <- v1, fiber <- v2, left <- v3, resumer <- v4, mStopped <- v5,
    stop <- v6, co <- v7, userdata <- v8, handler <- v9, caller <- v10,
    asked <- v11, queue <- v12, freed <- v13
Single == INSTANCE Oneshot WITH
    value <- v1, senderClose <- v2, receiverClose <- v3, receiver <- v4,
    finally <- v5, refCount <- v6, sender <- v7, sent <- v8, recv <- v9,
    scheduled <- v10, result <- v11, asked <- v12
Lock == INSTANCE FutexMutex WITH
    Threads <- Lockers, Calls <- Locks,
    mState <- v1, pc <- v2, expected <- v3, calls <- v4
Pool == INSTANCE ThreadPool WITH
    queue <- v1, idle <- v2, stopped <- v3, threads <- v4, at <- v5,
    has <- v6, call <- v7, exit <- v8
Pipe == INSTANCE Duplex WITH
    MaxSize <- PipeSize, Sent <- PipeBytes, Sizes <- PipeSizes,
    buffer <- v1, handle <- v2, closed <- v3, at <- v4, size <- v5,
    scheduled <- v6, asked <- v7, told <- v8, count <- v9, empties <- v10,
    ref <- v11
Reader == INSTANCE BufReader WITH
    Source <- 12, Cap <- 8, Sizes <- {1, 5}, Chunk <- 6,
    CopySize <- 3, Delims <- {3, 6, 11}, DelimSize <- 1,
    next <- v1, in <- v2, op <- v3, told <- v4, at <- v5
Writer == INSTANCE BufWriter WITH
    Sent <- 14, Cap <- 8, Sizes <- {1, 3, 5},
    sink <- v1, out <- v2, given <- v3, op <- v4, told <- v5, crashed <- v6
Secure == INSTANCE Tls WITH
    App <- 2, Cap <- 4,
    backend <- v1, role <- v2, step <- v3, rbuf <- v4, wbuf <- v5,
    mFlush <- v6, held <- v7, plain <- v8, expired <- v9, op <- v10,
    at <- v11, want <- v12, told <- v13, got <- v14, closed <- v15,
    made <- v16, wire <- v17, sent <- v18, taken <- v19, cut <- v20
Ring == INSTANCE Uring WITH
    Ops <- RingOps, Local <- RingLocal, Entries <- RingEntries,
    sq <- v1, kernel <- v2, cq <- v3, mSqe <- v4, mCancelSqe <- v5,
    mResult <- v6, op <- v7, asked <- v8, mCallbacks <- v9,
    mPendingCallbacks <- v10, posted <- v11, writing <- v12, quit <- v13,
    loop <- v14
Ports == INSTANCE Iocp WITH
    Ops <- PortOps, Packets <- PortPackets, Batch <- PortBatch, Depth <- PortDepth,
    MaxPosts <- PortPosts,
    port <- v1, pending <- v2, mEntries <- v3, mCallbacks <- v4,
    runs <- v5, op <- v6, asked <- v7, posted <- v8
QtLoop == INSTANCE Qt WITH
    Coros <- QtCoros, Loop <- 0, Other <- 9, Delays <- QtDelays, MaxTime <- QtTime,
    Slices <- QtSlices, Arrivals <- QtArrivals, Kinds <- QtKinds, Ms <- QtMs, Rounds <- QtRounds,
    now <- v1, mTimers <- v2, local <- v3, st <- v4, stopReq <- v5,
    slices <- v6, alive <- v7, ready <- v8, arrivals <- v9, num <- v10,
    enabled <- v11, con <- v12, op <- v13, sys <- v14, mTimerId <- v15,
    mPrevTimepoint <- v16, loop <- v17, quit <- v18
Child == INSTANCE Process WITH
    Room <- 1, Bytes <- 2,
    mode <- v1, at <- v2, result <- v3, child <- v4, status <- v5,
    exitStatus <- v6, errWriters <- v7, errMsg <- v8, writers <- v9,
    reading <- v10, wrote <- v11, pipe <- v12, got <- v13, task <- v14,
    asked <- v15
Signals == INSTANCE Signal WITH
    Waiters <- SignalWaiters, Handlers <- SignalHandlers, None <- 0,
    installed <- v1, writer <- v2, open <- v3, byte <- v4, pc <- v5,
    result <- v6, holds <- v7, hpc <- v8, raised <- v9, asked <- v10
Name == INSTANCE Lookup WITH
    api <- v1, caller <- v2, step <- v3, request <- v4, latch <- v5,
    thread <- v6, posted <- v7, asked <- v8, result <- v9

Chosen(p) == program = p /\ UNCHANGED program

ProgramInit ==
    /\ program \in Programs
    /\ \/ program = "whenAny" /\ AnyOf!Init /\ Unused5
       \/ program = "whenAll" /\ AllOf!Init /\ Unused5
       \/ program = "group" /\ Group!Init /\ Unused9
       \/ program = "scope" /\ Scope!Init /\ Unused9
       \/ program = "scheduleOn" /\ Migration!Init /\ Unused5
       \/ program = "thread" /\ Threaded!Init /\ Unused5
       \/ program = "await" /\ Waits!Init /\ Unused9
       \/ program = "generator" /\ Yields!Init /\ Unused10
       \/ program = "fiber" /\ Fibers!Init /\ Unused13
       \/ program = "oneshot" /\ Single!Init /\ Unused12
       \/ program = "futex" /\ Lock!Init /\ Unused4
       \/ program = "pool" /\ Pool!Init /\ Unused8
       \/ program = "duplex" /\ Pipe!Init /\ Unused11
       \/ program = "reader" /\ Reader!Init /\ Unused5
       \/ program = "writer" /\ Writer!Init /\ Unused6
       \/ program = "tls" /\ Secure!Init
       \/ program = "uring" /\ Ring!Init /\ Unused14
       \/ program = "iocp" /\ Ports!Init /\ Unused8
       \/ program = "qt" /\ QtLoop!Init /\ Unused18
       \/ program = "process" /\ Child!Init /\ Unused15
       \/ program = "signal" /\ Signals!Init /\ Unused10
       \/ program = "lookup" /\ Name!Init /\ Unused9

ProgramNext ==
    \/ Chosen("whenAny") /\ AnyOf!Next /\ UNCHANGED After5
    \/ Chosen("whenAll") /\ AllOf!Next /\ UNCHANGED After5
    \/ Chosen("group") /\ Group!Next /\ UNCHANGED After9
    \/ Chosen("scope") /\ Scope!Next /\ UNCHANGED After9
    \/ Chosen("scheduleOn") /\ Migration!Next /\ UNCHANGED After5
    \/ Chosen("thread") /\ Threaded!Next /\ UNCHANGED After5
    \/ Chosen("await") /\ Waits!Next /\ UNCHANGED After9
    \/ Chosen("generator") /\ Yields!Next /\ UNCHANGED After10
    \/ Chosen("fiber") /\ Fibers!Next /\ UNCHANGED After13
    \/ Chosen("oneshot") /\ Single!Next /\ UNCHANGED After12
    \/ Chosen("futex") /\ Lock!Next /\ UNCHANGED After4
    \/ Chosen("pool") /\ Pool!Next /\ UNCHANGED After8
    \/ Chosen("duplex") /\ Pipe!Next /\ UNCHANGED After11
    \/ Chosen("reader") /\ Reader!Next /\ UNCHANGED After5
    \/ Chosen("writer") /\ Writer!Next /\ UNCHANGED After6
    \/ Chosen("tls") /\ Secure!Next
    \/ Chosen("uring") /\ Ring!Next /\ UNCHANGED After14
    \/ Chosen("iocp") /\ Ports!Next /\ UNCHANGED After8
    \/ Chosen("qt") /\ QtLoop!Next /\ UNCHANGED After18
    \/ Chosen("process") /\ Child!Next /\ UNCHANGED After15
    \/ Chosen("signal") /\ Signals!Next /\ UNCHANGED After10
    \/ Chosen("lookup") /\ Name!Next /\ UNCHANGED After9

\* What goes on by itself.
Progress ==
    \/ Chosen("whenAny") /\ AnyOf!Progress /\ UNCHANGED After5
    \/ Chosen("whenAll") /\ AllOf!Progress /\ UNCHANGED After5
    \/ Chosen("group") /\ Group!Progress /\ UNCHANGED After9
    \/ Chosen("scope") /\ Scope!Progress /\ UNCHANGED After9
    \/ Chosen("scheduleOn") /\ Migration!Progress /\ UNCHANGED After5
    \/ Chosen("thread") /\ Threaded!Progress /\ UNCHANGED After5
    \/ Chosen("await") /\ Waits!Progress /\ UNCHANGED After9
    \/ Chosen("generator") /\ Yields!Progress /\ UNCHANGED After10
    \/ Chosen("fiber") /\ Fibers!Progress /\ UNCHANGED After13
    \/ Chosen("oneshot") /\ Single!Progress /\ UNCHANGED After12
    \/ Chosen("duplex") /\ Pipe!Progress /\ UNCHANGED After11
    \/ Chosen("tls") /\ Secure!Progress
    \/ Chosen("uring") /\ Ring!Progress /\ UNCHANGED After14
    \/ Chosen("iocp") /\ Ports!Progress /\ UNCHANGED After8
    \/ Chosen("qt") /\ QtLoop!Progress /\ UNCHANGED After18
    \/ Chosen("process") /\ Child!Progress /\ UNCHANGED After15
    \/ Chosen("signal") /\ Signals!Progress /\ UNCHANGED After10
    \/ Chosen("lookup") /\ Name!Progress /\ UNCHANGED After9

PoolStep(w) == Chosen("pool") /\ Pool!WorkerStep(w) /\ UNCHANGED After8
PoolExits   == Chosen("pool") /\ (Pool!NotifyAll \/ Pool!Join) /\ UNCHANGED After8

\* One condition makes a program go on that has no cycle of such steps; the
\* workers of the pool are threads and have one each.
ProgramSpec ==
    /\ ProgramInit /\ [][ProgramNext]_programVars
    /\ WF_programVars(Progress) /\ WF_programVars(PoolExits)
    /\ \A w \in Pool!Worker : WF_programVars(PoolStep(w))

-----------------------------------------------------------------------------
(* OneOutcome of what awaits tasks: a stopped coroutine is not resumed,    *)
(* and no await is answered twice (coro.hpp:63-75).                        *)
OneAnswer ==
    [][(program \in {"whenAny", "whenAll", "group", "scope", "scheduleOn", "thread", "await"})
       => AnyOf!OneOutcome]_programVars

(* AllAwaited and EveryValue: whenAny and whenAll outlive the tasks that   *)
(* they started.                                                           *)
AllEnded ==
    /\ program = "whenAny" => AnyOf!AllAwaited
    /\ program = "whenAll" => AllOf!EveryValue

(* FirstWins of whenAny: the task that ends first decides.                 *)
FirstWins == [][(program = "whenAny") => AnyOf!FirstWins]_programVars

(* Delivered and RefsMatch of the group: each task's result comes out of   *)
(* next() once, and a context lives as long as somebody refers to it.      *)
GroupSound == program = "group" => Group!Delivered /\ Group!RefsMatch

(* ScopeClosed and StopForwarded of the scope.                             *)
ScopeSound == program = "scope" => Scope!ScopeClosed /\ Scope!StopForwarded

(* NoCallbackLeft, ThreadOutlived and NothingLeft: what the caller awaited *)
(* is over when it goes on, and nothing is left that it made.              *)
NothingLeftBehind ==
    /\ program = "scheduleOn" => Migration!NoCallbackLeft
    /\ program = "thread"     => Threaded!ThreadOutlived
    /\ program = "await"      => Waits!NothingLeft
    /\ program = "process"    => Child!NoChildLeft

(* EachValueOnce, InOrder, RecordsInOrder and OutputWhole: values and      *)
(* bytes come out once and in the order in which they went in, whatever is *)
(* read, written or awaited in parts.                                      *)
OnceInOrder ==
    /\ program = "generator" => Yields!EachValueOnce
    /\ program = "reader"    => Reader!InOrder /\ Reader!LineEnds
    /\ program = "writer"    => Writer!InOrder
    /\ program = "tls"       => Secure!RecordsInOrder
    /\ program = "process"   => Child!OutputWhole

(* SleepersMarked of the futex lock, IdleCounts of the pool, Delivered of  *)
(* the oneshot channel, NoWakeupLost of the duplex stream, SignalCame and  *)
(* WriterClosedOnce of the signal: who can go on is woken, once, and who   *)
(* cannot sleeps where it will be found.                                   *)
WokenOnce ==
    /\ program = "futex"   => Lock!SleepersMarked
    /\ program = "pool"    => Pool!IdleCounts
    /\ program = "oneshot" => Single!Delivered
    /\ program = "duplex"  => Pipe!NoWakeupLost
    /\ program = "signal"  => Signals!SignalCame /\ Signals!WriterClosedOnce

(* NotifiersMatch, TimerRuns and OverlappedOutlives of Qt's loop: the      *)
(* notifiers and the timer that Qt runs for the context are those that     *)
(* somebody waits for, and what the system still writes to is there.       *)
QtSound ==
    program = "qt" =>
        QtLoop!NotifiersMatch /\ QtLoop!TimerRuns /\ QtLoop!OverlappedOutlives

(* AwaiterOutlives, EntriesOutlive, StackOutlives and AwaiterComplete:     *)
(* what the system, a completion or another stack still refers to is not   *)
(* deleted.                                                                *)
OwnersOutlive ==
    /\ program = "uring" => Ring!AwaiterOutlives
    /\ program = "iocp"  => Ports!EntriesOutlive
    /\ program = "fiber" => Fibers!StackOutlives
    /\ program = "lookup" => Name!AwaiterComplete

(* permits of the futex lock: each of its steps is one of a single permit. *)
LockIsPermit == [][(program = "futex") => [Lock!permits!MutexNext]_(Lock!permits!vars)]_programVars

Waiting ==
    \/ program = "whenAny" /\ AnyOf!Waiting
    \/ program = "whenAll" /\ AllOf!Waiting
    \/ program = "group" /\ Group!Waiting
    \/ program = "scope" /\ Scope!Waiting
    \/ program = "scheduleOn" /\ Migration!Waiting
    \/ program = "thread" /\ Threaded!Waiting
    \/ program = "await" /\ Waits!Waiting
    \/ program = "generator" /\ Yields!Waiting
    \/ program = "fiber" /\ Fibers!Waiting
    \/ program = "oneshot" /\ Single!Waiting
    \/ program = "pool" /\ \E c \in Callables : Pool!Waiting(c)
    \/ program = "duplex" /\ Pipe!Waiting
    \/ program = "tls" /\ Secure!Waiting
    \/ program = "uring" /\ Ring!Waiting
    \/ program = "iocp" /\ Ports!Waiting
    \/ program = "qt" /\ QtLoop!Waiting
    \/ program = "process" /\ Child!Waiting
    \/ program = "signal" /\ Signals!Waiting
    \/ program = "lookup" /\ Name!Waiting

(* Who must be answered, in any program, is: whoever is Waiting does not   *)
(* wait for ever.                                                          *)
Answered == Waiting ~> ~Waiting

(* InvokedInCallerThread of scheduleOn.                                    *)
InvokedInCallerThread == program = "scheduleOn" => Migration!InvokedInCallerThread

(* Resumed of the fiber.                                                   *)
FiberResumed == program = "fiber" => Fibers!Resumed
=============================================================================
