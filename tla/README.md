# Ilias in TLA+

Ilias is a C++20 coroutine runtime: executors that run coroutines, awaitables for
I/O, timers, channels and locks, and *stop tokens* that cancel what is suspended.
This directory holds TLA+ models of its concurrent core, the TLC configurations
that check them on small instances, and TLAPS proofs of what matters most.

Paths below are relative to the repository's `include/ilias/` and `src/`.

## 1. Inventory

| Component | State | Operations | Interacts with | Hard part | Correct when |
|---|---|---|---|---|---|
| **WaitQueue** `sync/detail/queue.hpp`, `sync.cpp` | `mWaiters`, its lock; per waiter `mWaiting`, `mBlocking`, list links, stop registration | `await_suspend`, `blockingWait`, `wakeupOne`, `wakeupAll`, `onStopRequested` | executors (`schedule`), stop tokens, every lock below | predicate tested outside and inside the lock; wakeup against stop; nodes that live in coroutine frames and on stacks | no wakeup is lost, a wakeup and a stop never both win, no list holds a dead node |
| **Mutex, Locked** `sync/mutex.hpp` | `mLocked` | `tryLock`, `lock`, `blockingLock`, `unlock` | WaitQueue | the lock is handed over inside the waker's scan; `tryLock` barges in | one owner; a handed lock is neither lost nor doubled |
| **Semaphore** `sync/semaphore.hpp` | `mCount` | `tryAcquire`, `acquire`, `blockingAcquire`, `release`, `addPremits` | WaitQueue | n permits at once, n wakeups one by one | permits are conserved; enough wakeups follow |
| **Event, Latch** `sync/event.hpp`, `latch.hpp` | `mIsSet`, mode; count | `set`, `clear`, `tryWait`, `wait`; `countDown`, `wait` | WaitQueue | many waiters woken at once through a second list | no waiter sleeps beside a set signal |
| **FutexMutex** `sync/detail/futex.hpp` | one three-valued word | `lock`, `try_lock`, `unlock` | WaitQueue's lock | mark and sleep are two steps | mutual exclusion; the last sleeper is notified |
| **oneshot** `sync/oneshot.hpp` | value, closed flags, one registered receiver, reference count | `send`, `recv`, `blockingRecv`, drop of either end | stop tokens, executor | drop, send and stop at once | the value arrives once or is returned; the receiver learns of a close |
| **mpsc, mpmc** `sync/mpsc.hpp`, `mpmc.hpp` | deque, reserved count, ends alive, two wait queues | `send`, `reserve`/commit, `recv`, blocking and try forms, drop of ends | WaitQueue-like awaiters | permits returned unused, close with permits out | a bounded FIFO; nothing lost or doubled |
| **EventLoop** `runtime.cpp`, `runtime/executor.hpp` | local and shared queue, condition variable, timers | `post`, `schedule`, `run`, `sleep` | everything that is scheduled | stop callback from another thread | what is posted runs; a stop ends `run` |
| **Timer service** `runtime/timer.hpp` | ordered map of timers | `submit`, `cancel`, `updateTimers` | executors | expiry against stop | a sleeper ends once, not before its deadline |
| **Thread pool** `runtime.cpp`, `linux/blocking.cpp` | task queue, workers, idle count | `submit`, exit | blocking file I/O | stale idle count, notification at exit | every callable runs; exit joins |
| **Coroutine core** `runtime/coro.hpp`, `token.hpp`, `await.hpp` | per coroutine: stop token, `mStopped`, completion handler | `schedule`, `resume`, `setStopped` | everything | the rules at `coro.hpp:63-75` | a stopped coroutine is never resumed |
| **Spawn, WaitHandle** `task/spawn.hpp`, `task.cpp` | handle of a spawned task, completion callback | `stop`, `wait`, drop | coroutine core | completion against stop | the waiter gets the result once |
| **TaskGroup, TaskScope** `task/group.hpp`, `scope.hpp`, `task.cpp` | running and completed lists, awaiter | `insert`, `next`, `waitAll`, `stop` | coroutine core | completion between check and suspend; stop inside | every task is accounted for; a scope leaves nothing running |
| **Combinators** `task/when_any.hpp`, `when_all.hpp`, `utils.hpp` | children, counters, winner | await, stop | coroutine core | a child that completes in spite of a stop | the parent goes on once, after its children |
| **scheduleOn** `task/utils.hpp`, `task.cpp` | one atomic state, two executors | await, stop | executors | a stop under way to the other thread as the task ends there | the caller is answered once, in its own thread |
| **Thread** `task/thread.hpp` | stop source, two executors, registered awaiter | await, stop, drop | executor | result against registration | the result arrives once, the thread is joined |
| **Generator** `task/generator.hpp` | current value, consumer | `yield`, `next` | coroutine core | sequential | values in order |
| **Fiber** `fiber/` | stack, state flags, awaiter | `resume`, `yield`, `await`, `wait` | coroutine core | completion before the fiber has suspended | scheduled once per suspension |
| **Epoll context** `platform/epoll.hpp`, `linux/epoll.cpp` | posted callbacks, `mWakePending`, eventfd, per descriptor awaiters and cached interest, timerfd | `post`, `run`, `poll`, add and remove descriptor | kernel | suppressed wakeups, one-shot re-arming | a posted callback runs; each awaiter is told once |
| **io_uring context** `platform/uring.hpp`, `linux/uring*.{cpp,hpp}` | ring, posted callbacks, per operation: pending completions | submit, cancel, `post`, `run` | kernel | completion and cancellation in any order | resumed once, after the last completion |
| **IOCP context** `win32/io_context.cpp`, `overlapped.hpp` | completion port, the entries of a batch, posted callbacks | `post`, `run`, overlapped operations, waits for objects | kernel | a `run` inside a callback, cancellation against completion | no entry is left behind or points at a dead awaiter |
| **Qt context** `platform/qt.hpp` | one timer, three notifiers per descriptor | `post`, `run`, poll, overlapped files | Qt's event loop | one timer and one notifier for many | each is told once; a notifier is on while somebody waits; the timer comes for the first sleeper |
| **Stream buffers** `io/stream.hpp` | buffer, head, tail, limit | `prepare`, `commit`, `consume`, fill, flush | I/O | limits and compaction | bytes in order; no false end of stream |
| **DuplexStream** `io/duplex.hpp`, `io.cpp` | two byte channels, one parked reader and writer each | `read`, `write`, `shutdown`, close | stop tokens, executor | stop against scheduling, zero lengths | a byte pipe |
| **TLS** `tls/` | buffers of records in both directions | handshake, read, write, flush, shutdown | the library, a wrapped stream | short reads and writes, output that waits for the next call | records whole, once, in order; no peer waits for what is kept back |
| **Processes** `process.cpp` | child, error pipe, output pipes | spawn, wait, kill, output | kernel | `exec` fails in the child, a child that outlives its output | a failed spawn leaves nothing; `output` returns all there was |
| **Signals** `linux/signal.cpp` | handler table, pipe | `waitFor` | epoll | asynchronous handler | a signal wakes its waiter; a pipe is closed once |
| **Name lookup** `net/addrinfo.cpp` | the request of the resolver | `fromHostname`, stop | resolver's thread | answer against suspension and stop | the request ends before its memory does |
| I/O traits, sockets, files, logging, console | wrappers | | | | not modelled, section 8 |

How they meet: every suspension ends in one of two ways, `CoroHandle::schedule`
(put on the coroutine's executor) or `CoroHandle::setStopped`. Who decides between
them, and that exactly one of them happens, is the question that comes back in every
component: in the wait queue it is `mWaiting` and the list's lock, in the channels a
lock, in the timers and the descriptors the executor's single thread, in io_uring
the count of completions.

The hazards are listed in `PROJECT.json`, each at its line.

## 2. Plan

Order of the modules; all of these exist.

1. The wait queue and its locks: `WaitQueue`, extended by `Mutex`, `Semaphore`,
   `Event`; abstract specification `Permits`; proofs `WaitQueueProofs`,
   `PrimitivesProofs`.
2. `Channel`: mpsc and mpmc over two instances of `WaitQueue`.
3. `FutexMutex`, the lock that `WaitQueue` assumes, implements one permit of
   `Permits`. `Oneshot`, `ThreadPool`.
4. `TimerService`, `EventLoop`, `EpollDescriptor`, `Epoll`; both executors refine
   `Executor`: *posted callbacks run, once, in order*. `Uring`, `Iocp` for operations
   and their cancellation, `Qt`.
5. Tasks: `Tasks` (a caller and its children), extended by `WhenAny`, `WhenAll`,
   `ScheduleOn`, `Thread`, and by `Spawn`, which `TaskGroup`, `TaskScope` and `Await`
   extend. `Generator`, `Fiber`.
6. Streams: `StreamBuffer`, used by `BufReader`, `BufWriter`, `Tls`; `Duplex`.
   `Process`, `Signal`, `Lookup`.

7. The proofs: `PrimitivesProofs`, `ChannelProofs`, `TimerProofs`, `EventLoopProofs`,
   `EpollProofs`, and of the programs of `MCPrograms` `ProgramsProofs` and `LoopProofs`.

What is left is to prove what section 7 names as only model-checked, the parts that
section 8 names, and runs of their own for programs that today share one.

Bounds: two or three actors, one or two calls each. The defects this code can have
need a waker, a waiter and one more party that barges in, stops or parks behind;
each run names which of those its bounds give.

## 3. The modules

| Module | Models | Uses |
|---|---|---|
| `WaitQueue` | the list, its lock, a waiter's life, the steps of a wakeup and of a stop | |
| `Mutex` | `ilias::Mutex` | `WaitQueue`, `Permits` |
| `Semaphore` | `ilias::Semaphore` | `WaitQueue`, `Permits` |
| `Event` | `ilias::Event` in both modes, `ilias::Latch` | `WaitQueue` |
| `Channel` | `ilias::mpsc` and `ilias::mpmc` | two instances of `WaitQueue` |
| `TimerService` | `ilias::runtime::TimerService`, and what a coroutine does when its callback runs | |
| `EventLoop` | `ilias::EventLoop` | `TimerService`, `Executor` |
| `EpollDescriptor` | awaiters of a file, its one-shot registration, the dispatch of an event | `TimerService` |
| `Epoll` | `ilias::EpollContext`: `post`, `run`, eventfd, timerfd | `EpollDescriptor`, `Executor` |
| `Executor` | what `Executor::post` promises, without threads or sleep | |
| `Permits` | what a mutex and a semaphore promise, without a queue | |
| `FutexMutex` | the lock inside the wait queue | `Permits` |
| `Oneshot` | a oneshot channel, its ends on two threads | |
| `ThreadPool` | the pool for blocking calls, and its exit | |
| `Tasks` | a caller, the contexts of its tasks, stops and completions; not a program itself | |
| `WhenAny`, `WhenAll` | the combinators | `Tasks` |
| `ScheduleOn`, `Thread` | a task on another executor; a thread with one of its own | `Tasks` |
| `Spawn` | spawned tasks, counted by reference; not a program itself | `Tasks` |
| `TaskGroup`, `TaskScope`, `Await` | a group; a scope with `finally`; the ways to await one task or a token | `Spawn` |
| `Generator`, `Fiber` | the other two kinds of coroutine | |
| `StreamBuffer` | the buffers with an input and an output window, as operators | |
| `BufReader`, `BufWriter` | the buffered streams, with the loops of `io/ext.hpp` over them | `StreamBuffer` |
| `Duplex` | one direction of a `DuplexStream` | |
| `Tls` | a TLS stream with either back end | `StreamBuffer` |
| `Uring`, `Iocp` | the io_uring and the completion port contexts, and their operations | |
| `Qt` | the Qt context | `TimerService` |
| `Process`, `Signal`, `Lookup` | child processes; waiting for a signal; name lookup | |
| `MCChannel` | the ends of a channel that TLC tries; the configurations `Mutex.cfg`, `Semaphore.cfg`, `Event.cfg`, `EventLoop.cfg` and `Epoll.cfg` instantiate their modules themselves | `Channel` |
| `MCPrograms` | instances of the programs from `FutexMutex` to `Lookup` above, one at a time | all of those |
| `WaitQueueProofs` | the queue's inductive invariant, one lemma per step; counting | `WaitQueue` |
| `PrimitivesProofs` | the theorems of `Mutex`, `Semaphore` and `Event`, which is why their definitions have the module's name in front where they share one | `WaitQueueProofs` |
| `ChannelProofs` | the theorems of `Channel` | `Channel`, `WaitQueueProofs` for the facts about lists |
| `TimerProofs` | sequences that are inserted into, erased from and divided; one lemma per operation of `TimerService` | `TimerService` |
| `EventLoopProofs`, `EpollProofs` | the theorems of these | `TimerProofs` |
| `ProgramsProofs` | those of `FutexMutex`, `ThreadPool`, `WhenAny`, `WhenAll`, `Oneshot`, `Signal` and `Duplex`, as instances of `MCPrograms` | `MCPrograms` |
| `LoopProofs` | those of `Qt`, `Uring`, `Iocp`, `Fiber` and `Lookup`, in the same way | `MCPrograms`, and `TimerProofs` for Qt's timers |

### Actors

An actor is a thread. Those in `Coros` run one coroutine each and wait with
`co_await`; those in `Plain` wait with `blockingWait`. A stop request reaches a
coroutine on its own executor (a context is shared through a counter that is not
thread safe), so all steps of one actor are sequential and `pc` says where it stands.
Coroutines that share a thread have fewer interleavings than these.

### State

| TLA+ | C++ |
|---|---|
| `queue` | `WaitQueue::mWaiters` |
| `qlock` | the holder of `WaitQueue::mMutex` |
| `pos` | the iterator of the scan under way (only the lock's holder has one) |
| `ready[t]`, `cur[t]` | `ready` and `waiter` in `wakeupAll`, `waiter` in `wakeupOne` |
| `linked` | `isLinked()` of each waiter |
| `waiting`, `blocking` | `mWaiting`, `mBlocking` |
| `posted` | resumptions that `schedule()` put on the coroutine's executor |
| `stopReq` | the coroutine's stop token |
| `mLocked`, `mCount`, `mIsSet` | the word of the primitive |
| `sendQ`, `sendLock`, `sendPos`; `recvQ`, ... | `senders` and `receiver(s)` of a channel |
| `size`, `reserved` | `queue.size()`, `reserved` of a channel |
| `ends`, `permits` | the actors whose `Sender` or `Receiver`, whose `Permit`, is alive |
| `local`, `shared`, `loopPc` | `localQueue`, `sharedQueue` of `EventLoop`; where `run()` stands |
| `mTimers`, `until`, `runStop` | the map of timers; the timepoint of `wait_until`; the token of `run()` |
| `pendingCallbacks`, `wakePending`, `running` | `mPendingCallbacks`, `mWakePending`, `running` of `EpollContext` (`local` is `mCallbacks`) |
| `eventfd`, `timerfd`, `prevTimepoint` | the counter is not 0; when it fires; `mPrevTimepoint` |
| `kernel`, `interest`, `awaiters`, `batch` | the kernel's mask of a file, `EpollDescriptor::events` and `awaiters`; the events of one `epoll_wait` still to process |
| `op`, `got` | the call an actor is in; `mResult`, `mGot`, `mValue` of its awaiter |

### Steps and grain

A critical section in which a shared word is read or written once is one step
(`await_suspend`: predicate and `push_back`). A scan evaluates the predicate once per
waiter against a word that other threads change without the lock, so it keeps
`qlock` from step to step: `WakeLock`, then `WakeHit` or `WakeMiss` at each waiter,
then `ScanEnd`. `resume()` comes after the unlock, as a step of its own. A stop is
read (`StopRead`), locked and tested (`StopLock`), unlinked (`StopUnlink`), and
`setStopped` outside the lock. The predicate is the primitive's: it takes what it
tests for (`tryLock`, a permit, the AutoClear flag), so a waiter owns the lock from
`WakeHit` on, long before it runs.

`wakeupAll` reads the front of its local list, pops it and resumes it without a lock.
A stop may unlink a waiter from that list in between; the list is then changed by two
threads at once. `PopFront` leaves open what the build does: the pop may see the new
front or the one that was read before.

### Channels

`Channel` declares the state of a waiter once and the list, its lock and its iterator
twice, and takes the steps from `S == INSTANCE WaitQueue WITH queue <- sendQ, ...` and
`R == INSTANCE WaitQueue WITH queue <- recvQ, ...`. An operation takes what it is for
in the predicate (`Take`), fails for good (`Closed`) or waits (`MustWait`), whether the
actor evaluates it itself, before (`TryNow`) or under (`NoWait`) the wait queue's lock, or
a waker does for it (`OnWakeup`). After an item went in or out the *owner of the call*
wakes the other side, in `await_resume`; for a waiter that is only when it runs again.
Dropping the last end of a side closes the channel and wakes the other side. Items are
counted, since no step looks at one; the two `shared_ptr` counts and `onDeref` are the
set `ends`; `Lock` is a weak end that becomes an end as long as the side lives. The
channel's mutex is held within one step.

### Event loop

An executor's thread runs its callbacks one after the other, so what a coroutine does
between two suspensions (a *slice*) is one step: it sleeps, yields, stops another, or
suspends until another thread schedules it. An entry of `local` or `shared` is the
coroutine to resume, with the thread that posted it, which is how `ImplementsExecutor`
tells the posters apart. The wait is split where other threads can come in between:
evaluating `pred` under the mutex (`Predicate`), the atomic unlock-and-sleep of the
condition variable (`Doze`), waking by a notification, by time, or without a reason.
A post is an entry made under the mutex, then a notification; a stop of `run()` is the
token's flag, then a notification, neither under the mutex.

### Epoll

The kernel is modelled by what the code relies on: `kernel[f]` is the set of events it
reports for a file, empty once the one shot is spent; the eventfd and the timerfd are
level triggered. `interest[f]` is the descriptor's own belief, which saves
`epoll_ctl` calls and is the reason why it is worth checking that who polls is watched
(a part of `WakesInTime`). `epoll_wait`
returns all that has happened, in any order, and the batch is processed without a
coroutine in between; `epoll_ctl` may fail at either of its two calls. An operation is
a loop: `TryIo` is an attempt that succeeds and goes on without a poll, and may drain
what there was; an attempt that would block polls.

`post` from another thread is one step under the mutex (queue, exchange the flag), and
for the one who found the flag unset a second one, the write. `pollCallbacks` holds the
mutex over two steps, because a write comes without it. The stop of `run()` is the
flag, then a `post` of a callback that clears `running`.

`TimerChanged` is the callback of the timer service: it reads the clock again, so that
the difference may be negative (set to fire at once) or 0, which *disarms* the timerfd.

### Programs

The components from `FutexMutex` to `Lookup` share no state with each other beyond the
executor that schedules them. Each has its own module, with its own variables, `Init`,
`Next`, `Progress` (what goes on by itself) and properties, and `MCPrograms` takes all
of them as instances: the variable `program` is chosen by `Init` and never changes, and
the slots `v1`, `v2`, ... stand for the variables of the chosen module, in the order in
which it declares them (`Ring == INSTANCE Uring WITH sq <- v1, kernel <- v2, ...`). A
property of `MCPrograms` is a conjunction of the modules' own, each under
`program = ...`, of one kind: *each is answered once*, *nothing is left behind*, and so
on. So one run checks them all, and the constant `Programs` selects those of a run.

The task modules have one grain: everything of an executor's thread from one return to
its event loop to the next is one step, so that interleaving is between callbacks, and
between threads in `ScheduleOn` and `Thread`. A task is what the rest of the program
makes of it: it ends, suspends, meets a stop or ignores it. What a stop callback does
happens inside the step that requests the stop, since `setStopped` may end a task there
and then, and completions nest.

In the streams a byte is its place, so that order and loss can be told without content.
The wrapped stream takes or gives any part of what it could, ends, and fails. In `Tls`
a record is two bytes, so that half of one can be read or written.

The kernel's side of `Uring`, `Iocp`, `Qt`, `Process`, `Signal` and `Lookup` is
modelled by what the code relies on: an operation is answered once, in any order, after
any time; a cancellation may find it done; a child writes and ends when it likes.

## 4. Runs

| Run | Instance | Checks |
|---|---|---|
| `mutex` | 2 coroutines, 1 blocking thread, 2 calls each (96 000 states) | `OneOwner`, `MutexNoLostWakeup`, `StoppedNotResumed`, `NodesOutliveLinks`, `MutexAllFinish`, `MutexImplementsPermits` |
| `semaphore` | 2 coroutines, 2 blocking threads, 1 permit, `addPremits(1..2)`, 1 call each (294 000 states) | `PermitsConserved`, `EnoughWakeups`, `SemaphoreAllFinish`, `SemaphoreImplementsPermits` |
| `event` | 2 coroutines, 1 blocking thread, 2 calls each, both event modes and a latch of 2, counted down by any number (214 000 states) | `EventNoLostWakeup`, `AutoClearStopIsFinal`, `EventAllFinish` |
| `event_stop` | as `event`, 1 call each | violates `StoppedNotResumed` |
| `channel` | 2 senders to 1 receiver over mpsc and 1 to 2 over mpmc, capacity 1, empty or full at first, one blocking actor (220 000 states) | `SlotsAccounted` with types and capacity, `EnoughWakeups`, `StopIsFinal`, `AllFinish` |
| `channel_permit` | as `channel`, a permit may outlive its sender | violates `ClosedForGood` |
| `eventloop` | 2 coroutines, 2 other threads with 2 calls each, timeouts of 0 and 2 ticks, a coroutine suspends twice at most (115 000 states) | `OnePlace`, `WakesInTime`, `ImplementsExecutor`, `NobodyForgotten` |
| `eventloop_stop` | the same | violates `StopEndsRun` |
| `epoll` | 2 coroutines with 2 suspensions, 1 file with 2 events and hang-up, 2 other threads with 2 calls in all, a clock of 1 tick (154 000 states) | `OnePlace`, `OneWakeup`, `WakesInTime`, `QuitWithinRun`, `ImplementsExecutor`, `NobodyForgotten`, `StopEndsRun` |
| `programs` | each of 22 programs, at the constants of `MCPrograms` (291 000 states) | `OneAnswer`, `FirstWins`, `AllEnded`, `GroupSound`, `ScopeSound`, `NothingLeftBehind`, `OnceInOrder`, `WokenOnce`, `QtSound`, `OwnersOutlive`, `LockIsPermit`, `Answered` |
| `schedule_on` | the program `scheduleOn` | violates `InvokedInCallerThread` |
| `fiber_stop` | the program `fiber` | violates `FiberResumed` |

What they show:

- **The lock changes hands safely.** From the moment a waker's predicate takes the
  lock or permit for a waiter, it belongs to that waiter, whether the waiter runs, is
  stopped later, or races with a stop that loses (`OneOwner`, `PermitsConserved`).
- **No wakeup is lost** although the word is changed outside the queue's lock. While
  the word is free and waiters are queued, some thread has still to test the *first*
  waiter. With `addPremits(n)` this becomes a count (`EnoughWakeups`).
- **A wakeup and a stop never both win**, for `wakeupOne`. This is the comment at
  `queue.hpp:51-67` and the rule at `coro.hpp:69`.
- **The list never holds a dead node** (`NodesOutliveLinks`): waiters are members of
  coroutine frames and of stack frames of blocked threads.
- **Every call ends** under the fairness of section 6.
- **The refinement**: each step of `Mutex` and of `Semaphore` asks for, takes, gives
  up or releases an abstract permit, or stutters; and a free permit that is wanted is
  taken in the end.

- **Channels**: no slot leaks through granted, stopped or returned reservations; a stop
  never loses an item; the two lists wake each other often enough, also when one side
  closes.

- **The event loop**: a coroutine is always in exactly one place, so expiry and stop of
  a sleeper exclude each other and nobody is resumed twice; the loop never sleeps past
  a timer; a posted callback runs in its poster's order, and runs at all, even when
  `run()` returned in between and was entered again.

- **The epoll context**: `mWakePending` is set exactly while one write is owed or the
  eventfd is readable, so a suppressed write loses nothing; who polls is watched by the
  kernel or has an event in the batch, whatever was stopped or told before and although
  re-arming may fail; a timerfd disarmed by the difference 0 is harmless, because
  `updateTimers()` follows each callback; and a stop of `run()` ends it, from any
  thread, with its callback run before `run()` returns.

- **Tasks**: whoever awaits is resumed or stopped, once, and only after the tasks it
  started have ended (`OneAnswer`, `AllEnded`); the first task that ends decides
  `whenAny`, whatever the others do when they are stopped (`FirstWins`); a group hands
  out each result once and frees each context with its last reference (`GroupSound`); a
  scope that has been left has no task, and its stop reaches those inserted later
  (`ScopeSound`).

- **Streams** (`OnceInOrder`): no byte is lost, repeated or out of place, wherever a
  wrapped stream reads or writes short, fails or is stopped.

- **Whoever the system still refers to is there** (`OwnersOutlive`): the awaiter of a
  submission and of its cancellation, the OVERLAPPED of a cancelled read, the frame
  that a resolver writes to, the stack that a fiber still runs on.

- **The lock inside the queue is a lock** (`LockIsPermit`, a refinement of `Permits`),
  and nobody sleeps at it or in the pool without somebody about to wake it; the end of a
  channel or a stream that can go on, and the waiter of a signal, are told once
  (`WokenOnce`).

- **Qt's loop** (`QtSound`): a notifier is enabled exactly while somebody is connected to
  it; the one timer runs exactly while somebody sleeps, for the first of them, and comes
  less than a millisecond early before Qt 6.8 and not early since; after that it comes
  again within its interval; and what the system still writes to is there, whatever
  closes, stops and expires in between.

- **Whoever must be answered is** (`Answered`). Each module's `Waiting` says who that
  is, the exceptions included that the code does make.

**Finding** (`schedule_on`). `ScheduleAwaiterBase::invoke` is commented "In the caller
thread" (`task.cpp:360`). When the task completes while a stop is under way to its
executor, `onStopInvoke` schedules `invoke` on that executor (`task.cpp:343-345`): the
caller is then resumed by another thread than its own. That the caller is answered once
and nothing is used after its end holds in that case too (`OneAnswer`,
`NothingLeftBehind`).

**Finding** (`fiber_stop`). `awaitImpl` tells the context of the coroutine which fiber
to schedule only after the coroutine has run for the first time
(`fiber.cpp:379-381`), and then suspends unless the coroutine is *done*. One that was
stopped in that first run, because the fiber had been asked to stop before, is not
done, its handler has found no fiber, and the fiber stays suspended. `Waiting` of
`Fiber` leaves this case out of `Answered`.

**A late sleep on Qt.** Before Qt 6.8 the timer is started with the time to the first
timepoint cut to whole milliseconds (`qt.hpp:187-189`). It comes early by what was cut
off; `updateTimers` then finds nobody due, and as the first timepoint is the same,
nobody sets the timer again (`timer.hpp:146-156, 182-191`). It repeats, and so comes
again only after its whole interval: unless something else wakes the loop, a sleep of
two seconds takes almost four. `TimerRuns`, in `QtSound`, states what
the code keeps, the interval being the bound on how late the timer may be, and
`Answered` that the sleeper does wake.

**An insertion that comes too late.** The last task of a scope schedules the waiter
(`task.cpp:294-301`), which does not look again when it is resumed. What another
coroutine, that is no task of the scope, inserts in between is left running when
`waitAll()`, "Wait all tasks in the scope to finish" (`scope.hpp:48`), returns, and the
scope's destructor then aborts. The tasks of the scope and the caller cannot do this,
since none of them runs then. `ScopeSound` says of all others that they have ended, and
names these (`late` in `TaskScope`).

**Finding** (`channel_permit`). `Receiver::isClosed` promises that "no sender can send
any more data" (`mpsc.hpp:501`), but a `Permit` is no sender: it holds a plain pointer
to the channel. After the last `Sender` is dropped, the receiver sees the channel
closed, and the permit then puts an item in. The run `channel` keeps every permit
shorter than its sender, the use under which the promise holds.

**Finding** (`event_stop`). `wakeupAll` decides on its waiters under the lock, and
then keeps them linked in a local list. `onStopRequested` takes "still linked" for
"undecided". A stop that read `mWaiting` before the decision therefore unlinks a
waiter that was decided to wake, and calls `setStopped()`, while `wakeupAll`, which
may have read it as the front already, schedules it. `event` states what is left:
with an AutoClear event, which uses `wakeupOne`, a stop is final; and with the others
every wait ends as long as nobody stops. A channel closes through `wakeupAll` too, and
`AllFinish` of `Channel` names the exact condition: all calls end unless a stop gets
into such a list (`Stolen`). Without that condition a second receiver can stay blocked
on a closed channel.

**Finding** (`eventloop_stop`). The stop callback of `EventLoop::run` notifies without
the mutex. If the loop's thread has evaluated its predicate and is about to sleep, the
notification is lost and `run()` stays, although it should loop only "until the token
is canceled" (`executor.hpp:44`). Posting has no such window, as it takes the mutex,
which is why `NobodyForgotten` holds. The library stops `run()` from its own thread,
where this cannot happen.

## 5. Bounds

Three actors give a waker, a waiter, and a third that barges in, or parks behind the
first, or is stopped. Two calls let an actor that was served come back while others
wait, so that a scan meets the word taken again. The semaphore has four actors with
one call each, because `addPremits(2)` is of interest with two waiters and one
barging taker. A channel of capacity 1 that starts full, with one call per sender and
two per receiver, makes both sides park, and both senders at once; two receivers park
at an empty one. `Rounds` is a constant of the models: the number of calls each actor
makes, finite so that "every call ends" can be stated as `<>[]Finished`. Actors are
not declared symmetric, since the runs check liveness.

The clock of `eventloop` ends at `MaxTime` = 2: timeouts of 0 and 2 give timers that
are due at once, in the order of their submission and against it, and one that expires
while another thread stops or posts. `Slices` bounds the suspensions of a coroutine:
one that yields for ever keeps the inner loop of `run()` going, and timers and other
threads then wait, by the design of `run()`.

One tick of the clock is enough for `epoll`: a timer that is due at once, one that is
due later, and a clock that moves between the making of a timer and the setting of the
timerfd. Two calls by two threads let one rely on the write of the other, stop while a
post is under way, and post twice in order. One file with two pollers of the same or
of different events is what the registration is about; files do not interact.

The programs of `MCPrograms` are as small as their hazards allow: three tasks for
`whenAny`, `whenAll` and a scope (one that ends, one that is stopped by it, one that
ends in spite of it), two for a group, one for what awaits one; three threads with two
calls at the futex lock, so that a sleeper meets a mark that another one overwrote;
three callables for at most two workers; buffers of 8 bytes with reads of 1 and of 5,
so that a window must move and one read is direct, and a stream of 12 or 14 bytes, so
that the buffer is filled again; 2 records of TLS in buffers of two records; two
operations on a ring with two entries, so that the submission queue is full; batches of
two entries and a `run` inside a `run` at the port; two coroutines for Qt,
which sleep for 0 or for 3 of a clock of 4, where a millisecond is 2, so that a delay is
no whole number of them (`QtRounds`: Qt before 6.8, the harder case; the proof is for
both); its clock stops at `MaxTime` as that of `eventloop` does. Most of these sizes are
constants of `MCPrograms` (`Tasks`, `Lockers`, `RingOps`, ...) with values in
`MCPrograms.cfg`, so that the proofs are about all values. Delimiters of `readline` have one
byte there, for a reason that section 8 names.

`Event.cfg` and `MCChannel.cfg` turn deadlock checking off, because a stop that breaks the
local list of `wakeupAll` can leave another waiter suspended for good: there the program does
stop. So do those of `MCPrograms`, whose programs end. The other runs check for
deadlock.

## 6. Fairness

Weak fairness of each actor's `Step`: a thread that can run does, which any
preemptive scheduler provides. Nothing makes anyone request a stop (`Stop` is not
part of `Step`). The queue's lock is taken as a lock without starvation within these
bounds: since each actor makes finitely many calls, no actor can pass another for
ever, and weak fairness is enough. With unbounded calls a waiter may starve, as
barging locks allow; no run claims otherwise.

`EventLoop`: weak fairness of the loop's thread, of a thread that is about to notify,
and of the clock. Nobody has to post or to stop. `run()` is entered again after it
returned, since callbacks run in no other way. `TimedOut` is strongly fair, because
wake-ups without a reason (`Spurious`) may interrupt the wait again and again, but the
wait of a condition variable does end when its time is over.

`Epoll`: the same, without the need for strong fairness, as `epoll_wait` is interrupted
only when it has nothing to report. Files change as they like.

`MCPrograms`: weak fairness of `Progress`, which is what goes on by itself in the chosen
program: threads and executors run, the system completes what it was given, a task that
was started ends or suspends for somebody. It leaves out what may never happen: a
request to stop, another call, a signal, a byte from a peer. One condition is enough
where `Progress` has no cycle; the workers of the pool, who could go round, have a
condition each (`PoolStep`). The programs `futex`, `reader` and `writer` have no part in
`Answered`: the lock makes no promise to a single thread, and a reader waits for nobody
but the stream.

## 7. Proofs

Everything here is proved for any sets of actors, coroutines, threads and files, any
number of calls and any capacity, under the assumptions that the modules name.

| Module | Theorems (the property they state) | Assumptions |
|---|---|---|
| `PrimitivesProofs`, the mutex | `MutexTypeCorrect`, `MutualExclusion` (`OneOwner`), `MutexNoWakeupLost` (`MutexNoLostWakeup`), `MutexStopIsFinal` (`StoppedNotResumed`), `NoDanglingNode` (`NodesOutliveLinks`), `ImplementsMutexSpec` (`MutexPermits!MutexSpec`) | `ActorsAssumption`: coroutines and blocking threads are different actors, and `None` is none of them; `RoundsAssumption` |
| the semaphore | `SemaphoreTypeCorrect`, `PermitConservation` (`PermitsConserved`), `SemaphoreNoWakeupLost` (`EnoughWakeups`), `SemaphoreStopIsFinal`, `ImplementsSemaphoreSpec` (`SemaphorePermits!SemaphoreSpec`) | the same, and `SemaphoreAssumption`: finitely many actors, natural counts |
| the event and the latch | `EventTypeCorrect`, `EventNoWakeupLost` (`EventNoLostWakeup`), `EventStopIsFinal` (`AutoClearStopIsFinal`) | those of the mutex, and `EventAssumption` |
| `ChannelProofs` | `TypeCorrect`, `SlotsBelong` (`SlotsAccounted`), `NoWakeupLost` (`EnoughWakeups`), and, when no Permit outlives its Sender, `StopTakesNothing` (`StopIsFinal`) and `ClosesForGood` (`ClosedForGood`) | `ChannelAssumption`: finitely many actors, coroutines and blocking threads apart, a capacity that is not 0, an mpsc channel has one receiver |
| `EventLoopProofs` | `TypeCorrect`, `OneOfEach` (`OnePlace`), `NoTimerMissed` (`WakesInTime`), `ServesInOrder` (`ImplementsExecutor`) | `TimerAssumption`, `EventLoopAssumption`: natural times and counts; the loop's thread is none of the others |
| `EpollProofs` | `SuppressedWritesAreSafe` (`OneWakeup`), `TypeCorrect`, `OneOfEach` (`OnePlace`), `QuitRunsInTime` (`QuitWithinRun`), `WokenInTime` (`WakesInTime`), `ServesInOrder` (`ImplementsExecutor`) | `TimerAssumption`, `EventsAssumption`, `EpollAssumption`: the context's own descriptors are not among the files, the callback of a stop is no coroutine |
| `ProgramsProofs` | `NoTaskLeftRunning` (`AllEnded`), `EachWokenOnce` (`WokenOnce`), `FirstValueWins` (`FirstWins`), `LockRefinesPermit` (`LockIsPermit`) | `ProgramsAssumption`: at least one task, one worker and one byte of room, natural sizes |
| `LoopProofs` | `QtKeepsItsPromises` (`QtSound`), `NothingUsedAfterItsEnd` (`OwnersOutlive`) | `ProgramsAssumption`: finitely many operations, of which those that the loop's thread starts are some, finitely many coroutines of Qt, none of which is the loop, batches of at least one entry, natural times |

### The wait queue and its locks

The argument is one inductive invariant for each. That of the mutex is
`MutexIInv == MutexTypeOK /\ WQInv /\ OneOwner /\ MutexNoLostWakeup`. `OneOwner` alone is not
inductive: a stop step could take away a waiter that owns the lock, or a resumption
could run an actor that does not. `WQInv` in `WaitQueueProofs` excludes both:

- `LockInv`: who holds the queue's lock is told by the actors' locations;
- `ListInv`: the list holds every linked waiter, once;
- `WaiterInv`: a waiter is linked *exactly while* it is suspended and undecided, which
  is the fact that makes `isLinked()` a correct test in `onStopRequested`, and is the
  fact `wakeupAll` breaks;
- `ResumeInv`: a decided waiter has one waker or one queued resumption, not both.

`MutexNoLostWakeup` needs `LockInv`, since only the lock's holder moves `pos`.

There is one lemma per step of the queue (`ParkInv`, `WakeOneInv`, `StopUnlinkInv`,
...) in `WaitQueueProofs`. They speak of no primitive, and all three cite them; the
proofs of each primitive add one lemma per conjunct of its invariant. `RemoveAtOnce` is the
fact about sequences that the list needs.

Those of the semaphore count. The permits are in the counter, with holders, or owed to a
waiter that was decided and has not run; `PairsUpdate` says how the number of pairs of
an actor and one of its permits changes when one actor's changes.

Those of the event have two cases. `WQInv` is part of `EventIInv` for the auto-clear mode only,
since `WaiterInv` fails after `wakeupAll`. `EventNoLostWakeup` holds in every mode, and is
inductive with the types alone: whoever turned the signal on is about to scan, or at
the front of its scan.

Both refinements go step by step from lemmas that say what a step does to the mapped
state (who wants a permit, who has one, how many are free), and cover all but the
fairness of `Permits`.

### Channels

Two lists of one waiter per actor, with a lock and a scan each, and a `wakeupAll` at the
close: so `WQInv` does not hold, and `ChannelProofs` has an `IInv` of its own. Besides
`SlotsAccounted` and `EnoughWakeups` it has `LockInv`; `OpInv` (an actor at a location of
a call is in that call); `QueueInv` (each list has waiters of its side, once);
`WaiterInv` (a waiter is undecided while it is in its list, *as long as no `wakeupAll`
has taken that list*); `GotInv` (what a call took is known to a waiter that was decided,
and to no other); `CloseInv` (the scan that closes starts at the front and goes on until
the list is empty); `KindInv`. A wakeup that comes with the item or the slot in hand is
owed by an actor that may not run yet, which is why `EnoughWakeups` counts the actors
that are on their way, and not only those that scan. `EnoughKept` says that enough wakeups
stay enough when a step adds or takes one thing, one waiter or one actor under way.

The search for this invariant corrected the model: `EnoughWakeups` claimed too much of
senders after the receiver had dropped its end (they are told by the close, not by
items), and `ChannelAssumption` did not say that the actors are finitely many.
`StopTakesNothing` and `ClosesForGood` are conditional on `~PermitOutlivesSender`; the
run `channel_permit` shows that `ClosedForGood` fails without it.

### Executors

`TimerProofs` has what both executors rest on. Its lemmas about sequences are `SeqIs`,
`RemoveAtIs`, `InsertAtIs`, `WhoAppend`, `WhoTail`, `WhoConcat` and `KeepIs`. The last is
about `Keep(s, I)`, the elements at given places in their order, which is what a loop
that erases some leaves; that there is such an enumeration (`Enumeration`) is proved from
the least element of a set of numbers (`Least`, by `WFMin` of the library), because the
theorems about induction cannot be used here. `Placed(rest)` says of the coroutines that
each is ready exactly while it is posted, here or in the queue of the executor with the
callbacks `rest`, is posted once, is asleep exactly while it has a timer, and has one; and
that the timers are sorted. One lemma per operation shows that it is kept: `SuspendKeeps`,
`YieldKeeps`, `SleepKeeps`, `StopOtherKeeps`, `UpdateKeeps`.

`EventLoopProofs` adds `Once(shared)` and `LoopInv`: from `pred` on the local queue is
empty, and no timer is earlier than `until`. `WakesInTime` alone is not inductive, since
it says nothing of the step before the thread sleeps.

`EpollProofs` has five parts, each not inductive without the others:

- `WakeInv`: `OneWakeup`, with `BatchInv` (an event of the eventfd in the batch means
  that it is readable, and there is one such event) and `ReadInv` (what holds between the
  reset of the flag and the read, which are two steps);
- `PlaceInv` and `FdInv`: `Placed`, and who polls has one awaiter, at one file, for an
  event in `interest`; a dispatch divides the awaiters of a file into two parts
  (`DividedAre`), and both parts keep this (`ToldKeeps`);
- `ArmInv`: the kernel watches for all of `interest`, or the file is in the batch. With
  `FdInv` it gives the second half of `WakesInTime`;
- `QuitInv`: the callback of a stop is posted, or about to be posted by one thread, or
  neither; it is posted only while `runStop` and `running` are set, and `run()` returns
  only when `running` is not;
- `ClockInv`: the timerfd is set for the first timer, *or that timer is due already*. The
  second case is the setting 0, which disarms. It cannot last until the thread sleeps:
  `updateTimers()` comes before, and if it leaves nothing to run then no timer was due.

Both implement `Executor`, whose state is what each poster has pending. It is mapped to
`PostedBy(p, local \o shared)`: the entries of `p` in the two queues, read one behind the
other. A step serves the posters (`Serves`) when what each has pending loses at most its
first entry or gains at its end. That is so for a slice and for `updateTimers()` because
the thread's own callbacks go to `local` and none of them is ever in the shared queue, so
that nothing of its own comes behind what others posted; and for `Collect`, which moves
the shared queue, because it happens only when `local` is empty. Both facts are part of
the invariants (`LoopInv`, `QueueTypes`); with either of them missing the order of one
poster would be lost.

### The programs

`ProgramsProofs` and `LoopProofs` prove one invariant for each program they are about,
through its instance in `MCPrograms` (`Lock!...`, `Ring!...`), and combine them in one
(`ProgramsInv`, `LoopsInv`): the program never changes, and each step is one of the
chosen program. What an invariant needs beyond the property is named in the component's
module, below its properties.

- The futex lock: `SleepersMarked` with the types is inductive. That each step is one of
  a permit (`FutexIsPermit`) follows from it.
- The pool: `IdleCounts` needs `WorkersMade`: only threads that were made have a place,
  they leave only when the pool is stopped, and whoever works has a callable.
- `whenAny`, `whenAll`: `Counted` (the awaiter's counter is the number of the tasks that
  have not ended, and only a stop that it forwarded stops one) and `CallerWaits` (a
  suspended caller has something to wait for). A stop may end any number of tasks within
  one step, so the counter falls by the size of a set.
- oneshot: `EndsKnown`, what each end's place says of the flags and the reference count.
- The duplex stream: `PipeHasBytes` (the buffer has the bytes between the two counts, in
  order) and `PipeSides` (a side is suspended exactly while its handle is registered or it
  was scheduled, one of the two).
- The signal: `EndsKnown` and `SignalKept`: an open writer is registered, or with the one
  handler that took it, or with the waiter that takes it back.
- Qt: `QtPlaced` is `Placed` of the timer service, taken from `TimerProofs` by an instance;
  `QtCounts` and `QtConnected` (a notifier's number is that of the coroutines connected to
  it, which are those that poll); `QtOps`; `QtTimed` (the timer was started for the first
  timepoint, comes by less than a millisecond early, and by less than its interval, or a
  millisecond from now, late). What the proof needs of the cut is that it takes less than
  a millisecond off.
- io_uring: an entry is in one place, once (`EntriesOnce`): the submission queue, the
  kernel or a completion; a coroutine starts once (`StartsOnce`), and is suspended exactly
  while one of its entries is somewhere.
- The completion port: the same over the taken entries followed by the port's, *whatever
  is taken by which of the nested runs*; removing an entry that was taken back from the
  middle keeps it.
- The fiber: `StopKnown`, what a pending stop says of the place where the fiber stands.
- Name lookup: `Posted`, what the place of the caller says of the request, and that its
  resumption is posted once.

### What is only model-checked

Liveness, and the fairness parts of the refinements, which are beyond the prover: the
`...AllFinish`, `NobodyForgotten`, `StopEndsRun`, `Answered`. Also beyond it are `ENABLED`,
what a recursive definition computes for every input (induction over data), and whatever
a module with RECURSIVE operators states; no module here declares one. Not proved:
`OneAnswer`, `GroupSound`, `ScopeSound`, `NothingLeftBehind` and `OnceInOrder` of
`MCPrograms`, whose programs have constants of their own there (the sizes of buffers, the
number of tasks), and the five properties that runs refute.

## 8. Not modelled

- Wrappers of system calls (sockets, options, files), addresses and endpoints, the I/O
  concepts and type erasure of `io/traits.hpp` and `io/dyn_traits.hpp`, which forward;
  logging, the console and tracing; tables of errors. None has control of its own.
- The TLS protocol and contexts, the context switch of a fiber, and what glibc, Qt,
  liburing and the kernels do inside: they are external, modelled by what the code
  relies on.
- `Epoll`: `removeDescriptor`, which requires that nobody polls; regular files, which go
  to the pool. That `recvmsg` and `sendmsg` take a result of 0 for "would block"
  (`epoll.cpp:573`), so that at the end of a stream `recvmsg` polls for ever, is not in
  the model, whose attempts succeed or block.
- `Iocp`: waits without completion packets (Windows before 8), which free the
  registration they run on (`io_context.cpp:561-579`), and the pump of window messages.
- `Uring`: the stop of `run()` from another thread, which fills a submission entry
  without a lock (`uring.cpp:116`). The library stops its runs on their own thread.
- `Iocp`: the wait without a timer object (`io_context.cpp:108-116`), whose length is read
  before the callbacks run, so that a sleep that one of them starts is not in it.
- `TimerService`: that a sleep which is stopped at once changes the timers twice, so that
  the context sets its timer twice, to what it was. `Epoll`: a `run()` whose stop was
  requested before it: it would post its callback at once.
- `ScheduleOn`: that the executor's thread posts to the caller while the caller is still in
  `await_suspend`; the caller's executor keeps it until it has returned.
- `Fiber`: when exactly the context of a caller that was spawned is freed. `freed` is set
  as early as that can be, and `StackOutlives` says nothing of that caller's fiber.
- `Tls`: a call after one that failed or was stopped.
- `Qt`: what becomes of an operation that was scheduled when its descriptor was removed: it
  uses the deleted descriptor (`qt.hpp:574`), and fails in the model.
- `Qt`: the adapters of `ilias_qt`; a `run()` whose stop was requested before it, which
  waits for another one (`qt.hpp:210-216`), is in the model and left out of `Answered`.
- `Tls`: two coroutines at one stream. `flushImpl` of the OpenSSL back end would then
  write the same bytes twice (`openssl.cpp:249-268`).
- `BufReader`: a delimiter of several bytes. `readline` consumes a view in which it has
  not found the whole delimiter (`ext.hpp:224-229`), so one that two fills split is
  passed over, and `LineEnds` would not hold. `StreamBuffer::prepare` may refuse a
  window that would fit (`stream.hpp:78-101`); `Fill` does as the code does, and takes
  the empty window for the end.
- `Process`: what becomes of the child of an `output()` that is stopped or fails. It is
  neither killed nor reaped, although `process.hpp:59` says of `wait()` "if canceled, we
  will kill the process".
- `Signal`: that the number of a closed file is used again (the FIXME at
  `signal.cpp:94`).
- `ThreadPool`: that a worker misses the notification at exit (`runtime.cpp:165-172`) and
  `join()` waits for ever is in the model; no property excludes it.

Data carried by the primitives (the value in `Locked<T>`) plays no part in their control
and is left out. Inside the wait queue these are taken as given: its lock is a lock,
which `FutexMutex` shows of the lock the code uses; `mBlocking.wait` returns once the
flag is false, as the standard's atomic wait does; the executor runs what is scheduled
once.
