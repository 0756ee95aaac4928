-------------------------------- MODULE Epoll --------------------------------
(***************************************************************************)
(* ilias::EpollContext (linux/epoll.cpp): an executor whose thread sleeps  *)
(* in epoll_wait().  Other threads wake it through an eventfd, which they  *)
(* write only when mWakePending says that nobody else is about to; timers  *)
(* wake it through a timerfd, which is set when the first timer changes.   *)
(***************************************************************************)
EXTENDS EpollDescriptor

CONSTANTS Others,   \* the other threads
          Calls,    \* calls they make in all
          Quit,     \* the callback by which a stop ends run()
          EventFd,  \* the two descriptors of the context itself
          TimerFd

ASSUME EpollAssumption ==
    /\ Loop \notin Others /\ Calls \in Nat
    /\ Quit \notin Coros
    /\ EventFd \notin Fds /\ TimerFd \notin Fds /\ EventFd # TimerFd

VARIABLES
    pendingCallbacks,  \* mPendingCallbacks
    wakePending,       \* mWakePending
    eventfd,           \* the eventfd is readable
    timerfd,           \* when the timerfd is readable, or Never
    prevTimepoint,     \* mPrevTimepoint of the timer service
    batch,             \* events of epoll_wait() still to process
    loopPc,            \* where the thread stands
    running,           \* the variable of run()
    runStop,           \* the stop token of run() is requested
    pc,                \* where each other thread stands
    calls              \* calls they still make

threadVars == <<runStop, pc, calls>>
wakeVars == <<pendingCallbacks, wakePending, eventfd>>
vars == <<timerVars, fdVars, wakeVars, timerfd, prevTimepoint, batch, loopPc, running,
          threadVars>>

Init ==
    /\ TimerInit
    /\ FdInit
    /\ pendingCallbacks = <<>> /\ wakePending = FALSE /\ eventfd = FALSE
    /\ timerfd = Never /\ prevTimepoint = Never
    /\ batch = {}
    /\ loopPc = "update" /\ running = TRUE
    /\ runStop = FALSE
    /\ pc = [p \in Others |-> "idle"]
    /\ calls = Calls

LoopGoTo(from, to) == loopPc = from /\ loopPc' = to

-----------------------------------------------------------------------------
(* Timers.                                                                 *)

\* The setting of the timerfd for timepoint tp, at time t.  The difference 0 disarms.
TimerSetting(tp, t) ==
    CASE tp = Never -> Never
      [] tp > t     -> tp
      [] tp = t     -> Never
      [] OTHER      -> t

\* timerChanged(), at the end of a step after which the timerfd was fd: set it when the
\* first timepoint is another one.  It reads the clock again.
TimerChanged(fd) ==
    IF NextTimepoint' = prevTimepoint
      THEN timerfd' = fd /\ UNCHANGED <<prevTimepoint, now>>
      ELSE /\ prevTimepoint' = NextTimepoint'
           /\ now' \in {now, now + 1} \cap 0..MaxTime
           /\ timerfd' = TimerSetting(NextTimepoint', now')

-----------------------------------------------------------------------------
(* The thread in run().                                                    *)

loopRest == <<wakeVars, batch, running, threadVars>>

\* updateTimers(), before and after each callback.
Update ==
    /\ LoopGoTo("update", "callbacks")
    /\ UpdateTimers
    /\ TimerChanged(timerfd)
    /\ UNCHANGED <<loopRest, fdVars>>

\* Mutant: no updateTimers() after a callback.
RunCallbackOnly ==
    /\ loopPc = "callbacks" /\ UNCHANGED loopPc
    /\ PollSlice
    /\ TimerChanged(timerfd)
    /\ UNCHANGED loopRest

\* The first callback resumes a coroutine.
RunCallback ==
    /\ LoopGoTo("callbacks", "update")
    /\ PollSlice
    /\ TimerChanged(timerfd)
    /\ UNCHANGED loopRest

\* Its operation does not wait, or its poll() fails: it goes on within the callback.
RunOn ==
    /\ loopPc = "callbacks"
    /\ \E c \in Coros, f \in Fds, e \in Events :
           PollFails(c, f, e) \/ TryIo(c, f, e)
    /\ UNCHANGED <<now, timerfd, prevTimepoint, loopPc, loopRest>>

\* Mutant: the post is taken for another thread's.
RunLastShared(c) ==
    /\ LoopGoTo("callbacks", "update")
    /\ Running(c)
    /\ ~runStop /\ runStop' = TRUE
    /\ st' = [st EXCEPT ![c] = "done"]
    /\ slices' = [slices EXCEPT ![c] = 0]
    /\ local' = Tail(local)
    /\ pendingCallbacks' = Append(pendingCallbacks, <<Loop, Quit>>)
    /\ UNCHANGED <<now, mTimers, stopReq, fdVars, timerfd, prevTimepoint, wakePending,
                   eventfd, batch, running, pc, calls>>

\* A coroutine that is done requests the stop of run(): the stop callback posts on its
\* own thread.
RunLast(c) ==
    /\ LoopGoTo("callbacks", "update")
    /\ Running(c)
    /\ ~runStop /\ runStop' = TRUE
    /\ st' = [st EXCEPT ![c] = "done"]
    /\ slices' = [slices EXCEPT ![c] = 0]
    /\ local' = Append(Tail(local), <<Loop, Quit>>)
    /\ UNCHANGED <<now, mTimers, stopReq, fdVars, timerfd, prevTimepoint, wakeVars, batch,
                   running, pc, calls>>

\* The callback of the stop.
RunQuit ==
    /\ LoopGoTo("callbacks", "update")
    /\ local # <<>> /\ Head(local)[2] = Quit
    /\ running' = FALSE
    /\ local' = Tail(local)
    /\ UNCHANGED <<now, mTimers, st, stopReq, slices, fdVars, timerfd, prevTimepoint,
                   wakeVars, batch, threadVars>>

\* Mutant: the token decides, not the callback.
BeginWaitByToken ==
    /\ local = <<>>
    /\ LoopGoTo("callbacks", IF ~runStop THEN "wait" ELSE "returned")
    /\ UNCHANGED <<timerVars, fdVars, timerfd, prevTimepoint, loopRest>>

\* No callback is left: return, or go to sleep.
BeginWait ==
    /\ local = <<>>
    /\ LoopGoTo("callbacks", IF running THEN "wait" ELSE "returned")
    /\ UNCHANGED <<timerVars, fdVars, timerfd, prevTimepoint, loopRest>>

\* What epoll_wait() has to report.  The two descriptors are level triggered.
Happened ==
    {[fd |-> f, events |-> Reported(f)] : f \in {g \in Fds : Reported(g) # {}}}
    \cup (IF eventfd THEN {[fd |-> EventFd, events |-> {}]} ELSE {})
    \cup (IF timerfd <= now THEN {[fd |-> TimerFd, events |-> {}]} ELSE {})

\* epoll_wait() returns.
Wake ==
    /\ LoopGoTo("wait", "events")
    /\ Happened # {}
    /\ batch' = Happened
    /\ Spend
    /\ UNCHANGED <<timerVars, ready, interest, awaiters, timerfd, prevTimepoint, wakeVars,
                   running, threadVars>>

\* It is interrupted by a signal.
Interrupted ==
    /\ LoopGoTo("wait", "update")
    /\ Happened = {}
    /\ UNCHANGED <<timerVars, fdVars, timerfd, prevTimepoint, loopRest>>

\* The events are processed in the kernel's order, which is any.
FileEvent ==
    /\ loopPc = "events" /\ UNCHANGED loopPc
    /\ \E b \in batch :
           /\ b.fd \in Fds
           /\ Dispatch(b.fd, b.events)
           /\ batch' = batch \ {b}
    /\ UNCHANGED <<now, mTimers, stopReq, slices, ready, timerfd, prevTimepoint, wakeVars,
                   running, threadVars>>

\* Mutant: the flag is not reset.
PollCallbacksKeepFlag ==
    /\ LoopGoTo("events", "read")
    /\ \E b \in batch : b.fd = EventFd /\ batch' = batch \ {b}
    /\ local' = local \o pendingCallbacks
    /\ pendingCallbacks' = <<>>
    /\ UNCHANGED <<now, mTimers, st, stopReq, slices, fdVars, timerfd, prevTimepoint,
                   wakePending, eventfd, running, threadVars>>

\* pollCallbacks(): takes the mutex, takes the callbacks, resets the flag ...
PollCallbacks ==
    /\ LoopGoTo("events", "read")
    /\ \E b \in batch : b.fd = EventFd /\ batch' = batch \ {b}
    /\ local' = local \o pendingCallbacks
    /\ pendingCallbacks' = <<>>
    /\ wakePending' = FALSE
    /\ UNCHANGED <<now, mTimers, st, stopReq, slices, fdVars, timerfd, prevTimepoint,
                   eventfd, running, threadVars>>

\* ... reads the eventfd, and frees the mutex.
ReadEventFd ==
    /\ LoopGoTo("read", "events")
    /\ eventfd' = FALSE
    /\ UNCHANGED <<timerVars, fdVars, timerfd, prevTimepoint, pendingCallbacks,
                   wakePending, batch, running, threadVars>>

\* processTimer(): as long as the timerfd can be read, updateTimers().
TimerEvent ==
    /\ loopPc = "events" /\ UNCHANGED loopPc
    /\ \E b \in batch :
           /\ b.fd = TimerFd
           /\ IF timerfd <= now
                THEN UpdateTimers /\ TimerChanged(Never) /\ UNCHANGED batch
                ELSE /\ batch' = batch \ {b}
                     /\ UNCHANGED <<timerVars, timerfd, prevTimepoint>>
    /\ UNCHANGED <<fdVars, wakeVars, running, threadVars>>

EndBatch ==
    /\ LoopGoTo("events", "update")
    /\ batch = {}
    /\ UNCHANGED <<timerVars, fdVars, timerfd, prevTimepoint, loopRest>>

\* run() is called again, with a new token of which no stop was requested yet: one that
\* was would post its callback here.  ~StopCallback has waited for its callback.
Enter ==
    /\ LoopGoTo("returned", "update")
    /\ \A p \in Others : pc[p] \notin {"stop", "stopWrite"}
    /\ running' = TRUE
    /\ runStop' = FALSE
    /\ UNCHANGED <<timerVars, fdVars, timerfd, prevTimepoint, wakeVars, batch, pc, calls>>

LoopStep ==
    \/ Update \/ RunCallback \/ RunOn \/ (\E c \in Coros : RunLast(c)) \/ RunQuit
    \/ BeginWait \/ Wake \/ FileEvent \/ PollCallbacks \/ ReadEventFd \/ TimerEvent
    \/ EndBatch \/ Enter

-----------------------------------------------------------------------------
(* The other threads.                                                      *)

\* Mutant: the queue is filled at its front.
PostInFront(p, callback, write) ==
    /\ loopPc # "read"
    /\ pendingCallbacks' = <<<<p, callback>>>> \o pendingCallbacks
    /\ wakePending' = TRUE
    /\ pc' = [pc EXCEPT ![p] = IF wakePending THEN "idle" ELSE write]
    /\ UNCHANGED eventfd

\* post(): under the mutex, the callback is queued and the flag exchanged; who found it
\* unset writes.
PostWith(p, callback, write) ==
    /\ loopPc # "read"
    /\ pendingCallbacks' = Append(pendingCallbacks, <<p, callback>>)
    /\ wakePending' = TRUE
    /\ pc' = [pc EXCEPT ![p] = IF wakePending THEN "idle" ELSE write]
    /\ UNCHANGED eventfd

loopVars == <<now, mTimers, local, stopReq, slices, fdVars, timerfd, prevTimepoint, batch,
              loopPc, running>>

\* schedule() of a coroutine that waits for this thread.
Post(p, c) ==
    /\ pc[p] = "idle" /\ calls > 0
    /\ calls' = calls - 1
    /\ st[c] = "parked"
    /\ st' = [st EXCEPT ![c] = "ready"]
    /\ PostWith(p, c, "write")
    /\ UNCHANGED <<loopVars, runStop>>

\* request_stop() of the token of run(): the flag ...
StopRun(p) ==
    /\ pc[p] = "idle" /\ calls > 0
    /\ calls' = calls - 1
    /\ loopPc # "returned"
    /\ ~runStop /\ runStop' = TRUE
    /\ pc' = [pc EXCEPT ![p] = "stop"]
    /\ UNCHANGED <<loopVars, st, wakeVars>>

\* ... and the callback, which posts.
PostQuit(p) ==
    /\ pc[p] = "stop"
    /\ PostWith(p, Quit, "stopWrite")
    /\ UNCHANGED <<loopVars, st, calls, runStop>>

WriteEventFd(p) ==
    /\ pc[p] \in {"write", "stopWrite"}
    /\ pc' = [pc EXCEPT ![p] = "idle"]
    /\ eventfd' = TRUE
    /\ UNCHANGED <<loopVars, st, pendingCallbacks, wakePending, calls, runStop>>

ThreadStep(p) == PostQuit(p) \/ WriteEventFd(p)

Time ==
    /\ Tick
    /\ UNCHANGED <<fdVars, wakeVars, timerfd, prevTimepoint, batch, loopPc, running,
                   threadVars>>

Files ==
    /\ \E f \in Fds, e \in Events \cup {Hup} : FileChange(f, e)
    /\ UNCHANGED <<timerVars, wakeVars, timerfd, prevTimepoint, batch, loopPc, running,
                   threadVars>>

\* The loop sleeps, and no thread or clock will wake it.
Finished ==
    /\ loopPc = "wait" /\ Happened = {} /\ timerfd = Never
    /\ \A p \in Others : pc[p] = "idle"

Next ==
    \/ LoopStep \/ Interrupted \/ Time \/ Files
    \/ \E p \in Others : (\E c \in Coros : Post(p, c)) \/ StopRun(p) \/ ThreadStep(p)
    \/ Finished /\ UNCHANGED vars

Spec == Init /\ [][Next]_vars

\* The thread runs and run() is entered again, another thread ends what it has begun,
\* and time passes.
FairSpec ==
    /\ Spec
    /\ WF_vars(LoopStep)
    /\ \A p \in Others : WF_vars(ThreadStep(p))
    /\ WF_vars(Time)

-----------------------------------------------------------------------------
TypeOK ==
    /\ TimerTypeOK
    /\ FdTypeOK
    /\ st \in [Coros -> Places \cup {"polling"}]
    /\ local \in Seq((Others \cup {Loop}) \X (Coros \cup {Quit}))
    /\ pendingCallbacks \in Seq(Others \X (Coros \cup {Quit}))
    /\ wakePending \in BOOLEAN /\ eventfd \in BOOLEAN
    /\ timerfd \in 0..Never /\ prevTimepoint \in 0..Never
    /\ batch \subseteq [fd : Fds \cup {EventFd, TimerFd}, events : SUBSET (Events \cup {Hup})]
    /\ loopPc \in {"update", "callbacks", "wait", "events", "read", "returned"}
    /\ running \in BOOLEAN /\ runStop \in BOOLEAN
    /\ pc \in [Others -> {"idle", "stop", "write", "stopWrite"}]
    /\ calls \in 0..Calls

Posted == local \o pendingCallbacks

\* A coroutine is in one place: posted once, with one timer, or with one awaiter; so of
\* a notification, a failed re-arming and a stop, one takes it (epoll.cpp:143-148).
OnePlace ==
    /\ TypeOK
    /\ \A c \in Coros :
        /\ st[c] = "ready" <=> \E i \in DOMAIN Posted : Posted[i][2] = c
        /\ st[c] = "asleep" <=> \E i \in DOMAIN mTimers : mTimers[i].who = c
        /\ st[c] = "polling" <=> \E f \in Fds : \E i \in DOMAIN awaiters[f] :
                                     awaiters[f][i].who = c
        /\ \A i, j \in DOMAIN Posted : Posted[i][2] = c /\ Posted[j][2] = c => i = j
        /\ \A i, j \in DOMAIN mTimers : mTimers[i].who = c /\ mTimers[j].who = c => i = j
        /\ \A f, g \in Fds : \A i \in DOMAIN awaiters[f], j \in DOMAIN awaiters[g] :
               awaiters[f][i].who = c /\ awaiters[g][j].who = c => f = g /\ i = j

Owes(p) == pc[p] \in {"write", "stopWrite"}

\* mWakePending is set exactly while one write is owed or the eventfd can be read, so a
\* suppressed write is never missed (epoll.cpp:284-297, 350-357).
OneWakeup ==
    /\ pendingCallbacks # <<>> => wakePending
    /\ wakePending => eventfd \/ \E p \in Others : Owes(p)
    /\ loopPc # "read" => (eventfd => wakePending) /\ \A p \in Others : Owes(p) => wakePending
    /\ \A p \in Others : Owes(p) => ~eventfd
    /\ \A p, q \in Others : Owes(p) /\ Owes(q) => p = q

\* What a coroutine waits for will wake the thread.  While it sleeps the timerfd is set
\* for the first timer, although the setting 0 disarms it and is computed after the timer
\* was made (epoll.cpp:203-223); and who polls is watched for, by the kernel or by an
\* event still to be processed, although each report spends the one shot of all who poll
\* (epoll.cpp:107-122, 383-427).
WakesInTime ==
    /\ loopPc = "wait" => timerfd = NextTimepoint
    /\ \A f \in Fds : \A i \in DOMAIN awaiters[f] :
           awaiters[f][i].event \in kernel[f] \/ \E b \in batch : b.fd = f

\* The callback that a stop posts refers to a variable of run() (epoll.cpp:302-303): it
\* runs before run() returns.
QuitWithinRun ==
    loopPc = "returned" =>
        /\ \A i \in DOMAIN Posted : Posted[i][2] # Quit
        /\ \A p \in Others : pc[p] # "stop"

\* A posted callback runs, a sleep ends, and who polls a file that stays ready for it is
\* told or stopped.
NobodyForgotten ==
    \A c \in Coros :
        /\ st[c] \in {"ready", "asleep"} ~> st[c] \notin {"ready", "asleep"}
        /\ \A f \in Fds, e \in Events :
               ~ <>[](e \in ready[f] /\ \E i \in DOMAIN awaiters[f] :
                                            awaiters[f][i] = [who |-> c, event |-> e])

\* A stop of run() ends it.
StopEndsRun == runStop ~> loopPc = "returned"

Abstract == INSTANCE Executor WITH
    Posters <- Others \cup {Loop},
    pending <- [p \in Others \cup {Loop} |-> PostedBy(p, Posted)]

\* The context implements the executor of module Executor.
ImplementsExecutor == Abstract!Spec
=============================================================================
