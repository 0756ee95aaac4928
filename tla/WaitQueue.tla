------------------------------ MODULE WaitQueue ------------------------------
(***************************************************************************)
(* The wait queue of ilias::sync (sync.cpp, sync/detail/queue.hpp): the    *)
(* list of waiters that Mutex, Semaphore, Event and Latch park on.         *)
(*                                                                         *)
(* The module holds what is common to every primitive: the list and its    *)
(* lock, the state of each waiter, and the steps of a wakeup and of a stop *)
(* request.  A primitive EXTENDS it, adds its own word (mLocked, mCount,   *)
(* mIsSet), and decides in its own actions what the predicate onWakeup     *)
(* answers and what it takes.                                              *)
(*                                                                         *)
(* One thread per actor.  A coroutine runs on its executor's thread only,  *)
(* and so does a stop request for it (a context is reached through Rc,     *)
(* which is not thread safe), so the steps of an actor are sequential and  *)
(* pc[t] says where its thread stands.  Actors that share a thread have    *)
(* fewer interleavings than these.                                         *)
(*                                                                         *)
(* Grain: a critical section in which one atomic word is read or written   *)
(* once is one step; one that evaluates several predicates, or that reads  *)
(* what is changed outside the lock, keeps the lock from step to step.     *)
(***************************************************************************)
EXTENDS Naturals, Sequences, SequencesExt

CONSTANTS Coros,   \* actors that wait with co_await
          Plain,   \* actors that wait with blockingWait
          None,    \* no actor
          Rounds   \* calls each actor makes

ASSUME ActorsAssumption ==
    /\ Coros \cap Plain = {}
    /\ None \notin Coros \cup Plain

ASSUME RoundsAssumption == Rounds \in Nat

Threads == Coros \cup Plain

VARIABLES
    pc,        \* where the actor's thread, or its suspended coroutine, stands
    queue,     \* mWaiters
    qlock,     \* the holder of mMutex of the queue
    pos,       \* the iterator of the scan that the holder of qlock makes
    ready,     \* wakeupAll's local list
    cur,       \* the waiter that a waker is about to resume
    linked,    \* the waiters w with w.isLinked()
    waiting,   \* mWaiting
    blocking,  \* mBlocking
    posted,    \* resumptions of the coroutine its executor has queued
    stopReq,   \* the coroutine's stop token is requested
    left       \* calls the actor still makes

wqVars == <<pc, queue, qlock, pos, ready, cur, linked, waiting, blocking,
            posted, stopReq>>

\* A waiter that was pushed and has neither been resumed nor been stopped.
Suspended == {"register", "wait", "blocked", "stopRead", "stopLock", "stopUnlink"}

WQLocations == Suspended \cup {"out", "suspend", "stopSet", "stopped",
                               "wake", "scan", "pick", "resume"}

WQInit ==
    /\ pc = [t \in Threads |-> "out"]
    /\ queue = <<>>
    /\ qlock = None
    /\ pos = 1
    /\ ready = [t \in Threads |-> <<>>]
    /\ cur = [t \in Threads |-> None]
    /\ linked = {}
    /\ waiting = [t \in Threads |-> TRUE]
    /\ blocking = [t \in Threads |-> FALSE]
    /\ posted = [t \in Threads |-> 0]
    /\ stopReq = [t \in Threads |-> FALSE]

\* One call less to make.
Call(t) ==
    /\ pc[t] = "out"
    /\ left[t] > 0
    /\ left' = [left EXCEPT ![t] = @ - 1]

GoTo(t, from, to) == pc[t] = from /\ pc' = [pc EXCEPT ![t] = to]

-----------------------------------------------------------------------------
(* Waiting: await_suspend and blockingWait.                                *)

\* A fresh waiter object, on the way to the queue's lock.
Construct(t) ==
    /\ GoTo(t, "out", "suspend")
    /\ waiting' = [waiting EXCEPT ![t] = TRUE]
    /\ blocking' = [blocking EXCEPT ![t] = (t \in Plain)]
    /\ UNCHANGED <<queue, qlock, pos, ready, cur, linked, posted, stopReq>>

\* The predicate, evaluated under the lock, holds: do not wait.
DontSuspend(t, to) ==
    /\ qlock = None
    /\ GoTo(t, "suspend", to)
    /\ UNCHANGED <<queue, qlock, pos, ready, cur, linked, waiting, blocking,
                   posted, stopReq>>

\* The predicate does not hold: push_back in the same critical section.
Park(t) ==
    /\ qlock = None
    /\ GoTo(t, "suspend", IF t \in Plain THEN "blocked" ELSE "register")
    /\ queue' = Append(queue, t)
    /\ linked' = linked \cup {t}
    /\ UNCHANGED <<qlock, pos, ready, cur, waiting, blocking, posted, stopReq>>

\* register_ runs the callback at once when the token is already requested.
RegisterStop(t) ==
    /\ GoTo(t, "register", IF stopReq[t] THEN "stopRead" ELSE "wait")
    /\ UNCHANGED <<queue, qlock, pos, ready, cur, linked, waiting, blocking,
                   posted, stopReq>>

\* Mutant: the coroutine goes on without having been scheduled.
ResumedUnscheduled(t, to) ==
    /\ GoTo(t, "wait", to)
    /\ posted' = [posted EXCEPT ![t] = @ - 1]
    /\ UNCHANGED <<queue, qlock, pos, ready, cur, linked, waiting, blocking,
                   stopReq>>

\* The executor runs a resumption that schedule() queued.
Resumed(t, to) ==
    /\ posted[t] > 0
    /\ GoTo(t, "wait", to)
    /\ posted' = [posted EXCEPT ![t] = @ - 1]
    /\ UNCHANGED <<queue, qlock, pos, ready, cur, linked, waiting, blocking,
                   stopReq>>

\* mBlocking.wait(true) returns.
Unblocked(t, to) ==
    /\ ~blocking[t]
    /\ GoTo(t, "blocked", to)
    /\ UNCHANGED <<queue, qlock, pos, ready, cur, linked, waiting, blocking,
                   posted, stopReq>>

-----------------------------------------------------------------------------
(* Stopping: AwaiterBase::onStopRequested.                                 *)

\* The stop token is requested, on the coroutine's own executor: while it is
\* suspended here, or elsewhere in its body (in the locations "elsewhere").
StopRequest(t, elsewhere) ==
    /\ t \in Coros
    /\ ~stopReq[t]
    /\ stopReq' = [stopReq EXCEPT ![t] = TRUE]
    /\ \/ GoTo(t, "wait", "stopRead")
       \/ pc[t] \in elsewhere /\ UNCHANGED pc
    /\ UNCHANGED <<queue, qlock, pos, ready, cur, linked, waiting, blocking, posted>>

\* if (!ref.load()) return
StopRead(t) ==
    /\ GoTo(t, "stopRead", IF waiting[t] THEN "stopLock" ELSE "wait")
    /\ UNCHANGED <<queue, qlock, pos, ready, cur, linked, waiting, blocking,
                   posted, stopReq>>

\* Mutant: isLinked() is not looked at again under the lock.
StopLockUnchecked(t) ==
    /\ qlock = None
    /\ GoTo(t, "stopLock", "stopUnlink")
    /\ qlock' = t
    /\ UNCHANGED <<queue, pos, ready, cur, linked, waiting, blocking, posted, stopReq>>

\* lock; if (!isLinked()) return
StopLock(t) ==
    /\ qlock = None
    /\ GoTo(t, "stopLock", IF t \in linked THEN "stopUnlink" ELSE "wait")
    /\ qlock' = IF t \in linked THEN t ELSE None
    /\ UNCHANGED <<queue, pos, ready, cur, linked, waiting, blocking, posted, stopReq>>

\* unlink() takes the node out of whichever list holds it, and does nothing to a
\* node that is in none.
Unlink(t) ==
    \/ \E i \in DOMAIN queue :
          /\ queue[i] = t
          /\ queue' = RemoveAt(queue, i)
          /\ UNCHANGED ready
    \/ \E u \in Threads : \E i \in DOMAIN ready[u] :
          /\ ready[u][i] = t
          /\ ready' = [ready EXCEPT ![u] = RemoveAt(@, i)]
          /\ UNCHANGED queue
    \/ t \notin linked /\ UNCHANGED <<queue, ready>>

\* Mutant: the stopped waiter is left in the list.
StopWithoutUnlink(t) ==
    /\ GoTo(t, "stopUnlink", "stopSet")
    /\ waiting' = [waiting EXCEPT ![t] = FALSE]
    /\ qlock' = None
    /\ UNCHANGED <<queue, ready, linked, pos, cur, blocking, posted, stopReq>>

\* unlink(); ref.store(false); unlock
StopUnlink(t) ==
    /\ GoTo(t, "stopUnlink", "stopSet")
    /\ Unlink(t)
    /\ linked' = linked \ {t}
    /\ waiting' = [waiting EXCEPT ![t] = FALSE]
    /\ qlock' = None
    /\ UNCHANGED <<pos, cur, blocking, posted, stopReq>>

\* mCaller.setStopped()
SetStopped(t) ==
    /\ GoTo(t, "stopSet", "stopped")
    /\ UNCHANGED <<queue, qlock, pos, ready, cur, linked, waiting, blocking,
                   posted, stopReq>>

-----------------------------------------------------------------------------
(* Waking: wakeupOne and wakeupAll.  "after" is where the caller goes on.  *)

WakeLock(t) ==
    /\ qlock = None
    /\ GoTo(t, "wake", "scan")
    /\ qlock' = t
    /\ pos' = 1
    /\ UNCHANGED <<queue, ready, cur, linked, waiting, blocking, posted, stopReq>>

AtWaiter(t) == pc[t] = "scan" /\ pos \in DOMAIN queue

\* onWakeupRaw() is true: mWaiting is cleared and the waiter leaves the list.
\* wakeupOne stops here and unlocks.
WakeOne(t) ==
    /\ AtWaiter(t)
    /\ GoTo(t, "scan", "resume")
    /\ waiting' = [waiting EXCEPT ![queue[pos]] = FALSE]
    /\ queue' = RemoveAt(queue, pos)
    /\ linked' = linked \ {queue[pos]}
    /\ cur' = [cur EXCEPT ![t] = queue[pos]]
    /\ qlock' = None
    /\ UNCHANGED <<pos, ready, blocking, posted, stopReq>>

\* wakeupAll links the waiter into its own list and goes on, lock held.
WakeMore(t) ==
    /\ AtWaiter(t)
    /\ waiting' = [waiting EXCEPT ![queue[pos]] = FALSE]
    /\ queue' = RemoveAt(queue, pos)
    /\ ready' = [ready EXCEPT ![t] = Append(@, queue[pos])]
    /\ UNCHANGED <<pc, qlock, pos, cur, linked, blocking, posted, stopReq>>

\* onWakeupRaw() is false: on to the next waiter.
Skip(t) ==
    /\ AtWaiter(t)
    /\ pos' = pos + 1
    /\ UNCHANGED <<pc, queue, qlock, ready, cur, linked, waiting, blocking, posted,
                   stopReq>>

\* The end of the list: unlock.
ScanEnd(t, after) ==
    /\ pos \notin DOMAIN queue
    /\ GoTo(t, "scan", IF ready[t] = <<>> THEN after ELSE "pick")
    /\ qlock' = None
    /\ UNCHANGED <<queue, pos, ready, cur, linked, waiting, blocking, posted, stopReq>>

\* while (!ready.empty()) ready.front()
Pick(t, after) ==
    /\ IF ready[t] = <<>>
         THEN GoTo(t, "pick", after) /\ UNCHANGED cur
         ELSE GoTo(t, "pick", "resume") /\ cur' = [cur EXCEPT ![t] = Head(ready[t])]
    /\ UNCHANGED <<queue, qlock, pos, ready, linked, waiting, blocking, posted, stopReq>>

\* ready.pop_front() unlinks whatever is in front by now; where a stop took cur
\* away in between, a race on the list, the build may also have kept the front it
\* read before and unlink cur again, which does nothing.
PopFront(t) ==
    \/ /\ ready[t] # <<>>
       /\ ready' = [ready EXCEPT ![t] = Tail(@)]
       /\ linked' = linked \ {Head(ready[t])}
    \/ /\ ready[t] # <<>> => Head(ready[t]) # cur[t]
       /\ UNCHANGED <<ready, linked>>

\* The front is popped (wakeupOne has no list) and resume()d: the thread that
\* blocks on it goes on, or the coroutine is scheduled.
Resume(t, after) ==
    LET w == cur[t] IN
    /\ PopFront(t)
    /\ GoTo(t, "resume", IF ready'[t] = <<>> THEN after ELSE "pick")
    /\ cur' = [cur EXCEPT ![t] = None]
    /\ blocking' = [blocking EXCEPT ![w] = FALSE]
    /\ posted' = [posted EXCEPT ![w] = IF blocking[w] THEN @ ELSE @ + 1]
    /\ UNCHANGED <<queue, qlock, pos, waiting, stopReq>>

-----------------------------------------------------------------------------
(* What holds of the queue whatever the primitive.                         *)

WQTypeOK ==
    /\ queue \in Seq(Threads)
    /\ qlock \in Threads \cup {None}
    /\ pos \in Nat \ {0}
    /\ ready \in [Threads -> Seq(Threads)]
    /\ cur \in [Threads -> Threads \cup {None}]
    /\ linked \subseteq Threads
    /\ waiting \in [Threads -> BOOLEAN]
    /\ blocking \in [Threads -> BOOLEAN]
    /\ posted \in [Threads -> Nat]
    /\ stopReq \in [Threads -> BOOLEAN]

\* The decision about a suspended waiter fell, and it was to wake it.
Granted(t) == pc[t] \in Suspended /\ ~waiting[t]

\* A stopped coroutine is never resumed or scheduled again, and a wakeup and a
\* stop never both win (the comments at coro.hpp:69 and queue.hpp:51): nothing is
\* queued for it and no waker is about to resume it.
StoppedNotResumed ==
    \A t \in Threads : pc[t] \in {"stopSet", "stopped"} =>
        /\ posted[t] = 0
        /\ \A u \in Threads : cur[u] # t

\* A waiter object is destroyed (its coroutine resumed or stopped, its thread
\* unblocked) only when no list holds it: ~WaiterBase asserts !isLinked().
NodesOutliveLinks ==
    \A t \in Threads : t \in linked => pc[t] \in Suspended
=============================================================================
