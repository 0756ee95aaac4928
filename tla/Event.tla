-------------------------------- MODULE Event --------------------------------
(***************************************************************************)
(* ilias::Event and ilias::Latch (sync/event.hpp, sync/latch.hpp): the     *)
(* primitives that wake many waiters at once.  An event is set, cleared,   *)
(* and in its AutoClear mode cleared by the one waiter it wakes; a latch   *)
(* is set once, by the last of its counts, and for good.                   *)
(***************************************************************************)
EXTENDS WaitQueue

CONSTANT Count      \* the latch's count

ASSUME EventAssumption == Count \in Nat \ {0}

VARIABLES kind,     \* "event", "autoclear" or "latch", fixed when it is built
          mIsSet,   \* of an event; of a latch: mLatchCount == 0
          mLatchCount   \* mCount of a latch

eventVars == <<wqVars, kind, mIsSet, mLatchCount, left>>

Kinds == {"event", "autoclear", "latch"}

EventInit ==
    /\ WQInit
    /\ kind \in Kinds
    /\ mIsSet \in BOOLEAN
    /\ kind = "latch" => ~mIsSet
    /\ mLatchCount = Count
    /\ left = [t \in Threads |-> Rounds]

EventCall(t) == Call(t) /\ UNCHANGED kind

NoCall == UNCHANGED <<kind, mLatchCount, left>>

\* tryWait(): an AutoClear event is cleared by the exchange that finds it set.
TakeSignal == mIsSet /\ mIsSet' = (kind # "autoclear")

\* tryWait(), and the waits that succeed before they reach the queue: await_ready
\* of a latch and the fast path of blockingWait.
TryWait(t) ==
    /\ EventCall(t)
    /\ TakeSignal \/ (~mIsSet /\ UNCHANGED mIsSet)
    /\ UNCHANGED <<wqVars, mLatchCount>>

\* wait() and blockingWait(), up to the lock of the queue.
Wait(t) ==
    /\ EventCall(t)
    /\ t \in Plain \/ kind = "latch" => ~mIsSet
    /\ Construct(t)
    /\ UNCHANGED <<mIsSet, mLatchCount>>

WaitNow(t) == TakeSignal /\ DontSuspend(t, "out") /\ NoCall

\* Mutant: the flag is not looked at again under the lock.
SuspendUnchecked(t) == Park(t) /\ UNCHANGED mIsSet /\ NoCall

Suspend(t) == ~mIsSet /\ Park(t) /\ UNCHANGED mIsSet /\ NoCall

\* set(): only the exchange that turns the flag on goes on to the queue.
Set(t) ==
    /\ kind # "latch"
    /\ EventCall(t)
    /\ mIsSet' = TRUE
    /\ IF mIsSet THEN UNCHANGED pc ELSE GoTo(t, "out", "wake")
    /\ UNCHANGED <<queue, qlock, pos, ready, cur, linked, waiting, blocking,
                   posted, stopReq, mLatchCount>>

Clear(t) ==
    /\ kind # "latch"
    /\ EventCall(t)
    /\ mIsSet' = FALSE
    /\ UNCHANGED <<wqVars, mLatchCount>>

\* countDown(n): the count that reaches zero goes on to the queue.
CountDown(t) ==
    /\ kind = "latch"
    /\ mLatchCount > 0
    /\ EventCall(t)
    /\ \E n \in 1..mLatchCount : mLatchCount' = mLatchCount - n
    /\ mIsSet' = (mLatchCount' = 0)
    /\ IF mLatchCount' = 0 THEN GoTo(t, "out", "wake") ELSE UNCHANGED pc
    /\ UNCHANGED <<queue, qlock, pos, ready, cur, linked, waiting, blocking,
                   posted, stopReq>>

\* Mutant: wakeupOne() whatever the event's mode.
WakeHitOne(t) == TakeSignal /\ WakeOne(t) /\ NoCall

\* onWakeupRaw() is true: wakeupOne() for an AutoClear event, else wakeupAll().
EventWakeHit(t) ==
    /\ TakeSignal
    /\ IF kind = "autoclear" THEN WakeOne(t) ELSE WakeMore(t)
    /\ NoCall

EventWakeMiss(t) == ~mIsSet /\ Skip(t) /\ UNCHANGED mIsSet /\ NoCall

EventQueueStep(t) ==
    /\ \/ RegisterStop(t)
       \/ StopRead(t)
       \/ StopLock(t)
       \/ StopUnlink(t)
       \/ SetStopped(t)
       \/ WakeLock(t)
       \/ ScanEnd(t, "out")
       \/ Pick(t, "out")
       \/ Resume(t, "out")
       \/ Resumed(t, "out")
       \/ Unblocked(t, "out")
    /\ UNCHANGED mIsSet
    /\ NoCall

EventStop(t) == StopRequest(t, {"out"}) /\ UNCHANGED mIsSet /\ NoCall

EventStep(t) ==
    \/ TryWait(t) \/ Wait(t) \/ WaitNow(t) \/ Suspend(t) \/ Set(t) \/ Clear(t)
    \/ CountDown(t) \/ EventWakeHit(t) \/ EventWakeMiss(t) \/ EventQueueStep(t)

\* Everyone made its calls, but for those that wait for what is not signalled.
EventFinished ==
    \A t \in Threads : \/ pc[t] = "stopped"
                       \/ pc[t] = "out" /\ left[t] = 0
                       \/ pc[t] \in {"wait", "blocked"} /\ waiting[t] /\ ~mIsSet

EventNext ==
    \/ \E t \in Threads : EventStep(t) \/ EventStop(t)
    \/ EventFinished /\ UNCHANGED eventVars

EventSpec == EventInit /\ [][EventNext]_eventVars

\* A thread that can run does.
EventFairSpec == EventSpec /\ \A t \in Threads : WF_eventVars(EventStep(t))

-----------------------------------------------------------------------------
EventTypeOK ==
    /\ WQTypeOK
    /\ pc \in [Threads -> WQLocations]
    /\ kind \in Kinds
    /\ mIsSet \in BOOLEAN
    /\ mLatchCount \in 0..Count
    /\ left \in [Threads -> 0..Rounds]

\* No lost wakeup: while the signal is on, waiters stay queued only if the thread
\* that turned it on has yet to lock the queue, or has not yet found it off in its
\* scan (event.hpp:79-89 and latch.hpp:56-63 turn it on outside the queue's lock).
EventNoLostWakeup ==
    mIsSet /\ queue # <<>> =>
        \E t \in Threads : pc[t] = "wake" \/ (pc[t] = "scan" /\ pos = 1)

\* wakeupOne settles a wakeup against a stop for good; wakeupAll does not, see
\* StoppedNotResumed.
AutoClearStopIsFinal == kind = "autoclear" => StoppedNotResumed

\* Every wait comes to its end once its signal is on.  With wakeupAll this holds only
\* as long as nobody stops: a stop can take a waiter out of wakeupAll's own list.
EventAllFinish ==
    (kind = "autoclear" \/ [](\A t \in Threads : ~stopReq[t])) => <>[]EventFinished
=============================================================================
