-------------------------------- MODULE Mutex --------------------------------
(***************************************************************************)
(* ilias::Mutex (sync/mutex.hpp): an atomic flag and a wait queue whose    *)
(* predicate is tryLock(), so that the lock changes hands inside the scan  *)
(* of wakeupOne().  MutexGuard and Locked<T> add nothing but RAII.         *)
(***************************************************************************)
EXTENDS WaitQueue

VARIABLE mLocked

mutexVars == <<wqVars, mLocked, left>>

MutexLocations == WQLocations \cup {"owner"}

MutexInit ==
    /\ WQInit
    /\ mLocked = FALSE
    /\ left = [t \in Threads |-> Rounds]

\* Mutant: a store instead of the compare_exchange.
TryLockStores(t) ==
    /\ Call(t)
    /\ mLocked' = TRUE
    /\ GoTo(t, "out", "owner")
    /\ UNCHANGED <<queue, qlock, pos, ready, cur, linked, waiting, blocking,
                   posted, stopReq>>

\* tryLock(): the compare_exchange succeeds or returns nullopt.
TryLock(t) ==
    /\ Call(t)
    /\ \/ ~mLocked /\ mLocked' = TRUE /\ GoTo(t, "out", "owner")
       \/ mLocked /\ UNCHANGED <<mLocked, pc>>
    /\ UNCHANGED <<queue, qlock, pos, ready, cur, linked, waiting, blocking,
                   posted, stopReq>>

\* lock() and blockingLock(), up to the lock of the queue.  blockingWait tries
\* the predicate once before, without the lock.
Lock(t) ==
    /\ Call(t)
    /\ t \in Plain => mLocked
    /\ Construct(t)
    /\ UNCHANGED mLocked

\* The predicate under the lock of the queue: onWakeup().
LockNow(t) ==
    /\ ~mLocked
    /\ mLocked' = TRUE
    /\ DontSuspend(t, "owner")
    /\ UNCHANGED left

\* Mutant: the predicate is not evaluated again under the lock.
LockWaitUnchecked(t) == Park(t) /\ UNCHANGED <<mLocked, left>>

LockWait(t) ==
    /\ mLocked
    /\ Park(t)
    /\ UNCHANGED <<mLocked, left>>

\* await_resume(), or the end of blockingLock(): onWakeup() took the lock.
Locked(t) ==
    /\ Resumed(t, "owner") \/ Unblocked(t, "owner")
    /\ UNCHANGED <<mLocked, left>>

\* Mutant: the lock is released and nobody is woken.
UnlockSilently(t) ==
    /\ GoTo(t, "owner", "out")
    /\ mLocked' = FALSE
    /\ UNCHANGED <<queue, qlock, pos, ready, cur, linked, waiting, blocking,
                   posted, stopReq, left>>

\* unlockRaw(): the exchange; wakeupOne() follows.
Unlock(t) ==
    /\ GoTo(t, "owner", "wake")
    /\ mLocked' = FALSE
    /\ UNCHANGED <<queue, qlock, pos, ready, cur, linked, waiting, blocking,
                   posted, stopReq, left>>

\* Mutant: the predicate finds the lock free and does not take it.
WakeHitWithoutLock(t) == ~mLocked /\ WakeOne(t) /\ UNCHANGED <<mLocked, left>>

MutexWakeHit(t) ==
    /\ ~mLocked
    /\ mLocked' = TRUE
    /\ WakeOne(t)
    /\ UNCHANGED left

MutexWakeMiss(t) ==
    /\ mLocked
    /\ Skip(t)
    /\ UNCHANGED <<mLocked, left>>

\* The steps that leave the flag alone.
MutexQueueStep(t) ==
    /\ \/ RegisterStop(t)
       \/ StopRead(t)
       \/ StopLock(t)
       \/ StopUnlink(t)
       \/ SetStopped(t)
       \/ WakeLock(t)
       \/ ScanEnd(t, "out")
       \/ Resume(t, "out")
    /\ UNCHANGED <<mLocked, left>>

MutexStop(t) == StopRequest(t, {"out", "owner"}) /\ UNCHANGED <<mLocked, left>>

MutexStep(t) ==
    \/ TryLock(t) \/ Lock(t) \/ LockNow(t) \/ LockWait(t) \/ Locked(t)
    \/ Unlock(t) \/ MutexWakeHit(t) \/ MutexWakeMiss(t) \/ MutexQueueStep(t)

MutexFinished == \A t \in Threads : pc[t] = "stopped" \/ (pc[t] = "out" /\ left[t] = 0)

MutexNext ==
    \/ \E t \in Threads : MutexStep(t) \/ MutexStop(t)
    \/ MutexFinished /\ UNCHANGED mutexVars

MutexSpec == MutexInit /\ [][MutexNext]_mutexVars

\* A thread that can run does.  Nothing makes anyone request a stop.
MutexFairSpec == MutexSpec /\ \A t \in Threads : WF_mutexVars(MutexStep(t))

-----------------------------------------------------------------------------
MutexTypeOK ==
    /\ WQTypeOK
    /\ pc \in [Threads -> MutexLocations]
    /\ mLocked \in BOOLEAN
    /\ left \in [Threads -> 0..Rounds]

\* The owners, those included to whom a waker has given the lock and that have
\* not run yet.
Owns(t) == pc[t] = "owner" \/ Granted(t)

\* mLocked is set exactly while one actor owns the lock: two never do, and a
\* lock handed to a waiter is neither lost nor given twice, whatever stop request
\* comes between (mutex.hpp:117-121, sync.cpp:73-124).
OneOwner ==
    /\ \A s, t \in Threads : Owns(s) /\ Owns(t) => s = t
    /\ mLocked <=> \E t \in Threads : Owns(t)

\* No lost wakeup: the lock is free and waiters are queued only while a thread
\* that unlocked has yet to lock the queue or to test its first waiter
\* (mutex.hpp:118-120: the flag is cleared outside the queue's lock).
MutexNoLostWakeup ==
    ~mLocked /\ queue # <<>> =>
        \E t \in Threads : pc[t] = "wake" \/ (pc[t] = "scan" /\ pos = 1)

\* Every call comes to its end, by the lock or by a stop: no actor waits forever
\* on the queue, on its lock or on its executor.
MutexAllFinish == <>[]MutexFinished

MutexWanting(t) == pc[t] = "suspend" \/ (pc[t] \in Suspended /\ waiting[t])

MutexPermits == INSTANCE Permits WITH
    Clients <- Threads,
    free    <- IF mLocked THEN 0 ELSE 1,
    wanting <- {t \in Threads : MutexWanting(t)},
    holders <- {t \in Threads : Owns(t)}

\* The mutex implements the single permit of module Permits.
MutexImplementsPermits == MutexPermits!MutexSpec /\ MutexPermits!Fairness
=============================================================================
