------------------------------ MODULE Semaphore ------------------------------
(***************************************************************************)
(* ilias::Semaphore (sync/semaphore.hpp): an atomic count and a wait queue *)
(* whose predicate takes a permit.  release() wakes one waiter, and        *)
(* addPremits(n) calls wakeupOne() n times after one fetch_add(n).         *)
(***************************************************************************)
EXTENDS WaitQueue, FiniteSets

CONSTANTS Permits,  \* the count the semaphore is built with
          MaxAdd    \* the most permits one addPremits() adds

ASSUME SemaphoreAssumption ==
    /\ Permits \in Nat
    /\ MaxAdd \in Nat \ {0}
    /\ IsFiniteSet(Threads)

VARIABLES mCount,
          todo,     \* wakeupOne() calls the actor makes after the current one
          total     \* history: the permits the semaphore was ever given

semaphoreVars == <<wqVars, mCount, todo, total, left>>

SemaphoreLocations == WQLocations \cup {"holder"}

SemaphoreInit ==
    /\ WQInit
    /\ mCount = Permits
    /\ todo = [t \in Threads |-> 0]
    /\ total = Permits
    /\ left = [t \in Threads |-> Rounds]

Take == mCount > 0 /\ mCount' = mCount - 1

\* tryAcquire(): its compare_exchange loop ends with a permit or at zero.
\* acquire() and blockingAcquire() begin with it (await_ready, the fast path of
\* blockingWait) and go on to the queue at zero.
TryAcquire(t) ==
    /\ Call(t)
    /\ \/ Take /\ GoTo(t, "out", "holder")
       \/ mCount = 0 /\ UNCHANGED <<mCount, pc>>
    /\ UNCHANGED <<queue, qlock, pos, ready, cur, linked, waiting, blocking,
                   posted, stopReq, todo, total>>

Acquire(t) ==
    /\ Call(t)
    /\ mCount = 0
    /\ Construct(t)
    /\ UNCHANGED <<mCount, todo, total>>

\* tryAcquireInternal() under the lock of the queue.
AcquireNow(t) ==
    /\ Take
    /\ DontSuspend(t, "holder")
    /\ UNCHANGED <<todo, total, left>>

AcquireWait(t) ==
    /\ mCount = 0
    /\ Park(t)
    /\ UNCHANGED <<mCount, todo, total, left>>

\* await_resume(), or the end of blockingAcquire().
Acquired(t) ==
    /\ Resumed(t, "holder") \/ Unblocked(t, "holder")
    /\ UNCHANGED <<mCount, todo, total, left>>

\* Mutant: the permit is given back and nobody is woken.
ReleaseSilently(t) ==
    /\ GoTo(t, "holder", "out")
    /\ mCount' = mCount + 1
    /\ UNCHANGED <<queue, qlock, pos, ready, cur, linked, waiting, blocking,
                   posted, stopReq, todo, total, left>>

\* releaseRaw(), by a permit's destructor.
Release(t) ==
    /\ GoTo(t, "holder", "wake")
    /\ mCount' = mCount + 1
    /\ UNCHANGED <<queue, qlock, pos, ready, cur, linked, waiting, blocking,
                   posted, stopReq, todo, total, left>>

\* Mutant: one wakeup for all the permits added.
AddPremitsWakesOne(t, n) ==
    /\ Call(t)
    /\ GoTo(t, "out", "wake")
    /\ mCount' = mCount + n
    /\ total' = total + n
    /\ todo' = [todo EXCEPT ![t] = 0]
    /\ UNCHANGED <<queue, qlock, pos, ready, cur, linked, waiting, blocking,
                   posted, stopReq>>

\* addPremits(n), by an actor that holds no permit.
AddPremits(t, n) ==
    /\ Call(t)
    /\ GoTo(t, "out", "wake")
    /\ mCount' = mCount + n
    /\ total' = total + n
    /\ todo' = [todo EXCEPT ![t] = n - 1]
    /\ UNCHANGED <<queue, qlock, pos, ready, cur, linked, waiting, blocking,
                   posted, stopReq>>

\* Mutant: the waker sees a permit and does not take it for the waiter.
WakeHitWithoutTake(t) ==
    /\ mCount > 0
    /\ WakeOne(t)
    /\ UNCHANGED <<mCount, todo, total, left>>

SemaphoreWakeHit(t) ==
    /\ Take
    /\ WakeOne(t)
    /\ UNCHANGED <<todo, total, left>>

SemaphoreWakeMiss(t) ==
    /\ mCount = 0
    /\ Skip(t)
    /\ UNCHANGED <<mCount, todo, total, left>>

\* wakeupOne() returns: into the loop of addPremits, or to the caller.
Return(t) ==
    /\ IF todo[t] > 0
         THEN ScanEnd(t, "wake") \/ Resume(t, "wake")
         ELSE ScanEnd(t, "out") \/ Resume(t, "out")
    /\ todo' = [todo EXCEPT ![t] = IF @ > 0 THEN @ - 1 ELSE 0]
    /\ UNCHANGED <<mCount, total, left>>

\* The steps that leave the count alone.
SemaphoreQueueStep(t) ==
    /\ \/ RegisterStop(t)
       \/ StopRead(t)
       \/ StopLock(t)
       \/ StopUnlink(t)
       \/ SetStopped(t)
       \/ WakeLock(t)
    /\ UNCHANGED <<mCount, todo, total, left>>

SemaphoreStop(t) ==
    /\ StopRequest(t, {"out", "holder"})
    /\ UNCHANGED <<mCount, todo, total, left>>

SemaphoreStep(t) ==
    \/ TryAcquire(t) \/ Acquire(t) \/ AcquireNow(t) \/ AcquireWait(t)
    \/ Acquired(t) \/ Release(t) \/ SemaphoreWakeHit(t) \/ SemaphoreWakeMiss(t) \/ Return(t)
    \/ SemaphoreQueueStep(t)
    \/ \E n \in 1..MaxAdd : AddPremits(t, n)

\* Everyone made its calls.  A semaphore may end with waiters that nobody will
\* give a permit.
SemaphoreFinished ==
    \A t \in Threads : \/ pc[t] = "stopped"
                       \/ pc[t] = "out" /\ left[t] = 0
                       \/ pc[t] \in {"wait", "blocked"} /\ waiting[t] /\ mCount = 0

SemaphoreNext ==
    \/ \E t \in Threads : SemaphoreStep(t) \/ SemaphoreStop(t)
    \/ SemaphoreFinished /\ UNCHANGED semaphoreVars

SemaphoreSpec == SemaphoreInit /\ [][SemaphoreNext]_semaphoreVars

\* A thread that can run does.
SemaphoreFairSpec == SemaphoreSpec /\ \A t \in Threads : WF_semaphoreVars(SemaphoreStep(t))

-----------------------------------------------------------------------------
SemaphoreTypeOK ==
    /\ WQTypeOK
    /\ pc \in [Threads -> SemaphoreLocations]
    /\ mCount \in Nat
    /\ todo \in [Threads -> 0..(MaxAdd - 1)]
    /\ total \in Nat
    /\ left \in [Threads -> 0..Rounds]

\* Who holds a permit: also a waiter a waker took one for and that has not run yet.
Holds(t) == pc[t] = "holder" \/ Granted(t)

Holders == {t \in Threads : Holds(t)}

\* No permit is lost or made: the free ones and the held ones are all there ever
\* were, through hand-overs in a waker's scan and stops that race with them
\* (semaphore.hpp:57-59, 126-133).
PermitsConserved == mCount + Cardinality(Holders) = total

\* The tests of a first waiter that t still owes for the permits it released.
Debt(t) ==
    CASE pc[t] = "wake" -> todo[t] + 1
      [] pc[t] = "scan" -> todo[t] + (IF pos = 1 THEN 1 ELSE 0)
      [] pc[t] = "resume" -> todo[t]
      [] OTHER -> 0

Owed == {p \in Threads \X (1..MaxAdd) : p[2] <= Debt(p[1])}

\* No lost wakeup, counted: as many wakeups are under way as there are waiters that
\* a free permit could serve (semaphore.hpp:99-115: the count rises outside the
\* queue's lock).
EnoughWakeups ==
    \/ mCount <= Cardinality(Owed)
    \/ Len(queue) <= Cardinality(Owed)

\* Every call comes to its end, but for waiters that no permit is left for.
SemaphoreAllFinish == <>[]SemaphoreFinished

SemaphoreWanting(t) == pc[t] = "suspend" \/ (pc[t] \in Suspended /\ waiting[t])

SemaphorePermits == INSTANCE Permits WITH
    Clients <- Threads,
    free    <- mCount,
    wanting <- {t \in Threads : SemaphoreWanting(t)},
    holders <- Holders

\* The semaphore implements the permits of module Permits.
SemaphoreImplementsPermits == SemaphorePermits!SemaphoreSpec /\ SemaphorePermits!Fairness
=============================================================================
