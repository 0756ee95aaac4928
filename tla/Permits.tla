------------------------------- MODULE Permits -------------------------------
(***************************************************************************)
(* What ilias::Mutex and ilias::Semaphore promise, without a queue: a      *)
(* number of free permits, the clients that asked for one and those that   *)
(* hold one.  A mutex is the case of a single permit.                      *)
(***************************************************************************)
EXTENDS Naturals

CONSTANT Clients

VARIABLES free, wanting, holders

vars == <<free, wanting, holders>>

\* lock() / acquire()
Want(c) ==
    /\ c \notin wanting \cup holders
    /\ wanting' = wanting \cup {c}
    /\ UNCHANGED <<free, holders>>

\* A request is granted; a tryLock() / tryAcquire() takes without one.
Acquire(c) ==
    /\ c \notin holders
    /\ free > 0
    /\ free' = free - 1
    /\ holders' = holders \cup {c}
    /\ wanting' = wanting \ {c}

\* A stop request answered a request.  A permit never leaves with it.
GiveUp(c) ==
    /\ c \in wanting
    /\ wanting' = wanting \ {c}
    /\ UNCHANGED <<free, holders>>

\* unlock() / release()
Release(c) ==
    /\ c \in holders
    /\ holders' = holders \ {c}
    /\ free' = free + 1
    /\ UNCHANGED wanting

\* addPermits(n)
Add == free' \in {n \in Nat : n > free} /\ UNCHANGED <<wanting, holders>>

AnyAcquire == \E c \in wanting : Acquire(c)

MutexNext == \E c \in Clients : Want(c) \/ Acquire(c) \/ GiveUp(c) \/ Release(c)

SemaphoreNext == MutexNext \/ Add

MutexInit == free = 1 /\ wanting = {} /\ holders = {}

SemaphoreInit == free \in Nat /\ wanting = {} /\ holders = {}

MutexSpec == MutexInit /\ [][MutexNext]_vars

SemaphoreSpec == SemaphoreInit /\ [][SemaphoreNext]_vars

\* A free permit that somebody wants does not stay free.
Fairness == WF_vars(AnyAcquire)
=============================================================================
