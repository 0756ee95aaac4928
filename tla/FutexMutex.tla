------------------------------ MODULE FutexMutex ------------------------------
(***************************************************************************)
(* FutexMutex (sync/detail/futex.hpp): the lock inside the wait queue and  *)
(* the oneshot channel, one atomic state and the atomic's wait and notify. *)
(* A thread's local expected is what it last saw; the steps are the atomic *)
(* operations.                                                             *)
(***************************************************************************)
EXTENDS Naturals

CONSTANTS Threads, Calls   \* Calls bounds how often each thread locks

VARIABLES
    mState,    \* "Unlocked", "Locked", "LockedWithWaiters"
    pc,        \* where a thread is
    expected,  \* its local variable
    calls      \* lock() calls it has made

vars == <<mState, pc, expected, calls>>

Init ==
    /\ mState = "Unlocked"
    /\ pc = [t \in Threads |-> "out"]
    /\ expected = [t \in Threads |-> "Unlocked"]
    /\ calls = [t \in Threads |-> 0]

\* compare_exchange_weak of old by new: it may fail without a reason, and
\* leaves in expected what it found.
CompareExchange(t, old, new, then, else) ==
    \/ /\ mState = old
       /\ mState' = new
       /\ pc' = [pc EXCEPT ![t] = then]
       /\ expected' = [expected EXCEPT ![t] = new]
    \/ /\ pc' = [pc EXCEPT ![t] = else]
       /\ expected' = [expected EXCEPT ![t] = mState]
       /\ UNCHANGED mState

\* lock(): the call, ...
Lock(t) ==
    /\ pc[t] = "out" /\ calls[t] < Calls
    /\ pc' = [pc EXCEPT ![t] = "try"]
    /\ calls' = [calls EXCEPT ![t] = @ + 1]
    /\ UNCHANGED <<mState, expected>>

\* Mutant: whoever has waited takes the lock without looking.
TryAnyway(t) ==
    /\ pc[t] = "try"
    /\ IF expected[t] = "LockedWithWaiters"
       THEN pc' = [pc EXCEPT ![t] = "in"] /\ mState' = "Locked" /\ UNCHANGED expected
       ELSE CompareExchange(t, "Unlocked", "Locked", "in", "mark")
    /\ UNCHANGED calls

\* ... the fast path and each try again, ...
Try(t) ==
    /\ pc[t] = "try"
    /\ CompareExchange(t, "Unlocked", "Locked", "in", "mark")
    /\ UNCHANGED calls

\* ... the mark, set only by who saw it locked, ...
Mark(t) ==
    /\ pc[t] = "mark"
    /\ UNCHANGED calls
    /\ IF expected[t] = "Locked"
       THEN CompareExchange(t, "Locked", "LockedWithWaiters", "wait", "wait")
       ELSE pc' = [pc EXCEPT ![t] = "wait"] /\ UNCHANGED <<mState, expected>>

\* ... and the wait, which compares and sleeps in one step.
Wait(t) ==
    /\ pc[t] = "wait"
    /\ pc' = [pc EXCEPT ![t] = IF expected[t] = "LockedWithWaiters" /\ mState = expected[t]
                               THEN "asleep" ELSE "try"]
    /\ UNCHANGED <<mState, expected, calls>>

\* unlock(): the exchange, ...
Unlock(t) ==
    /\ pc[t] = "in"
    /\ mState' = "Unlocked"
    /\ pc' = [pc EXCEPT ![t] = IF mState = "LockedWithWaiters" THEN "notify" ELSE "out"]
    /\ UNCHANGED <<expected, calls>>

\* Mutant: notify_one.
NotifyOne(t) ==
    /\ pc[t] = "notify"
    /\ \/ /\ \A u \in Threads : pc[u] # "asleep"
          /\ pc' = [pc EXCEPT ![t] = "out"]
       \/ \E u \in Threads :
              /\ pc[u] = "asleep"
              /\ pc' = [pc EXCEPT ![t] = "out", ![u] = "wait"]
    /\ UNCHANGED <<mState, expected, calls>>

\* ... and notify_all: each sleeper compares again.
NotifyAll(t) ==
    /\ pc[t] = "notify"
    /\ pc' = [u \in Threads |-> IF u = t THEN "out"
                                ELSE IF pc[u] = "asleep" THEN "wait" ELSE pc[u]]
    /\ UNCHANGED <<mState, expected, calls>>

Next == \E t \in Threads :
            Lock(t) \/ Try(t) \/ Mark(t) \/ Wait(t) \/ Unlock(t) \/ NotifyAll(t)

-----------------------------------------------------------------------------
(* Whoever sleeps is about to be told: the mark is set, and the owner will *)
(* notify, or somebody is about to (futex.hpp:56-66).  The state is        *)
(* unlocked exactly when nobody owns the lock, and one thread owns it.     *)
SleepersMarked ==
    /\ (\E t \in Threads : pc[t] = "asleep") =>
           \/ mState = "LockedWithWaiters"
           \/ \E t \in Threads : pc[t] = "notify"
    /\ (mState = "Unlocked") = (\A t \in Threads : pc[t] # "in")
    /\ \A t, u \in Threads : pc[t] = "in" /\ pc[u] = "in" => t = u

\* The types, which the theorem about SleepersMarked needs.
TypeOK ==
    LET States == {"Unlocked", "Locked", "LockedWithWaiters"}
    IN  /\ mState \in States
        /\ pc \in [Threads -> {"out", "try", "mark", "wait", "asleep", "in", "notify"}]
        /\ expected \in [Threads -> States]

(* The lock is a single permit (module Permits).                           *)
permits == INSTANCE Permits WITH
    Clients <- Threads,
    free    <- IF mState = "Unlocked" THEN 1 ELSE 0,
    wanting <- {t \in Threads : pc[t] \in {"try", "mark", "wait", "asleep"}},
    holders <- {t \in Threads : pc[t] = "in"}
=============================================================================
