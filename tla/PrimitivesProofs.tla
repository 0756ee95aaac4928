--------------------------- MODULE PrimitivesProofs ---------------------------
(***************************************************************************)
(* Theorems of modules Mutex, Semaphore and Event, for any number of       *)
(* actors, permits, counts and calls.                                      *)
(***************************************************************************)
EXTENDS Mutex, Semaphore, Event, WaitQueueProofs

-----------------------------------------------------------------------------
(* The mutex.                                                              *)

\* OneOwner is not inductive alone: that a stop never takes a waiter that owns the
\* lock already, and that whoever goes on owns it, is in WQInv.  MutexNoLostWakeup needs
\* LockInv, which lets one scan at a time move pos.
MutexIInv == MutexTypeOK /\ WQInv /\ OneOwner /\ MutexNoLostWakeup

LEMMA MutexInitIInv == MutexInit => MutexIInv
  <1> SUFFICES ASSUME MutexInit PROVE MutexIInv
    OBVIOUS
  <1> USE DEF MutexInit, WQInit
  <1>1. WQInv
    BY WQInvInit
  <1>2. MutexTypeOK
    <2>1. pc \in [Threads -> MutexLocations]
      BY DEF MutexLocations, WQLocations
    <2>2. left \in [Threads -> 0..Rounds]
      BY RoundsAssumption
    <2>3. QED
      BY <1>1, <2>1, <2>2 DEF WQInv, MutexTypeOK
  <1>3. OneOwner
    BY DEF OneOwner, Owns, Granted, Suspended
  <1>4. MutexNoLostWakeup
    BY DEF MutexNoLostWakeup
  <1>5. QED
    BY <1>1, <1>2, <1>3, <1>4 DEF MutexIInv

-----------------------------------------------------------------------------
(* The wait queue's invariant, and with it the types of its state.         *)

LEMMA MutexOutsideGuarded == {"out", "owner", "wake", "stopSet", "stopped"} \cap Guarded = {}
  BY DEF Guarded, Suspended

LEMMA MutexStepWQInv ==
    ASSUME MutexTypeOK, WQInv, NEW t \in Threads, MutexStep(t) \/ MutexStop(t)
    PROVE  WQInv'
  <1> USE MutexOutsideGuarded DEF MutexTypeOK
  <1>1. CASE TryLock(t)
    <2>1. CASE GoTo(t, "out", "owner")
      BY <1>1, <2>1, MoveInv DEF TryLock
    <2>2. CASE UNCHANGED pc
      <3>1. UNCHANGED wqVars
        BY <1>1, <2>2 DEF TryLock, wqVars
      <3>2. QED
        BY <3>1 DEF wqVars, WQInv, WQTypeOK, LockInv, ListInv, WaiterInv,
                    ResumeInv, Granted
    <2>3. QED
      BY <1>1, <2>1, <2>2 DEF TryLock
  <1>2. CASE Lock(t)
    BY <1>2, ConstructInv DEF Lock, Call
  <1>3. CASE LockNow(t)
    BY <1>3, DontSuspendInv DEF LockNow
  <1>4. CASE LockWait(t)
    BY <1>4, ParkInv DEF LockWait
  <1>5. CASE Locked(t)
    BY <1>5, ResumedInv, UnblockedInv DEF Locked
  <1>6. CASE Unlock(t)
    BY <1>6, MoveInv DEF Unlock
  <1>7. CASE MutexWakeHit(t)
    BY <1>7, WakeOneInv DEF MutexWakeHit
  <1>8. CASE MutexWakeMiss(t)
    BY <1>8, SkipInv DEF MutexWakeMiss
  <1>9. CASE MutexQueueStep(t)
    BY <1>9, RegisterStopInv, StopReadInv, StopLockInv, StopUnlinkInv, SetStoppedInv,
       WakeLockInv, ScanEndInv, ResumeStepInv
       DEF MutexQueueStep
  <1>10. CASE MutexStop(t)
    BY <1>10, StopRequestInv DEF MutexStop
  <1>11. QED
    BY <1>1, <1>2, <1>3, <1>4, <1>5, <1>6, <1>7, <1>8, <1>9, <1>10 DEF MutexStep

\* Where a step may leave an actor.
LEMMA MutexStepMoves ==
    ASSUME MutexTypeOK, WQInv, NEW t \in Threads, MutexStep(t) \/ MutexStop(t)
    PROVE  \E to \in MutexLocations : pc' = [pc EXCEPT ![t] = to]
  <1> USE DEF GoTo, MutexLocations, WQLocations, Suspended
  <1>1. CASE UNCHANGED pc
    <2>1. pc' = [pc EXCEPT ![t] = pc[t]]
      BY <1>1 DEF MutexTypeOK
    <2>2. QED
      BY <2>1 DEF MutexTypeOK
  <1>2. CASE MutexQueueStep(t)
    <2>1. CASE Resume(t, "out")
      BY <2>1, ResumeStepInv, MutexOutsideGuarded DEF MutexTypeOK
    <2>2. CASE ScanEnd(t, "out")
      BY <2>2 DEF ScanEnd, WQInv, ResumeInv
    <2>3. QED
      BY <1>2, <2>1, <2>2
         DEF MutexQueueStep, RegisterStop, StopRead, StopLock, StopUnlink, SetStopped,
             WakeLock
  <1>3. CASE MutexStep(t) /\ ~MutexQueueStep(t)
    BY <1>1, <1>3
       DEF MutexStep, TryLock, Lock, LockNow, LockWait, Locked, Unlock, MutexWakeHit,
           MutexWakeMiss,
           Call, Construct, DontSuspend, Park, Resumed, Unblocked, WakeOne, Skip
  <1>4. CASE MutexStop(t)
    BY <1>1, <1>4 DEF MutexStop, StopRequest
  <1>5. QED
    BY <1>2, <1>3, <1>4

LEMMA MutexStepTypeOK ==
    ASSUME MutexTypeOK, WQInv, NEW t \in Threads, MutexStep(t) \/ MutexStop(t)
    PROVE  MutexTypeOK'
  <1>1. WQTypeOK'
    BY MutexStepWQInv DEF WQInv
  <1>2. pc' \in [Threads -> MutexLocations]
    BY MutexStepMoves DEF MutexTypeOK
  <1> USE DEF MutexStep, MutexStop, TryLock, Lock, LockNow, LockWait, Locked, Unlock, MutexWakeHit,
              MutexWakeMiss, MutexQueueStep
  <1>3. mLocked' \in BOOLEAN
    BY DEF MutexTypeOK
  <1>4. left' = left \/ Call(t)
    OBVIOUS
  <1>5. left' \in [Threads -> 0..Rounds]
    BY <1>4, RoundsAssumption DEF MutexTypeOK, Call
  <1>6. QED
    BY <1>1, <1>2, <1>3, <1>5 DEF MutexTypeOK

-----------------------------------------------------------------------------
(* What a step does to the owners and to those that want the lock: one     *)
(* thing of Permits, or nothing.                                           *)

SameOwners == UNCHANGED mLocked /\ \A u \in Threads : Owns(u)' <=> Owns(u)

MutexSameWanting == \A u \in Threads : MutexWanting(u)' <=> MutexWanting(u)

MutexNoLongerWants(x) == \A u \in Threads : MutexWanting(u)' <=> u # x /\ MutexWanting(u)

MutexAsks(x) ==
    /\ ~MutexWanting(x) /\ ~Owns(x)
    /\ SameOwners
    /\ \A u \in Threads : MutexWanting(u)' <=> u = x \/ MutexWanting(u)

MutexGivesUp(x) == MutexWanting(x) /\ SameOwners /\ MutexNoLongerWants(x)

MutexTakes(x) ==
    /\ ~mLocked /\ mLocked' = TRUE
    /\ \A u \in Threads : Owns(u)' <=> u = x \/ Owns(u)
    /\ MutexNoLongerWants(x)

MutexFrees(x) ==
    /\ Owns(x)
    /\ mLocked' = FALSE
    /\ \A u \in Threads : Owns(u)' <=> u # x /\ Owns(u)
    /\ MutexSameWanting

MutexEffects ==
    \/ SameOwners /\ MutexSameWanting
    \/ \E x \in Threads : MutexAsks(x) \/ MutexGivesUp(x) \/ MutexTakes(x) \/ MutexFrees(x)

LEMMA MutexStepEffects ==
    ASSUME MutexTypeOK, WQInv, NEW t \in Threads, MutexStep(t) \/ MutexStop(t)
    PROVE  MutexEffects
  <1> USE DEF MutexTypeOK, GoTo, Owns, MutexWanting, Granted, Suspended
  <1>1. CASE TryLock(t)
    <2>1. CASE UNCHANGED pc
      BY <1>1, <2>1 DEF TryLock, MutexEffects, SameOwners, MutexSameWanting
    <2>2. CASE ~mLocked /\ mLocked' = TRUE /\ GoTo(t, "out", "owner")
      <3>1. MutexTakes(t)
        BY <1>1, <2>2 DEF TryLock, MutexTakes, MutexNoLongerWants
      <3>2. QED
        BY <3>1 DEF MutexEffects
    <2>3. QED
      BY <1>1, <2>1, <2>2 DEF TryLock
  <1>2. CASE Lock(t)
    <2>1. MutexAsks(t)
      BY <1>2 DEF Lock, Call, Construct, MutexAsks, SameOwners, WQInv, WQTypeOK
    <2>2. QED
      BY <2>1 DEF MutexEffects
  <1>3. CASE LockNow(t)
    <2>1. MutexTakes(t)
      BY <1>3 DEF LockNow, DontSuspend, MutexTakes, MutexNoLongerWants
    <2>2. QED
      BY <2>1 DEF MutexEffects
  <1>4. CASE LockWait(t)
    <2>1. waiting[t]
      BY <1>4 DEF LockWait, Park, WQInv, WaiterInv
    <2>2. SameOwners /\ MutexSameWanting
      BY <1>4, <2>1 DEF LockWait, Park, SameOwners, MutexSameWanting
    <2>3. QED
      BY <2>2 DEF MutexEffects
  <1>5. CASE Locked(t)
    <2>1. pc[t] \in {"wait", "blocked"} /\ pc' = [pc EXCEPT ![t] = "owner"]
      BY <1>5 DEF Locked, Resumed, Unblocked
    <2>2. ~waiting[t]
      <3>1. CASE Resumed(t, "owner")
        BY <3>1 DEF Resumed, WQInv, WQTypeOK, ResumeInv
      <3>2. CASE Unblocked(t, "owner")
        BY <3>2 DEF Unblocked, WQInv, WaiterInv
      <3>3. QED
        BY <1>5, <3>1, <3>2 DEF Locked
    <2>3. UNCHANGED <<mLocked, waiting>>
      BY <1>5 DEF Locked, Resumed, Unblocked
    <2>4. SameOwners /\ MutexSameWanting
      BY <2>1, <2>2, <2>3 DEF SameOwners, MutexSameWanting
    <2>5. QED
      BY <2>4 DEF MutexEffects
  <1>6. CASE Unlock(t)
    <2>1. MutexFrees(t)
      BY <1>6 DEF Unlock, MutexFrees, MutexSameWanting
    <2>2. QED
      BY <2>1 DEF MutexEffects
  <1>7. CASE MutexWakeHit(t)
    <2> queue[pos] \in Threads /\ queue[pos] \in linked
      BY <1>7 DEF MutexWakeHit, WakeOne, AtWaiter, WQInv, WQTypeOK, ListInv
    <2>1. PICK x \in Threads :
             /\ x \in linked
             /\ waiting' = [waiting EXCEPT ![x] = FALSE]
             /\ pc' = [pc EXCEPT ![t] = "resume"]
      BY <1>7 DEF MutexWakeHit, WakeOne
    <2>2. pc[x] \in Suspended /\ pc[t] = "scan" /\ x # t
      BY <1>7, <2>1 DEF MutexWakeHit, WakeOne, WQInv, WaiterInv
    <2>3. MutexTakes(x)
      BY <1>7, <2>1, <2>2
         DEF MutexWakeHit, MutexTakes, MutexNoLongerWants, WQInv, WQTypeOK
    <2>4. QED
      BY <2>3 DEF MutexEffects
  <1>8. CASE MutexWakeMiss(t)
    BY <1>8 DEF MutexWakeMiss, Skip, MutexEffects, SameOwners, MutexSameWanting
  <1>9. CASE MutexQueueStep(t)
    <2>1. CASE StopUnlink(t)
      <3>1. waiting[t]
        BY <2>1 DEF StopUnlink, WQInv, WaiterInv
      <3>2. MutexGivesUp(t)
        BY <1>9, <2>1, <3>1
           DEF MutexQueueStep, StopUnlink, MutexGivesUp, SameOwners, MutexNoLongerWants,
               WQInv, WQTypeOK
      <3>3. QED
        BY <3>2 DEF MutexEffects
    <2>2. CASE ~StopUnlink(t)
      <3>1. UNCHANGED <<waiting, mLocked>>
        BY <1>9, <2>2
           DEF MutexQueueStep, RegisterStop, StopRead, StopLock, SetStopped, WakeLock,
               ScanEnd, Resume
      <3>2. /\ pc' = [pc EXCEPT ![t] = pc'[t]]
            /\ pc[t] \in Suspended <=> pc'[t] \in Suspended
            /\ pc[t] \notin {"owner", "suspend"} /\ pc'[t] \notin {"owner", "suspend"}
        <4>1. CASE Resume(t, "out")
          BY <4>1, ResumeStepInv, MutexOutsideGuarded DEF Resume
        <4>2. QED
          BY <1>9, <2>2, <4>1
             DEF MutexQueueStep, RegisterStop, StopRead, StopLock, SetStopped, WakeLock,
                 ScanEnd
      <3>3. SameOwners /\ MutexSameWanting
        BY <3>1, <3>2 DEF SameOwners, MutexSameWanting
      <3>4. QED
        BY <3>3 DEF MutexEffects
    <2>3. QED
      BY <2>1, <2>2
  <1>10. CASE MutexStop(t)
    BY <1>10 DEF MutexStop, StopRequest, MutexEffects, SameOwners, MutexSameWanting
  <1>11. QED
    BY <1>1, <1>2, <1>3, <1>4, <1>5, <1>6, <1>7, <1>8, <1>9, <1>10 DEF MutexStep

LEMMA EffectsOneOwner ==
    ASSUME OneOwner, MutexEffects
    PROVE  OneOwner'
  BY DEF OneOwner, MutexEffects, SameOwners, MutexAsks, MutexGivesUp, MutexTakes,
         MutexFrees

\* The flag is cleared by a thread that is on its way to the queue, and a waiter is
\* queued only while the flag is set.
LEMMA MutexStepNoLostWakeup ==
    ASSUME MutexTypeOK, WQInv, MutexNoLostWakeup, NEW t \in Threads, MutexStep(t) \/ MutexStop(t)
    PROVE  MutexNoLostWakeup'
  <1> SUFFICES ASSUME ~mLocked', queue' # <<>>
               PROVE  \E u \in Threads : pc'[u] = "wake" \/ (pc'[u] = "scan" /\ pos' = 1)
    BY DEF MutexNoLostWakeup
  <1> USE DEF MutexTypeOK, GoTo
  <1>1. CASE Unlock(t)
    BY <1>1 DEF Unlock
  <1>2. CASE WakeLock(t)
    BY <1>2 DEF WakeLock
  <1>3. CASE ~Unlock(t) /\ ~WakeLock(t)
    <2>1. ~mLocked
      BY <1>3, MutexStepEffects
         DEF MutexStep, MutexStop, TryLock, Lock, LockNow, LockWait, Locked,
                               MutexWakeHit, MutexWakeMiss, MutexQueueStep
    <2>2. ~LockWait(t) /\ ~MutexWakeHit(t) /\ ~MutexWakeMiss(t)
      BY <2>1 DEF LockWait, MutexWakeHit, MutexWakeMiss
    <2>3. queue # <<>>
      <3>1. CASE StopUnlink(t)
        BY <3>1 DEF StopUnlink, WQInv, WaiterInv, WQTypeOK, ListInv, Suspended
      <3>2. CASE ~StopUnlink(t)
        BY <1>3, <2>2, <3>2
           DEF MutexStep, MutexStop, TryLock, Lock, LockNow, Locked, MutexQueueStep,
               Construct,
               DontSuspend, Resumed, Unblocked, StopRequest, RegisterStop, StopRead,
               StopLock, SetStopped, ScanEnd, Resume
      <3>3. QED
        BY <3>1, <3>2
    <2>4. PICK u \in Threads : pc[u] = "wake" \/ (pc[u] = "scan" /\ pos = 1)
      BY <2>1, <2>3 DEF MutexNoLostWakeup
    <2>5. pos' = pos
      BY <1>3, <2>2
         DEF MutexStep, MutexStop, TryLock, Lock, LockNow, Locked, MutexQueueStep,
             Construct,
             DontSuspend, Resumed, Unblocked, StopRequest, RegisterStop, StopRead,
             StopLock, StopUnlink, SetStopped, ScanEnd, Resume
    <2>6. pc'[u] = pc[u]
      <3>1. CASE u # t
        BY <3>1, MutexStepMoves
      <3>2. CASE u = t
        <4>1. ~ScanEnd(t, "out")
          BY <2>3, <2>4, <3>2 DEF ScanEnd, WQInv, WQTypeOK
        <4>2. QED
          BY <1>3, <2>2, <2>4, <3>2, <4>1
             DEF MutexStep, MutexStop, TryLock, Lock, LockNow, Locked, MutexQueueStep,
                 Call, Construct,
                 DontSuspend, Resumed, Unblocked, StopRequest, RegisterStop, StopRead,
                 StopLock, StopUnlink, SetStopped, Resume
      <3>3. QED
        BY <3>1, <3>2
    <2>7. QED
      BY <2>4, <2>5, <2>6
  <1>4. QED
    BY <1>1, <1>2, <1>3

LEMMA MutexNextIInv == MutexIInv /\ [MutexNext]_mutexVars => MutexIInv'
  <1> SUFFICES ASSUME MutexIInv, [MutexNext]_mutexVars PROVE MutexIInv'
    OBVIOUS
  <1> USE DEF MutexIInv
  <1>1. CASE UNCHANGED mutexVars
    <2> USE <1>1 DEF mutexVars, wqVars
    <2>1. MutexTypeOK'
      BY DEF MutexTypeOK, WQTypeOK
    <2>2. OneOwner' /\ MutexNoLostWakeup'
      BY DEF OneOwner, Owns, Granted, MutexNoLostWakeup
    <2>3. WQTypeOK' /\ LockInv'
      BY DEF WQInv, WQTypeOK, LockInv
    <2>4. ListInv' /\ WaiterInv'
      BY DEF WQInv, ListInv, WaiterInv, Granted
    <2>5. ResumeInv'
      BY DEF WQInv, ResumeInv, Granted
    <2>6. QED
      BY <2>1, <2>2, <2>3, <2>4, <2>5 DEF WQInv
  <1>2. ASSUME NEW t \in Threads, MutexStep(t) \/ MutexStop(t)
        PROVE  MutexIInv'
    BY <1>2, MutexStepWQInv, MutexStepTypeOK, MutexStepEffects, EffectsOneOwner,
       MutexStepNoLostWakeup
  <1>3. QED
    BY <1>1, <1>2 DEF MutexNext

LEMMA MutexSpecIInv == MutexSpec => []MutexIInv
  BY MutexInitIInv, MutexNextIInv, PTL DEF MutexSpec

-----------------------------------------------------------------------------
\* The state of a mutex and of its queue keeps its types.
THEOREM MutexTypeCorrect == MutexSpec => []MutexTypeOK
  <1>1. MutexIInv => MutexTypeOK
    BY DEF MutexIInv
  <1>2. QED
    BY <1>1, MutexSpecIInv, PTL

\* Mutual exclusion, and no lock lost: mLocked is set exactly while one actor owns
\* the mutex, one to whom unlockRaw() has handed it included (mutex.hpp:117-121).
THEOREM MutualExclusion == MutexSpec => []OneOwner
  <1>1. MutexIInv => OneOwner
    BY DEF MutexIInv
  <1>2. QED
    BY <1>1, MutexSpecIInv, PTL

\* Waiters are queued at a free mutex only while somebody is on the way to wake one
\* (sync.cpp:24-37).
THEOREM MutexNoWakeupLost == MutexSpec => []MutexNoLostWakeup
  <1>1. MutexIInv => MutexNoLostWakeup
    BY DEF MutexIInv
  <1>2. QED
    BY <1>1, MutexSpecIInv, PTL

\* A coroutine that a stop request settled is not scheduled again, and no waker
\* holds it (sync.cpp:110-124, coro.hpp:69).
THEOREM MutexStopIsFinal == MutexSpec => []StoppedNotResumed
  <1>1. MutexIInv => StoppedNotResumed
    BY WQInvImplies DEF MutexIInv
  <1>2. QED
    BY <1>1, MutexSpecIInv, PTL

\* No list of waiters holds the node of a waiter that is gone (queue.hpp:19-39).
THEOREM NoDanglingNode == MutexSpec => []NodesOutliveLinks
  <1>1. MutexIInv => NodesOutliveLinks
    BY WQInvImplies DEF MutexIInv
  <1>2. QED
    BY <1>1, MutexSpecIInv, PTL

-----------------------------------------------------------------------------
(* The mutex implements a single permit.                                   *)

LEMMA MutexAbstractInit == MutexInit => MutexPermits!MutexInit
  BY DEF MutexInit, WQInit, MutexPermits!MutexInit, Owns, MutexWanting, Granted, Suspended

LEMMA MutexAbstractStep ==
    ASSUME OneOwner, MutexEffects
    PROVE  [MutexPermits!MutexNext]_(MutexPermits!vars)
  <1> USE DEF OneOwner
  <1>1. CASE SameOwners /\ MutexSameWanting
    BY <1>1 DEF SameOwners, MutexSameWanting, MutexPermits!vars
  <1>2. ASSUME NEW x \in Threads, MutexAsks(x)
        PROVE  MutexPermits!Want(x)
    BY <1>2 DEF MutexAsks, SameOwners, MutexPermits!Want
  <1>3. ASSUME NEW x \in Threads, MutexGivesUp(x)
        PROVE  MutexPermits!GiveUp(x)
    BY <1>3 DEF MutexGivesUp, SameOwners, MutexNoLongerWants, MutexPermits!GiveUp
  <1>4. ASSUME NEW x \in Threads, MutexTakes(x)
        PROVE  MutexPermits!Acquire(x)
    BY <1>4 DEF MutexTakes, MutexNoLongerWants, MutexPermits!Acquire
  <1>5. ASSUME NEW x \in Threads, MutexFrees(x)
        PROVE  MutexPermits!Release(x)
    BY <1>5 DEF MutexFrees, MutexSameWanting, MutexPermits!Release
  <1>6. QED
    BY <1>1, <1>2, <1>3, <1>4, <1>5 DEF MutexEffects, MutexPermits!MutexNext

\* Every behaviour of the mutex, its queue, its hand-overs and its stops, is one of a
\* single permit that clients want, get, give up and release (module Permits).
THEOREM ImplementsMutexSpec == MutexSpec => MutexPermits!MutexSpec
  <1>1. MutexIInv /\ [MutexNext]_mutexVars => [MutexPermits!MutexNext]_(MutexPermits!vars)
    <2> SUFFICES ASSUME MutexIInv, [MutexNext]_mutexVars
             PROVE  [MutexPermits!MutexNext]_(MutexPermits!vars)
      OBVIOUS
    <2>1. CASE UNCHANGED mutexVars
      BY <2>1 DEF mutexVars, wqVars, MutexPermits!vars, Owns, MutexWanting, Granted
    <2>2. ASSUME NEW t \in Threads, MutexStep(t) \/ MutexStop(t)
          PROVE  [MutexPermits!MutexNext]_(MutexPermits!vars)
      BY <2>2, MutexStepEffects, MutexAbstractStep DEF MutexIInv
    <2>3. QED
      BY <2>1, <2>2 DEF MutexNext
  <1>2. QED
    BY <1>1, MutexAbstractInit, MutexSpecIInv, PTL DEF MutexSpec, MutexPermits!MutexSpec

-----------------------------------------------------------------------------
(* The semaphore.                                                          *)

\* PermitsConserved needs that whoever goes on was granted a permit, and that a stop
\* takes nobody who was: WQInv.  EnoughWakeups needs that one scan at a time moves
\* pos: LockInv.
SemaphoreIInv == SemaphoreTypeOK /\ WQInv /\ PermitsConserved /\ EnoughWakeups

\* Debt as a function, so that PairsUpdate speaks of Owed.
Debts == [u \in Threads |-> Debt(u)]

LEMMA SemaphoreInitIInv == SemaphoreInit => SemaphoreIInv
  <1> SUFFICES ASSUME SemaphoreInit PROVE SemaphoreIInv
    OBVIOUS
  <1> USE SemaphoreAssumption, RoundsAssumption DEF SemaphoreInit
  <1>1. WQInv
    BY WQInvInit
  <1>2. SemaphoreTypeOK
    <2>1. pc \in [Threads -> SemaphoreLocations]
      BY DEF WQInit, SemaphoreLocations, WQLocations
    <2>2. QED
      BY <1>1, <2>1 DEF WQInv, SemaphoreTypeOK
  <1>3. PermitsConserved
    <2>1. Holders = {}
      BY DEF WQInit, Holders, Holds, Granted, Suspended
    <2>2. QED
      BY <2>1, FS_EmptySet DEF PermitsConserved
  <1>4. EnoughWakeups
    <2>1. Owed = {}
      BY DEF WQInit, Owed, Debt
    <2>2. Cardinality(Owed) = 0 /\ Len(queue) = 0
      BY <2>1, FS_EmptySet DEF WQInit
    <2>3. QED
      BY <2>2 DEF EnoughWakeups
  <1>5. QED
    BY <1>1, <1>2, <1>3, <1>4 DEF SemaphoreIInv

-----------------------------------------------------------------------------
(* The wait queue's invariant, and with it the types of its state.         *)

LEMMA SemaphoreOutsideGuarded == {"out", "holder", "wake", "stopSet", "stopped"} \cap Guarded = {}
  BY DEF Guarded, Suspended

LEMMA SemaphoreStepWQInv ==
    ASSUME SemaphoreTypeOK, WQInv, NEW t \in Threads, SemaphoreStep(t) \/ SemaphoreStop(t)
    PROVE  WQInv'
  <1> USE SemaphoreOutsideGuarded DEF SemaphoreTypeOK
  <1>1. CASE TryAcquire(t)
    <2>1. CASE GoTo(t, "out", "holder")
      BY <1>1, <2>1, MoveInv DEF TryAcquire
    <2>2. CASE UNCHANGED pc
      <3>1. UNCHANGED wqVars
        BY <1>1, <2>2 DEF TryAcquire, wqVars
      <3>2. QED
        BY <3>1 DEF wqVars, WQInv, WQTypeOK, LockInv, ListInv, WaiterInv,
                    ResumeInv, Granted
    <2>3. QED
      BY <1>1, <2>1, <2>2 DEF TryAcquire
  <1>2. CASE Acquire(t)
    BY <1>2, ConstructInv DEF Acquire, Call
  <1>3. CASE AcquireNow(t)
    BY <1>3, DontSuspendInv DEF AcquireNow
  <1>4. CASE AcquireWait(t)
    BY <1>4, ParkInv DEF AcquireWait
  <1>5. CASE Acquired(t)
    BY <1>5, ResumedInv, UnblockedInv DEF Acquired
  <1>6. CASE Release(t)
    BY <1>6, MoveInv DEF Release
  <1>7. CASE SemaphoreWakeHit(t)
    BY <1>7, WakeOneInv DEF SemaphoreWakeHit
  <1>8. CASE SemaphoreWakeMiss(t)
    BY <1>8, SkipInv DEF SemaphoreWakeMiss
  <1>9. CASE Return(t)
    BY <1>9, ScanEndInv, ResumeStepInv DEF Return
  <1>10. CASE SemaphoreQueueStep(t)
    BY <1>10, RegisterStopInv, StopReadInv, StopLockInv, StopUnlinkInv, SetStoppedInv,
       WakeLockInv
       DEF SemaphoreQueueStep
  <1>11. ASSUME NEW n \in 1..MaxAdd, AddPremits(t, n)
         PROVE  WQInv'
    BY <1>11, MoveInv DEF AddPremits
  <1>12. CASE SemaphoreStop(t)
    BY <1>12, StopRequestInv DEF SemaphoreStop
  <1>13. QED
    BY <1>1, <1>2, <1>3, <1>4, <1>5, <1>6, <1>7, <1>8, <1>9, <1>10, <1>11, <1>12
       DEF SemaphoreStep

\* The return of a wakeup goes to the loop of addPremits or to the caller.
LEMMA ReturnMoves ==
    ASSUME SemaphoreTypeOK, WQInv, NEW t \in Threads, Return(t)
    PROVE  /\ pc' = [pc EXCEPT ![t] = IF todo[t] > 0 THEN "wake" ELSE "out"]
           /\ \/ pc[t] = "scan" /\ pos \notin DOMAIN queue
              \/ pc[t] = "resume"
           /\ UNCHANGED <<queue, pos, waiting, mCount, total, left>>
  <1> USE SemaphoreOutsideGuarded DEF SemaphoreTypeOK
  <1> DEFINE after == IF todo[t] > 0 THEN "wake" ELSE "out"
  <1>1. ScanEnd(t, after) \/ Resume(t, after)
    BY DEF Return
  <1>2. CASE ScanEnd(t, after)
    BY <1>2 DEF Return, ScanEnd, GoTo, WQInv, ResumeInv
  <1>3. CASE Resume(t, after)
    <2>1. pc' = [pc EXCEPT ![t] = after]
      BY <1>3, ResumeStepInv
    <2>2. QED
      BY <1>3, <2>1 DEF Return, Resume, GoTo
  <1>4. QED
    BY <1>1, <1>2, <1>3

\* Where a step may leave an actor.
LEMMA SemaphoreStepMoves ==
    ASSUME SemaphoreTypeOK, WQInv, NEW t \in Threads, SemaphoreStep(t) \/ SemaphoreStop(t)
    PROVE  \E to \in SemaphoreLocations : pc' = [pc EXCEPT ![t] = to]
  <1> USE DEF GoTo, SemaphoreLocations, WQLocations, Suspended
  <1>1. CASE UNCHANGED pc
    <2>1. pc' = [pc EXCEPT ![t] = pc[t]]
      BY <1>1 DEF SemaphoreTypeOK
    <2>2. QED
      BY <2>1 DEF SemaphoreTypeOK
  <1>2. CASE Return(t)
    BY <1>2, ReturnMoves
  <1>3. CASE SemaphoreQueueStep(t)
    BY <1>3
       DEF SemaphoreQueueStep, RegisterStop, StopRead, StopLock, StopUnlink, SetStopped,
                WakeLock
  <1>4. CASE SemaphoreStep(t) /\ ~SemaphoreQueueStep(t) /\ ~Return(t)
    BY <1>1, <1>4
       DEF SemaphoreStep, TryAcquire, Acquire, AcquireNow, AcquireWait, Acquired, Release,
           AddPremits, SemaphoreWakeHit, SemaphoreWakeMiss, Call, Construct, DontSuspend,
           Park, Resumed,
           Unblocked, WakeOne, Skip
  <1>5. CASE SemaphoreStop(t)
    BY <1>1, <1>5 DEF SemaphoreStop, StopRequest
  <1>6. QED
    BY <1>2, <1>3, <1>4, <1>5

LEMMA SemaphoreStepTypeOK ==
    ASSUME SemaphoreTypeOK, WQInv, NEW t \in Threads, SemaphoreStep(t) \/ SemaphoreStop(t)
    PROVE  SemaphoreTypeOK'
  <1>1. WQTypeOK'
    BY SemaphoreStepWQInv DEF WQInv
  <1>2. pc' \in [Threads -> SemaphoreLocations]
    BY SemaphoreStepMoves DEF SemaphoreTypeOK
  <1> USE SemaphoreAssumption, RoundsAssumption
      DEF SemaphoreStep, SemaphoreStop, TryAcquire, Acquire, AcquireNow, AcquireWait,
          Acquired, Release,
          SemaphoreWakeHit, SemaphoreWakeMiss, Return, SemaphoreQueueStep
  <1>3. mCount' \in Nat /\ total' \in Nat
    BY DEF SemaphoreTypeOK, Take, AddPremits
  <1>4. left' = left \/ Call(t)
    BY DEF AddPremits
  <1>5. left' \in [Threads -> 0..Rounds]
    BY <1>4 DEF SemaphoreTypeOK, Call
  <1>6. todo' \in [Threads -> 0..(MaxAdd - 1)]
    <2>1. CASE Return(t)
      BY <2>1 DEF SemaphoreTypeOK
    <2>2. ASSUME NEW n \in 1..MaxAdd, AddPremits(t, n)
          PROVE  todo' \in [Threads -> 0..(MaxAdd - 1)]
      BY <2>2 DEF SemaphoreTypeOK, AddPremits
    <2>3. CASE UNCHANGED todo
      BY <2>3 DEF SemaphoreTypeOK
    <2>4. QED
      BY <2>1, <2>2, <2>3
  <1>7. QED
    BY <1>1, <1>2, <1>3, <1>5, <1>6 DEF SemaphoreTypeOK

-----------------------------------------------------------------------------
(* What a step does to the permits and to those that want one: one thing   *)
(* of Permits, or nothing.                                                 *)

SameHolders == UNCHANGED <<mCount, total>> /\ \A u \in Threads : Holds(u)' <=> Holds(u)

SemaphoreSameWanting == \A u \in Threads : SemaphoreWanting(u)' <=> SemaphoreWanting(u)

SemaphoreNoLongerWants(x) ==
    \A u \in Threads : SemaphoreWanting(u)' <=> u # x /\ SemaphoreWanting(u)

SemaphoreAsks(x) ==
    /\ ~SemaphoreWanting(x) /\ ~Holds(x)
    /\ SameHolders
    /\ \A u \in Threads : SemaphoreWanting(u)' <=> u = x \/ SemaphoreWanting(u)

SemaphoreGivesUp(x) == SemaphoreWanting(x) /\ SameHolders /\ SemaphoreNoLongerWants(x)

SemaphoreTakes(x) ==
    /\ mCount > 0 /\ mCount' = mCount - 1
    /\ UNCHANGED total
    /\ ~Holds(x)
    /\ \A u \in Threads : Holds(u)' <=> u = x \/ Holds(u)
    /\ SemaphoreNoLongerWants(x)

SemaphoreFrees(x) ==
    /\ mCount' = mCount + 1
    /\ UNCHANGED total
    /\ Holds(x)
    /\ \A u \in Threads : Holds(u)' <=> u # x /\ Holds(u)
    /\ SemaphoreSameWanting

Adds(n) ==
    /\ mCount' = mCount + n
    /\ total' = total + n
    /\ \A u \in Threads : Holds(u)' <=> Holds(u)
    /\ SemaphoreSameWanting

SemaphoreEffects ==
    \/ SameHolders /\ SemaphoreSameWanting
    \/ \E x \in Threads : \/ SemaphoreAsks(x) \/ SemaphoreGivesUp(x)
                          \/ SemaphoreTakes(x) \/ SemaphoreFrees(x)
    \/ \E n \in 1..MaxAdd : Adds(n)

LEMMA SemaphoreStepEffects ==
    ASSUME SemaphoreTypeOK, WQInv, NEW t \in Threads, SemaphoreStep(t) \/ SemaphoreStop(t)
    PROVE  SemaphoreEffects
  <1> USE DEF SemaphoreTypeOK, GoTo, Holds, SemaphoreWanting, Granted, Suspended
  <1>1. CASE TryAcquire(t)
    <2>1. CASE UNCHANGED pc
      BY <1>1, <2>1
         DEF TryAcquire, Take, SemaphoreEffects, SameHolders, SemaphoreSameWanting
    <2>2. CASE Take /\ GoTo(t, "out", "holder")
      <3>1. SemaphoreTakes(t)
        BY <1>1, <2>2 DEF TryAcquire, Take, SemaphoreTakes, SemaphoreNoLongerWants
      <3>2. QED
        BY <3>1 DEF SemaphoreEffects
    <2>3. QED
      BY <1>1, <2>1, <2>2 DEF TryAcquire
  <1>2. CASE Acquire(t)
    <2>1. SemaphoreAsks(t)
      BY <1>2 DEF Acquire, Call, Construct, SemaphoreAsks, SameHolders, WQInv, WQTypeOK
    <2>2. QED
      BY <2>1 DEF SemaphoreEffects
  <1>3. CASE AcquireNow(t)
    <2>1. SemaphoreTakes(t)
      BY <1>3 DEF AcquireNow, Take, DontSuspend, SemaphoreTakes, SemaphoreNoLongerWants
    <2>2. QED
      BY <2>1 DEF SemaphoreEffects
  <1>4. CASE AcquireWait(t)
    <2>1. waiting[t]
      BY <1>4 DEF AcquireWait, Park, WQInv, WaiterInv
    <2>2. SameHolders /\ SemaphoreSameWanting
      BY <1>4, <2>1 DEF AcquireWait, Park, SameHolders, SemaphoreSameWanting
    <2>3. QED
      BY <2>2 DEF SemaphoreEffects
  <1>5. CASE Acquired(t)
    <2>1. pc[t] \in {"wait", "blocked"} /\ pc' = [pc EXCEPT ![t] = "holder"]
      BY <1>5 DEF Acquired, Resumed, Unblocked
    <2>2. ~waiting[t]
      <3>1. CASE Resumed(t, "holder")
        BY <3>1 DEF Resumed, WQInv, WQTypeOK, ResumeInv
      <3>2. CASE Unblocked(t, "holder")
        BY <3>2 DEF Unblocked, WQInv, WaiterInv
      <3>3. QED
        BY <1>5, <3>1, <3>2 DEF Acquired
    <2>3. UNCHANGED <<mCount, total, waiting>>
      BY <1>5 DEF Acquired, Resumed, Unblocked
    <2>4. SameHolders /\ SemaphoreSameWanting
      BY <2>1, <2>2, <2>3 DEF SameHolders, SemaphoreSameWanting
    <2>5. QED
      BY <2>4 DEF SemaphoreEffects
  <1>6. CASE Release(t)
    <2>1. SemaphoreFrees(t)
      BY <1>6 DEF Release, SemaphoreFrees, SemaphoreSameWanting
    <2>2. QED
      BY <2>1 DEF SemaphoreEffects
  <1>7. CASE SemaphoreWakeHit(t)
    <2> queue[pos] \in Threads /\ queue[pos] \in linked
      BY <1>7 DEF SemaphoreWakeHit, WakeOne, AtWaiter, WQInv, WQTypeOK, ListInv
    <2>1. PICK x \in Threads :
             /\ x \in linked
             /\ waiting' = [waiting EXCEPT ![x] = FALSE]
             /\ pc' = [pc EXCEPT ![t] = "resume"]
      BY <1>7 DEF SemaphoreWakeHit, WakeOne
    <2>2. pc[x] \in Suspended /\ waiting[x] /\ pc[t] = "scan" /\ x # t
      BY <1>7, <2>1 DEF SemaphoreWakeHit, WakeOne, WQInv, WaiterInv
    <2>3. SemaphoreTakes(x)
      BY <1>7, <2>1, <2>2
         DEF SemaphoreWakeHit, Take, SemaphoreTakes, SemaphoreNoLongerWants, WQInv,
             WQTypeOK
    <2>4. QED
      BY <2>3 DEF SemaphoreEffects
  <1>8. CASE SemaphoreWakeMiss(t)
    BY <1>8
       DEF SemaphoreWakeMiss, Skip, SemaphoreEffects, SameHolders, SemaphoreSameWanting
  <1>9. CASE Return(t)
    <2>1. SameHolders /\ SemaphoreSameWanting
      BY <1>9, ReturnMoves DEF SameHolders, SemaphoreSameWanting
    <2>2. QED
      BY <2>1 DEF SemaphoreEffects
  <1>10. CASE SemaphoreQueueStep(t)
    <2>1. CASE StopUnlink(t)
      <3>1. waiting[t]
        BY <2>1 DEF StopUnlink, WQInv, WaiterInv
      <3>2. SemaphoreGivesUp(t)
        BY <1>10, <2>1, <3>1
           DEF SemaphoreQueueStep, StopUnlink, SemaphoreGivesUp, SameHolders,
               SemaphoreNoLongerWants, WQInv,
               WQTypeOK
      <3>3. QED
        BY <3>2 DEF SemaphoreEffects
    <2>2. CASE ~StopUnlink(t)
      <3>1. UNCHANGED <<waiting, mCount, total>>
        BY <1>10, <2>2
           DEF SemaphoreQueueStep, RegisterStop, StopRead, StopLock, SetStopped, WakeLock
      <3>2. /\ pc' = [pc EXCEPT ![t] = pc'[t]]
            /\ pc[t] \in Suspended <=> pc'[t] \in Suspended
            /\ pc[t] \notin {"holder", "suspend"} /\ pc'[t] \notin {"holder", "suspend"}
        BY <1>10, <2>2
           DEF SemaphoreQueueStep, RegisterStop, StopRead, StopLock, SetStopped, WakeLock
      <3>3. SameHolders /\ SemaphoreSameWanting
        BY <3>1, <3>2 DEF SameHolders, SemaphoreSameWanting
      <3>4. QED
        BY <3>3 DEF SemaphoreEffects
    <2>3. QED
      BY <2>1, <2>2
  <1>11. ASSUME NEW n \in 1..MaxAdd, AddPremits(t, n)
         PROVE  SemaphoreEffects
    <2>1. Adds(n)
      BY <1>11 DEF AddPremits, Adds, SemaphoreSameWanting
    <2>2. QED
      BY <2>1 DEF SemaphoreEffects
  <1>12. CASE SemaphoreStop(t)
    BY <1>12
       DEF SemaphoreStop, StopRequest, SemaphoreEffects, SameHolders, SemaphoreSameWanting
  <1>13. QED
    BY <1>1, <1>2, <1>3, <1>4, <1>5, <1>6, <1>7, <1>8, <1>9, <1>10, <1>11, <1>12
       DEF SemaphoreStep

LEMMA EffectsConserve ==
    ASSUME SemaphoreTypeOK, PermitsConserved, SemaphoreEffects
    PROVE  PermitsConserved'
  <1> USE DEF SemaphoreTypeOK, PermitsConserved
  <1>1. IsFiniteSet(Holders) /\ Cardinality(Holders) \in Nat
    <2>1. IsFiniteSet(Holders)
      BY SemaphoreAssumption, FS_Subset DEF Holders
    <2>2. QED
      BY <2>1, FS_CardinalityType
  <1>2. CASE \A u \in Threads : Holds(u)' <=> Holds(u)
    <2>1. Holders' = Holders
      BY <1>2 DEF Holders
    <2>2. \/ UNCHANGED <<mCount, total>>
          \/ \E n \in 1..MaxAdd : mCount' = mCount + n /\ total' = total + n
      BY <1>2
         DEF SemaphoreEffects, SameHolders, SemaphoreAsks, SemaphoreGivesUp,
             SemaphoreTakes, SemaphoreFrees, Adds
    <2>3. QED
      BY <1>1, <2>1, <2>2, SemaphoreAssumption
  <1>3. ASSUME NEW x \in Threads, SemaphoreTakes(x)
        PROVE  PermitsConserved'
    <2>1. Holders' = Holders \cup {x} /\ x \notin Holders
      BY <1>3 DEF Holders, SemaphoreTakes
    <2>2. Cardinality(Holders') = Cardinality(Holders) + 1
      BY <1>1, <2>1, FS_AddElement
    <2>3. QED
      BY <1>1, <1>3, <2>2 DEF SemaphoreTakes
  <1>4. ASSUME NEW x \in Threads, SemaphoreFrees(x)
        PROVE  PermitsConserved'
    <2>1. Holders' = Holders \ {x} /\ x \in Holders
      BY <1>4 DEF Holders, SemaphoreFrees
    <2>2. Cardinality(Holders') = Cardinality(Holders) - 1
      BY <1>1, <2>1, FS_RemoveElement
    <2>3. QED
      BY <1>1, <1>4, <2>2 DEF SemaphoreFrees
  <1>5. QED
    BY <1>2, <1>3, <1>4
       DEF SemaphoreEffects, SameHolders, SemaphoreAsks, SemaphoreGivesUp, Adds

-----------------------------------------------------------------------------
(* The wakeups under way.                                                  *)

LEMMA DebtsType ==
    SemaphoreTypeOK => Debts \in [Threads -> 0..MaxAdd] /\ Cardinality(Owed) \in Nat
  <1> SUFFICES ASSUME SemaphoreTypeOK
               PROVE  Debts \in [Threads -> 0..MaxAdd] /\ Cardinality(Owed) \in Nat
    OBVIOUS
  <1>1. ASSUME NEW u \in Threads
        PROVE  Debt(u) \in 0..MaxAdd
    BY SemaphoreAssumption DEF SemaphoreTypeOK, Debt
  <1>2. Debts \in [Threads -> 0..MaxAdd]
    BY <1>1 DEF Debts
  <1>3. Owed \subseteq Threads \X (1..MaxAdd)
    BY DEF Owed
  <1>4. IsFiniteSet(Threads \X (1..MaxAdd))
    <2>1. IsFiniteSet(1..MaxAdd)
      BY SemaphoreAssumption, FS_Interval
    <2>2. QED
      BY <2>1, SemaphoreAssumption, FS_Product
  <1>5. Cardinality(Owed) \in Nat
    BY <1>3, <1>4, FS_Subset, FS_CardinalityType
  <1>6. QED
    BY <1>2, <1>5

\* A step changes the wakeups of no other actor: a scan's iterator is its own.
LEMMA OthersDebts ==
    ASSUME SemaphoreTypeOK, WQInv, NEW t \in Threads, SemaphoreStep(t) \/ SemaphoreStop(t),
           NEW u \in Threads, u # t
    PROVE  Debt(u)' = Debt(u)
  <1>1. pc'[u] = pc[u]
    BY SemaphoreStepMoves DEF SemaphoreTypeOK
  <1>2. todo'[u] = todo[u]
    BY DEF SemaphoreStep, SemaphoreStop, TryAcquire, Acquire, AcquireNow, AcquireWait,
           Acquired, Release,
           SemaphoreWakeHit, SemaphoreWakeMiss, Return, SemaphoreQueueStep, AddPremits,
           SemaphoreTypeOK
  <1>3. pc[u] = "scan" => pos' = pos
    <2>1. CASE WakeLock(t)
      BY <2>1, ActorsAssumption DEF WakeLock, WQInv, LockInv, Threads
    <2>2. CASE SemaphoreWakeMiss(t)
      BY <2>2 DEF SemaphoreWakeMiss, Skip, AtWaiter, WQInv, LockInv
    <2>3. CASE Return(t)
      BY <2>3, ReturnMoves
    <2>4. CASE ~WakeLock(t) /\ ~SemaphoreWakeMiss(t) /\ ~Return(t)
      BY <2>4
         DEF SemaphoreStep, SemaphoreStop, TryAcquire, Acquire, AcquireNow, AcquireWait,
             Acquired, Release,
             SemaphoreWakeHit, SemaphoreQueueStep, AddPremits, Construct, DontSuspend,
             Park, Resumed,
             Unblocked, StopRequest, RegisterStop, StopRead, StopLock, StopUnlink,
             SetStopped, WakeOne
    <2>5. QED
      BY <2>1, <2>2, <2>3, <2>4
  <1>4. QED
    BY <1>1, <1>2, <1>3 DEF Debt

LEMMA StepOwed ==
    ASSUME SemaphoreTypeOK, WQInv, NEW t \in Threads, SemaphoreStep(t) \/ SemaphoreStop(t)
    PROVE  /\ Cardinality(Owed) \in Nat
           /\ Cardinality(Owed') \in Nat
           /\ Cardinality(Owed') = Cardinality(Owed) - Debt(t) + Debt(t)'
           /\ Debt(t) \in Nat /\ Debt(t)' \in Nat
  <1>1. SemaphoreTypeOK'
    BY SemaphoreStepTypeOK
  <1>2. /\ Debts \in [Threads -> 0..MaxAdd] /\ Cardinality(Owed) \in Nat
        /\ (Debts \in [Threads -> 0..MaxAdd] /\ Cardinality(Owed) \in Nat)'
    BY <1>1, DebtsType, PTL
  <1>3. \A u \in Threads \ {t} : Debts'[u] = Debts[u]
    BY OthersDebts DEF Debts
  <1>4. IsFiniteSet(Threads) /\ MaxAdd \in Nat
    BY SemaphoreAssumption
  <1>5. Cardinality(Pairs(Threads, MaxAdd, Debts')) =
           Cardinality(Pairs(Threads, MaxAdd, Debts)) - Debts[t] + Debts'[t]
    BY <1>2, <1>3, <1>4, PairsUpdate
  <1>6. Owed = Pairs(Threads, MaxAdd, Debts) /\ Owed' = Pairs(Threads, MaxAdd, Debts')
    BY DEF Owed, Pairs, Debts
  <1>7. Debts[t] = Debt(t) /\ Debts'[t] = Debt(t)'
    BY DEF Debts
  <1>8. QED
    BY <1>2, <1>5, <1>6, <1>7, <1>8

\* The count rises with the wakeups that are owed for it; a wakeup is used up by a
\* permit that is taken together with a waiter, or by an empty queue.
LEMMA StepEnough ==
    ASSUME SemaphoreTypeOK, WQInv, EnoughWakeups, NEW t \in Threads,
           SemaphoreStep(t) \/ SemaphoreStop(t)
    PROVE  EnoughWakeups'
  <1> USE DEF SemaphoreTypeOK, GoTo
  <1>1. /\ Cardinality(Owed) \in Nat
        /\ Cardinality(Owed') \in Nat
        /\ Cardinality(Owed') = Cardinality(Owed) - Debt(t) + Debt(t)'
        /\ Debt(t) \in Nat /\ Debt(t)' \in Nat
    BY StepOwed
  <1>2. mCount \in Nat /\ Len(queue) \in Nat /\ mCount' \in Nat /\ Len(queue') \in Nat
    <2>1. mCount' \in Nat /\ queue' \in Seq(Threads)
      BY SemaphoreStepTypeOK DEF WQTypeOK
    <2>2. QED
      BY <2>1 DEF WQTypeOK
  <1>3. SUFFICES \/ mCount' <= Cardinality(Owed')
                 \/ Len(queue') <= Cardinality(Owed')
    BY DEF EnoughWakeups
  <1>4. CASE mCount' = 0
    BY <1>1, <1>4
  <1>5. CASE mCount' <= mCount /\ Len(queue') <= Len(queue) /\ Debt(t)' = Debt(t)
    BY <1>1, <1>2, <1>5 DEF EnoughWakeups
  <1>6. CASE TryAcquire(t) \/ Acquire(t) \/ AcquireNow(t) \/ Acquired(t) \/ SemaphoreStop(t)
    <2>1. mCount' <= mCount /\ UNCHANGED queue
      BY <1>2, <1>6
         DEF TryAcquire, Take, Acquire, AcquireNow, Acquired, SemaphoreStop, Construct,
             DontSuspend, Resumed, Unblocked, StopRequest
    <2>2. Debt(t)' = Debt(t)
      BY <1>6
         DEF TryAcquire, Acquire, AcquireNow, Acquired, SemaphoreStop, Call, Construct,
             DontSuspend, Resumed, Unblocked, StopRequest, Debt
    <2>3. QED
      BY <1>2, <1>5, <2>1, <2>2
  <1>7. CASE AcquireWait(t) \/ SemaphoreWakeMiss(t)
    BY <1>4, <1>7 DEF AcquireWait, SemaphoreWakeMiss
  <1>8. CASE Release(t)
    <2>1. Debt(t) = 0 /\ Debt(t)' = todo[t] + 1 /\ todo[t] \in Nat
      BY <1>8 DEF Release, Debt
    <2>2. mCount' = mCount + 1 /\ UNCHANGED queue
      BY <1>8 DEF Release
    <2>3. QED
      BY <1>1, <1>2, <2>1, <2>2 DEF EnoughWakeups
  <1>9. ASSUME NEW n \in 1..MaxAdd, AddPremits(t, n)
        PROVE  EnoughWakeups'
    <2>1. Debt(t) = 0 /\ Debt(t)' = n
      BY <1>9, SemaphoreAssumption DEF AddPremits, Debt
    <2>2. mCount' = mCount + n /\ UNCHANGED queue
      BY <1>9 DEF AddPremits
    <2>3. QED
      BY <1>1, <1>2, <2>1, <2>2 DEF EnoughWakeups
  <1>10. CASE SemaphoreWakeHit(t)
    <2>1. Debt(t)' = todo[t] /\ Debt(t) \in {todo[t], todo[t] + 1}
      BY <1>10 DEF SemaphoreWakeHit, WakeOne, AtWaiter, Debt
    <2>2. mCount > 0 /\ mCount' = mCount - 1
      BY <1>10 DEF SemaphoreWakeHit, Take
    <2>3. pos \in 1..Len(queue) /\ queue' = RemoveAt(queue, pos)
      BY <1>10 DEF SemaphoreWakeHit, WakeOne, AtWaiter, WQTypeOK
    <2>4. Len(queue') = Len(queue) - 1
      BY <2>3, RemoveAtProperties DEF WQTypeOK
    <2>5. QED
      BY <1>1, <1>2, <2>1, <2>2, <2>4 DEF EnoughWakeups
  <1>11. CASE Return(t)
    <2>1. UNCHANGED <<mCount, queue, pos>>
      BY <1>11, ReturnMoves
    <2>2. Debt(t)' = todo[t]
      <3>1. todo[t] \in Nat
        BY SemaphoreAssumption
      <3>2. CASE todo[t] > 0
        <4>1. pc'[t] = "wake" /\ todo'[t] = todo[t] - 1
          BY <1>11, <3>2, ReturnMoves DEF Return
        <4>2. QED
          BY <3>1, <4>1 DEF Debt
      <3>3. CASE ~(todo[t] > 0)
        <4>1. pc'[t] = "out" /\ todo[t] = 0
          BY <1>11, <3>1, <3>3, ReturnMoves
        <4>2. QED
          BY <4>1 DEF Debt
      <3>4. QED
        BY <3>2, <3>3
    <2>3. CASE pc[t] = "resume" \/ pos # 1
      <3>1. Debt(t) = todo[t]
        BY <1>11, <2>3, ReturnMoves DEF Debt
      <3>2. QED
        BY <1>5, <1>2, <2>1, <2>2, <3>1
    <2>4. CASE pc[t] = "scan" /\ pos = 1
      <3>1. 1 \notin 1..Len(queue)
        <4>1. pos \notin DOMAIN queue
          BY <1>11, <2>4, ReturnMoves
        <4>2. DOMAIN queue = 1..Len(queue)
          BY DEF WQTypeOK
        <4>3. QED
          BY <2>4, <4>1, <4>2
      <3>2. Len(queue) = 0
        BY <1>2, <3>1
      <3>3. QED
        BY <1>1, <2>1, <3>2
    <2>5. QED
      BY <1>11, <2>3, <2>4, ReturnMoves
  <1>12. CASE SemaphoreQueueStep(t)
    <2>1. UNCHANGED mCount /\ Debt(t)' = Debt(t)
      BY <1>12
         DEF SemaphoreQueueStep, RegisterStop, StopRead, StopLock, StopUnlink, SetStopped,
             WakeLock, Debt
    <2>2. CASE StopUnlink(t)
      <3>1. PICK i \in 1..Len(queue) : queue' = RemoveAt(queue, i)
        BY <2>2 DEF StopUnlink, Unlink, WQInv, WaiterInv, ResumeInv, WQTypeOK, Suspended
      <3>2. Len(queue') = Len(queue) - 1
        BY <3>1, RemoveAtProperties DEF WQTypeOK
      <3>3. QED
        BY <1>2, <1>5, <2>1, <3>2
    <2>3. CASE ~StopUnlink(t)
      <3>1. UNCHANGED queue
        BY <1>12, <2>3
           DEF SemaphoreQueueStep, RegisterStop, StopRead, StopLock, SetStopped, WakeLock
      <3>2. QED
        BY <1>2, <1>5, <2>1, <3>1
    <2>4. QED
      BY <2>2, <2>3
  <1>13. QED
    BY <1>3, <1>6, <1>7, <1>8, <1>9, <1>10, <1>11, <1>12 DEF SemaphoreStep, EnoughWakeups

LEMMA SemaphoreNextIInv == SemaphoreIInv /\ [SemaphoreNext]_semaphoreVars => SemaphoreIInv'
  <1> SUFFICES ASSUME SemaphoreIInv, [SemaphoreNext]_semaphoreVars PROVE SemaphoreIInv'
    OBVIOUS
  <1> USE DEF SemaphoreIInv
  <1>1. CASE UNCHANGED semaphoreVars
    <2>1. Holders' = Holders /\ Owed' = Owed
      BY <1>1 DEF semaphoreVars, wqVars, Holders, Holds, Granted, Owed, Debt
    <2>2. PermitsConserved' /\ EnoughWakeups'
      BY <1>1, <2>1 DEF semaphoreVars, wqVars, PermitsConserved, EnoughWakeups
    <2>3. SemaphoreTypeOK' /\ WQInv'
      BY <1>1
         DEF semaphoreVars, wqVars, SemaphoreTypeOK, WQInv, WQTypeOK, LockInv, ListInv,
             WaiterInv,
                  ResumeInv, Granted
    <2>4. QED
      BY <2>2, <2>3
  <1>2. ASSUME NEW t \in Threads, SemaphoreStep(t) \/ SemaphoreStop(t)
        PROVE  SemaphoreIInv'
    BY <1>2, SemaphoreStepWQInv, SemaphoreStepTypeOK, SemaphoreStepEffects,
       EffectsConserve, StepEnough
  <1>3. QED
    BY <1>1, <1>2 DEF SemaphoreNext

LEMMA SemaphoreSpecIInv == SemaphoreSpec => []SemaphoreIInv
  BY SemaphoreInitIInv, SemaphoreNextIInv, PTL DEF SemaphoreSpec

-----------------------------------------------------------------------------
\* The state of a semaphore and of its queue keeps its types; the count never goes
\* below zero (semaphore.hpp:84-92, 126-133).
THEOREM SemaphoreTypeCorrect == SemaphoreSpec => []SemaphoreTypeOK
  <1>1. SemaphoreIInv => SemaphoreTypeOK
    BY DEF SemaphoreIInv
  <1>2. QED
    BY <1>1, SemaphoreSpecIInv, PTL

\* The free permits and the held ones, those handed over included, are the permits
\* the semaphore was ever given (semaphore.hpp:57-59, 99-133).
THEOREM PermitConservation == SemaphoreSpec => []PermitsConserved
  <1>1. SemaphoreIInv => PermitsConserved
    BY DEF SemaphoreIInv
  <1>2. QED
    BY <1>1, SemaphoreSpecIInv, PTL

\* There are at least as many wakeups under way as there are waiters that a free
\* permit could serve (semaphore.hpp:99-115).
THEOREM SemaphoreNoWakeupLost == SemaphoreSpec => []EnoughWakeups
  <1>1. SemaphoreIInv => EnoughWakeups
    BY DEF SemaphoreIInv
  <1>2. QED
    BY <1>1, SemaphoreSpecIInv, PTL

\* A coroutine that a stop request settled is not scheduled again, and no list holds
\* the node of a waiter that is gone, with the semaphore's predicate too
\* (sync.cpp:110-124, queue.hpp:19-39).
THEOREM SemaphoreStopIsFinal == SemaphoreSpec => [](StoppedNotResumed /\ NodesOutliveLinks)
  <1>1. SemaphoreIInv => StoppedNotResumed /\ NodesOutliveLinks
    BY WQInvImplies DEF SemaphoreIInv
  <1>2. QED
    BY <1>1, SemaphoreSpecIInv, PTL

-----------------------------------------------------------------------------
(* The semaphore implements the permits.                                   *)

LEMMA SemaphoreAbstractInit == SemaphoreInit => SemaphorePermits!SemaphoreInit
  BY SemaphoreAssumption
     DEF SemaphoreInit, WQInit, SemaphorePermits!SemaphoreInit, Holders, Holds,
         SemaphoreWanting, Granted, Suspended

LEMMA SemaphoreAbstractStep ==
    ASSUME SemaphoreTypeOK, SemaphoreEffects
    PROVE  [SemaphorePermits!SemaphoreNext]_(SemaphorePermits!vars)
  <1> USE DEF Holders, SemaphoreTypeOK
  <1>1. CASE SameHolders /\ SemaphoreSameWanting
    BY <1>1 DEF SameHolders, SemaphoreSameWanting, SemaphorePermits!vars
  <1>2. ASSUME NEW x \in Threads, SemaphoreAsks(x)
        PROVE  SemaphorePermits!Want(x)
    BY <1>2 DEF SemaphoreAsks, SameHolders, SemaphorePermits!Want
  <1>3. ASSUME NEW x \in Threads, SemaphoreGivesUp(x)
        PROVE  SemaphorePermits!GiveUp(x)
    BY <1>3
       DEF SemaphoreGivesUp, SameHolders, SemaphoreNoLongerWants, SemaphorePermits!GiveUp
  <1>4. ASSUME NEW x \in Threads, SemaphoreTakes(x)
        PROVE  SemaphorePermits!Acquire(x)
    BY <1>4 DEF SemaphoreTakes, SemaphoreNoLongerWants, SemaphorePermits!Acquire
  <1>5. ASSUME NEW x \in Threads, SemaphoreFrees(x)
        PROVE  SemaphorePermits!Release(x)
    BY <1>5 DEF SemaphoreFrees, SemaphoreSameWanting, SemaphorePermits!Release
  <1>6. ASSUME NEW n \in 1..MaxAdd, Adds(n)
        PROVE  SemaphorePermits!Add
    BY <1>6, SemaphoreAssumption DEF Adds, SemaphoreSameWanting, SemaphorePermits!Add
  <1>7. QED
    BY <1>1, <1>2, <1>3, <1>4, <1>5, <1>6
       DEF SemaphoreEffects, SemaphorePermits!SemaphoreNext, SemaphorePermits!MutexNext

\* Every behaviour of the semaphore, its queue, its hand-overs, its stops and the
\* permits added to it, is one of a number of permits that clients want, get, give up
\* and release (module Permits).
THEOREM ImplementsSemaphoreSpec == SemaphoreSpec => SemaphorePermits!SemaphoreSpec
  <1>1. SemaphoreIInv /\ [SemaphoreNext]_semaphoreVars
        => [SemaphorePermits!SemaphoreNext]_(SemaphorePermits!vars)
    <2> SUFFICES ASSUME SemaphoreIInv, [SemaphoreNext]_semaphoreVars
                 PROVE  [SemaphorePermits!SemaphoreNext]_(SemaphorePermits!vars)
      OBVIOUS
    <2>1. CASE UNCHANGED semaphoreVars
      BY <2>1
         DEF semaphoreVars, wqVars, SemaphorePermits!vars, Holders, Holds,
             SemaphoreWanting, Granted
    <2>2. ASSUME NEW t \in Threads, SemaphoreStep(t) \/ SemaphoreStop(t)
          PROVE  [SemaphorePermits!SemaphoreNext]_(SemaphorePermits!vars)
      BY <2>2, SemaphoreStepEffects, SemaphoreAbstractStep DEF SemaphoreIInv
    <2>3. QED
      BY <2>1, <2>2 DEF SemaphoreNext
  <1>2. QED
    BY <1>1, SemaphoreAbstractInit, SemaphoreSpecIInv, PTL
       DEF SemaphoreSpec, SemaphorePermits!SemaphoreSpec

-----------------------------------------------------------------------------
(* The event and the latch.                                                *)

\* wakeupAll() breaks the queue's invariant, see StoppedNotResumed, so WQInv is there
\* for an AutoClear event only.  What the types and EventNoLostWakeup need holds in every
\* mode.
EventIInv == EventTypeOK /\ EventNoLostWakeup /\ (kind = "autoclear" => WQInv)

LEMMA EventInitIInv == EventInit => EventIInv
  <1> SUFFICES ASSUME EventInit PROVE EventIInv
    OBVIOUS
  <1> USE DEF EventInit
  <1>1. WQInv
    BY WQInvInit
  <1>2. EventTypeOK
    <2>1. pc \in [Threads -> WQLocations]
      BY DEF WQInit, WQLocations
    <2>2. mLatchCount \in 0..Count /\ left \in [Threads -> 0..Rounds]
      BY EventAssumption, RoundsAssumption
    <2>3. QED
      BY <1>1, <2>1, <2>2 DEF WQInv, EventTypeOK
  <1>3. EventNoLostWakeup
    BY DEF WQInit, EventNoLostWakeup
  <1>4. QED
    BY <1>1, <1>2, <1>3 DEF EventIInv

-----------------------------------------------------------------------------
(* The types of the state, also under wakeupAll().                         *)

\* A stop takes at most one node out of one list.
LEMMA UnlinkType ==
    ASSUME WQTypeOK, NEW t \in Threads, Unlink(t)
    PROVE  queue' \in Seq(Threads) /\ ready' \in [Threads -> Seq(Threads)]
  <1> USE DEF WQTypeOK
  <1>1. CASE \E i \in DOMAIN queue : queue' = RemoveAt(queue, i) /\ UNCHANGED ready
    BY <1>1, RemoveAtProperties
  <1>2. ASSUME NEW u \in Threads, NEW i \in DOMAIN ready[u],
               ready' = [ready EXCEPT ![u] = RemoveAt(@, i)], UNCHANGED queue
        PROVE  queue' \in Seq(Threads) /\ ready' \in [Threads -> Seq(Threads)]
    <2>1. RemoveAt(ready[u], i) \in Seq(Threads)
      BY RemoveAtProperties
    <2>2. QED
      BY <1>2, <2>1
  <1>3. CASE UNCHANGED <<queue, ready>>
    BY <1>3
  <1>4. QED
    BY <1>1, <1>2, <1>3 DEF Unlink

LEMMA QueueStepType ==
    ASSUME EventTypeOK, NEW t \in Threads, EventQueueStep(t)
    PROVE  WQTypeOK' /\ pc' \in [Threads -> WQLocations]
  <1> USE DEF EventTypeOK, WQTypeOK, GoTo, WQLocations, Suspended
  <1>1. CASE StopUnlink(t)
    <2>1. queue' \in Seq(Threads) /\ ready' \in [Threads -> Seq(Threads)]
      BY <1>1, UnlinkType DEF StopUnlink
    <2>2. linked' \subseteq Threads /\ qlock' \in Threads \cup {None}
      BY <1>1 DEF StopUnlink
    <2>3. QED
      BY <1>1, <2>1, <2>2 DEF StopUnlink
  <1>2. CASE Pick(t, "out")
    <2>1. ready[t] # <<>> => Head(ready[t]) \in Threads
      BY HeadTailProperties
    <2>2. cur' \in [Threads -> Threads \cup {None}]
      BY <1>2, <2>1 DEF Pick
    <2>3. QED
      BY <1>2, <2>2 DEF Pick
  <1>3. CASE Resume(t, "out")
    <2>1. ready' \in [Threads -> Seq(Threads)] /\ linked' \subseteq Threads
      <3>1. ready[t] # <<>> => Tail(ready[t]) \in Seq(Threads)
        BY HeadTailProperties
      <3>2. QED
        BY <1>3, <3>1 DEF Resume, PopFront
    <2>2. posted' \in [Threads -> Nat] /\ blocking' \in [Threads -> BOOLEAN]
      <3>1. PICK w : /\ blocking' = [blocking EXCEPT ![w] = FALSE]
                     /\ posted' = [posted EXCEPT ![w] = IF blocking[w] THEN @ ELSE @ + 1]
        BY <1>3 DEF Resume
      <3>2. CASE w \in Threads
        BY <3>1, <3>2
      <3>3. CASE w \notin Threads
        BY <3>1, <3>3
      <3>4. QED
        BY <3>2, <3>3
    <2>3. cur' \in [Threads -> Threads \cup {None}] /\ pc' \in [Threads -> WQLocations]
      BY <1>3 DEF Resume
    <2>4. UNCHANGED <<queue, qlock, pos, waiting, stopReq>>
      BY <1>3 DEF Resume
    <2>5. QED
      BY <2>1, <2>2, <2>3, <2>4
  <1>4. CASE Resumed(t, "out")
    BY <1>4 DEF Resumed
  <1>5. CASE RegisterStop(t) \/ StopRead(t) \/ SetStopped(t) \/ Unblocked(t, "out")
    BY <1>5 DEF RegisterStop, StopRead, SetStopped, Unblocked
  <1>6. CASE StopLock(t)
    BY <1>6 DEF StopLock
  <1>7. CASE WakeLock(t)
    BY <1>7 DEF WakeLock
  <1>8. CASE ScanEnd(t, "out")
    BY <1>8 DEF ScanEnd
  <1>9. QED
    BY <1>1, <1>2, <1>3, <1>4, <1>5, <1>6, <1>7, <1>8 DEF EventQueueStep

LEMMA EventStepTypeOK ==
    ASSUME EventTypeOK, NEW t \in Threads, EventStep(t) \/ EventStop(t)
    PROVE  EventTypeOK'
  <1> USE DEF EventTypeOK, GoTo
  <1>1. WQTypeOK' /\ pc' \in [Threads -> WQLocations]
    <2> USE DEF WQTypeOK, WQLocations, Suspended
    <2>1. CASE TryWait(t) \/ Clear(t)
      BY <2>1 DEF TryWait, Clear, wqVars
    <2>2. CASE Wait(t)
      BY <2>2 DEF Wait, Construct
    <2>3. CASE WaitNow(t)
      BY <2>3 DEF WaitNow, DontSuspend
    <2>4. CASE Suspend(t)
      <3>1. queue' \in Seq(Threads)
        BY <2>4, AppendProperties DEF Suspend, Park
      <3>2. QED
        BY <2>4, <3>1 DEF Suspend, Park
    <2>5. CASE Set(t) \/ CountDown(t)
      BY <2>5 DEF Set, CountDown
    <2>6. CASE EventWakeHit(t)
      <3>1. AtWaiter(t)
        BY <2>6 DEF EventWakeHit, WakeOne, WakeMore
      <3>2. queue[pos] \in Threads /\ RemoveAt(queue, pos) \in Seq(Threads)
        BY <3>1, RemoveAtProperties DEF AtWaiter
      <3>3. Append(ready[t], queue[pos]) \in Seq(Threads)
        BY <3>2, AppendProperties
      <3>4. CASE WakeOne(t)
        BY <3>2, <3>4 DEF WakeOne
      <3>5. CASE WakeMore(t)
        BY <3>2, <3>3, <3>5 DEF WakeMore
      <3>6. QED
        BY <2>6, <3>4, <3>5 DEF EventWakeHit
    <2>7. CASE EventWakeMiss(t)
      BY <2>7 DEF EventWakeMiss, Skip
    <2>8. CASE EventQueueStep(t)
      BY <2>8, QueueStepType
    <2>9. CASE EventStop(t)
      BY <2>9 DEF EventStop, StopRequest
    <2>10. QED
      BY <2>1, <2>2, <2>3, <2>4, <2>5, <2>6, <2>7, <2>8, <2>9 DEF EventStep
  <1>2. kind' = kind /\ mIsSet' \in BOOLEAN
    BY DEF EventStep, EventStop, TryWait, Wait, WaitNow, Suspend, Set, Clear, CountDown,
           EventWakeHit,
           EventWakeMiss, EventQueueStep, EventCall, Call, NoCall, TakeSignal
  <1>3. mLatchCount' = mLatchCount \/ CountDown(t)
    BY DEF EventStep, EventStop, TryWait, Wait, WaitNow, Suspend, Set, Clear,
           EventWakeHit, EventWakeMiss,
           EventQueueStep, NoCall
  <1>4. mLatchCount' \in 0..Count
    BY <1>3, EventAssumption DEF CountDown
  <1>5. left' = left \/ EventCall(t)
    BY DEF EventStep, EventStop, TryWait, Wait, WaitNow, Suspend, Set, Clear, CountDown,
           EventWakeHit,
           EventWakeMiss, EventQueueStep, NoCall
  <1>6. left' \in [Threads -> 0..Rounds]
    BY <1>5, RoundsAssumption DEF EventCall, Call
  <1>7. QED
    BY <1>1, <1>2, <1>4, <1>6

-----------------------------------------------------------------------------
(* An AutoClear event keeps the queue's invariant.                         *)

LEMMA EventOutsideGuarded == {"out", "wake", "stopSet", "stopped"} \cap Guarded = {}
  BY DEF Guarded, Suspended

LEMMA EventStepWQInv ==
    ASSUME EventTypeOK, kind = "autoclear", WQInv, NEW t \in Threads, EventStep(t) \/ EventStop(t)
    PROVE  WQInv'
  <1> USE EventOutsideGuarded DEF EventTypeOK
  <1>1. CASE UNCHANGED wqVars
    BY <1>1 DEF wqVars, WQInv, WQTypeOK, LockInv, ListInv, WaiterInv, ResumeInv, Granted
  <1>2. CASE TryWait(t) \/ Clear(t)
    BY <1>1, <1>2 DEF TryWait, Clear
  <1>3. CASE Wait(t)
    BY <1>3, ConstructInv DEF Wait, EventCall, Call
  <1>4. CASE WaitNow(t)
    BY <1>4, DontSuspendInv DEF WaitNow
  <1>5. CASE Suspend(t)
    BY <1>5, ParkInv DEF Suspend
  <1>6. CASE Set(t)
    BY <1>1, <1>6, MoveInv DEF Set, wqVars
  <1>7. CASE CountDown(t)
    BY <1>7 DEF CountDown
  <1>8. CASE EventWakeHit(t)
    BY <1>8, WakeOneInv DEF EventWakeHit
  <1>9. CASE EventWakeMiss(t)
    BY <1>9, SkipInv DEF EventWakeMiss
  <1>10. CASE EventQueueStep(t)
    <2>1. ~Pick(t, "out")
      BY DEF Pick, GoTo, WQInv, ResumeInv
    <2>2. QED
      BY <1>10, <2>1, RegisterStopInv, StopReadInv, StopLockInv, StopUnlinkInv,
         SetStoppedInv, WakeLockInv, ScanEndInv, ResumeStepInv, ResumedInv, UnblockedInv
         DEF EventQueueStep
  <1>11. CASE EventStop(t)
    BY <1>11, StopRequestInv DEF EventStop
  <1>12. QED
    BY <1>2, <1>3, <1>4, <1>5, <1>6, <1>7, <1>8, <1>9, <1>10, <1>11 DEF EventStep

-----------------------------------------------------------------------------
\* The signal comes on together with a thread on its way to the queue, a waiter joins
\* only while it is off, and a scan that finds it on stays at the first waiter.
LEMMA EventStepNoLostWakeup ==
    ASSUME EventTypeOK, EventNoLostWakeup, NEW t \in Threads, EventStep(t) \/ EventStop(t)
    PROVE  EventNoLostWakeup'
  <1> SUFFICES ASSUME mIsSet', queue' # <<>>
               PROVE  \E u \in Threads : pc'[u] = "wake" \/ (pc'[u] = "scan" /\ pos' = 1)
    BY DEF EventNoLostWakeup
  <1> USE DEF EventTypeOK, GoTo
  <1>1. CASE WakeLock(t)
    BY <1>1 DEF WakeLock
  <1>2. CASE ~mIsSet
    BY <1>2
       DEF EventStep, EventStop, TryWait, Wait, WaitNow, Suspend, Set, Clear, CountDown,
           EventWakeHit,
           EventWakeMiss, EventQueueStep, TakeSignal
  <1>3. CASE mIsSet /\ ~WakeLock(t)
    <2>1. queue # <<>>
      <3>1. CASE \/ TryWait(t) \/ Wait(t) \/ WaitNow(t) \/ Suspend(t) \/ Set(t)
                 \/ Clear(t) \/ CountDown(t) \/ EventWakeMiss(t) \/ EventStop(t)
                 \/ (EventQueueStep(t) /\ ~StopUnlink(t))
        BY <1>3, <3>1
           DEF TryWait, Wait, WaitNow, Suspend, Set, Clear, CountDown, EventWakeMiss,
               EventStop,
               EventQueueStep, wqVars, Construct, DontSuspend, StopRequest, RegisterStop,
               StopRead, StopLock, SetStopped, ScanEnd, Pick, Resume, Resumed, Unblocked
      <3>2. CASE StopUnlink(t)
        <4>1. \/ \E i \in DOMAIN queue : TRUE
              \/ UNCHANGED queue
          BY <3>2 DEF StopUnlink, Unlink
        <4>2. QED
          BY <4>1
      <3>3. CASE EventWakeHit(t)
        <4>1. pos \in DOMAIN queue
          BY <3>3 DEF EventWakeHit, WakeOne, WakeMore, AtWaiter
        <4>2. QED
          BY <4>1
      <3>4. QED
        BY <3>1, <3>2, <3>3 DEF EventStep
    <2>2. PICK u \in Threads : pc[u] = "wake" \/ (pc[u] = "scan" /\ pos = 1)
      BY <1>3, <2>1 DEF EventNoLostWakeup
    <2>3. kind # "autoclear" \/ ~EventWakeHit(t)
      BY DEF EventWakeHit, TakeSignal
    <2>4. pos' = pos
      BY <1>3, <2>3
         DEF EventStep, EventStop, TryWait, Wait, WaitNow, Suspend, Set, Clear,
             CountDown, EventWakeHit,
             EventWakeMiss, EventQueueStep, wqVars, Construct, DontSuspend, Park,
             StopRequest,
             RegisterStop, StopRead, StopLock, StopUnlink, SetStopped, ScanEnd, Pick,
             Resume, Resumed, Unblocked, WakeMore
    <2>5. ~ScanEnd(t, "out") \/ pos # 1
      <3>1. 1 \in DOMAIN queue
        BY <2>1 DEF WQTypeOK
      <3>2. QED
        BY <3>1 DEF ScanEnd
    <2>6. pc'[u] = pc[u]
      BY <1>3, <2>2, <2>3, <2>5
         DEF EventStep, EventStop, TryWait, Wait, WaitNow, Suspend, Set, Clear,
             CountDown, EventWakeHit,
             EventWakeMiss, EventQueueStep, EventCall, Call, wqVars, Construct,
             DontSuspend, Park,
             StopRequest, RegisterStop, StopRead, StopLock, StopUnlink, SetStopped,
             ScanEnd, Pick, Resume, Resumed, Unblocked, WakeMore
    <2>7. QED
      BY <2>2, <2>4, <2>6
  <1>4. QED
    BY <1>1, <1>2, <1>3

LEMMA EventNextIInv == EventIInv /\ [EventNext]_eventVars => EventIInv'
  <1> SUFFICES ASSUME EventIInv, [EventNext]_eventVars PROVE EventIInv'
    OBVIOUS
  <1> USE DEF EventIInv
  <1>1. CASE UNCHANGED eventVars
    <2>1. WQTypeOK' /\ (WQInv => WQInv')
      BY <1>1
         DEF eventVars, wqVars, WQInv, WQTypeOK, LockInv, ListInv, WaiterInv, ResumeInv,
                  Granted, EventTypeOK
    <2>2. EventTypeOK' /\ EventNoLostWakeup' /\ kind' = kind
      BY <1>1, <2>1 DEF eventVars, wqVars, EventTypeOK, EventNoLostWakeup
    <2>3. QED
      BY <2>1, <2>2
  <1>2. ASSUME NEW t \in Threads, EventStep(t) \/ EventStop(t)
        PROVE  EventIInv'
    <2>1. kind' = kind
      BY <1>2
         DEF EventStep, EventStop, TryWait, Wait, WaitNow, Suspend, Set, Clear,
             CountDown, EventWakeHit,
             EventWakeMiss, EventQueueStep, EventCall, Call, NoCall
    <2>2. QED
      BY <1>2, <2>1, EventStepTypeOK, EventStepWQInv, EventStepNoLostWakeup
  <1>3. QED
    BY <1>1, <1>2 DEF EventNext

LEMMA EventSpecIInv == EventSpec => []EventIInv
  BY EventInitIInv, EventNextIInv, PTL DEF EventSpec

-----------------------------------------------------------------------------
\* The state of an event or a latch keeps its types, also when wakeupAll() and a stop
\* take from the same list; the count of a latch stays within 0..Count.
THEOREM EventTypeCorrect == EventSpec => []EventTypeOK
  <1>1. EventIInv => EventTypeOK
    BY DEF EventIInv
  <1>2. QED
    BY <1>1, EventSpecIInv, PTL

\* While the signal is on, waiters stay queued only if the thread that turned it on
\* has yet to reach the first of them (event.hpp:79-89, latch.hpp:56-63).
THEOREM EventNoWakeupLost == EventSpec => []EventNoLostWakeup
  <1>1. EventIInv => EventNoLostWakeup
    BY DEF EventIInv
  <1>2. QED
    BY <1>1, EventSpecIInv, PTL

\* At an AutoClear event, a coroutine that a stop request settled is not scheduled
\* again (sync.cpp:24-37, 110-124).
THEOREM EventStopIsFinal == EventSpec => []AutoClearStopIsFinal
  <1>1. EventIInv => AutoClearStopIsFinal
    BY WQInvImplies DEF EventIInv, AutoClearStopIsFinal
  <1>2. QED
    BY <1>1, EventSpecIInv, PTL
=============================================================================
