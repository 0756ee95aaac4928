--------------------------- MODULE EventLoopProofs ---------------------------
(***************************************************************************)
(* Proofs about module EventLoop: a coroutine is in one place, and the     *)
(* thread never waits past a timer, for any coroutines, threads, delays    *)
(* and numbers of calls.  What a slice of a coroutine and updateTimers()   *)
(* do to the places of the coroutines is proved in module TimerProofs.     *)
(***************************************************************************)
EXTENDS EventLoop, TimerProofs

-----------------------------------------------------------------------------
(* The inductive invariant: where the coroutines are, and what the thread  *)
(* knows from the end of its local queue until it has swapped the queues.  *)

Waiting == {"pred", "doze", "wait", "notified"}

LoopInv ==
    /\ loopPc \in Waiting \cup {"collect"} => local = <<>>
    /\ loopPc \in Waiting => \A i \in DOMAIN mTimers : until <= mTimers[i].at

IInv == TypeOK /\ Placed(Who(shared)) /\ Once(shared) /\ LoopInv

\* What the steps below leave to themselves.
LoopTypes ==
    /\ loopPc \in Waiting \cup {"local", "collect", "timers", "returned"}
    /\ until \in 0..Never
    /\ runStop \in BOOLEAN
    /\ pc \in [Others -> {"idle", "post", "stop"}]
    /\ calls \in [Others -> 0..Calls]

QueueTypes ==
    /\ st \in [Coros -> Places]
    /\ local \in Seq((Others \cup {Loop}) \X Coros)
    /\ shared \in Seq(Others \X Coros)

Types == now \in 0..MaxTime /\ ServiceTypes /\ QueueTypes /\ LoopTypes

LEMMA TypeIs == TypeOK <=> Types
  BY DEF Types, TypeOK, TimerTypeOK, ServiceTypes, QueueTypes, LoopTypes, Waiting, Timers

-----------------------------------------------------------------------------
LEMMA InitIInv == Init => IInv
  <1> SUFFICES ASSUME Init PROVE IInv
    OBVIOUS
  <1>1. 0 \in 0..MaxTime /\ Slices \in 0..Slices /\ Calls \in 0..Calls /\ Never \in 0..Never
    BY TimerAssumption, EventLoopAssumption DEF Never
  <1>2. ServiceTypes /\ now \in 0..MaxTime
    BY <1>1 DEF Init, TimerInit, ServiceTypes
  <1>3. QueueTypes
    BY DEF Init, TimerInit, QueueTypes, Places
  <1>4. LoopTypes
    BY <1>1 DEF Init, LoopTypes
  <1>5. local = <<>> /\ shared = <<>> /\ mTimers = <<>> /\ st = [c \in Coros |-> "parked"]
    BY DEF Init, TimerInit
  <1>6. Who(<<>>) = {} /\ Once(<<>>) /\ Sleepers(<<>>) = {} /\ Alone(<<>>) /\ Sorted(<<>>)
    BY DEF Who, Once, Sleepers, Alone, Sorted
  <1>7. Placed(Who(shared)) /\ Once(shared)
    BY <1>5, <1>6 DEF Placed
  <1>8. LoopInv
    BY <1>5 DEF Init, LoopInv, Waiting
  <1>9. QED
    BY <1>2, <1>3, <1>4, <1>7, <1>8, TypeIs DEF IInv, Types

\* A slice of a coroutine and updateTimers(), while the shared queue rests.
LEMMA OwnStep ==
    ASSUME IInv, Slice \/ UpdateTimers, UNCHANGED shared
    PROVE  ServiceTypes' /\ QueueTypes' /\ Placed(Who(shared))' /\ Once(shared)'
  <1>1. ServiceTypes /\ QueueTypes /\ now \in Nat
    BY TypeIs, TimerAssumption DEF Types, IInv
  <1>2. PICK rest, T : rest = Who(shared) /\ T = Others \cup {Loop}
    OBVIOUS
  <1>3. /\ Placed(rest) /\ Loop \in T /\ local \in Seq(T \X Coros)
        /\ st \in [Coros -> Places]
    BY <1>1, <1>2 DEF IInv, QueueTypes
  <1>4. /\ ServiceTypes' /\ local' \in Seq(T \X Coros) /\ st' \in [Coros -> Places]
        /\ Placed(rest)'
    <2>1. CASE Slice
      BY <1>1, <1>3, <2>1, SliceKeeps
    <2>2. CASE UpdateTimers
      BY <1>1, <1>3, <2>2, UpdateKeeps
    <2>3. QED
      BY <2>1, <2>2
  <1>5. Who(shared)' = rest /\ Once(shared)'
    BY <1>2 DEF IInv
  <1>6. Placed(Who(shared))'
    BY <1>4, <1>5 DEF Placed
  <1>7. QED
    BY <1>1, <1>2, <1>4, <1>5, <1>6 DEF QueueTypes

\* A step that leaves the coroutines where they are.
LEMMA Untouched ==
    ASSUME IInv, UNCHANGED <<mTimers, local, st, stopReq, slices, shared>>
    PROVE  ServiceTypes' /\ QueueTypes' /\ Placed(Who(shared))' /\ Once(shared)'
  <1>1. ServiceTypes' /\ QueueTypes'
    BY TypeIs DEF Types, IInv, ServiceTypes, QueueTypes
  <1>2. QED
    BY <1>1 DEF IInv, Placed

\* post() of another thread: the coroutine was parked, so nothing of it was posted.
LEMMA PostKeeps ==
    ASSUME IInv, NEW p \in Others, NEW c \in Coros, Post(p, c)
    PROVE  ServiceTypes' /\ QueueTypes' /\ Placed(Who(shared))' /\ Once(shared)'
  <1>1. /\ st[c] = "parked" /\ st' = [st EXCEPT ![c] = "ready"]
        /\ shared' = Append(shared, <<p, c>>)
        /\ UNCHANGED <<mTimers, local, stopReq, slices>>
    BY DEF Post
  <1>2. ServiceTypes /\ QueueTypes /\ Placed(Who(shared)) /\ Once(shared)
    BY TypeIs DEF Types, IInv
  <1>3. PICK q \in Seq(Others \X Coros) : q = shared
    BY <1>2 DEF QueueTypes
  <1>4. /\ Append(q, <<p, c>>) \in Seq(Others \X Coros)
        /\ Who(Append(q, <<p, c>>)) = Who(q) \cup {c}
    BY WhoAppend
  <1>5. c \notin Who(local) /\ c \notin Who(q) /\ c \notin Sleepers(mTimers)
    BY <1>1, <1>2, <1>3 DEF Placed
  <1>6. Once(Append(q, <<p, c>>))
    BY <1>2, <1>3, <1>5, WhoAppend
  <1>7. /\ st' \in [Coros -> Places] /\ st'[c] = "ready"
        /\ \A d \in Coros \ {c} : st'[d] = st[d]
    BY <1>1, <1>2 DEF QueueTypes, Places
  <1>8. ServiceTypes' /\ QueueTypes'
    BY <1>1, <1>2, <1>3, <1>4, <1>7 DEF ServiceTypes, QueueTypes
  <1>9. Who(shared)' = Who(q) \cup {c} /\ Once(shared)'
    BY <1>1, <1>3, <1>4, <1>6
  <1>10. \A d \in Coros : st'[d] = "ready" <=> d \in Who(local) \cup Who(q) \cup {c}
    BY <1>2, <1>3, <1>7 DEF Placed
  <1>11. \A d \in Coros : st'[d] = "asleep" <=> d \in Sleepers(mTimers)
    BY <1>2, <1>5, <1>7 DEF Placed
  <1>12. Who(local) \cap (Who(q) \cup {c}) = {}
    BY <1>2, <1>3, <1>5 DEF Placed
  <1>13. Placed(Who(shared))'
    BY <1>1, <1>2, <1>9, <1>10, <1>11, <1>12 DEF Placed
  <1>14. QED
    BY <1>8, <1>9, <1>13

\* The queues are swapped, and nothing was left in the thread's own.
LEMMA CollectKeeps ==
    ASSUME IInv, Collect
    PROVE  ServiceTypes' /\ QueueTypes' /\ Placed(Who(shared))' /\ Once(shared)'
  <1>1. /\ local = <<>> /\ local' = shared /\ shared' = <<>>
        /\ UNCHANGED <<mTimers, st, stopReq, slices>>
    BY DEF Collect, LoopGoTo, IInv, LoopInv
  <1>2. ServiceTypes /\ QueueTypes /\ Placed(Who(shared)) /\ Once(shared)
    BY TypeIs DEF Types, IInv
  <1>3. Who(<<>>) = {} /\ Once(<<>>)
    BY DEF Who, Once
  <1>4. shared \in Seq((Others \cup {Loop}) \X Coros)
    BY <1>2 DEF QueueTypes
  <1>5. <<>> \in Seq(Others \X Coros)
    OBVIOUS
  <1>6. QueueTypes' /\ ServiceTypes'
    BY <1>1, <1>2, <1>4, <1>5 DEF QueueTypes, ServiceTypes
  <1>7. Placed(Who(shared))' /\ Once(shared)'
    BY <1>1, <1>2, <1>3 DEF Placed
  <1>8. QED
    BY <1>6, <1>7

LEMMA NextIInv == IInv /\ [Next]_vars => IInv'
  <1> DEFINE Coroutines == ServiceTypes' /\ QueueTypes' /\ Placed(Who(shared))' /\ Once(shared)'
             Goal == Coroutines /\ now' \in 0..MaxTime /\ LoopTypes' /\ LoopInv'
  <1>0. Types' => TypeOK'
    BY TypeIs, PTL
  <1> SUFFICES ASSUME IInv, [Next]_vars PROVE Goal
    BY <1>0 DEF IInv, Types
  <1>1. now \in 0..MaxTime /\ LoopTypes /\ LoopInv
    BY TypeIs DEF Types, IInv
  <1>2. CASE RunLocal
    <2>1. /\ Slice /\ loopPc = "local"
          /\ UNCHANGED <<now, shared, loopPc, until, runStop, pc, calls>>
      BY <1>2 DEF RunLocal
    <2>2. Coroutines
      BY <2>1, OwnStep
    <2>3. now' \in 0..MaxTime /\ LoopTypes' /\ LoopInv'
      BY <1>1, <2>1 DEF LoopTypes, LoopInv, Waiting
    <2>4. QED
      BY <2>2, <2>3
  <1>3. ASSUME NEW c \in Coros, RunLast(c)
        PROVE  Goal
    <2>1. /\ Suspend(c) /\ loopPc = "local" /\ runStop' = TRUE
          /\ UNCHANGED <<now, shared, loopPc, until, pc, calls>>
      BY <1>3 DEF RunLast
    <2>2. Coroutines
      BY <2>1, OwnStep DEF Slice
    <2>3. now' \in 0..MaxTime /\ LoopTypes' /\ LoopInv'
      BY <1>1, <2>1 DEF LoopTypes, LoopInv, Waiting
    <2>4. QED
      BY <2>2, <2>3
  <1>4. CASE BeginWait
    <2>1. /\ local = <<>> /\ loopPc' = "pred" /\ until' = NextTimepoint
          /\ UNCHANGED <<timerVars, shared, runStop, pc, calls>>
      BY <1>4 DEF BeginWait, LoopGoTo
    <2>2. Coroutines
      BY <2>1, Untouched DEF timerVars
    <2>3. NextTimepoint \in 0..Never /\ \A i \in DOMAIN mTimers : NextTimepoint <= mTimers[i].at
      BY NextTimepointIs, TypeIs DEF Types, IInv, Placed
    <2>4. LoopTypes'
      BY <1>1, <2>1, <2>3 DEF LoopTypes, Waiting
    <2>5. LoopInv'
      BY <2>1, <2>3 DEF LoopInv, timerVars
    <2>6. now' \in 0..MaxTime /\ LoopTypes' /\ LoopInv'
      BY <1>1, <2>1, <2>4, <2>5 DEF timerVars
    <2>7. QED
      BY <2>2, <2>6
  <1>5. CASE Predicate \/ Doze \/ Notified \/ TimedOut \/ Spurious
    <2>1. /\ loopPc \in Waiting /\ loopPc' \in Waiting \cup {"collect"}
          /\ UNCHANGED <<timerVars, shared, until, runStop, pc, calls>>
      BY <1>5 DEF Predicate, Doze, Notified, TimedOut, Spurious, LoopGoTo, Waiting
    <2>2. Coroutines
      BY <2>1, Untouched DEF timerVars
    <2>3. now' \in 0..MaxTime /\ LoopTypes' /\ LoopInv'
      BY <1>1, <2>1 DEF LoopTypes, LoopInv, timerVars
    <2>4. QED
      BY <2>2, <2>3
  <1>6. CASE Collect
    <2>1. /\ loopPc' \in {"returned", "timers"}
          /\ UNCHANGED <<now, until, runStop, pc, calls>>
      BY <1>6 DEF Collect, LoopGoTo
    <2>2. Coroutines
      BY <1>6, CollectKeeps
    <2>3. now' \in 0..MaxTime /\ LoopTypes' /\ LoopInv'
      BY <1>1, <2>1 DEF LoopTypes, LoopInv, Waiting
    <2>4. QED
      BY <2>2, <2>3
  <1>7. CASE ExpireTimers
    <2>1. /\ UpdateTimers /\ loopPc' = "local"
          /\ UNCHANGED <<now, shared, until, runStop, pc, calls>>
      BY <1>7 DEF ExpireTimers, LoopGoTo
    <2>2. Coroutines
      BY <2>1, OwnStep
    <2>3. now' \in 0..MaxTime /\ LoopTypes' /\ LoopInv'
      BY <1>1, <2>1 DEF LoopTypes, LoopInv, Waiting
    <2>4. QED
      BY <2>2, <2>3
  <1>8. CASE Enter
    <2>1. /\ loopPc' = "local" /\ runStop' = FALSE
          /\ UNCHANGED <<timerVars, shared, until, pc, calls>>
      BY <1>8 DEF Enter, LoopGoTo
    <2>2. Coroutines
      BY <2>1, Untouched DEF timerVars
    <2>3. now' \in 0..MaxTime /\ LoopTypes' /\ LoopInv'
      BY <1>1, <2>1 DEF LoopTypes, LoopInv, Waiting, timerVars
    <2>4. QED
      BY <2>2, <2>3
  <1>9. CASE Time
    <2>1. /\ now' \in 0..MaxTime
          /\ UNCHANGED <<mTimers, local, st, stopReq, slices, shared, loopPc, until, runStop,
                         pc, calls>>
      BY <1>1, <1>9, TimerAssumption DEF Time, Tick
    <2>2. Coroutines
      BY <2>1, Untouched
    <2>3. now' \in 0..MaxTime /\ LoopTypes' /\ LoopInv'
      BY <1>1, <2>1 DEF LoopTypes, LoopInv
    <2>4. QED
      BY <2>2, <2>3
  <1>10. ASSUME NEW p \in Others, NEW c \in Coros, Post(p, c)
         PROVE  Goal
    <2>1. /\ Call(p) /\ pc' = [pc EXCEPT ![p] = "post"]
          /\ UNCHANGED <<now, mTimers, local, loopPc, until, runStop>>
      BY <1>10 DEF Post
    <2>2. Coroutines
      BY <1>10, PostKeeps
    <2>3. calls' \in [Others -> 0..Calls]
      BY <1>1, <2>1, EventLoopAssumption DEF Call, LoopTypes
    <2>4. pc' \in [Others -> {"idle", "post", "stop"}]
      BY <1>1, <2>1 DEF LoopTypes
    <2>5. now' \in 0..MaxTime /\ LoopTypes' /\ LoopInv'
      BY <1>1, <2>1, <2>3, <2>4 DEF LoopTypes, LoopInv
    <2>6. QED
      BY <2>2, <2>5
  <1>11. ASSUME NEW p \in Others, StopRun(p)
         PROVE  Goal
    <2>1. /\ Call(p) /\ pc' = [pc EXCEPT ![p] = "stop"] /\ runStop' = TRUE
          /\ UNCHANGED <<timerVars, shared, loopPc, until>>
      BY <1>11 DEF StopRun
    <2>2. Coroutines
      BY <2>1, Untouched DEF timerVars
    <2>3. calls' \in [Others -> 0..Calls]
      BY <1>1, <2>1, EventLoopAssumption DEF Call, LoopTypes
    <2>4. pc' \in [Others -> {"idle", "post", "stop"}]
      BY <1>1, <2>1 DEF LoopTypes
    <2>5. now' \in 0..MaxTime /\ LoopTypes' /\ LoopInv'
      BY <1>1, <2>1, <2>3, <2>4 DEF LoopTypes, LoopInv, timerVars
    <2>6. QED
      BY <2>2, <2>5
  <1>12. ASSUME NEW p \in Others, Notify(p)
         PROVE  Goal
    <2>1. /\ pc' = [pc EXCEPT ![p] = "idle"]
          /\ loopPc' = IF loopPc = "wait" THEN "notified" ELSE loopPc
          /\ UNCHANGED <<timerVars, shared, until, runStop, calls>>
      BY <1>12 DEF Notify
    <2>2. Coroutines
      BY <2>1, Untouched DEF timerVars
    <2>3. pc' \in [Others -> {"idle", "post", "stop"}]
      BY <1>1, <2>1 DEF LoopTypes
    <2>4. now' \in 0..MaxTime /\ LoopTypes' /\ LoopInv'
      BY <1>1, <2>1, <2>3 DEF LoopTypes, LoopInv, Waiting, timerVars
    <2>5. QED
      BY <2>2, <2>4
  <1>13. CASE UNCHANGED vars
    <2>1. UNCHANGED <<timerVars, shared, loopPc, until, runStop, pc, calls>>
      BY <1>13 DEF vars
    <2>2. Coroutines
      BY <2>1, Untouched DEF timerVars
    <2>3. now' \in 0..MaxTime /\ LoopTypes' /\ LoopInv'
      BY <1>1, <2>1 DEF LoopTypes, LoopInv, timerVars
    <2>4. QED
      BY <2>2, <2>3
  <1>14. QED
    BY <1>2, <1>3, <1>4, <1>5, <1>6, <1>7, <1>8, <1>9, <1>10, <1>11, <1>12, <1>13
    DEF Next, LoopStep, OtherStep

LEMMA SpecIInv == Spec => []IInv
  BY InitIInv, NextIInv, PTL DEF Spec

-----------------------------------------------------------------------------
\* Every variable keeps to its type: callbacks of coroutines in the two queues, timers
\* within the clock, the program counters of run() and of the other threads.
THEOREM TypeCorrect == Spec => []TypeOK
  <1>1. IInv => TypeOK
    BY DEF IInv
  <1>2. QED
    BY <1>1, SpecIInv, PTL

\* A coroutine is posted once while it is ready, has one timer while it sleeps, and is
\* nowhere else: whatever the order of expiry, stop, post() and the swap of the queues,
\* it is resumed once (timer.hpp:207-221, runtime.cpp:76-110).
THEOREM OneOfEach == Spec => []OnePlace
  <1>1. IInv => OnePlace
    <2> SUFFICES ASSUME IInv PROVE OnePlace
      OBVIOUS
    <2>1. TypeOK /\ ServiceTypes /\ QueueTypes /\ Placed(Who(shared)) /\ Once(shared)
      BY TypeIs DEF Types, IInv
    <2>2. PICK T, q, r : /\ T = Others \cup {Loop}
                         /\ q = local /\ q \in Seq(T \X Coros)
                         /\ r = shared /\ r \in Seq(T \X Coros)
      <3>1. /\ local \in Seq((Others \cup {Loop}) \X Coros)
            /\ shared \in Seq((Others \cup {Loop}) \X Coros)
        BY <2>1 DEF QueueTypes
      <3>2. QED
        BY <3>1, Zenon
    <2>3. Once(q) /\ Once(r) /\ Who(q) \cap Who(r) = {}
      BY <2>1, <2>2 DEF Placed
    <2>4. Once(q \o r)
      BY <2>2, <2>3, WhoConcat
    <2>5. ASSUME NEW u PROVE u \in Who(q \o r) <=> u \in Who(q) \/ u \in Who(r)
      <3>1. q \in Seq(T \X Coros) /\ r \in Seq(T \X Coros)
        BY <2>2
      <3>2. QED
        BY <3>1, WhoConcat
    <2>6. Posted = q \o r
      BY <2>2 DEF Posted
    <2>7. \A c \in Coros : st[c] = "ready" <=> \E i \in DOMAIN Posted : Posted[i][2] = c
      <3>1. \A c \in Coros : st[c] = "ready" <=> c \in Who(Posted)
        BY <2>1, <2>2, <2>5, <2>6 DEF Placed
      <3>2. QED
        BY <3>1 DEF Who
    <2>8. \A i, j \in DOMAIN Posted : Posted[i][2] = Posted[j][2] => i = j
      BY <2>4, <2>6 DEF Once
    <2>9. \A c \in Coros : st[c] = "asleep" <=> \E i \in DOMAIN mTimers : mTimers[i].who = c
      BY <2>1 DEF Placed, Sleepers
    <2>10. \A i, j \in DOMAIN mTimers : mTimers[i].who = mTimers[j].who => i = j
      BY <2>1 DEF Placed, Alone
    <2>11. QED
      BY <2>1, <2>7, <2>8, <2>9, <2>10 DEF OnePlace
  <1>2. QED
    BY <1>1, SpecIInv, PTL

\* From the reading of the next timepoint until the thread has woken, no timer is due
\* before the time to which it waits: no other thread makes a timer (runtime.cpp:92-97).
THEOREM NoTimerMissed == Spec => []WakesInTime
  <1>1. IInv => WakesInTime
    BY DEF IInv, LoopInv, WakesInTime, Waiting
  <1>2. QED
    BY <1>1, SpecIInv, PTL

-----------------------------------------------------------------------------
(* The executor that the loop implements.                                  *)

\* Who posts: the other threads and the loop's own.
Posting == Others \cup {Loop}

LEMMA AbstractStep ==
    ASSUME Serves(Posting, Posted, Posted')
    PROVE  Abstract!Next
  BY DEF Serves, Behind, Pending, Posting, StartsWith,
         Abstract!Next, Abstract!Post, Abstract!Run, Abstract!Adds, Abstract!IsPrefix

\* Every step serves the posters as module Executor says, or leaves the queues as they
\* are: of the thread's own callbacks none comes behind one of another thread.
LEMMA NextImplements ==
    ASSUME IInv, [Next]_vars
    PROVE  Serves(Posting, Posted, Posted') \/ Posted' = Posted
  <1> DEFINE Goal == Serves(Posting, Posted, Posted') \/ Posted' = Posted
  <1>1. PICK T : T = Posting
    OBVIOUS
  <1>2. /\ ServiceTypes /\ now \in Nat /\ Loop \in T /\ Others \subseteq T
        /\ local \in Seq(T \X Coros) /\ shared \in Seq(T \X Coros)
        /\ \A i \in DOMAIN shared : shared[i][1] # Loop
    <2>1. ServiceTypes /\ now \in Nat /\ QueueTypes
      BY TypeIs, TimerAssumption DEF Types, IInv
    <2>2. \A i \in DOMAIN shared : shared[i] \in Others \X Coros
      BY <2>1 DEF QueueTypes
    <2>3. \A i \in DOMAIN shared : shared[i][1] # Loop
      BY <2>2, EventLoopAssumption
    <2>4. QED
      BY <1>1, <2>1, <2>3 DEF QueueTypes, Posting
  <1>3. ASSUME UNCHANGED <<local, shared>>
        PROVE  Goal
    BY <1>3 DEF Posted
  <1>4. ASSUME UNCHANGED shared, Slice \/ UpdateTimers
        PROVE  Goal
    <2>1. PICK rest : rest = shared
      OBVIOUS
    <2>2. rest \in Seq(T \X Coros) /\ \A i \in DOMAIN rest : rest[i][1] # Loop
      BY <1>2, <2>1
    <2>3. Serves(T, local \o rest, local' \o rest)
      <3>1. CASE Slice
        BY <1>2, <2>2, <3>1, SliceServes
      <3>2. CASE UpdateTimers
        BY <1>2, <2>2, <3>2, UpdateServes
      <3>3. QED
        BY <1>4, <3>1, <3>2
    <2>4. QED
      BY <1>1, <1>4, <2>1, <2>3 DEF Posted
  <1>5. ASSUME NEW p \in Others, NEW c \in Coros, Post(p, c)
        PROVE  Goal
    <2>1. PICK own, rest, e : own = local /\ rest = shared /\ e = <<p, c>>
      OBVIOUS
    <2>2. /\ own \in Seq(T \X Coros) /\ rest \in Seq(T \X Coros)
          /\ e \in T \X Coros /\ e[1] = p /\ p \in T
      BY <1>2, <2>1
    <2>3. Serves(T, own \o rest, own \o Append(rest, e))
      BY <2>2, PostServes
    <2>4. local' = own /\ shared' = Append(rest, e)
      BY <1>5, <2>1 DEF Post
    <2>5. QED
      BY <1>1, <2>1, <2>3, <2>4 DEF Posted
  <1>6. CASE Collect
    <2>1. local = <<>> /\ local' = shared /\ shared' = <<>>
      BY <1>6 DEF Collect, LoopGoTo, IInv, LoopInv
    <2>2. PICK q : q = shared /\ q \in Seq(T \X Coros)
      BY <1>2
    <2>3. <<>> \o q = q /\ q \o <<>> = q
      BY <2>2, ConcatEmptySeq
    <2>4. QED
      BY <2>1, <2>2, <2>3 DEF Posted
  <1>7. QED
    <2>1. CASE RunLocal \/ \E c \in Coros : RunLast(c)
      BY <1>4, <2>1 DEF RunLocal, RunLast, Slice
    <2>2. CASE ExpireTimers
      BY <1>4, <2>2 DEF ExpireTimers
    <2>3. CASE \/ BeginWait \/ Predicate \/ Doze \/ Notified \/ TimedOut \/ Spurious
               \/ Enter \/ Time \/ UNCHANGED vars
      BY <1>3, <2>3 DEF BeginWait, Predicate, Doze, Notified, TimedOut, Spurious, Enter,
                        Time, Tick, vars, timerVars
    <2>4. CASE \E p \in Others : StopRun(p) \/ Notify(p)
      BY <1>3, <2>4 DEF StopRun, Notify, timerVars
    <2>5. QED
      BY <1>5, <1>6, <2>1, <2>2, <2>3, <2>4 DEF Next, LoopStep, OtherStep

\* The event loop is an executor: whatever thread posts and whenever, each callback runs
\* once, and those of one poster in the order in which it posted them
\* (executor.hpp:28-37, runtime.cpp:50-114).
THEOREM ServesInOrder == Spec => ImplementsExecutor
  <1>1. Init => Abstract!Init
    <2> SUFFICES ASSUME Init PROVE Abstract!Init
      OBVIOUS
    <2>1. local = <<>> /\ shared = <<>> /\ local \o shared = <<>>
      BY DEF Init, TimerInit
    <2>2. \A p : PostedBy(p, <<>>) = <<>>
      BY PostedByNone
    <2>3. Posted = <<>>
      BY <2>1 DEF Posted
    <2>4. QED
      BY <2>2, <2>3 DEF Abstract!Init
  <1>2. ASSUME IInv, [Next]_vars
        PROVE  [Abstract!Next]_([p \in Others \cup {Loop} |-> PostedBy(p, Posted)])
    BY <1>2, NextImplements, AbstractStep
  <1>3. QED
    BY <1>1, <1>2, SpecIInv, PTL DEF Spec, ImplementsExecutor, Abstract!Spec
=============================================================================
