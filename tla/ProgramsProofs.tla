--------------------------- MODULE ProgramsProofs ---------------------------
(***************************************************************************)
(* Theorems of MCPrograms about the programs of the futex lock, the thread *)
(* pool, whenAny, whenAll, the oneshot channel, the signal and the duplex  *)
(* stream, for any number of threads, callables, tasks, waiters and bytes. *)
(***************************************************************************)
EXTENDS MCPrograms, TLAPS, FiniteSetTheorems, SequenceTheorems

-----------------------------------------------------------------------------
(* The futex lock.                                                         *)

LEMMA FutexInit == Lock!Init => Lock!TypeOK /\ Lock!SleepersMarked
  BY DEF Lock!Init, Lock!TypeOK, Lock!SleepersMarked

LEMMA FutexTypeStep ==
    ASSUME Lock!TypeOK, Lock!Next
    PROVE  Lock!TypeOK'
  <1>1. PICK t \in Lockers : Lock!Lock(t) \/ Lock!Try(t) \/ Lock!Mark(t)
                             \/ Lock!Wait(t) \/ Lock!Unlock(t) \/ Lock!NotifyAll(t)
    BY DEF Lock!Next
  <1> USE DEF Lock!TypeOK
  <1>2. CASE Lock!Lock(t)
    BY <1>2 DEF Lock!Lock
  <1>3. CASE Lock!Try(t)
    BY <1>3 DEF Lock!Try, Lock!CompareExchange
  <1>4. CASE Lock!Mark(t)
    BY <1>4 DEF Lock!Mark, Lock!CompareExchange
  <1>5. CASE Lock!Wait(t)
    BY <1>5 DEF Lock!Wait
  <1>6. CASE Lock!Unlock(t)
    BY <1>6 DEF Lock!Unlock
  <1>7. CASE Lock!NotifyAll(t)
    BY <1>7 DEF Lock!NotifyAll
  <1>8. QED
    BY <1>1, <1>2, <1>3, <1>4, <1>5, <1>6, <1>7

\* A compare-exchange that takes a free lock finds nobody inside; one that marks it
\* leaves the owner; unlock() looks at the mark with the exchange.
LEMMA FutexStep ==
    ASSUME Lock!TypeOK, Lock!SleepersMarked, Lock!Next
    PROVE  Lock!SleepersMarked'
  <1>1. PICK t \in Lockers : Lock!Lock(t) \/ Lock!Try(t) \/ Lock!Mark(t)
                             \/ Lock!Wait(t) \/ Lock!Unlock(t) \/ Lock!NotifyAll(t)
    BY DEF Lock!Next
  <1> USE DEF Lock!TypeOK, Lock!SleepersMarked
  <1>2. CASE Lock!Lock(t)
    BY <1>2 DEF Lock!Lock
  <1>3. CASE Lock!Try(t)
    <2>1. CASE v1 = "Unlocked" /\ v1' = "Locked" /\ v2' = [v2 EXCEPT ![t] = "in"]
      <3>1. \A u \in Lockers : v2[u] # "in" /\ v2'[u] = IF u = t THEN "in" ELSE v2[u]
        BY <2>1
      <3>2. v2[t] = "try"
        BY <1>3 DEF Lock!Try
      <3>3. QED
        BY <2>1, <3>1, <3>2
    <2>2. CASE v1' = v1 /\ v2' = [v2 EXCEPT ![t] = "mark"]
      BY <1>3, <2>2 DEF Lock!Try
    <2>3. QED
      BY <1>3, <2>1, <2>2 DEF Lock!Try, Lock!CompareExchange
  <1>4. CASE Lock!Mark(t)
    <2>1. CASE v1 = "Locked" /\ v1' = "LockedWithWaiters" /\ v2' = [v2 EXCEPT ![t] = "wait"]
      BY <1>4, <2>1 DEF Lock!Mark
    <2>2. CASE v1' = v1 /\ v2' = [v2 EXCEPT ![t] = "wait"]
      BY <1>4, <2>2 DEF Lock!Mark
    <2>3. QED
      BY <1>4, <2>1, <2>2 DEF Lock!Mark, Lock!CompareExchange
  <1>5. CASE Lock!Wait(t)
    BY <1>5 DEF Lock!Wait
  <1>6. CASE Lock!Unlock(t)
    BY <1>6 DEF Lock!Unlock
  <1>7. CASE Lock!NotifyAll(t)
    BY <1>7 DEF Lock!NotifyAll
  <1>8. QED
    BY <1>1, <1>2, <1>3, <1>4, <1>5, <1>6, <1>7

\* Each step asks for the permit, gets it, gives it back, or is none of the permit's.
LEMMA FutexIsPermit ==
    ASSUME Lock!TypeOK, Lock!SleepersMarked, Lock!Next
    PROVE  [Lock!permits!MutexNext]_(Lock!permits!vars)
  <1>1. PICK t \in Lockers : Lock!Lock(t) \/ Lock!Try(t) \/ Lock!Mark(t)
                             \/ Lock!Wait(t) \/ Lock!Unlock(t) \/ Lock!NotifyAll(t)
    BY DEF Lock!Next
  <1> USE DEF Lock!TypeOK, Lock!SleepersMarked
  <1>2. CASE Lock!Lock(t)
    <2>1. Lock!permits!Want(t)
      BY <1>2 DEF Lock!Lock, Lock!permits!Want
    <2>2. QED
      BY <2>1 DEF Lock!permits!MutexNext
  <1>3. CASE Lock!Try(t)
    <2>1. CASE v1 = "Unlocked" /\ v1' = "Locked" /\ v2' = [v2 EXCEPT ![t] = "in"]
      <3>1. Lock!permits!Acquire(t)
        BY <1>3, <2>1 DEF Lock!Try, Lock!permits!Acquire
      <3>2. QED
        BY <3>1 DEF Lock!permits!MutexNext
    <2>2. CASE v1' = v1 /\ v2' = [v2 EXCEPT ![t] = "mark"]
      BY <1>3, <2>2 DEF Lock!Try, Lock!permits!vars
    <2>3. QED
      BY <1>3, <2>1, <2>2 DEF Lock!Try, Lock!CompareExchange
  <1>4. CASE Lock!Mark(t)
    BY <1>4 DEF Lock!Mark, Lock!CompareExchange, Lock!permits!vars
  <1>5. CASE Lock!Wait(t)
    BY <1>5 DEF Lock!Wait, Lock!permits!vars
  <1>6. CASE Lock!Unlock(t)
    <2>1. \A u \in Lockers : v2'[u] = IF u = t THEN v2'[t] ELSE v2[u]
      BY <1>6 DEF Lock!Unlock
    <2>2. v2[t] = "in" /\ v2'[t] \in {"notify", "out"} /\ v1 # "Unlocked" /\ v1' = "Unlocked"
      BY <1>6 DEF Lock!Unlock
    <2>3. {u \in Lockers : v2'[u] = "in"} = {u \in Lockers : v2[u] = "in"} \ {t}
      BY <2>1, <2>2
    <2>4. UNCHANGED {u \in Lockers : v2[u] \in {"try", "mark", "wait", "asleep"}}
      BY <2>1, <2>2
    <2>5. Lock!permits!Release(t)
      BY <2>2, <2>3, <2>4 DEF Lock!permits!Release
    <2>6. QED
      BY <2>5 DEF Lock!permits!MutexNext
  <1>7. CASE Lock!NotifyAll(t)
    BY <1>7 DEF Lock!NotifyAll, Lock!permits!vars
  <1>8. QED
    BY <1>1, <1>2, <1>3, <1>4, <1>5, <1>6, <1>7

-----------------------------------------------------------------------------
(* The thread pool.                                                        *)

\* How many of S are at the places in P, and how that changes when one of them goes to
\* another place.
CountAt(S, f, P) == Cardinality({u \in S : f[u] \in P})

Recounted(S, f, g, w, P) ==
    /\ CountAt(S, f, P) \in Nat /\ CountAt(S, g, P) \in Nat
    /\ (f[w] \in P <=> g[w] \in P) => CountAt(S, g, P) = CountAt(S, f, P)
    /\ f[w] \in P /\ g[w] \notin P => CountAt(S, f, P) = CountAt(S, g, P) + 1
    /\ f[w] \notin P /\ g[w] \in P => CountAt(S, g, P) = CountAt(S, f, P) + 1

LEMMA CountAtUpdate ==
    ASSUME NEW S, NEW f, NEW g, NEW w \in S, NEW P,
           IsFiniteSet(S), \A u \in S \ {w} : g[u] = f[u]
    PROVE  Recounted(S, f, g, w, P)
  <1> DEFINE Old == {u \in S : f[u] \in P}
             New == {u \in S : g[u] \in P}
             Rest == {u \in S \ {w} : f[u] \in P}
  <1>1. IsFiniteSet(Rest) /\ Cardinality(Rest) \in Nat
    BY FS_Subset, FS_CardinalityType
  <1>2. Cardinality(Rest \cup {w}) = Cardinality(Rest) + 1
    BY <1>1, FS_AddElement
  <1>3. Old = IF f[w] \in P THEN Rest \cup {w} ELSE Rest
    OBVIOUS
  <1>4. New = IF g[w] \in P THEN Rest \cup {w} ELSE Rest
    OBVIOUS
  <1>5. CountAt(S, f, P) = Cardinality(Old) /\ CountAt(S, g, P) = Cardinality(New)
    BY DEF CountAt
  <1> HIDE DEF Old, New, Rest
  <1>6. QED
    BY <1>1, <1>2, <1>3, <1>4, <1>5 DEF Recounted

LEMMA PoolCardinality == \A S : Pool!Cardinality(S) = Cardinality(S)
  BY DEF Pool!Cardinality, Cardinality, Pool!IsFiniteSet, IsFiniteSet

\* How many workers are at the places in P; where idle counts them, and where they are
\* once they are made.
Workers(P) == CountAt(Pool!Worker, v5, P)
NotBusy == {"check", "dozing", "asleep", "took", "leaving"}
Made == {"check", "dozing", "asleep", "took", "busy", "returning", "leaving", "exited"}

\* The three parts of IdleCounts.
WorkersCounted ==
    /\ v2 = Workers(NotBusy)
    /\ v4 = Workers(Made)
    /\ v1 # <<>> /\ ~v3 =>
           \E w \in Pool!Worker : v5[w] \in {"check", "took", "busy", "returning"}

LEMMA PoolCounts == Pool!TypeOK => (Pool!IdleCounts <=> WorkersCounted)
  <1> SUFFICES ASSUME Pool!TypeOK PROVE Pool!IdleCounts <=> WorkersCounted
    OBVIOUS
  <1>1. Pool!Worker \ {w \in Pool!Worker : v5[w] \in {"none"}} = {w \in Pool!Worker : v5[w] \in Made}
    BY DEF Pool!TypeOK, Made
  <1>2. {w \in Pool!Worker : v5[w] \in {"check", "took", "busy", "returning"}} # {} <=>
        \E w \in Pool!Worker : v5[w] \in {"check", "took", "busy", "returning"}
    OBVIOUS
  <1> HIDE DEF Pool!Worker
  <1>3. QED
    BY <1>1, <1>2, PoolCardinality DEF Pool!IdleCounts, WorkersCounted, Workers, CountAt, NotBusy

LEMMA PoolCountsNext == Pool!TypeOK' => (Pool!IdleCounts' <=> WorkersCounted')
  BY PoolCounts, PTL

LEMMA PoolInit == Pool!Init => Pool!TypeOK /\ Pool!WorkersMade /\ Pool!IdleCounts
  <1> SUFFICES ASSUME Pool!Init PROVE Pool!TypeOK /\ Pool!WorkersMade /\ Pool!IdleCounts
    OBVIOUS
  <1>1. Pool!TypeOK
    <2>1. v1 \in Seq(Callables)
      BY DEF Pool!Init
    <2>2. 0 \in 0..Limit /\ 0 \in Nat
      BY ProgramsAssumption
    <2>3. QED
      BY <2>1, <2>2 DEF Pool!Init, Pool!TypeOK
  <1>2. Pool!WorkersMade
    BY ProgramsAssumption DEF Pool!Init, Pool!WorkersMade, Pool!Worker
  <1>3. Workers(NotBusy) = 0 /\ Workers(Made) = 0
    <2>1. /\ {w \in Pool!Worker : v5[w] \in NotBusy} = {}
          /\ {w \in Pool!Worker : v5[w] \in Made} = {}
      BY DEF Pool!Init, NotBusy, Made
    <2>2. QED
      BY <2>1, FS_EmptySet DEF Workers, CountAt
  <1>4. QED
    BY <1>1, <1>2, <1>3, PoolCounts DEF Pool!Init, WorkersCounted

\* One worker goes to x.
LEMMA WorkerMoves ==
    ASSUME NEW w \in Pool!Worker, NEW x, NEW P, Pool!TypeOK, v5' = [v5 EXCEPT ![w] = x]
    PROVE  /\ Workers(P) \in Nat /\ Workers(P)' \in Nat
           /\ (v5[w] \in P <=> x \in P) => Workers(P)' = Workers(P)
           /\ v5[w] \in P /\ x \notin P => Workers(P) = Workers(P)' + 1
           /\ v5[w] \notin P /\ x \in P => Workers(P)' = Workers(P) + 1
  <1>1. IsFiniteSet(Pool!Worker)
    BY ProgramsAssumption, FS_Interval DEF Pool!Worker
  <1>2. v5'[w] = x /\ \A u \in Pool!Worker \ {w} : v5'[u] = v5[u]
    BY DEF Pool!TypeOK
  <1>3. PICK S, f, g, Q : S = Pool!Worker /\ f = v5 /\ g = v5' /\ Q = P
    OBVIOUS
  <1>4. IsFiniteSet(S) /\ w \in S /\ \A u \in S \ {w} : g[u] = f[u]
    BY <1>1, <1>2, <1>3
  <1>5. Recounted(S, f, g, w, Q)
    BY <1>4, CountAtUpdate
  <1>6. Workers(P) = CountAt(S, f, Q) /\ Workers(P)' = CountAt(S, g, Q)
    BY <1>3 DEF Workers, CountAt, Pool!Worker
  <1>7. QED
    BY <1>2, <1>3, <1>5, <1>6 DEF Recounted

LEMMA MoveCounts ==
    ASSUME Pool!TypeOK, NEW w \in Pool!Worker, NEW x \in Made, v5' = [v5 EXCEPT ![w] = x]
    PROVE  /\ Workers(NotBusy) \in Nat /\ Workers(Made) \in Nat
           /\ (v5[w] \in NotBusy <=> x \in NotBusy) => Workers(NotBusy)' = Workers(NotBusy)
           /\ v5[w] \in NotBusy /\ x \notin NotBusy =>
                  Workers(NotBusy) > 0 /\ Workers(NotBusy)' = Workers(NotBusy) - 1
           /\ v5[w] \notin NotBusy /\ x \in NotBusy => Workers(NotBusy)' = Workers(NotBusy) + 1
           /\ v5[w] = "none" => Workers(Made)' = Workers(Made) + 1
           /\ v5[w] # "none" => Workers(Made)' = Workers(Made)
  <1>1. PICK P, Q : P = NotBusy /\ Q = Made
    OBVIOUS
  <1>2. /\ Workers(P) \in Nat /\ Workers(P)' \in Nat
        /\ (v5[w] \in P <=> x \in P) => Workers(P)' = Workers(P)
        /\ v5[w] \in P /\ x \notin P => Workers(P) = Workers(P)' + 1
        /\ v5[w] \notin P /\ x \in P => Workers(P)' = Workers(P) + 1
    BY WorkerMoves
  <1>3. /\ Workers(Q) \in Nat
        /\ (v5[w] \in Q <=> x \in Q) => Workers(Q)' = Workers(Q)
        /\ v5[w] \notin Q /\ x \in Q => Workers(Q)' = Workers(Q) + 1
    BY WorkerMoves
  <1>4. v5[w] = "none" <=> v5[w] \notin Made
    BY DEF Pool!TypeOK, Made
  <1>5. /\ Workers(P) = Workers(NotBusy) /\ Workers(P)' = Workers(NotBusy)'
        /\ Workers(Q) = Workers(Made) /\ Workers(Q)' = Workers(Made)'
    BY <1>1 DEF Workers, CountAt, NotBusy, Made
  <1>6. QED
    BY <1>1, <1>2, <1>3, <1>4, <1>5

LEMMA SomeWorker ==
    ASSUME NEW P
    PROVE  Workers(P) # 0 <=> \E w \in Pool!Worker : v5[w] \in P
  <1> DEFINE Those == {w \in Pool!Worker : v5[w] \in P}
  <1>1. IsFiniteSet(Pool!Worker)
    BY ProgramsAssumption, FS_Interval DEF Pool!Worker
  <1>2. Those \in SUBSET Pool!Worker
    OBVIOUS
  <1> HIDE DEF Those
  <1>3. IsFiniteSet(Those)
    BY <1>1, <1>2, FS_Subset
  <1>4. Cardinality(Those) # 0 <=> Those # {}
    BY <1>3, FS_EmptySet
  <1>5. QED
    BY <1>4 DEF Workers, CountAt, Those

\* A submit starts a thread only when no worker is idle, asleep ones included, so it
\* changes the place of one worker at most.
Starts(c) ==
    /\ v2' = v2 + 1 /\ v4' = v4 + 1 /\ v4 + 1 \in Pool!Worker
    /\ v5' = [v5 EXCEPT ![v4 + 1] = "check"]
Wakes(c) ==
    /\ UNCHANGED <<v2, v4>>
    /\ \E w \in Pool!Worker : v5[w] = "asleep" /\ v5' = [v5 EXCEPT ![w] = "check"]
Leaves(c) ==
    /\ UNCHANGED <<v2, v4, v5>> /\ (v2 > 0 \/ v4 = Limit)
    /\ \A w \in Pool!Worker : v5[w] \notin {"asleep", "dozing"}

LEMMA SubmitEffect ==
    ASSUME Pool!TypeOK, Pool!WorkersMade, Pool!IdleCounts,
           NEW c \in Callables, Pool!Submit(c)
    PROVE  Starts(c) \/ Wakes(c) \/ Leaves(c)
  <1> DEFINE asleep == {w \in Pool!Worker : v5[w] = "asleep"}
             started == IF Pool!Grows THEN [v5 EXCEPT ![v4 + 1] = "check"] ELSE v5
  <1>1. /\ v4' = IF Pool!Grows THEN v4 + 1 ELSE v4
        /\ v2' = IF Pool!Grows THEN v2 + 1 ELSE v2
        /\ IF asleep = {} THEN v5' = started
           ELSE \E w \in asleep : v5' = [started EXCEPT ![w] = "check"]
        /\ \A w \in Pool!Worker : v5[w] # "dozing"
    BY DEF Pool!Submit, Pool!MutexFree
  <1>2. CASE Pool!Grows
    <2>1. v4 + 1 \in Pool!Worker
      BY <1>2, ProgramsAssumption DEF Pool!Grows, Pool!TypeOK, Pool!Worker
    <2>2. asleep = {}
      <3> SUFFICES ASSUME NEW w \in Pool!Worker, v5[w] = "asleep" PROVE FALSE
        OBVIOUS
      <3>1. CASE v4 = 0
        BY <3>1 DEF Pool!WorkersMade, Pool!Worker
      <3>2. CASE v2 = 0
        <4>1. v5[w] \in NotBusy
          BY DEF NotBusy
        <4>2. QED
          BY <3>2, <4>1, PoolCounts, SomeWorker DEF WorkersCounted
      <3>3. QED
        BY <1>2, <3>1, <3>2 DEF Pool!Grows
    <2>3. QED
      BY <1>1, <1>2, <2>1, <2>2 DEF Starts
  <1>3. CASE ~Pool!Grows
    <2>1. CASE asleep = {}
      <3>1. v2 > 0 \/ v4 = Limit
        BY <1>3, ProgramsAssumption DEF Pool!Grows, Pool!TypeOK
      <3>2. QED
        BY <1>1, <1>3, <2>1, <3>1 DEF Leaves
    <2>2. CASE asleep # {}
      BY <1>1, <1>3, <2>2 DEF Wakes
    <2>3. QED
      BY <2>1, <2>2
  <1>4. QED
    BY <1>2, <1>3

LEMMA SubmitTypes ==
    ASSUME Pool!TypeOK, Pool!WorkersMade, NEW c \in Callables, Pool!Submit(c),
           Starts(c) \/ Wakes(c) \/ Leaves(c)
    PROVE  Pool!TypeOK' /\ Pool!WorkersMade'
  <1>1. v1' \in Seq(Callables) /\ v7' \in [Callables -> {"new", "queued", "invoked"}]
    BY DEF Pool!TypeOK, Pool!Submit
  <1>2. UNCHANGED <<v3, v6, v8>>
    BY DEF Pool!Submit
  <1>3. CASE Starts(c)
    BY <1>1, <1>2, <1>3, ProgramsAssumption DEF Starts, Pool!TypeOK, Pool!WorkersMade, Pool!Worker
  <1>4. CASE Wakes(c)
    BY <1>1, <1>2, <1>4 DEF Wakes, Pool!TypeOK, Pool!WorkersMade
  <1>5. CASE Leaves(c)
    BY <1>1, <1>2, <1>5 DEF Leaves, Pool!TypeOK, Pool!WorkersMade
  <1>6. QED
    BY <1>3, <1>4, <1>5

LEMMA PoolTypeStep ==
    ASSUME Pool!TypeOK, Pool!WorkersMade, Pool!IdleCounts, Pool!Next
    PROVE  Pool!TypeOK' /\ Pool!WorkersMade'
  <1>1. CASE \E c \in Callables : Pool!Submit(c)
    BY <1>1, SubmitEffect, SubmitTypes
  <1>2. CASE \E w \in Pool!Worker : Pool!Check(w)
    <2>1. PICK w \in Pool!Worker : Pool!Check(w)
      BY <1>2
    <2>2. CASE v3
      BY <2>1, <2>2 DEF Pool!TypeOK, Pool!WorkersMade, Pool!Check
    <2>3. CASE ~v3 /\ v1 = <<>>
      BY <2>1, <2>3 DEF Pool!TypeOK, Pool!WorkersMade, Pool!Check
    <2>4. CASE ~v3 /\ v1 # <<>>
      <3>1. Head(v1) \in Callables /\ Tail(v1) \in Seq(Callables)
        BY <2>4 DEF Pool!TypeOK
      <3>2. QED
        BY <2>1, <2>4, <3>1 DEF Pool!TypeOK, Pool!WorkersMade, Pool!Check
    <2>5. QED
      BY <2>2, <2>3, <2>4 DEF Pool!TypeOK
  <1>3. CASE \E w \in Pool!Worker : Pool!Sleep(w) \/ Pool!Spurious(w)
    BY <1>3 DEF Pool!Sleep, Pool!Spurious, Pool!TypeOK, Pool!WorkersMade
  <1>4. CASE \E w \in Pool!Worker : Pool!Busy(w) \/ Pool!Leave(w)
    <2>1. PICK w \in Pool!Worker : Pool!Busy(w) \/ Pool!Leave(w)
      BY <1>4
    <2>2. v5[w] \in NotBusy
      BY <2>1 DEF Pool!Busy, Pool!Leave, NotBusy
    <2>3. v2 = Workers(NotBusy)
      BY PoolCounts DEF WorkersCounted
    <2>4. v2 > 0
      BY <2>1, <2>2, <2>3, MoveCounts DEF Pool!Busy, Pool!Leave, Made, NotBusy
    <2>5. v2 - 1 \in Nat
      BY <2>4 DEF Pool!TypeOK
    <2>6. QED
      BY <2>1, <2>5 DEF Pool!Busy, Pool!Leave, Pool!TypeOK, Pool!WorkersMade
  <1>5. CASE \E w \in Pool!Worker : Pool!Invoke(w) \/ Pool!Return(w)
    BY <1>5 DEF Pool!Invoke, Pool!Return, Pool!TypeOK, Pool!WorkersMade
  <1>6. CASE Pool!RequestStop \/ Pool!Join
    BY <1>6 DEF Pool!RequestStop, Pool!Join, Pool!TypeOK, Pool!WorkersMade
  <1>7. CASE Pool!NotifyAll
    BY <1>7 DEF Pool!NotifyAll, Pool!TypeOK, Pool!WorkersMade
  <1>8. QED
    BY <1>1, <1>2, <1>3, <1>4, <1>5, <1>6, <1>7 DEF Pool!Next, Pool!WorkerStep

\* Who was counted is where he was before, or has said so.
LEMMA PoolCountsStep ==
    ASSUME Pool!TypeOK, Pool!WorkersMade, Pool!IdleCounts, Pool!Next
    PROVE  Pool!IdleCounts'
  <1> DEFINE Awake == {"check", "took", "busy", "returning"}
  <1>1. /\ v2 = Workers(NotBusy) /\ v4 = Workers(Made)
        /\ v1 # <<>> /\ ~v3 => \E w \in Pool!Worker : v5[w] \in Awake
    BY PoolCounts DEF WorkersCounted
  <1>2. Pool!TypeOK' /\ Pool!WorkersMade'
    BY PoolTypeStep
  <1>3. v2 \in Nat /\ v4 \in Nat
    BY ProgramsAssumption DEF Pool!TypeOK
  <1>4. ASSUME NEW c \in Callables, Pool!Submit(c)
        PROVE  /\ v2' = Workers(NotBusy)' /\ v4' = Workers(Made)'
               /\ ~v3 => \E w \in Pool!Worker : v5'[w] \in Awake
    <2>1. CASE Starts(c)
      <3>1. v5[v4 + 1] = "none" /\ v5'[v4 + 1] = "check"
        BY <2>1, <1>3 DEF Starts, Pool!TypeOK, Pool!WorkersMade
      <3>2. QED
        BY <1>1, <1>3, <2>1, <3>1, MoveCounts DEF Starts, NotBusy, Made
    <2>2. CASE Wakes(c)
      <3>1. PICK w \in Pool!Worker : v5[w] = "asleep" /\ v5' = [v5 EXCEPT ![w] = "check"]
        BY <2>2 DEF Wakes
      <3>2. v5'[w] = "check"
        BY <3>1 DEF Pool!TypeOK
      <3>3. QED
        BY <1>1, <2>2, <3>1, <3>2, MoveCounts DEF Wakes, NotBusy, Made
    <2>3. CASE Leaves(c)
      <3>1. Workers(NotBusy)' = Workers(NotBusy) /\ Workers(Made)' = Workers(Made)
        BY <2>3 DEF Leaves, Workers
      <3>2. ASSUME ~v3 PROVE \E w \in Pool!Worker : v5[w] \in Awake
        <4>1. CASE v2 > 0
          <5>1. PICK w \in Pool!Worker : v5[w] \in NotBusy
            BY <1>1, <4>1, SomeWorker
          <5>2. QED
            BY <2>3, <3>2, <5>1 DEF Leaves, NotBusy, Pool!WorkersMade
        <4>2. CASE v4 = Limit
          <5>1. 1 \in Pool!Worker /\ v5[1] # "none"
            BY <4>2, ProgramsAssumption DEF Pool!Worker, Pool!WorkersMade
          <5>2. QED
            BY <2>3, <3>2, <5>1 DEF Leaves, Pool!WorkersMade, Pool!TypeOK
        <4>3. QED
          BY <2>3, <4>1, <4>2 DEF Leaves
      <3>3. QED
        BY <1>1, <2>3, <3>1, <3>2 DEF Leaves
    <2>4. QED
      BY <1>4, <2>1, <2>2, <2>3, SubmitEffect
  <1>5. ASSUME NEW w \in Pool!Worker, Pool!WorkerStep(w) \/ Pool!Spurious(w)
        PROVE  /\ v2' = Workers(NotBusy)' /\ v4' = Workers(Made)'
               /\ v1' # <<>> /\ ~v3' => \E u \in Pool!Worker : v5'[u] \in Awake
    <2>1. CASE Pool!Check(w)
      <3>1. v5[w] = "check" /\ UNCHANGED <<v2, v3, v4>>
        BY <2>1 DEF Pool!Check
      <3>2. PICK x \in {"leaving", "dozing", "took"} : v5' = [v5 EXCEPT ![w] = x]
        BY <2>1 DEF Pool!Check
      <3>3. v3 \/ v1' = <<>> \/ x = "took"
        BY <2>1, <3>2 DEF Pool!Check, Pool!TypeOK
      <3>4. v5'[w] = x
        BY <3>2 DEF Pool!TypeOK
      <3>5. QED
        BY <1>1, <3>1, <3>2, <3>3, <3>4, MoveCounts DEF NotBusy, Made
    <2>2. CASE Pool!Sleep(w)
      BY <2>2, <1>1, MoveCounts DEF Pool!Sleep, NotBusy, Made, Pool!TypeOK
    <2>3. CASE Pool!Spurious(w)
      BY <2>3, <1>1, MoveCounts DEF Pool!Spurious, NotBusy, Made, Pool!TypeOK
    <2>4. CASE Pool!Busy(w)
      BY <2>4, <1>1, MoveCounts DEF Pool!Busy, NotBusy, Made, Pool!TypeOK
    <2>5. CASE Pool!Invoke(w)
      BY <2>5, <1>1, MoveCounts DEF Pool!Invoke, NotBusy, Made, Pool!TypeOK
    <2>6. CASE Pool!Return(w)
      BY <2>6, <1>1, MoveCounts DEF Pool!Return, NotBusy, Made, Pool!TypeOK
    <2>7. CASE Pool!Leave(w)
      <3>1. v3
        BY <2>7 DEF Pool!Leave, Pool!WorkersMade
      <3>2. QED
        BY <2>7, <3>1, <1>1, MoveCounts DEF Pool!Leave, NotBusy, Made, Pool!TypeOK
    <2>8. QED
      BY <1>5, <2>1, <2>2, <2>3, <2>4, <2>5, <2>6, <2>7 DEF Pool!WorkerStep
  <1>6. ASSUME Pool!RequestStop \/ Pool!Join
        PROVE  /\ v2' = Workers(NotBusy)' /\ v4' = Workers(Made)'
               /\ v1' # <<>> /\ ~v3' => \E u \in Pool!Worker : v5'[u] \in Awake
    <2>1. UNCHANGED <<v1, v2, v4, v5>> /\ (v3' = v3 \/ v3')
      BY <1>6 DEF Pool!RequestStop, Pool!Join
    <2>2. Workers(NotBusy)' = Workers(NotBusy) /\ Workers(Made)' = Workers(Made)
      BY <2>1 DEF Workers
    <2>3. QED
      BY <1>1, <2>1, <2>2
  <1>7. ASSUME Pool!NotifyAll
        PROVE  /\ v2' = Workers(NotBusy)' /\ v4' = Workers(Made)'
               /\ v1' # <<>> /\ ~v3' => \E u \in Pool!Worker : v5'[u] \in Awake
    <2>1. /\ UNCHANGED <<v1, v2, v3, v4>>
          /\ v5' = [w \in Pool!Worker |-> IF v5[w] = "asleep" THEN "check" ELSE v5[w]]
      BY <1>7 DEF Pool!NotifyAll
    <2>2. /\ \A w \in Pool!Worker : v5'[w] \in NotBusy <=> v5[w] \in NotBusy
          /\ \A w \in Pool!Worker : v5'[w] \in Made <=> v5[w] \in Made
          /\ \A w \in Pool!Worker : v5[w] \in Awake => v5'[w] \in Awake
      BY <2>1 DEF NotBusy, Made
    <2>3. Workers(NotBusy)' = Workers(NotBusy) /\ Workers(Made)' = Workers(Made)
      BY <2>2 DEF Workers, CountAt
    <2>4. QED
      BY <1>1, <2>1, <2>2, <2>3
  <1>8. /\ v2' = Workers(NotBusy)' /\ v4' = Workers(Made)'
        /\ v1' # <<>> /\ ~v3' => \E w \in Pool!Worker : v5'[w] \in Awake
    <2>1. ASSUME NEW c \in Callables, Pool!Submit(c) PROVE v3' = v3
      BY <2>1 DEF Pool!Submit
    <2>2. QED
      BY <1>4, <1>5, <1>6, <1>7, <2>1 DEF Pool!Next
  <1>9. QED
    BY <1>2, <1>8, PoolCountsNext DEF WorkersCounted

-----------------------------------------------------------------------------
(* whenAny.                                                                *)

LEMMA AnyCardinality == \A S : AnyOf!Cardinality(S) = Cardinality(S)
  BY DEF AnyOf!Cardinality, Cardinality, AnyOf!IsFiniteSet, IsFiniteSet

\* The tasks that run are finitely many, and none is left when all of a set of them end.
LEMMA AnyFewer ==
    ASSUME NEW S \in SUBSET (1..Tasks), NEW T \in SUBSET S
    PROVE  /\ AnyOf!Cardinality(S) \in Nat
           /\ AnyOf!Cardinality(T) \in Nat
           /\ AnyOf!Cardinality(S \ T) \in Nat
           /\ AnyOf!Cardinality(S \ T) = AnyOf!Cardinality(S) - AnyOf!Cardinality(T)
           /\ AnyOf!Cardinality(S) = 0 <=> S = {}
  <1>1. IsFiniteSet(1..Tasks)
    BY ProgramsAssumption, FS_Interval
  <1>2. IsFiniteSet(S) /\ IsFiniteSet(T)
    BY <1>1, FS_Subset
  <1>3. IsFiniteSet(S \ T) /\ Cardinality(S \ T) = Cardinality(S) - Cardinality(S \cap T)
    BY <1>2, FS_Difference
  <1>4. S \cap T = T
    OBVIOUS
  <1>5. Cardinality(S) \in Nat /\ Cardinality(T) \in Nat /\ Cardinality(S \ T) \in Nat
    BY <1>2, <1>3, FS_CardinalityType
  <1>6. Cardinality(S) = 0 <=> S = {}
    BY <1>2, FS_EmptySet
  <1>7. QED
    BY <1>3, <1>4, <1>5, <1>6, AnyCardinality

AnyInv == AnyOf!TypeOK /\ AnyOf!Counted /\ AnyOf!CallerWaits

LEMMA AnyInit == AnyOf!Init => AnyInv
  <1> SUFFICES ASSUME AnyOf!Init PROVE AnyInv
    OBVIOUS
  <1> USE DEF AnyOf!Init, AnyOf!TaskInit, AnyOf!Child, AnyOf!Caller, AnyOf!None
  <1>1. AnyOf!TypeOK
    BY ProgramsAssumption DEF AnyOf!TypeOK
  <1>2. AnyOf!Counted
    <2>1. AnyOf!Live = {}
      BY DEF AnyOf!Live
    <2>2. AnyOf!Cardinality({}) = 0
      BY AnyFewer
    <2>3. QED
      BY <2>1, <2>2 DEF AnyOf!Counted
  <1>3. AnyOf!CallerWaits
    BY DEF AnyOf!CallerWaits
  <1>4. QED
    BY <1>1, <1>2, <1>3 DEF AnyInv

\* What the awaiter knows when it has become w in a step: Counted of the tasks but c,
\* which it counts too.
Knows(w, c) ==
    /\ w \in [started : 0..Tasks, left : Nat, got : (1..Tasks) \cup {0},
              stopRequested : BOOLEAN, suspended : BOOLEAN]
    /\ c <= w.started
    /\ \A d \in 1..Tasks : d # c => (v1[d] = "new" <=> d > w.started)
    /\ w.got # 0 => w.got \in 1..Tasks /\ w.got # c /\ v1[w.got] = "value"
    /\ w.got = 0 => \A d \in 1..Tasks : v1[d] # "value"
    /\ w.got = 0 /\ ~w.stopRequested => v2 \cap (1..Tasks) = {}
    /\ v1[c] \in {"new", "live"}
    /\ w.left = AnyOf!Cardinality(AnyOf!Live \ {c}) + 1

\* onTaskCompleted: of a task that ends where it starts, and of one that ends in the loop.
LEMMA AnyCompletes ==
    ASSUME AnyInv, NEW c \in 1..Tasks, NEW how \in {"value", "stopped"}, NEW w,
           Knows(w, c), how = "stopped" => c \in v2,
           \/ v3 = "running" /\ ~w.suspended /\ v4 = <<>>
           \/ v3 = "suspended" /\ w.suspended /\ v4 = <<>> /\ (w.got = 0 => w.started = Tasks),
           AnyOf!OnTaskCompleted(c, how, w)
    PROVE  AnyInv' /\ v3' # "done" /\ v5'.started = w.started
           /\ (w.got # 0 => v5'.got = w.got /\ v3' # "stopped")
  <1> DEFINE first == how = "value" /\ w.got = 0
  <1>1. PICK S \in SUBSET (IF first THEN AnyOf!Answering(AnyOf!Started(w) \ {c}) ELSE {}) :
            /\ v1' = [d \in 1..Tasks |-> IF d = c THEN how
                                         ELSE IF d \in S THEN "stopped" ELSE v1[d]]
            /\ v2' = IF first THEN v2 \cup AnyOf!Started(w) ELSE v2
            /\ v5' = [w EXCEPT !.got  = IF first THEN c ELSE @,
                               !.left = @ - 1 - AnyOf!Cardinality(S)]
            /\ AnyOf!Wakeup(v5')
    BY DEF AnyOf!OnTaskCompleted, AnyOf!Child, AnyOf!None
  <1>2. /\ S \subseteq AnyOf!Live \ {c} /\ AnyOf!Live \in SUBSET (1..Tasks)
        /\ S \subseteq 1..w.started
        /\ ~first => S = {}
    <2>1. w.started \in 0..Tasks /\ 1..w.started \subseteq 1..Tasks
      BY ProgramsAssumption DEF Knows
    <2>2. ~first => S = {}
      BY <1>1
    <2>3. S \subseteq {d \in 1..w.started : d # c /\ v1[d] = "live"}
      BY <1>1, <2>2 DEF AnyOf!Answering, AnyOf!Started
    <2>4. QED
      BY <2>1, <2>2, <2>3 DEF AnyOf!Live, AnyOf!Child
  <1>3. AnyOf!Live' = (AnyOf!Live \ {c}) \ S
    BY <1>1, <1>2 DEF AnyOf!Live, AnyOf!Child
  <1>4. /\ AnyOf!Cardinality(AnyOf!Live') \in Nat
        /\ AnyOf!Cardinality(AnyOf!Live') = AnyOf!Cardinality(AnyOf!Live \ {c}) - AnyOf!Cardinality(S)
        /\ AnyOf!Cardinality(S) \in Nat
    <2>1. PICK L : L = AnyOf!Live \ {c}
      OBVIOUS
    <2>2. L \in SUBSET (1..Tasks) /\ S \in SUBSET L
      BY <1>2, <2>1
    <2>3. AnyOf!Cardinality(L \ S) \in Nat /\ AnyOf!Cardinality(S) \in Nat
          /\ AnyOf!Cardinality(L \ S) = AnyOf!Cardinality(L) - AnyOf!Cardinality(S)
      BY <2>2, AnyFewer
    <2>4. QED
      BY <1>3, <2>1, <2>3
  <1>5. /\ v5' \in [started : 0..Tasks, left : Nat, got : (1..Tasks) \cup {0},
                    stopRequested : BOOLEAN, suspended : BOOLEAN]
        /\ v5'.started = w.started /\ v5'.stopRequested = w.stopRequested
        /\ v5'.suspended = w.suspended
        /\ v5'.got = IF first THEN c ELSE w.got
        /\ v5'.left = AnyOf!Cardinality(AnyOf!Live')
    <2>1. w.left \in Nat /\ w.left - 1 - AnyOf!Cardinality(S) = AnyOf!Cardinality(AnyOf!Live')
      <3>1. PICK l, k, m : l = w.left /\ k = AnyOf!Cardinality(AnyOf!Live \ {c}) /\ m = AnyOf!Cardinality(S)
        OBVIOUS
      <3>2. l = k + 1 /\ m \in Nat /\ k - m \in Nat /\ k \in Nat
        <4>1. AnyOf!Cardinality(AnyOf!Live \ {c}) \in Nat
          BY <1>2, AnyFewer
        <4>2. QED
          BY <4>1, <1>4, <3>1 DEF Knows
      <3>3. l \in Nat /\ l - 1 - m = k - m
        BY <3>2
      <3>4. QED
        BY <3>1, <3>3, <1>4
    <2>2. PICK n : n = w.left - 1 - AnyOf!Cardinality(S)
      OBVIOUS
    <2>3. n \in Nat /\ n = AnyOf!Cardinality(AnyOf!Live')
      BY <2>1, <2>2, <1>4
    <2>4. v5' = [w EXCEPT !.got  = IF first THEN c ELSE @, !.left = n]
      BY <1>1, <2>2
    <2>5. QED
      BY <2>3, <2>4 DEF Knows
  <1>6. AnyOf!Counted'
    <2>1. \A d \in 1..Tasks : v1'[d] = IF d = c THEN how ELSE IF d \in S THEN "stopped" ELSE v1[d]
      BY <1>1
    <2>2. \A d \in 1..Tasks : v1'[d] = "new" <=> d > v5'.started
      BY <2>1, <1>2, <1>5 DEF Knows, AnyOf!Live
    <2>3. v5'.got # 0 => v1'[v5'.got] = "value"
      BY <2>1, <1>2, <1>5 DEF Knows, AnyOf!Live
    <2>4. v5'.got = 0 => \A d \in 1..Tasks : v1'[d] # "value"
      BY <2>1, <1>2, <1>5 DEF Knows
    <2>5. v5'.got = 0 /\ ~v5'.stopRequested => v2' \cap (1..Tasks) = {}
      BY <1>1, <1>5 DEF Knows
    <2>6. \A d \in 1..Tasks : v1'[d] = "stopped" => d \in v2'
      <3>1. v2 \subseteq v2' /\ S \subseteq v2'
        BY <1>1, <1>2 DEF AnyOf!Started
      <3>2. \A d \in 1..Tasks : v1[d] = "stopped" => d \in v2
        BY DEF AnyInv, AnyOf!Counted, AnyOf!Child
      <3>3. QED
        BY <2>1, <3>1, <3>2
    <2>7. QED
      BY <2>2, <2>3, <2>4, <2>5, <2>6, <1>5 DEF AnyOf!Counted, AnyOf!Child, AnyOf!None
  <1>7. /\ AnyOf!CallerWaits' /\ v3' \in {"running", "suspended", "stopped"}
        /\ v4' \in {<<>>, <<AnyOf!Resumption>>}
        /\ (w.got # 0 => v3' # "stopped")
    <2>1. CASE ~w.suspended \/ v5'.left # 0
      <3>1. v3' = v3 /\ v4' = v4
        BY <1>1, <1>5, <2>1 DEF AnyOf!Wakeup
      <3>2. QED
        BY <3>1, <1>5 DEF AnyOf!CallerWaits, AnyOf!None
    <2>2. CASE w.suspended /\ v5'.left = 0 /\ w.stopRequested /\ v5'.got = 0
      <3>1. v3' = "stopped" /\ v4' = <<>>
        BY <1>1, <1>5, <2>2 DEF AnyOf!Wakeup, AnyOf!None
      <3>2. w.got = 0
        BY <2>2, <1>5
      <3>3. QED
        BY <3>1, <3>2, <1>5, <2>2 DEF AnyOf!CallerWaits, AnyOf!None
    <2>3. CASE w.suspended /\ v5'.left = 0 /\ ~(w.stopRequested /\ v5'.got = 0)
      <3>1. v3' = "suspended" /\ v4' = <<AnyOf!Resumption>>
        BY <1>1, <1>5, <2>3 DEF AnyOf!Wakeup, AnyOf!None, AnyOf!Schedule
      <3>2. v5'.got # 0
        BY <2>3, <1>5 DEF Knows
      <3>3. QED
        BY <3>1, <3>2, <1>5, <2>3 DEF AnyOf!CallerWaits, AnyOf!None, AnyOf!Resumption, AnyOf!Posted
    <2>4. QED
      BY <2>1, <2>2, <2>3
  <1>8. AnyOf!TypeOK'
    <2>1. v1' \in [1..Tasks -> {"new", "live", "value", "stopped"}]
      BY <1>1 DEF AnyInv, AnyOf!TypeOK, AnyOf!Child
    <2>2. v2' \subseteq (1..Tasks) \cup {0}
      <3>1. 1..w.started \subseteq 1..Tasks
        BY ProgramsAssumption DEF Knows
      <3>2. v2 \subseteq (1..Tasks) \cup {0}
        BY DEF AnyInv, AnyOf!TypeOK, AnyOf!Child, AnyOf!Caller
      <3>3. QED
        BY <1>1, <3>1, <3>2 DEF AnyOf!Started
    <2>3. QED
      BY <2>1, <2>2, <1>5, <1>7 DEF AnyOf!TypeOK, AnyOf!Child, AnyOf!Caller, AnyOf!None
  <1>9. QED
    BY <1>5, <1>6, <1>7, <1>8 DEF AnyInv, Knows

\* onStopRequested, of a caller that is suspended or registers its stop callback.
LEMMA AnyStops ==
    ASSUME AnyInv, NEW w, v4 = <<>>,
           w = v5 \/ w = [v5 EXCEPT !.suspended = TRUE], w.suspended,
           w.got = 0 => w.started = Tasks,
           v5.got = 0 \/ v5.left # 0,
           AnyOf!OnStopRequested(w)
    PROVE  AnyInv' /\ v5'.started = v5.started
           /\ (v5.got # 0 => v5'.got = v5.got /\ v3' # "stopped")
  <1>1. PICK S \in SUBSET AnyOf!Answering(AnyOf!Started(w)) :
            /\ v1' = [d \in 1..Tasks |-> IF d \in S THEN "stopped" ELSE v1[d]]
            /\ v2' = v2 \cup AnyOf!Started(w) \cup {0}
            /\ v5' = [w EXCEPT !.stopRequested = TRUE,
                               !.left = @ - AnyOf!Cardinality(S)]
            /\ IF S = {} THEN v3' = "suspended" /\ UNCHANGED v4
               ELSE IF v5'.left = 0 /\ w.got = 0
               THEN v3' = "stopped" /\ UNCHANGED v4
               ELSE IF v5'.left = 0 THEN AnyOf!Schedule(AnyOf!Resumption) /\ v3' = "suspended"
               ELSE v3' = "suspended" /\ UNCHANGED v4
    BY DEF AnyOf!OnStopRequested, AnyOf!Child, AnyOf!None, AnyOf!Caller
  <1> USE DEF AnyOf!Child, AnyOf!None, AnyOf!Caller
  <1>2. /\ w \in [started : 0..Tasks, left : Nat, got : (1..Tasks) \cup {0},
                   stopRequested : BOOLEAN, suspended : BOOLEAN]
        /\ w.started = v5.started /\ w.left = v5.left /\ w.got = v5.got
    BY DEF AnyInv, AnyOf!TypeOK
  <1>3. S \subseteq AnyOf!Live /\ AnyOf!Live \in SUBSET (1..Tasks) /\ S \subseteq 1..w.started
    <2>1. 1..w.started \subseteq 1..Tasks
      BY <1>2, ProgramsAssumption
    <2>2. S \subseteq {d \in 1..w.started : v1[d] = "live"}
      BY <1>1 DEF AnyOf!Answering, AnyOf!Started
    <2>3. QED
      BY <2>1, <2>2 DEF AnyOf!Live
  <1>4. AnyOf!Live' = AnyOf!Live \ S
    BY <1>1, <1>3 DEF AnyOf!Live
  <1>5. /\ AnyOf!Cardinality(AnyOf!Live') \in Nat
        /\ AnyOf!Cardinality(AnyOf!Live') = w.left - AnyOf!Cardinality(S)
        /\ S = {} => AnyOf!Cardinality(S) = 0
    <2>1. PICK L : L = AnyOf!Live
      OBVIOUS
    <2>2. AnyOf!Cardinality(L \ S) \in Nat /\ AnyOf!Cardinality(S) \in Nat
          /\ AnyOf!Cardinality(L \ S) = AnyOf!Cardinality(L) - AnyOf!Cardinality(S)
      BY <1>3, <2>1, AnyFewer
    <2>3. w.left = AnyOf!Cardinality(L)
      BY <2>1, <1>2 DEF AnyInv, AnyOf!Counted
    <2>4. S = {} => AnyOf!Cardinality(S) = 0
      BY AnyFewer
    <2>5. QED
      BY <1>4, <2>1, <2>2, <2>3, <2>4
  <1>6. PICK n : n = w.left - AnyOf!Cardinality(S)
    OBVIOUS
  <1>7. n \in Nat /\ n = AnyOf!Cardinality(AnyOf!Live') /\ (S = {} => n = w.left)
    BY <1>5, <1>6, <1>2
  <1>8. /\ v5' \in [started : 0..Tasks, left : Nat, got : (1..Tasks) \cup {0},
                     stopRequested : BOOLEAN, suspended : BOOLEAN]
        /\ v5'.started = v5.started /\ v5'.stopRequested
        /\ v5'.suspended
        /\ v5'.got = v5.got
        /\ v5'.left = n
    <2>1. v5' = [w EXCEPT !.stopRequested = TRUE, !.left = n]
      BY <1>1, <1>6
    <2>2. QED
      BY <2>1, <1>2, <1>7
  <1>9. AnyOf!Counted'
    <2>1. \A d \in 1..Tasks : v1'[d] = IF d \in S THEN "stopped" ELSE v1[d]
      BY <1>1
    <2>2. v2 \subseteq v2' /\ S \subseteq v2'
      BY <1>1, <1>3 DEF AnyOf!Started
    <2>3. QED
      BY <2>1, <2>2, <1>3, <1>7, <1>8 DEF AnyInv, AnyOf!Counted, AnyOf!Live
  <1>10. /\ AnyOf!CallerWaits' /\ v3' \in {"suspended", "stopped"}
         /\ v4' \in {<<>>, <<AnyOf!Resumption>>}
         /\ (v5.got # 0 => v3' # "stopped")
    <2>1. CASE S = {}
      BY <1>1, <1>2, <1>7, <1>8, <2>1 DEF AnyOf!CallerWaits
    <2>2. CASE S # {} /\ n = 0 /\ w.got = 0
      BY <1>1, <1>2, <1>8, <2>2 DEF AnyOf!CallerWaits
    <2>3. CASE S # {} /\ n = 0 /\ w.got # 0
      <3>1. v3' = "suspended" /\ v4' = <<AnyOf!Resumption>>
        BY <1>1, <1>8, <2>3 DEF AnyOf!Schedule
      <3>2. QED
        BY <3>1, <1>2, <1>8, <2>3 DEF AnyOf!CallerWaits, AnyOf!Resumption, AnyOf!Posted
    <2>4. CASE S # {} /\ n # 0
      BY <1>1, <1>2, <1>8, <2>4 DEF AnyOf!CallerWaits
    <2>5. QED
      BY <2>1, <2>2, <2>3, <2>4
  <1>11. AnyOf!TypeOK'
    <2>1. v1' \in [1..Tasks -> {"new", "live", "value", "stopped"}]
      BY <1>1 DEF AnyInv, AnyOf!TypeOK
    <2>2. v2' \subseteq (1..Tasks) \cup {0}
      <3>1. 1..w.started \subseteq 1..Tasks
        BY <1>2, ProgramsAssumption
      <3>2. QED
        BY <1>1, <3>1 DEF AnyInv, AnyOf!TypeOK, AnyOf!Started
    <2>3. QED
      BY <2>1, <2>2, <1>8, <1>10 DEF AnyOf!TypeOK
  <1>12. QED
    BY <1>8, <1>9, <1>10, <1>11 DEF AnyInv

\* A value that was got stays: AnyInv, and what a step may not do.
LEMMA AnyStep ==
    ASSUME AnyInv, AnyOf!Next
    PROVE  AnyInv' /\ AnyOf!FirstWins /\ AnyOf!OneOutcome
  <1> USE DEF AnyOf!Child, AnyOf!None, AnyOf!Caller
  <1>1. CASE AnyOf!Start
    <2> DEFINE c == v5.started + 1
               w == [v5 EXCEPT !.started = c, !.left = @ + 1]
    <2>1. /\ v3 = "running" /\ v5.got = 0 /\ c <= Tasks
          /\ \/ v1' = [v1 EXCEPT ![c] = "live"] /\ v5' = w /\ UNCHANGED <<v2, v3, v4>>
             \/ AnyOf!OnTaskCompleted(c, "value", w)
      BY <1>1 DEF AnyOf!Start
    <2>2. /\ c \in 1..Tasks /\ v1[c] = "new" /\ ~v5.suspended /\ v4 = <<>>
          /\ v5.started \in 0..Tasks /\ v5.left \in Nat
      BY <2>1, ProgramsAssumption DEF AnyInv, AnyOf!TypeOK, AnyOf!Counted, AnyOf!CallerWaits
    <2>3. /\ w \in [started : 0..Tasks, left : Nat, got : (1..Tasks) \cup {0},
                     stopRequested : BOOLEAN, suspended : BOOLEAN]
          /\ w.started = c /\ w.left = v5.left + 1 /\ w.got = 0 /\ ~w.suspended
          /\ w.stopRequested = v5.stopRequested
      <3>1. PICK n : n = v5.left + 1
        OBVIOUS
      <3>2. n \in Nat
        BY <3>1, <2>2
      <3>3. w = [v5 EXCEPT !.started = c, !.left = n]
        BY <3>1
      <3>4. c \in 0..Tasks
        BY <2>2, ProgramsAssumption
      <3> HIDE DEF c, w
      <3>5. QED
        BY <3>1, <3>2, <3>3, <3>4, <2>1, <2>2 DEF AnyInv, AnyOf!TypeOK
    <2>4. v5.left = AnyOf!Cardinality(AnyOf!Live) /\ AnyOf!Live \ {c} = AnyOf!Live
      BY <2>2 DEF AnyInv, AnyOf!Counted, AnyOf!Live
    <2> HIDE DEF c, w
    <2>5. Knows(w, c)
      <3>1. v1 \in [1..Tasks -> {"new", "live", "value", "stopped"}]
            /\ \A d \in 1..Tasks : v1[d] = "new" <=> d > v5.started
        BY DEF AnyInv, AnyOf!Counted, AnyOf!TypeOK
      <3>2. \A d \in 1..Tasks : d # c => (v1[d] = "new" <=> d > w.started)
        BY <3>1, <2>2, <2>3 DEF c
      <3>3. w.left = AnyOf!Cardinality(AnyOf!Live \ {c}) + 1
        BY <2>3, <2>4
      <3>4. QED
        BY <3>2, <3>3, <2>1, <2>2, <2>3 DEF Knows, AnyInv, AnyOf!Counted
    <2>6. CASE AnyOf!OnTaskCompleted(c, "value", w)
      BY <2>1, <2>2, <2>3, <2>5, <2>6, AnyCompletes DEF AnyOf!FirstWins, AnyOf!OneOutcome
    <2>7. CASE v1' = [v1 EXCEPT ![c] = "live"] /\ v5' = w /\ UNCHANGED <<v2, v3, v4>>
      <3>1. \A d \in 1..Tasks : v1'[d] = IF d = c THEN "live" ELSE v1[d]
        BY <2>7 DEF AnyInv, AnyOf!TypeOK
      <3>2. AnyOf!TypeOK'
        BY <2>2, <2>3, <2>7 DEF AnyInv, AnyOf!TypeOK
      <3>3. w.left = AnyOf!Cardinality(AnyOf!Live')
        <4>1. PICK L : L = AnyOf!Live'
          OBVIOUS
        <4>2. L \in SUBSET (1..Tasks) /\ {c} \in SUBSET L /\ L \ {c} = AnyOf!Live
          BY <4>1, <3>1, <2>2 DEF AnyOf!Live
        <4>3. AnyOf!Cardinality({c}) = 1
          BY FS_Singleton, AnyCardinality
        <4>4. /\ AnyOf!Cardinality(L) \in Nat
              /\ AnyOf!Cardinality(L \ {c}) = AnyOf!Cardinality(L) - AnyOf!Cardinality({c})
          BY <4>2, AnyFewer
        <4>5. PICK k, m : k = AnyOf!Cardinality(L) /\ m = v5.left
          OBVIOUS
        <4>6. m = k - 1 /\ k \in Nat /\ m \in Nat
          BY <4>2, <4>3, <4>4, <4>5, <2>2, <2>4
        <4>7. w.left = k
          <5>1. w.left = m + 1
            BY <4>5, <2>3
          <5>2. QED
            BY <4>6, <5>1
        <4>8. AnyOf!Cardinality(AnyOf!Live') = k
          BY <4>1, <4>5, Zenon
        <4>9. QED
          BY <4>7, <4>8
      <3>4. AnyOf!Counted'
        BY <3>1, <3>3, <2>1, <2>2, <2>3, <2>7 DEF AnyInv, AnyOf!Counted, AnyOf!TypeOK, c
      <3>5. AnyOf!CallerWaits'
        BY <2>1, <2>2, <2>3, <2>7 DEF AnyOf!CallerWaits
      <3>6. QED
        BY <3>2, <3>4, <3>5, <2>1 DEF AnyInv, AnyOf!FirstWins, AnyOf!OneOutcome
    <2>8. QED
      BY <2>1, <2>6, <2>7
  <1>2. CASE AnyOf!Suspend
    <2>1. /\ v3 = "running" /\ (v5.got # 0 \/ v5.started = Tasks)
          /\ ~v5.suspended /\ v4 = <<>>
      BY <1>2 DEF AnyOf!Suspend, AnyInv, AnyOf!CallerWaits
    <2>2. CASE v5.got # 0 /\ v5.left = 0
      <3>1. v3' = "done" /\ UNCHANGED <<v1, v2, v4, v5>>
        BY <1>2, <2>2 DEF AnyOf!Suspend
      <3>2. QED
        BY <3>1, <2>1, <2>2 DEF AnyInv, AnyOf!TypeOK, AnyOf!Counted, AnyOf!Live, AnyOf!CallerWaits,
                                AnyOf!FirstWins, AnyOf!OneOutcome
    <2>3. CASE ~(v5.got # 0 /\ v5.left = 0) /\ 0 \in v2
      <3>1. AnyOf!OnStopRequested([v5 EXCEPT !.suspended = TRUE])
        BY <1>2, <2>3 DEF AnyOf!Suspend
      <3>2. PICK w : w = [v5 EXCEPT !.suspended = TRUE]
        OBVIOUS
      <3>3. w.suspended /\ (w.got = 0 => w.started = Tasks)
        BY <3>2, <2>1 DEF AnyInv, AnyOf!TypeOK
      <3>4. QED
        BY <3>1, <3>2, <3>3, <2>1, <2>3, AnyStops DEF AnyOf!FirstWins, AnyOf!OneOutcome
    <2>4. CASE ~(v5.got # 0 /\ v5.left = 0) /\ 0 \notin v2
      <3>1. /\ v5' = [v5 EXCEPT !.suspended = TRUE] /\ v3' = "suspended"
            /\ UNCHANGED <<v1, v2, v4>>
        BY <1>2, <2>4 DEF AnyOf!Suspend
      <3>2. /\ v5' \in [started : 0..Tasks, left : Nat, got : (1..Tasks) \cup {0},
                        stopRequested : BOOLEAN, suspended : BOOLEAN]
            /\ v5'.started = v5.started /\ v5'.left = v5.left /\ v5'.got = v5.got
            /\ v5'.stopRequested = v5.stopRequested /\ v5'.suspended
        BY <3>1 DEF AnyInv, AnyOf!TypeOK
      <3>3. AnyOf!Live' = AnyOf!Live
        BY <3>1 DEF AnyOf!Live
      <3>4. AnyOf!TypeOK' /\ AnyOf!CallerWaits'
        BY <3>1, <3>2, <2>1 DEF AnyInv, AnyOf!TypeOK, AnyOf!CallerWaits
      <3>5. AnyOf!Counted'
        BY <3>1, <3>2, <3>3 DEF AnyInv, AnyOf!Counted
      <3>6. QED
        BY <3>1, <3>2, <3>4, <3>5, <2>1 DEF AnyInv, AnyOf!FirstWins, AnyOf!OneOutcome
    <2>5. QED
      BY <2>2, <2>3, <2>4
  <1>3. CASE AnyOf!Stop
    <2>1. v3 = "suspended" /\ v5.suspended /\ (v5.got = 0 => v5.started = Tasks)
          /\ AnyOf!OnStopRequested(v5)
      BY <1>3 DEF AnyOf!Stop, AnyInv, AnyOf!CallerWaits
    <2>2. CASE v4 = <<>> /\ (v5.got = 0 \/ v5.left # 0)
      BY <2>1, <2>2, AnyStops DEF AnyOf!FirstWins, AnyOf!OneOutcome
    <2>3. CASE v5.left = 0 /\ v5.got # 0
      <3>1. AnyOf!Live = {}
        <4>1. AnyOf!Live \in SUBSET (1..Tasks) /\ AnyOf!Cardinality(AnyOf!Live) = 0
          BY <2>3 DEF AnyInv, AnyOf!Counted, AnyOf!Live
        <4>2. PICK L : L = AnyOf!Live
          OBVIOUS
        <4>3. QED
          BY <4>1, <4>2, AnyFewer
      <3>2. /\ v1' = [d \in 1..Tasks |-> v1[d]]
            /\ v2' = v2 \cup AnyOf!Started(v5) \cup {0}
            /\ v5' = [v5 EXCEPT !.stopRequested = TRUE, !.left = @ - AnyOf!Cardinality({})]
            /\ v3' = "suspended" /\ UNCHANGED v4
        <4>1. AnyOf!Answering(AnyOf!Started(v5)) = {}
          <5>1. 1..v5.started \subseteq 1..Tasks
            BY ProgramsAssumption DEF AnyInv, AnyOf!TypeOK
          <5>2. QED
            BY <3>1, <5>1 DEF AnyOf!Answering, AnyOf!Started, AnyOf!Live
        <4>2. QED
          BY <2>1, <4>1 DEF AnyOf!OnStopRequested
      <3>3. /\ v1' = v1
            /\ v5' \in [started : 0..Tasks, left : Nat, got : (1..Tasks) \cup {0},
                        stopRequested : BOOLEAN, suspended : BOOLEAN]
            /\ v5'.started = v5.started /\ v5'.left = v5.left /\ v5'.got = v5.got
            /\ v5'.stopRequested /\ v5'.suspended = v5.suspended
        <4>1. AnyOf!Cardinality({}) = 0
          BY AnyFewer
        <4>2. PICK n : n = v5.left - AnyOf!Cardinality({})
          OBVIOUS
        <4>3. n = v5.left
          BY <4>1, <4>2 DEF AnyInv, AnyOf!TypeOK
        <4>4. v5' = [v5 EXCEPT !.stopRequested = TRUE, !.left = n]
          BY <3>2, <4>2
        <4>5. QED
          BY <3>2, <4>3, <4>4 DEF AnyInv, AnyOf!TypeOK
      <3>4. v2' \subseteq (1..Tasks) \cup {0}
        <4>1. 1..v5.started \subseteq 1..Tasks
          BY ProgramsAssumption DEF AnyInv, AnyOf!TypeOK
        <4>2. QED
          BY <3>2, <4>1 DEF AnyInv, AnyOf!TypeOK, AnyOf!Started
      <3>5. AnyOf!TypeOK'
        BY <2>1, <3>2, <3>3, <3>4 DEF AnyInv, AnyOf!TypeOK
      <3>6. AnyOf!Counted'
        <4>1. AnyOf!Live' = AnyOf!Live
          BY <3>3 DEF AnyOf!Live
        <4>2. v2 \subseteq v2'
          BY <3>2
        <4>3. QED
          BY <3>3, <4>1, <4>2, <2>3 DEF AnyInv, AnyOf!Counted
      <3>7. AnyOf!CallerWaits'
        BY <3>2, <3>3, <2>1, <2>3 DEF AnyInv, AnyOf!TypeOK, AnyOf!CallerWaits
      <3>8. QED
        BY <3>2, <3>3, <3>5, <3>6, <3>7, <2>1 DEF AnyInv, AnyOf!TypeOK, AnyOf!FirstWins, AnyOf!OneOutcome
    <2>4. QED
      BY <2>1, <2>2, <2>3 DEF AnyInv, AnyOf!CallerWaits, AnyOf!TypeOK
  <1>4. CASE AnyOf!Resume
    <2>1. /\ v3 # "running" /\ v4 # <<>> /\ v4' = Tail(v4) /\ v3' = "done"
          /\ UNCHANGED <<v1, v2, v5>>
      BY <1>4 DEF AnyOf!Resume, AnyOf!Runs, AnyOf!Idle
    <2>2. v4 = <<AnyOf!Resumption>> /\ v4' = <<>>
      <3>1. PICK x : x = AnyOf!Resumption
        OBVIOUS
      <3>2. v4 = <<x>>
        BY <2>1, <3>1 DEF AnyInv, AnyOf!TypeOK
      <3>3. QED
        BY <2>1, <3>1, <3>2
    <2>4. v3 = "suspended"
      BY <2>1 DEF AnyInv, AnyOf!TypeOK, AnyOf!CallerWaits
    <2>3. QED
      BY <2>1, <2>2, <2>4 DEF AnyInv, AnyOf!TypeOK, AnyOf!Counted, AnyOf!Live, AnyOf!CallerWaits,
                        AnyOf!FirstWins, AnyOf!OneOutcome
  <1>5. CASE \E c \in 1..Tasks : AnyOf!End(c)
    <2>1. PICK c \in 1..Tasks, how \in {"value", "stopped"} :
              how \in AnyOf!Outcomes(c) /\ v3 # "running" /\ v1[c] = "live" /\ AnyOf!OnTaskCompleted(c, how, v5)
      <3>1. PICK c \in 1..Tasks : AnyOf!End(c)
        BY <1>5
      <3>2. QED
        BY <3>1 DEF AnyOf!End, AnyOf!Idle, AnyOf!Outcomes
    <2>2. how \in {"value", "stopped"} /\ (how = "stopped" => c \in v2)
      BY <2>1 DEF AnyOf!Outcomes
    <2>3. /\ v5.left = AnyOf!Cardinality(AnyOf!Live \ {c}) + 1
          /\ v5.left # 0
      <3>1. PICK L : L = AnyOf!Live
        OBVIOUS
      <3>2. L \in SUBSET (1..Tasks) /\ {c} \in SUBSET L
        BY <2>1, <3>1 DEF AnyOf!Live
      <3>3. AnyOf!Cardinality({c}) = 1
        BY FS_Singleton, AnyCardinality
      <3>4. /\ AnyOf!Cardinality(L \ {c}) \in Nat /\ AnyOf!Cardinality(L) \in Nat
            /\ AnyOf!Cardinality(L \ {c}) = AnyOf!Cardinality(L) - AnyOf!Cardinality({c})
        BY <3>2, AnyFewer
      <3>5. QED
        BY <3>1, <3>3, <3>4 DEF AnyInv, AnyOf!Counted
    <2>4. Knows(v5, c)
      BY <2>1, <2>3, ProgramsAssumption DEF Knows, AnyInv, AnyOf!TypeOK, AnyOf!Counted
    <2>5. v3 = "suspended" /\ v5.suspended /\ v4 = <<>> /\ (v5.got = 0 => v5.started = Tasks)
      BY <2>1, <2>3 DEF AnyInv, AnyOf!TypeOK, AnyOf!CallerWaits
    <2>6. QED
      BY <2>1, <2>2, <2>4, <2>5, AnyCompletes DEF AnyOf!FirstWins, AnyOf!OneOutcome
  <1>6. QED
    BY <1>1, <1>2, <1>3, <1>4, <1>5 DEF AnyOf!Next

LEMMA AnyAllAwaited == AnyInv => AnyOf!AllAwaited
  <1> SUFFICES ASSUME AnyInv, v3 \in {"done", "stopped"} \/ v4 # <<>> PROVE AnyOf!AllAwaited
    BY DEF AnyOf!AllAwaited
  <1>1. AnyOf!Live = {}
    <2>1. AnyOf!Live \in SUBSET (1..Tasks) /\ AnyOf!Cardinality(AnyOf!Live) = 0
      BY DEF AnyInv, AnyOf!Counted, AnyOf!Live, AnyOf!Child, AnyOf!CallerWaits
    <2>2. PICK L : L = AnyOf!Live
      OBVIOUS
    <2>3. QED
      BY <2>1, <2>2, AnyFewer
  <1>2. \A c \in 1..v5.started : c \in 1..Tasks /\ ~(c > v5.started)
    BY ProgramsAssumption DEF AnyInv, AnyOf!TypeOK
  <1>3. QED
    BY <1>1, <1>2 DEF AnyInv, AnyOf!TypeOK, AnyOf!Counted, AnyOf!Live, AnyOf!CallerWaits, AnyOf!AllAwaited,
                      AnyOf!Started, AnyOf!Ended, AnyOf!Child, AnyOf!None

-----------------------------------------------------------------------------
(* whenAll.                                                                *)

LEMMA AllCardinality == \A S : AllOf!Cardinality(S) = Cardinality(S)
  BY DEF AllOf!Cardinality, Cardinality, AllOf!IsFiniteSet, IsFiniteSet

LEMMA AllFewer ==
    ASSUME NEW S \in SUBSET (1..Tasks), NEW T \in SUBSET S
    PROVE  /\ AllOf!Cardinality(S) \in Nat
           /\ AllOf!Cardinality(T) \in Nat
           /\ AllOf!Cardinality(S \ T) \in Nat
           /\ AllOf!Cardinality(S \ T) = AllOf!Cardinality(S) - AllOf!Cardinality(T)
           /\ AllOf!Cardinality(S) = 0 <=> S = {}
  <1>1. IsFiniteSet(1..Tasks)
    BY ProgramsAssumption, FS_Interval
  <1>2. IsFiniteSet(S) /\ IsFiniteSet(T)
    BY <1>1, FS_Subset
  <1>3. IsFiniteSet(S \ T) /\ Cardinality(S \ T) = Cardinality(S) - Cardinality(S \cap T)
    BY <1>2, FS_Difference
  <1>4. S \cap T = T
    OBVIOUS
  <1>5. Cardinality(S) \in Nat /\ Cardinality(T) \in Nat /\ Cardinality(S \ T) \in Nat
    BY <1>2, <1>3, FS_CardinalityType
  <1>6. Cardinality(S) = 0 <=> S = {}
    BY <1>2, FS_EmptySet
  <1>7. QED
    BY <1>3, <1>4, <1>5, <1>6, AllCardinality

AllInv == AllOf!TypeOK /\ AllOf!Counted /\ AllOf!CallerWaits

LEMMA AllInit == AllOf!Init => AllInv
  <1> SUFFICES ASSUME AllOf!Init PROVE AllInv
    OBVIOUS
  <1> USE DEF AllOf!Init, AllOf!TaskInit, AllOf!Child, AllOf!Caller
  <1>1. AllOf!TypeOK
    BY ProgramsAssumption DEF AllOf!TypeOK
  <1>2. AllOf!Counted
    <2>1. AllOf!Unfinished = 1..Tasks
      BY DEF AllOf!Unfinished, AllOf!Ended
    <2>2. Cardinality(1..Tasks) = Tasks
      BY ProgramsAssumption, FS_Interval
    <2>3. v5.started = 0 /\ v5.left = Tasks /\ \A c \in 1..Tasks : v1[c] = "new" /\ c > 0
      OBVIOUS
    <2>4. QED
      BY <2>1, <2>2, <2>3, AllCardinality DEF AllOf!Counted
  <1>3. AllOf!CallerWaits
    BY DEF AllOf!CallerWaits
  <1>4. QED
    BY <1>1, <1>2, <1>3 DEF AllInv

\* onTaskCompleted for the tasks in S that end in a step, when the awaiter has become w.
LEMMA AllCompletes ==
    ASSUME AllInv, NEW S \in SUBSET (1..Tasks), NEW w,
           S \subseteq AllOf!Unfinished, v3 \in {"running", "suspended"},
           w \in [started : 0..Tasks, left : Nat, stopRequested : BOOLEAN,
                  suspended : BOOLEAN],
           w.left = v5.left, w.suspended = v5.suspended,
           v3 = "running" => ~w.stopRequested,
           v3 = "suspended" => w.started = Tasks,
           \A c \in 1..Tasks : v1'[c] = "new" <=> c > w.started,
           v1' \in [1..Tasks -> {"new", "live", "value", "stopped"}],
           v2' \subseteq (1..Tasks) \cup {0},
           {c \in 1..Tasks : v1'[c] \in {"value", "stopped"}}
               = {c \in 1..Tasks : v1[c] \in {"value", "stopped"}} \cup S,
           ~w.stopRequested => v2' \cap (1..Tasks) = {},
           \A c \in 1..Tasks : v1'[c] = "stopped" => c \in v2',
           AllOf!OnTaskCompleted(S, w)
    PROVE  AllInv'
  <1> USE DEF AllOf!Child, AllOf!Caller
  <1>1. AllOf!Unfinished' = AllOf!Unfinished \ S
    BY DEF AllOf!Unfinished, AllOf!Ended
  <1>2. /\ AllOf!Cardinality(AllOf!Unfinished') \in Nat
        /\ AllOf!Cardinality(AllOf!Unfinished') = v5.left - AllOf!Cardinality(S)
        /\ S = {} => AllOf!Cardinality(S) = 0
    <2>1. PICK L : L = AllOf!Unfinished
      OBVIOUS
    <2>2. L \in SUBSET (1..Tasks) /\ S \in SUBSET L
      BY <2>1 DEF AllOf!Unfinished
    <2>3. AllOf!Cardinality(L \ S) \in Nat /\ AllOf!Cardinality(S) \in Nat
          /\ AllOf!Cardinality(L \ S) = AllOf!Cardinality(L) - AllOf!Cardinality(S)
      BY <2>2, AllFewer
    <2>4. v5.left = AllOf!Cardinality(L)
      BY <2>1 DEF AllInv, AllOf!Counted
    <2>5. S = {} => AllOf!Cardinality(S) = 0
      BY AllFewer
    <2>6. QED
      BY <1>1, <2>1, <2>3, <2>4, <2>5
  <1>3. PICK n : n = w.left - AllOf!Cardinality(S)
    OBVIOUS
  <1>4. n \in Nat /\ n = AllOf!Cardinality(AllOf!Unfinished') /\ (S = {} => n = v5.left)
    BY <1>2, <1>3 DEF AllInv, AllOf!TypeOK
  <1>5. /\ v5' \in [started : 0..Tasks, left : Nat, stopRequested : BOOLEAN,
                    suspended : BOOLEAN]
        /\ v5'.started = w.started /\ v5'.left = n
        /\ v5'.stopRequested = w.stopRequested /\ v5'.suspended = w.suspended
    <2>1. v5' = [w EXCEPT !.left = n]
      BY <1>3 DEF AllOf!OnTaskCompleted
    <2>2. QED
      BY <2>1, <1>4
  <1>6. /\ v4' = v4
        /\ v3' = IF S = {} \/ n # 0 THEN v3
                 ELSE IF w.stopRequested THEN "stopped"
                 ELSE IF w.suspended THEN "done"
                 ELSE v3
    BY <1>5 DEF AllOf!OnTaskCompleted
  <1>7. AllOf!TypeOK'
    BY <1>5, <1>6 DEF AllOf!TypeOK, AllInv
  <1>8. AllOf!Counted'
    BY <1>4, <1>5 DEF AllOf!Counted
  <1>9. AllOf!CallerWaits'
    <2>1. CASE S = {} \/ n # 0
      BY <1>4, <1>5, <1>6, <2>1 DEF AllInv, AllOf!CallerWaits
    <2>2. CASE S # {} /\ n = 0
      BY <1>4, <1>5, <1>6, <2>2 DEF AllInv, AllOf!CallerWaits
    <2>3. QED
      BY <2>1, <2>2
  <1>10. QED
    BY <1>7, <1>8, <1>9 DEF AllInv

LEMMA AllStep ==
    ASSUME AllInv, AllOf!Next
    PROVE  AllInv' /\ AllOf!OneOutcome
  <1> USE DEF AllOf!Child, AllOf!Caller
  <1>1. CASE AllOf!Start
    <2> DEFINE c == v5.started + 1
               w == [v5 EXCEPT !.started = c]
    <2>1. /\ v3 = "running" /\ c <= Tasks /\ v2' = v2
          /\ \/ v1' = [v1 EXCEPT ![c] = "live"] /\ v5' = w /\ UNCHANGED <<v3, v4>>
             \/ v1' = [v1 EXCEPT ![c] = "value"] /\ AllOf!OnTaskCompleted({c}, w)
      BY <1>1 DEF AllOf!Start
    <2>2. /\ c \in 1..Tasks /\ v1[c] = "new" /\ v5.started \in 0..Tasks
      BY <2>1, ProgramsAssumption DEF AllInv, AllOf!TypeOK, AllOf!Counted
    <2>3. /\ w \in [started : 0..Tasks, left : Nat, stopRequested : BOOLEAN,
                    suspended : BOOLEAN]
          /\ w.started = c /\ w.left = v5.left /\ w.suspended = v5.suspended
          /\ w.stopRequested = v5.stopRequested
      <3>1. c \in 0..Tasks
        BY <2>2, ProgramsAssumption
      <3>2. v5 \in [started : 0..Tasks, left : Nat, stopRequested : BOOLEAN,
                    suspended : BOOLEAN]
        BY DEF AllInv, AllOf!TypeOK
      <3> HIDE DEF c
      <3>3. QED
        BY <3>1, <3>2
    <2> HIDE DEF c, w
    <2>4. PICK how \in {"live", "value"} : v1' = [v1 EXCEPT ![c] = how]
                /\ (how = "value" => AllOf!OnTaskCompleted({c}, w))
                /\ (how = "live" => v5' = w /\ UNCHANGED <<v3, v4>>)
      BY <2>1
    <2>5. /\ v1' \in [1..Tasks -> {"new", "live", "value", "stopped"}]
          /\ \A d \in 1..Tasks : v1'[d] = IF d = c THEN how ELSE v1[d]
      BY <2>2, <2>4 DEF AllInv, AllOf!TypeOK
    <2>6. \A d \in 1..Tasks : v1'[d] = "new" <=> d > w.started
      <3>1. \A d \in 1..Tasks : v1[d] = "new" <=> d > v5.started
        BY DEF AllInv, AllOf!Counted
      <3>2. QED
        BY <3>1, <2>2, <2>3, <2>5 DEF c
    <2>7. v2' \subseteq (1..Tasks) \cup {0} /\ \A d \in 1..Tasks : v1'[d] = "stopped" => d \in v2'
      BY <2>1, <2>5 DEF AllInv, AllOf!TypeOK, AllOf!Counted
    <2>8. CASE how = "value"
      <3>1. PICK S : S = {c}
        OBVIOUS
      <3>2. S \in SUBSET (1..Tasks) /\ S \subseteq AllOf!Unfinished
        BY <3>1, <2>2 DEF AllOf!Unfinished, AllOf!Ended
      <3>3. {d \in 1..Tasks : v1'[d] \in {"value", "stopped"}}
               = {d \in 1..Tasks : v1[d] \in {"value", "stopped"}} \cup S
        BY <3>1, <2>2, <2>5, <2>8
      <3>4. ~w.stopRequested /\ v2' \cap (1..Tasks) = {}
        BY <2>1, <2>3 DEF AllInv, AllOf!CallerWaits, AllOf!Counted
      <3>5. AllInv'
        BY <2>1, <2>3, <2>4, <2>5, <2>6, <2>7, <2>8, <3>1, <3>2, <3>3, <3>4, AllCompletes
      <3>6. QED
        BY <3>5, <2>1 DEF AllOf!OneOutcome
    <2>9. CASE how = "live"
      <3>1. AllOf!Unfinished' = AllOf!Unfinished
        BY <2>2, <2>5, <2>9 DEF AllOf!Unfinished, AllOf!Ended
      <3>2. AllOf!TypeOK'
        BY <2>1, <2>3, <2>4, <2>5, <2>7, <2>9 DEF AllInv, AllOf!TypeOK
      <3>3. AllOf!Counted'
        BY <3>1, <2>1, <2>3, <2>4, <2>6, <2>7, <2>9 DEF AllInv, AllOf!Counted
      <3>4. AllOf!CallerWaits'
        BY <2>1, <2>3, <2>4, <2>9 DEF AllInv, AllOf!CallerWaits
      <3>5. QED
        BY <3>2, <3>3, <3>4, <2>1 DEF AllInv, AllOf!OneOutcome
    <2>10. QED
      BY <2>8, <2>9
  <1>2. CASE AllOf!Suspend
    <2>1. /\ v3 = "running" /\ v5.started = Tasks
          /\ v3' = IF v5.left = 0 THEN "done" ELSE "suspended"
          /\ v5' = [v5 EXCEPT !.suspended = v5.left # 0]
          /\ UNCHANGED <<v1, v2, v4>>
      BY <1>2 DEF AllOf!Suspend
    <2>2. /\ v5' \in [started : 0..Tasks, left : Nat, stopRequested : BOOLEAN,
                      suspended : BOOLEAN]
          /\ v5'.started = v5.started /\ v5'.left = v5.left
          /\ v5'.stopRequested = v5.stopRequested /\ v5'.suspended = (v5.left # 0)
      BY <2>1 DEF AllInv, AllOf!TypeOK
    <2>3. AllOf!Unfinished' = AllOf!Unfinished
      BY <2>1 DEF AllOf!Unfinished, AllOf!Ended
    <2>4. AllOf!TypeOK' /\ AllOf!CallerWaits'
      BY <2>1, <2>2 DEF AllInv, AllOf!TypeOK, AllOf!CallerWaits
    <2>5. AllOf!Counted'
      BY <2>1, <2>2, <2>3 DEF AllInv, AllOf!Counted
    <2>6. QED
      BY <2>1, <2>4, <2>5 DEF AllInv, AllOf!OneOutcome
  <1>3. CASE AllOf!OnStopRequested
    <2> DEFINE w == [v5 EXCEPT !.stopRequested = TRUE]
    <2>1. v3 = "suspended"
      BY <1>3 DEF AllOf!OnStopRequested
    <2>2. PICK S \in SUBSET AllOf!Answering(1..Tasks) :
             /\ v1' = [c \in 1..Tasks |-> IF c \in S THEN "stopped" ELSE v1[c]]
             /\ v2' = v2 \cup (1..Tasks) \cup {0}
             /\ AllOf!OnTaskCompleted(S, w)
      BY <1>3 DEF AllOf!OnStopRequested
    <2>3. /\ w \in [started : 0..Tasks, left : Nat, stopRequested : BOOLEAN,
                    suspended : BOOLEAN]
          /\ w.started = Tasks /\ w.left = v5.left /\ w.suspended = v5.suspended
          /\ w.stopRequested /\ v5.started = Tasks
      BY <2>1 DEF AllInv, AllOf!TypeOK, AllOf!CallerWaits
    <2> HIDE DEF w
    <2>4. /\ S \in SUBSET (1..Tasks) /\ \A c \in S : v1[c] = "live"
      BY <2>2 DEF AllOf!Answering
    <2>5. S \subseteq AllOf!Unfinished
      BY <2>4 DEF AllOf!Unfinished, AllOf!Ended
    <2>6. v1' \in [1..Tasks -> {"new", "live", "value", "stopped"}]
      BY <2>2 DEF AllInv, AllOf!TypeOK
    <2>7. \A c \in 1..Tasks : v1'[c] = "new" <=> c > w.started
      BY <2>2, <2>3, <2>4 DEF AllInv, AllOf!Counted
    <2>8. {c \in 1..Tasks : v1'[c] \in {"value", "stopped"}}
               = {c \in 1..Tasks : v1[c] \in {"value", "stopped"}} \cup S
      BY <2>2, <2>4
    <2>9. v2' \subseteq (1..Tasks) \cup {0} /\ 1..Tasks \subseteq v2'
      BY <2>2 DEF AllInv, AllOf!TypeOK
    <2>10. AllInv'
      BY <2>1, <2>2, <2>3, <2>4, <2>5, <2>6, <2>7, <2>8, <2>9, AllCompletes
    <2>11. QED
      BY <2>10, <2>1 DEF AllOf!OneOutcome
  <1>4. CASE \E c \in 1..Tasks : AllOf!End(c)
    <2>1. PICK c \in 1..Tasks, how \in {"value", "stopped"} :
              /\ how \in AllOf!Outcomes(c) /\ v3 # "running" /\ v1[c] = "live"
              /\ v1' = [v1 EXCEPT ![c] = how] /\ v2' = v2
              /\ AllOf!OnTaskCompleted({c}, v5)
      <3>1. PICK c \in 1..Tasks : AllOf!End(c)
        BY <1>4
      <3>2. QED
        BY <3>1 DEF AllOf!End, AllOf!Idle, AllOf!Outcomes
    <2>2. how = "stopped" => c \in v2
      BY <2>1 DEF AllOf!Outcomes
    <2>3. PICK S : S = {c}
      OBVIOUS
    <2>4. S \in SUBSET (1..Tasks) /\ S \subseteq AllOf!Unfinished
      BY <2>1, <2>3 DEF AllOf!Unfinished, AllOf!Ended
    <2>5. v3 = "suspended"
      <3>1. PICK L : L = AllOf!Unfinished
        OBVIOUS
      <3>2. L \in SUBSET (1..Tasks) /\ L # {}
        BY <3>1, <2>3, <2>4 DEF AllOf!Unfinished
      <3>3. AllOf!Cardinality(L) # 0
        BY <3>2, AllFewer
      <3>4. QED
        BY <3>1, <3>3, <2>1 DEF AllInv, AllOf!TypeOK, AllOf!Counted, AllOf!CallerWaits
    <2>6. /\ v1' \in [1..Tasks -> {"new", "live", "value", "stopped"}]
          /\ \A d \in 1..Tasks : v1'[d] = IF d = c THEN how ELSE v1[d]
      BY <2>1 DEF AllInv, AllOf!TypeOK
    <2>7. \A d \in 1..Tasks : v1'[d] = "new" <=> d > v5.started
      BY <2>1, <2>6 DEF AllInv, AllOf!Counted
    <2>8. {d \in 1..Tasks : v1'[d] \in {"value", "stopped"}}
               = {d \in 1..Tasks : v1[d] \in {"value", "stopped"}} \cup S
      BY <2>1, <2>3, <2>6
    <2>9. v2' \subseteq (1..Tasks) \cup {0} /\ \A d \in 1..Tasks : v1'[d] = "stopped" => d \in v2'
      BY <2>1, <2>2, <2>6 DEF AllInv, AllOf!TypeOK, AllOf!Counted
    <2>10. /\ v5 \in [started : 0..Tasks, left : Nat, stopRequested : BOOLEAN,
                      suspended : BOOLEAN]
           /\ v5.started = Tasks
           /\ ~v5.stopRequested => v2' \cap (1..Tasks) = {}
      BY <2>1, <2>5 DEF AllInv, AllOf!TypeOK, AllOf!Counted, AllOf!CallerWaits
    <2>11. AllInv'
      BY <2>1, <2>3, <2>4, <2>5, <2>6, <2>7, <2>8, <2>9, <2>10, AllCompletes
    <2>12. QED
      BY <2>11, <2>5 DEF AllOf!OneOutcome
  <1>5. QED
    BY <1>1, <1>2, <1>3, <1>4 DEF AllOf!Next

LEMMA AllEveryValue == AllInv => AllOf!EveryValue
  <1> SUFFICES ASSUME AllInv, v3 \in {"done", "stopped"} PROVE AllOf!EveryValue
    BY DEF AllOf!EveryValue
  <1>1. AllOf!Unfinished = {}
    <2>1. AllOf!Unfinished \in SUBSET (1..Tasks) /\ AllOf!Cardinality(AllOf!Unfinished) = 0
      BY DEF AllInv, AllOf!Counted, AllOf!Unfinished, AllOf!Child, AllOf!CallerWaits
    <2>2. PICK L : L = AllOf!Unfinished
      OBVIOUS
    <2>3. QED
      BY <2>1, <2>2, AllFewer
  <1>2. QED
    BY <1>1 DEF AllInv, AllOf!Counted, AllOf!Unfinished, AllOf!CallerWaits, AllOf!EveryValue,
                AllOf!Ended, AllOf!Child

-----------------------------------------------------------------------------
(* The oneshot channel.                                                    *)

SingleInv == Single!TypeOK /\ Single!EndsKnown /\ Single!Delivered

LEMMA SingleInit == Single!Init => SingleInv
  <1> SUFFICES ASSUME Single!Init PROVE SingleInv
    OBVIOUS
  <1> USE DEF Single!Init
  <1>1. Single!TypeOK
    <2>1. v6 \in 0..2
      OBVIOUS
    <2>2. /\ v2 \in BOOLEAN /\ v3 \in BOOLEAN /\ v4 \in BOOLEAN /\ v5 \in BOOLEAN
          /\ v10 \in BOOLEAN /\ v12 \in BOOLEAN
      BY Zenon
    <2>3. QED
      BY <2>1, <2>2 DEF Single!TypeOK
  <1>2. Single!EndsKnown
    BY DEF Single!EndsKnown, Single!Ready
  <1>3. Single!Delivered
    BY DEF Single!Delivered, Single!Ready, Single!Deleted
  <1>4. QED
    BY <1>1, <1>2, <1>3 DEF SingleInv

LEMMA SingleStep == SingleInv /\ Single!Next => SingleInv'
  <1> SUFFICES ASSUME SingleInv, Single!Next PROVE SingleInv'
    OBVIOUS
  <1> USE DEF SingleInv, Single!TypeOK, Single!EndsKnown, Single!Delivered, Single!Ready,
              Single!Deleted
  <1>1. CASE Single!Send
    BY <1>1 DEF Single!Send, Single!Notify
  <1>2. CASE Single!OnSenderClose
    BY <1>2 DEF Single!OnSenderClose, Single!Notify
  <1>3. CASE Single!SenderDeref
    BY <1>3 DEF Single!SenderDeref
  <1>4. CASE Single!Recv
    BY <1>4 DEF Single!Recv, Single!Take
  <1>5. CASE Single!Register
    BY <1>5 DEF Single!Register, Single!OnStopRequested, Single!chan
  <1>6. CASE Single!Stop
    BY <1>6 DEF Single!Stop, Single!OnStopRequested
  <1>7. CASE Single!Resume \/ Single!BlockingRecv \/ Single!TryRecv
    <2>1. Single!Take /\ v9 \in {"open", "suspended"} /\ Single!Ready
      BY <1>7 DEF Single!Resume, Single!BlockingRecv, Single!TryRecv
    <2>2. Single!TypeOK'
      BY <2>1 DEF Single!Take
    <2>3. Single!EndsKnown'
      BY <2>1 DEF Single!Take
    <2>4. Single!Delivered'
      BY <2>1 DEF Single!Take
    <2>5. QED
      BY <2>2, <2>3, <2>4 DEF SingleInv
  <1>8. CASE Single!OnReceiverClose
    BY <1>8 DEF Single!OnReceiverClose
  <1>9. CASE Single!ReceiverDeref
    BY <1>9 DEF Single!ReceiverDeref
  <1>10. QED
    BY <1>1, <1>2, <1>3, <1>4, <1>5, <1>6, <1>7, <1>8, <1>9 DEF Single!Next

-----------------------------------------------------------------------------
(* The signal.                                                             *)

\* Who closes an open writing end.
SignalKept ==
    \A w \in SignalWaiters :
        w \in v3 => \/ v2 = w \/ v5[w] \in {"store", "close"}
                    \/ \E h \in SignalHandlers : v7[h] = w
                    \/ v6[w] = "busy"

SignalInv == Signals!TypeOK /\ Signals!EndsKnown /\ SignalKept /\ Signals!SignalCame

LEMMA SignalInit == Signals!Init => SignalInv
  BY ProgramsAssumption DEF SignalInv, Signals!Init, Signals!TypeOK, Signals!EndsKnown,
     SignalKept, Signals!SignalCame

LEMMA SignalStep == SignalInv /\ Signals!Next => SignalInv'
  <1> SUFFICES ASSUME SignalInv, Signals!Next PROVE SignalInv'
    OBVIOUS
  <1> USE ProgramsAssumption DEF SignalInv, Signals!TypeOK, Signals!EndsKnown, SignalKept,
          Signals!SignalCame
  <1>1. ASSUME NEW w \in SignalWaiters, Signals!Install(w) \/ Signals!InstallFails(w)
        PROVE  SignalInv'
    <2>1. CASE Signals!Install(w)
      BY <2>1 DEF Signals!Install, Signals!GoTo, Signals!handlerVars
    <2>2. CASE Signals!InstallFails(w)
      BY <2>2 DEF Signals!InstallFails, Signals!GoTo, Signals!handlerVars, Signals!slotVars
    <2>3. QED
      BY <1>1, <2>1, <2>2
  <1>2. ASSUME NEW w \in SignalWaiters, Signals!MakePipe(w)
        PROVE  SignalInv'
    BY <1>2 DEF Signals!MakePipe, Signals!GoTo, Signals!Ends, Signals!handlerVars,
       Signals!slotVars
  <1>3. ASSUME NEW w \in SignalWaiters, Signals!Store(w)
        PROVE  SignalInv'
    BY <1>3 DEF Signals!Store, Signals!GoTo, Signals!Ends, Signals!handlerVars
  <1>4. ASSUME NEW w \in SignalWaiters, Signals!Wrap(w)
        PROVE  SignalInv'
    BY <1>4 DEF Signals!Wrap, Signals!GoTo, Signals!Ends, Signals!handlerVars,
       Signals!slotVars
  <1>5. ASSUME NEW w \in SignalWaiters, Signals!Read(w)
        PROVE  SignalInv'
    BY <1>5 DEF Signals!Read, Signals!GoTo, Signals!Ends, Signals!handlerVars
  <1>6. ASSUME NEW w \in SignalWaiters, Signals!ReadStops(w)
        PROVE  SignalInv'
    BY <1>6 DEF Signals!ReadStops, Signals!GoTo, Signals!Ends, Signals!handlerVars,
       Signals!slotVars
  <1>7. ASSUME NEW w \in SignalWaiters, Signals!TakeBack(w)
        PROVE  SignalInv'
    BY <1>7 DEF Signals!TakeBack, Signals!GoTo, Signals!handlerVars
  <1>8. ASSUME NEW w \in SignalWaiters, Signals!CloseWriter(w)
        PROVE  SignalInv'
    BY <1>8 DEF Signals!CloseWriter, Signals!GoTo, Signals!handlerVars
  <1>9. ASSUME NEW w \in SignalWaiters, Signals!RequestStop(w)
        PROVE  SignalInv'
    BY <1>9 DEF Signals!RequestStop, Signals!handlerVars, Signals!slotVars
  <1>10. ASSUME NEW h \in SignalHandlers, Signals!Raise(h)
         PROVE  SignalInv'
    BY <1>10 DEF Signals!Raise, Signals!waiterVars
  <1>11. ASSUME NEW h \in SignalHandlers, Signals!WriteByte(h)
         PROVE  SignalInv'
    BY <1>11 DEF Signals!WriteByte, Signals!waiterVars
  <1>12. ASSUME NEW h \in SignalHandlers, Signals!CloseTaken(h)
         PROVE  SignalInv'
    BY <1>12 DEF Signals!CloseTaken, Signals!waiterVars
  <1>13. QED
    BY <1>1, <1>2, <1>3, <1>4, <1>5, <1>6, <1>7, <1>8, <1>9, <1>10, <1>11, <1>12
       DEF Signals!Next, Signals!Progress

LEMMA SignalsCardinality == \A S : Signals!Cardinality(S) = Cardinality(S)
  BY DEF Signals!Cardinality, Cardinality, Signals!IsFiniteSet, IsFiniteSet

LEMMA SignalOwners == SignalInv => Signals!WriterClosedOnce
  <1> SUFFICES ASSUME SignalInv, NEW w \in SignalWaiters
               PROVE  LET owners == {x \in SignalWaiters : x = w /\ v5[x] \in {"store", "close"}}
                                    \cup {h \in SignalHandlers : v7[h] = w}
                                    \cup (IF v2 = w THEN {0} ELSE {})
                      IN  /\ Cardinality(owners) <= 1
                          /\ owners # {} => w \in v3
                          /\ owners = {} /\ w \in v3 => v6[w] = "busy"
    BY SignalsCardinality DEF Signals!WriterClosedOnce
  <1> DEFINE owners == {x \in SignalWaiters : x = w /\ v5[x] \in {"store", "close"}}
                       \cup {h \in SignalHandlers : v7[h] = w}
                       \cup (IF v2 = w THEN {0} ELSE {})
  <1>1. w # 0
    BY ProgramsAssumption
  <1>2. \A a, b \in owners : a = b
    BY <1>1 DEF SignalInv, Signals!TypeOK, Signals!EndsKnown
  <1>3. owners # {} => w \in v3
    BY <1>1 DEF SignalInv, Signals!TypeOK, Signals!EndsKnown
  <1>4. owners = {} /\ w \in v3 => v6[w] = "busy"
    BY DEF SignalInv, SignalKept
  <1> HIDE DEF owners
  <1>5. Cardinality(owners) <= 1
    <2>1. CASE owners = {}
      BY <2>1, FS_EmptySet
    <2>2. CASE owners # {}
      <3>1. PICK a \in owners : owners = {a}
        BY <1>2, <2>2
      <3>2. Cardinality({a}) = 1
        BY FS_Singleton
      <3>3. QED
        BY <3>1, <3>2
    <2>3. QED
      BY <2>1, <2>2
  <1>6. QED
    BY <1>3, <1>4, <1>5 DEF owners

-----------------------------------------------------------------------------
(* The duplex stream.                                                      *)

LEMMA PipeMin ==
    ASSUME NEW a \in Nat, NEW b \in Nat
    PROVE  /\ Pipe!Min({a, b}) \in Nat /\ Pipe!Min({a, b}) \in {a, b}
           /\ Pipe!Min({a, b}) <= a /\ Pipe!Min({a, b}) <= b
  <1>1. PICK m \in {a, b} : m <= a /\ m <= b
    OBVIOUS
  <1>2. \A x, y \in {a, b} : x <= y /\ y <= x => x = y
    OBVIOUS
  <1>3. \E x \in {a, b} : \A y \in {a, b} : x <= y
    BY <1>1
  <1>4. Pipe!Min({a, b}) \in {a, b} /\ \A y \in {a, b} : Pipe!Min({a, b}) <= y
    BY <1>3 DEF Pipe!Min
  <1>5. QED
    BY <1>4

\* The bytes after the first r.
PipeHas(b, r) == \A i \in 1..Len(b) : b[i] = r + i

\* k of them are read.
LEMMA PipeReads ==
    ASSUME NEW b \in Seq(Nat), NEW r \in Nat, PipeHas(b, r), NEW k \in Nat, k <= Len(b)
    PROVE  /\ SubSeq(b, k + 1, Len(b)) \in Seq(Nat)
           /\ Len(SubSeq(b, k + 1, Len(b))) = Len(b) - k
           /\ PipeHas(SubSeq(b, k + 1, Len(b)), r + k)
  <1> DEFINE x == SubSeq(b, k + 1, Len(b))
  <1>1. Len(b) \in Nat /\ \A i \in 1..Len(b) : b[i] \in Nat
    OBVIOUS
  <1>2. x \in Seq(Nat) /\ Len(x) = Len(b) - k /\ \A i \in 1..Len(b) - k : x[i] = b[k + i]
    <2>1. k + 1 \in 1..Len(b) + 1
      BY <1>1
    <2>2. Len(b) \in (k + 1) - 1 .. Len(b)
      BY <1>1
    <2>3. \A i \in 1..Len(b) - k : x[i] = b[(k + 1) + i - 1]
      BY <1>1, <2>1, <2>2
    <2>4. x \in Seq(Nat) /\ Len(x) = Len(b) - k
      BY <1>1, <2>1, <2>2
    <2>5. \A i \in 1..Len(b) - k : (k + 1) + i - 1 = k + i
      BY <1>1
    <2>6. QED
      BY <2>3, <2>4, <2>5
  <1> HIDE DEF x
  <1>3. ASSUME NEW i \in 1..Len(x) PROVE x[i] = (r + k) + i
    <2>1. k + i \in 1..Len(b)
      BY <1>1, <1>2
    <2>2. x[i] = b[k + i] /\ b[k + i] = r + (k + i)
      BY <1>2, <2>1 DEF PipeHas
    <2>3. QED
      BY <1>1, <1>2, <2>2
  <1>4. QED
    BY <1>2, <1>3 DEF PipeHas, x

\* k more are written.
LEMMA PipeWrites ==
    ASSUME NEW b \in Seq(Nat), NEW r \in Nat, PipeHas(b, r), NEW k \in Nat, NEW w \in Nat,
           w = r + Len(b)
    PROVE  /\ b \o [i \in 1..k |-> w + i] \in Seq(Nat)
           /\ Len(b \o [i \in 1..k |-> w + i]) = Len(b) + k
           /\ PipeHas(b \o [i \in 1..k |-> w + i], r)
  <1> DEFINE y == [i \in 1..k |-> w + i]
             x == b \o y
  <1>1. y \in [1..k -> Nat] /\ \A i \in 1..k : y[i] = w + i
    OBVIOUS
  <1>2. y \in Seq(Nat) /\ Len(y) = k
    <2>1. y \in Seq(Nat)
      BY <1>1, IsASeq
    <2>2. DOMAIN y = 1..k
      BY <1>1
    <2>3. QED
      BY <2>1, <2>2
  <1> HIDE DEF y
  <1>3. /\ x \in Seq(Nat) /\ Len(x) = Len(b) + k /\ Len(b) \in Nat
        /\ \A i \in 1..Len(b) : x[i] = b[i]
        /\ \A i \in 1..k : x[Len(b) + i] = y[i]
    <2>1. PICK z : z = y
      OBVIOUS
    <2>2. z \in Seq(Nat) /\ Len(z) = k
      BY <1>2, <2>1
    <2>3. /\ b \o z \in Seq(Nat) /\ Len(b \o z) = Len(b) + k /\ Len(b) \in Nat
          /\ \A i \in 1..Len(b) : (b \o z)[i] = b[i]
          /\ \A i \in 1..k : (b \o z)[Len(b) + i] = z[i]
      BY <2>2
    <2>4. QED
      BY <2>1, <2>3
  <1> HIDE DEF x
  <1>4. ASSUME NEW i \in 1..Len(x) PROVE x[i] = r + i
    <2>1. CASE i \in 1..Len(b)
      BY <1>3, <2>1 DEF PipeHas
    <2>2. CASE i \notin 1..Len(b)
      <3>1. PICK j \in 1..k : i = Len(b) + j
        <4>1. i - Len(b) \in 1..k /\ i = Len(b) + (i - Len(b))
          BY <1>3, <2>2
        <4>2. QED
          BY <4>1
      <3>2. x[i] = w + j
        BY <1>1, <1>3, <3>1
      <3>3. QED
        BY <1>3, <3>1, <3>2
    <2>3. QED
      BY <2>1, <2>2
  <1>5. QED
    BY <1>3, <1>4 DEF PipeHas, x, y

PipeHasBytes ==
    /\ PipeHas(v1, v9["reader"])
    /\ v9["writer"] = v9["reader"] + Len(v1) /\ Len(v1) <= PipeSize

\* Where the sides are.
PipeSides ==
    /\ \A s \in v2 : ~Pipe!Ready(s) /\ v4[s] \in {"parking", "suspended"}
    /\ \A s \in Pipe!Side : v4[s] \in {"parking", "suspended"} => (s \in v2) # (s \in v6)
    /\ \A s \in v6 : v4[s] \in {"parking", "suspended"} /\ (Pipe!Ready(s) \/ v10 # {})
    /\ \A s \in Pipe!Side : v4[s] \in {"parking", "suspended"} /\ v5[s] = 0 => s \in v10
    /\ \A s \in Pipe!Side : v8[s] = "zero" => Pipe!Other(s) \in v3 \/ v10 # {}
    /\ v11 = (IF v4["reader"] = "gone" THEN 0 ELSE 1) + (IF v4["writer"] = "gone" THEN 0 ELSE 1)

PipeInv == Pipe!TypeOK /\ PipeHasBytes /\ PipeSides

LEMMA PipeInit == Pipe!Init => PipeInv
  <1> SUFFICES ASSUME Pipe!Init PROVE PipeInv
    OBVIOUS
  <1> USE DEF Pipe!Init, Pipe!Side
  <1>1. Pipe!TypeOK
    BY DEF Pipe!TypeOK
  <1>2. PipeHasBytes
    BY ProgramsAssumption DEF PipeHasBytes, PipeHas
  <1>3. PipeSides
    BY DEF PipeSides
  <1>4. QED
    BY <1>1, <1>2, <1>3 DEF PipeInv

\* A side that may go on takes or puts the bytes of a buffer of n, or nothing.
PipeMayGo(s, n) ==
    /\ v4[s] \in {"idle", "suspended"} /\ s \notin v2
    /\ Pipe!Ready(s) \/ v10' # {}
    /\ n = 0 => v10' # {}

LEMMA PipeReader ==
    ASSUME PipeInv, NEW n \in Nat, Pipe!Transfer("reader", n), PipeMayGo("reader", n),
           v10 \subseteq v10', v10' \subseteq Pipe!Side, v5' \in [Pipe!Side -> Nat],
           v5'["writer"] = v5["writer"], v7' \subseteq Pipe!Side, UNCHANGED <<v3, v11>>
    PROVE  PipeInv'
  <1> USE DEF Pipe!Side
  <1>1. /\ v1 \in Seq(Nat) /\ v2 \subseteq Pipe!Side /\ v6 \subseteq Pipe!Side
        /\ v4 \in [Pipe!Side -> {"idle", "parking", "suspended", "gone"}]
        /\ v8 \in [Pipe!Side -> {"nothing", "bytes", "zero", "stopped"}]
        /\ v9 \in [Pipe!Side -> Nat] /\ v3 \subseteq Pipe!Side
    BY DEF PipeInv, Pipe!TypeOK
  <1>2. PICK k : k = Pipe!Min({n, Len(v1)})
    OBVIOUS
  <1>3. Len(v1) \in Nat
    BY <1>1
  <1>4. k \in Nat /\ k <= Len(v1) /\ (k = 0 => n = 0 \/ Len(v1) = 0)
    BY <1>2, <1>3, PipeMin
  <1>5. PICK to : to = IF k = 0 THEN "zero" ELSE "bytes"
    OBVIOUS
  <1>6. /\ v1' = SubSeq(v1, k + 1, Len(v1))
        /\ v9' = [v9 EXCEPT !["reader"] = @ + k]
        /\ v4' = [v4 EXCEPT !["reader"] = "idle"] /\ v8' = [v8 EXCEPT !["reader"] = to]
        /\ v2' = v2 \ {"writer"}
        /\ v6' = (v6 \ {"reader"}) \cup ({"writer"} \cap v2)
    BY <1>2, <1>5 DEF Pipe!Transfer, Pipe!ReadBytes, Pipe!Ended, Pipe!Other
  <1>7. PICK b, r, w : b = v1 /\ r = v9["reader"] /\ w = v9["writer"]
    OBVIOUS
  <1>8. /\ b \in Seq(Nat) /\ r \in Nat /\ w \in Nat /\ PipeHas(b, r)
        /\ w = r + Len(b) /\ Len(b) <= PipeSize
    BY <1>1, <1>7 DEF PipeInv, PipeHasBytes
  <1>9. /\ SubSeq(b, k + 1, Len(b)) \in Seq(Nat)
        /\ Len(SubSeq(b, k + 1, Len(b))) = Len(b) - k
        /\ PipeHas(SubSeq(b, k + 1, Len(b)), r + k)
    BY <1>4, <1>7, <1>8, PipeReads
  <1>10. v9'["reader"] = r + k /\ v9'["writer"] = w /\ v9' \in [Pipe!Side -> Nat]
    BY <1>1, <1>4, <1>6, <1>7
  <1>11. /\ v1' \in Seq(Nat) /\ Len(v1') = Len(v1) - k
         /\ PipeHas(v1', v9'["reader"])
    BY <1>6, <1>7, <1>9, <1>10
  <1>12. PipeHasBytes'
    <2>1. PICK m, l, z : m = Len(v1') /\ l = Len(v1) /\ z = PipeSize
      OBVIOUS
    <2>2. /\ l \in Nat /\ k \in Nat /\ r \in Nat /\ z \in Nat /\ k <= l
          /\ m = l - k /\ w = r + l /\ l <= z
      BY <1>3, <1>4, <1>7, <1>8, <1>11, <2>1, ProgramsAssumption
    <2>3. w = (r + k) + m /\ m <= z
      BY <2>2
    <2>4. QED
      BY <1>10, <1>11, <2>1, <2>3 DEF PipeHasBytes
  <1>13. Pipe!TypeOK'
    <2>1. v4' \in [Pipe!Side -> {"idle", "parking", "suspended", "gone"}]
      BY <1>1, <1>6
    <2>2. v8' \in [Pipe!Side -> {"nothing", "bytes", "zero", "stopped"}]
      BY <1>1, <1>5, <1>6
    <2>3. v2' \subseteq Pipe!Side /\ v6' \subseteq Pipe!Side /\ v3' \subseteq Pipe!Side
      BY <1>1, <1>6
    <2>4. QED
      BY <1>10, <1>11, <2>1, <2>2, <2>3 DEF Pipe!TypeOK
  <1>14. PipeSides'
    <2>1. v2' = {} /\ (v6' = {} \/ v6' = {"writer"})
      BY <1>1, <1>6 DEF PipeMayGo
    <2>2. v4'["reader"] = "idle" /\ v4'["writer"] = v4["writer"]
      BY <1>1, <1>6
    <2>3. v8'["reader"] = to /\ v8'["writer"] = v8["writer"]
      BY <1>1, <1>6
    <2>4. "writer" \in v6' <=> "writer" \in v2 \/ "writer" \in v6
      BY <1>6
    <2>5. v4["writer"] \in {"parking", "suspended"} <=> "writer" \in v6'
      BY <1>1, <2>4 DEF PipeInv, PipeSides
    <2>6. "writer" \in v6' => Pipe!Ready("writer")' \/ v10' # {}
      <3>1. CASE "writer" \in v2
        <4>1. ~(Len(v1) < PipeSize)
          BY <3>1 DEF PipeInv, PipeSides, Pipe!Ready
        <4>2. k # 0 \/ v10' # {}
          BY <1>3, <1>4, <4>1, ProgramsAssumption DEF PipeMayGo
        <4>3. k # 0 => Len(v1') < PipeSize
          BY <1>3, <1>4, <1>7, <1>8, <1>11, ProgramsAssumption
        <4>4. QED
          BY <4>2, <4>3 DEF Pipe!Ready
      <3>2. CASE "writer" \in v6
        <4>1. Pipe!Ready("writer") \/ v10 # {}
          BY <3>2 DEF PipeInv, PipeSides
        <4>2. Len(v1) < PipeSize => Len(v1') < PipeSize
          BY <1>3, <1>4, <1>11, ProgramsAssumption
        <4>3. QED
          BY <4>1, <4>2 DEF Pipe!Ready
      <3>3. QED
        BY <2>4, <3>1, <3>2
    <2>7. v8'["reader"] = "zero" => "writer" \in v3' \/ v10' # {}
      <3>1. CASE k = 0
        <4>1. v1 = <<>> \/ v10' # {}
          BY <1>1, <1>4, <3>1 DEF PipeMayGo
        <4>2. QED
          BY <4>1 DEF PipeMayGo, Pipe!Ready, Pipe!Other
      <3>2. CASE k # 0
        BY <1>5, <2>3, <3>2
      <3>3. QED
        BY <3>1, <3>2
    <2>8. v8'["writer"] = "zero" => "reader" \in v3' \/ v10' # {}
      BY <2>3 DEF PipeInv, PipeSides, Pipe!Other
    <2>9. v4'["writer"] \in {"parking", "suspended"} /\ v5'["writer"] = 0 => "writer" \in v10'
      BY <2>2 DEF PipeInv, PipeSides
    <2>10. v11' = (IF v4'["reader"] = "gone" THEN 0 ELSE 1) + (IF v4'["writer"] = "gone" THEN 0 ELSE 1)
      BY <2>2 DEF PipeInv, PipeSides, PipeMayGo
    <2>11. QED
      BY <2>1, <2>2, <2>4, <2>5, <2>6, <2>7, <2>8, <2>9, <2>10 DEF PipeSides, Pipe!Other
  <1>15. QED
    BY <1>12, <1>13, <1>14 DEF PipeInv

LEMMA PipeWriter ==
    ASSUME PipeInv, NEW n \in Nat, Pipe!Transfer("writer", n), PipeMayGo("writer", n),
           v10 \subseteq v10', v10' \subseteq Pipe!Side, v5' \in [Pipe!Side -> Nat],
           v5'["reader"] = v5["reader"], v7' \subseteq Pipe!Side, UNCHANGED <<v3, v11>>
    PROVE  PipeInv'
  <1> USE DEF Pipe!Side
  <1>1. /\ v1 \in Seq(Nat) /\ v2 \subseteq Pipe!Side /\ v6 \subseteq Pipe!Side
        /\ v4 \in [Pipe!Side -> {"idle", "parking", "suspended", "gone"}]
        /\ v8 \in [Pipe!Side -> {"nothing", "bytes", "zero", "stopped"}]
        /\ v9 \in [Pipe!Side -> Nat] /\ v3 \subseteq Pipe!Side
    BY DEF PipeInv, Pipe!TypeOK
  <1>2. CASE "reader" \in v3
    <2>1. /\ v4' = [v4 EXCEPT !["writer"] = "idle"] /\ v8' = [v8 EXCEPT !["writer"] = "zero"]
          /\ v6' = v6 \ {"writer"} /\ UNCHANGED <<v1, v2, v9>>
      BY <1>2 DEF Pipe!Transfer, Pipe!Ended, Pipe!Awake
    <2>2. PipeHasBytes'
      BY <2>1 DEF PipeInv, PipeHasBytes, PipeHas
    <2>3. Pipe!TypeOK'
      BY <1>1, <2>1 DEF Pipe!TypeOK
    <2>4. PipeSides'
      <3>1. /\ v4'["writer"] = "idle" /\ v4'["reader"] = v4["reader"]
            /\ v8'["writer"] = "zero" /\ v8'["reader"] = v8["reader"]
        BY <1>1, <2>1
      <3>2. \A s \in v2' : ~Pipe!Ready(s)' /\ v4'[s] \in {"parking", "suspended"}
        BY <1>1, <2>1, <3>1 DEF PipeInv, PipeSides, Pipe!Ready, Pipe!Other, PipeMayGo
      <3>3. \A s \in Pipe!Side : v4'[s] \in {"parking", "suspended"} => (s \in v2') # (s \in v6')
        BY <1>1, <2>1, <3>1 DEF PipeInv, PipeSides
      <3>4. \A s \in v6' : v4'[s] \in {"parking", "suspended"}
                          /\ (Pipe!Ready(s)' \/ v10' # {})
        BY <1>1, <2>1, <3>1 DEF PipeInv, PipeSides, Pipe!Ready, Pipe!Other
      <3>5. v4'["reader"] \in {"parking", "suspended"} /\ v5'["reader"] = 0 => "reader" \in v10'
        BY <3>1 DEF PipeInv, PipeSides
      <3>6. \A s \in Pipe!Side : v4'[s] \in {"parking", "suspended"} /\ v5'[s] = 0 => s \in v10'
        BY <3>1, <3>5
      <3>7. v8'["reader"] = "zero" => "writer" \in v3' \/ v10' # {}
        BY <3>1 DEF PipeInv, PipeSides, Pipe!Other
      <3>8. \A s \in Pipe!Side : v8'[s] = "zero" => Pipe!Other(s)' \in v3' \/ v10' # {}
        BY <1>2, <3>7 DEF Pipe!Other
      <3>9. v11' = (IF v4'["reader"] = "gone" THEN 0 ELSE 1) + (IF v4'["writer"] = "gone" THEN 0 ELSE 1)
        BY <3>1 DEF PipeInv, PipeSides, PipeMayGo
      <3>10. QED
        BY <3>2, <3>3, <3>4, <3>6, <3>8, <3>9 DEF PipeSides
    <2>5. QED
      BY <2>2, <2>3, <2>4 DEF PipeInv
  <1>3. CASE "reader" \notin v3
    <2>1. PICK b, r, w, z : b = v1 /\ r = v9["reader"] /\ w = v9["writer"] /\ z = PipeSize
      OBVIOUS
    <2>2. /\ b \in Seq(Nat) /\ r \in Nat /\ w \in Nat /\ PipeHas(b, r)
          /\ w = r + Len(b) /\ Len(b) <= z /\ z \in Nat \ {0}
      BY <1>1, <2>1, ProgramsAssumption DEF PipeInv, PipeHasBytes
    <2>3. PICK l : l = Len(b)
      OBVIOUS
    <2>4. l \in Nat /\ l <= z /\ w = r + l /\ z - l \in Nat
      BY <2>2, <2>3
    <2>5. PICK k : k = Pipe!Min({n, z - l})
      OBVIOUS
    <2>6. k \in Nat /\ k <= z - l /\ (k = 0 => n = 0 \/ z - l = 0)
      BY <2>4, <2>5, PipeMin
    <2>7. PICK to : to = IF k = 0 THEN "zero" ELSE "bytes"
      OBVIOUS
    <2>8. /\ v1' = b \o [i \in 1..k |-> w + i]
          /\ v9' = [v9 EXCEPT !["writer"] = @ + k]
          /\ v4' = [v4 EXCEPT !["writer"] = "idle"] /\ v8' = [v8 EXCEPT !["writer"] = to]
          /\ v2' = v2 \ {"reader"}
          /\ v6' = (v6 \ {"writer"}) \cup ({"reader"} \cap v2)
      BY <1>3, <2>1, <2>3, <2>5, <2>7 DEF Pipe!Transfer, Pipe!WriteBytes, Pipe!Ended, Pipe!Other
    <2>9. /\ b \o [i \in 1..k |-> w + i] \in Seq(Nat)
          /\ Len(b \o [i \in 1..k |-> w + i]) = Len(b) + k
          /\ PipeHas(b \o [i \in 1..k |-> w + i], r)
      BY <2>2, <2>6, PipeWrites
    <2>10. v9'["reader"] = r /\ v9'["writer"] = w + k /\ v9' \in [Pipe!Side -> Nat]
      <3>1. v9' = [v9 EXCEPT !["writer"] = v9["writer"] + k]
        BY <2>8
      <3>2. v9["writer"] + k \in Nat /\ k \in Nat
        BY <1>1, <2>6
      <3>3. v9'["reader"] = v9["reader"] /\ v9'["writer"] = v9["writer"] + k
        BY <1>1, <3>1
      <3>4. v9' \in [Pipe!Side -> Nat]
        BY <1>1, <3>1, <3>2
      <3>5. QED
        BY <2>1, <3>3, <3>4
    <2>11. /\ v1' \in Seq(Nat) /\ Len(v1') = l + k /\ PipeHas(v1', v9'["reader"])
      BY <2>3, <2>8, <2>9, <2>10
    <2>12. PipeHasBytes'
      <3>1. PICK m : m = Len(v1')
        OBVIOUS
      <3>2. w + k = r + m /\ m <= z
        <4>1. m = l + k /\ r \in Nat /\ z \in Nat
          BY <2>2, <2>11, <3>1
        <4>2. QED
          BY <2>4, <2>6, <4>1
      <3>3. QED
        BY <2>1, <2>10, <2>11, <3>1, <3>2 DEF PipeHasBytes
    <2>13. Pipe!TypeOK'
      <3>1. v4' \in [Pipe!Side -> {"idle", "parking", "suspended", "gone"}]
        BY <1>1, <2>8
      <3>2. v8' \in [Pipe!Side -> {"nothing", "bytes", "zero", "stopped"}]
        BY <1>1, <2>7, <2>8
      <3>3. v2' \subseteq Pipe!Side /\ v6' \subseteq Pipe!Side /\ v3' \subseteq Pipe!Side
        BY <1>1, <2>8
      <3>4. QED
        BY <2>10, <2>11, <3>1, <3>2, <3>3 DEF Pipe!TypeOK
    <2>14. PipeSides'
      <3>1. v2' = {} /\ (v6' = {} \/ v6' = {"reader"})
        BY <1>1, <2>8 DEF PipeMayGo
      <3>2. v4'["writer"] = "idle" /\ v4'["reader"] = v4["reader"]
        BY <1>1, <2>8
      <3>3. v8'["writer"] = to /\ v8'["reader"] = v8["reader"]
        BY <1>1, <2>8
      <3>4. "reader" \in v6' <=> "reader" \in v2 \/ "reader" \in v6
        BY <2>8
      <3>5. v4["reader"] \in {"parking", "suspended"} <=> "reader" \in v6'
        BY <1>1, <3>4 DEF PipeInv, PipeSides
      <3>6. "reader" \in v6' => Pipe!Ready("reader")' \/ v10' # {}
        <4>1. k # 0 => v1' # <<>>
          BY <2>4, <2>6, <2>11
        <4>2. v1 # <<>> => v1' # <<>>
          <5>1. v1 # <<>> => l # 0
            BY <2>1, <2>2, <2>3
          <5>2. l # 0 => v1' # <<>>
            BY <2>4, <2>6, <2>11
          <5>3. QED
            BY <5>1, <5>2
        <4>3. CASE "reader" \in v2
          <5>1. v1 = <<>>
            BY <4>3 DEF PipeInv, PipeSides, Pipe!Ready
          <5>2. l = 0
            BY <2>1, <2>3, <5>1
          <5>3. k # 0 \/ v10' # {}
            BY <2>2, <2>6, <5>2 DEF PipeMayGo
          <5>4. QED
            BY <4>1, <5>3 DEF Pipe!Ready
        <4>4. CASE "reader" \in v6
          <5>1. Pipe!Ready("reader") \/ v10 # {}
            BY <4>4 DEF PipeInv, PipeSides
          <5>2. QED
            BY <4>2, <5>1 DEF Pipe!Ready
        <4>5. QED
          BY <3>4, <4>3, <4>4
      <3>7. v8'["writer"] = "zero" => "reader" \in v3' \/ v10' # {}
        <4>1. CASE k = 0
          <5>1. z - l = 0 \/ v10' # {}
            BY <2>6, <4>1 DEF PipeMayGo
          <5>2. z - l = 0 => ~(Len(v1) < PipeSize)
            BY <2>1, <2>2, <2>3, <2>4
          <5>3. QED
            BY <5>1, <5>2 DEF PipeMayGo, Pipe!Ready, Pipe!Other
        <4>2. CASE k # 0
          BY <2>7, <3>3, <4>2
        <4>3. QED
          BY <4>1, <4>2
      <3>8. v8'["reader"] = "zero" => "writer" \in v3' \/ v10' # {}
        BY <3>3 DEF PipeInv, PipeSides, Pipe!Other
      <3>9. v4'["reader"] \in {"parking", "suspended"} /\ v5'["reader"] = 0 => "reader" \in v10'
        BY <3>2 DEF PipeInv, PipeSides
      <3>10. v11' = (IF v4'["reader"] = "gone" THEN 0 ELSE 1) + (IF v4'["writer"] = "gone" THEN 0 ELSE 1)
        BY <3>2 DEF PipeInv, PipeSides, PipeMayGo
      <3>11. QED
        BY <3>1, <3>2, <3>4, <3>5, <3>6, <3>7, <3>8, <3>9, <3>10 DEF PipeSides, Pipe!Other
    <2>15. QED
      BY <2>12, <2>13, <2>14 DEF PipeInv
  <1>4. QED
    BY <1>2, <1>3

\* What happens without a transfer leaves the bytes alone.
LEMMA PipeBytesKept ==
    ASSUME PipeInv, UNCHANGED <<v1, v9>>
    PROVE  PipeHasBytes'
  BY DEF PipeInv, PipeHasBytes, PipeHas

LEMMA PipeStarts ==
    ASSUME PipeInv, NEW s \in Pipe!Side, Pipe!Start(s)
    PROVE  PipeInv'
  <1>1. PICK n \in PipeSizes :
            /\ v5' = [v5 EXCEPT ![s] = n]
            /\ v10' = IF n = 0 THEN v10 \cup {s} ELSE v10
            /\ IF Pipe!Ready(s) THEN Pipe!Transfer(s, n)
               ELSE /\ v2' = v2 \cup {s}
                    /\ v4' = [v4 EXCEPT ![s] = "parking"]
                    /\ UNCHANGED <<v1, v6, v8, v9>>
    BY DEF Pipe!Start
  <1>2. v4[s] = "idle" /\ UNCHANGED <<v3, v7, v11>>
    BY DEF Pipe!Start
  <1>3. n \in Nat
    BY ProgramsAssumption
  <1>4. /\ v2 \subseteq Pipe!Side /\ v6 \subseteq Pipe!Side /\ v7 \subseteq Pipe!Side
        /\ v4 \in [Pipe!Side -> {"idle", "parking", "suspended", "gone"}]
        /\ v5 \in [Pipe!Side -> Nat] /\ v10 \subseteq Pipe!Side
    BY DEF PipeInv, Pipe!TypeOK
  <1>5. s \notin v2 /\ s \notin v6
    BY <1>2 DEF PipeInv, PipeSides
  <1>6. /\ v10 \subseteq v10' /\ v10' \subseteq Pipe!Side /\ (n = 0 => v10' # {})
        /\ n = 0 => s \in v10'
    BY <1>1, <1>4
  <1>7. v5' \in [Pipe!Side -> Nat] /\ v5'[s] = n /\ \A t \in Pipe!Side \ {s} : v5'[t] = v5[t]
    BY <1>1, <1>3, <1>4
  <1>8. CASE Pipe!Ready(s)
    <2>1. PipeMayGo(s, n)
      BY <1>2, <1>5, <1>6, <1>8 DEF PipeMayGo
    <2>2. CASE s = "reader"
      BY <1>1, <1>2, <1>3, <1>4, <1>6, <1>7, <1>8, <2>1, <2>2, PipeReader DEF Pipe!Side
    <2>3. CASE s = "writer"
      BY <1>1, <1>2, <1>3, <1>4, <1>6, <1>7, <1>8, <2>1, <2>3, PipeWriter DEF Pipe!Side
    <2>4. QED
      BY <2>2, <2>3 DEF Pipe!Side
  <1>9. CASE ~Pipe!Ready(s)
    <2>1. /\ v2' = v2 \cup {s} /\ v4' = [v4 EXCEPT ![s] = "parking"]
          /\ UNCHANGED <<v1, v6, v8, v9>>
      BY <1>1, <1>9
    <2>2. PipeHasBytes'
      BY <2>1, PipeBytesKept
    <2>3. Pipe!TypeOK'
      BY <1>2, <1>4, <1>6, <1>7, <2>1 DEF PipeInv, Pipe!TypeOK
    <2>4. \A t \in Pipe!Side : Pipe!Ready(t)' <=> Pipe!Ready(t)
      BY <1>2, <2>1 DEF Pipe!Ready
    <2>5. v4'[s] = "parking" /\ \A t \in Pipe!Side \ {s} : v4'[t] = v4[t]
      BY <1>4, <2>1
    <2>6. v10 # {} => v10' # {}
      BY <1>6
    <2>7. PipeSides'
      <3>1. \A t \in v2' : ~Pipe!Ready(t)' /\ v4'[t] \in {"parking", "suspended"}
        BY <1>4, <1>9, <2>1, <2>4, <2>5 DEF PipeInv, PipeSides
      <3>2. \A t \in Pipe!Side : v4'[t] \in {"parking", "suspended"} => (t \in v2') # (t \in v6')
        BY <1>5, <2>1, <2>5 DEF PipeInv, PipeSides
      <3>3. \A t \in v6' : v4'[t] \in {"parking", "suspended"} /\ (Pipe!Ready(t)' \/ v10' # {})
        BY <1>4, <1>5, <2>1, <2>4, <2>5, <2>6 DEF PipeInv, PipeSides
      <3>4. \A t \in Pipe!Side : v4'[t] \in {"parking", "suspended"} /\ v5'[t] = 0 => t \in v10'
        BY <1>6, <1>7, <2>5 DEF PipeInv, PipeSides
      <3>5. \A t \in Pipe!Side : v8'[t] = "zero" => Pipe!Other(t) \in v3' \/ v10' # {}
        BY <1>2, <2>1, <2>6 DEF PipeInv, PipeSides
      <3>6. v11' = (IF v4'["reader"] = "gone" THEN 0 ELSE 1) + (IF v4'["writer"] = "gone" THEN 0 ELSE 1)
        BY <1>2, <2>5 DEF PipeInv, PipeSides, Pipe!Side
      <3>7. QED
        BY <3>1, <3>2, <3>3, <3>4, <3>5, <3>6, Zenon DEF PipeSides
    <2>8. QED
      BY <2>2, <2>3, <2>7 DEF PipeInv
  <1>10. QED
    BY <1>8, <1>9

LEMMA PipeResumes ==
    ASSUME PipeInv, NEW s \in Pipe!Side, Pipe!Resume(s)
    PROVE  PipeInv'
  <1>1. /\ v4[s] = "suspended" /\ s \in v6 /\ Pipe!Transfer(s, v5[s])
        /\ UNCHANGED <<v3, v5, v7, v10, v11>>
    BY DEF Pipe!Resume
  <1>2. /\ v7 \subseteq Pipe!Side /\ v10 \subseteq Pipe!Side /\ v5 \in [Pipe!Side -> Nat]
    BY DEF PipeInv, Pipe!TypeOK
  <1>3. PICK n \in Nat : n = v5[s]
    BY <1>2
  <1>4. PipeMayGo(s, n)
    BY <1>1, <1>3 DEF PipeMayGo, PipeInv, PipeSides
  <1>5. CASE s = "reader"
    BY <1>1, <1>2, <1>3, <1>4, <1>5, PipeReader
  <1>6. CASE s = "writer"
    BY <1>1, <1>2, <1>3, <1>4, <1>6, PipeWriter
  <1>7. QED
    BY <1>5, <1>6 DEF Pipe!Side

\* A side is suspended, or stopped.
LEMMA PipeSuspends ==
    ASSUME PipeInv, NEW s \in Pipe!Side, v4[s] \in {"parking", "suspended"},
           \/ Pipe!OnStopRequested(s)
           \/ /\ v4' = [v4 EXCEPT ![s] = "suspended"]
              /\ UNCHANGED <<v1, v2, v3, v5, v6, v7, v8, v9, v10, v11>>
    PROVE  PipeInv'
  <1>1. /\ v2 \subseteq Pipe!Side /\ v6 \subseteq Pipe!Side /\ v7 \subseteq Pipe!Side
        /\ v4 \in [Pipe!Side -> {"idle", "parking", "suspended", "gone"}]
        /\ v8 \in [Pipe!Side -> {"nothing", "bytes", "zero", "stopped"}]
    BY DEF PipeInv, Pipe!TypeOK
  <1>2. UNCHANGED <<v1, v3, v5, v6, v9, v10, v11>>
    BY DEF Pipe!OnStopRequested
  <1>3. \/ /\ s \in v2 /\ v2' = v2 \ {s} /\ v4' = [v4 EXCEPT ![s] = "idle"]
           /\ v8' = [v8 EXCEPT ![s] = "stopped"] /\ v7' \subseteq Pipe!Side
        \/ /\ v2' = v2 /\ v4' = [v4 EXCEPT ![s] = "suspended"]
           /\ v8' = v8 /\ v7' \subseteq Pipe!Side
    <2>1. CASE Pipe!OnStopRequested(s) /\ s \in v2
      BY <1>1, <2>1 DEF Pipe!OnStopRequested, Pipe!Ended
    <2>2. CASE Pipe!OnStopRequested(s) /\ s \notin v2
      BY <1>1, <2>2 DEF Pipe!OnStopRequested
    <2>3. CASE ~Pipe!OnStopRequested(s)
      BY <1>1, <2>3
    <2>4. QED
      BY <2>1, <2>2, <2>3
  <1>4. PipeHasBytes'
    BY <1>2, PipeBytesKept
  <1>5. Pipe!TypeOK'
    <2>1. v4' \in [Pipe!Side -> {"idle", "parking", "suspended", "gone"}]
      BY <1>1, <1>3
    <2>2. v8' \in [Pipe!Side -> {"nothing", "bytes", "zero", "stopped"}]
      BY <1>1, <1>3
    <2>3. QED
      BY <1>1, <1>2, <1>3, <2>1, <2>2 DEF PipeInv, Pipe!TypeOK
  <1>6. \A t \in Pipe!Side : Pipe!Ready(t)' <=> Pipe!Ready(t)
    BY <1>2 DEF Pipe!Ready
  <1>7. /\ \A t \in Pipe!Side \ {s} : v4'[t] = v4[t] /\ v8'[t] = v8[t]
        /\ v4'[s] \in {"idle", "suspended"} /\ (v8'[s] = "zero" => v8[s] = "zero")
    BY <1>1, <1>3
  <1>8. PipeSides'
    <2>1. \A t \in v2' : ~Pipe!Ready(t)' /\ v4'[t] \in {"parking", "suspended"}
      BY <1>1, <1>3, <1>6, <1>7 DEF PipeInv, PipeSides
    <2>2. \A t \in Pipe!Side : v4'[t] \in {"parking", "suspended"} => (t \in v2') # (t \in v6')
      BY <1>1, <1>2, <1>3, <1>7 DEF PipeInv, PipeSides
    <2>3. \A t \in v6' : v4'[t] \in {"parking", "suspended"} /\ (Pipe!Ready(t)' \/ v10' # {})
      BY <1>1, <1>2, <1>3, <1>6, <1>7 DEF PipeInv, PipeSides
    <2>4. \A t \in Pipe!Side : v4'[t] \in {"parking", "suspended"} /\ v5'[t] = 0 => t \in v10'
      BY <1>2, <1>7 DEF PipeInv, PipeSides
    <2>5. \A t \in Pipe!Side : v8'[t] = "zero" => Pipe!Other(t) \in v3' \/ v10' # {}
      BY <1>2, <1>7 DEF PipeInv, PipeSides
    <2>6. v11' = (IF v4'["reader"] = "gone" THEN 0 ELSE 1) + (IF v4'["writer"] = "gone" THEN 0 ELSE 1)
      BY <1>2, <1>7 DEF PipeInv, PipeSides, Pipe!Side
    <2>7. QED
      BY <2>1, <2>2, <2>3, <2>4, <2>5, <2>6, Zenon DEF PipeSides
  <1>9. QED
    BY <1>4, <1>5, <1>8 DEF PipeInv

LEMMA PipeCloses ==
    ASSUME PipeInv, NEW s \in Pipe!Side, Pipe!Shutdown(s) \/ Pipe!Drop(s)
    PROVE  PipeInv'
  <1>1. /\ v2 \subseteq Pipe!Side /\ v3 \subseteq Pipe!Side /\ v6 \subseteq Pipe!Side
        /\ v4 \in [Pipe!Side -> {"idle", "parking", "suspended", "gone"}]
    BY DEF PipeInv, Pipe!TypeOK
  <1>2. /\ v3' = v3 \cup {s} /\ v2' = v2 \ {Pipe!Other(s)}
        /\ v6' = v6 \cup ({Pipe!Other(s)} \cap v2)
        /\ UNCHANGED <<v1, v5, v7, v8, v9, v10>>
    BY DEF Pipe!Shutdown, Pipe!Drop, Pipe!Close, Pipe!WakeupIf
  <1>3. \/ v4' = v4 /\ v11' = v11
        \/ v4[s] = "idle" /\ v4' = [v4 EXCEPT ![s] = "gone"] /\ v11' = v11 - 1
    BY DEF Pipe!Shutdown, Pipe!Drop
  <1>4. Pipe!Other(s) \in Pipe!Side /\ Pipe!Other(Pipe!Other(s)) = s
        /\ \A t \in Pipe!Side : t = s \/ t = Pipe!Other(s)
    BY DEF Pipe!Other, Pipe!Side
  <1>5. PipeHasBytes'
    BY <1>2, PipeBytesKept
  <1>6. Pipe!TypeOK'
    <2>1. v4' \in [Pipe!Side -> {"idle", "parking", "suspended", "gone"}]
      BY <1>1, <1>3
    <2>2. QED
      BY <1>1, <1>2, <1>4, <2>1 DEF PipeInv, Pipe!TypeOK
  <1>7. \A t \in Pipe!Side : v4'[t] # v4[t] => t = s /\ v4[t] = "idle" /\ v4'[t] = "gone"
    BY <1>1, <1>3
  <1>8. /\ \A t \in Pipe!Side : Pipe!Ready(t) => Pipe!Ready(t)'
        /\ Pipe!Ready(Pipe!Other(s))'
        /\ Pipe!Ready(s)' => Pipe!Ready(s) \/ Pipe!Other(s) = s
    BY <1>2, <1>4 DEF Pipe!Ready
  <1>9. Pipe!Other(s) # s
    BY DEF Pipe!Other, Pipe!Side
  <1>10. PipeSides'
    <2>1. \A t \in v2' : ~Pipe!Ready(t)' /\ v4'[t] \in {"parking", "suspended"}
      BY <1>1, <1>2, <1>4, <1>7, <1>8, <1>9 DEF PipeInv, PipeSides
    <2>2. \A t \in Pipe!Side : v4'[t] \in {"parking", "suspended"} => (t \in v2') # (t \in v6')
      BY <1>1, <1>2, <1>7 DEF PipeInv, PipeSides
    <2>3. \A t \in v6' : v4'[t] \in {"parking", "suspended"} /\ (Pipe!Ready(t)' \/ v10' # {})
      BY <1>1, <1>2, <1>4, <1>7, <1>8 DEF PipeInv, PipeSides
    <2>4. \A t \in Pipe!Side : v4'[t] \in {"parking", "suspended"} /\ v5'[t] = 0 => t \in v10'
      BY <1>2, <1>7 DEF PipeInv, PipeSides
    <2>5. \A t \in Pipe!Side : v8'[t] = "zero" => Pipe!Other(t) \in v3' \/ v10' # {}
      BY <1>2 DEF PipeInv, PipeSides
    <2>6. v11' = (IF v4'["reader"] = "gone" THEN 0 ELSE 1) + (IF v4'["writer"] = "gone" THEN 0 ELSE 1)
      BY <1>1, <1>3 DEF PipeInv, PipeSides, Pipe!Side
    <2>7. QED
      BY <2>1, <2>2, <2>3, <2>4, <2>5, <2>6, Zenon DEF PipeSides
  <1>11. QED
    BY <1>5, <1>6, <1>10 DEF PipeInv

LEMMA PipeStep == PipeInv /\ Pipe!Next => PipeInv'
  <1> SUFFICES ASSUME PipeInv, NEW s \in Pipe!Side,
                      \/ Pipe!Start(s) \/ Pipe!Register(s) \/ Pipe!Stop(s)
                      \/ Pipe!Resume(s) \/ Pipe!Shutdown(s) \/ Pipe!Drop(s)
               PROVE  PipeInv'
    BY DEF Pipe!Next
  <1>1. CASE Pipe!Start(s)
    BY <1>1, PipeStarts
  <1>2. CASE Pipe!Register(s) \/ Pipe!Stop(s)
    <2>1. /\ v4[s] \in {"parking", "suspended"}
          /\ \/ Pipe!OnStopRequested(s)
             \/ /\ v4' = [v4 EXCEPT ![s] = "suspended"]
                /\ UNCHANGED <<v1, v2, v3, v5, v6, v7, v8, v9, v10, v11>>
      BY <1>2 DEF Pipe!Register, Pipe!Stop
    <2>2. QED
      BY <2>1, PipeSuspends
  <1>3. CASE Pipe!Resume(s)
    BY <1>3, PipeResumes
  <1>4. CASE Pipe!Shutdown(s) \/ Pipe!Drop(s)
    BY <1>4, PipeCloses
  <1>5. QED
    BY <1>1, <1>2, <1>3, <1>4

LEMMA PipeWakes == PipeInv => Pipe!NoWakeupLost
  <1> SUFFICES ASSUME PipeInv PROVE Pipe!NoWakeupLost
    OBVIOUS
  <1>1. v1 = [i \in 1..Len(v1) |-> v9["reader"] + i]
    <2>1. v1 \in Seq(Nat)
      BY DEF PipeInv, Pipe!TypeOK
    <2>2. v1 = [i \in 1..Len(v1) |-> v1[i]]
      BY <2>1
    <2>3. QED
      BY <2>2 DEF PipeInv, PipeHasBytes, PipeHas
  <1>2. v9["writer"] = v9["reader"] + Len(v1) /\ Len(v1) <= PipeSize
    BY DEF PipeInv, PipeHasBytes
  <1>3. /\ \A s \in v2 : ~Pipe!Ready(s) /\ v4[s] \in {"parking", "suspended"}
        /\ \A s \in Pipe!Side : v4[s] = "suspended" => (s \in v2) # (s \in v6)
        /\ \A s \in v6 : v4[s] \in {"parking", "suspended"}
        /\ \A s \in Pipe!Side : v8[s] = "zero" => Pipe!Other(s) \in v3 \/ v10 # {}
        /\ v11 = (IF v4["reader"] = "gone" THEN 0 ELSE 1) + (IF v4["writer"] = "gone" THEN 0 ELSE 1)
    BY DEF PipeInv, PipeSides
  <1>4. QED
    BY <1>1, <1>2, <1>3, Zenon DEF Pipe!NoWakeupLost

-----------------------------------------------------------------------------
(* The programs together: each keeps what is proved of it above.           *)

ProgramsInv ==
    /\ program = "futex"   => Lock!TypeOK /\ Lock!SleepersMarked
    /\ program = "pool"    => Pool!TypeOK /\ Pool!WorkersMade /\ Pool!IdleCounts
    /\ program = "whenAny" => AnyInv
    /\ program = "whenAll" => AllInv
    /\ program = "oneshot" => SingleInv
    /\ program = "signal"  => SignalInv
    /\ program = "duplex"  => PipeInv

LEMMA FutexStays ==
    ASSUME Lock!TypeOK, Lock!SleepersMarked, UNCHANGED programVars
    PROVE  Lock!TypeOK' /\ Lock!SleepersMarked'
  BY DEF Lock!TypeOK, Lock!SleepersMarked, programVars, After4

LEMMA PoolStays ==
    ASSUME Pool!TypeOK, Pool!WorkersMade, Pool!IdleCounts, UNCHANGED programVars
    PROVE  Pool!TypeOK' /\ Pool!WorkersMade' /\ Pool!IdleCounts'
  BY DEF Pool!TypeOK, Pool!WorkersMade, Pool!IdleCounts, programVars, After4, After5, After6,
     After8

LEMMA AnyStays == AnyInv /\ UNCHANGED programVars => AnyInv'
  BY DEF AnyInv, AnyOf!TypeOK, AnyOf!Counted, AnyOf!CallerWaits, AnyOf!Live, programVars,
     After4, After5

LEMMA AllStays == AllInv /\ UNCHANGED programVars => AllInv'
  BY DEF AllInv, AllOf!TypeOK, AllOf!Counted, AllOf!CallerWaits, AllOf!Unfinished,
     AllOf!Ended, programVars, After4, After5

LEMMA SingleStays == SingleInv /\ UNCHANGED programVars => SingleInv'
  BY DEF SingleInv, Single!TypeOK, Single!EndsKnown, Single!Delivered, Single!Ready,
     Single!Deleted, programVars, After4, After5, After6, After8, After9, After10, After11

LEMMA SignalStays == SignalInv /\ UNCHANGED programVars => SignalInv'
  BY DEF SignalInv, Signals!TypeOK, Signals!EndsKnown, SignalKept, Signals!SignalCame,
     programVars, After4, After5, After6, After8, After9

LEMMA PipeStays == PipeInv /\ UNCHANGED programVars => PipeInv'
  BY DEF PipeInv, Pipe!TypeOK, PipeHasBytes, PipeHas, PipeSides, Pipe!Ready, Pipe!Other,
     programVars, After4, After5, After6, After8, After9, After10

LEMMA ProgramsInit == ProgramInit => ProgramsInv
  <1> SUFFICES ASSUME ProgramInit PROVE ProgramsInv
    OBVIOUS
  <1>1. program = "futex" => Lock!Init
    BY DEF ProgramInit
  <1>2. program = "pool" => Pool!Init
    BY DEF ProgramInit
  <1>3. program = "whenAny" => AnyOf!Init
    BY DEF ProgramInit
  <1>4. program = "whenAll" => AllOf!Init
    BY DEF ProgramInit
  <1>5. program = "oneshot" => Single!Init
    BY DEF ProgramInit
  <1>6. program = "signal" => Signals!Init
    BY DEF ProgramInit
  <1>7. program = "duplex" => Pipe!Init
    BY DEF ProgramInit
  <1>8. QED
    BY <1>1, <1>2, <1>3, <1>4, <1>5, <1>6, <1>7, FutexInit, PoolInit, AnyInit, AllInit, SingleInit, SignalInit, PipeInit DEF ProgramsInv

\* A step is one of the program that was chosen, ...
LEMMA ProgramsNext ==
    ASSUME [ProgramNext]_programVars
    PROVE  /\ program' = program
           /\ \/ UNCHANGED programVars
              \/ /\ program = "futex"   => Lock!Next
                 /\ program = "pool"    => Pool!Next
                 /\ program = "whenAny" => AnyOf!Next
                 /\ program = "whenAll" => AllOf!Next
                 /\ program = "oneshot" => Single!Next
                 /\ program = "signal"  => Signals!Next
                 /\ program = "duplex"  => Pipe!Next
  <1>1. CASE UNCHANGED programVars
    BY <1>1 DEF programVars
  <1>2. CASE ProgramNext
    BY <1>2 DEF ProgramNext, Chosen
  <1>3. QED
    BY <1>1, <1>2

\* ... and keeps what that program keeps.
LEMMA ProgramsStep ==
    ASSUME ProgramsInv, [ProgramNext]_programVars
    PROVE  ProgramsInv'
  <1>1. program' = program
    BY ProgramsNext
  <1>2. CASE program = "futex"
    BY <1>1, <1>2, ProgramsNext, FutexTypeStep, FutexStep, FutexStays DEF ProgramsInv
  <1>3. CASE program = "pool"
    BY <1>1, <1>3, ProgramsNext, PoolTypeStep, PoolCountsStep, PoolStays DEF ProgramsInv
  <1>4. CASE program = "whenAny"
    BY <1>1, <1>4, ProgramsNext, AnyStep, AnyStays DEF ProgramsInv
  <1>5. CASE program = "whenAll"
    BY <1>1, <1>5, ProgramsNext, AllStep, AllStays DEF ProgramsInv
  <1>6. CASE program = "oneshot"
    BY <1>1, <1>6, ProgramsNext, SingleStep, SingleStays DEF ProgramsInv
  <1>7. CASE program = "signal"
    BY <1>1, <1>7, ProgramsNext, SignalStep, SignalStays DEF ProgramsInv
  <1>8. CASE program = "duplex"
    BY <1>1, <1>8, ProgramsNext, PipeStep, PipeStays DEF ProgramsInv
  <1>9. CASE program \notin {"futex", "pool", "whenAny", "whenAll", "oneshot", "signal", "duplex"}
    BY <1>1, <1>9 DEF ProgramsInv
  <1>10. QED
    BY <1>2, <1>3, <1>4, <1>5, <1>6, <1>7, <1>8, <1>9

LEMMA ProgramsKeep == ProgramSpec => []ProgramsInv
  BY ProgramsInit, ProgramsStep, PTL DEF ProgramSpec

\* whenAny() and whenAll() go on only when every task that they started has ended, and
\* has left its value where the caller takes it, whatever stops come in between
\* (when_any.hpp, when_all.hpp).
THEOREM NoTaskLeftRunning == ProgramSpec => []AllEnded
  <1>1. ProgramsInv => AllEnded
    BY AnyAllAwaited, AllEveryValue DEF ProgramsInv, AllEnded
  <1>2. QED
    BY <1>1, ProgramsKeep, PTL

\* No thread sleeps at a free futex lock or beside work in the pool, the end of a oneshot
\* channel and of a duplex stream that can go on is scheduled, once, and the waiter of a
\* signal is told of it: whatever the order of stores, marks and sleeps.
THEOREM EachWokenOnce == ProgramSpec => []WokenOnce
  <1>1. ProgramsInv => WokenOnce
    BY PipeWakes, SignalOwners DEF ProgramsInv, WokenOnce, SingleInv, SignalInv
  <1>2. QED
    BY <1>1, ProgramsKeep, PTL

\* The task that ends first decides what whenAny() returns; neither a later one nor a
\* stop takes it back.
THEOREM FirstValueWins == ProgramSpec => FirstWins
  <1> DEFINE Wins == (program = "whenAny") => AnyOf!FirstWins
  <1>1. ASSUME ProgramsInv, [ProgramNext]_programVars PROVE [Wins]_programVars
    BY <1>1, ProgramsNext, AnyStep DEF ProgramsInv
  <1>2. QED
    BY <1>1, ProgramsKeep, PTL DEF ProgramSpec, FirstWins

\* Each step of the futex lock is one of a single abstract permit, or changes nothing of
\* it: a compare-exchange takes it, unlock() returns it, and a sleeping thread wants it.
THEOREM LockRefinesPermit == ProgramSpec => LockIsPermit
  <1> DEFINE Permit == (program = "futex") => [Lock!permits!MutexNext]_(Lock!permits!vars)
  <1>1. ASSUME ProgramsInv, [ProgramNext]_programVars PROVE [Permit]_programVars
    BY <1>1, ProgramsNext, FutexIsPermit DEF ProgramsInv
  <1>2. QED
    BY <1>1, ProgramsKeep, PTL DEF ProgramSpec, LockIsPermit
=============================================================================
