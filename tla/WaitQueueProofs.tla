--------------------------- MODULE WaitQueueProofs ---------------------------
(***************************************************************************)
(* The inductive invariant of the wait queue under wakeupOne(), and the    *)
(* proof that each of its steps preserves it.  The primitives' proofs cite *)
(* these lemmas; the locations "to" and "after" are the primitive's own.   *)
(***************************************************************************)
EXTENDS WaitQueue, Integers, FiniteSets, SequenceTheorems, FiniteSetTheorems, TLAPS

\* The locations the invariant speaks of.  A primitive moves an actor between the
\* others as it likes.
Guarded == Suspended \cup {"suspend", "scan", "pick", "resume"}

\* The lock is held by the actor whose location says so.
LockInv ==
    \A t \in Threads : pc[t] \in {"scan", "stopUnlink"} <=> qlock = t

\* The list holds each linked waiter once.
ListInv ==
    /\ \A i \in 1..Len(queue) : queue[i] \in linked
    /\ \A i, j \in 1..Len(queue) : queue[i] = queue[j] => i = j
    /\ \A t \in linked : \E i \in 1..Len(queue) : queue[i] = t

\* A waiter is linked exactly while it is suspended and undecided.
WaiterInv ==
    \A t \in Threads :
        /\ t \in linked <=> pc[t] \in Suspended /\ waiting[t]
        /\ pc[t] = "stopUnlink" => waiting[t]
        /\ pc[t] = "suspend" => waiting[t] /\ (blocking[t] <=> t \in Plain)
        /\ pc[t] = "blocked" => t \in Plain
        /\ pc[t] \in Suspended \ {"blocked"} => t \in Coros /\ ~blocking[t]
        /\ t \in linked => (blocking[t] <=> t \in Plain)

\* A decided waiter is resumed once: by one waker, or by what that waker left.
ResumeInv ==
    /\ \A u \in Threads : ready[u] = <<>> /\ pc[u] # "pick"
    /\ \A u \in Threads : pc[u] = "resume" <=> cur[u] # None
    /\ \A u \in Threads : cur[u] # None =>
          /\ Granted(cur[u])
          /\ posted[cur[u]] = 0
          /\ blocking[cur[u]] <=> cur[u] \in Plain
    /\ \A u, v \in Threads : cur[u] # None /\ cur[u] = cur[v] => u = v
    /\ \A t \in Threads : posted[t] # 0 => Granted(t) /\ posted[t] = 1 /\ t \in Coros

WQInv == WQTypeOK /\ LockInv /\ ListInv /\ WaiterInv /\ ResumeInv

-----------------------------------------------------------------------------
\* What RemoveAt does to a sequence.
LEMMA RemoveAtProperties ==
    ASSUME NEW S, NEW s \in Seq(S), NEW i \in 1..Len(s)
    PROVE  /\ RemoveAt(s, i) \in Seq(S)
           /\ Len(RemoveAt(s, i)) = Len(s) - 1
           /\ \A j \in 1..(Len(s) - 1) :
                 RemoveAt(s, i)[j] = IF j < i THEN s[j] ELSE s[j + 1]
  <1> DEFINE a == SubSeq(s, 1, i - 1)
             b == SubSeq(s, i + 1, Len(s))
  <1>1. a \in Seq(S) /\ Len(a) = i - 1 /\ \A j \in 1..(i - 1) : a[j] = s[j]
    OBVIOUS
  <1>2. /\ b \in Seq(S)
        /\ Len(b) = Len(s) - i
        /\ \A j \in 1..(Len(s) - i) : b[j] = s[i + j]
    OBVIOUS
  <1>4. RemoveAt(s, i) = a \o b
    BY DEF RemoveAt
  <1> HIDE DEF a, b
  <1>3. /\ a \o b \in Seq(S)
        /\ Len(a \o b) = Len(a) + Len(b)
        /\ \A j \in 1..(Len(a) + Len(b)) :
              (a \o b)[j] = IF j <= Len(a) THEN a[j] ELSE b[j - Len(a)]
    BY <1>1, <1>2, ConcatProperties
  <1>5. Len(a) + Len(b) = Len(s) - 1
    BY <1>1, <1>2
  <1>6. ASSUME NEW j \in 1..(Len(s) - 1)
        PROVE  (a \o b)[j] = IF j < i THEN s[j] ELSE s[j + 1]
    <2>1. (a \o b)[j] = IF j <= Len(a) THEN a[j] ELSE b[j - Len(a)]
      BY <1>3, <1>5
    <2>2. CASE j < i
      BY <1>1, <2>1, <2>2
    <2>3. CASE ~(j < i)
      <3>1. j - (i - 1) \in 1..(Len(s) - i) /\ i + (j - (i - 1)) = j + 1
        BY <2>3
      <3>2. b[j - (i - 1)] = s[j + 1]
        BY <1>2, <3>1
      <3>3. QED
        BY <1>1, <2>1, <2>3, <3>2
    <2>4. QED
      BY <2>2, <2>3
  <1>7. QED
    BY <1>3, <1>4, <1>5, <1>6

Once(s) == \A j, k \in 1..Len(s) : s[j] = s[k] => j = k

\* r has the elements of s but for s[i].
Without(r, s, i) ==
    /\ \A j \in 1..Len(r) : r[j] # s[i] /\ \E k \in 1..Len(s) : r[j] = s[k]
    /\ \A k \in 1..Len(s) : s[k] # s[i] => \E j \in 1..Len(r) : r[j] = s[k]

\* Removing the only occurrence of an element keeps the others, each once.
LEMMA RemoveAtOnce ==
    ASSUME NEW S, NEW s \in Seq(S), NEW i \in 1..Len(s), Once(s)
    PROVE  Once(RemoveAt(s, i)) /\ Without(RemoveAt(s, i), s, i)
  <1> DEFINE r == RemoveAt(s, i)
  <1> SUFFICES Once(r) /\ Without(r, s, i)
    OBVIOUS
  <1>1. /\ r \in Seq(S)
        /\ Len(r) = Len(s) - 1
        /\ \A j \in 1..(Len(s) - 1) : r[j] = IF j < i THEN s[j] ELSE s[j + 1]
    BY RemoveAtProperties
  <1> HIDE DEF r
  <1>2. Once(r)
    BY <1>1 DEF Once
  <1>3. \A j \in 1..Len(r) : r[j] # s[i] /\ \E k \in 1..Len(s) : r[j] = s[k]
    BY <1>1 DEF Once
  <1>4. ASSUME NEW k \in 1..Len(s), s[k] # s[i]
        PROVE  \E j \in 1..Len(r) : r[j] = s[k]
    <2>1. CASE k < i
      BY <1>1, <2>1
    <2>2. CASE k > i
      <3>1. k - 1 \in 1..Len(r) /\ r[k - 1] = s[k]
        BY <1>1, <2>2
      <3>2. QED
        BY <3>1
    <2>3. QED
      BY <1>4, <2>1, <2>2
  <1>5. QED
    BY <1>2, <1>3, <1>4 DEF Without
-----------------------------------------------------------------------------
\* How many the numbers d[t] are together, as a set: d[t] pairs for each t.
Pairs(T, N, d) == {p \in T \X (1..N) : p[2] <= d[p[1]]}

\* When one number changes, the sum changes by as much.
LEMMA PairsUpdate ==
    ASSUME NEW T, IsFiniteSet(T), NEW N \in Nat, NEW d \in [T -> 0..N],
           NEW e \in [T -> 0..N], NEW t \in T, \A u \in T \ {t} : e[u] = d[u]
    PROVE  /\ Cardinality(Pairs(T, N, d)) \in Nat
           /\ Cardinality(Pairs(T, N, e)) \in Nat
           /\ Cardinality(Pairs(T, N, e)) =
                 Cardinality(Pairs(T, N, d)) - d[t] + e[t]
  <1> DEFINE rest == {p \in T \X (1..N) : p[1] # t /\ p[2] <= d[p[1]]}
             slice(n) == {t} \X (1..n)
  <1>1. IsFiniteSet(rest)
    <2>1. IsFiniteSet(1..N)
      BY FS_Interval
    <2>2. IsFiniteSet(T \X (1..N))
      BY <2>1, FS_Product
    <2>3. QED
      BY <2>2, FS_Subset
  <1>2. ASSUME NEW n \in Nat
        PROVE  IsFiniteSet(slice(n)) /\ Cardinality(slice(n)) = n
    <2>1. n \in Int /\ 1 \in Int
      OBVIOUS
    <2>2. IsFiniteSet(1..n) /\ Cardinality(1..n) = IF 1 > n THEN 0 ELSE n - 1 + 1
      BY <2>1, FS_Interval
    <2>3. (IF 1 > n THEN 0 ELSE n - 1 + 1) = n
      OBVIOUS
    <2>4. IsFiniteSet({t}) /\ Cardinality({t}) = 1
      BY FS_Singleton
    <2>5. /\ IsFiniteSet({t} \X (1..n))
          /\ Cardinality({t} \X (1..n)) = Cardinality({t}) * Cardinality(1..n)
      BY <2>2, <2>4, FS_Product
    <2>6. 1 * n = n
      OBVIOUS
    <2>7. QED
      BY <2>2, <2>3, <2>4, <2>5, <2>6
  <1>3. ASSUME NEW n \in Nat
        PROVE  rest \cap slice(n) = {}
    <2>1. \A p \in slice(n) : p[1] = t
      OBVIOUS
    <2>2. \A p \in rest : p[1] # t
      OBVIOUS
    <2> HIDE DEF rest, slice
    <2>3. QED
      BY <2>1, <2>2
  <1>4. Pairs(T, N, d) = rest \cup slice(d[t]) /\ Pairs(T, N, e) = rest \cup slice(e[t])
    BY DEF Pairs
  <1> HIDE DEF rest, slice
  <1>5. ASSUME NEW n \in Nat
        PROVE  Cardinality(rest \cup slice(n)) = Cardinality(rest) + n
    <2>1. Cardinality(rest \cup slice(n)) =
             Cardinality(rest) + Cardinality(slice(n)) - Cardinality(rest \cap slice(n))
      BY <1>1, <1>2, FS_Union
    <2>2. Cardinality(rest) \in Nat
      BY <1>1, FS_CardinalityType
    <2>3. Cardinality(slice(n)) = n
      BY <1>2
    <2>4. Cardinality(rest \cap slice(n)) = 0
      BY <1>3, FS_EmptySet
    <2>5. QED
      BY <2>1, <2>2, <2>3, <2>4
  <1>6. Cardinality(rest) \in Nat
    BY <1>1, FS_CardinalityType
  <1>7. d[t] \in Nat /\ e[t] \in Nat
    OBVIOUS
  <1>8. QED
    BY <1>4, <1>5, <1>6, <1>7

-----------------------------------------------------------------------------
LEMMA WQInvInit == WQInit => WQInv
  BY ActorsAssumption
     DEF WQInit, WQInv, WQTypeOK, LockInv, ListInv, WaiterInv, ResumeInv, Granted,
         Suspended, Threads

\* A step of the primitive that moves an actor between locations of its own.
LEMMA MoveInv ==
    ASSUME NEW L, pc \in [Threads -> L], WQInv, NEW t \in Threads,
           NEW from, NEW to, from \notin Guarded, to \notin Guarded,
           GoTo(t, from, to),
           UNCHANGED <<queue, qlock, pos, ready, cur, linked, waiting, blocking,
                       posted, stopReq>>
    PROVE  WQInv'
  <1> USE DEF WQInv, GoTo, Guarded, Suspended
  <1>1. WQTypeOK'
    BY DEF WQTypeOK
  <1>2. LockInv'
    BY DEF LockInv
  <1>3. ListInv'
    BY DEF ListInv
  <1>4. WaiterInv'
    BY DEF WaiterInv
  <1>5. ResumeInv'
    BY DEF ResumeInv, Granted
  <1>6. QED
    BY <1>1, <1>2, <1>3, <1>4, <1>5

\* A fresh waiter object.
LEMMA ConstructInv ==
    ASSUME NEW L, pc \in [Threads -> L], WQInv, NEW t \in Threads,
           pc[t] \notin Guarded, Construct(t)
    PROVE  WQInv'
  <1> USE DEF WQInv, GoTo, Guarded, Suspended, Construct
  <1>1. WQTypeOK'
    BY DEF WQTypeOK
  <1>2. LockInv'
    BY DEF LockInv, WQTypeOK
  <1>3. ListInv'
    BY DEF ListInv, WQTypeOK
  <1>4. WaiterInv'
    BY ActorsAssumption DEF WaiterInv, WQTypeOK, Threads
  <1>5. ResumeInv'
    BY DEF ResumeInv, WaiterInv, WQTypeOK, Granted
  <1>6. QED
    BY <1>1, <1>2, <1>3, <1>4, <1>5

\* A wait that need not suspend.
LEMMA DontSuspendInv ==
    ASSUME NEW L, pc \in [Threads -> L], WQInv, NEW t \in Threads,
           NEW to, to \notin Guarded, DontSuspend(t, to)
    PROVE  WQInv'
  <1> USE DEF WQInv, GoTo, Guarded, Suspended, DontSuspend
  <1>1. WQTypeOK'
    BY DEF WQTypeOK
  <1>2. LockInv'
    BY DEF LockInv, WQTypeOK
  <1>3. ListInv'
    BY DEF ListInv, WQTypeOK
  <1>4. WaiterInv'
    BY ActorsAssumption DEF WaiterInv, WQTypeOK, Threads
  <1>5. ResumeInv'
    BY DEF ResumeInv, WaiterInv, WQTypeOK, Granted
  <1>6. QED
    BY <1>1, <1>2, <1>3, <1>4, <1>5

\* A waiter joins the queue.
LEMMA ParkInv ==
    ASSUME NEW L, pc \in [Threads -> L], WQInv, NEW t \in Threads,
           Park(t)
    PROVE  WQInv'
  <1> USE DEF WQInv, GoTo, Guarded, Suspended, Park
  <1>1. WQTypeOK'
    BY DEF WQTypeOK
  <1>2. LockInv'
    BY DEF LockInv, WQTypeOK
  <1>3. ListInv'
    <2>1. t \notin linked
      BY DEF WaiterInv
    <2>2. /\ queue' \in Seq(Threads)
          /\ Len(queue') = Len(queue) + 1
          /\ \A i \in 1..Len(queue) : queue'[i] = queue[i]
          /\ queue'[Len(queue) + 1] = t
      BY AppendProperties DEF WQTypeOK
    <2>3. \A i \in 1..Len(queue') : queue'[i] \in linked'
      BY <2>2 DEF ListInv, WQTypeOK
    <2>4. \A i, j \in 1..Len(queue') : queue'[i] = queue'[j] => i = j
      BY <2>1, <2>2 DEF ListInv, WQTypeOK
    <2>5. ASSUME NEW u \in linked'
          PROVE  \E i \in 1..Len(queue') : queue'[i] = u
      <3>1. CASE u = t
        BY <2>2, <3>1 DEF WQTypeOK
      <3>2. CASE u \in linked
        <4>1. PICK i \in 1..Len(queue) : queue[i] = u
          BY <3>2 DEF ListInv
        <4>2. i \in 1..Len(queue') /\ queue'[i] = u
          BY <2>2, <4>1 DEF WQTypeOK
        <4>3. QED
          BY <4>2
      <3>3. QED
        BY <2>5, <3>1, <3>2
    <2>6. QED
      BY <2>3, <2>4, <2>5 DEF ListInv
  <1>4. WaiterInv'
    BY ActorsAssumption DEF WaiterInv, WQTypeOK, Threads
  <1>5. ResumeInv'
    BY DEF ResumeInv, WaiterInv, WQTypeOK, Granted
  <1>6. QED
    BY <1>1, <1>2, <1>3, <1>4, <1>5

\* The stop callback is registered, or runs at once.
LEMMA RegisterStopInv ==
    ASSUME NEW L, pc \in [Threads -> L], WQInv, NEW t \in Threads,
           RegisterStop(t)
    PROVE  WQInv'
  <1> USE DEF WQInv, GoTo, Guarded, Suspended, RegisterStop
  <1>1. WQTypeOK'
    BY DEF WQTypeOK
  <1>2. LockInv'
    BY DEF LockInv, WQTypeOK
  <1>3. ListInv'
    BY DEF ListInv, WQTypeOK
  <1>4. WaiterInv'
    BY ActorsAssumption DEF WaiterInv, WQTypeOK, Threads
  <1>5. ResumeInv'
    BY DEF ResumeInv, WaiterInv, WQTypeOK, Granted
  <1>6. QED
    BY <1>1, <1>2, <1>3, <1>4, <1>5

\* A woken coroutine runs.
LEMMA ResumedInv ==
    ASSUME NEW L, pc \in [Threads -> L], WQInv, NEW t \in Threads,
           NEW to, to \notin Guarded, Resumed(t, to)
    PROVE  WQInv'
  <1> USE DEF WQInv, GoTo, Guarded, Suspended, Resumed
  <1>1. WQTypeOK'
    BY DEF WQTypeOK
  <1>2. LockInv'
    BY DEF LockInv, WQTypeOK
  <1>3. ListInv'
    BY DEF ListInv, WQTypeOK
  <1>4. WaiterInv'
    BY ActorsAssumption DEF WaiterInv, ResumeInv, Granted, WQTypeOK, Threads
  <1>5. ResumeInv'
    BY DEF ResumeInv, WaiterInv, WQTypeOK, Granted
  <1>6. QED
    BY <1>1, <1>2, <1>3, <1>4, <1>5

\* A woken thread runs.
LEMMA UnblockedInv ==
    ASSUME NEW L, pc \in [Threads -> L], WQInv, NEW t \in Threads,
           NEW to, to \notin Guarded, Unblocked(t, to)
    PROVE  WQInv'
  <1> USE DEF WQInv, GoTo, Guarded, Suspended, Unblocked
  <1>1. WQTypeOK'
    BY DEF WQTypeOK
  <1>2. LockInv'
    BY DEF LockInv, WQTypeOK
  <1>3. ListInv'
    BY DEF ListInv, WQTypeOK
  <1>4. WaiterInv'
    BY ActorsAssumption DEF WaiterInv, WQTypeOK, Threads
  <1>5. ResumeInv'
    BY ActorsAssumption DEF ResumeInv, WaiterInv, WQTypeOK, Granted, Threads
  <1>6. QED
    BY <1>1, <1>2, <1>3, <1>4, <1>5

\* A stop is requested.
LEMMA StopRequestInv ==
    ASSUME NEW L, pc \in [Threads -> L], WQInv, NEW t \in Threads,
           NEW elsewhere, elsewhere \cap Guarded = {}, StopRequest(t, elsewhere)
    PROVE  WQInv'
  <1> USE DEF WQInv, GoTo, Guarded, Suspended, StopRequest
  <1>1. WQTypeOK'
    BY DEF WQTypeOK
  <1>2. LockInv'
    BY DEF LockInv, WQTypeOK
  <1>3. ListInv'
    BY DEF ListInv, WQTypeOK
  <1>4. WaiterInv'
    BY ActorsAssumption DEF WaiterInv, WQTypeOK, Threads
  <1>5. ResumeInv'
    <2>1. CASE pc' = pc
      BY <2>1 DEF ResumeInv, Granted
    <2>2. CASE pc[t] = "wait" /\ pc' = [pc EXCEPT ![t] = "stopRead"]
      BY <2>2 DEF ResumeInv, WQTypeOK, Granted
    <2>3. QED
      BY <2>1, <2>2
  <1>6. QED
    BY <1>1, <1>2, <1>3, <1>4, <1>5

\* The stop handler reads mWaiting.
LEMMA StopReadInv ==
    ASSUME NEW L, pc \in [Threads -> L], WQInv, NEW t \in Threads,
           StopRead(t)
    PROVE  WQInv'
  <1> USE DEF WQInv, GoTo, Guarded, Suspended, StopRead
  <1>1. WQTypeOK'
    BY DEF WQTypeOK
  <1>2. LockInv'
    BY DEF LockInv, WQTypeOK
  <1>3. ListInv'
    BY DEF ListInv, WQTypeOK
  <1>4. WaiterInv'
    BY ActorsAssumption DEF WaiterInv, WQTypeOK, Threads
  <1>5. ResumeInv'
    BY DEF ResumeInv, WaiterInv, WQTypeOK, Granted
  <1>6. QED
    BY <1>1, <1>2, <1>3, <1>4, <1>5

\* The stop handler finds the waiter linked, under the lock, or gives up.
LEMMA StopLockInv ==
    ASSUME NEW L, pc \in [Threads -> L], WQInv, NEW t \in Threads,
           StopLock(t)
    PROVE  WQInv'
  <1> USE DEF WQInv, GoTo, Guarded, Suspended, StopLock
  <1>1. WQTypeOK'
    BY DEF WQTypeOK
  <1>2. LockInv'
    BY ActorsAssumption DEF LockInv, WQTypeOK, Threads
  <1>3. ListInv'
    BY DEF ListInv, WQTypeOK
  <1>4. WaiterInv'
    BY ActorsAssumption DEF WaiterInv, WQTypeOK, Threads
  <1>5. ResumeInv'
    BY DEF ResumeInv, WaiterInv, WQTypeOK, Granted
  <1>6. QED
    BY <1>1, <1>2, <1>3, <1>4, <1>5

\* The coroutine is stopped.
LEMMA SetStoppedInv ==
    ASSUME NEW L, pc \in [Threads -> L], WQInv, NEW t \in Threads,
           SetStopped(t)
    PROVE  WQInv'
  <1> USE DEF WQInv, GoTo, Guarded, Suspended, SetStopped
  <1>1. WQTypeOK'
    BY DEF WQTypeOK
  <1>2. LockInv'
    BY DEF LockInv, WQTypeOK
  <1>3. ListInv'
    BY DEF ListInv, WQTypeOK
  <1>4. WaiterInv'
    BY ActorsAssumption DEF WaiterInv, WQTypeOK, Threads
  <1>5. ResumeInv'
    BY DEF ResumeInv, WaiterInv, WQTypeOK, Granted
  <1>6. QED
    BY <1>1, <1>2, <1>3, <1>4, <1>5

\* A waker locks the queue.
LEMMA WakeLockInv ==
    ASSUME NEW L, pc \in [Threads -> L], WQInv, NEW t \in Threads,
           WakeLock(t)
    PROVE  WQInv'
  <1> USE DEF WQInv, GoTo, Guarded, Suspended, WakeLock
  <1>1. WQTypeOK'
    BY DEF WQTypeOK
  <1>2. LockInv'
    BY ActorsAssumption DEF LockInv, WQTypeOK, Threads
  <1>3. ListInv'
    BY DEF ListInv, WQTypeOK
  <1>4. WaiterInv'
    BY ActorsAssumption DEF WaiterInv, WQTypeOK, Threads
  <1>5. ResumeInv'
    BY DEF ResumeInv, WaiterInv, WQTypeOK, Granted
  <1>6. QED
    BY <1>1, <1>2, <1>3, <1>4, <1>5

\* A waker passes a waiter over.
LEMMA SkipInv ==
    ASSUME NEW L, pc \in [Threads -> L], WQInv, NEW t \in Threads,
           Skip(t)
    PROVE  WQInv'
  <1> USE DEF WQInv, GoTo, Guarded, Suspended, Skip, AtWaiter
  <1>1. WQTypeOK'
    BY DEF WQTypeOK
  <1>2. LockInv'
    BY DEF LockInv, WQTypeOK
  <1>3. ListInv'
    BY DEF ListInv, WQTypeOK
  <1>4. WaiterInv'
    BY ActorsAssumption DEF WaiterInv, WQTypeOK, Threads
  <1>5. ResumeInv'
    BY DEF ResumeInv, WaiterInv, WQTypeOK, Granted
  <1>6. QED
    BY <1>1, <1>2, <1>3, <1>4, <1>5

\* A waker comes to the end of the list.
LEMMA ScanEndInv ==
    ASSUME NEW L, pc \in [Threads -> L], WQInv, NEW t \in Threads,
           NEW after, after \notin Guarded, ScanEnd(t, after)
    PROVE  WQInv'
  <1> USE DEF WQInv, GoTo, Guarded, Suspended, ScanEnd
  <1>1. WQTypeOK'
    BY DEF WQTypeOK
  <1>2. LockInv'
    BY ActorsAssumption DEF LockInv, WQTypeOK, Threads
  <1>3. ListInv'
    BY DEF ListInv, WQTypeOK
  <1>4. WaiterInv'
    BY ActorsAssumption DEF WaiterInv, WQTypeOK, Threads
  <1>5. ResumeInv'
    BY DEF ResumeInv, WaiterInv, WQTypeOK, Granted
  <1>6. QED
    BY <1>1, <1>2, <1>3, <1>4, <1>5
\* A waiter leaves the list, whoever takes it out.
LEMMA LeaveList ==
    ASSUME queue \in Seq(Threads), ListInv, NEW i \in 1..Len(queue),
           queue' = RemoveAt(queue, i), linked' = linked \ {queue[i]}
    PROVE  queue' \in Seq(Threads) /\ ListInv'
  <1>1. queue' \in Seq(Threads)
    BY RemoveAtProperties
  <1>2. Once(queue)
    BY DEF ListInv, Once
  <1>3. Once(queue') /\ Without(queue', queue, i)
    BY <1>2, RemoveAtOnce
  <1>4. \A j \in 1..Len(queue') : queue'[j] \in linked'
    BY <1>3 DEF ListInv, Without
  <1>5. \A u \in linked' : \E j \in 1..Len(queue') : queue'[j] = u
    BY <1>3 DEF ListInv, Without
  <1>6. QED
    BY <1>1, <1>3, <1>4, <1>5 DEF ListInv, Once

\* A stop takes the waiter out.
LEMMA StopUnlinkInv ==
    ASSUME NEW L, pc \in [Threads -> L], WQInv, NEW t \in Threads,
           StopUnlink(t)
    PROVE  WQInv'
  <1> USE DEF WQInv, GoTo, Guarded, Suspended, StopUnlink
  <1>1. t \in linked /\ waiting[t]
    BY DEF WaiterInv
  <1>2. \A u \in Threads : ready[u] = <<>>
    BY DEF ResumeInv
  <1>3. PICK i \in 1..Len(queue) :
           queue[i] = t /\ queue' = RemoveAt(queue, i) /\ UNCHANGED ready
    BY <1>1, <1>2 DEF Unlink, WQTypeOK
  <1>4. queue' \in Seq(Threads) /\ ListInv'
    BY <1>3, LeaveList DEF WQTypeOK
  <1>5. WQTypeOK'
    BY <1>3, <1>4 DEF WQTypeOK
  <1>6. LockInv'
    BY ActorsAssumption DEF LockInv, WQTypeOK, Threads
  <1>7. WaiterInv'
    BY DEF WaiterInv, WQTypeOK
  <1>8. ResumeInv'
    BY <1>1, <1>3 DEF ResumeInv, WQTypeOK, Granted
  <1>9. QED
    BY <1>4, <1>5, <1>6, <1>7, <1>8

\* A waker decides on a waiter.
LEMMA WakeOneInv ==
    ASSUME NEW L, pc \in [Threads -> L], WQInv, NEW t \in Threads,
           WakeOne(t)
    PROVE  WQInv'
  <1> USE DEF WQInv, GoTo, Guarded, Suspended, WakeOne, AtWaiter
  <1> DEFINE w == queue[pos]
  <1>1. pos \in 1..Len(queue) /\ w \in Threads /\ w \in linked
    BY DEF WQTypeOK, ListInv
  <1>2. /\ pc[w] \in Suspended /\ waiting[w] /\ w # t
        /\ blocking[w] <=> w \in Plain
        /\ posted[w] = 0
        /\ \A u \in Threads : cur[u] # w
    BY <1>1, ActorsAssumption DEF WaiterInv, ResumeInv, Granted, WQTypeOK, Threads
  <1>3. queue' \in Seq(Threads) /\ ListInv'
    BY <1>1, LeaveList DEF WQTypeOK
  <1> HIDE DEF w
  <1>4. WQTypeOK'
    BY <1>1, <1>3 DEF WQTypeOK, w
  <1>5. LockInv'
    BY ActorsAssumption DEF LockInv, WQTypeOK, Threads
  <1>6. WaiterInv'
    <2>1. \A u \in Threads : u # w => waiting'[u] = waiting[u]
      BY DEF WQTypeOK, w
    <2>2. ~waiting'[w]
      BY <1>1 DEF WQTypeOK, w
    <2>3. linked' = linked \ {w} /\ UNCHANGED blocking
      BY DEF w
    <2>4. \A u \in Threads : pc'[u] = IF u = t THEN "resume" ELSE pc[u]
      OBVIOUS
    <2>5. pc[t] = "scan" /\ pc[w] # "stopUnlink"
      BY <1>1, <1>2 DEF LockInv
    <2>6. QED
      BY <1>1, <1>2, <2>1, <2>2, <2>3, <2>4, <2>5 DEF WaiterInv
  <1>7. ResumeInv'
    <2>1. \A u \in Threads : cur'[u] = IF u = t THEN w ELSE cur[u]
      BY DEF WQTypeOK, w
    <2>2. \A u \in Threads : Granted(u)' <=> Granted(u) \/ u = w
      BY <1>1, <1>2 DEF Granted, WQTypeOK, w
    <2>3. w # None
      BY <1>1, ActorsAssumption DEF Threads
    <2>4. \A u \in Threads : pc'[u] = IF u = t THEN "resume" ELSE pc[u]
      BY DEF WQTypeOK
    <2>5. cur[t] = None
      BY DEF ResumeInv
    <2>6. QED
      BY <1>1, <1>2, <2>1, <2>2, <2>3, <2>4, <2>5 DEF ResumeInv, WQTypeOK
  <1>8. QED
    BY <1>3, <1>4, <1>5, <1>6, <1>7

\* A waker resumes the waiter it decided on.
LEMMA ResumeStepInv ==
    ASSUME NEW L, pc \in [Threads -> L], WQInv, NEW t \in Threads,
           NEW after, after \notin Guarded, Resume(t, after)
    PROVE  WQInv' /\ pc' = [pc EXCEPT ![t] = after]
  <1> USE DEF WQInv, GoTo, Guarded, Suspended, Resume
  <1> DEFINE w == cur[t]
  <1>1. ready[t] = <<>> /\ UNCHANGED <<ready, linked>>
    BY DEF PopFront, ResumeInv
  <1>2. pc[t] = "resume" /\ pc' = [pc EXCEPT ![t] = after]
    BY <1>1
  <1>3. /\ w \in Threads /\ w # None /\ w # t
        /\ Granted(w) /\ posted[w] = 0
        /\ blocking[w] <=> w \in Plain
    BY <1>2 DEF ResumeInv, WQTypeOK, Granted
  <1> HIDE DEF w
  <1>4. /\ cur' = [cur EXCEPT ![t] = None]
        /\ blocking' = [blocking EXCEPT ![w] = FALSE]
        /\ posted' = [posted EXCEPT ![w] = IF blocking[w] THEN @ ELSE @ + 1]
        /\ UNCHANGED <<queue, qlock, pos, waiting, stopReq, ready, linked>>
    BY <1>1 DEF w
  <1>5. WQTypeOK'
    BY <1>3, <1>4 DEF WQTypeOK
  <1>6. LockInv'
    BY <1>2, <1>4 DEF LockInv
  <1>7. ListInv'
    BY <1>4 DEF ListInv
  <1>8. WaiterInv'
    <2>1. w \notin linked /\ pc[w] # "suspend" /\ pc[t] \notin Suspended
      BY <1>2, <1>3 DEF WaiterInv, Granted
    <2>2. \A u \in Threads : u # w => blocking'[u] = blocking[u]
      BY <1>4 DEF WQTypeOK
    <2>3. ~blocking'[w]
      BY <1>3, <1>4 DEF WQTypeOK
    <2>4. \A u \in Threads : pc'[u] = IF u = t THEN after ELSE pc[u]
      BY <1>2
    <2>5. QED
      BY <1>2, <1>3, <1>4, <2>1, <2>2, <2>3, <2>4 DEF WaiterInv
  <1>9. ResumeInv'
    <2>1. \A u \in Threads : cur'[u] = IF u = t THEN None ELSE cur[u]
      BY <1>4 DEF WQTypeOK
    <2>2. \A u \in Threads : Granted(u)' <=> Granted(u)
      BY <1>2, <1>4 DEF Granted, WQTypeOK
    <2>3. \A u \in Threads : u # t => cur[u] # w
      BY <1>3 DEF ResumeInv, w
    <2>4. w \in Coros <=> ~blocking[w]
      BY <1>3, ActorsAssumption DEF Threads
    <2>5. QED
      BY <1>2, <1>3, <1>4, <2>1, <2>2, <2>3, <2>4 DEF ResumeInv, WQTypeOK
  <1>10. QED
    BY <1>2, <1>5, <1>6, <1>7, <1>8, <1>9

\* What the invariant says of a stopped coroutine and of a destroyed waiter.
LEMMA WQInvImplies == WQInv => StoppedNotResumed /\ NodesOutliveLinks
  <1> SUFFICES ASSUME WQInv PROVE StoppedNotResumed /\ NodesOutliveLinks
    OBVIOUS
  <1> USE DEF WQInv
  <1>1. NodesOutliveLinks
    BY DEF WQTypeOK, WaiterInv, NodesOutliveLinks
  <1>2. ASSUME NEW t \in Threads, pc[t] \in {"stopSet", "stopped"}
        PROVE  posted[t] = 0 /\ \A u \in Threads : cur[u] # t
    <2>1. ~Granted(t)
      BY <1>2 DEF Granted, Suspended
    <2>2. t # None
      BY ActorsAssumption DEF Threads
    <2>3. QED
      BY <2>1, <2>2 DEF ResumeInv
  <1>3. QED
    BY <1>1, <1>2 DEF StoppedNotResumed
=============================================================================
