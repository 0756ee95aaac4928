----------------------------- MODULE LoopProofs -----------------------------
(***************************************************************************)
(* Theorems of MCPrograms about the programs of Qt's loop, io_uring, the   *)
(* completion port, the fiber and the name lookup, for any number of       *)
(* coroutines, operations and entries.                                     *)
(***************************************************************************)
EXTENDS MCPrograms, TLAPS, FiniteSetTheorems, SequenceTheorems

-----------------------------------------------------------------------------
(* Qt's loop.  What module TimerProofs proves of the timer service and of  *)
(* the queue holds of the one that Qt's loop extends.                      *)

QtTimers == INSTANCE TimerProofs WITH
    Coros <- QtCoros, Loop <- 0, Delays <- QtDelays, MaxTime <- QtTime, Slices <- QtSlices,
    now <- v1, mTimers <- v2, local <- v3, st <- v4, stopReq <- v5, slices <- v6

LEMMA QtServiceIs ==
    /\ \A t : QtLoop!UpTo(t) = QtTimers!UpTo(t)
    /\ \A e : QtLoop!Insert(e) = QtTimers!Insert(e)
    /\ \A c : QtLoop!Cancelled(c) = QtTimers!Cancelled(c)
    /\ \A c : QtLoop!Running(c) <=> QtTimers!Running(c)
    /\ \A c, d : QtLoop!Request(c, d) <=> QtTimers!Request(c, d)
    /\ QtLoop!UpdateTimers <=> QtTimers!UpdateTimers
    /\ QtLoop!Slice <=> QtTimers!Slice
    /\ QtLoop!Places = QtTimers!Places
  <1>1. \A t : QtLoop!UpTo(t) = QtTimers!UpTo(t)
    BY DEF QtLoop!UpTo, QtTimers!UpTo
  <1>2. \A e : QtLoop!Insert(e) = QtTimers!Insert(e)
    BY <1>1 DEF QtLoop!Insert, QtTimers!Insert
  <1>3. \A c : QtLoop!Cancelled(c) = QtTimers!Cancelled(c)
    BY DEF QtLoop!Cancelled, QtTimers!Cancelled
  <1>4. \A c : QtLoop!Running(c) <=> QtTimers!Running(c)
    BY DEF QtLoop!Running, QtTimers!Running
  <1>5. \A c, d : QtLoop!Request(c, d) <=> QtTimers!Request(c, d)
    BY <1>4 DEF QtLoop!Request, QtTimers!Request
  <1>6. QtLoop!UpdateTimers <=> QtTimers!UpdateTimers
    BY <1>1 DEF QtLoop!UpdateTimers, QtTimers!UpdateTimers
  <1>7. QtLoop!Places = QtTimers!Places
    BY DEF QtLoop!Places, QtTimers!Places
  <1>8. \A c : QtLoop!Suspend(c) <=> QtTimers!Suspend(c)
    BY <1>4 DEF QtLoop!Suspend, QtTimers!Suspend
  <1>9. \A c : QtLoop!Yield(c) <=> QtTimers!Yield(c)
    BY <1>4 DEF QtLoop!Yield, QtTimers!Yield
  <1>10. \A c, t : QtLoop!Sleep(c, t) <=> QtTimers!Sleep(c, t)
    BY <1>2, <1>4 DEF QtLoop!Sleep, QtTimers!Sleep
  <1>11. \A c, d : QtLoop!StopOther(c, d) <=> QtTimers!StopOther(c, d)
    BY <1>3, <1>5, <1>7 DEF QtLoop!StopOther, QtTimers!StopOther
  <1>12. QtLoop!Slice <=> QtTimers!Slice
    BY <1>8, <1>9, <1>10, <1>11 DEF QtLoop!Slice, QtTimers!Slice
  <1>13. QED
    BY <1>1, <1>2, <1>3, <1>4, <1>5, <1>6, <1>7, <1>12

LEMMA QtTimersAssumed ==
    QtDelays \subseteq Nat /\ QtTime \in Nat /\ QtSlices \in Nat /\ 0 \notin QtCoros
  BY ProgramsAssumption

\* The orders of the elements of S.
QtInOrder(S) == QtLoop!Injection(1..QtLoop!Cardinality(S), S)

LEMMA QtCardinality == \A S : QtLoop!Cardinality(S) = Cardinality(S)
  BY DEF QtLoop!Cardinality, Cardinality, QtLoop!IsFiniteSet, IsFiniteSet

QtThreads == {0, 9}
QtPlaces == QtLoop!Places \cup {"polling", "overlapped"}

\* Where the coroutines are.
QtPlaced ==
    /\ v1 \in 0..QtTime
    /\ QtTimers!ServiceTypes /\ v3 \in Seq(QtThreads \X QtCoros)
    /\ v4 \in [QtCoros -> QtPlaces]
    /\ QtTimers!Placed({})

\* A slice of a coroutine that waits for nothing, and updateTimers().
LEMMA QtServiceStep ==
    ASSUME QtPlaced, QtLoop!Slice \/ QtLoop!UpdateTimers, v1' \in 0..QtTime
    PROVE  /\ QtPlaced'
           /\ \A c \in QtCoros : v4'[c] # v4[c] =>
                  v4[c] \in QtLoop!Places /\ v4'[c] \in QtLoop!Places
  <1>1. PICK T, U, P, rest : T = QtThreads /\ U = QtCoros /\ P = QtPlaces /\ rest = {}
    OBVIOUS
  <1>2. /\ 0 \in T /\ QtCoros \subseteq U /\ QtTimers!Places \subseteq P
        /\ QtTimers!ServiceTypes /\ v1 \in Nat /\ v3 \in Seq(T \X U)
        /\ v4 \in [QtCoros -> P] /\ QtTimers!Placed(rest)
    BY <1>1, QtServiceIs, ProgramsAssumption DEF QtPlaced, QtThreads, QtPlaces
  <1>3. QtTimers!Slice \/ QtTimers!UpdateTimers
    BY QtServiceIs
  <1>4. /\ QtTimers!ServiceTypes' /\ v3' \in Seq(T \X U) /\ v4' \in [QtCoros -> P]
        /\ QtTimers!Placed(rest)' /\ QtTimers!OthersKept
    <2>1. CASE QtTimers!Slice
      BY <1>2, <2>1, QtTimers!SliceKeeps, QtTimersAssumed
    <2>2. CASE QtTimers!UpdateTimers
      BY <1>2, <2>2, QtTimers!UpdateKeeps, QtTimersAssumed
    <2>3. QED
      BY <1>3, <2>1, <2>2
  <1>5. QtTimers!Placed({})'
    BY <1>1, <1>4 DEF QtTimers!Placed
  <1>6. QED
    BY <1>1, <1>4, <1>5, QtServiceIs DEF QtPlaced, QtTimers!OthersKept, QtThreads, QtPlaces

\* The coroutine that runs suspends where neither the queue nor a timer has it, ...
LEMMA QtLeaves ==
    ASSUME QtPlaced, NEW c \in QtCoros, QtLoop!Running(c), NEW to \in QtPlaces,
           to \notin {"ready", "asleep"},
           v4' = [v4 EXCEPT ![c] = to], v3' = Tail(v3), UNCHANGED <<v1, v2, v5>>,
           v6' \in [QtCoros -> 0..QtSlices]
    PROVE  QtPlaced' /\ v4[c] = "ready"
  <1>1. PICK T, U, P, rest : T = QtThreads /\ U = QtCoros /\ P = QtPlaces /\ rest = {}
    OBVIOUS
  <1>2. /\ QtTimers!ServiceTypes /\ v3 \in Seq(T \X U) /\ v4 \in [QtCoros -> P]
        /\ QtTimers!Placed(rest) /\ QtTimers!Running(c) /\ to \in P
    BY <1>1, QtServiceIs DEF QtPlaced
  <1>3. v3' \in Seq(T \X U) /\ v4' \in [QtCoros -> P] /\ QtTimers!Placed(rest)'
    BY <1>2, QtTimers!LeaveKeeps, QtTimersAssumed
  <1>4. v4[c] = "ready"
    BY <1>2, QtTimers!RunningIs, QtTimersAssumed
  <1>5. QtTimers!Placed({})'
    BY <1>1, <1>3 DEF QtTimers!Placed
  <1>6. QtTimers!ServiceTypes'
    BY DEF QtPlaced, QtTimers!ServiceTypes
  <1>7. QED
    BY <1>1, <1>3, <1>4, <1>5, <1>6 DEF QtPlaced, QtThreads, QtPlaces

\* ... or is posted again.
LEMMA QtYields ==
    ASSUME QtPlaced, NEW c \in QtCoros, QtLoop!Running(c),
           v3' = Append(Tail(v3), <<0, c>>)
    PROVE  /\ v3' \in Seq(QtThreads \X QtCoros) /\ QtTimers!Who(v3') = QtTimers!Who(v3)
           /\ QtTimers!Once(v3') /\ v4[c] = "ready"
  <1>1. PICK T, U, rest : T = QtThreads /\ U = QtCoros /\ rest = {}
    OBVIOUS
  <1>2. /\ v3 \in Seq(T \X U) /\ 0 \in T /\ QtCoros \subseteq U
        /\ QtTimers!Placed(rest) /\ QtTimers!Running(c)
    BY <1>1, QtServiceIs DEF QtPlaced, QtThreads
  <1>3. v3' \in Seq(T \X U) /\ QtTimers!Who(v3') = QtTimers!Who(v3) /\ QtTimers!Once(v3')
    BY <1>2, QtTimers!YieldKeeps, QtTimersAssumed
  <1>4. v4[c] = "ready"
    BY <1>2, QtTimers!RunningIs, QtTimersAssumed
  <1>5. QED
    BY <1>1, <1>3, <1>4

\* Where the others are stays, when the queue has the same.
LEMMA QtSamePlaced ==
    ASSUME QtPlaced, v1' \in 0..QtTime, v2' = v2,
           v5' \in [QtCoros -> BOOLEAN], v6' \in [QtCoros -> 0..QtSlices],
           v3' \in Seq(QtThreads \X QtCoros), QtTimers!Who(v3') = QtTimers!Who(v3),
           QtTimers!Once(v3'), v4' \in [QtCoros -> QtPlaces],
           \A c \in QtCoros : v4'[c] # v4[c] =>
               v4[c] \notin {"ready", "asleep"} /\ v4'[c] \notin {"ready", "asleep"}
    PROVE  QtPlaced'
  BY DEF QtPlaced, QtTimers!ServiceTypes, QtTimers!Placed, QtThreads, QtPlaces, QtLoop!Places

LEMMA OneSlice ==
    ASSUME QtPlaced, NEW c \in QtCoros, v6[c] > 0, v6' = [v6 EXCEPT ![c] = @ - 1]
    PROVE  v6' \in [QtCoros -> 0..QtSlices]
  BY QtTimers!OneSliceLess, QtTimersAssumed DEF QtPlaced

\* The callbacks of those in S, one after the other.
QtCalls(s) == [i \in DOMAIN s |-> <<0, s[i]>>]

LEMMA QtScheduled ==
    ASSUME NEW S \in SUBSET QtCoros, NEW s \in QtInOrder(S), NEW q,
           q \in Seq(QtThreads \X QtCoros), QtTimers!Once(q), QtTimers!Who(q) \cap S = {}
    PROVE  /\ q \o QtCalls(s) \in Seq(QtThreads \X QtCoros)
           /\ QtTimers!Who(q \o QtCalls(s)) = QtTimers!Who(q) \cup S
           /\ QtTimers!Once(q \o QtCalls(s))
  <1>0. PICK x : x = QtCalls(s)
    OBVIOUS
  <1>1. PICK n : n = Cardinality(S)
    OBVIOUS
  <1>2. IsFiniteSet(S) /\ n \in Nat
    BY <1>1, ProgramsAssumption, FS_Subset, FS_CardinalityType
  <1>3. s \in [1..n -> S] /\ \A i, j \in 1..n : i # j => s[i] # s[j]
    BY <1>1, QtCardinality DEF QtInOrder, QtLoop!Injection, QtLoop!IsInjective
  <1>4. \A u \in S : \E i \in 1..n : s[i] = u
    <2>1. s \in Injection(1..n, S)
      BY <1>3 DEF Injection, IsInjective
    <2>2. IsFiniteSet(1..n) /\ Cardinality(1..n) = n
      BY <1>2, FS_Interval
    <2>3. s \in Surjection(1..n, S)
      BY <1>1, <1>2, <2>1, <2>2, FS_Injection
    <2>4. QED
      BY <2>3 DEF Surjection
  <1>5. DOMAIN s = 1..n /\ DOMAIN x = 1..n /\ \A i \in 1..n : x[i] = <<0, s[i]>>
    BY <1>0, <1>3 DEF QtCalls
  <1>6. x \in [1..n -> QtThreads \X QtCoros]
    BY <1>0, <1>3, <1>5 DEF QtThreads, QtCalls
  <1>7. x \in Seq(QtThreads \X QtCoros)
    BY <1>2, <1>6, IsASeq
  <1>8. QtTimers!Who(x) = S
    BY <1>3, <1>4, <1>5 DEF QtTimers!Who
  <1>9. QtTimers!Once(x)
    BY <1>3, <1>5 DEF QtTimers!Once
  <1>10. PICK T, U, a, b : T = QtThreads /\ U = QtCoros /\ a = q /\ b = x
    OBVIOUS
  <1>11. a \in Seq(T \X U) /\ b \in Seq(T \X U)
    BY <1>7, <1>10
  <1>12. /\ a \o b \in Seq(T \X U)
         /\ \A u : u \in QtTimers!Who(a \o b) <=> u \in QtTimers!Who(a) \/ u \in QtTimers!Who(b)
         /\ QtTimers!Once(a \o b) <=> QtTimers!Once(a) /\ QtTimers!Once(b)
                                      /\ QtTimers!Who(a) \cap QtTimers!Who(b) = {}
    BY <1>11, QtTimersAssumed, QtTimers!WhoConcat
  <1>13. QED
    BY <1>0, <1>8, <1>9, <1>10, <1>12

\* Those in S, whom nothing else will wake, are scheduled.
LEMMA QtWakes ==
    ASSUME QtPlaced, NEW S \in SUBSET QtCoros, NEW s \in QtInOrder(S),
           \A c \in S : v4[c] \notin {"ready", "asleep"},
           v3' = v3 \o QtCalls(s),
           v4' = [c \in QtCoros |-> IF c \in S THEN "ready" ELSE v4[c]],
           UNCHANGED <<v1, v2, v5, v6>>
    PROVE  QtPlaced'
  <1>1. PICK q : q = v3
    OBVIOUS
  <1>2. /\ q \in Seq(QtThreads \X QtCoros) /\ QtTimers!Once(q) /\ QtTimers!Who(q) \cap S = {}
    BY <1>1 DEF QtPlaced, QtTimers!Placed
  <1>3. /\ v3' \in Seq(QtThreads \X QtCoros)
        /\ QtTimers!Who(v3') = QtTimers!Who(v3) \cup S /\ QtTimers!Once(v3')
    <2>1. /\ q \o QtCalls(s) \in Seq(QtThreads \X QtCoros)
          /\ QtTimers!Who(q \o QtCalls(s)) = QtTimers!Who(q) \cup S
          /\ QtTimers!Once(q \o QtCalls(s))
      BY <1>1, <1>2, QtScheduled
    <2>2. v3' = q \o QtCalls(s)
      BY <1>1
    <2>3. QED
      BY <1>1, <2>1, <2>2, Zenon
  <1>4. v4' \in [QtCoros -> QtPlaces]
    BY DEF QtPlaced, QtPlaces, QtLoop!Places
  <1>5. QED
    BY <1>3, <1>4 DEF QtPlaced, QtTimers!ServiceTypes, QtTimers!Placed

-----------------------------------------------------------------------------
(* The notifiers.                                                          *)

QtCount(n, f) == Cardinality({c \in QtCoros : n \in f[c]})

\* numOfRead and the others count the connections; a notifier is enabled while there is one.
QtCounts ==
    /\ v10 \in [QtLoop!Notifiers -> Nat] /\ v11 \subseteq QtLoop!Notifiers
    /\ v12 \in [QtCoros -> SUBSET (QtLoop!Notifiers \cup {"Destroy"})]
    /\ \A n \in QtLoop!Notifiers : v10[n] = QtCount(n, v12) /\ (n \in v11 <=> v10[n] > 0)

\* Who polls is connected.
QtConnected ==
    /\ v7 \in BOOLEAN
    /\ \A c \in QtCoros :
           /\ v12[c] # {} <=> v4[c] = "polling"
           /\ v12[c] # {} => v7 /\ v12[c] = QtLoop!Wants(v13[c]) \cup {"Except", "Destroy"}

\* What a coroutine waits in.
QtOps ==
    /\ v13 \in [QtCoros -> QtLoop!Polls \cup {"none", "overlapped"}]
    /\ v14 \in [QtCoros -> {"none", "pending", "done", "canceled"}]
    /\ QtLoop!OpsKept /\ QtLoop!OverlappedOutlives

\* What a count loses when some disconnect, and gains when one connects.
QtLess(n, f, g, S) ==
    LET lost == Cardinality({c \in S : n \in f[c]})
    IN  /\ lost \in Nat /\ QtCount(n, f) \in Nat /\ QtCount(n, g) \in Nat
        /\ QtCount(n, g) = QtCount(n, f) - lost

LEMMA QtFewer ==
    ASSUME NEW n, NEW f, NEW g, NEW S \in SUBSET QtCoros,
           \A c \in QtCoros : g[c] = IF c \in S THEN {} ELSE f[c]
    PROVE  QtLess(n, f, g, S)
  <1> DEFINE F == {c \in QtCoros : n \in f[c]}
             L == {c \in S : n \in f[c]}
  <1>1. IsFiniteSet(F) /\ IsFiniteSet(L)
    BY ProgramsAssumption, FS_Subset
  <1>2. {c \in QtCoros : n \in g[c]} = F \ L /\ F \cap L = L
    OBVIOUS
  <1> HIDE DEF F, L
  <1>3. /\ Cardinality(F) \in Nat /\ Cardinality(L) \in Nat
        /\ IsFiniteSet(F \ L) /\ Cardinality(F \ L) = Cardinality(F) - Cardinality(F \cap L)
        /\ Cardinality(F \ L) \in Nat
    BY <1>1, FS_CardinalityType, FS_Difference
  <1>4. QED
    BY <1>2, <1>3 DEF QtLess, QtCount, F, L

QtMore(n, f, g, d) ==
    /\ QtCount(n, f) \in Nat /\ QtCount(n, g) \in Nat
    /\ n \in g[d] => QtCount(n, g) = QtCount(n, f) + 1
    /\ n \notin g[d] => QtCount(n, g) = QtCount(n, f)

LEMMA QtOneMore ==
    ASSUME NEW n, NEW f, NEW g, NEW d \in QtCoros,
           f[d] = {}, \A c \in QtCoros \ {d} : g[c] = f[c]
    PROVE  QtMore(n, f, g, d)
  <1> DEFINE F == {c \in QtCoros : n \in f[c]}
             G == {c \in QtCoros : n \in g[c]}
  <1>1. IsFiniteSet(F) /\ d \notin F
    BY ProgramsAssumption, FS_Subset
  <1>2. G = IF n \in g[d] THEN F \cup {d} ELSE F
    OBVIOUS
  <1> HIDE DEF F, G
  <1>3. /\ Cardinality(F) \in Nat
        /\ Cardinality(F \cup {d}) = Cardinality(F) + 1
    BY <1>1, FS_CardinalityType, FS_AddElement
  <1>4. F = {c \in QtCoros : n \in f[c]} /\ G = {c \in QtCoros : n \in g[c]}
    BY DEF F, G
  <1>5. QtCount(n, f) = Cardinality(F) /\ QtCount(n, g) = Cardinality(G)
    BY <1>4, Zenon DEF QtCount
  <1>6. CASE n \in g[d]
    BY <1>2, <1>3, <1>5, <1>6 DEF QtMore
  <1>7. CASE n \notin g[d]
    BY <1>2, <1>3, <1>5, <1>7 DEF QtMore
  <1>8. QED
    BY <1>6, <1>7

LEMMA QtDisconnects ==
    ASSUME QtCounts, NEW S \in SUBSET QtCoros, QtLoop!Disconnect(S)
    PROVE  QtCounts' /\ \A c \in QtCoros : v12'[c] = IF c \in S THEN {} ELSE v12[c]
  <1>1. /\ v10' = [n \in QtLoop!Notifiers |-> v10[n] - Cardinality({c \in S : n \in v12[c]})]
        /\ v11' = {n \in v11 : v10'[n] > 0}
        /\ v12' = [c \in QtCoros |-> IF c \in S THEN {} ELSE v12[c]]
    BY QtCardinality DEF QtLoop!Disconnect
  <1>2. \A c \in QtCoros : v12'[c] = IF c \in S THEN {} ELSE v12[c]
    BY <1>1
  <1>3. PICK f, g : f = v12 /\ g = v12'
    OBVIOUS
  <1>4. ASSUME NEW n \in QtLoop!Notifiers
        PROVE  /\ v10'[n] \in Nat /\ v10'[n] = QtCount(n, v12')
               /\ n \in v11' <=> v10'[n] > 0
    <2>1. QtLess(n, f, g, S)
      BY <1>2, <1>3, QtFewer
    <2>2. PICK lost, a, b : /\ lost = Cardinality({c \in S : n \in f[c]})
                            /\ a = QtCount(n, f) /\ b = QtCount(n, g)
      OBVIOUS
    <2>3. lost \in Nat /\ a \in Nat /\ b \in Nat /\ b = a - lost
      BY <2>1, <2>2 DEF QtLess
    <2>4. v10[n] = a /\ (n \in v11 <=> a > 0)
      BY <1>3, <2>2 DEF QtCounts
    <2>5. v10'[n] = a - lost
      BY <1>1, <1>3, <2>2, <2>4
    <2>6. v10'[n] = b /\ b = QtCount(n, v12')
      BY <1>3, <2>2, <2>3, <2>5
    <2>7. n \in v11' <=> n \in v11 /\ b > 0
      BY <1>1, <2>6
    <2>8. QED
      BY <2>3, <2>4, <2>6, <2>7
  <1>5. v10' \in [QtLoop!Notifiers -> Nat]
    BY <1>1, <1>4
  <1>6. v11' \subseteq QtLoop!Notifiers
    BY <1>1 DEF QtCounts
  <1>7. v12' \in [QtCoros -> SUBSET (QtLoop!Notifiers \cup {"Destroy"})]
    BY <1>1 DEF QtCounts
  <1>8. QED
    BY <1>2, <1>4, <1>5, <1>6, <1>7 DEF QtCounts

\* doConnect()
LEMMA QtConnects ==
    ASSUME QtCounts, NEW c \in QtCoros, NEW on \in SUBSET QtLoop!Notifiers, v12[c] = {},
           v12' = [v12 EXCEPT ![c] = on \cup {"Destroy"}],
           v11' = v11 \cup on,
           v10' = [n \in QtLoop!Notifiers |-> v10[n] + IF n \in on THEN 1 ELSE 0]
    PROVE  QtCounts'
  <1>1. /\ v12' \in [QtCoros -> SUBSET (QtLoop!Notifiers \cup {"Destroy"})]
        /\ v12'[c] = on \cup {"Destroy"} /\ \A d \in QtCoros \ {c} : v12'[d] = v12[d]
    BY DEF QtCounts
  <1>2. PICK f, g : f = v12 /\ g = v12'
    OBVIOUS
  <1>3. ASSUME NEW n \in QtLoop!Notifiers
        PROVE  /\ v10'[n] \in Nat /\ v10'[n] = QtCount(n, v12')
               /\ n \in v11' <=> v10'[n] > 0
    <2>1. QtMore(n, f, g, c)
      BY <1>1, <1>2, QtOneMore
    <2>2. PICK a, b : a = QtCount(n, f) /\ b = QtCount(n, g)
      OBVIOUS
    <2>3. n \in g[c] <=> n \in on
      BY <1>1, <1>2 DEF QtLoop!Notifiers
    <2>4. /\ a \in Nat /\ b \in Nat
          /\ n \in on => b = a + 1
          /\ n \notin on => b = a
      BY <2>1, <2>2, <2>3 DEF QtMore
    <2>5. v10[n] = a /\ (n \in v11 <=> a > 0)
      BY <1>2, <2>2 DEF QtCounts
    <2>6. (n \in on => v10'[n] = a + 1) /\ (n \notin on => v10'[n] = a + 0)
      BY <2>5
    <2>7. v10'[n] = b /\ b = QtCount(n, v12')
      BY <1>2, <2>2, <2>4, <2>6
    <2>8. QED
      BY <2>4, <2>5, <2>7
  <1>4. v10' \in [QtLoop!Notifiers -> Nat]
    BY <1>3
  <1>5. v11' \subseteq QtLoop!Notifiers
    BY DEF QtCounts
  <1>6. QED
    BY <1>1, <1>3, <1>4, <1>5 DEF QtCounts

-----------------------------------------------------------------------------
(* Qt's timer.                                                             *)

\* Qt's timer m, at time s, stands for one that is due at n.
QtTimerIs(m, n, s) ==
    /\ m \in [at : 0..QtTime, every : Nat]
    /\ m.at + (IF QtRounds THEN QtMs - 1 ELSE 0) >= n
    /\ \/ m.at < n + m.every
       \/ m.at <= s + QtMs

\* It was started for the first of the timers.
QtTimed ==
    /\ QtLoop!TimerFollows
    /\ IF v2 = <<>> THEN v15 = [at |-> QtLoop!Never, every |-> 0]
                    ELSE QtTimerIs(v15, QtLoop!NextTimepoint, v1)

QtFirstIs ==
    /\ QtLoop!NextTimepoint \in Nat /\ QtLoop!NextTimepoint <= QtLoop!Never
    /\ QtLoop!NextTimepoint = QtLoop!Never <=> v2 = <<>>

LEMMA QtFirst == QtPlaced => QtFirstIs
  <1> SUFFICES ASSUME QtPlaced PROVE QtFirstIs
    OBVIOUS
  <1>1. QtLoop!Never = QtTime + 1 /\ QtTime \in Nat
    BY ProgramsAssumption DEF QtLoop!Never
  <1>2. CASE v2 = <<>>
    BY <1>1, <1>2 DEF QtLoop!NextTimepoint, QtFirstIs
  <1>3. CASE v2 # <<>>
    <2>1. v2 \in Seq([at : 0..QtTime, who : QtCoros])
      BY DEF QtPlaced, QtTimers!ServiceTypes, QtTimers!Timers
    <2>2. Head(v2) \in [at : 0..QtTime, who : QtCoros]
      <3>1. PICK T : T = [at : 0..QtTime, who : QtCoros]
        OBVIOUS
      <3>2. v2 \in Seq(T)
        BY <2>1, <3>1
      <3>3. Head(v2) \in T
        BY <1>3, <3>2
      <3>4. QED
        BY <3>1, <3>3
    <2>3. QtLoop!NextTimepoint \in 0..QtTime
      BY <1>3, <2>2 DEF QtLoop!NextTimepoint
    <2>4. QED
      BY <1>1, <1>3, <2>3 DEF QtFirstIs
  <1>4. QED
    BY <1>2, <1>3

LEMMA QtClock ==
    ASSUME v1 \in 0..QtTime, QtLoop!TimerChanged
    PROVE  v1' \in 0..QtTime /\ v1 <= v1'
  BY ProgramsAssumption DEF QtLoop!TimerChanged, QtLoop!StartTimer

\* An interval that starts at s, of a timer due at t.
QtIntervalIs(t, s, i) ==
    /\ i \in Nat
    /\ t < s => i = QtMs
    /\ t >= s => i <= t - s /\ t - s <= i + (IF QtRounds THEN QtMs - 1 ELSE 0)

LEMMA QtIntervals ==
    ASSUME NEW t \in Nat, NEW s \in Nat
    PROVE  QtIntervalIs(t, s, QtLoop!Interval(t, s))
  <1>1. QtMs \in Nat \ {0} /\ QtRounds \in BOOLEAN
    BY ProgramsAssumption
  <1>2. CASE t < s
    BY <1>1, <1>2 DEF QtLoop!Interval, QtIntervalIs
  <1>3. CASE t >= s
    <2>1. PICK d \in Nat : d = t - s
      BY <1>3
    <2>2. PICK r \in 0..(QtMs - 1) : r = d % QtMs
      BY <1>1
    <2>3. r <= d
      BY <1>1, <2>2
    <2>4. QtLoop!Interval(t, s) = IF QtRounds THEN d - r ELSE d
      BY <1>3, <2>1, <2>2 DEF QtLoop!Interval
    <2>5. QED
      BY <1>1, <1>3, <2>1, <2>2, <2>3, <2>4 DEF QtIntervalIs
  <1>4. QED
    BY <1>2, <1>3

LEMMA QtTimerStarts ==
    ASSUME NEW n \in 0..QtTime, NEW s \in 0..QtTime, NEW i, i = QtLoop!Interval(n, s)
    PROVE  QtTimerIs([at |-> QtLoop!Reached(s + i), every |-> i], n, s)
  <1>1. QtMs \in Nat \ {0} /\ QtRounds \in BOOLEAN /\ QtTime \in Nat
    BY ProgramsAssumption
  <1>2. QtIntervalIs(n, s, i)
    BY <1>1, QtIntervals
  <1>3. PICK a : a = QtLoop!Reached(s + i)
    OBVIOUS
  <1>4. /\ a \in 0..QtTime
        /\ a + (IF QtRounds THEN QtMs - 1 ELSE 0) >= n
        /\ a < n + i \/ a <= s + QtMs
    BY <1>1, <1>2, <1>3 DEF QtIntervalIs, QtLoop!Reached
  <1>5. QED
    BY <1>2, <1>3, <1>4 DEF QtIntervalIs, QtTimerIs

LEMMA QtTimerRepeats ==
    ASSUME NEW n \in 0..QtTime, NEW s \in 0..QtTime, NEW m, QtTimerIs(m, n, s),
           m.at <= s, s < n
    PROVE  QtTimerIs([m EXCEPT !.at = QtLoop!Reached(s + m.every)], n, s)
  <1>1. QtMs \in Nat \ {0} /\ QtRounds \in BOOLEAN /\ QtTime \in Nat
    BY ProgramsAssumption
  <1>2. PICK a, e : a = QtLoop!Reached(s + m.every) /\ e = m.every
    OBVIOUS
  <1>3. e \in Nat /\ m.at \in 0..QtTime /\ m = [at |-> m.at, every |-> e]
    BY <1>2 DEF QtTimerIs
  <1>4. a \in 0..QtTime /\ m.at <= a /\ a <= s + e
    BY <1>1, <1>2, <1>3 DEF QtLoop!Reached
  <1>5. m.at + (IF QtRounds THEN QtMs - 1 ELSE 0) >= n
    BY DEF QtTimerIs
  <1>6. a + (IF QtRounds THEN QtMs - 1 ELSE 0) >= n
    BY <1>1, <1>3, <1>4, <1>5
  <1>7. a < n + e
    BY <1>3, <1>4
  <1>8. [m EXCEPT !.at = a] = [at |-> a, every |-> e]
    BY <1>3
  <1>9. QED
    BY <1>2, <1>3, <1>4, <1>6, <1>7, <1>8 DEF QtTimerIs

LEMMA QtStarts ==
    ASSUME QtPlaced, QtPlaced', QtLoop!StartTimer
    PROVE  QtTimed'
  <1>1. PICK m, s : m = QtLoop!NextTimepoint' /\ s = v1'
    OBVIOUS
  <1>2. QtLoop!Never = QtTime + 1 /\ QtTime \in Nat /\ s \in 0..QtTime
    BY <1>1, ProgramsAssumption DEF QtLoop!Never, QtPlaced
  <1>3. m \in Nat /\ m <= QtTime + 1 /\ (m = QtTime + 1 <=> v2' = <<>>)
    <2>1. QtFirstIs'
      BY QtFirst, PTL
    <2>2. QED
      BY <1>1, <1>2, <2>1 DEF QtFirstIs, QtLoop!Never
  <1>4. PICK i : i = QtLoop!Interval(m, s)
    OBVIOUS
  <1>5. /\ v16' = m
        /\ v15' = IF m = QtTime + 1 THEN [at |-> QtTime + 1, every |-> 0]
                   ELSE [at |-> QtLoop!Reached(s + i), every |-> i]
    BY <1>1, <1>2, <1>4 DEF QtLoop!StartTimer, QtLoop!Never
  <1>6. CASE v2' = <<>>
    BY <1>1, <1>2, <1>3, <1>5, <1>6 DEF QtTimed, QtLoop!TimerFollows, QtLoop!Never
  <1>7. CASE v2' # <<>>
    <2>1. m \in 0..QtTime
      BY <1>2, <1>3, <1>7
    <2>2. QtTimerIs([at |-> QtLoop!Reached(s + i), every |-> i], m, s)
      BY <1>2, <1>4, <2>1, QtTimerStarts
    <2>3. QtTimerIs(v15', m, s)
      BY <1>2, <1>5, <2>1, <2>2
    <2>4. QED
      BY <1>1, <1>5, <1>7, <2>3 DEF QtTimed, QtLoop!TimerFollows, QtTimerIs
  <1>8. QED
    BY <1>6, <1>7

\* The clock may go on.
LEMMA QtTimerWaits ==
    ASSUME QtTimed, UNCHANGED <<v15, v16>>, QtLoop!NextTimepoint' = QtLoop!NextTimepoint,
           v2' = <<>> <=> v2 = <<>>, v1 \in Nat, v1' \in Nat, v1 <= v1'
    PROVE  QtTimed'
  <1>1. QtLoop!NextTimepoint' = v16'
    BY DEF QtTimed, QtLoop!TimerFollows
  <1>2. CASE v2 = <<>>
    BY <1>1, <1>2 DEF QtTimed, QtLoop!TimerFollows, QtLoop!Never
  <1>3. CASE v2 # <<>>
    <2>1. PICK n, m : n = QtLoop!NextTimepoint /\ m = v15
      OBVIOUS
    <2>2. QtTimerIs(m, n, v1)
      BY <1>3, <2>1 DEF QtTimed
    <2>3. QtTimerIs(m, n, v1')
      BY <2>2, ProgramsAssumption DEF QtTimerIs
    <2>4. QED
      BY <1>1, <1>3, <2>1, <2>3 DEF QtTimed, QtLoop!TimerFollows, QtTimerIs
  <1>4. QED
    BY <1>2, <1>3

LEMMA QtTimerKept ==
    ASSUME QtPlaced, QtTimed, UNCHANGED <<v1, v2, v15, v16>>
    PROVE  QtTimed'
  <1>1. v1 \in Nat /\ v1 <= v1
    BY ProgramsAssumption DEF QtPlaced
  <1>2. QtLoop!NextTimepoint' = QtLoop!NextTimepoint
    BY DEF QtLoop!NextTimepoint, QtLoop!Never
  <1>3. QED
    BY <1>1, <1>2, QtTimerWaits

LEMMA QtTimerFollows ==
    ASSUME QtPlaced, QtPlaced', QtTimed, QtLoop!TimerChanged
    PROVE  QtTimed'
  <1>1. QtFirstIs /\ QtFirstIs'
    BY QtFirst, PTL
  <1>2. CASE QtLoop!NextTimepoint' = v16
    <2>1. QtLoop!NextTimepoint' = QtLoop!NextTimepoint
      BY <1>2 DEF QtTimed, QtLoop!TimerFollows
    <2>2. v2' = <<>> <=> v2 = <<>>
      BY <1>1, <2>1 DEF QtFirstIs, QtLoop!Never
    <2>3. UNCHANGED <<v1, v15, v16>> /\ v1 \in Nat /\ v1 <= v1
      BY <1>2, ProgramsAssumption DEF QtLoop!TimerChanged, QtLoop!qtTimer, QtPlaced
    <2>4. QED
      BY <2>1, <2>2, <2>3, QtTimerWaits
  <1>3. CASE QtLoop!NextTimepoint' # v16
    BY <1>3, QtStarts DEF QtLoop!TimerChanged
  <1>4. QED
    BY <1>2, <1>3

\* timerEvent(), when nobody is due: Qt's timer comes again.
LEMMA QtTimerAgain ==
    ASSUME QtPlaced, QtPlaced', QtTimed, QtLoop!UpdateTimers, v15.at <= v1,
           QtLoop!NextTimepoint' = v16, UNCHANGED <<v1, v16>>,
           v15' = [v15 EXCEPT !.at = QtLoop!Reached(v1 + v15.every)]
    PROVE  QtTimed'
  <1>1. QtFirstIs /\ QtFirstIs'
    BY QtFirst, PTL
  <1>2. PICK n, m : n = QtLoop!NextTimepoint /\ m = v15
    OBVIOUS
  <1>3. QtLoop!Never = QtTime + 1 /\ QtTime \in Nat /\ v1 \in 0..QtTime
    BY ProgramsAssumption DEF QtLoop!Never, QtPlaced
  <1>4. v16 = n /\ QtLoop!NextTimepoint' = n /\ v16' = n
    BY <1>2 DEF QtTimed, QtLoop!TimerFollows
  <1>5. v2 # <<>>
    BY <1>3 DEF QtTimed
  <1>6. v2' # <<>> /\ n \in 0..QtTime
    BY <1>1, <1>2, <1>3, <1>4, <1>5 DEF QtFirstIs, QtLoop!Never
  <1>7. v1 < n
    <2>1. QtTimers!ServiceTypes /\ v3 \in Seq(QtThreads \X QtCoros) /\ QtTimers!UpdateTimers
      BY QtServiceIs DEF QtPlaced
    <2>2. QtTimers!NextTimepoint' > v1
      BY <1>3, <2>1, QtTimers!UpdateLeaves, QtTimersAssumed
    <2>3. QtTimers!NextTimepoint' = QtLoop!NextTimepoint'
      BY DEF QtTimers!NextTimepoint, QtLoop!NextTimepoint, QtTimers!Never, QtLoop!Never
    <2>4. QED
      BY <1>3, <1>4, <1>6, <2>2, <2>3
  <1>8. QtTimerIs(m, n, v1) /\ m.at <= v1
    BY <1>2, <1>5 DEF QtTimed
  <1>9. QtTimerIs([m EXCEPT !.at = QtLoop!Reached(v1 + m.every)], n, v1)
    BY <1>3, <1>6, <1>7, <1>8, QtTimerRepeats
  <1>10. QtTimerIs(v15', n, v1)
    BY <1>2, <1>9
  <1>11. QED
    BY <1>4, <1>6, <1>10 DEF QtTimed, QtLoop!TimerFollows, QtTimerIs

-----------------------------------------------------------------------------
(* The steps.                                                              *)

QtInv == QtPlaced /\ QtCounts /\ QtConnected /\ QtOps /\ QtTimed

LEMMA QtInit == QtLoop!Init => QtInv
  <1> SUFFICES ASSUME QtLoop!Init PROVE QtInv
    OBVIOUS
  <1>1. /\ v1 = 0 /\ v2 = <<>> /\ v3 = <<>> /\ v4 = [c \in QtCoros |-> "parked"]
        /\ v5 = [c \in QtCoros |-> FALSE] /\ v6 = [c \in QtCoros |-> QtSlices]
    BY DEF QtLoop!Init, QtLoop!TimerInit
  <1>2. QtPlaced
    <2>1. QtTimers!ServiceTypes
      BY <1>1, ProgramsAssumption DEF QtTimers!ServiceTypes
    <2>2. QtTimers!Placed({})
      BY <1>1 DEF QtTimers!Placed, QtTimers!Who, QtTimers!Once, QtTimers!Sleepers,
                  QtTimers!Sorted, QtTimers!Alone
    <2>3. QED
      BY <1>1, <2>1, <2>2, ProgramsAssumption DEF QtPlaced, QtPlaces, QtLoop!Places
  <1>3. QtCounts
    <2>1. /\ v10 = [n \in QtLoop!Notifiers |-> 0] /\ v11 = {}
          /\ v12 = [c \in QtCoros |-> {}]
      BY DEF QtLoop!Init
    <2>2. \A n : {c \in QtCoros : n \in v12[c]} = {}
      BY <2>1
    <2>3. \A n : QtCount(n, v12) = 0
      BY <2>2, FS_EmptySet DEF QtCount
    <2>4. QED
      BY <2>1, <2>3 DEF QtCounts
  <1>4. QtConnected
    BY <1>1 DEF QtLoop!Init, QtConnected
  <1>5. QtOps
    BY <1>1 DEF QtLoop!Init, QtOps, QtLoop!OpsKept, QtLoop!OverlappedOutlives
  <1>6. QtTimed
    BY <1>1, ProgramsAssumption DEF QtLoop!Init, QtTimed, QtLoop!TimerFollows,
             QtLoop!NextTimepoint, QtLoop!Never
  <1>7. QED
    BY <1>2, <1>3, <1>4, <1>5, <1>6 DEF QtInv

\* A slice, and timerEvent(): neither moves who polls or waits for an OVERLAPPED.
LEMMA QtServes ==
    ASSUME QtInv, QtLoop!Slice \/ QtLoop!UpdateTimers, v1' \in 0..QtTime,
           QtPlaced' => QtTimed', UNCHANGED <<v7, v10, v11, v12, v13, v14>>,
           \A c \in QtCoros : v4'[c] # v4[c] => v13[c] = "none" \/ v4'[c] = "ready"
    PROVE  QtInv'
  <1>2. /\ QtPlaced'
        /\ \A c \in QtCoros : v4'[c] # v4[c] =>
               v4[c] \in QtLoop!Places /\ v4'[c] \in QtLoop!Places
    BY QtServiceStep DEF QtInv
  <1>3. QtTimed'
    BY <1>2
  <1>4. QtCounts'
    BY DEF QtInv, QtCounts
  <1>5. QtConnected'
    BY <1>2 DEF QtInv, QtConnected, QtLoop!Places
  <1>6. QtOps'
    BY <1>2 DEF QtInv, QtOps, QtLoop!Places, QtLoop!OpsKept, QtLoop!OverlappedOutlives
  <1>7. QED
    BY <1>2, <1>3, <1>4, <1>5, <1>6 DEF QtInv

\* What the running coroutine is in.
LEMMA QtRunningIs ==
    ASSUME QtInv, NEW c \in QtCoros, QtLoop!Running(c)
    PROVE  v4[c] = "ready" /\ v12[c] = {}
  <1>1. PICK T, U, rest : T = QtThreads /\ U = QtCoros /\ rest = {}
    OBVIOUS
  <1>2. v3 \in Seq(T \X U) /\ QtTimers!Placed(rest) /\ QtTimers!Running(c)
    BY <1>1, QtServiceIs DEF QtInv, QtPlaced
  <1>3. v4[c] = "ready"
    BY <1>2, QtTimers!RunningIs, QtTimersAssumed
  <1>4. QED
    BY <1>3 DEF QtInv, QtConnected

\* The operation returns.
LEMMA QtGoesOn ==
    ASSUME QtInv, NEW c \in QtCoros, QtLoop!Running(c), QtLoop!GoOn(c),
           v6' \in [QtCoros -> 0..QtSlices], UNCHANGED <<v1, v2, v5, v7, v15, v16>>
    PROVE  QtInv'
  <1>1. v4[c] = "ready" /\ v12[c] = {}
    BY QtRunningIs
  <1>2. /\ v13' = [v13 EXCEPT ![c] = "none"] /\ v14' = [v14 EXCEPT ![c] = "none"]
        /\ UNCHANGED <<v10, v11, v12>>
    BY DEF QtLoop!GoOn
  <1>3. /\ QtPlaced'
        /\ \/ v4' = v4
           \/ v4' = [v4 EXCEPT ![c] = "done"]
    <2>1. CASE v3' = Append(Tail(v3), <<0, c>>) /\ v4' = v4
      <3>1. /\ v3' \in Seq(QtThreads \X QtCoros) /\ QtTimers!Who(v3') = QtTimers!Who(v3)
            /\ QtTimers!Once(v3')
        BY <2>1, QtYields DEF QtInv
      <3>2. /\ v1' \in 0..QtTime /\ v2' = v2 /\ v5' \in [QtCoros -> BOOLEAN]
            /\ v4' \in [QtCoros -> QtPlaces]
        BY <2>1 DEF QtInv, QtPlaced, QtTimers!ServiceTypes
      <3>3. \A d \in QtCoros : v4'[d] = v4[d]
        BY <2>1
      <3>4. QED
        BY <2>1, <3>1, <3>2, <3>3, QtSamePlaced DEF QtInv
    <2>2. CASE v3' = Tail(v3) /\ v4' = [v4 EXCEPT ![c] = "done"]
      <3>1. PICK to \in QtPlaces : to = "done"
        BY DEF QtPlaces, QtLoop!Places
      <3>2. v4' = [v4 EXCEPT ![c] = to] /\ to \notin {"ready", "asleep"}
        BY <2>2, <3>1
      <3>3. QtPlaced'
        BY <2>2, <3>2, QtLeaves DEF QtInv
      <3>4. QED
        BY <2>2, <3>3
    <2>3. QED
      BY <2>1, <2>2 DEF QtLoop!GoOn
  <1>4. QtCounts'
    BY <1>2 DEF QtInv, QtCounts
  <1>5. v4 \in [QtCoros -> QtPlaces]
    BY DEF QtInv, QtPlaced
  <1>6. QtConnected'
    BY <1>1, <1>2, <1>3, <1>5 DEF QtInv, QtConnected
  <1>7. QtOps'
    BY <1>1, <1>2, <1>3, <1>5 DEF QtInv, QtOps, QtLoop!OpsKept, QtLoop!OverlappedOutlives
  <1>8. QtTimed'
    BY QtTimerKept DEF QtInv
  <1>9. QED
    BY <1>3, <1>4, <1>6, <1>7, <1>8 DEF QtInv

\* It polls, when the descriptor is there.
LEMMA QtPolls ==
    ASSUME QtInv, NEW c \in QtCoros, QtLoop!Running(c), NEW k \in QtLoop!Polls,
           QtLoop!DoPoll(c, k), v7 = TRUE, v14[c] = "none",
           v6' \in [QtCoros -> 0..QtSlices], UNCHANGED <<v1, v2, v5, v7, v15, v16>>
    PROVE  QtInv'
  <1>1. v4[c] = "ready" /\ v12[c] = {}
    BY QtRunningIs
  <1>2. PICK to \in QtPlaces : to = IF v5[c] THEN "stopped" ELSE "polling"
    BY DEF QtPlaces, QtLoop!Places
  <1>3. /\ v4' = [v4 EXCEPT ![c] = to] /\ to \notin {"ready", "asleep"}
        /\ v3' = Tail(v3) /\ v14' = v14
    BY <1>2 DEF QtLoop!DoPoll
  <1>4. QtPlaced'
    BY <1>3, QtLeaves DEF QtInv
  <1>5. v4 \in [QtCoros -> QtPlaces] /\ v12 \in [QtCoros -> SUBSET (QtLoop!Notifiers \cup {"Destroy"})]
    BY DEF QtInv, QtPlaced, QtCounts
  <1>6. QtTimed'
    BY QtTimerKept DEF QtInv
  <1>7. CASE v5[c]
    <2>1. /\ v4' = [v4 EXCEPT ![c] = "stopped"] /\ v13' = [v13 EXCEPT ![c] = "none"]
          /\ UNCHANGED <<v10, v11, v12>>
      BY <1>7 DEF QtLoop!DoPoll
    <2>2. QtCounts'
      BY <2>1 DEF QtInv, QtCounts
    <2>3. QtConnected'
      BY <1>1, <1>5, <2>1 DEF QtInv, QtConnected
    <2>4. QtOps'
      BY <1>1, <1>3, <1>5, <2>1 DEF QtInv, QtOps, QtLoop!OpsKept, QtLoop!OverlappedOutlives
    <2>5. QED
      BY <1>4, <1>6, <2>2, <2>3, <2>4 DEF QtInv
  <1>8. CASE ~v5[c]
    <2>1. PICK on : on = QtLoop!Wants(k) \cup {"Except"}
      OBVIOUS
    <2>2. on \in SUBSET QtLoop!Notifiers
      BY <2>1 DEF QtLoop!Polls, QtLoop!Wants, QtLoop!Notifiers
    <2>3. /\ v4' = [v4 EXCEPT ![c] = "polling"] /\ v13' = [v13 EXCEPT ![c] = k]
          /\ v12' = [v12 EXCEPT ![c] = on \cup {"Destroy"}]
          /\ v11' = v11 \cup on
          /\ v10' = [n \in QtLoop!Notifiers |-> v10[n] + IF n \in on THEN 1 ELSE 0]
      BY <1>8, <2>1 DEF QtLoop!DoPoll
    <2>4. QtCounts'
      BY <1>1, <2>2, <2>3, QtConnects DEF QtInv
    <2>5. /\ v12'[c] = on \cup {"Destroy"} /\ v4'[c] = "polling" /\ v13'[c] = k
          /\ \A d \in QtCoros \ {c} : v12'[d] = v12[d] /\ v4'[d] = v4[d] /\ v13'[d] = v13[d]
      BY <1>5, <2>3 DEF QtInv, QtOps
    <2>6. on \cup {"Destroy"} = QtLoop!Wants(k) \cup {"Except", "Destroy"}
      BY <2>1
    <2>7. QtConnected'
      BY <2>5, <2>6 DEF QtInv, QtConnected
    <2>8. QtOps'
      <3>1. v13' \in [QtCoros -> QtLoop!Polls \cup {"none", "overlapped"}]
        BY <2>3 DEF QtInv, QtOps
      <3>2. k \notin {"none", "overlapped"}
        BY DEF QtLoop!Polls
      <3>3. QtLoop!OpsKept'
        BY <1>1, <1>3, <2>5, <3>2 DEF QtInv, QtOps, QtLoop!OpsKept
      <3>4. QtLoop!OverlappedOutlives'
        BY <1>3, <2>5 DEF QtInv, QtOps, QtLoop!OverlappedOutlives
      <3>5. QED
        BY <1>3, <3>1, <3>3, <3>4 DEF QtInv, QtOps
    <2>9. QED
      BY <1>4, <1>6, <2>4, <2>7, <2>8 DEF QtInv
  <1>9. QED
    BY <1>7, <1>8

LEMMA QtAttempts ==
    ASSUME QtInv, NEW c \in QtCoros, QtLoop!Running(c), NEW k \in QtLoop!Polls,
           QtLoop!Attempt(c, k), v14[c] = "none",
           v6' \in [QtCoros -> 0..QtSlices], UNCHANGED <<v1, v2, v5, v7, v15, v16>>
    PROVE  QtInv'
  <1>1. CASE QtLoop!GoOn(c)
    BY <1>1, QtGoesOn
  <1>2. CASE v7 /\ QtLoop!DoPoll(c, k)
    <2>1. v7 = TRUE
      BY <1>2 DEF QtInv, QtConnected
    <2>2. QED
      BY <1>2, <2>1, QtPolls
  <1>3. QED
    BY <1>1, <1>2 DEF QtLoop!Attempt

\* It reads with an OVERLAPPED.
LEMMA QtOverlaps ==
    ASSUME QtInv, NEW c \in QtCoros, QtLoop!Running(c), QtLoop!Overlapped(c),
           v6' \in [QtCoros -> 0..QtSlices], UNCHANGED <<v1, v2, v5, v7, v15, v16>>
    PROVE  QtInv'
  <1>1. v4[c] = "ready" /\ v12[c] = {}
    BY QtRunningIs
  <1>2. CASE QtLoop!GoOn(c)
    BY <1>2, QtGoesOn
  <1>3. CASE ~QtLoop!GoOn(c)
    <2>1. /\ v3' = Tail(v3) /\ v4' = [v4 EXCEPT ![c] = "overlapped"]
          /\ v13' = [v13 EXCEPT ![c] = "overlapped"] /\ v14' = [v14 EXCEPT ![c] = "pending"]
          /\ UNCHANGED <<v10, v11, v12>>
      BY <1>3 DEF QtLoop!Overlapped
    <2>2. PICK to \in QtPlaces : to = "overlapped"
      BY DEF QtPlaces
    <2>3. v4' = [v4 EXCEPT ![c] = to] /\ to \notin {"ready", "asleep"}
      BY <2>1, <2>2
    <2>4. QtPlaced'
      BY <2>1, <2>3, QtLeaves DEF QtInv
    <2>5. v4 \in [QtCoros -> QtPlaces]
      BY DEF QtInv, QtPlaced
    <2>6. QtCounts'
      BY <2>1 DEF QtInv, QtCounts
    <2>7. QtConnected'
      BY <1>1, <2>1, <2>5 DEF QtInv, QtConnected
    <2>8. QtOps'
      BY <1>1, <2>1, <2>5 DEF QtInv, QtOps, QtLoop!OpsKept, QtLoop!OverlappedOutlives
    <2>9. QtTimed'
      BY QtTimerKept DEF QtInv
    <2>10. QED
      BY <2>4, <2>6, <2>7, <2>8, <2>9 DEF QtInv
  <1>4. QED
    BY <1>2, <1>3

LEMMA QtStartsIo ==
    ASSUME QtInv, NEW c \in QtCoros, NEW k, QtLoop!StartIo(c, k)
    PROVE  QtInv'
  <1>1. /\ QtLoop!Running(c) /\ v13[c] = "none" /\ v6[c] > 0
        /\ v6' = [v6 EXCEPT ![c] = @ - 1] /\ UNCHANGED <<v1, v2, v5, v7, v15, v16>>
    BY DEF QtLoop!StartIo, QtLoop!opRest, QtLoop!qtTimer
  <1>2. v6' \in [QtCoros -> 0..QtSlices]
    BY <1>1, OneSlice DEF QtInv
  <1>3. v14[c] = "none"
    BY <1>1 DEF QtInv, QtOps, QtLoop!OpsKept
  <1>4. CASE k \in {"recv", "send"} /\ QtLoop!Attempt(c, k)
    BY <1>1, <1>2, <1>3, <1>4, QtAttempts DEF QtLoop!Polls
  <1>5. CASE k \in {"connect", "poll"} /\ QtLoop!DoPoll(c, k)
    <2>1. v7 = TRUE /\ k \in QtLoop!Polls
      BY <1>5 DEF QtLoop!StartIo, QtInv, QtConnected, QtLoop!Polls
    <2>2. QED
      BY <1>1, <1>2, <1>3, <1>5, <2>1, QtPolls
  <1>6. CASE QtLoop!GoOn(c)
    BY <1>1, <1>2, <1>6, QtGoesOn
  <1>7. CASE QtLoop!Overlapped(c)
    BY <1>1, <1>2, <1>7, QtOverlaps
  <1>8. QED
    BY <1>4, <1>5, <1>6, <1>7 DEF QtLoop!StartIo

LEMMA QtResumesIo ==
    ASSUME QtInv, NEW c \in QtCoros, QtLoop!ResumeIo(c)
    PROVE  QtInv'
  <1>1. /\ QtLoop!Running(c) /\ v6' = v6 /\ UNCHANGED <<v1, v2, v5, v7, v15, v16>>
    BY DEF QtLoop!ResumeIo, QtLoop!opRest, QtLoop!qtTimer
  <1>2. v6' \in [QtCoros -> 0..QtSlices]
    BY <1>1 DEF QtInv, QtPlaced, QtTimers!ServiceTypes
  <1>3. CASE v13[c] \in {"recv", "send"} /\ QtLoop!Attempt(c, v13[c])
    <2>1. PICK k : k = v13[c]
      OBVIOUS
    <2>2. k \in QtLoop!Polls /\ v14[c] = "none" /\ QtLoop!Attempt(c, k)
      BY <1>3, <2>1 DEF QtInv, QtOps, QtLoop!OpsKept, QtLoop!Polls
    <2>3. QED
      BY <1>1, <1>2, <2>2, QtAttempts
  <1>4. CASE QtLoop!GoOn(c)
    BY <1>1, <1>2, <1>4, QtGoesOn
  <1>5. CASE /\ v4' = [v4 EXCEPT ![c] = "stopped"] /\ v3' = Tail(v3)
             /\ v13' = [v13 EXCEPT ![c] = "none"] /\ v14' = [v14 EXCEPT ![c] = "none"]
             /\ UNCHANGED <<v10, v11, v12>>
    <2>1. v4[c] = "ready" /\ v12[c] = {}
      BY <1>1, QtRunningIs
    <2>2. PICK to \in QtPlaces : to = "stopped"
      BY DEF QtPlaces, QtLoop!Places
    <2>3. v4' = [v4 EXCEPT ![c] = to] /\ to \notin {"ready", "asleep"}
      BY <1>5, <2>2
    <2>4. QtPlaced'
      BY <1>1, <1>2, <1>5, <2>3, QtLeaves DEF QtInv
    <2>5. v4 \in [QtCoros -> QtPlaces]
      BY DEF QtInv, QtPlaced
    <2>6. QtCounts'
      BY <1>5 DEF QtInv, QtCounts
    <2>7. QtConnected'
      BY <1>1, <1>5, <2>1, <2>5 DEF QtInv, QtConnected
    <2>8. QtOps'
      BY <1>5, <2>1, <2>5 DEF QtInv, QtOps, QtLoop!OpsKept, QtLoop!OverlappedOutlives
    <2>9. QtTimed'
      BY <1>1, QtTimerKept DEF QtInv
    <2>10. QED
      BY <2>4, <2>6, <2>7, <2>8, <2>9 DEF QtInv
  <1>6. QED
    BY <1>3, <1>4, <1>5 DEF QtLoop!ResumeIo

\* Some of those who poll are disconnected, and scheduled.
LEMMA QtReleased ==
    ASSUME QtInv, NEW S \in SUBSET QtCoros, \A c \in S : v4[c] = "polling",
           QtLoop!Disconnect(S), QtPlaced',
           v4' = [c \in QtCoros |-> IF c \in S THEN "ready" ELSE v4[c]],
           v7' \in BOOLEAN, v7 => v7' \/ \A c \in QtCoros : v4[c] = "polling" => c \in S,
           UNCHANGED <<v1, v2, v13, v14, v15, v16>>
    PROVE  QtInv'
  <1>1. QtCounts' /\ \A c \in QtCoros : v12'[c] = IF c \in S THEN {} ELSE v12[c]
    BY QtDisconnects DEF QtInv
  <1>2. QtConnected'
    BY <1>1 DEF QtInv, QtConnected
  <1>3. QtOps'
    BY DEF QtInv, QtOps, QtLoop!OpsKept, QtLoop!OverlappedOutlives
  <1>4. QtTimed'
    BY QtTimerKept DEF QtInv
  <1>5. QED
    BY <1>1, <1>2, <1>3, <1>4 DEF QtInv

LEMMA QtActivates ==
    ASSUME QtInv, NEW n \in QtLoop!Notifiers, QtLoop!Activated(n)
    PROVE  QtInv'
  <1>1. PICK S \in SUBSET QtCoros : S = {c \in QtCoros : n \in v12[c]}
    OBVIOUS
  <1>2. /\ QtLoop!Disconnect(S) /\ QtLoop!Schedule(S)
        /\ UNCHANGED <<v1, v2, v5, v6, v7, v13, v14, v15, v16>>
    BY <1>1 DEF QtLoop!Activated, QtLoop!qtTimer
  <1>3. \A c \in S : v4[c] = "polling"
    BY <1>1 DEF QtInv, QtConnected
  <1>4. PICK s \in QtInOrder(S) : v3' = v3 \o QtCalls(s)
    BY <1>2 DEF QtInOrder, QtLoop!Schedule, QtCalls
  <1>5. v4' = [c \in QtCoros |-> IF c \in S THEN "ready" ELSE v4[c]]
    BY <1>2 DEF QtLoop!Schedule
  <1>6. QtPlaced'
    BY <1>2, <1>3, <1>4, <1>5, QtWakes DEF QtInv
  <1>7. v7' \in BOOLEAN /\ (v7 => v7')
    BY <1>2 DEF QtInv, QtConnected
  <1>8. QED
    BY <1>2, <1>3, <1>5, <1>6, <1>7, QtReleased

LEMMA QtCloses ==
    ASSUME QtInv, NEW c \in QtCoros, QtLoop!Close(c)
    PROVE  QtInv'
  <1>1. PICK S \in SUBSET QtCoros : S = {d \in QtCoros : "Destroy" \in v12[d]}
    OBVIOUS
  <1>2. /\ QtLoop!Running(c) /\ v6[c] > 0 /\ v6' = [v6 EXCEPT ![c] = @ - 1]
        /\ v7' = FALSE /\ QtLoop!Disconnect(S)
        /\ v4' = [d \in QtCoros |-> IF d \in S THEN "ready" ELSE v4[d]]
        /\ UNCHANGED <<v1, v2, v5, v13, v14, v15, v16>>
    BY <1>1 DEF QtLoop!Close, QtLoop!qtTimer
  <1>3. PICK s \in QtInOrder(S) : v3' = Tail(v3) \o QtCalls(s) \o <<<<0, c>>>>
    BY <1>1 DEF QtInOrder, QtLoop!Close, QtCalls
  <1>4. \A d \in QtCoros : v4[d] = "polling" <=> d \in S
    BY <1>1 DEF QtInv, QtConnected
  <1>5. v6' \in [QtCoros -> 0..QtSlices]
    BY <1>2, OneSlice DEF QtInv
  <1>6. PICK T, U, rest, q : T = QtThreads /\ U = QtCoros /\ rest = {} /\ q = Tail(v3)
    OBVIOUS
  <1>7. v3 \in Seq(T \X U) /\ QtTimers!Placed(rest) /\ QtTimers!Running(c)
    BY <1>2, <1>6, QtServiceIs DEF QtInv, QtPlaced
  <1>8. /\ q \in Seq(T \X U) /\ QtTimers!Once(q) /\ c \notin QtTimers!Who(q)
        /\ QtTimers!Who(v3) = QtTimers!Who(q) \cup {c} /\ v4[c] = "ready"
    BY <1>6, <1>7, QtTimers!RunningIs, QtTimersAssumed
  <1>9. QtTimers!Who(q) \cap S = {} /\ c \notin S
    BY <1>4, <1>6, <1>7, <1>8 DEF QtTimers!Placed
  <1>10. PICK r : r = q \o QtCalls(s)
    OBVIOUS
  <1>11. /\ r \in Seq(T \X U) /\ QtTimers!Who(r) = QtTimers!Who(q) \cup S
         /\ QtTimers!Once(r)
    BY <1>6, <1>8, <1>9, <1>10, QtScheduled
  <1>12. PICK p \in T, u \in U : p = 0 /\ u = c
    BY <1>6 DEF QtThreads
  <1>13. /\ Append(r, <<p, u>>) \in Seq(T \X U)
         /\ QtTimers!Who(Append(r, <<p, u>>)) = QtTimers!Who(r) \cup {u}
         /\ QtTimers!Once(r) /\ u \notin QtTimers!Who(r)
                => QtTimers!Once(Append(r, <<p, u>>))
    BY <1>11, QtTimers!WhoAppend, QtTimersAssumed
  <1>14. v3' = Append(r, <<p, u>>)
    <2>1. v3' = r \o <<<<p, u>>>>
      BY <1>3, <1>6, <1>10, <1>12
    <2>2. PICK e \in T \X U : e = <<p, u>>
      OBVIOUS
    <2>3. PICK E : E = T \X U
      OBVIOUS
    <2>4. r \in Seq(E) /\ e \in E
      BY <1>11, <2>2, <2>3
    <2>5. r \o <<e>> = Append(r, e)
      BY <2>4
    <2>6. QED
      BY <2>1, <2>2, <2>5
  <1>15. QtPlaced'
    <2>1. v3' \in Seq(QtThreads \X QtCoros) /\ QtTimers!Once(v3')
      BY <1>6, <1>8, <1>9, <1>11, <1>12, <1>13, <1>14
    <2>2. QtTimers!Who(v3') = QtTimers!Who(v3) \cup S
      BY <1>8, <1>11, <1>12, <1>13, <1>14
    <2>3. v4' \in [QtCoros -> QtPlaces]
      BY <1>2 DEF QtInv, QtPlaced, QtPlaces, QtLoop!Places
    <2>4. \A d \in QtCoros : v4'[d] = "ready" <=> d \in QtTimers!Who(v3')
      BY <1>2, <2>2 DEF QtInv, QtPlaced, QtTimers!Placed
    <2>5. \A d \in QtCoros : v4'[d] = "asleep" <=> d \in QtTimers!Sleepers(v2)
      BY <1>2, <1>4 DEF QtInv, QtPlaced, QtTimers!Placed
    <2>6. QtTimers!Placed({})'
      BY <1>2, <2>1, <2>4, <2>5 DEF QtInv, QtPlaced, QtTimers!Placed
    <2>7. QED
      BY <1>2, <1>5, <2>1, <2>3, <2>6 DEF QtInv, QtPlaced, QtTimers!ServiceTypes
  <1>16. v7' \in BOOLEAN
    BY <1>2
  <1>17. QED
    BY <1>2, <1>4, <1>15, <1>16, QtReleased

LEMMA QtStopsPoller ==
    ASSUME QtInv, NEW c \in QtCoros, NEW d \in QtCoros, QtLoop!StopPoller(c, d)
    PROVE  QtInv'
  <1>1. /\ QtLoop!Running(c) /\ v6[c] > 0 /\ v6' = [v6 EXCEPT ![c] = @ - 1]
        /\ v5' = [v5 EXCEPT ![d] = TRUE] /\ v3' = Append(Tail(v3), <<0, c>>)
        /\ v4[d] = "polling" /\ QtLoop!Disconnect({d})
        /\ v4' = [v4 EXCEPT ![d] = "stopped"] /\ v13' = [v13 EXCEPT ![d] = "none"]
        /\ UNCHANGED <<v1, v2, v7, v14, v15, v16>>
    BY DEF QtLoop!StopPoller, QtLoop!Request, QtLoop!qtTimer
  <1>2. PICK S \in SUBSET QtCoros : S = {d}
    OBVIOUS
  <1>3. QtCounts' /\ \A u \in QtCoros : v12'[u] = IF u \in S THEN {} ELSE v12[u]
    BY <1>1, <1>2, QtDisconnects DEF QtInv
  <1>4. /\ v4 \in [QtCoros -> QtPlaces] /\ v1 \in 0..QtTime
        /\ v5' \in [QtCoros -> BOOLEAN]
    BY <1>1 DEF QtInv, QtPlaced, QtTimers!ServiceTypes
  <1>5. v4' \in [QtCoros -> QtPlaces]
    BY <1>1, <1>4 DEF QtPlaces, QtLoop!Places
  <1>6. v6' \in [QtCoros -> 0..QtSlices]
    BY <1>1, OneSlice DEF QtInv
  <1>7. /\ v3' \in Seq(QtThreads \X QtCoros) /\ QtTimers!Who(v3') = QtTimers!Who(v3)
        /\ QtTimers!Once(v3')
    BY <1>1, QtYields DEF QtInv
  <1>8. \A u \in QtCoros : v4'[u] # v4[u] =>
            v4[u] \notin {"ready", "asleep"} /\ v4'[u] \notin {"ready", "asleep"}
    BY <1>1, <1>4
  <1>9. QtPlaced'
    BY <1>1, <1>4, <1>5, <1>6, <1>7, <1>8, QtSamePlaced DEF QtInv
  <1>10. QtConnected'
    BY <1>1, <1>2, <1>3, <1>4 DEF QtInv, QtConnected
  <1>11. QtOps'
    <2>1. v14[d] = "none"
      BY <1>1 DEF QtInv, QtOps, QtLoop!OpsKept, QtLoop!Polls
    <2>2. QED
      BY <1>1, <1>4, <2>1 DEF QtInv, QtOps, QtLoop!OpsKept, QtLoop!OverlappedOutlives
  <1>12. QtTimed'
    BY <1>1, QtTimerKept DEF QtInv
  <1>13. QED
    BY <1>3, <1>9, <1>10, <1>11, <1>12 DEF QtInv

LEMMA QtStopsOverlapped ==
    ASSUME QtInv, NEW c \in QtCoros, NEW d \in QtCoros, QtLoop!StopOverlapped(c, d)
    PROVE  QtInv'
  <1>1. /\ QtLoop!Running(c) /\ v6[c] > 0 /\ v6' = [v6 EXCEPT ![c] = @ - 1]
        /\ v5' = [v5 EXCEPT ![d] = TRUE] /\ v3' = Append(Tail(v3), <<0, c>>)
        /\ UNCHANGED <<v1, v2, v4, v7, v10, v11, v12, v13, v14, v15, v16>>
    BY DEF QtLoop!StopOverlapped, QtLoop!Request, QtLoop!qtTimer, QtLoop!fdVars
  <1>2. /\ v4' \in [QtCoros -> QtPlaces] /\ v1' \in 0..QtTime
        /\ v5' \in [QtCoros -> BOOLEAN]
    BY <1>1 DEF QtInv, QtPlaced, QtTimers!ServiceTypes
  <1>3. v6' \in [QtCoros -> 0..QtSlices]
    BY <1>1, OneSlice DEF QtInv
  <1>4. /\ v3' \in Seq(QtThreads \X QtCoros) /\ QtTimers!Who(v3') = QtTimers!Who(v3)
        /\ QtTimers!Once(v3')
    BY <1>1, QtYields DEF QtInv
  <1>5. QtPlaced'
    BY <1>1, <1>2, <1>3, <1>4, QtSamePlaced DEF QtInv
  <1>6. QtCounts'
    BY <1>1 DEF QtInv, QtCounts
  <1>7. QtConnected'
    BY <1>1 DEF QtInv, QtConnected
  <1>8. QtOps'
    BY <1>1 DEF QtInv, QtOps, QtLoop!OpsKept, QtLoop!OverlappedOutlives
  <1>9. QtTimed'
    BY <1>1, QtTimerKept DEF QtInv
  <1>10. QED
    BY <1>5, <1>6, <1>7, <1>8, <1>9 DEF QtInv

\* A slice that waits for nothing of Qt's, and timerEvent().
LEMMA QtRuns ==
    ASSUME QtInv, QtLoop!Slice, v13[Head(v3)[2]] = "none", QtLoop!TimerChanged,
           UNCHANGED QtLoop!fdVars
    PROVE  QtInv'
  <1>1. UNCHANGED <<v7, v10, v11, v12, v13, v14>>
    BY DEF QtLoop!fdVars
  <1>2. ASSUME NEW c \in QtCoros, v4'[c] # v4[c] PROVE v13[c] = "none"
    <2>1. v4 \in [QtCoros -> QtPlaces]
      BY DEF QtInv, QtPlaced
    <2>2. Head(v3)[2] = c \/ v4[c] = "asleep"
      BY <1>2, <2>1 DEF QtLoop!Slice, QtLoop!Suspend, QtLoop!Yield, QtLoop!Sleep,
         QtLoop!StopOther, QtLoop!Running, QtLoop!Request
    <2>3. QED
      BY <2>2 DEF QtInv, QtOps, QtLoop!OpsKept
  <1>3. v1' \in 0..QtTime
    BY QtClock DEF QtInv, QtPlaced
  <1>4. QtPlaced' => QtTimed'
    BY QtTimerFollows DEF QtInv
  <1>5. QED
    BY <1>1, <1>2, <1>3, <1>4, QtServes

LEMMA QtFires ==
    ASSUME QtInv, QtLoop!TimerEvent
    PROVE  QtInv'
  <1>1. /\ QtLoop!UpdateTimers /\ v15.at <= v1
        /\ UNCHANGED <<v7, v10, v11, v12, v13, v14>>
    BY DEF QtLoop!TimerEvent, QtLoop!fdVars
  <1>2. v4 \in [QtCoros -> QtPlaces] /\ v1 \in 0..QtTime
    BY DEF QtInv, QtPlaced
  <1>3. \A c \in QtCoros : v4'[c] # v4[c] => v4'[c] = "ready"
    BY <1>1, <1>2 DEF QtLoop!UpdateTimers
  <1>4. CASE QtLoop!NextTimepoint' = v16
    <2>1. /\ UNCHANGED <<v1, v16>>
          /\ v15' = [v15 EXCEPT !.at = QtLoop!Reached(v1 + v15.every)]
      BY <1>4 DEF QtLoop!TimerEvent
    <2>2. QtPlaced' => QtTimed'
      BY <1>1, <1>4, <2>1, QtTimerAgain DEF QtInv
    <2>3. QED
      BY <1>1, <1>2, <1>3, <2>1, <2>2, QtServes
  <1>5. CASE QtLoop!NextTimepoint' # v16
    <2>1. QtLoop!StartTimer /\ QtLoop!TimerChanged
      BY <1>5 DEF QtLoop!TimerEvent, QtLoop!TimerChanged
    <2>2. QtPlaced' => QtTimed'
      BY <2>1, QtStarts DEF QtInv
    <2>3. v1' \in 0..QtTime
      BY <1>2, <2>1, QtClock
    <2>4. QED
      BY <1>1, <1>3, <2>2, <2>3, QtServes
  <1>6. QED
    BY <1>4, <1>5

\* The event of the OVERLAPPED.
LEMMA QtEventComes ==
    ASSUME QtInv, NEW c \in QtCoros, QtLoop!EventActivated(c)
    PROVE  QtInv'
  <1>1. PICK S \in SUBSET QtCoros : S = {c}
    OBVIOUS
  <1>2. /\ v4[c] = "overlapped" /\ QtLoop!Schedule(S)
        /\ UNCHANGED <<v1, v2, v5, v6, v7, v10, v11, v12, v13, v14, v15, v16>>
    BY <1>1 DEF QtLoop!EventActivated, QtLoop!fdVars, QtLoop!qtTimer
  <1>3. PICK s \in QtInOrder(S) : v3' = v3 \o QtCalls(s)
    BY <1>2 DEF QtInOrder, QtLoop!Schedule, QtCalls
  <1>4. v4' = [u \in QtCoros |-> IF u \in S THEN "ready" ELSE v4[u]]
    BY <1>2 DEF QtLoop!Schedule
  <1>5. QtPlaced'
    BY <1>1, <1>2, <1>3, <1>4, QtWakes DEF QtInv
  <1>6. QtCounts'
    BY <1>2 DEF QtInv, QtCounts
  <1>7. QtConnected'
    BY <1>1, <1>2, <1>4 DEF QtInv, QtConnected
  <1>8. QtOps'
    BY <1>1, <1>2, <1>4 DEF QtInv, QtOps, QtLoop!OpsKept, QtLoop!OverlappedOutlives
  <1>9. QtTimed'
    BY <1>2, QtTimerKept DEF QtInv
  <1>10. QED
    BY <1>5, <1>6, <1>7, <1>8, <1>9 DEF QtInv

\* schedule() by another thread.
LEMMA QtPosts ==
    ASSUME QtInv, NEW c \in QtCoros, QtLoop!Post(c)
    PROVE  QtInv'
  <1>1. /\ v4[c] = "parked" /\ v4' = [v4 EXCEPT ![c] = "ready"]
        /\ v3' = Append(v3, <<9, c>>)
        /\ UNCHANGED <<v1, v2, v5, v6, v7, v10, v11, v12, v13, v14, v15, v16>>
    BY DEF QtLoop!Post, QtLoop!fdVars, QtLoop!qtTimer
  <1>2. PICK T, U, q : T = QtThreads /\ U = QtCoros /\ q = v3
    OBVIOUS
  <1>3. PICK p \in T, u \in U : p = 9 /\ u = c
    BY <1>2 DEF QtThreads
  <1>4. q \in Seq(T \X U) /\ QtTimers!Once(q) /\ c \notin QtTimers!Who(q)
    BY <1>1, <1>2 DEF QtInv, QtPlaced, QtTimers!Placed
  <1>5. /\ Append(q, <<p, u>>) \in Seq(T \X U)
        /\ QtTimers!Who(Append(q, <<p, u>>)) = QtTimers!Who(q) \cup {u}
        /\ QtTimers!Once(q) /\ u \notin QtTimers!Who(q)
                => QtTimers!Once(Append(q, <<p, u>>))
    BY <1>4, QtTimers!WhoAppend, QtTimersAssumed
  <1>6. v3' = Append(q, <<p, u>>)
    BY <1>1, <1>2, <1>3
  <1>7. /\ v3' \in Seq(QtThreads \X QtCoros) /\ QtTimers!Once(v3')
        /\ QtTimers!Who(v3') = QtTimers!Who(v3) \cup {c}
    BY <1>2, <1>3, <1>4, <1>5, <1>6
  <1>8. v4 \in [QtCoros -> QtPlaces]
    BY DEF QtInv, QtPlaced
  <1>9. QtPlaced'
    <2>1. v4' \in [QtCoros -> QtPlaces]
      BY <1>1, <1>8 DEF QtPlaces, QtLoop!Places
    <2>2. \A d \in QtCoros : v4'[d] = "ready" <=> d \in QtTimers!Who(v3')
      BY <1>1, <1>7, <1>8 DEF QtInv, QtPlaced, QtTimers!Placed
    <2>3. \A d \in QtCoros : v4'[d] = "asleep" <=> d \in QtTimers!Sleepers(v2)
      BY <1>1, <1>8 DEF QtInv, QtPlaced, QtTimers!Placed
    <2>4. QtTimers!Placed({})'
      BY <1>1, <1>7, <2>2, <2>3 DEF QtInv, QtPlaced, QtTimers!Placed
    <2>5. QED
      BY <1>1, <1>7, <2>1, <2>4 DEF QtInv, QtPlaced, QtTimers!ServiceTypes
  <1>10. QtCounts'
    BY <1>1 DEF QtInv, QtCounts
  <1>11. QtConnected'
    BY <1>1, <1>8 DEF QtInv, QtConnected
  <1>12. QtOps'
    BY <1>1, <1>8 DEF QtInv, QtOps, QtLoop!OpsKept, QtLoop!OverlappedOutlives
  <1>13. QtTimed'
    BY <1>1, QtTimerKept DEF QtInv
  <1>14. QED
    BY <1>9, <1>10, <1>11, <1>12, <1>13 DEF QtInv

\* The clock, the system and run() itself.
LEMMA QtOutside ==
    ASSUME QtInv, UNCHANGED <<v2, v3, v4, v5, v6, v7, v10, v11, v12, v13, v15, v16>>,
           v1' \in 0..QtTime, v1 <= v1',
           v14' \in [QtCoros -> {"none", "pending", "done", "canceled"}],
           \A c \in QtCoros : v14'[c] # "none" <=> v14[c] # "none"
    PROVE  QtInv'
  <1>1. QtPlaced'
    BY DEF QtInv, QtPlaced, QtTimers!ServiceTypes, QtTimers!Placed
  <1>2. QtCounts'
    BY DEF QtInv, QtCounts
  <1>3. QtConnected'
    BY DEF QtInv, QtConnected
  <1>4. QtOps'
    BY DEF QtInv, QtOps, QtLoop!OpsKept, QtLoop!OverlappedOutlives
  <1>5. QtTimed'
    <2>1. v1 \in Nat /\ v1' \in Nat
      BY ProgramsAssumption DEF QtInv, QtPlaced
    <2>2. QtLoop!NextTimepoint' = QtLoop!NextTimepoint
      BY DEF QtLoop!NextTimepoint, QtLoop!Never
    <2>3. QED
      BY <2>1, <2>2, QtTimerWaits DEF QtInv
  <1>6. QED
    BY <1>1, <1>2, <1>3, <1>4, <1>5 DEF QtInv

LEMMA QtStep == QtInv /\ QtLoop!Next => QtInv'
  <1> SUFFICES ASSUME QtInv, QtLoop!Next PROVE QtInv'
    OBVIOUS
  <1>1. /\ v1 \in 0..QtTime /\ v1 <= v1
        /\ v14 \in [QtCoros -> {"none", "pending", "done", "canceled"}]
    BY ProgramsAssumption DEF QtInv, QtPlaced, QtOps
  <1>2. CASE QtLoop!Posted
    BY <1>2, QtRuns, QtStartsIo, QtResumesIo, QtCloses, QtStopsPoller, QtStopsOverlapped
       DEF QtLoop!Posted
  <1>3. CASE QtLoop!TimerEvent
    BY <1>3, QtFires
  <1>4. CASE QtLoop!Time
    <2>1. v1' \in 0..QtTime /\ v1 <= v1'
      BY <1>1, <1>4, ProgramsAssumption DEF QtLoop!Time, QtLoop!Tick
    <2>2. QED
      BY <1>1, <1>4, <2>1, QtOutside DEF QtLoop!Time, QtLoop!Tick, QtLoop!fdVars, QtLoop!qtTimer
  <1>5. CASE QtLoop!Exec \/ QtLoop!Return \/ QtLoop!RunAgain \/ QtLoop!StopRun
    BY <1>1, <1>5, QtOutside DEF QtLoop!Exec, QtLoop!Return, QtLoop!RunAgain, QtLoop!StopRun,
       QtLoop!timerVars, QtLoop!fdVars, QtLoop!qtTimer
  <1>6. CASE \E n \in QtLoop!Notifiers : QtLoop!Activated(n)
    BY <1>6, QtActivates
  <1>7. CASE \E c \in QtCoros : QtLoop!EventActivated(c)
    BY <1>7, QtEventComes
  <1>8. CASE \E c \in QtCoros : QtLoop!SystemEnds(c)
    <2>1. PICK c \in QtCoros : QtLoop!SystemEnds(c)
      BY <1>8
    <2>2. PICK r \in {"done", "canceled"} : v14' = [v14 EXCEPT ![c] = r]
      BY <2>1 DEF QtLoop!SystemEnds
    <2>3. v14[c] = "pending" /\ UNCHANGED <<v1, v2, v3, v4, v5, v6, v7, v10, v11, v12, v13, v15, v16>>
      BY <2>1 DEF QtLoop!SystemEnds, QtLoop!timerVars, QtLoop!qtTimer
    <2>4. QED
      BY <1>1, <2>2, <2>3, QtOutside
  <1>9. CASE \E n \in QtLoop!Notifiers : QtLoop!Arrives(n)
    BY <1>1, <1>9, QtOutside DEF QtLoop!Arrives, QtLoop!timerVars, QtLoop!qtTimer
  <1>10. CASE \E c \in QtCoros : QtLoop!Post(c)
    BY <1>10, QtPosts
  <1>11. QED
    BY <1>2, <1>3, <1>4, <1>5, <1>6, <1>7, <1>8, <1>9, <1>10 DEF QtLoop!Next, QtLoop!Progress

\* What the programs' properties say of it.
LEMMA QtMatches ==
    ASSUME QtInv
    PROVE  QtLoop!NotifiersMatch /\ QtLoop!TimerRuns /\ QtLoop!OverlappedOutlives
  <1>1. ASSUME NEW c \in QtCoros
        PROVE  Cardinality({i \in DOMAIN v3 : v3[i][2] = c}) = IF v4[c] = "ready" THEN 1 ELSE 0
    <2>1. v4[c] = "ready" <=> \E i \in DOMAIN v3 : v3[i][2] = c
      BY DEF QtInv, QtPlaced, QtTimers!Placed, QtTimers!Who
    <2>2. \A i, j \in DOMAIN v3 : v3[i][2] = v3[j][2] => i = j
      BY DEF QtInv, QtPlaced, QtTimers!Placed, QtTimers!Once
    <2>3. CASE v4[c] = "ready"
      <3>1. PICK i \in DOMAIN v3 : v3[i][2] = c
        BY <2>1, <2>3
      <3>2. {j \in DOMAIN v3 : v3[j][2] = c} = {i}
        BY <2>2, <3>1
      <3>3. QED
        BY <2>3, <3>2, FS_Singleton
    <2>4. CASE v4[c] # "ready"
      <3>1. {j \in DOMAIN v3 : v3[j][2] = c} = {}
        BY <2>1, <2>4
      <3>2. QED
        BY <2>4, <3>1, FS_EmptySet
    <2>5. QED
      BY <2>3, <2>4
  <1>2. \A n \in QtLoop!Notifiers :
            /\ v10[n] = Cardinality({c \in QtCoros : n \in v12[c]})
            /\ n \in v11 <=> v10[n] > 0
    BY DEF QtInv, QtCounts, QtCount
  <1>3. \A c \in QtCoros :
            /\ v12[c] # {} <=> v4[c] = "polling"
            /\ v12[c] # {} => v7 /\ v12[c] = QtLoop!Wants(v13[c]) \cup {"Except", "Destroy"}
    BY DEF QtInv, QtConnected
  <1>4. QtLoop!NotifiersMatch
    BY <1>1, <1>2, <1>3, QtCardinality DEF QtLoop!NotifiersMatch
  <1>5. QtLoop!TimerRuns
    <2>1. QtLoop!Never = QtTime + 1 /\ QtTime \in Nat
      BY ProgramsAssumption DEF QtLoop!Never
    <2>2. CASE v2 = <<>>
      BY <2>2 DEF QtInv, QtTimed, QtLoop!TimerRuns
    <2>3. CASE v2 # <<>>
      BY <2>1, <2>3 DEF QtInv, QtTimed, QtTimerIs, QtLoop!TimerRuns
    <2>4. QED
      BY <2>2, <2>3
  <1>6. QED
    BY <1>4, <1>5 DEF QtInv, QtOps

-----------------------------------------------------------------------------
(* The rings.                                                              *)

LEMMA RingNames ==
    ASSUME NEW o, NEW p
    PROVE  /\ Ring!Main(o) # Ring!Cancel(p)
           /\ Ring!Main(o) = Ring!Main(p) => o = p
           /\ Ring!Cancel(o) = Ring!Cancel(p) => o = p
           /\ Ring!Event[1] # Ring!Main(o) /\ Ring!Event[1] # Ring!Cancel(o)
           /\ Ring!Nop[1] # Ring!Main(o) /\ Ring!Nop[1] # Ring!Cancel(o)
           /\ Ring!Start(o) # Ring!Request(p) /\ Ring!Start(o) # Ring!Quit
           /\ Ring!Request(o) # Ring!Quit
           /\ Ring!Start(o) = Ring!Start(p) => o = p
           /\ Ring!Request(o) = Ring!Request(p) => o = p
  BY DEF Ring!Main, Ring!Cancel, Ring!Event, Ring!Nop, Ring!Start, Ring!Request, Ring!Quit

LEMMA RingEventNotEntry ==
    /\ Ring!Event[1] \notin Ring!Entry /\ Ring!Nop[1] \notin Ring!Entry
    /\ Ring!Event[1] # Ring!Nop[1]
  BY RingNames DEF Ring!Entry, Ring!Event, Ring!Nop

RingAnswers == {"done", "canceled", "already"}
RingReport == (Ring!Entry \X RingAnswers) \cup {Ring!Event, Ring!Nop}

\* Each entry is in one place and once, and e is in one.
RingOnce(s, k, c) ==
    /\ s \subseteq Ring!Entry /\ k \subseteq Ring!Entry /\ s \cap k = {}
    /\ c \in Seq(RingReport)
    /\ \A i \in DOMAIN c : c[i][1] \notin s \cup k
    /\ \A i, j \in DOMAIN c : c[i][1] = c[j][1] /\ c[i][1] \in Ring!Entry => i = j

RingHas(s, k, c, e) == e \in s \cup k \/ \E i \in DOMAIN c : c[i][1] = e

LEMMA RingAlloc ==
    ASSUME NEW s, NEW k, NEW c, RingOnce(s, k, c), NEW e \in Ring!Entry, ~RingHas(s, k, c, e)
    PROVE  \E t, l : /\ Ring!Alloc(e, [sq |-> s, kernel |-> k]) = [sq |-> t, kernel |-> l]
                     /\ RingOnce(t, l, c)
                     /\ \A x : RingHas(t, l, c, x) <=> RingHas(s, k, c, x) \/ x = e
  <1> USE DEF RingOnce, RingHas
  <1>1. CASE Ring!Cardinality(s) < RingEntries
    <2>1. Ring!Alloc(e, [sq |-> s, kernel |-> k]) = [sq |-> s \cup {e}, kernel |-> k]
      BY <1>1 DEF Ring!Alloc
    <2>2. RingOnce(s \cup {e}, k, c)
      OBVIOUS
    <2>3. \A x : RingHas(s \cup {e}, k, c, x) <=> RingHas(s, k, c, x) \/ x = e
      OBVIOUS
    <2>4. QED
      BY <2>1, <2>2, <2>3
  <1>2. CASE ~(Ring!Cardinality(s) < RingEntries)
    <2>1. Ring!Alloc(e, [sq |-> s, kernel |-> k]) = [sq |-> {e}, kernel |-> k \cup s]
      BY <1>2 DEF Ring!Alloc
    <2>2. RingOnce({e}, k \cup s, c)
      OBVIOUS
    <2>3. \A x : RingHas({e}, k \cup s, c, x) <=> RingHas(s, k, c, x) \/ x = e
      OBVIOUS
    <2>4. QED
      BY <2>1, <2>2, <2>3
  <1>3. QED
    BY <1>1, <1>2

LEMMA RingSubmit ==
    ASSUME NEW s, NEW k, NEW c, RingOnce(s, k, c)
    PROVE  /\ RingOnce({}, k \cup s, c)
           /\ \A x : RingHas({}, k \cup s, c, x) <=> RingHas(s, k, c, x)
  BY DEF RingOnce, RingHas

RingGrew(s, k, c, l, d) ==
    /\ RingOnce(s, l, d)
    /\ \A x \in Ring!Entry : RingHas(s, l, d, x) <=> RingHas(s, k, c, x)
    /\ \A i \in DOMAIN c : i \in DOMAIN d /\ d[i] = c[i]

\* The kernel reports entry e, ...
LEMMA RingReports ==
    ASSUME NEW s, NEW k, NEW c, RingOnce(s, k, c), NEW e \in k, NEW a \in RingAnswers,
           NEW l, l = k \ {e}, NEW d, d = Append(c, <<e, a>>)
    PROVE  RingGrew(s, k, c, l, d)
  <1> USE DEF RingOnce
  <1>1. <<e, a>> \in RingReport /\ <<e, a>>[1] = e /\ c \in Seq(RingReport)
    BY DEF RingReport
  <1>2. /\ d \in Seq(RingReport) /\ Len(d) = Len(c) + 1 /\ DOMAIN d = 1..Len(c) + 1
        /\ Len(c) \in Nat /\ DOMAIN c = 1..Len(c)
        /\ \A i \in 1..Len(c) : d[i] = c[i]
        /\ d[Len(c) + 1] = <<e, a>>
    BY <1>1
  <1>3. \A i \in DOMAIN d : i \in DOMAIN c \/ i = Len(c) + 1
    BY <1>2
  <1>4. \A i \in DOMAIN c : c[i][1] # e
    OBVIOUS
  <1>5. \A i \in DOMAIN c : i \in DOMAIN d /\ d[i] = c[i]
    BY <1>2
  <1>6. Len(c) + 1 \in DOMAIN d /\ Len(c) + 1 \notin DOMAIN c /\ d[Len(c) + 1][1] = e
    BY <1>1, <1>2
  <1>7. PICK z : z = Len(c) + 1
    OBVIOUS
  <1>8. /\ \A i \in DOMAIN d : i \in DOMAIN c \/ i = z
        /\ z \in DOMAIN d /\ d[z][1] = e
    BY <1>3, <1>6, <1>7
  <1>9. RingOnce(s, k \ {e}, d)
    BY <1>2, <1>4, <1>5, <1>8
  <1>10. \A x : RingHas(s, k \ {e}, d, x) <=> RingHas(s, k, c, x)
    BY <1>4, <1>5, <1>8 DEF RingHas
  <1>11. QED
    BY <1>5, <1>9, <1>10 DEF RingGrew

\* ... and what is no entry of anybody's.
LEMMA RingNotes ==
    ASSUME NEW s, NEW k, NEW c, RingOnce(s, k, c), NEW r \in {Ring!Event, Ring!Nop},
           NEW d, d = Append(c, r)
    PROVE  RingGrew(s, k, c, k, d) /\ \E i \in DOMAIN d : d[i] = r
  <1> USE DEF RingOnce
  <1>1. r \in RingReport /\ r[1] \notin Ring!Entry /\ c \in Seq(RingReport)
    BY RingEventNotEntry DEF RingReport
  <1>2. /\ d \in Seq(RingReport) /\ Len(d) = Len(c) + 1 /\ DOMAIN d = 1..Len(c) + 1
        /\ Len(c) \in Nat /\ DOMAIN c = 1..Len(c)
        /\ \A i \in 1..Len(c) : d[i] = c[i]
        /\ d[Len(c) + 1] = r
    BY <1>1
  <1>3. PICK z : z = Len(c) + 1
    OBVIOUS
  <1>4. /\ \A i \in DOMAIN d : i \in DOMAIN c \/ i = z
        /\ z \in DOMAIN d /\ d[z] = r
        /\ \A i \in DOMAIN c : i \in DOMAIN d /\ d[i] = c[i]
    BY <1>2, <1>3
  <1>5. RingOnce(s, k, d)
    BY <1>1, <1>2, <1>4
  <1>6. \A x \in Ring!Entry : RingHas(s, k, d, x) <=> RingHas(s, k, c, x)
    BY <1>1, <1>4 DEF RingHas
  <1>7. QED
    BY <1>4, <1>5, <1>6 DEF RingGrew

\* The loop takes the first completion.
RingTaken(s, k, c, d) ==
    /\ RingOnce(s, k, d)
    /\ \A x \in Ring!Entry : RingHas(s, k, d, x) <=> RingHas(s, k, c, x) /\ x # Head(c)[1]
    /\ Head(c) \in RingReport
    /\ \A i \in DOMAIN c : c[i] # Head(c) => \E j \in DOMAIN d : d[j] = c[i]

LEMMA RingTakes ==
    ASSUME NEW s, NEW k, NEW c, RingOnce(s, k, c), c # <<>>, NEW d, d = Tail(c)
    PROVE  RingTaken(s, k, c, d)
  <1> USE DEF RingOnce
  <1>1. PICK T : T = RingReport
    OBVIOUS
  <1>2. c \in Seq(T)
    BY <1>1
  <1>3. /\ d \in Seq(T) /\ Head(c) = c[1] /\ Head(c) \in T
        /\ Len(c) \in Nat /\ Len(c) > 0 /\ DOMAIN c = 1..Len(c) /\ DOMAIN d = 1..Len(c) - 1
        /\ \A i \in 1..Len(c) - 1 : d[i] = c[i + 1]
    BY <1>2
  <1>4. 1 \in DOMAIN c
    BY <1>3
  <1>5. \A i \in DOMAIN d : i + 1 \in DOMAIN c /\ i + 1 # 1 /\ d[i] = c[i + 1]
    BY <1>3
  <1>6. \A i \in DOMAIN c : i = 1 \/ (i - 1 \in DOMAIN d /\ d[i - 1] = c[i])
    BY <1>3
  <1>7. \A i, j \in DOMAIN d : i + 1 = j + 1 => i = j
    BY <1>3
  <1>8. RingOnce(s, k, d)
    <2>1. \A i \in DOMAIN d : d[i][1] \notin s \cup k
      BY <1>5
    <2>2. \A i, j \in DOMAIN d : d[i][1] = d[j][1] /\ d[i][1] \in Ring!Entry => i = j
      BY <1>5, <1>7
    <2>3. QED
      BY <1>1, <1>3, <2>1, <2>2
  <1>9. ASSUME NEW x \in Ring!Entry
        PROVE  RingHas(s, k, d, x) <=> RingHas(s, k, c, x) /\ x # c[1][1]
    <2>1. x \in s \cup k => x # c[1][1]
      BY <1>4
    <2>2. (\E i \in DOMAIN d : d[i][1] = x) <=> (\E i \in DOMAIN c : c[i][1] = x) /\ x # c[1][1]
      <3>1. ASSUME NEW i \in DOMAIN d, d[i][1] = x
            PROVE  (\E j \in DOMAIN c : c[j][1] = x) /\ x # c[1][1]
        BY <1>4, <1>5, <3>1
      <3>2. ASSUME NEW i \in DOMAIN c, c[i][1] = x, x # c[1][1]
            PROVE  \E j \in DOMAIN d : d[j][1] = x
        BY <1>6, <3>2
      <3>3. QED
        BY <3>1, <3>2
    <2>3. QED
      BY <2>1, <2>2 DEF RingHas
  <1>10. \A i \in DOMAIN c : c[i] # c[1] => \E j \in DOMAIN d : d[j] = c[i]
    BY <1>6
  <1>11. QED
    BY <1>1, <1>3, <1>8, <1>9, <1>10 DEF RingTaken

\* Who is to start has not started, and starts once.
RingStarts(q, P, f) ==
    \A o \in RingOps :
        /\ o \notin RingLocal /\ Ring!Start(o) \notin P => f[o] = "new"
        /\ \A i \in DOMAIN q : q[i] = Ring!Start(o) =>
               /\ f[o] = "new" /\ (o \in RingLocal \/ Ring!Start(o) \in P)
               /\ \A j \in DOMAIN q : q[j] = Ring!Start(o) => i = j

LEMMA RingPosted ==
    ASSUME NEW T, NEW q \in Seq(T), NEW P, NEW f, RingStarts(q, P, f), NEW e \in T, e \notin P,
           \A o \in RingLocal : e # Ring!Start(o)
    PROVE  RingStarts(Append(q, e), P \cup {e}, f)
  <1> DEFINE d == Append(q, e)
  <1>1. /\ Len(q) \in Nat /\ DOMAIN q = 1..Len(q) /\ DOMAIN d = 1..Len(q) + 1
        /\ \A i \in 1..Len(q) : d[i] = q[i]
        /\ d[Len(q) + 1] = e
    OBVIOUS
  <1> HIDE DEF d
  <1>2. PICK z : z = Len(q) + 1
    OBVIOUS
  <1>3. /\ \A i \in DOMAIN d : (i \in DOMAIN q /\ d[i] = q[i]) \/ i = z
        /\ d[z] = e
    BY <1>1, <1>2
  <1>4. QED
    BY <1>3 DEF RingStarts, d

LEMMA RingTail ==
    ASSUME NEW T, NEW q \in Seq(T), q # <<>>, NEW P, NEW f, RingStarts(q, P, f), NEW g,
           \A o \in RingOps : f[o] = "new" /\ Head(q) # Ring!Start(o) => g[o] = "new"
    PROVE  RingStarts(Tail(q), P, g)
  <1> DEFINE d == Tail(q)
  <1>1. /\ Head(q) = q[1] /\ 1 \in DOMAIN q
        /\ \A i \in DOMAIN d : i + 1 \in DOMAIN q /\ i + 1 # 1 /\ d[i] = q[i + 1]
        /\ \A i, j \in DOMAIN d : i + 1 = j + 1 => i = j
    OBVIOUS
  <1> HIDE DEF d
  <1>2. QED
    BY <1>1 DEF RingStarts, d

-----------------------------------------------------------------------------
RingAwaited ==
    \A o \in RingOps :
        /\ RingHas(v1, v2, v3, Ring!Main(o)) <=> o \in v4
        /\ RingHas(v1, v2, v3, Ring!Cancel(o)) <=> o \in v5
        /\ v7[o] = "suspended" <=> o \in v4 \cup v5
        /\ v7[o] = "stopped" => o \in v8

RingSlept ==
    /\ v14 = "wait" => v1 = {} /\ v9 = <<>>
    /\ v10 # <<>> => v12 \/ \E i \in DOMAIN v3 : v3[i] = Ring!Event

RingInv ==
    /\ Ring!TypeOK /\ RingOnce(v1, v2, v3) /\ RingStarts(v9 \o v10, v11, v7)
    /\ RingAwaited /\ RingSlept

LEMMA RingOutlives == RingInv => Ring!AwaiterOutlives
  BY DEF RingInv, RingAwaited, RingSlept, RingHas, Ring!AwaiterOutlives, Ring!InRing

LEMMA RingTakenIn ==
    ASSUME NEW o \in RingOps
    PROVE  Ring!Main(o) \in Ring!Entry /\ Ring!Cancel(o) \in Ring!Entry
  BY DEF Ring!Entry

\* What the awaiters are told of when the entries only move.
LEMMA RingMoves ==
    ASSUME RingInv, RingOnce(v1', v2', v3'), UNCHANGED <<v4, v5, v6, v7, v8>>,
           \A x \in Ring!Entry : RingHas(v1', v2', v3', x) <=> RingHas(v1, v2, v3, x)
    PROVE  RingAwaited'
  <1>1. ASSUME NEW o \in RingOps
        PROVE  /\ RingHas(v1', v2', v3', Ring!Main(o)) <=> o \in v4'
               /\ RingHas(v1', v2', v3', Ring!Cancel(o)) <=> o \in v5'
               /\ v7'[o] = "suspended" <=> o \in v4' \cup v5'
               /\ v7'[o] = "stopped" => o \in v8'
    BY RingTakenIn DEF RingInv, RingAwaited
  <1>2. QED
    BY <1>1 DEF RingAwaited

LEMMA RingPosts ==
    ASSUME RingInv, NEW call \in Ring!Calls, Ring!Post(call)
    PROVE  RingInv'
  <1> USE DEF RingInv, Ring!Post, Ring!ring, Ring!awaiters
  <1>1. call \in Ring!Callback /\ \A o \in RingLocal : call # Ring!Start(o)
    <2>1. call = Ring!Quit \/ \E p \in RingOps \ RingLocal : call \in {Ring!Start(p), Ring!Request(p)}
      BY DEF Ring!Calls
    <2>2. call \in Ring!Callback
      BY <2>1 DEF Ring!Callback
    <2>3. CASE call = Ring!Quit
      BY <2>2, <2>3, RingNames
    <2>4. CASE \E p \in RingOps \ RingLocal : call \in {Ring!Start(p), Ring!Request(p)}
      <3>1. PICK p \in RingOps \ RingLocal : call \in {Ring!Start(p), Ring!Request(p)}
        BY <2>4
      <3>2. ASSUME NEW o \in RingLocal PROVE call # Ring!Start(o)
        BY <3>1, RingNames
      <3>3. QED
        BY <2>2, <3>2
    <2>5. QED
      BY <2>1, <2>3, <2>4
  <1>2. /\ v9 \in Seq(Ring!Callback) /\ v10 \in Seq(Ring!Callback)
        /\ v10' = Append(v10, call) /\ v9' = v9 /\ v11' = v11 \cup {call} /\ call \notin v11
    BY DEF Ring!TypeOK
  <1>3. PICK T : T = Ring!Callback
    OBVIOUS
  <1>4. v10' \in Seq(Ring!Callback)
    BY <1>1, <1>2, <1>3
  <1>5. /\ v9 \o v10 \in Seq(Ring!Callback)
        /\ v9' \o v10' = Append(v9 \o v10, call)
    BY <1>1, <1>2, <1>3
  <1>6. RingStarts(Append(v9 \o v10, call), v11 \cup {call}, v7)
    BY <1>1, <1>2, <1>5, RingPosted
  <1>7. RingStarts(v9 \o v10, v11, v7)'
    BY <1>2, <1>5, <1>6
  <1>8. Ring!TypeOK'
    BY <1>1, <1>2, <1>4 DEF Ring!TypeOK
  <1>9. RingOnce(v1, v2, v3)' /\ RingAwaited' /\ RingSlept'
    BY DEF RingOnce, RingAwaited, RingHas, RingSlept
  <1>10. QED
    BY <1>7, <1>8, <1>9

LEMMA RingWrites ==
    ASSUME RingInv, Ring!WriteEvent
    PROVE  RingInv'
  <1> USE DEF RingInv, Ring!WriteEvent, Ring!awaiters
  <1>1. v3' = Append(v3, Ring!Event) /\ UNCHANGED <<v1, v2>>
    OBVIOUS
  <1>2. /\ RingOnce(v1', v2', v3')
        /\ \A x \in Ring!Entry : RingHas(v1', v2', v3', x) <=> RingHas(v1, v2, v3, x)
        /\ \E i \in DOMAIN v3' : v3'[i] = Ring!Event
    <2>1. RingGrew(v1, v2, v3, v2, v3') /\ \E i \in DOMAIN v3' : v3'[i] = Ring!Event
      <3>1. PICK d : d = v3'
        OBVIOUS
      <3>2. d = Append(v3, Ring!Event)
        BY <1>1, <3>1
      <3>3. RingGrew(v1, v2, v3, v2, d) /\ \E i \in DOMAIN d : d[i] = Ring!Event
        BY <3>2, RingNotes
      <3>4. QED
        BY <3>1, <3>3
    <2>2. QED
      BY <1>1, <2>1 DEF RingGrew
  <1>3. RingAwaited'
    BY <1>2, RingMoves
  <1>4. Ring!TypeOK' /\ RingStarts(v9 \o v10, v11, v7)'
    BY DEF Ring!TypeOK, RingStarts
  <1>5. RingSlept'
    BY <1>2 DEF RingSlept
  <1>6. QED
    BY <1>2, <1>3, <1>4, <1>5

LEMMA RingSubmits ==
    ASSUME RingInv, Ring!SubmitPending
    PROVE  RingInv'
  <1> USE DEF RingInv, Ring!SubmitPending, Ring!Submit, Ring!awaiters, Ring!posts
  <1>1. v1' = {} /\ v2' = v2 \cup v1 /\ v3' = v3
    OBVIOUS
  <1>2. /\ RingOnce(v1', v2', v3')
        /\ \A x : RingHas(v1', v2', v3', x) <=> RingHas(v1, v2, v3, x)
    BY <1>1, RingSubmit
  <1>3. RingAwaited'
    BY <1>2, RingMoves
  <1>4. Ring!TypeOK' /\ RingStarts(v9 \o v10, v11, v7)'
    BY DEF Ring!TypeOK, RingStarts
  <1>5. RingSlept'
    BY <1>1 DEF RingSlept
  <1>6. QED
    BY <1>2, <1>3, <1>4, <1>5

\* What the kernel reports of entries.
LEMMA RingKernel ==
    ASSUME RingInv, RingGrew(v1, v2, v3, v2', v3'),
           UNCHANGED <<v1, Ring!awaiters, Ring!posts, v13, v14>>
    PROVE  RingInv'
  <1> USE DEF RingInv, Ring!awaiters, Ring!posts
  <1>1. /\ RingOnce(v1', v2', v3')
        /\ \A x \in Ring!Entry : RingHas(v1', v2', v3', x) <=> RingHas(v1, v2, v3, x)
        /\ \A i \in DOMAIN v3 : i \in DOMAIN v3' /\ v3'[i] = v3[i]
    BY DEF RingGrew
  <1>2. RingAwaited'
    BY <1>1, RingMoves
  <1>3. Ring!TypeOK' /\ RingStarts(v9 \o v10, v11, v7)'
    BY DEF Ring!TypeOK, RingStarts
  <1>4. RingSlept'
    BY <1>1 DEF RingSlept
  <1>5. QED
    BY <1>1, <1>2, <1>3, <1>4

LEMMA RingCompletes ==
    ASSUME RingInv, NEW o \in RingOps, Ring!Complete(o) \/ Ring!CancelMiss(o)
    PROVE  RingInv'
  <1>1. PICK e \in v2, a \in RingAnswers : v2' = v2 \ {e} /\ v3' = Append(v3, <<e, a>>)
    BY DEF Ring!Complete, Ring!CancelMiss, RingAnswers
  <1>2. UNCHANGED <<v1, Ring!awaiters, Ring!posts, v13, v14>>
    BY DEF Ring!Complete, Ring!CancelMiss
  <1>3. RingOnce(v1, v2, v3)
    BY DEF RingInv
  <1>4. RingGrew(v1, v2, v3, v2', v3')
    <2>1. PICK l, d : l = v2' /\ d = v3'
      OBVIOUS
    <2>2. l = v2 \ {e} /\ d = Append(v3, <<e, a>>)
      BY <1>1, <2>1
    <2>3. RingGrew(v1, v2, v3, l, d)
      BY <1>3, <2>2, RingReports
    <2>4. QED
      BY <2>1, <2>3
  <1>5. QED
    BY <1>2, <1>4, RingKernel

LEMMA RingCancels ==
    ASSUME RingInv, NEW o \in RingOps, Ring!CancelHit(o)
    PROVE  RingInv'
  <1>1. PICK e, f, a, b :
            /\ e \in v2 /\ f \in v2 /\ e # f /\ a \in RingAnswers /\ b \in RingAnswers
            /\ v2' = (v2 \ {e}) \ {f} /\ v3' = v3 \o <<<<e, a>>, <<f, b>>>>
    <2>1. Ring!Main(o) # Ring!Cancel(o) /\ Ring!Main(o) \in v2 /\ Ring!Cancel(o) \in v2
      BY RingNames DEF Ring!CancelHit
    <2>2. v2' = (v2 \ {Ring!Main(o)}) \ {Ring!Cancel(o)} /\ v2' = (v2 \ {Ring!Cancel(o)}) \ {Ring!Main(o)}
      BY DEF Ring!CancelHit
    <2>3. CASE v3' = v3 \o <<<<Ring!Main(o), "canceled">>, <<Ring!Cancel(o), "done">>>>
      BY <2>1, <2>2, <2>3 DEF RingAnswers
    <2>4. CASE v3' = v3 \o <<<<Ring!Cancel(o), "done">>, <<Ring!Main(o), "canceled">>>>
      BY <2>1, <2>2, <2>4 DEF RingAnswers
    <2>5. QED
      BY <2>3, <2>4 DEF Ring!CancelHit
  <1>2. UNCHANGED <<v1, Ring!awaiters, Ring!posts, v13, v14>>
    BY DEF Ring!CancelHit
  <1>3. RingOnce(v1, v2, v3)
    BY DEF RingInv
  <1>4. PICK c, k : c = Append(v3, <<e, a>>) /\ k = v2 \ {e}
    OBVIOUS
  <1>5. RingGrew(v1, v2, v3, k, c)
    BY <1>1, <1>3, <1>4, RingReports
  <1>6. PICK d, l : d = Append(c, <<f, b>>) /\ l = k \ {f}
    OBVIOUS
  <1>7. RingGrew(v1, k, c, l, d)
    <2>1. f \in k
      BY <1>1, <1>4
    <2>2. RingOnce(v1, k, c)
      BY <1>5 DEF RingGrew
    <2>3. QED
      BY <1>1, <1>6, <2>1, <2>2, RingReports
  <1>8. v3' = Append(c, <<f, b>>) /\ v2' = k \ {f}
    <2>1. PICK T : T = RingReport
      OBVIOUS
    <2>2. PICK q, g, h : q = v3 /\ g = <<e, a>> /\ h = <<f, b>>
      OBVIOUS
    <2>3. q \in Seq(T) /\ g \in T /\ h \in T
      BY <1>1, <1>3, <2>1, <2>2 DEF RingOnce, RingReport
    <2>4. q \o <<g, h>> = Append(Append(q, g), h)
      BY <2>3
    <2>5. QED
      BY <1>1, <1>4, <2>2, <2>4
  <1>9. RingGrew(v1, v2, v3, l, d)
    BY <1>5, <1>7 DEF RingGrew
  <1>10. RingGrew(v1, v2, v3, v2', v3')
    BY <1>8, <1>9, <1>6
  <1>11. QED
    BY <1>2, <1>10, RingKernel

-----------------------------------------------------------------------------
\* The callbacks that are left.
LEMMA RingDrains ==
    ASSUME RingInv, v9 # <<>>, v9' = Tail(v9), UNCHANGED <<v10, v11>>,
           \A o \in RingOps : v7[o] = "new" /\ Head(v9) # Ring!Start(o) => v7'[o] = "new"
    PROVE  /\ RingStarts(v9 \o v10, v11, v7)' /\ v9' \in Seq(Ring!Callback)
           /\ Head(v9) \in Ring!Callback
           /\ \A o \in RingOps : Head(v9) = Ring!Start(o) => v7[o] = "new"
  <1>1. PICK T, a, b : T = Ring!Callback /\ a = v9 /\ b = v10
    OBVIOUS
  <1>2. a \in Seq(T) /\ b \in Seq(T) /\ a # <<>>
    BY <1>1 DEF RingInv, Ring!TypeOK
  <1>3. /\ a \o b \in Seq(T) /\ a \o b # <<>> /\ Head(a \o b) = Head(a)
        /\ Tail(a \o b) = Tail(a) \o b /\ Tail(a) \in Seq(T) /\ Head(a) \in T
        /\ 1 \in DOMAIN (a \o b) /\ (a \o b)[1] = Head(a)
    BY <1>2
  <1>4. PICK q, f, g : q = a \o b /\ f = v7 /\ g = v7'
    OBVIOUS
  <1>5. RingStarts(q, v11, f)
    BY <1>1, <1>4 DEF RingInv
  <1>6. q \in Seq(T) /\ q # <<>> /\ Head(q) = Head(v9) /\ q[1] = Head(v9) /\ 1 \in DOMAIN q
    BY <1>1, <1>3, <1>4
  <1>7. \A o \in RingOps : f[o] = "new" /\ Head(q) # Ring!Start(o) => g[o] = "new"
    BY <1>4, <1>6
  <1>8. RingStarts(Tail(q), v11, g)
    BY <1>5, <1>6, <1>7, RingTail
  <1>9. v9' \o v10' = Tail(q) /\ v11' = v11 /\ v7' = g
    BY <1>1, <1>3, <1>4
  <1>10. RingStarts(v9 \o v10, v11, v7)'
    BY <1>8, <1>9
  <1>11. \A o \in RingOps : Head(v9) = Ring!Start(o) => v7[o] = "new"
    BY <1>4, <1>5, <1>6 DEF RingStarts
  <1>12. QED
    BY <1>1, <1>3, <1>10, <1>11

\* A coroutine that has not started awaits its operation.
LEMMA RingAwaits ==
    ASSUME RingInv, NEW o \in RingOps, Ring!Await(o), v7[o] = "new", v3' = v3
    PROVE  /\ RingOnce(v1', v2', v3') /\ RingAwaited'
           /\ v7' \in [RingOps -> {"new", "suspended", "resumed", "stopped"}]
           /\ v4' \subseteq RingOps /\ v5' \subseteq v8' /\ v8' = v8 /\ v6' = v6
           /\ \A p \in RingOps : p # o => v7'[p] = v7[p]
  <1>1. /\ v7' = [v7 EXCEPT ![o] = "suspended"] /\ v4' = v4 \cup {o}
        /\ v5' = v5 \cup ({o} \cap v8) /\ UNCHANGED <<v6, v8>>
    BY DEF Ring!Await
  <1>2. /\ v7 \in [RingOps -> {"new", "suspended", "resumed", "stopped"}] /\ v4 \subseteq RingOps
        /\ v5 \subseteq v8 /\ RingOnce(v1, v2, v3)
    BY DEF RingInv, Ring!TypeOK
  <1>3. /\ o \notin v4 /\ o \notin v5
        /\ ~RingHas(v1, v2, v3, Ring!Main(o)) /\ ~RingHas(v1, v2, v3, Ring!Cancel(o))
    BY DEF RingInv, RingAwaited
  <1>4. Ring!Main(o) \in Ring!Entry /\ Ring!Cancel(o) \in Ring!Entry
    BY RingTakenIn
  <1>5. PICK s, k : /\ Ring!Alloc(Ring!Main(o), [sq |-> v1, kernel |-> v2]) = [sq |-> s, kernel |-> k]
                    /\ RingOnce(s, k, v3)
                    /\ \A x : RingHas(s, k, v3, x) <=> RingHas(v1, v2, v3, x) \/ x = Ring!Main(o)
    BY <1>2, <1>3, <1>4, RingAlloc
  <1>6. ~RingHas(s, k, v3, Ring!Cancel(o))
    BY <1>3, <1>5, RingNames
  <1>7. PICK t, l : /\ Ring!Alloc(Ring!Cancel(o), [sq |-> s, kernel |-> k]) = [sq |-> t, kernel |-> l]
                    /\ RingOnce(t, l, v3)
                    /\ \A x : RingHas(t, l, v3, x) <=> RingHas(s, k, v3, x) \/ x = Ring!Cancel(o)
    BY <1>4, <1>5, <1>6, RingAlloc
  <1>8. IF o \in v8 THEN v1' = t /\ v2' = l ELSE v1' = s /\ v2' = k
    BY <1>5, <1>7 DEF Ring!Await, Ring!Now, Ring!Becomes
  <1>9. RingOnce(v1', v2', v3')
    BY <1>5, <1>7, <1>8
  <1>10. \A x : RingHas(v1', v2', v3', x) <=>
             RingHas(v1, v2, v3, x) \/ x = Ring!Main(o) \/ (o \in v8 /\ x = Ring!Cancel(o))
    BY <1>5, <1>7, <1>8
  <1>11. ASSUME NEW p \in RingOps
         PROVE  /\ RingHas(v1', v2', v3', Ring!Main(p)) <=> p \in v4'
                /\ RingHas(v1', v2', v3', Ring!Cancel(p)) <=> p \in v5'
                /\ v7'[p] = "suspended" <=> p \in v4' \cup v5'
                /\ v7'[p] = "stopped" => p \in v8'
    <2>1. /\ RingHas(v1, v2, v3, Ring!Main(p)) <=> p \in v4
          /\ RingHas(v1, v2, v3, Ring!Cancel(p)) <=> p \in v5
          /\ v7[p] = "suspended" <=> p \in v4 \cup v5
          /\ v7[p] = "stopped" => p \in v8
      BY DEF RingInv, RingAwaited
    <2>2. RingHas(v1', v2', v3', Ring!Main(p)) <=> p \in v4'
      BY <1>1, <1>10, <2>1, RingNames
    <2>3. RingHas(v1', v2', v3', Ring!Cancel(p)) <=> p \in v5'
      BY <1>1, <1>10, <2>1, RingNames
    <2>4. v7'[p] = IF p = o THEN "suspended" ELSE v7[p]
      BY <1>1, <1>2
    <2>5. QED
      BY <1>1, <2>1, <2>2, <2>3, <2>4
  <1>12. RingAwaited'
    BY <1>11 DEF RingAwaited
  <1>13. QED
    BY <1>1, <1>2, <1>9, <1>12

\* The stop of p is requested, where the entries are those of c.
RingStopped(p, c) ==
    /\ RingOnce(v1', v2', c)
    /\ \A x : RingHas(v1', v2', c, x) <=>
           RingHas(v1, v2, c, x) \/ (v7[p] = "suspended" /\ x = Ring!Cancel(p))

LEMMA RingStops ==
    ASSUME NEW c, RingOnce(v1, v2, c), NEW p \in RingOps, ~RingHas(v1, v2, c, Ring!Cancel(p)),
           Ring!Becomes(IF v7[p] = "suspended" THEN Ring!Alloc(Ring!Cancel(p), Ring!Now) ELSE Ring!Now)
    PROVE  RingStopped(p, c)
  <1>1. CASE v7[p] = "suspended"
    <2>1. PICK t, l : /\ Ring!Alloc(Ring!Cancel(p), [sq |-> v1, kernel |-> v2]) = [sq |-> t, kernel |-> l]
                      /\ RingOnce(t, l, c)
                      /\ \A x : RingHas(t, l, c, x) <=> RingHas(v1, v2, c, x) \/ x = Ring!Cancel(p)
      BY RingTakenIn, RingAlloc
    <2>2. v1' = t /\ v2' = l
      BY <1>1, <2>1 DEF Ring!Now, Ring!Becomes
    <2>3. QED
      BY <1>1, <2>1, <2>2 DEF RingStopped
  <1>2. CASE v7[p] # "suspended"
    <2>1. v1' = v1 /\ v2' = v2
      BY <1>2 DEF Ring!Now, Ring!Becomes
    <2>2. QED
      BY <1>2, <2>1 DEF RingStopped
  <1>3. QED
    BY <1>1, <1>2

LEMMA RingRequests ==
    ASSUME RingInv, NEW o \in RingOps, Ring!RequestStop(o), UNCHANGED <<v3, v4, v6, v7>>
    PROVE  /\ RingOnce(v1', v2', v3') /\ RingAwaited'
           /\ v5' \subseteq v8' /\ v8' \subseteq RingOps
  <1>1. v8' = v8 \cup {o} /\ v8 \subseteq RingOps /\ v5 \subseteq v8 /\ RingOnce(v1, v2, v3)
    BY DEF RingInv, Ring!TypeOK, Ring!RequestStop
  <1>2. CASE o \notin v8 /\ v7[o] = "suspended"
    <2>1. v5' = v5 \cup {o}
      BY <1>2 DEF Ring!RequestStop
    <2>2. Ring!Becomes(IF v7[o] = "suspended" THEN Ring!Alloc(Ring!Cancel(o), Ring!Now) ELSE Ring!Now)
      BY <1>2 DEF Ring!RequestStop
    <2>3. ~RingHas(v1, v2, v3, Ring!Cancel(o))
      BY <1>1, <1>2 DEF RingInv, RingAwaited
    <2>4. RingStopped(o, v3)
      BY <1>1, <2>2, <2>3, RingStops
    <2>5. /\ RingOnce(v1', v2', v3')
          /\ \A x : RingHas(v1', v2', v3', x) <=> RingHas(v1, v2, v3, x) \/ x = Ring!Cancel(o)
      BY <1>2, <2>4 DEF RingStopped
    <2>6. ASSUME NEW p \in RingOps
          PROVE  /\ RingHas(v1', v2', v3', Ring!Main(p)) <=> p \in v4'
                 /\ RingHas(v1', v2', v3', Ring!Cancel(p)) <=> p \in v5'
                 /\ v7'[p] = "suspended" <=> p \in v4' \cup v5'
                 /\ v7'[p] = "stopped" => p \in v8'
      BY <1>1, <1>2, <2>1, <2>5, RingNames DEF RingInv, RingAwaited
    <2>7. RingAwaited'
      BY <2>6 DEF RingAwaited
    <2>8. QED
      BY <1>1, <2>1, <2>5, <2>7
  <1>3. CASE ~(o \notin v8 /\ v7[o] = "suspended")
    <2>1. UNCHANGED <<v1, v2, v3, v4, v5, v7>>
      BY <1>3 DEF Ring!RequestStop
    <2>2. RingAwaited'
      BY <1>1, <2>1 DEF RingInv, RingAwaited, RingHas
    <2>3. QED
      BY <1>1, <2>1, <2>2
  <1>4. QED
    BY <1>2, <1>3

LEMMA RingCalls ==
    ASSUME RingInv, Ring!RunCallback
    PROVE  RingInv'
  <1>1. /\ v14 = "callbacks" /\ v9 # <<>> /\ v9' = Tail(v9) /\ UNCHANGED <<v10, v11, v12, v14>>
    BY DEF Ring!RunCallback
  <1>2. RingOnce(v1, v2, v3) /\ Ring!TypeOK
    BY DEF RingInv
  <1>3. v9 # <<>> /\ \A o \in RingOps : Head(v9) = Ring!Start(o) => v7[o] = "new"
    <2>1. v9 \in Seq(Ring!Callback) /\ v10 \in Seq(Ring!Callback) /\ v9 # <<>>
      BY <1>1, <1>2 DEF Ring!TypeOK
    <2>2. PICK T, a, b : T = Ring!Callback /\ a = v9 /\ b = v10
      OBVIOUS
    <2>3. 1 \in DOMAIN (a \o b) /\ (a \o b)[1] = Head(a)
      BY <2>1, <2>2
    <2>4. QED
      BY <1>1, <2>2, <2>3 DEF RingInv, RingStarts
  <1>4. CASE \E o \in RingOps : Head(v9) = Ring!Start(o) /\ Ring!Await(o) /\ UNCHANGED <<v3, v13>>
    <2>1. PICK o \in RingOps : Head(v9) = Ring!Start(o) /\ Ring!Await(o) /\ UNCHANGED <<v3, v13>>
      BY <1>4
    <2>2. v7[o] = "new"
      BY <1>3, <2>1
    <2>3. /\ RingOnce(v1', v2', v3') /\ RingAwaited'
          /\ v7' \in [RingOps -> {"new", "suspended", "resumed", "stopped"}]
          /\ v4' \subseteq RingOps /\ v5' \subseteq v8' /\ v8' = v8 /\ v6' = v6
          /\ \A p \in RingOps : p # o => v7'[p] = v7[p]
      BY <2>1, <2>2, RingAwaits
    <2>4. \A p \in RingOps : v7[p] = "new" /\ Head(v9) # Ring!Start(p) => v7'[p] = "new"
      BY <2>1, <2>3
    <2>5. RingStarts(v9 \o v10, v11, v7)' /\ v9' \in Seq(Ring!Callback)
      BY <1>1, <2>4, RingDrains
    <2>6. Ring!TypeOK'
      BY <1>1, <1>2, <2>1, <2>3, <2>5 DEF Ring!TypeOK
    <2>7. RingSlept'
      BY <1>1, <2>1 DEF RingInv, RingSlept
    <2>8. QED
      BY <2>3, <2>5, <2>6, <2>7 DEF RingInv
  <1>5. CASE \E o \in RingOps : /\ Head(v9) = Ring!Request(o) /\ Ring!RequestStop(o)
                               /\ UNCHANGED <<v3, v4, v6, v7, v13>>
    <2>1. PICK o \in RingOps : /\ Head(v9) = Ring!Request(o) /\ Ring!RequestStop(o)
                              /\ UNCHANGED <<v3, v4, v6, v7, v13>>
      BY <1>5
    <2>2. /\ RingOnce(v1', v2', v3') /\ RingAwaited'
          /\ v5' \subseteq v8' /\ v8' \subseteq RingOps
      BY <2>1, RingRequests
    <2>3. RingStarts(v9 \o v10, v11, v7)' /\ v9' \in Seq(Ring!Callback)
      BY <1>1, <2>1, RingDrains
    <2>4. Ring!TypeOK'
      BY <1>1, <1>2, <2>1, <2>2, <2>3 DEF Ring!TypeOK
    <2>5. RingSlept'
      BY <1>1, <2>1 DEF RingInv, RingSlept
    <2>6. QED
      BY <2>2, <2>3, <2>4, <2>5 DEF RingInv
  <1>6. CASE /\ v13' = TRUE /\ v1' = {} /\ v2' = v2 \cup v1 /\ v3' = Append(v3, Ring!Nop)
             /\ UNCHANGED Ring!awaiters
    <2>1. UNCHANGED <<v4, v5, v6, v7, v8>>
      BY <1>6 DEF Ring!awaiters
    <2>2. /\ RingOnce({}, v2 \cup v1, v3)
          /\ \A x : RingHas({}, v2 \cup v1, v3, x) <=> RingHas(v1, v2, v3, x)
      BY <1>2, RingSubmit
    <2>3. PICK s, k, d : s = v1' /\ k = v2' /\ d = v3'
      OBVIOUS
    <2>4. d = Append(v3, Ring!Nop) /\ RingOnce(s, k, v3)
      BY <1>6, <2>2, <2>3
    <2>5. RingGrew(s, k, v3, k, d)
      BY <2>4, RingNotes
    <2>6. /\ RingOnce(v1', v2', v3')
          /\ \A x \in Ring!Entry : RingHas(v1', v2', v3', x) <=> RingHas(v1, v2, v3, x)
          /\ \A i \in DOMAIN v3 : i \in DOMAIN v3' /\ v3'[i] = v3[i]
      BY <1>6, <2>2, <2>3, <2>5 DEF RingGrew
    <2>7. RingAwaited'
      BY <2>1, <2>6, RingMoves
    <2>8. RingStarts(v9 \o v10, v11, v7)' /\ v9' \in Seq(Ring!Callback)
      BY <1>1, <2>1, RingDrains
    <2>9. Ring!TypeOK'
      BY <1>1, <1>2, <1>6, <2>1, <2>8 DEF Ring!TypeOK
    <2>10. RingSlept'
      BY <1>1, <2>6 DEF RingInv, RingSlept
    <2>11. QED
      BY <2>6, <2>7, <2>8, <2>9, <2>10 DEF RingInv
  <1>7. QED
    BY <1>4, <1>5, <1>6 DEF Ring!RunCallback

-----------------------------------------------------------------------------
\* The first completion is taken, that of entry e.
LEMMA RingFirst ==
    ASSUME RingInv, v3 # <<>>, v3' = Tail(v3)
    PROVE  /\ RingOnce(v1, v2, v3')
           /\ \A x \in Ring!Entry :
                  RingHas(v1, v2, v3', x) <=> RingHas(v1, v2, v3, x) /\ x # Head(v3)[1]
           /\ Head(v3) \in RingReport /\ RingHas(v1, v2, v3, Head(v3)[1])
           /\ \A i \in DOMAIN v3 : v3[i] # Head(v3) => \E j \in DOMAIN v3' : v3'[j] = v3[i]
  <1>1. PICK s, k, c, d : s = v1 /\ k = v2 /\ c = v3 /\ d = v3'
    OBVIOUS
  <1>2. RingOnce(s, k, c) /\ c # <<>> /\ d = Tail(c)
    BY <1>1 DEF RingInv
  <1>3. RingTaken(s, k, c, d)
    BY <1>2, RingTakes
  <1>4. RingHas(s, k, c, Head(c)[1])
    <2>1. PICK T : T = RingReport
      OBVIOUS
    <2>2. c \in Seq(T)
      BY <1>2, <2>1 DEF RingOnce
    <2>3. 1 \in DOMAIN c /\ Head(c) = c[1]
      BY <1>2, <2>2
    <2>4. QED
      BY <2>3 DEF RingHas
  <1>5. QED
    BY <1>1, <1>3, <1>4 DEF RingTaken

\* What has not started goes on not having.
LEMMA RingGoesOn ==
    ASSUME NEW q, NEW P, NEW f, RingStarts(q, P, f), NEW g,
           \A o \in RingOps : f[o] = "new" => g[o] = "new"
    PROVE  RingStarts(q, P, g)
  BY DEF RingStarts

\* One of the two entries of o was answered; m are those whose mCancelSqe is set.
RingAnswered(o, m) ==
    /\ v4' \subseteq v4 /\ m \subseteq v5 /\ o \in v4 \cup v5
    /\ \A p \in RingOps :
           /\ RingHas(v1, v2, v3', Ring!Main(p)) <=> p \in v4'
           /\ RingHas(v1, v2, v3', Ring!Cancel(p)) <=> p \in m
           /\ p # o => (p \in v4' \cup m <=> p \in v4 \cup v5)

\* It waits for the other, ...
LEMMA RingWaits ==
    ASSUME RingInv, NEW o \in RingOps, NEW m, RingAnswered(o, m), RingOnce(v1, v2, v3'),
           o \in v4' \cup m, Ring!Waits, v5' = m \cup Ring!Cancelled
    PROVE  /\ RingOnce(v1', v2', v3') /\ RingAwaited'
           /\ v5' \subseteq v8' /\ v8' \subseteq RingOps /\ v7' = v7
  <1>1. v1' = v1 /\ v2' = v2 /\ v7' = v7 /\ v8' = v8 /\ v5' = m
    BY DEF Ring!Waits, Ring!Cancelled
  <1>2. v5 \subseteq v8 /\ v8 \subseteq RingOps
    BY DEF RingInv, Ring!TypeOK
  <1>3. ASSUME NEW p \in RingOps
        PROVE  /\ RingHas(v1', v2', v3', Ring!Main(p)) <=> p \in v4'
               /\ RingHas(v1', v2', v3', Ring!Cancel(p)) <=> p \in v5'
               /\ v7'[p] = "suspended" <=> p \in v4' \cup v5'
               /\ v7'[p] = "stopped" => p \in v8'
    <2>1. /\ v7[p] = "suspended" <=> p \in v4 \cup v5
          /\ v7[p] = "stopped" => p \in v8
      BY DEF RingInv, RingAwaited
    <2>2. QED
      BY <1>1, <2>1 DEF RingAnswered
  <1>4. RingAwaited'
    BY <1>3 DEF RingAwaited
  <1>5. QED
    BY <1>1, <1>2, <1>4 DEF RingAnswered

\* ... or was the last, and o is resumed or stopped.
LEMMA RingResumes ==
    ASSUME RingInv, NEW o \in RingOps, NEW m, RingAnswered(o, m), RingOnce(v1, v2, v3'),
           o \notin v4' \cup m, Ring!OnResume(o), v5' = m \cup Ring!Cancelled
    PROVE  /\ RingOnce(v1', v2', v3') /\ RingAwaited'
           /\ v5' \subseteq v8' /\ v8' \subseteq RingOps
           /\ \A p \in RingOps : p # o => v7'[p] = v7[p]
           /\ v7' \in [RingOps -> {"new", "suspended", "resumed", "stopped"}]
  <1>1. /\ v5 \subseteq v8 /\ v8 \subseteq RingOps
        /\ v7 \in [RingOps -> {"new", "suspended", "resumed", "stopped"}]
    BY DEF RingInv, Ring!TypeOK
  <1>2. PICK w \in {"stopped", "resumed"} :
            v7' = [v7 EXCEPT ![o] = w] /\ (w = "stopped" => o \in v8)
    BY DEF Ring!OnResume
  <1>3. \/ UNCHANGED <<v1, v2, v8>>
        \/ \E p \in RingOps \ (v8 \cup {o}) :
               /\ v8' = v8 \cup {p}
               /\ Ring!Becomes(IF v7[p] = "suspended" THEN Ring!Alloc(Ring!Cancel(p), Ring!Now)
                                                      ELSE Ring!Now)
    BY DEF Ring!OnResume
  <1>4. /\ v7'[o] = w /\ \A p \in RingOps : p # o => v7'[p] = v7[p]
        /\ v7' \in [RingOps -> {"new", "suspended", "resumed", "stopped"}]
    BY <1>1, <1>2
  <1>5. ASSUME v8 \subseteq v8', v8' \subseteq RingOps, v5' \subseteq v8',
               RingOnce(v1', v2', v3'),
               \A p \in RingOps : /\ RingHas(v1', v2', v3', Ring!Main(p)) <=> p \in v4'
                                  /\ RingHas(v1', v2', v3', Ring!Cancel(p)) <=> p \in v5'
                                  /\ p \in v4' \cup v5' <=> p # o /\ p \in v4 \cup v5
        PROVE  RingAwaited'
    <2>1. ASSUME NEW p \in RingOps
          PROVE  /\ RingHas(v1', v2', v3', Ring!Main(p)) <=> p \in v4'
                 /\ RingHas(v1', v2', v3', Ring!Cancel(p)) <=> p \in v5'
                 /\ v7'[p] = "suspended" <=> p \in v4' \cup v5'
                 /\ v7'[p] = "stopped" => p \in v8'
      <3>1. /\ v7[p] = "suspended" <=> p \in v4 \cup v5
            /\ v7[p] = "stopped" => p \in v8
        BY DEF RingInv, RingAwaited
      <3>2. QED
        BY <1>2, <1>4, <1>5, <3>1
    <2>2. QED
      BY <2>1 DEF RingAwaited
  <1>6. CASE UNCHANGED <<v1, v2, v8>>
    <2>1. v5' = m
      BY <1>6 DEF Ring!Cancelled
    <2>2. v5' \subseteq v8' /\ RingOnce(v1', v2', v3')
      BY <1>1, <1>6, <2>1 DEF RingAnswered
    <2>3. \A p \in RingOps : /\ RingHas(v1', v2', v3', Ring!Main(p)) <=> p \in v4'
                             /\ RingHas(v1', v2', v3', Ring!Cancel(p)) <=> p \in v5'
                             /\ p \in v4' \cup v5' <=> p # o /\ p \in v4 \cup v5
      BY <1>6, <2>1 DEF RingAnswered
    <2>4. QED
      BY <1>1, <1>4, <1>5, <1>6, <2>2, <2>3
  <1>7. CASE \E p \in RingOps \ (v8 \cup {o}) :
                 /\ v8' = v8 \cup {p}
                 /\ Ring!Becomes(IF v7[p] = "suspended" THEN Ring!Alloc(Ring!Cancel(p), Ring!Now)
                                                        ELSE Ring!Now)
    <2>1. PICK u \in RingOps \ (v8 \cup {o}) :
              /\ v8' = v8 \cup {u}
              /\ Ring!Becomes(IF v7[u] = "suspended" THEN Ring!Alloc(Ring!Cancel(u), Ring!Now)
                                                     ELSE Ring!Now)
      BY <1>7
    <2>2. v5' = m \cup (IF v7[u] = "suspended" THEN {u} ELSE {})
      BY <2>1 DEF Ring!Cancelled
    <2>3. PICK c : c = v3'
      OBVIOUS
    <2>4. ~RingHas(v1, v2, c, Ring!Cancel(u)) /\ u \notin m
      BY <1>1, <2>1, <2>3 DEF RingAnswered
    <2>5. RingStopped(u, c)
      BY <2>1, <2>3, <2>4, RingStops
    <2>6. /\ RingOnce(v1', v2', v3')
          /\ \A x : RingHas(v1', v2', v3', x) <=>
                 RingHas(v1, v2, v3', x) \/ (v7[u] = "suspended" /\ x = Ring!Cancel(u))
      BY <2>3, <2>5 DEF RingStopped
    <2>7. v5' \subseteq v8' /\ v8 \subseteq v8' /\ v8' \subseteq RingOps
      BY <1>1, <2>1, <2>2 DEF RingAnswered
    <2>8. v7[u] = "suspended" => u \in v4 \cup v5
      BY <2>1 DEF RingInv, RingAwaited
    <2>9. ASSUME NEW p \in RingOps
          PROVE  /\ RingHas(v1', v2', v3', Ring!Main(p)) <=> p \in v4'
                 /\ RingHas(v1', v2', v3', Ring!Cancel(p)) <=> p \in v5'
                 /\ p \in v4' \cup v5' <=> p # o /\ p \in v4 \cup v5
      <3>1. RingHas(v1', v2', v3', Ring!Main(p)) <=> p \in v4'
        BY <2>6, RingNames DEF RingAnswered
      <3>2. RingHas(v1', v2', v3', Ring!Cancel(p)) <=> p \in v5'
        BY <2>2, <2>6, RingNames DEF RingAnswered
      <3>3. p \in v4' \cup v5' <=> p # o /\ p \in v4 \cup v5
        BY <2>1, <2>2, <2>8 DEF RingAnswered
      <3>4. QED
        BY <3>1, <3>2, <3>3
    <2>10. RingAwaited'
      BY <1>5, <2>6, <2>7, <2>9
    <2>11. QED
      BY <1>4, <2>6, <2>7, <2>10
  <1>8. QED
    BY <1>3, <1>6, <1>7

\* An operation is answered, of its two entries one.
LEMMA RingMain ==
    ASSUME RingInv, v3 # <<>>, v3' = Tail(v3), NEW o \in RingOps, Head(v3)[1] = Ring!Main(o),
           v4' = v4 \ {o}
    PROVE  RingAnswered(o, v5)
  <1>1. RingHas(v1, v2, v3, Ring!Main(o))
    BY RingFirst
  <1>2. o \in v4
    BY <1>1 DEF RingInv, RingAwaited
  <1>3. ASSUME NEW p \in RingOps
        PROVE  /\ RingHas(v1, v2, v3', Ring!Main(p)) <=> p \in v4'
               /\ RingHas(v1, v2, v3', Ring!Cancel(p)) <=> p \in v5
    <2>1. /\ RingHas(v1, v2, v3, Ring!Main(p)) <=> p \in v4
          /\ RingHas(v1, v2, v3, Ring!Cancel(p)) <=> p \in v5
      BY DEF RingInv, RingAwaited
    <2>2. Ring!Main(p) \in Ring!Entry /\ Ring!Cancel(p) \in Ring!Entry
      BY RingTakenIn
    <2>3. /\ RingHas(v1, v2, v3', Ring!Main(p)) <=>
                 RingHas(v1, v2, v3, Ring!Main(p)) /\ Ring!Main(p) # Ring!Main(o)
          /\ RingHas(v1, v2, v3', Ring!Cancel(p)) <=>
                 RingHas(v1, v2, v3, Ring!Cancel(p)) /\ Ring!Cancel(p) # Ring!Main(o)
      BY <2>2, RingFirst
    <2>4. QED
      BY <2>1, <2>3, RingNames
  <1>4. QED
    BY <1>2, <1>3 DEF RingAnswered

LEMMA RingCancel ==
    ASSUME RingInv, v3 # <<>>, v3' = Tail(v3), NEW o \in RingOps,
           Head(v3)[1] = Ring!Cancel(o), v4' = v4
    PROVE  RingAnswered(o, v5 \ {o})
  <1>1. RingHas(v1, v2, v3, Ring!Cancel(o))
    BY RingFirst
  <1>2. o \in v5
    BY <1>1 DEF RingInv, RingAwaited
  <1>3. ASSUME NEW p \in RingOps
        PROVE  /\ RingHas(v1, v2, v3', Ring!Main(p)) <=> p \in v4'
               /\ RingHas(v1, v2, v3', Ring!Cancel(p)) <=> p \in v5 \ {o}
    <2>1. /\ RingHas(v1, v2, v3, Ring!Main(p)) <=> p \in v4
          /\ RingHas(v1, v2, v3, Ring!Cancel(p)) <=> p \in v5
      BY DEF RingInv, RingAwaited
    <2>2. Ring!Main(p) \in Ring!Entry /\ Ring!Cancel(p) \in Ring!Entry
      BY RingTakenIn
    <2>3. /\ RingHas(v1, v2, v3', Ring!Main(p)) <=>
                 RingHas(v1, v2, v3, Ring!Main(p)) /\ Ring!Main(p) # Ring!Cancel(o)
          /\ RingHas(v1, v2, v3', Ring!Cancel(p)) <=>
                 RingHas(v1, v2, v3, Ring!Cancel(p)) /\ Ring!Cancel(p) # Ring!Cancel(o)
      BY <2>2, RingFirst
    <2>4. QED
      BY <2>1, <2>3, RingNames
  <1>4. QED
    BY <1>2, <1>3 DEF RingAnswered

\* What the completion leaves, when it is that of an operation.
LEMMA RingAnswers_ ==
    ASSUME RingInv, v3 # <<>>, v3' = Tail(v3), NEW o \in RingOps,
           \/ Head(v3)[1] = Ring!Cancel(o) /\ Ring!OnCancelCompletion(o)
           \/ Head(v3)[1] = Ring!Main(o) /\ Ring!OnCompletion(o, Head(v3)[2])
    PROVE  /\ RingOnce(v1', v2', v3') /\ RingAwaited'
           /\ v4' \subseteq v4 /\ v5' \subseteq v8' /\ v8' \subseteq RingOps
           /\ \A p \in RingOps : v7[p] = "new" => v7'[p] = "new"
           /\ v7' \in [RingOps -> {"new", "suspended", "resumed", "stopped"}]
           /\ v6' \in [RingOps -> {"none", "done", "canceled", "already"}]
  <1>1. RingOnce(v1, v2, v3')
    BY RingFirst
  <1>2. PICK m : /\ RingAnswered(o, m)
                 /\ v5' = m \cup Ring!Cancelled
                 /\ IF o \in v4' \cup m THEN Ring!Waits ELSE Ring!OnResume(o)
    <2>1. CASE Head(v3)[1] = Ring!Cancel(o) /\ Ring!OnCancelCompletion(o)
      <3>1. /\ v4' = v4 /\ v5' = (v5 \ {o}) \cup Ring!Cancelled
            /\ IF o \in v4 THEN Ring!Waits ELSE Ring!OnResume(o)
        BY <2>1 DEF Ring!OnCancelCompletion
      <3>2. RingAnswered(o, v5 \ {o})
        BY <2>1, <3>1, RingCancel
      <3>3. QED
        BY <3>1, <3>2
    <2>2. CASE Head(v3)[1] = Ring!Main(o) /\ Ring!OnCompletion(o, Head(v3)[2])
      <3>1. /\ v4' = v4 \ {o} /\ v5' = v5 \cup Ring!Cancelled
            /\ IF o \in v5 THEN Ring!Waits ELSE Ring!OnResume(o)
        BY <2>2 DEF Ring!OnCompletion
      <3>2. RingAnswered(o, v5)
        BY <2>2, <3>1, RingMain
      <3>3. QED
        BY <3>1, <3>2
    <2>3. QED
      BY <2>1, <2>2
  <1>3. /\ RingOnce(v1', v2', v3') /\ RingAwaited'
        /\ v5' \subseteq v8' /\ v8' \subseteq RingOps
        /\ \A p \in RingOps : p # o => v7'[p] = v7[p]
        /\ v7' \in [RingOps -> {"new", "suspended", "resumed", "stopped"}]
    <2>1. CASE o \in v4' \cup m
      BY <1>1, <1>2, <2>1, RingWaits DEF RingInv, Ring!TypeOK
    <2>2. CASE o \notin v4' \cup m
      BY <1>1, <1>2, <2>2, RingResumes
    <2>3. QED
      BY <2>1, <2>2
  <1>4. v7[o] = "suspended"
    BY <1>2 DEF RingAnswered, RingInv, RingAwaited
  <1>5. v6' \in [RingOps -> {"none", "done", "canceled", "already"}]
    <2>1. v6 \in [RingOps -> {"none", "done", "canceled", "already"}]
      BY DEF RingInv, Ring!TypeOK
    <2>2. CASE Head(v3)[1] = Ring!Main(o) /\ Ring!OnCompletion(o, Head(v3)[2])
      <3>1. Head(v3) \in RingReport
        BY RingFirst
      <3>2. Head(v3) # Ring!Event /\ Head(v3) # Ring!Nop
        BY <2>2, RingNames
      <3>3. Head(v3)[2] \in RingAnswers
        BY <3>1, <3>2 DEF RingReport
      <3>4. QED
        BY <2>1, <2>2, <3>3 DEF Ring!OnCompletion, RingAnswers
    <2>3. QED
      BY <2>1, <2>2 DEF Ring!OnCancelCompletion
  <1>6. QED
    BY <1>2, <1>3, <1>4, <1>5 DEF RingAnswered

LEMMA RingProcess == RingInv /\ Ring!ProcessCompletion => RingInv'
  <1> SUFFICES ASSUME RingInv, Ring!ProcessCompletion PROVE RingInv'
    OBVIOUS
  <1>1. /\ v3 # <<>> /\ v3' = Tail(v3) /\ v14' = "callbacks"
        /\ UNCHANGED <<v11, v12, v13>>
    BY DEF Ring!ProcessCompletion
  <1>2. PICK a, b : a = v9 /\ b = v10
    OBVIOUS
  <1>3. PICK T : T = Ring!Callback
    OBVIOUS
  <1>4. Ring!TypeOK /\ a \in Seq(T) /\ b \in Seq(T) /\ RingStarts(a \o b, v11, v7)
    BY <1>2, <1>3 DEF RingInv, Ring!TypeOK
  <1>5. CASE /\ Head(v3) = Ring!Event
             /\ v9' = v9 \o v10 /\ v10' = <<>>
             /\ UNCHANGED <<v1, v2, Ring!awaiters>>
    <2>1. UNCHANGED <<v1, v2, v4, v5, v6, v7, v8>>
      BY <1>5 DEF Ring!awaiters
    <2>2. RingOnce(v1', v2', v3')
      BY <1>1, <2>1, RingFirst
    <2>3. \A x \in Ring!Entry : RingHas(v1', v2', v3', x) <=> RingHas(v1, v2, v3, x)
      <3>1. \A x \in Ring!Entry : x # Head(v3)[1]
        BY <1>5, RingEventNotEntry
      <3>2. QED
        BY <1>1, <2>1, <3>1, RingFirst
    <2>4. RingAwaited'
      BY <2>1, <2>2, <2>3, RingMoves
    <2>5. v9' = a \o b /\ v10' = <<>> /\ a \o b \in Seq(T) /\ (a \o b) \o <<>> = a \o b
      BY <1>2, <1>4, <1>5
    <2>6. RingStarts(v9 \o v10, v11, v7)'
      BY <1>1, <1>4, <2>1, <2>5
    <2>7. Ring!TypeOK'
      <3>1. v9' \in Seq(Ring!Callback) /\ v10' \in Seq(Ring!Callback)
        BY <1>3, <2>5
      <3>2. QED
        BY <1>1, <1>4, <2>1, <3>1 DEF Ring!TypeOK
    <2>8. RingSlept'
      BY <1>1, <2>5 DEF RingSlept
    <2>9. QED
      BY <2>2, <2>4, <2>6, <2>7, <2>8 DEF RingInv
  <1>6. CASE /\ \E o \in RingOps :
                    \/ Head(v3)[1] = Ring!Cancel(o) /\ Ring!OnCancelCompletion(o)
                    \/ Head(v3)[1] = Ring!Main(o) /\ Ring!OnCompletion(o, Head(v3)[2])
             /\ UNCHANGED <<v9, v10>>
    <2>1. PICK o \in RingOps :
              \/ Head(v3)[1] = Ring!Cancel(o) /\ Ring!OnCancelCompletion(o)
              \/ Head(v3)[1] = Ring!Main(o) /\ Ring!OnCompletion(o, Head(v3)[2])
      BY <1>6
    <2>2. /\ RingOnce(v1', v2', v3') /\ RingAwaited'
          /\ v4' \subseteq v4 /\ v5' \subseteq v8' /\ v8' \subseteq RingOps
          /\ \A p \in RingOps : v7[p] = "new" => v7'[p] = "new"
          /\ v7' \in [RingOps -> {"new", "suspended", "resumed", "stopped"}]
          /\ v6' \in [RingOps -> {"none", "done", "canceled", "already"}]
      BY <1>1, <2>1, RingAnswers_
    <2>3. RingStarts(v9 \o v10, v11, v7)'
      <3>1. PICK q, f, g : q = a \o b /\ f = v7 /\ g = v7'
        OBVIOUS
      <3>2. RingStarts(q, v11, f) /\ \A p \in RingOps : f[p] = "new" => g[p] = "new"
        BY <1>4, <2>2, <3>1
      <3>3. RingStarts(q, v11, g)
        BY <3>2, RingGoesOn
      <3>4. QED
        BY <1>1, <1>2, <1>6, <3>1, <3>3
    <2>4. Ring!TypeOK'
      BY <1>1, <1>4, <1>6, <2>2 DEF Ring!TypeOK
    <2>5. RingSlept'
      <3>1. Head(v3) # Ring!Event
        BY <2>1, RingNames
      <3>2. (\E i \in DOMAIN v3 : v3[i] = Ring!Event) => \E j \in DOMAIN v3' : v3'[j] = Ring!Event
        BY <1>1, <3>1, RingFirst
      <3>3. QED
        BY <1>1, <1>6, <3>2 DEF RingInv, RingSlept
    <2>6. QED
      BY <2>2, <2>3, <2>4, <2>5 DEF RingInv
  <1>7. QED
    BY <1>5, <1>6 DEF Ring!ProcessCompletion

LEMMA RingStep == RingInv /\ Ring!Next => RingInv'
  <1> SUFFICES ASSUME RingInv, Ring!Next PROVE RingInv'
    OBVIOUS
  <1>1. CASE \E call \in Ring!Calls : Ring!Post(call)
    BY <1>1, RingPosts
  <1>2. CASE \E o \in RingOps : Ring!CancelHit(o)
    BY <1>2, RingCancels
  <1>3. CASE \E o \in RingOps : Ring!Complete(o) \/ Ring!CancelMiss(o)
    BY <1>3, RingCompletes
  <1>4. QED
    BY <1>1, <1>2, <1>3, RingWrites, RingCalls, RingSubmits, RingProcess
       DEF Ring!Next, Ring!Kernel

LEMMA RingInit == Ring!Init => RingInv
  <1> SUFFICES ASSUME Ring!Init PROVE RingInv
    OBVIOUS
  <1>1. /\ v1 = {} /\ v2 = {} /\ v3 = <<>> /\ v4 = {} /\ v5 = {} /\ v8 = {}
        /\ v6 = [o \in RingOps |-> "none"] /\ v7 = [o \in RingOps |-> "new"]
        /\ v10 = <<>> /\ v11 = {} /\ v12 = FALSE /\ v13 = FALSE /\ v14 = "callbacks"
    BY DEF Ring!Init
  <1>2. PICK n : n = Cardinality(RingLocal)
    OBVIOUS
  <1>3. n \in Nat
    BY <1>2, ProgramsAssumption, FS_Subset, FS_CardinalityType
  <1>4. Ring!Cardinality(RingLocal) = n
    BY <1>2 DEF Ring!Cardinality, Cardinality, Ring!IsFiniteSet, IsFiniteSet
  <1>5. /\ v9 \in [1..n -> {Ring!Start(o) : o \in RingLocal}]
        /\ \A i, j \in 1..n : v9[i] = v9[j] => i = j
    BY <1>4 DEF Ring!Init, Ring!Injection, Ring!IsInjective
  <1>6. RingLocal \subseteq RingOps
    BY ProgramsAssumption
  <1>7. PICK q, T : q = v9 /\ T = Ring!Callback
    OBVIOUS
  <1>8. /\ q \in Seq(T) /\ q \o <<>> = q /\ DOMAIN q = 1..n
        /\ \A i \in 1..n : \E o \in RingLocal : q[i] = Ring!Start(o)
        /\ \A i, j \in 1..n : q[i] = q[j] => i = j
    <2>1. \A i \in 1..n : q[i] \in T
      BY <1>5, <1>6, <1>7 DEF Ring!Callback
    <2>2. q \in [1..n -> T]
      BY <1>5, <1>7, <2>1
    <2>3. q \in Seq(T)
      BY <1>3, <2>2
    <2>4. DOMAIN q = 1..n
      BY <2>2
    <2>5. q \o <<>> = q
      BY <2>3
    <2>6. QED
      BY <1>5, <1>7, <2>3, <2>4, <2>5
  <1>9. RingStarts(q, {}, v7)
    <2>1. ASSUME NEW o \in RingOps, NEW i \in DOMAIN q, q[i] = Ring!Start(o)
          PROVE  o \in RingLocal
      BY <1>8, <2>1, RingNames
    <2>2. QED
      BY <1>1, <1>8, <2>1 DEF RingStarts
  <1>10. RingStarts(v9 \o v10, v11, v7)
    BY <1>1, <1>7, <1>8, <1>9
  <1>11. RingOnce(v1, v2, v3)
    <2>1. PICK T1 : T1 = RingReport
      OBVIOUS
    <2>2. <<>> \in Seq(T1) /\ DOMAIN <<>> = {}
      OBVIOUS
    <2>3. QED
      BY <1>1, <2>1, <2>2 DEF RingOnce
  <1>12. RingAwaited
    BY <1>1 DEF RingAwaited, RingHas
  <1>13. Ring!TypeOK
    <2>1. v9 \in Seq(Ring!Callback)
      BY <1>7, <1>8
    <2>2. v10 \in Seq(Ring!Callback)
      BY <1>1
    <2>3. QED
      BY <1>1, <2>1, <2>2 DEF Ring!TypeOK
  <1>14. RingSlept
    BY <1>1 DEF RingSlept
  <1>15. QED
    BY <1>10, <1>11, <1>12, <1>13, <1>14 DEF RingInv

LEMMA RingStays == RingInv /\ UNCHANGED programVars => RingInv'
  BY DEF RingInv, Ring!TypeOK, RingOnce, RingStarts, RingAwaited, RingSlept, RingHas,
     programVars, After4, After5, After6, After8, After9, After10, After11, After12, After13

-----------------------------------------------------------------------------
(* The completion port.                                                    *)

\* Entry e is the completion of o.
PortIs(e, o) == e.kind = "overlapped" /\ e.of = o

\* s are the entries that were taken or are in the port, P those with the system.
PortKept(s, P, f, A) ==
    \A o \in PortOps :
        /\ f[o] = "suspended" <=> o \in P \/ \E i \in DOMAIN s : PortIs(s[i], o)
        /\ o \in P => \A i \in DOMAIN s : ~PortIs(s[i], o)
        /\ \A i, j \in DOMAIN s : PortIs(s[i], o) /\ PortIs(s[j], o) => i = j
        /\ f[o] = "stopped" => o \in A

LEMMA PortNames ==
    ASSUME NEW what, NEW x, NEW o, NEW how
    PROVE  /\ ~PortIs(Ports!Call(what, x), o)
           /\ Ports!Call(what, x).kind = "callback" /\ Ports!Call(what, x).how = what
           /\ Ports!Call(what, x).of = x
           /\ Ports!Done(o, how).kind = "overlapped" /\ Ports!Done(o, how).of = o
           /\ Ports!Done(o, how).how = how
           /\ PortIs(Ports!Done(o, how), x) <=> o = x
  BY DEF PortIs, Ports!Call, Ports!Done

\* An entry is a callback or the completion of an operation.
LEMMA PortEntries ==
    ASSUME NEW e \in Ports!Entries
    PROVE  \/ e \in Ports!Callbacks /\ e.kind = "callback" /\ e.how # "start"
              /\ \A o : ~PortIs(e, o)
           \/ \E o \in PortOps : PortIs(e, o) /\ e.kind = "overlapped" /\ e.of = o
  <1>1. CASE e \in Ports!Callbacks
    BY <1>1, PortNames DEF Ports!Callbacks
  <1>2. CASE e \notin Ports!Callbacks
    <2>1. PICK o \in PortOps : e = Ports!Done(o, "ok") \/ e = Ports!Done(o, "aborted")
      BY <1>2 DEF Ports!Entries
    <2>2. QED
      BY <2>1, PortNames
  <1>3. QED
    BY <1>1, <1>2

\* t is s without its element at k.
PortWithout(t, s, k) ==
    \E g \in [DOMAIN t -> DOMAIN s \ {k}] :
        /\ \A j \in DOMAIN t : t[j] = s[g[j]]
        /\ \A i, j \in DOMAIN t : g[i] = g[j] => i = j
        /\ \A l \in DOMAIN s \ {k} : \E j \in DOMAIN t : g[j] = l

LEMMA PortTail ==
    ASSUME NEW T, NEW s \in Seq(T), s # <<>>
    PROVE  PortWithout(Tail(s), s, 1) /\ 1 \in DOMAIN s /\ s[1] = Head(s) /\ s[1] \in T
  <1> DEFINE t == Tail(s)
             g == [j \in DOMAIN t |-> j + 1]
  <1>1. /\ Len(s) \in Nat /\ DOMAIN s = 1..Len(s) /\ DOMAIN t = 1..Len(s) - 1 /\ Len(s) > 0
        /\ \A j \in 1..Len(s) - 1 : t[j] = s[j + 1]
        /\ Head(s) = s[1] /\ s[1] \in T
    OBVIOUS
  <1> HIDE DEF t
  <1>2. \A j \in DOMAIN t : j + 1 \in DOMAIN s /\ j + 1 # 1 /\ t[j] = s[j + 1]
    BY <1>1
  <1>3. \A i, j \in DOMAIN t : i + 1 = j + 1 => i = j
    BY <1>1
  <1>4. \A l \in DOMAIN s \ {1} : l - 1 \in DOMAIN t /\ (l - 1) + 1 = l
    BY <1>1
  <1>5. g \in [DOMAIN t -> DOMAIN s \ {1}]
    BY <1>2
  <1>6. /\ \A j \in DOMAIN t : t[j] = s[g[j]]
        /\ \A i, j \in DOMAIN t : g[i] = g[j] => i = j
        /\ \A l \in DOMAIN s \ {1} : \E j \in DOMAIN t : g[j] = l
    BY <1>2, <1>3, <1>4
  <1>7. PortWithout(t, s, 1)
    BY <1>5, <1>6 DEF PortWithout
  <1>8. QED
    BY <1>1, <1>7 DEF t

\* d is c without its element at i, and s, t begin with the same n elements.
PortCut(m, n, c, l, d, i, s, t) ==
    /\ DOMAIN s = 1..n + l /\ DOMAIN t = 1..n + (l - 1)
    /\ \A j \in 1..n : s[j] = m[j] /\ t[j] = m[j]
    /\ \A j \in 1..l : s[n + j] = c[j]
    /\ \A j \in 1..l - 1 : t[n + j] = d[j]
    /\ \A j \in 1..i - 1 : d[j] = c[j]
    /\ \A j \in i..l - 1 : d[j] = c[j + 1]

LEMMA PortCutIsWithout ==
    ASSUME NEW m, NEW n \in Nat, NEW c, NEW l \in Nat, NEW d, NEW i \in 1..l, NEW s, NEW t
    PROVE  PortCut(m, n, c, l, d, i, s, t)
               => PortWithout(t, s, n + i) /\ n + i \in DOMAIN s /\ s[n + i] = c[i]
  <1>1. SUFFICES ASSUME PortCut(m, n, c, l, d, i, s, t)
                 PROVE  PortWithout(t, s, n + i) /\ n + i \in DOMAIN s /\ s[n + i] = c[i]
    OBVIOUS
  <1>2. PICK k \in Nat : k = n + i
    OBVIOUS
  <1>3. k \in DOMAIN s /\ s[k] = c[i]
    BY <1>1, <1>2 DEF PortCut
  <1>4. ASSUME NEW j \in DOMAIN t
        PROVE  \/ j < k /\ j \in DOMAIN s /\ t[j] = s[j]
               \/ ~(j < k) /\ j + 1 \in DOMAIN s /\ j + 1 # k /\ t[j] = s[j + 1]
    <2>0. j \in 1..n + (l - 1)
      BY <1>1, <1>4 DEF PortCut
    <2>1. CASE j \in 1..n
      BY <1>1, <1>2, <2>1 DEF PortCut
    <2>2. CASE j \notin 1..n
      <3>1. PICK h \in 1..l - 1 : j = n + h
        <4>1. j - n \in 1..l - 1 /\ j = n + (j - n)
          BY <2>0, <2>2
        <4>2. QED
          BY <4>1
      <3>2. t[j] = d[h]
        BY <1>1, <3>1 DEF PortCut
      <3>3. CASE h < i
        <4>1. h \in 1..i - 1 /\ h \in 1..l /\ j < k /\ j \in 1..n + l
          BY <1>2, <3>1, <3>3
        <4>2. QED
          BY <1>1, <3>1, <3>2, <4>1 DEF PortCut
      <3>4. CASE ~(h < i)
        <4>1. /\ h \in i..l - 1 /\ h + 1 \in 1..l /\ ~(j < k) /\ j + 1 = n + (h + 1)
              /\ j + 1 \in 1..n + l /\ j + 1 # k
          BY <1>2, <3>1, <3>4
        <4>2. s[j + 1] = c[h + 1] /\ d[h] = c[h + 1]
          BY <1>1, <4>1 DEF PortCut
        <4>3. QED
          BY <1>1, <3>2, <4>1, <4>2 DEF PortCut
      <3>5. QED
        BY <3>3, <3>4
    <2>3. QED
      BY <2>1, <2>2
  <1> DEFINE g == [j \in DOMAIN t |-> IF j < k THEN j ELSE j + 1]
  <1>5. DOMAIN t \subseteq Nat /\ DOMAIN s = 1..n + l /\ DOMAIN t = 1..n + (l - 1)
    BY <1>1 DEF PortCut
  <1>6. g \in [DOMAIN t -> DOMAIN s \ {k}]
    <2>1. ASSUME NEW j \in DOMAIN t
          PROVE  (IF j < k THEN j ELSE j + 1) \in DOMAIN s \ {k}
      <3>1. j \in Nat
        BY <1>5
      <3>2. QED
        BY <1>4, <3>1
    <2>2. QED
      BY <2>1
  <1>7. \A j \in DOMAIN t : t[j] = s[g[j]]
    BY <1>4
  <1>8. \A h, j \in DOMAIN t : g[h] = g[j] => h = j
    BY <1>5
  <1>9. ASSUME NEW h \in DOMAIN s \ {k} PROVE \E j \in DOMAIN t : g[j] = h
    <2>1. CASE h < k
      <3>1. h \in DOMAIN t
        BY <1>2, <1>5, <2>1
      <3>2. QED
        BY <2>1, <3>1
    <2>2. CASE ~(h < k)
      <3>1. h - 1 \in DOMAIN t /\ ~(h - 1 < k) /\ (h - 1) + 1 = h
        BY <1>2, <1>5, <2>2
      <3>2. QED
        BY <3>1
    <2>3. QED
      BY <2>1, <2>2
  <1>10. PortWithout(t, s, k)
    BY <1>6, <1>7, <1>8, <1>9 DEF PortWithout
  <1>11. QED
    BY <1>2, <1>3, <1>10

LEMMA PortJoin ==
    ASSUME NEW T, NEW a \in Seq(T), NEW b \in Seq(T), NEW n, NEW l, NEW c,
           n = Len(a), l = Len(b), c = a \o b
    PROVE  /\ c \in Seq(T) /\ DOMAIN c = 1..n + l /\ n \in Nat /\ l \in Nat
           /\ \A h \in 1..n : c[h] = a[h]
           /\ \A h \in 1..l : c[n + h] = b[h]
  OBVIOUS

\* An entry is taken back from the port, in front of which those in m are.
LEMMA PortErase ==
    ASSUME NEW T, NEW m \in Seq(T), NEW c \in Seq(T), NEW i \in DOMAIN c
    PROVE  \E d \in Seq(T), k \in DOMAIN (m \o c) :
               /\ d = SubSeq(c, 1, i - 1) \o SubSeq(c, i + 1, Len(c))
               /\ (m \o c)[k] = c[i]
               /\ PortWithout(m \o d, m \o c, k)
  <1>1. Len(c) \in Nat /\ Len(m) \in Nat /\ i \in 1..Len(c)
    OBVIOUS
  <1>2. PICK l \in Nat, n \in Nat : l = Len(c) /\ n = Len(m)
    BY <1>1
  <1>3. i \in 1..l
    BY <1>1, <1>2
  <1>4. /\ QtTimers!Erase(c, i) \in Seq(T)
        /\ Len(QtTimers!Erase(c, i)) = Len(c) - 1
        /\ \A j \in 1..i - 1 : QtTimers!Erase(c, i)[j] = c[j]
        /\ \A j \in i..Len(c) - 1 : QtTimers!Erase(c, i)[j] = c[j + 1]
    BY <1>1, ProgramsAssumption, QtTimers!EraseIs
  <1>5. PICK d \in Seq(T) : /\ d = SubSeq(c, 1, i - 1) \o SubSeq(c, i + 1, Len(c))
                            /\ Len(d) = Len(c) - 1
                            /\ \A j \in 1..i - 1 : d[j] = c[j]
                            /\ \A h \in i..Len(c) - 1 : d[h] = c[h + 1]
    <2>1. PICK d : d = QtTimers!Erase(c, i)
      OBVIOUS
    <2>2. d = SubSeq(c, 1, i - 1) \o SubSeq(c, i + 1, Len(c))
      BY <2>1 DEF QtTimers!Erase
    <2>3. QED
      BY <1>4, <2>1, <2>2
  <1>6. PICK s, t : s = m \o c /\ t = m \o d
    OBVIOUS
  <1>7. /\ DOMAIN s = 1..n + l
        /\ \A h \in 1..n : s[h] = m[h]
        /\ \A h \in 1..l : s[n + h] = c[h]
    BY <1>2, <1>6, PortJoin
  <1>8. /\ DOMAIN t = 1..n + (l - 1)
        /\ \A h \in 1..n : t[h] = m[h]
        /\ \A h \in 1..l - 1 : t[n + h] = d[h]
    <2>1. PICK k : k = l - 1
      OBVIOUS
    <2>2. k = Len(d)
      BY <1>2, <1>5, <2>1
    <2>3. /\ DOMAIN t = 1..n + k
          /\ \A h \in 1..n : t[h] = m[h]
          /\ \A h \in 1..k : t[n + h] = d[h]
      BY <1>2, <1>6, <2>2, PortJoin
    <2>4. QED
      BY <2>1, <2>3
  <1>9. PortCut(m, n, c, l, d, i, s, t)
    BY <1>2, <1>5, <1>7, <1>8 DEF PortCut
  <1>10. PortWithout(t, s, n + i) /\ n + i \in DOMAIN s /\ s[n + i] = c[i]
    BY <1>3, <1>9, PortCutIsWithout
  <1>11. QED
    BY <1>5, <1>6, <1>10

-----------------------------------------------------------------------------
(* What a step does to the entries.                                        *)

LEMMA PortLessCallback ==
    ASSUME NEW s, NEW t, NEW k \in DOMAIN s, NEW P, NEW f, NEW A
    PROVE  PortWithout(t, s, k) /\ (\A o : ~PortIs(s[k], o)) /\ PortKept(s, P, f, A)
               => PortKept(t, P, f, A)
  <1>1. SUFFICES ASSUME PortWithout(t, s, k), \A o : ~PortIs(s[k], o), PortKept(s, P, f, A),
                        NEW o \in PortOps
                 PROVE  /\ f[o] = "suspended" <=> o \in P \/ \E i \in DOMAIN t : PortIs(t[i], o)
                        /\ o \in P => \A i \in DOMAIN t : ~PortIs(t[i], o)
                        /\ \A i, j \in DOMAIN t : PortIs(t[i], o) /\ PortIs(t[j], o) => i = j
                        /\ f[o] = "stopped" => o \in A
    BY Zenon DEF PortKept
  <1>2. PICK g \in [DOMAIN t -> DOMAIN s \ {k}] :
            /\ \A j \in DOMAIN t : t[j] = s[g[j]]
            /\ \A i, j \in DOMAIN t : g[i] = g[j] => i = j
            /\ \A l \in DOMAIN s \ {k} : \E j \in DOMAIN t : g[j] = l
    BY <1>1 DEF PortWithout
  <1>3. /\ f[o] = "suspended" <=> o \in P \/ \E i \in DOMAIN s : PortIs(s[i], o)
        /\ o \in P => \A i \in DOMAIN s : ~PortIs(s[i], o)
        /\ \A i, j \in DOMAIN s : PortIs(s[i], o) /\ PortIs(s[j], o) => i = j
        /\ f[o] = "stopped" => o \in A
    BY <1>1, Zenon DEF PortKept
  <1>4. \A j \in DOMAIN t : g[j] \in DOMAIN s
    BY <1>2
  <1>5. (\E i \in DOMAIN s : PortIs(s[i], o)) => \E i \in DOMAIN t : PortIs(t[i], o)
    BY <1>1, <1>2
  <1>6. QED
    BY <1>2, <1>3, <1>4, <1>5

\* h is f but for o.
PortBut(h, f, o) == \A x \in PortOps : x # o => h[x] = f[x]

LEMMA PortLessDone ==
    ASSUME NEW s, NEW t, NEW k \in DOMAIN s, NEW P, NEW f, NEW A, NEW o \in PortOps, NEW h
    PROVE  (/\ PortWithout(t, s, k) /\ PortIs(s[k], o) /\ PortKept(s, P, f, A)
            /\ PortBut(h, f, o) /\ h[o] \in {"resumed", "stopped"} /\ (h[o] = "stopped" => o \in A))
               => o \notin P /\ PortKept(t, P, h, A)
  <1>1. SUFFICES ASSUME PortWithout(t, s, k), PortIs(s[k], o), PortKept(s, P, f, A),
                        PortBut(h, f, o), h[o] \in {"resumed", "stopped"},
                        h[o] = "stopped" => o \in A
                 PROVE  o \notin P /\ PortKept(t, P, h, A)
    BY Zenon
  <1>2. PICK g \in [DOMAIN t -> DOMAIN s \ {k}] :
            /\ \A j \in DOMAIN t : t[j] = s[g[j]]
            /\ \A i, j \in DOMAIN t : g[i] = g[j] => i = j
            /\ \A l \in DOMAIN s \ {k} : \E j \in DOMAIN t : g[j] = l
    BY <1>1 DEF PortWithout
  <1>3. \A j \in DOMAIN t : g[j] \in DOMAIN s /\ g[j] # k
    BY <1>2
  <1>4. /\ o \in P => \A i \in DOMAIN s : ~PortIs(s[i], o)
        /\ \A i, j \in DOMAIN s : PortIs(s[i], o) /\ PortIs(s[j], o) => i = j
    BY <1>1, Zenon DEF PortKept
  <1>5. o \notin P /\ \A j \in DOMAIN t : ~PortIs(t[j], o)
    BY <1>1, <1>2, <1>3, <1>4
  <1>6. ASSUME NEW x \in PortOps, x # o
        PROVE  /\ h[x] = "suspended" <=> x \in P \/ \E i \in DOMAIN t : PortIs(t[i], x)
               /\ x \in P => \A i \in DOMAIN t : ~PortIs(t[i], x)
               /\ \A i, j \in DOMAIN t : PortIs(t[i], x) /\ PortIs(t[j], x) => i = j
               /\ h[x] = "stopped" => x \in A
    <2>1. /\ f[x] = "suspended" <=> x \in P \/ \E i \in DOMAIN s : PortIs(s[i], x)
          /\ x \in P => \A i \in DOMAIN s : ~PortIs(s[i], x)
          /\ \A i, j \in DOMAIN s : PortIs(s[i], x) /\ PortIs(s[j], x) => i = j
          /\ f[x] = "stopped" => x \in A
      BY <1>1, Zenon DEF PortKept
    <2>2. h[x] = f[x] /\ ~PortIs(s[k], x)
      BY <1>1, <1>6 DEF PortBut, PortIs
    <2>3. (\E i \in DOMAIN s : PortIs(s[i], x)) => \E i \in DOMAIN t : PortIs(t[i], x)
      BY <1>2, <2>2
    <2>4. QED
      BY <1>2, <1>3, <2>1, <2>2, <2>3
  <1>7. PortKept(t, P, h, A)
    BY <1>1, <1>5, <1>6 DEF PortKept
  <1>8. QED
    BY <1>5, <1>7

\* A coroutine is suspended with the operation, does it at once, or is stopped by the
\* request that takes the operation back.
LEMMA PortMoves ==
    ASSUME NEW s, NEW P, NEW f, NEW A, NEW o \in PortOps, NEW h, NEW Q
    PROVE  (/\ PortKept(s, P, f, A) /\ PortBut(h, f, o)
            /\ \/ f[o] = "new" /\ h[o] = "suspended" /\ Q = P \cup {o}
               \/ f[o] = "new" /\ h[o] = "resumed" /\ Q = P
               \/ f[o] = "new" /\ h[o] = "stopped" /\ Q = P /\ o \in A
               \/ o \in P /\ h[o] = "stopped" /\ Q = P \ {o} /\ o \in A)
               => PortKept(s, Q, h, A)
  <1>1. SUFFICES ASSUME PortKept(s, P, f, A), PortBut(h, f, o),
                        \/ f[o] = "new" /\ h[o] = "suspended" /\ Q = P \cup {o}
                        \/ f[o] = "new" /\ h[o] = "resumed" /\ Q = P
                        \/ f[o] = "new" /\ h[o] = "stopped" /\ Q = P /\ o \in A
                        \/ o \in P /\ h[o] = "stopped" /\ Q = P \ {o} /\ o \in A
                 PROVE  PortKept(s, Q, h, A)
    BY Zenon
  <1>2. ASSUME NEW x \in PortOps
        PROVE  /\ h[x] = "suspended" <=> x \in Q \/ \E i \in DOMAIN s : PortIs(s[i], x)
               /\ x \in Q => \A i \in DOMAIN s : ~PortIs(s[i], x)
               /\ \A i, j \in DOMAIN s : PortIs(s[i], x) /\ PortIs(s[j], x) => i = j
               /\ h[x] = "stopped" => x \in A
    <2>1. /\ f[x] = "suspended" <=> x \in P \/ \E i \in DOMAIN s : PortIs(s[i], x)
          /\ x \in P => \A i \in DOMAIN s : ~PortIs(s[i], x)
          /\ \A i, j \in DOMAIN s : PortIs(s[i], x) /\ PortIs(s[j], x) => i = j
          /\ f[x] = "stopped" => x \in A
      BY <1>1, Zenon DEF PortKept
    <2>2. CASE x = o
      BY <1>1, <2>1, <2>2
    <2>3. CASE x # o
      <3>1. h[x] = f[x] /\ (x \in Q <=> x \in P)
        BY <1>1, <2>3 DEF PortBut
      <3>2. QED
        BY <2>1, <3>1, Zenon
    <2>4. QED
      BY <2>2, <2>3
  <1>3. QED
    BY <1>2, Zenon DEF PortKept

LEMMA PortAsks ==
    ASSUME NEW s, NEW P, NEW f, NEW A, NEW B
    PROVE  PortKept(s, P, f, A) /\ A \subseteq B => PortKept(s, P, f, B)
  BY DEF PortKept

\* t is s and one entry more.
PortMore(t, s, e) ==
    \E n \in Nat : /\ DOMAIN s = 1..n /\ DOMAIN t = 1..n + 1 /\ t[n + 1] = e
                   /\ \A j \in 1..n : t[j] = s[j]

LEMMA PortMoreCallback ==
    ASSUME NEW s, NEW t, NEW e, NEW P, NEW f, NEW A
    PROVE  PortMore(t, s, e) /\ (\A o : ~PortIs(e, o)) /\ PortKept(s, P, f, A)
               => PortKept(t, P, f, A)
  <1>1. SUFFICES ASSUME PortMore(t, s, e), \A o : ~PortIs(e, o), PortKept(s, P, f, A)
                 PROVE  PortKept(t, P, f, A)
    BY Zenon
  <1>2. PICK n \in Nat : /\ DOMAIN s = 1..n /\ DOMAIN t = 1..n + 1 /\ t[n + 1] = e
                         /\ \A j \in 1..n : t[j] = s[j]
    BY <1>1 DEF PortMore
  <1>3. /\ \A j \in DOMAIN s : j \in DOMAIN t /\ t[j] = s[j]
        /\ \A j \in DOMAIN t : j \in DOMAIN s \/ t[j] = e
    BY <1>2
  <1>4. ASSUME NEW o \in PortOps
        PROVE  /\ \A j \in DOMAIN t : PortIs(t[j], o) => j \in DOMAIN s /\ PortIs(s[j], o)
               /\ \A j \in DOMAIN s : PortIs(s[j], o) => j \in DOMAIN t /\ PortIs(t[j], o)
    BY <1>1, <1>3
  <1>5. QED
    BY <1>1, <1>4 DEF PortKept

LEMMA PortMoreDone ==
    ASSUME NEW s, NEW t, NEW e, NEW P, NEW f, NEW A, NEW o \in PortOps
    PROVE  PortMore(t, s, e) /\ (\A x : PortIs(e, x) <=> o = x) /\ o \in P /\ PortKept(s, P, f, A)
               => PortKept(t, P \ {o}, f, A)
  <1>1. SUFFICES ASSUME PortMore(t, s, e), \A x : PortIs(e, x) <=> o = x, o \in P,
                        PortKept(s, P, f, A)
                 PROVE  PortKept(t, P \ {o}, f, A)
    BY Zenon
  <1>2. PICK n \in Nat : /\ DOMAIN s = 1..n /\ DOMAIN t = 1..n + 1 /\ t[n + 1] = e
                         /\ \A j \in 1..n : t[j] = s[j]
    BY <1>1 DEF PortMore
  <1>3. PICK k : k = n + 1
    OBVIOUS
  <1>4. /\ \A j \in DOMAIN s : j \in DOMAIN t /\ t[j] = s[j]
        /\ \A j \in DOMAIN t : j \in DOMAIN s \/ j = k
        /\ k \in DOMAIN t /\ t[k] = e
    BY <1>2, <1>3
  <1>5. ASSUME NEW x \in PortOps
        PROVE  /\ f[x] = "suspended" <=> x \in P \ {o} \/ \E i \in DOMAIN t : PortIs(t[i], x)
               /\ x \in P \ {o} => \A i \in DOMAIN t : ~PortIs(t[i], x)
               /\ \A i, j \in DOMAIN t : PortIs(t[i], x) /\ PortIs(t[j], x) => i = j
               /\ f[x] = "stopped" => x \in A
    <2>1. /\ f[x] = "suspended" <=> x \in P \/ \E i \in DOMAIN s : PortIs(s[i], x)
          /\ x \in P => \A i \in DOMAIN s : ~PortIs(s[i], x)
          /\ \A i, j \in DOMAIN s : PortIs(s[i], x) /\ PortIs(s[j], x) => i = j
          /\ f[x] = "stopped" => x \in A
      BY <1>1, Zenon DEF PortKept
    <2>2. CASE x = o
      <3>1. \A j \in DOMAIN t : PortIs(t[j], x) <=> j = k
        BY <1>1, <1>4, <2>1, <2>2
      <3>2. QED
        BY <1>1, <1>4, <2>1, <2>2, <3>1
    <2>3. CASE x # o
      <3>1. /\ \A j \in DOMAIN t : PortIs(t[j], x) => j \in DOMAIN s /\ PortIs(s[j], x)
            /\ \A j \in DOMAIN s : PortIs(s[j], x) => j \in DOMAIN t /\ PortIs(t[j], x)
        BY <1>1, <1>4, <2>3
      <3>2. QED
        BY <2>1, <2>3, <3>1
    <2>4. QED
      BY <2>2, <2>3
  <1>6. QED
    BY <1>5, Zenon DEF PortKept

-----------------------------------------------------------------------------
(* A callback is called.                                                   *)

PortNow(m) == PortKept(m \o v1, v2, v6, v7)

PortTyped ==
    /\ v1 \in Seq(Ports!Entries) /\ v2 \subseteq PortOps /\ v7 \subseteq PortOps
    /\ v6 \in [PortOps -> {"new", "suspended", "resumed", "stopped"}]

PortCallable == Ports!Callbacks \cup {Ports!Call("start", o) : o \in PortOps}

LEMMA PortCalls ==
    ASSUME NEW call \in PortCallable
    PROVE  /\ call.how \in {"start", "request"} => call.of \in PortOps
           /\ call.how = "start" => call = Ports!Call("start", call.of)
           /\ \A o : ~PortIs(call, o)
  <1>1. \/ \E o \in PortOps : call = Ports!Call("start", o) \/ call = Ports!Call("request", o)
        \/ \E d : call = Ports!Call("nest", d) \/ call = Ports!Call("end", d)
    BY DEF PortCallable, Ports!Callbacks
  <1>2. QED
    BY <1>1, PortNames

\* What the call of start and request leaves.
PortCalled(m, call) ==
    /\ PortTyped' /\ PortNow(m)'
    /\ \A x \in PortOps : v6[x] = "new" => v6'[x] = "new" \/ call = Ports!Call("start", x)

LEMMA PortStart ==
    ASSUME NEW m, NEW o \in PortOps, m \in Seq(Ports!Entries), PortTyped, PortNow(m),
           v6[o] = "new", Ports!Start(o)
    PROVE  PortCalled(m, Ports!Call("start", o))
  <1>1. v7' = v7 /\ v1' = v1
    BY DEF Ports!Start, Ports!WaitObject, Ports!Submit, Ports!AtOnce, Ports!Pends
  <1>2. PICK w \in {"suspended", "resumed", "stopped"} :
            /\ v6' = [v6 EXCEPT ![o] = w]
            /\ v2' = IF w = "suspended" THEN v2 \cup {o} ELSE v2
            /\ w = "stopped" => o \in v7
    BY Zenon DEF Ports!Start, Ports!WaitObject, Ports!Submit, Ports!AtOnce, Ports!Pends
  <1>3. /\ v6'[o] = w /\ PortBut(v6', v6, o)
        /\ v6' \in [PortOps -> {"new", "suspended", "resumed", "stopped"}]
    BY <1>2 DEF PortTyped, PortBut
  <1>4. PICK s, P, f, A, h, Q : /\ s = m \o v1 /\ P = v2 /\ f = v6 /\ A = v7
                                /\ h = v6' /\ Q = v2'
    OBVIOUS
  <1>5. PortKept(s, Q, h, A)
    BY <1>2, <1>3, <1>4, PortMoves DEF PortNow
  <1>6. PortNow(m)'
    BY <1>1, <1>4, <1>5 DEF PortNow
  <1>7. PortTyped'
    BY <1>1, <1>2, <1>3 DEF PortTyped
  <1>8. \A x \in PortOps : v6[x] = "new" => v6'[x] = "new" \/ x = o
    BY <1>3 DEF PortBut
  <1>9. QED
    BY <1>6, <1>7, <1>8 DEF PortCalled

LEMMA PortRequest ==
    ASSUME NEW m, NEW o \in PortOps, m \in Seq(Ports!Entries), PortTyped, PortNow(m),
           Ports!Request(o)
    PROVE  PortCalled(m, Ports!Call("request", o))
  <1>1. v7' = v7 \cup {o}
    BY DEF Ports!Request
  <1>2. PICK s, P, f, A, h, Q, B, c, t : /\ s = m \o v1 /\ P = v2 /\ f = v6 /\ A = v7
                                         /\ h = v6' /\ Q = v2' /\ B = v7' /\ c = v1
                                         /\ t = m \o v1'
    OBVIOUS
  <1>3. PortKept(s, P, f, B)
    <2>1. PortKept(s, P, f, A) /\ A \subseteq B
      BY <1>1, <1>2 DEF PortNow
    <2>2. QED
      BY <2>1, PortAsks
  <1>4. CASE UNCHANGED <<v1, v2, v6>>
    BY <1>1, <1>2, <1>3, <1>4 DEF PortCalled, PortNow, PortTyped
  <1>5. CASE ~UNCHANGED <<v1, v2, v6>>
    <2>1. /\ o \in v2 \/ Ports!Reported(o)
          /\ v6[o] = "suspended" /\ v6' = [v6 EXCEPT ![o] = "stopped"] /\ Ports!TakeBack(o)
      BY <1>5, Zenon DEF Ports!Request, Ports!Cancel
    <2>2. /\ h[o] = "stopped" /\ PortBut(h, f, o) /\ o \in B
          /\ h \in [PortOps -> {"new", "suspended", "resumed", "stopped"}]
          /\ Q = P \ {o}
      BY <1>1, <1>2, <2>1 DEF PortTyped, PortBut, Ports!TakeBack
    <2>3. PortKept(t, Q, h, B) /\ v1' \in Seq(Ports!Entries)
      <3>1. CASE ~Ports!Reported(o)
        <4>1. o \in P /\ t = s /\ v1' = v1
          BY <1>2, <2>1, <3>1 DEF Ports!TakeBack
        <4>2. QED
          BY <1>3, <2>2, <4>1, PortMoves DEF PortTyped
      <3>2. CASE Ports!Reported(o)
        <4>1. PICK i \in DOMAIN c :
                  /\ c[i] = Ports!Done(o, "ok")
                  /\ v1' = SubSeq(c, 1, i - 1) \o SubSeq(c, i + 1, Len(c))
          BY <1>2, <2>1, <3>2 DEF Ports!TakeBack
        <4>2. PICK T : T = Ports!Entries
          OBVIOUS
        <4>3. m \in Seq(T) /\ c \in Seq(T)
          BY <1>2, <4>2 DEF PortTyped
        <4>4. PICK d \in Seq(T), k \in DOMAIN (m \o c) :
                  /\ d = SubSeq(c, 1, i - 1) \o SubSeq(c, i + 1, Len(c))
                  /\ (m \o c)[k] = c[i]
                  /\ PortWithout(m \o d, m \o c, k)
          BY <4>3, PortErase
        <4>5. /\ k \in DOMAIN s /\ PortIs(s[k], o) /\ PortWithout(t, s, k)
              /\ v1' \in Seq(Ports!Entries)
          <5>1. v1' = d
            BY <4>1, <4>4
          <5>2. s = m \o c /\ t = m \o d
            BY <1>2, <5>1
          <5>3. PortIs(c[i], o)
            BY <4>1 DEF PortIs, Ports!Done
          <5>4. QED
            BY <4>2, <4>4, <5>1, <5>2, <5>3
        <4>6. o \notin P /\ PortKept(t, P, h, B)
          BY <1>3, <2>2, <4>5, PortLessDone
        <4>7. Q = P
          BY <2>2, <4>6
        <4>8. QED
          BY <4>5, <4>6, <4>7
      <3>3. QED
        BY <3>1, <3>2
    <2>4. PortNow(m)'
      BY <1>2, <2>3 DEF PortNow
    <2>5. PortTyped'
      BY <1>1, <1>2, <2>2, <2>3 DEF PortTyped
    <2>6. \A x \in PortOps : v6[x] = "new" => v6'[x] = "new"
      BY <1>2, <2>1, <2>2 DEF PortBut
    <2>7. QED
      BY <2>4, <2>5, <2>6 DEF PortCalled
  <1>6. QED
    BY <1>4, <1>5

LEMMA PortInvokes ==
    ASSUME NEW m, NEW call \in PortCallable, m \in Seq(Ports!Entries), PortTyped, PortNow(m),
           call.how = "start" => v6[call.of] = "new", Ports!Invoke(call)
    PROVE  PortCalled(m, call)
  <1>1. CASE call.how = "start" /\ Ports!Start(call.of)
    <2>1. PICK o \in PortOps : o = call.of /\ call = Ports!Call("start", o)
      BY <1>1, PortCalls
    <2>2. QED
      BY <1>1, <2>1, PortStart
  <1>2. CASE call.how = "request" /\ Ports!Request(call.of)
    <2>1. PICK o \in PortOps : o = call.of
      BY <1>2, PortCalls
    <2>2. PortCalled(m, Ports!Call("request", o))
      BY <1>2, <2>1, PortRequest
    <2>3. \A x : Ports!Call("request", o) # Ports!Call("start", x)
      BY DEF Ports!Call
    <2>4. QED
      BY <2>2, <2>3 DEF PortCalled
  <1>3. CASE UNCHANGED <<v1, v2, v6, v7>>
    BY <1>3 DEF PortCalled, PortTyped, PortNow
  <1>4. QED
    BY <1>1, <1>2, <1>3, Zenon DEF Ports!Invoke

-----------------------------------------------------------------------------
(* The loop, the other threads and the system.                             *)

\* A coroutine whose start is still to be called was not started, and is started once.
PortStarts(c, f) ==
    \A o \in PortOps : \A i \in DOMAIN c :
        c[i] = Ports!Call("start", o) =>
            f[o] = "new" /\ \A j \in DOMAIN c : c[j] = Ports!Call("start", o) => i = j

PortInv == Ports!TypeOK /\ PortNow(v3) /\ PortStarts(v4, v6)

LEMMA PortInvIs ==
    /\ Ports!TypeOK <=> PortTyped /\ v3 \in Seq(Ports!Entries) /\ v4 \in Seq(PortCallable)
    /\ PortStarts(v4, v6) <=> Ports!StartsOnce
    /\ PortTyped' /\ v3' \in Seq(Ports!Entries) /\ v4' \in Seq(PortCallable) => Ports!TypeOK'
  BY DEF Ports!TypeOK, PortTyped, PortCallable, PortStarts, Ports!StartsOnce

LEMMA PortAppend ==
    ASSUME NEW T, NEW m \in Seq(T), NEW c \in Seq(T), NEW e \in T
    PROVE  PortMore(m \o Append(c, e), m \o c, e) /\ Append(c, e) \in Seq(T)
  <1>1. PICK d : d = Append(c, e)
    OBVIOUS
  <1>2. /\ d \in Seq(T) /\ Len(d) = Len(c) + 1 /\ d[Len(c) + 1] = e
        /\ \A j \in 1..Len(c) : d[j] = c[j]
    BY <1>1
  <1>3. PICK l \in Nat, n \in Nat : l = Len(c) /\ n = Len(m)
    OBVIOUS
  <1>4. PICK s, t : s = m \o c /\ t = m \o d
    OBVIOUS
  <1>5. /\ DOMAIN s = 1..n + l
        /\ \A j \in 1..n : s[j] = m[j]
        /\ \A j \in 1..l : s[n + j] = c[j]
    BY <1>3, <1>4, PortJoin
  <1>6. /\ DOMAIN t = 1..n + (l + 1)
        /\ \A j \in 1..n : t[j] = m[j]
        /\ \A j \in 1..l + 1 : t[n + j] = d[j]
    <2>1. PICK k : k = l + 1
      OBVIOUS
    <2>2. d \in Seq(T) /\ k = Len(d)
      BY <1>2, <1>3, <2>1
    <2>3. /\ DOMAIN t = 1..n + k
          /\ \A h \in 1..n : t[h] = m[h]
          /\ \A h \in 1..k : t[n + h] = d[h]
      BY <1>3, <1>4, <2>2, PortJoin
    <2>4. QED
      BY <2>1, <2>3
  <1>7. t[n + (l + 1)] = e
    BY <1>2, <1>3, <1>6
  <1>8. ASSUME NEW j \in 1..n + l PROVE t[j] = s[j]
    <2>1. CASE j \in 1..n
      BY <1>5, <1>6, <2>1
    <2>2. CASE j \notin 1..n
      <3>1. j - n \in 1..l /\ j - n \in 1..l + 1 /\ j = n + (j - n)
        BY <2>2
      <3>2. s[j] = c[j - n] /\ t[j] = d[j - n] /\ d[j - n] = c[j - n]
        BY <1>2, <1>3, <1>5, <1>6, <3>1
      <3>3. QED
        BY <3>2
    <2>3. QED
      BY <2>1, <2>2
  <1>9. n + l \in Nat /\ n + (l + 1) = (n + l) + 1
    OBVIOUS
  <1>10. PortMore(t, s, e)
    BY <1>5, <1>6, <1>7, <1>8, <1>9 DEF PortMore
  <1>11. QED
    BY <1>1, <1>2, <1>4, <1>10

LEMMA PortPost ==
    ASSUME PortInv, NEW call \in Ports!Calls, Ports!Post(call)
    PROVE  PortInv'
  <1>1. /\ v1' = Append(v1, call) /\ v2' = v2 /\ v3' = v3 /\ v4' = v4 /\ v6' = v6 /\ v7' = v7
    BY DEF Ports!Post
  <1>2. call \in Ports!Callbacks
    BY DEF Ports!Calls, Ports!Callbacks
  <1>3. PICK T, m, c, s, t, P, f, A : /\ T = Ports!Entries /\ m = v3 /\ c = v1 /\ s = m \o c
                                      /\ t = m \o Append(c, call)
                                      /\ P = v2 /\ f = v6 /\ A = v7
    OBVIOUS
  <1>4. PortTyped /\ v3 \in Seq(Ports!Entries) /\ v4 \in Seq(PortCallable)
    BY PortInvIs DEF PortInv
  <1>5. m \in Seq(T) /\ c \in Seq(T) /\ call \in T
    BY <1>2, <1>3, <1>4 DEF PortTyped, Ports!Entries
  <1>6. PortMore(t, s, call) /\ v1' \in Seq(T)
    BY <1>1, <1>3, <1>5, PortAppend
  <1>7. PortKept(s, P, f, A)
    BY <1>3 DEF PortInv, PortNow
  <1>8. \A o : ~PortIs(call, o)
    BY <1>2, PortCalls DEF PortCallable
  <1>9. PortKept(t, P, f, A)
    BY <1>6, <1>7, <1>8, PortMoreCallback
  <1>10. PortNow(v3)' /\ PortTyped'
    BY <1>1, <1>3, <1>4, <1>6, <1>9 DEF PortNow, PortTyped
  <1>11. QED
    BY <1>1, <1>4, <1>10, PortInvIs DEF PortInv

LEMMA PortFinish ==
    ASSUME PortInv, NEW o \in PortOps, NEW how \in {"ok", "aborted"}, Ports!Finish(o, how)
    PROVE  PortInv'
  <1>1. /\ o \in v2 /\ (how = "aborted" => o \notin PortPackets)
        /\ v1' = Append(v1, Ports!Done(o, how)) /\ v2' = v2 \ {o}
        /\ v3' = v3 /\ v4' = v4 /\ v6' = v6 /\ v7' = v7
    BY DEF Ports!Finish
  <1>2. PICK e : e = Ports!Done(o, how)
    OBVIOUS
  <1>3. PICK T, m, c, s, t, P, f, A : /\ T = Ports!Entries /\ m = v3 /\ c = v1 /\ s = m \o c
                                      /\ t = m \o Append(c, e)
                                      /\ P = v2 /\ f = v6 /\ A = v7
    OBVIOUS
  <1>4. PortTyped /\ v3 \in Seq(Ports!Entries) /\ v4 \in Seq(PortCallable)
    BY PortInvIs DEF PortInv
  <1>5. m \in Seq(T) /\ c \in Seq(T) /\ e \in T
    BY <1>1, <1>2, <1>3, <1>4 DEF PortTyped, Ports!Entries
  <1>6. PortMore(t, s, e) /\ v1' \in Seq(T)
    BY <1>1, <1>2, <1>3, <1>5, PortAppend
  <1>7. PortKept(s, P, f, A)
    BY <1>3 DEF PortInv, PortNow
  <1>8. \A x : PortIs(e, x) <=> o = x
    BY <1>2, PortNames
  <1>9. PortKept(t, P \ {o}, f, A)
    BY <1>1, <1>3, <1>6, <1>7, <1>8, PortMoreDone
  <1>10. PortNow(v3)' /\ PortTyped'
    BY <1>1, <1>2, <1>3, <1>4, <1>6, <1>9 DEF PortNow, PortTyped
  <1>11. QED
    BY <1>1, <1>4, <1>10, PortInvIs DEF PortInv

LEMMA PortStartsTail ==
    ASSUME NEW T, NEW c \in Seq(T), c # <<>>, NEW f, NEW h, PortStarts(c, f),
           \A o \in PortOps : f[o] = "new" => h[o] = "new" \/ c[1] = Ports!Call("start", o)
    PROVE  PortStarts(Tail(c), h)
  <1>1. PICK d \in Seq(T) : /\ d = Tail(c)
                            /\ \A i \in DOMAIN d : /\ i + 1 \in DOMAIN c /\ d[i] = c[i + 1]
                                                   /\ i + 1 # 1 /\ i \in Nat
                            /\ 1 \in DOMAIN c
    <2>1. /\ Tail(c) \in Seq(T) /\ Len(c) \in Nat /\ DOMAIN c = 1..Len(c) /\ Len(c) > 0
          /\ DOMAIN Tail(c) = 1..Len(c) - 1
          /\ \A i \in 1..Len(c) - 1 : Tail(c)[i] = c[i + 1]
      OBVIOUS
    <2>2. PICK d : d = Tail(c)
      OBVIOUS
    <2>3. \A i \in DOMAIN d : /\ i + 1 \in DOMAIN c /\ d[i] = c[i + 1]
                              /\ i + 1 # 1 /\ i \in Nat
      BY <2>1, <2>2
    <2>4. 1 \in DOMAIN c
      BY <2>1
    <2>5. QED
      BY <2>1, <2>2, <2>3, <2>4
  <1>2. ASSUME NEW o \in PortOps, NEW i \in DOMAIN d, d[i] = Ports!Call("start", o)
        PROVE  h[o] = "new" /\ \A j \in DOMAIN d : d[j] = Ports!Call("start", o) => i = j
    <2>1. PICK k \in DOMAIN c : k = i + 1 /\ k # 1 /\ c[k] = Ports!Call("start", o) /\ i \in Nat
      BY <1>1, <1>2
    <2>2. f[o] = "new" /\ \A j \in DOMAIN c : c[j] = Ports!Call("start", o) => k = j
      BY <2>1 DEF PortStarts
    <2>3. h[o] = "new"
      BY <1>1, <2>1, <2>2
    <2>4. ASSUME NEW j \in DOMAIN d, d[j] = Ports!Call("start", o) PROVE i = j
      <3>1. k = j + 1 /\ j \in Nat
        BY <1>1, <2>2, <2>4
      <3>2. QED
        BY <2>1, <3>1
    <2>5. QED
      BY <2>3, <2>4
  <1>3. PortStarts(d, h)
    BY <1>2 DEF PortStarts
  <1>4. QED
    BY <1>1, <1>3

LEMMA PortStartsKept ==
    ASSUME NEW c, NEW f, NEW h, PortStarts(c, f), \A o \in PortOps : f[o] = "new" => h[o] = "new"
    PROVE  PortStarts(c, h)
  BY DEF PortStarts

LEMMA PortDrain ==
    ASSUME PortInv, Ports!Drain
    PROVE  PortInv'
  <1>1. v4 # <<>> /\ v4' = Tail(v4) /\ v3' = v3 /\ Ports!Invoke(Head(v4))
    BY DEF Ports!Drain
  <1>2. PICK T, m, c, call, f, h : /\ T = PortCallable /\ m = v3 /\ c = v4 /\ call = Head(c)
                                   /\ f = v6 /\ h = v6'
    OBVIOUS
  <1>3. PortTyped /\ v3 \in Seq(Ports!Entries) /\ v4 \in Seq(PortCallable)
    BY PortInvIs DEF PortInv
  <1>4. /\ c \in Seq(T) /\ call \in T /\ c # <<>> /\ call = c[1] /\ 1 \in DOMAIN c
        /\ Tail(c) \in Seq(T)
    <2>1. c \in Seq(T) /\ c # <<>>
      BY <1>1, <1>2, <1>3
    <2>2. QED
      BY <1>2, <2>1
  <1>5. PortStarts(c, f) /\ PortNow(m)
    BY <1>2 DEF PortInv
  <1>6. call.how = "start" => v6[call.of] = "new"
    <2>1. call.how = "start" => call = Ports!Call("start", call.of) /\ call.of \in PortOps
      BY <1>2, <1>4, PortCalls
    <2>2. QED
      BY <1>2, <1>4, <1>5, <2>1 DEF PortStarts
  <1>7. PortCalled(m, call)
    BY <1>1, <1>2, <1>3, <1>4, <1>5, <1>6, PortInvokes
  <1>8. \A o \in PortOps : f[o] = "new" => h[o] = "new" \/ c[1] = Ports!Call("start", o)
    BY <1>2, <1>4, <1>7 DEF PortCalled
  <1>9. PortStarts(Tail(c), h)
    BY <1>4, <1>5, <1>8, PortStartsTail
  <1>10. QED
    BY <1>1, <1>2, <1>3, <1>4, <1>7, <1>9, PortInvIs DEF PortInv, PortCalled, PortNow

LEMMA PortReturn ==
    ASSUME PortInv, Ports!Return \/ Ports!Dispatched
    PROVE  PortInv'
  BY DEF PortInv, PortNow, Ports!TypeOK, Ports!Return, Ports!Dispatched

LEMMA PortTakes ==
    ASSUME PortInv, Ports!TakeEntries
    PROVE  PortInv'
  <1>1. /\ v2' = v2 /\ v4' = v4 /\ v6' = v6 /\ v7' = v7
    BY DEF Ports!TakeEntries
  <1>2. PortTyped /\ v3 \in Seq(Ports!Entries) /\ v4 \in Seq(PortCallable)
    BY PortInvIs DEF PortInv
  <1>3. PICK T, c : T = Ports!Entries /\ c = v1
    OBVIOUS
  <1>4. c \in Seq(T)
    BY <1>2, <1>3 DEF PortTyped
  <1>5. v3' \o v1' = v3 \o v1 /\ v1' \in Seq(T) /\ v3' \in Seq(T)
    <2>1. CASE UNCHANGED <<v1, v3>>
      BY <1>2, <1>3, <1>4, <2>1
    <2>2. CASE ~UNCHANGED <<v1, v3>>
      <3>1. PICK n \in 1..PortBatch :
                /\ n <= Len(c) /\ v3 = <<>>
                /\ v3' = SubSeq(c, 1, n) /\ v1' = SubSeq(c, n + 1, Len(c))
        BY <1>3, <2>2, Zenon DEF Ports!TakeEntries
      <3>2. /\ n \in 0..Len(c) /\ 1 \in 1..Len(c) + 1 /\ Len(c) \in n..Len(c) /\ Len(c) \in Nat
            /\ n \in Nat
        BY <1>4, <3>1, ProgramsAssumption
      <3>3. SubSeq(c, 1, n) \o SubSeq(c, n + 1, Len(c)) = SubSeq(c, 1, Len(c))
        BY <1>4, <3>2, ConcatAdjacentSubSeq
      <3>4. SubSeq(c, 1, Len(c)) = c
        BY <1>4
      <3>5. SubSeq(c, 1, n) \in Seq(T) /\ SubSeq(c, n + 1, Len(c)) \in Seq(T)
        BY <1>4, <3>2
      <3>6. <<>> \o c = c
        BY <1>4
      <3>7. QED
        BY <1>3, <3>1, <3>3, <3>4, <3>5, <3>6
    <2>3. QED
      BY <2>1, <2>2
  <1>6. PortTyped'
    BY <1>1, <1>2, <1>3, <1>5 DEF PortTyped
  <1>7. PortNow(v3)'
    BY <1>1, <1>5 DEF PortInv, PortNow
  <1>8. QED
    BY <1>1, <1>2, <1>3, <1>5, <1>6, <1>7, PortInvIs DEF PortInv

\* What Dispatch leaves of the entries.
LEMMA PortTailOf ==
    ASSUME NEW T, NEW m \in Seq(T), NEW c \in Seq(T), m # <<>>
    PROVE  PortWithout(Tail(m) \o c, m \o c, 1) /\ 1 \in DOMAIN (m \o c) /\ (m \o c)[1] = Head(m)
           /\ Head(m) \in T /\ Tail(m) \in Seq(T)
  <1>1. PICK a, s, t, n, l, k : /\ a = Tail(m) /\ s = m \o c /\ t = a \o c
                                /\ n = Len(m) /\ l = Len(c) /\ k = Len(a)
    OBVIOUS
  <1>2. /\ n \in Nat /\ n > 0 /\ k = n - 1 /\ a \in Seq(T) /\ Head(m) = m[1] /\ Head(m) \in T
        /\ \A h \in 1..k : a[h] = m[h + 1]
    BY <1>1
  <1>3. /\ s \in Seq(T) /\ DOMAIN s = 1..n + l /\ n \in Nat /\ l \in Nat
        /\ \A h \in 1..n : s[h] = m[h]
        /\ \A h \in 1..l : s[n + h] = c[h]
    BY <1>1, PortJoin
  <1>4. /\ t \in Seq(T) /\ DOMAIN t = 1..k + l /\ k \in Nat
        /\ \A h \in 1..k : t[h] = a[h]
        /\ \A h \in 1..l : t[k + h] = c[h]
    BY <1>1, <1>2, PortJoin
  <1>5. ASSUME NEW h \in 1..k + l PROVE t[h] = s[h + 1]
    <2>1. CASE h \in 1..k
      <3>1. PICK j \in 1..n : j = h + 1
        BY <1>2, <1>4, <2>1
      <3>2. t[h] = a[h] /\ a[h] = m[h + 1]
        BY <1>2, <1>4, <2>1
      <3>3. s[j] = m[j]
        BY <1>3
      <3>4. QED
        BY <3>1, <3>2, <3>3
    <2>2. CASE h \notin 1..k
      <3>1. PICK j \in 1..l : h = k + j /\ h + 1 = n + j
        <4>1. h - k \in 1..l /\ h = k + (h - k) /\ h + 1 = n + (h - k)
          BY <1>2, <1>3, <1>4, <2>2
        <4>2. QED
          BY <4>1
      <3>2. t[k + j] = c[j]
        BY <1>4
      <3>3. s[n + j] = c[j]
        BY <1>3
      <3>4. QED
        BY <3>1, <3>2, <3>3
    <2>3. QED
      BY <2>1, <2>2
  <1>6. 1 \in DOMAIN s /\ s # <<>> /\ s[1] = m[1]
    BY <1>2, <1>3
  <1>7. Tail(s) = t
    <2>1. /\ Tail(s) \in Seq(T) /\ Len(Tail(s)) = Len(s) - 1
          /\ \A h \in 1..Len(s) - 1 : Tail(s)[h] = s[h + 1]
      BY <1>3, <1>6
    <2>2. Len(s) - 1 = k + l /\ Len(t) = k + l
      BY <1>2, <1>3, <1>4
    <2>3. QED
      BY <1>4, <1>5, <2>1, <2>2, SeqEqual
  <1>8. PortWithout(Tail(s), s, 1)
    BY <1>3, <1>6, PortTail
  <1>9. QED
    BY <1>1, <1>2, <1>6, <1>7, <1>8

LEMMA PortDispatch ==
    ASSUME PortInv, Ports!Dispatch
    PROVE  PortInv'
  <1>1. /\ v3 # <<>> /\ v3' = Tail(v3) /\ v4' = v4
        /\ IF Head(v3).kind = "callback" THEN Ports!Invoke(Head(v3))
           ELSE Ports!Complete(Head(v3).of, Head(v3).how)
    BY DEF Ports!Dispatch
  <1>2. PortTyped /\ v3 \in Seq(Ports!Entries) /\ v4 \in Seq(PortCallable)
    BY PortInvIs DEF PortInv
  <1>3. PICK T, m, n, c, s, t, e, P, f, A, h, q : /\ T = Ports!Entries /\ m = v3 /\ n = Tail(m)
                                                  /\ c = v1 /\ s = m \o c /\ t = n \o c
                                                  /\ e = Head(m) /\ P = v2 /\ f = v6 /\ A = v7
                                                  /\ h = v6' /\ q = v4
    OBVIOUS
  <1>4. m \in Seq(T) /\ c \in Seq(T) /\ m # <<>>
    BY <1>1, <1>2, <1>3 DEF PortTyped
  <1>5. PortWithout(t, s, 1) /\ 1 \in DOMAIN s /\ s[1] = e /\ e \in T /\ n \in Seq(T)
    BY <1>3, <1>4, PortTailOf
  <1>6. PortKept(s, P, f, A) /\ PortStarts(q, f)
    BY <1>3 DEF PortInv, PortNow
  <1>7. CASE e \in Ports!Callbacks /\ e.kind = "callback" /\ e.how # "start" /\ \A o : ~PortIs(e, o)
    <2>1. PortKept(t, P, f, A)
      BY <1>5, <1>6, <1>7, PortLessCallback
    <2>2. PortNow(n)
      BY <1>3, <2>1 DEF PortNow
    <2>3. e \in PortCallable /\ Ports!Invoke(e) /\ n \in Seq(Ports!Entries)
      BY <1>1, <1>3, <1>5, <1>7 DEF PortCallable
    <2>4. PortCalled(n, e)
      BY <1>2, <1>7, <2>2, <2>3, PortInvokes
    <2>5. \A x \in PortOps : e # Ports!Call("start", x)
      BY <1>7, PortNames
    <2>6. \A x \in PortOps : f[x] = "new" => h[x] = "new"
      BY <1>3, <2>4, <2>5 DEF PortCalled
    <2>7. PortStarts(q, h)
      BY <1>6, <2>6, PortStartsKept
    <2>8. v3' = n /\ v4' = q /\ v3' \in Seq(Ports!Entries)
      BY <1>1, <1>3, <1>5
    <2>9. QED
      BY <1>2, <1>3, <2>4, <2>7, <2>8, PortInvIs DEF PortInv, PortCalled, PortNow
  <1>8. CASE \E o \in PortOps : PortIs(e, o) /\ e.kind = "overlapped" /\ e.of = o
    <2>1. PICK o \in PortOps : PortIs(e, o) /\ e.kind = "overlapped" /\ e.of = o
      BY <1>8
    <2>2. Ports!Complete(o, e.how)
      BY <1>1, <1>3, <2>1
    <2>3. PICK w \in {"resumed", "stopped"} :
              v6' = [v6 EXCEPT ![o] = w] /\ (w = "stopped" => o \in v7)
      BY <2>2, Zenon DEF Ports!Complete
    <2>4. v1' = v1 /\ v2' = v2 /\ v7' = v7
      BY <2>2 DEF Ports!Complete
    <2>5. /\ h[o] = w /\ PortBut(h, f, o)
          /\ v6' \in [PortOps -> {"new", "suspended", "resumed", "stopped"}]
      BY <1>2, <1>3, <2>3 DEF PortTyped, PortBut
    <2>6. PortKept(t, P, h, A)
      <3>1. h[o] \in {"resumed", "stopped"} /\ (h[o] = "stopped" => o \in A)
        BY <1>3, <2>3, <2>5
      <3>2. QED
        BY <1>5, <1>6, <2>1, <2>5, <3>1, PortLessDone
    <2>7. PortNow(v3)'
      BY <1>1, <1>3, <2>4, <2>6 DEF PortNow
    <2>8. PortTyped' /\ v3' \in Seq(Ports!Entries) /\ v4' \in Seq(PortCallable)
      BY <1>1, <1>2, <1>3, <1>5, <2>4, <2>5 DEF PortTyped
    <2>9. f[o] = "suspended"
      BY <1>5, <1>6, <2>1 DEF PortKept
    <2>10. \A x \in PortOps : f[x] = "new" => h[x] = "new"
      BY <2>5, <2>9 DEF PortBut
    <2>11. PortStarts(q, h)
      BY <1>6, <2>10, PortStartsKept
    <2>12. QED
      BY <1>1, <1>3, <2>7, <2>8, <2>11, PortInvIs DEF PortInv
  <1>9. QED
    BY <1>3, <1>5, <1>7, <1>8, PortEntries

LEMMA PortStep == PortInv /\ Ports!Next => PortInv'
  <1>1. CASE \E call \in Ports!Calls : Ports!Post(call)
    BY <1>1, PortPost
  <1>2. CASE Ports!Finishes
    BY <1>2, PortFinish DEF Ports!Finishes
  <1>3. CASE Ports!Loop
    BY <1>3, PortDrain, PortReturn, PortTakes, PortDispatch DEF Ports!Loop
  <1>4. QED
    BY <1>1, <1>2, <1>3 DEF Ports!Next

LEMMA PortInit == Ports!Init => PortInv
  <1> SUFFICES ASSUME Ports!Init PROVE PortInv
    OBVIOUS
  <1>1. v1 = <<>> /\ v2 = {} /\ v3 = <<>> /\ v6 = [o \in PortOps |-> "new"] /\ v7 = {}
    BY DEF Ports!Init
  <1>2. PICK T, n : T = PortCallable /\ n = Cardinality(PortOps)
    OBVIOUS
  <1>3. n \in Nat /\ Ports!Cardinality(PortOps) = n
    BY <1>2, ProgramsAssumption, FS_CardinalityType
       DEF Ports!Cardinality, Cardinality, Ports!IsFiniteSet, IsFiniteSet
  <1>4. PICK s \in Ports!Injection(1..n, {Ports!Call("start", o) : o \in PortOps}),
             nest \in {<<>>, <<Ports!Call("nest", 2)>>} : v4 = s \o nest
    BY <1>3 DEF Ports!Init
  <1>5. /\ s \in [1..n -> {Ports!Call("start", o) : o \in PortOps}]
        /\ \A i, j \in 1..n : s[i] = s[j] => i = j
    BY <1>4 DEF Ports!Injection, Ports!IsInjective
  <1>6. s \in Seq(T) /\ Len(s) = n
    <2>1. \A i \in 1..n : s[i] \in T
      BY <1>2, <1>5 DEF PortCallable
    <2>2. s \in [1..n -> T] /\ DOMAIN s = 1..n
      BY <1>5, <2>1
    <2>3. s \in Seq(T)
      BY <1>3, <2>2
    <2>4. QED
      BY <1>3, <2>2, <2>3
  <1>7. PICK x : x = Ports!Call("nest", 2)
    OBVIOUS
  <1>8. nest \in Seq(T) /\ \A i \in DOMAIN nest : nest[i] = x
    <2>1. x \in T
      BY <1>2, <1>7 DEF PortCallable, Ports!Callbacks
    <2>2. nest = <<>> \/ nest = <<x>>
      BY <1>4, <1>7
    <2>3. /\ <<>> \in Seq(T) /\ \A i \in DOMAIN <<>> : <<>>[i] = x
          /\ <<x>> \in Seq(T) /\ \A i \in DOMAIN <<x>> : <<x>>[i] = x
      BY <2>1
    <2>4. QED
      BY <2>2, <2>3
  <1>9. PICK c : c = s \o nest /\ c \in Seq(T)
    <2>1. PICK c : c = s \o nest
      OBVIOUS
    <2>2. c \in Seq(T)
      BY <1>6, <1>8, <2>1, ConcatProperties
    <2>3. QED
      BY <2>1, <2>2
  <1>10. \A i \in DOMAIN c : (i \in 1..n /\ c[i] = s[i]) \/ c[i] = x
    <2>1. PICK l : l = Len(nest)
      OBVIOUS
    <2>2. /\ DOMAIN c = 1..n + l /\ n \in Nat /\ l \in Nat
          /\ \A h \in 1..n : c[h] = s[h]
          /\ \A h \in 1..l : c[n + h] = nest[h]
      BY <1>6, <1>8, <1>9, <2>1, PortJoin
    <2>3. DOMAIN nest = 1..l
      BY <1>8, <2>1
    <2>4. ASSUME NEW i \in DOMAIN c, i \notin 1..n
          PROVE  c[i] = x
      <3>1. i - n \in 1..l /\ i = n + (i - n)
        BY <2>2, <2>4
      <3>2. c[i] = nest[i - n] /\ i - n \in DOMAIN nest
        BY <2>2, <2>3, <3>1
      <3>3. QED
        BY <1>8, <3>2
    <2>5. QED
      BY <2>2, <2>4
  <1>11. \A o : x # Ports!Call("start", o)
    BY <1>7 DEF Ports!Call
  <1>12. PortStarts(c, v6)
    BY <1>1, <1>5, <1>10, <1>11 DEF PortStarts
  <1>13. PortTyped
    BY <1>1 DEF PortTyped
  <1>14. v3 \in Seq(Ports!Entries) /\ v4 \in Seq(PortCallable)
    BY <1>1, <1>2, <1>4, <1>9
  <1>15. PortNow(v3)
    <2>1. PICK E : E = <<>> \o <<>>
      OBVIOUS
    <2>2. DOMAIN E = {}
      BY <2>1
    <2>3. QED
      BY <1>1, <2>1, <2>2 DEF PortNow, PortKept
  <1>16. QED
    BY <1>4, <1>9, <1>12, <1>13, <1>14, <1>15, PortInvIs DEF PortInv

LEMMA PortStays == PortInv /\ UNCHANGED programVars => PortInv'
  BY DEF PortInv, PortNow, PortKept, PortStarts, Ports!TypeOK, programVars, After4, After5,
     After6, After8

LEMMA PortOutlives == PortInv => Ports!EntriesOutlive
  <1>1. SUFFICES ASSUME PortNow(v3), NEW o \in PortOps
                 PROVE  LET entries == v3 \o v1
                            of == {i \in DOMAIN entries :
                                       entries[i].kind = "overlapped" /\ entries[i].of = o}
                        IN  /\ v6[o] = "suspended" <=> o \in v2 \/ of # {}
                            /\ o \in v2 => of = {}
                            /\ \A i, j \in of : i = j
                            /\ v6[o] = "stopped" => o \in v7
    BY DEF PortInv, Ports!EntriesOutlive
  <1>2. PICK s : s = v3 \o v1
    OBVIOUS
  <1>3. /\ v6[o] = "suspended" <=> o \in v2 \/ \E i \in DOMAIN s : PortIs(s[i], o)
        /\ o \in v2 => \A i \in DOMAIN s : ~PortIs(s[i], o)
        /\ \A i, j \in DOMAIN s : PortIs(s[i], o) /\ PortIs(s[j], o) => i = j
        /\ v6[o] = "stopped" => o \in v7
    BY <1>1, <1>2, Zenon DEF PortNow, PortKept
  <1>4. QED
    BY <1>2, <1>3 DEF PortIs

-----------------------------------------------------------------------------
(* The lookup.                                                             *)

NameInv == Name!TypeOK /\ Name!Posted

LEMMA NameInit == Name!Init => NameInv
  <1> SUFFICES ASSUME Name!Init PROVE NameInv
    OBVIOUS
  <1> USE DEF Name!Init
  <1>1. Name!TypeOK
    BY DEF Name!TypeOK
  <1>2. Name!Posted
    BY DEF Name!Posted
  <1>3. QED
    BY <1>1, <1>2 DEF NameInv

LEMMA NameStep == NameInv /\ Name!Next => NameInv'
  <1> SUFFICES ASSUME NameInv, Name!Next PROVE NameInv'
    OBVIOUS
  <1> USE DEF NameInv, Name!TypeOK, Name!Posted
  <1>1. CASE Name!Start
    BY <1>1 DEF Name!Start, Name!systemVars
  <1>2. CASE Name!Submit
    BY <1>2 DEF Name!Submit
  <1>3. CASE Name!Register
    BY <1>3 DEF Name!Register, Name!Cancel
  <1>4. CASE Name!Answer \/ Name!CallBack
    BY <1>4 DEF Name!Answer, Name!CallBack, Name!awaitVars
  <1>5. CASE Name!Tell
    BY <1>5 DEF Name!Tell, Name!awaitVars
  <1>6. CASE Name!Resume
    BY <1>6 DEF Name!Resume, Name!systemVars
  <1>7. CASE Name!RequestStop
    BY <1>7 DEF Name!RequestStop, Name!awaitVars, Name!systemVars
  <1>8. CASE Name!StopSuspended
    BY <1>8 DEF Name!StopSuspended, Name!Cancel, Name!awaitVars
  <1>9. QED
    BY <1>1, <1>2, <1>3, <1>4, <1>5, <1>6, <1>7, <1>8 DEF Name!Next, Name!Progress

LEMMA NameComplete == NameInv => Name!AwaiterComplete
  BY DEF NameInv, Name!TypeOK, Name!Posted, Name!AwaiterComplete

-----------------------------------------------------------------------------
(* The fiber.                                                              *)

FiberInv == Fibers!TypeOK /\ Fibers!StopKnown /\ Fibers!StackOutlives

LEMMA FiberInit == Fibers!Init => FiberInv
  BY DEF FiberInv, Fibers!Init, Fibers!TypeOK, Fibers!StopKnown, Fibers!StackOutlives

LEMMA FiberStep == FiberInv /\ Fibers!Next => FiberInv'
  <1> SUFFICES ASSUME FiberInv, Fibers!Next PROVE FiberInv'
    OBVIOUS
  <1> USE DEF FiberInv, Fibers!TypeOK, Fibers!StopKnown, Fibers!StackOutlives
  <1>1. CASE Fibers!Await
    BY <1>1 DEF Fibers!Await, Fibers!inFiber
  <1>2. CASE Fibers!Suspend
    BY <1>2 DEF Fibers!Suspend, Fibers!ForwardStop
  <1>3. CASE Fibers!Stop
    BY <1>3 DEF Fibers!Stop, Fibers!ForwardStop
  <1>4. CASE Fibers!Yield
    BY <1>4 DEF Fibers!Yield, Fibers!Running, Fibers!SwitchBack, Fibers!inFiber
  <1>5. CASE Fibers!AwaitImpl
    BY <1>5 DEF Fibers!AwaitImpl, Fibers!Running, Fibers!SwitchBack
  <1>6. CASE Fibers!CoroutineEnds
    BY <1>6 DEF Fibers!CoroutineEnds
  <1>7. CASE Fibers!ResumeFiber
    BY <1>7 DEF Fibers!ResumeFiber, Fibers!inFiber
  <1>8. CASE Fibers!Awaited
    BY <1>8 DEF Fibers!Awaited
  <1>9. CASE \E s \in BOOLEAN : Fibers!Main(s)
    <2>1. CASE Fibers!Main(TRUE)
      BY <2>1 DEF Fibers!Main, Fibers!OnCompletion
    <2>2. CASE Fibers!Main(FALSE)
      BY <2>2 DEF Fibers!Main, Fibers!OnCompletion
    <2>3. QED
      BY <1>9, <2>1, <2>2
  <1>10. CASE Fibers!Leave
    BY <1>10 DEF Fibers!Leave, Fibers!inFiber
  <1>11. CASE Fibers!Resume
    BY <1>11 DEF Fibers!Resume, Fibers!inFiber
  <1>12. CASE Fibers!Drop
    BY <1>12 DEF Fibers!Drop, Fibers!inFiber
  <1>13. QED
    BY <1>1, <1>2, <1>3, <1>4, <1>5, <1>6, <1>7, <1>8, <1>9, <1>10, <1>11, <1>12
       DEF Fibers!Next

-----------------------------------------------------------------------------
(* The programs together: each keeps what is proved of it above.           *)

LoopsInv ==
    /\ program = "uring"  => RingInv
    /\ program = "iocp"   => PortInv
    /\ program = "fiber"  => FiberInv
    /\ program = "lookup" => NameInv
    /\ program = "qt"     => QtInv

LEMMA FiberStays == FiberInv /\ UNCHANGED programVars => FiberInv'
  BY DEF FiberInv, Fibers!TypeOK, Fibers!StopKnown, Fibers!StackOutlives, programVars,
     After4, After5, After6, After8, After9, After10, After11, After12

LEMMA NameStays == NameInv /\ UNCHANGED programVars => NameInv'
  BY DEF NameInv, Name!TypeOK, Name!Posted, programVars, After4, After5, After6, After8

LEMMA QtStays == QtInv /\ UNCHANGED programVars => QtInv'
  <1> SUFFICES ASSUME QtInv, UNCHANGED programVars PROVE QtInv'
    OBVIOUS
  <1> USE DEF programVars, After4, After5, After6, After8, After9, After10, After11, After12,
          After13, After14, After15
  <1>1. QtPlaced'
    BY QtSamePlaced DEF QtInv, QtPlaced, QtTimers!ServiceTypes, QtTimers!Placed,
       QtTimers!Who, QtTimers!Once
  <1>2. QtCounts'
    BY DEF QtInv, QtCounts, QtCount
  <1>3. QtConnected'
    BY DEF QtInv, QtConnected
  <1>4. QtOps'
    BY DEF QtInv, QtOps, QtLoop!OpsKept, QtLoop!OverlappedOutlives
  <1>5. QtTimed'
    BY QtTimerKept DEF QtInv
  <1>6. QED
    BY <1>1, <1>2, <1>3, <1>4, <1>5 DEF QtInv


LEMMA LoopsInit == ProgramInit => LoopsInv
  <1> SUFFICES ASSUME ProgramInit PROVE LoopsInv
    OBVIOUS
  <1>1. program = "uring" => Ring!Init
    BY DEF ProgramInit
  <1>2. program = "iocp" => Ports!Init
    BY DEF ProgramInit
  <1>3. program = "fiber" => Fibers!Init
    BY DEF ProgramInit
  <1>4. program = "lookup" => Name!Init
    BY DEF ProgramInit
  <1>5. program = "qt" => QtLoop!Init
    BY DEF ProgramInit
  <1>6. QED
    BY <1>1, <1>2, <1>3, <1>4, <1>5, RingInit, PortInit, FiberInit, NameInit, QtInit DEF LoopsInv

\* A step is one of the program that was chosen, ...
LEMMA LoopsNext ==
    ASSUME [ProgramNext]_programVars
    PROVE  /\ program' = program
           /\ \/ UNCHANGED programVars
              \/ /\ program = "uring"  => Ring!Next
                 /\ program = "iocp"   => Ports!Next
                 /\ program = "fiber"  => Fibers!Next
                 /\ program = "lookup" => Name!Next
                 /\ program = "qt"     => QtLoop!Next
  <1>1. CASE UNCHANGED programVars
    BY <1>1 DEF programVars
  <1>2. CASE ProgramNext
    BY <1>2 DEF ProgramNext, Chosen
  <1>3. QED
    BY <1>1, <1>2

\* ... and keeps what that program keeps.
LEMMA LoopsStep ==
    ASSUME LoopsInv, [ProgramNext]_programVars
    PROVE  LoopsInv'
  <1>1. program' = program
    BY LoopsNext
  <1>2. CASE program = "uring"
    BY <1>1, <1>2, LoopsNext, RingStep, RingStays DEF LoopsInv
  <1>3. CASE program = "iocp"
    BY <1>1, <1>3, LoopsNext, PortStep, PortStays DEF LoopsInv
  <1>4. CASE program = "fiber"
    BY <1>1, <1>4, LoopsNext, FiberStep, FiberStays DEF LoopsInv
  <1>5. CASE program = "lookup"
    BY <1>1, <1>5, LoopsNext, NameStep, NameStays DEF LoopsInv
  <1>6. CASE program = "qt"
    BY <1>1, <1>6, LoopsNext, QtStep, QtStays DEF LoopsInv
  <1>7. CASE program \notin {"uring", "iocp", "fiber", "lookup", "qt"}
    BY <1>1, <1>7 DEF LoopsInv
  <1>8. QED
    BY <1>2, <1>3, <1>4, <1>5, <1>6, <1>7

LEMMA LoopsKeep == ProgramSpec => []LoopsInv
  BY LoopsInit, LoopsStep, PTL DEF ProgramSpec

\* Qt's notifiers are enabled exactly while somebody is connected, its timer runs exactly
\* while somebody sleeps, comes less than a millisecond early before Qt 6.8, never since, and
\* after that within its interval, and the frame of an overlapped read is there until the
\* system has ended it, whatever the order of events, closes and stops.
THEOREM QtKeepsItsPromises == ProgramSpec => []QtSound
  <1>1. LoopsInv => QtSound
    BY QtMatches DEF LoopsInv, QtSound
  <1>2. QED
    BY <1>1, LoopsKeep, PTL

\* What the kernel's ring, the completion port, another stack or a lookup's thread still
\* refers to is not deleted: completions may come in any order, stops at any point.
THEOREM NothingUsedAfterItsEnd == ProgramSpec => []OwnersOutlive
  <1>1. LoopsInv => OwnersOutlive
    BY RingOutlives, PortOutlives, NameComplete DEF LoopsInv, OwnersOutlive, FiberInv
  <1>2. QED
    BY <1>1, LoopsKeep, PTL
=============================================================================
