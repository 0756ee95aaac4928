----------------------------- MODULE EpollProofs -----------------------------
(***************************************************************************)
(* Proofs about module Epoll, for any coroutines, files and threads, and   *)
(* whatever the coroutines do: a suppressed write to the eventfd loses     *)
(* nothing; a coroutine is in one place; the callback of a stop runs       *)
(* before run() returns; who waits is watched for.                         *)
(***************************************************************************)
EXTENDS Epoll, TimerProofs

-----------------------------------------------------------------------------
(* The inductive invariant: OneWakeup, and what the thread knows between   *)
(* epoll_wait() and the end of pollCallbacks().                            *)

WakeTypes ==
    /\ wakePending \in BOOLEAN /\ eventfd \in BOOLEAN
    /\ pc \in [Others -> {"idle", "stop", "write", "stopWrite"}]

EventFdEvent == [fd |-> EventFd, events |-> {}]

\* The eventfd is reported once, and stays readable until pollCallbacks() reads it.
BatchInv ==
    \A b \in batch : b.fd = EventFd => b = EventFdEvent /\ eventfd /\ loopPc = "events"

\* Under the mutex of pollCallbacks() the flag is reset and the eventfd not yet read.
ReadInv == loopPc = "read" => eventfd /\ ~wakePending /\ pendingCallbacks = <<>>

WakeInv == WakeTypes /\ OneWakeup /\ BatchInv /\ ReadInv

\* Leaves the wake-up alone: all steps but those of pollCallbacks() and of a post.
LEMMA Untouched ==
    ASSUME WakeInv, UNCHANGED <<wakeVars, pc>>,
           loopPc # "read", loopPc' # "read",
           batch' \subseteq batch,
           loopPc = "events" => loopPc' = "events" \/ batch' = {}
    PROVE  WakeInv'
BY DEF WakeInv, WakeTypes, OneWakeup, Owes, BatchInv, EventFdEvent, ReadInv, wakeVars

LEMMA UnchangedKeeps ==
    ASSUME WakeInv, UNCHANGED <<wakeVars, pc, batch, loopPc>>
    PROVE  WakeInv'
BY DEF WakeInv, WakeTypes, OneWakeup, Owes, BatchInv, EventFdEvent, ReadInv, wakeVars

\* post() by a thread that owes nothing.
LEMMA PostKeeps ==
    ASSUME WakeInv, NEW p \in Others, pc[p] \in {"idle", "stop"},
           NEW callback, NEW write \in {"write", "stopWrite"},
           PostWith(p, callback, write),
           UNCHANGED <<batch, loopPc>>
    PROVE  WakeInv'
<1>1. /\ loopPc # "read" /\ loopPc' # "read"
      /\ wakePending' = TRUE
      /\ eventfd' = eventfd
      /\ pc' = [pc EXCEPT ![p] = IF wakePending THEN "idle" ELSE write]
  BY DEF PostWith
<1>2. /\ WakeTypes'
      /\ \A q \in Others : q # p => pc'[q] = pc[q]
      /\ pc'[p] = IF wakePending THEN "idle" ELSE write
  BY <1>1 DEF WakeInv, WakeTypes
<1>3. CASE wakePending
  <2>1. \A q \in Others : Owes(q)' <=> Owes(q)
    BY <1>2, <1>3 DEF Owes
  <2>. QED
    BY <1>1, <1>2, <1>3, <2>1 DEF WakeInv, OneWakeup, BatchInv, EventFdEvent, ReadInv
<1>4. CASE ~wakePending
  <2>1. ~eventfd /\ \A q \in Others : ~Owes(q)
    BY <1>1, <1>4 DEF WakeInv, OneWakeup
  <2>2. \A q \in Others : Owes(q)' <=> q = p
    BY <1>2, <1>4, <2>1 DEF Owes
  <2>. QED
    BY <1>1, <1>2, <2>1, <2>2 DEF WakeInv, OneWakeup, BatchInv, EventFdEvent, ReadInv
<1>. QED  BY <1>3, <1>4

LEMMA WakeInit == Init => WakeInv
BY DEF Init, WakeInv, WakeTypes, OneWakeup, Owes, BatchInv, ReadInv

LEMMA WakeStep == WakeInv /\ [Next]_vars => WakeInv'
<1>. SUFFICES ASSUME WakeInv, [Next]_vars PROVE WakeInv'
  OBVIOUS
<1>. USE DEF LoopGoTo, loopRest, threadVars
<1>1. CASE Update
  BY <1>1, Untouched DEF Update
<1>2. CASE RunCallback
  BY <1>2, Untouched DEF RunCallback
<1>3. CASE RunOn
  BY <1>3, Untouched DEF RunOn
<1>4. ASSUME NEW c \in Coros, RunLast(c) PROVE WakeInv'
  BY <1>4, Untouched DEF RunLast
<1>5. CASE RunQuit
  BY <1>5, Untouched DEF RunQuit
<1>6. CASE BeginWait
  BY <1>6, Untouched DEF BeginWait
<1>7. CASE Wake
  <2>1. \A b \in batch' : b.fd = EventFd => b = EventFdEvent /\ eventfd
    BY <1>7, EpollAssumption DEF Wake, Happened, EventFdEvent
  <2>2. UNCHANGED <<wakeVars, pc>> /\ loopPc = "wait" /\ loopPc' = "events"
    BY <1>7 DEF Wake
  <2>. QED
    BY <2>1, <2>2
       DEF WakeInv, WakeTypes, OneWakeup, Owes, BatchInv, EventFdEvent, ReadInv, wakeVars
<1>8. CASE FileEvent
  BY <1>8, Untouched DEF FileEvent
<1>9. CASE PollCallbacks
  <2>1. /\ loopPc = "events" /\ loopPc' = "read"
        /\ pendingCallbacks' = <<>> /\ wakePending' = FALSE /\ UNCHANGED <<eventfd, pc>>
    BY <1>9 DEF PollCallbacks
  <2>2. /\ EventFdEvent \in batch /\ eventfd
        /\ \A b \in batch' : b.fd # EventFd
    BY <1>9 DEF PollCallbacks, WakeInv, BatchInv
  <2>. QED
    BY <2>1, <2>2 DEF WakeInv, WakeTypes, OneWakeup, Owes, BatchInv, ReadInv
<1>10. CASE ReadEventFd
  <2>1. /\ loopPc = "read" /\ loopPc' = "events" /\ eventfd' = FALSE
        /\ UNCHANGED <<pendingCallbacks, wakePending, batch, pc>>
    BY <1>10 DEF ReadEventFd
  <2>2. /\ eventfd /\ ~wakePending /\ pendingCallbacks = <<>>
        /\ \A b \in batch : b.fd # EventFd
    BY <2>1 DEF WakeInv, BatchInv, ReadInv
  <2>. QED
    BY <2>1, <2>2 DEF WakeInv, WakeTypes, OneWakeup, Owes, BatchInv, ReadInv
<1>11. CASE TimerEvent
  BY <1>11, Untouched DEF TimerEvent
<1>12. CASE EndBatch
  BY <1>12, Untouched DEF EndBatch
<1>13. CASE Enter
  BY <1>13, Untouched DEF Enter
<1>14. CASE Interrupted
  BY <1>14, Untouched DEF Interrupted
<1>15. CASE Time
  <2>1. UNCHANGED <<wakeVars, pc, batch, loopPc>>
    BY <1>15 DEF Time
  <2>. QED  BY <2>1, UnchangedKeeps
<1>16. CASE Files
  <2>1. UNCHANGED <<wakeVars, pc, batch, loopPc>>
    BY <1>16 DEF Files
  <2>. QED  BY <2>1, UnchangedKeeps
<1>17. ASSUME NEW p \in Others, NEW c \in Coros, Post(p, c) PROVE WakeInv'
  BY <1>17, PostKeeps DEF Post, loopVars
<1>18. ASSUME NEW p \in Others, StopRun(p) PROVE WakeInv'
  <2>1. /\ pc[p] = "idle" /\ pc' = [pc EXCEPT ![p] = "stop"]
        /\ UNCHANGED <<wakeVars, batch, loopPc>>
    BY <1>18 DEF StopRun, loopVars
  <2>2. WakeTypes' /\ \A q \in Others : Owes(q)' <=> Owes(q)
    BY <2>1 DEF WakeInv, WakeTypes, Owes, wakeVars
  <2>. QED
    BY <2>1, <2>2 DEF WakeInv, OneWakeup, BatchInv, EventFdEvent, ReadInv, wakeVars
<1>19. ASSUME NEW p \in Others, PostQuit(p) PROVE WakeInv'
  BY <1>19, PostKeeps DEF PostQuit, loopVars
<1>20. ASSUME NEW p \in Others, WriteEventFd(p) PROVE WakeInv'
  <2>1. /\ Owes(p) /\ pc' = [pc EXCEPT ![p] = "idle"] /\ eventfd' = TRUE
        /\ UNCHANGED <<pendingCallbacks, wakePending, batch, loopPc>>
    BY <1>20 DEF WriteEventFd, Owes, loopVars
  <2>2. WakeTypes' /\ \A q \in Others : ~Owes(q)'
    BY <2>1 DEF WakeInv, WakeTypes, OneWakeup, Owes
  <2>3. ~eventfd /\ loopPc # "read" /\ wakePending
    BY <2>1 DEF WakeInv, OneWakeup, ReadInv
  <2>. QED
    BY <2>1, <2>2, <2>3 DEF WakeInv, OneWakeup, BatchInv, ReadInv
<1>21. CASE UNCHANGED vars
  BY <1>21, UnchangedKeeps DEF vars
<1>. QED
  BY <1>1, <1>2, <1>3, <1>4, <1>5, <1>6, <1>7, <1>8, <1>9, <1>10, <1>11, <1>12, <1>13,
     <1>14, <1>15, <1>16, <1>17, <1>18, <1>19, <1>20, <1>21
  DEF Next, LoopStep, ThreadStep

\* A post that finds the flag set leaves the write to another: there is exactly one to
\* come, or the eventfd is readable already (epoll.cpp:284-297, 350-357).
THEOREM SuppressedWritesAreSafe == Spec => []OneWakeup
<1>1. WakeInv => OneWakeup
  BY DEF WakeInv
<1>. QED
  BY <1>1, WakeInit, WakeStep, PTL DEF Spec

-----------------------------------------------------------------------------
(* Where the coroutines are.                                               *)

Threads == Others \cup {Loop}
Callbacks == Coros \cup {Quit}
Awaiters == [who : Coros, event : Events]

PlaceInv ==
    /\ ServiceTypes
    /\ st \in [Coros -> Places \cup {"polling"}]
    /\ local \in Seq(Threads \X Callbacks)
    /\ pendingCallbacks \in Seq(Others \X Callbacks)
    /\ Placed(Who(pendingCallbacks)) /\ Once(pendingCallbacks)

\* Who polls has one awaiter, for an event that the descriptor is interested in.
FdInv ==
    /\ FdTypeOK
    /\ \A c \in Coros : st[c] = "polling" <=> \E f \in Fds : c \in Sleepers(awaiters[f])
    /\ \A f \in Fds : Alone(awaiters[f])
    /\ \A f, g \in Fds : f # g => Sleepers(awaiters[f]) \cap Sleepers(awaiters[g]) = {}
    /\ \A f \in Fds : \A i \in DOMAIN awaiters[f] : awaiters[f][i].event \in interest[f]

\* The kernel watches for what a descriptor is interested in, or has reported the file.
ArmInv ==
    \A f \in Fds : interest[f] \subseteq kernel[f] \/ \E b \in batch : b.fd = f

BatchTypes ==
    /\ batch \subseteq [fd : Fds \cup {EventFd, TimerFd}, events : SUBSET (Events \cup {Hup})]
    /\ loopPc \notin {"events", "read"} => batch = {}

QuitPosted == Quit \in Who(local) \cup Who(pendingCallbacks)

\* The callback of a stop is posted or about to be posted once, and before it has run
\* run() goes on.
QuitInv ==
    /\ QuitPosted => runStop /\ running
    /\ \A p \in Others : pc[p] = "stop" => runStop /\ running /\ ~QuitPosted
    /\ \A p, q \in Others : pc[p] = "stop" /\ pc[q] = "stop" => p = q
    /\ ~running => runStop
    /\ loopPc = "returned" => ~running

\* The timerfd is set for the first timer, or that timer is due: then updateTimers() is
\* still to come.
ClockInv ==
    /\ prevTimepoint = NextTimepoint
    /\ timerfd = NextTimepoint \/ NextTimepoint <= now
    /\ loopPc = "wait" \/ (loopPc = "callbacks" /\ local = <<>>) => timerfd = NextTimepoint

LoopTypes ==
    /\ now \in 0..MaxTime
    /\ timerfd \in 0..Never
    /\ loopPc \in {"update", "callbacks", "wait", "events", "read", "returned"}
    /\ running \in BOOLEAN /\ runStop \in BOOLEAN
    /\ calls \in 0..Calls

IInv == WakeInv /\ PlaceInv /\ FdInv /\ ArmInv /\ BatchTypes /\ QuitInv /\ ClockInv /\ LoopTypes

-----------------------------------------------------------------------------
(* Awaiters that are told or kept.                                         *)

\* q has the awaiters that as has at the places in I.
Part(q, as, I) ==
    /\ \A j \in DOMAIN q : \E i \in I : q[j] = as[i]
    /\ \A i \in I : \E j \in DOMAIN q : q[j] = as[i]

LEMMA KeptAre ==
    ASSUME NEW as \in Seq(Awaiters), NEW I \in SUBSET DOMAIN as
    PROVE  /\ Keep(as, I) \in Seq(Awaiters)
           /\ Part(Keep(as, I), as, I)
           /\ Alone(as) => Alone(Keep(as, I))
<1>1. PICK q : q = Keep(as, I)
  OBVIOUS
<1>2. q \in Seq(Awaiters)
  BY <1>1, KeepIs
<1>3. Kept(q, as, I)
  BY <1>1, KeepIs
<1>4. DOMAIN q \subseteq Nat /\ I \subseteq DOMAIN as /\ DOMAIN as \subseteq Nat
  <2>1. DOMAIN q \subseteq Nat
    BY <1>2, SeqIs
  <2>2. DOMAIN as \subseteq Nat
    BY SeqIs
  <2>3. QED
    BY <2>1, <2>2
<1>5. PICK k \in [DOMAIN q -> I] :
          Enumerates(k, I) /\ \A j \in DOMAIN q : q[j] = as[k[j]]
  BY <1>3 DEF Kept
<1>6. Part(q, as, I)
  <2>1. \A j \in DOMAIN q : \E i \in I : q[j] = as[i]
    BY <1>5
  <2>2. ASSUME NEW i \in I PROVE \E j \in DOMAIN q : q[j] = as[i]
    <3>1. PICK j \in DOMAIN k : k[j] = i
      BY <1>5 DEF Enumerates
    <3>2. j \in DOMAIN q
      BY <1>5
    <3>3. QED
      BY <1>5, <3>1, <3>2
  <2>3. QED
    BY <2>1, <2>2 DEF Part
<1>7. ASSUME Alone(as), NEW i \in DOMAIN q, NEW j \in DOMAIN q, q[i].who = q[j].who
      PROVE  i = j
  <2>1. k[i] \in I /\ k[j] \in I /\ i \in Nat /\ j \in Nat /\ k[i] \in Nat
    BY <1>4, <1>5
  <2>2. as[k[i]].who = as[k[j]].who
    BY <1>5, <1>7
  <2>3. k[i] = k[j]
    BY <1>4, <1>7, <2>1, <2>2 DEF Alone
  <2>4. DOMAIN k = DOMAIN q
    BY <1>5
  <2>5. i < j => k[i] < k[j]
    BY <1>5, <2>4 DEF Enumerates
  <2>6. j < i => k[j] < k[i]
    BY <1>5, <2>4 DEF Enumerates
  <2>7. ~(i < j) /\ ~(j < i)
    BY <2>1, <2>3, <2>5, <2>6
  <2>8. QED
    BY <2>1, <2>7
<1>8. Alone(as) => Alone(q)
  BY <1>7 DEF Alone
<1>9. QED
  BY <1>1, <1>2, <1>6, <1>8

\* Who has one of the awaiters at the places in I.
WhoAt(as, I) == {as[i].who : i \in I}

LEMMA PartIs ==
    ASSUME NEW q, NEW as, NEW I, Part(q, as, I)
    PROVE  Sleepers(q) = WhoAt(as, I)
<1> SUFFICES ASSUME NEW c PROVE c \in Sleepers(q) <=> \E i \in I : as[i].who = c
  BY DEF WhoAt
<1>1. ASSUME NEW j \in DOMAIN q, q[j].who = c PROVE \E i \in I : as[i].who = c
  <2>1. PICK i \in I : q[j] = as[i]
    BY DEF Part
  <2>2. QED
    BY <1>1, <2>1
<1>2. ASSUME NEW i \in I, as[i].who = c PROVE \E j \in DOMAIN q : q[j].who = c
  <2>1. PICK j \in DOMAIN q : q[j] = as[i]
    BY DEF Part
  <2>2. QED
    BY <1>2, <2>1
<1>3. QED
  BY <1>1, <1>2 DEF Sleepers

\* The awaiters as are divided into told and rest.
Halves(as, told, rest) ==
    /\ Sleepers(as) = Sleepers(told) \cup Sleepers(rest)
    /\ Sleepers(told) \cap Sleepers(rest) = {}

LEMMA DividedAre ==
    ASSUME NEW as \in Seq(Awaiters), Alone(as), NEW I \in SUBSET DOMAIN as,
           NEW told, told = Keep(as, I), NEW rest, rest = Keep(as, DOMAIN as \ I)
    PROVE  /\ told \in Seq(Awaiters) /\ rest \in Seq(Awaiters)
           /\ Alone(told) /\ Alone(rest) /\ Halves(as, told, rest)
<1>1. PICK J \in SUBSET DOMAIN as : J = DOMAIN as \ I
  OBVIOUS
<1>2. rest = Keep(as, J)
  BY <1>1
<1>3. told \in Seq(Awaiters) /\ Alone(told) /\ Part(told, as, I)
  BY KeptAre
<1>4. rest \in Seq(Awaiters) /\ Alone(rest) /\ Part(rest, as, J)
  BY <1>2, KeptAre
<1>5. ASSUME NEW c PROVE c \in Sleepers(told) <=> \E i \in I : as[i].who = c
  <2>1. Sleepers(told) = WhoAt(as, I)
    BY <1>3, PartIs, Zenon
  <2>2. QED
    BY <2>1 DEF WhoAt
<1>6. ASSUME NEW c PROVE c \in Sleepers(rest) <=> \E i \in J : as[i].who = c
  <2>1. Sleepers(rest) = WhoAt(as, J)
    BY <1>4, PartIs, Zenon
  <2>2. QED
    BY <2>1 DEF WhoAt
<1>7. ASSUME NEW c PROVE c \in Sleepers(as) <=> \E i \in DOMAIN as : as[i].who = c
  BY DEF Sleepers
<1>8. Sleepers(as) = Sleepers(told) \cup Sleepers(rest)
  <2>1. ASSUME NEW c
        PROVE  c \in Sleepers(as) <=> c \in Sleepers(told) \/ c \in Sleepers(rest)
    BY <1>1, <1>5, <1>6, <1>7
  <2>2. QED
    BY <2>1
<1>9. ASSUME NEW c PROVE ~(c \in Sleepers(told) /\ c \in Sleepers(rest))
  <2> SUFFICES ASSUME c \in Sleepers(told), c \in Sleepers(rest) PROVE FALSE
    OBVIOUS
  <2>1. PICK i \in I : as[i].who = c
    BY <1>5
  <2>2. PICK j \in J : as[j].who = c
    BY <1>6
  <2>3. i \in DOMAIN as /\ j \in DOMAIN as /\ i # j
    BY <1>1
  <2>4. QED
    BY <2>1, <2>2, <2>3 DEF Alone
<1>10. Halves(as, told, rest)
  BY <1>8, <1>9 DEF Halves
<1>11. QED
  BY <1>3, <1>4, <1>10

LEMMA AwaitersConcat ==
    ASSUME NEW a \in Seq(Awaiters), NEW b \in Seq(Awaiters), Alone(a), Alone(b),
           Sleepers(a) \cap Sleepers(b) = {}
    PROVE  /\ a \o b \in Seq(Awaiters) /\ Alone(a \o b)
           /\ Sleepers(a \o b) = Sleepers(a) \cup Sleepers(b)
<1> DEFINE s == a \o b
<1>1. /\ s \in Seq(Awaiters) /\ Len(s) = Len(a) + Len(b)
      /\ Len(a) \in Nat /\ Len(b) \in Nat
      /\ \A i \in 1..Len(a) : s[i] = a[i]
      /\ \A i \in 1..Len(b) : s[Len(a) + i] = b[i]
  OBVIOUS
<1>2. /\ DOMAIN s = 1..Len(a) + Len(b) /\ DOMAIN a = 1..Len(a) /\ DOMAIN b = 1..Len(b)
  BY <1>1
<1> HIDE DEF s
<1>3. \A i \in DOMAIN s : \/ i \in DOMAIN a /\ s[i] = a[i]
                          \/ /\ i - Len(a) \in DOMAIN b /\ s[i] = b[i - Len(a)]
  <2> SUFFICES ASSUME NEW i \in DOMAIN s, i \notin DOMAIN a
               PROVE  i - Len(a) \in DOMAIN b /\ s[i] = b[i - Len(a)]
    BY <1>1, <1>2
  <2>1. i - Len(a) \in 1..Len(b) /\ Len(a) + (i - Len(a)) = i
    BY <1>1, <1>2
  <2>2. QED
    BY <1>1, <1>2, <2>1
<1>4. /\ \A i \in DOMAIN a : i \in DOMAIN s /\ s[i] = a[i]
      /\ \A i \in DOMAIN b : Len(a) + i \in DOMAIN s /\ s[Len(a) + i] = b[i]
  BY <1>1, <1>2
<1>5. Sleepers(s) = Sleepers(a) \cup Sleepers(b)
  BY <1>3, <1>4 DEF Sleepers
<1>6. ASSUME NEW i \in DOMAIN s, NEW j \in DOMAIN s, s[i].who = s[j].who
      PROVE  i = j
  <2>1. \A x \in DOMAIN a, y \in DOMAIN b : a[x].who # b[y].who
    BY DEF Sleepers
  <2>2. CASE i \in DOMAIN a /\ s[i] = a[i] /\ j \in DOMAIN a /\ s[j] = a[j]
    BY <1>6, <2>2 DEF Alone
  <2>3. CASE /\ i - Len(a) \in DOMAIN b /\ s[i] = b[i - Len(a)]
             /\ j - Len(a) \in DOMAIN b /\ s[j] = b[j - Len(a)]
    <3>1. i - Len(a) = j - Len(a)
      BY <1>6, <2>3 DEF Alone
    <3>2. QED
      BY <1>1, <1>2, <3>1
  <2>4. QED
    BY <1>3, <1>6, <2>1, <2>2, <2>3
<1>7. Alone(s)
  BY <1>6 DEF Alone
<1>8. QED
  BY <1>1, <1>5, <1>7 DEF s

\* onNotify() of awaiters of coroutines that poll: they are posted, once.
LEMMA NotifyKeeps ==
    ASSUME PlaceInv, NEW as \in Seq(Awaiters), Alone(as), Notify(as),
           \A c \in Sleepers(as) : st[c] = "polling",
           UNCHANGED <<mTimers, stopReq, slices, pendingCallbacks>>
    PROVE  /\ PlaceInv'
           /\ Sleepers(as) \subseteq Coros
           /\ \A c \in Coros : st'[c] = IF c \in Sleepers(as) THEN "ready" ELSE st[c]
           /\ Quit \in Who(local') <=> Quit \in Who(local)
<1>1. PICK n, x, rest : /\ n = Len(as)
                        /\ x = [i \in DOMAIN as |-> <<Loop, as[i].who>>]
                        /\ rest = Who(pendingCallbacks)
  OBVIOUS
<1>2. n \in Nat /\ DOMAIN as = 1..n /\ \A i \in 1..n : as[i] \in Awaiters
  <2>1. /\ Len(as) \in Nat /\ DOMAIN as = 1..Len(as)
        /\ \A i \in DOMAIN as : as[i] \in Awaiters
    BY SeqIs
  <2>2. QED
    BY <1>1, <2>1
<1>3. \A i \in 1..n : as[i].who \in Coros
  BY <1>2 DEF Awaiters
<1>4. Loop \in Threads /\ Coros \subseteq Callbacks /\ Quit \notin Coros
  BY EpollAssumption DEF Threads, Callbacks
<1>5. x \in Seq(Threads \X Callbacks)
  <2>1. x \in [1..n -> Threads \X Callbacks]
    BY <1>1, <1>2, <1>3, <1>4
  <2>2. QED
    BY <1>2, <2>1, IsASeq
<1>6. DOMAIN x = 1..n /\ \A i \in 1..n : x[i][2] = as[i].who
  BY <1>1, <1>2
<1>7. Who(x) = Sleepers(as) /\ Who(x) \subseteq Coros
  BY <1>2, <1>3, <1>6 DEF Who, Sleepers
<1>8. Once(x)
  BY <1>2, <1>6 DEF Once, Alone
<1>9. /\ local' = local \o x
      /\ st' = [c \in Coros |-> IF \E i \in DOMAIN as : as[i].who = c THEN "ready"
                                                                   ELSE st[c]]
  BY <1>1 DEF Notify
<1>10. /\ \A c \in Coros : st'[c] = IF c \in Who(x) THEN "ready" ELSE st[c]
       /\ st' \in [Coros -> Places \cup {"polling"}]
  <2>1. \A c \in Coros : (\E i \in DOMAIN as : as[i].who = c) <=> c \in Who(x)
    BY <1>7 DEF Sleepers
  <2>2. QED
    BY <1>9, <2>1 DEF PlaceInv, Places
<1>11. \A c \in Who(x) : st[c] = "polling" /\ c \notin Who(local) \cup rest
                         /\ c \notin Sleepers(mTimers)
  BY <1>1, <1>7 DEF PlaceInv, Placed
<1>12. /\ Placed(rest) /\ local \in Seq(Threads \X Callbacks)
       /\ Once(local) /\ Who(local) \cap Who(x) = {} /\ Who(local) \cap rest = {}
  BY <1>1, <1>11 DEF PlaceInv, Placed
<1>13. PICK q : q = local /\ q \in Seq(Threads \X Callbacks)
  BY <1>12
<1>14. q \o x \in Seq(Threads \X Callbacks)
  BY <1>5, <1>13, WhoConcat
<1>15. ASSUME NEW u PROVE u \in Who(q \o x) <=> u \in Who(q) \/ u \in Who(x)
  BY <1>5, <1>13, WhoConcat
<1>16. Once(q \o x)
  BY <1>5, <1>8, <1>12, <1>13, WhoConcat
<1>17. /\ local' \in Seq(Threads \X Callbacks) /\ Once(local')
       /\ Who(local') = Who(local) \cup Who(x)
  BY <1>9, <1>13, <1>14, <1>15, <1>16
<1>18. \A c \in Coros : st'[c] = "ready" <=> c \in Who(local') \cup rest
  BY <1>10, <1>12, <1>17 DEF Placed
<1>19. \A c \in Coros : st'[c] = "asleep" <=> c \in Sleepers(mTimers)
  BY <1>10, <1>11, <1>12 DEF Placed
<1>20. Who(local') \cap rest = {}
  BY <1>11, <1>12, <1>17
<1>21. Placed(Who(pendingCallbacks))'
  BY <1>1, <1>12, <1>17, <1>18, <1>19, <1>20 DEF Placed
<1>22. PlaceInv'
  BY <1>10, <1>17, <1>21 DEF PlaceInv, ServiceTypes
<1>23. QED
  BY <1>4, <1>7, <1>10, <1>17, <1>22

-----------------------------------------------------------------------------
(* The steps of the coroutines.                                            *)

\* A slice that does not poll, and updateTimers().
LEMMA ServiceStep ==
    ASSUME PlaceInv, now \in Nat, Slice \/ UpdateTimers, UNCHANGED pendingCallbacks
    PROVE  PlaceInv' /\ OthersKept
<1>1. PICK rest, T, U, P : /\ rest = Who(pendingCallbacks) /\ T = Threads /\ U = Callbacks
                           /\ P = Places \cup {"polling"}
  OBVIOUS
<1>2. /\ Placed(rest) /\ Loop \in T /\ Coros \subseteq U /\ Places \subseteq P
      /\ ServiceTypes /\ local \in Seq(T \X U) /\ st \in [Coros -> P]
  BY <1>1 DEF PlaceInv, Threads, Callbacks
<1>3. /\ ServiceTypes' /\ local' \in Seq(T \X U) /\ st' \in [Coros -> P]
      /\ Placed(rest)' /\ OthersKept
  <2>1. CASE Slice
    BY <1>2, <2>1, SliceKeeps
  <2>2. CASE UpdateTimers
    BY <1>2, <2>2, UpdateKeeps
  <2>3. QED
    BY <2>1, <2>2
<1>4. Placed(Who(pendingCallbacks))'
  BY <1>1, <1>3 DEF Placed
<1>5. pendingCallbacks' \in Seq(Others \X Callbacks) /\ Once(pendingCallbacks)'
  BY DEF PlaceInv
<1>6. QED
  BY <1>1, <1>3, <1>4, <1>5 DEF PlaceInv

\* What these keep of who polls and of the callback of a stop.
LEMMA OthersAre ==
    ASSUME OthersKept, Quit \notin Coros
    PROVE  /\ \A c \in Coros : st'[c] = "polling" <=> st[c] = "polling"
           /\ Quit \in Who(local') <=> Quit \in Who(local)
BY DEF OthersKept, Places

\* The awaiters stay, and who polls goes on.
LEMMA FdKept ==
    ASSUME FdInv, \A c \in Coros : st'[c] = "polling" <=> st[c] = "polling",
           UNCHANGED <<interest, awaiters>>,
           ready' \in [Fds -> SUBSET (Events \cup {Hup})],
           kernel' \in [Fds -> SUBSET (Events \cup {Hup})]
    PROVE  FdInv'
BY DEF FdInv, FdTypeOK

\* Register() makes the kernel watch for the event, as the descriptor believes.
LEMMA RegisterKeeps ==
    ASSUME FdTypeOK, ArmInv, NEW f \in Fds, NEW e \in Events, Register(f, e), UNCHANGED batch
    PROVE  /\ kernel' \in [Fds -> SUBSET (Events \cup {Hup})]
           /\ interest' \in [Fds -> SUBSET Events]
           /\ e \in interest'[f] /\ \A g \in Fds : interest[g] \subseteq interest'[g]
           /\ ArmInv'
<1>1. CASE e \in interest[f]
  <2>1. UNCHANGED <<kernel, interest>>
    BY <1>1 DEF Register
  <2>2. QED
    BY <1>1, <2>1 DEF FdTypeOK, ArmInv
<1>2. CASE e \notin interest[f]
  <2>1. PICK E \in SUBSET Events : E = interest[f] \cup {e}
    BY DEF FdTypeOK
  <2>2. /\ kernel' = [kernel EXCEPT ![f] = E \cup {Hup}]
        /\ interest' = [interest EXCEPT ![f] = E]
    BY <1>2, <2>1 DEF Register, Arm
  <2>3. /\ kernel' \in [Fds -> SUBSET (Events \cup {Hup})]
        /\ interest' \in [Fds -> SUBSET Events]
        /\ kernel'[f] = E \cup {Hup} /\ interest'[f] = E
        /\ \A g \in Fds \ {f} : kernel'[g] = kernel[g] /\ interest'[g] = interest[g]
    BY <2>2 DEF FdTypeOK
  <2>4. ArmInv'
    BY <2>3 DEF ArmInv
  <2>5. QED
    BY <2>1, <2>3, <2>4
<1>3. QED
  BY <1>1, <1>2

\* The running coroutine goes where nothing is kept of it, or to an awaiter.
LEMMA LeaveStep ==
    ASSUME PlaceInv, NEW c \in Coros, Running(c), NEW to \in {"stopped", "polling", "done"},
           st' = [st EXCEPT ![c] = to], local' = Tail(local),
           slices' \in [Coros -> 0..Slices],
           UNCHANGED <<mTimers, stopReq, pendingCallbacks>>
    PROVE  /\ PlaceInv'
           /\ st[c] = "ready" /\ st'[c] = to /\ \A d \in Coros \ {c} : st'[d] = st[d]
           /\ Who(local) = Who(local') \cup {c}
<1>1. PICK rest, T, U, P : /\ rest = Who(pendingCallbacks) /\ T = Threads /\ U = Callbacks
                           /\ P = Places \cup {"polling"}
  OBVIOUS
<1>2. /\ Placed(rest) /\ ServiceTypes /\ local \in Seq(T \X U) /\ st \in [Coros -> P]
      /\ to \in P /\ to \notin {"ready", "asleep"}
  BY <1>1 DEF PlaceInv, Places
<1>3. local' \in Seq(T \X U) /\ st' \in [Coros -> P] /\ Placed(rest)'
  BY <1>2, LeaveKeeps
<1>4. st[c] = "ready" /\ Who(local) = Who(Tail(local)) \cup {c}
  BY <1>2, RunningIs
<1>5. Placed(Who(pendingCallbacks))'
  BY <1>1, <1>3 DEF Placed
<1>6. PlaceInv'
  BY <1>1, <1>3, <1>5 DEF PlaceInv, ServiceTypes
<1>7. st'[c] = to /\ \A d \in Coros \ {c} : st'[d] = st[d]
  BY <1>2
<1>8. QED
  BY <1>4, <1>6, <1>7

\* r has a and what as has.
AddedTo(r, as, a) == \A i \in DOMAIN r : r[i] = a \/ \E j \in DOMAIN as : r[i] = as[j]

LEMMA AddedIs ==
    ASSUME NEW S, NEW as \in Seq(S), NEW a \in S
    PROVE  /\ Append(as, a) \in Seq(S) /\ AddedTo(Append(as, a), as, a)
           /\ Sleepers(Append(as, a)) = Sleepers(as) \cup {a.who}
           /\ Alone(as) /\ a.who \notin Sleepers(as) => Alone(Append(as, a))
<1> DEFINE r == Append(as, a)
<1>1. r \in Seq(S) /\ Len(r) = Len(as) + 1
  BY AppendProperties
<1>2. r[Len(as) + 1] = a /\ \A i \in 1..Len(as) : r[i] = as[i]
  <2>1. r[Len(as) + 1] = a
    BY AppendProperties
  <2>2. ASSUME NEW i \in 1..Len(as) PROVE r[i] = as[i]
    BY AppendProperties
  <2>3. QED
    BY <2>1, <2>2
<1>a. PICK n : n = Len(as)
  OBVIOUS
<1> HIDE DEF r
<1>b. n \in Nat /\ DOMAIN as = 1..n
  <2>1. Len(as) \in Nat /\ DOMAIN as = 1..Len(as)
    BY SeqIs, Zenon
  <2>2. QED
    BY <1>a, <2>1
<1>c. DOMAIN r = 1..n + 1
  BY <1>1, <1>a, SeqIs
<1>3. \A i \in DOMAIN r : (i = n + 1 /\ r[i] = a) \/ (i \in DOMAIN as /\ r[i] = as[i])
  <2>1. \A i \in 1..n + 1 : i = n + 1 \/ i \in 1..n
    BY <1>b
  <2>2. QED
    BY <1>2, <1>a, <1>b, <1>c, <2>1, Zenon
<1>4. /\ n + 1 \in DOMAIN r
      /\ \A i \in DOMAIN as : i \in DOMAIN r /\ r[i] = as[i]
  <2>1. n + 1 \in 1..n + 1 /\ \A i \in 1..n : i \in 1..n + 1
    BY <1>b
  <2>2. QED
    BY <1>2, <1>a, <1>b, <1>c, <2>1, Zenon
<1>5. Sleepers(r) = Sleepers(as) \cup {a.who}
  BY <1>2, <1>3, <1>4, <1>a DEF Sleepers
<1>6. ASSUME Alone(as), a.who \notin Sleepers(as)
      PROVE  Alone(r)
  <2>1. \A i \in DOMAIN as : as[i].who # a.who
    BY <1>6 DEF Sleepers
  <2>2. QED
    BY <1>3, <1>6, <2>1 DEF Alone
<1>7. AddedTo(r, as, a)
  BY <1>3 DEF AddedTo
<1>8. QED
  BY <1>1, <1>5, <1>6, <1>7 DEF r

LEMMA PollKeeps ==
    ASSUME PlaceInv, FdInv, ArmInv, NEW c \in Coros, NEW f \in Fds, NEW e \in Events,
           Poll(c, f, e), UNCHANGED <<pendingCallbacks, batch>>
    PROVE  PlaceInv' /\ FdInv' /\ ArmInv' /\ (Quit \in Who(local') <=> Quit \in Who(local))
<1>1. /\ Running(c) /\ slices[c] > 0 /\ slices' = [slices EXCEPT ![c] = @ - 1]
      /\ local' = Tail(local) /\ Register(f, e) /\ UNCHANGED <<mTimers, stopReq, ready>>
  BY DEF Poll
<1>2. slices' \in [Coros -> 0..Slices]
  BY <1>1, OneSliceLess DEF PlaceInv
<1>3. /\ kernel' \in [Fds -> SUBSET (Events \cup {Hup})]
      /\ interest' \in [Fds -> SUBSET Events]
      /\ e \in interest'[f] /\ \A g \in Fds : interest[g] \subseteq interest'[g]
      /\ ArmInv'
  BY <1>1, RegisterKeeps DEF FdInv
<1>4. Quit \notin Coros
  BY EpollAssumption
<1>5. CASE stopReq[c]
  <2>1. st' = [st EXCEPT ![c] = "stopped"] /\ UNCHANGED awaiters
    BY <1>5 DEF Poll
  <2>2. /\ PlaceInv' /\ st[c] = "ready" /\ st'[c] = "stopped"
        /\ \A d \in Coros \ {c} : st'[d] = st[d]
    BY <1>1, <1>2, <2>1, LeaveStep
  <2>3. Who(local) = Who(local') \cup {c}
    BY <1>1, <1>2, <2>1, LeaveStep
  <2>4. FdInv'
    BY <1>1, <1>3, <2>1, <2>2 DEF FdInv, FdTypeOK
  <2>5. QED
    BY <1>3, <1>4, <2>2, <2>3, <2>4
<1>6. CASE ~stopReq[c]
  <2>1. PICK a, as : a = [who |-> c, event |-> e] /\ as = awaiters[f]
    OBVIOUS
  <2>2. st' = [st EXCEPT ![c] = "polling"] /\ awaiters' = [awaiters EXCEPT ![f] = Append(as, a)]
    BY <1>6, <2>1 DEF Poll
  <2>3. /\ PlaceInv' /\ st[c] = "ready" /\ st'[c] = "polling"
        /\ \A d \in Coros \ {c} : st'[d] = st[d]
    BY <1>1, <1>2, <2>2, LeaveStep
  <2>4. Who(local) = Who(local') \cup {c}
    BY <1>1, <1>2, <2>2, LeaveStep
  <2>5. PICK r : r = Append(as, a)
    OBVIOUS
  <2>6. as \in Seq(Awaiters) /\ Alone(as) /\ a \in Awaiters /\ a.who = c /\ a.event = e
    BY <2>1 DEF FdInv, FdTypeOK, Awaiters
  <2>7. c \notin Sleepers(as)
    BY <2>1, <2>3 DEF FdInv
  <2>8. r \in Seq(Awaiters) /\ Alone(r)
    BY <2>5, <2>6, <2>7, AddedIs
  <2>9. Sleepers(r) = Sleepers(as) \cup {c}
    BY <2>5, <2>6, AddedIs
  <2>10. AddedTo(r, as, a)
    BY <2>5, <2>6, AddedIs
  <2>11. /\ awaiters' \in [Fds -> Seq(Awaiters)] /\ awaiters'[f] = r
         /\ \A g \in Fds \ {f} : awaiters'[g] = awaiters[g]
    BY <2>2, <2>5, <2>8 DEF FdInv, FdTypeOK, Awaiters
  <2>12. FdTypeOK'
    BY <1>1, <1>3, <2>11 DEF FdInv, FdTypeOK, Awaiters
  <2>13. \A d \in Coros : st'[d] = "polling" <=> \E g \in Fds : d \in Sleepers(awaiters'[g])
    <3>1. \A d \in Coros : st[d] = "polling" <=> \E g \in Fds : d \in Sleepers(awaiters[g])
      BY DEF FdInv
    <3>2. \A g \in Fds \ {f} : Sleepers(awaiters'[g]) = Sleepers(awaiters[g])
      BY <2>11
    <3>3. \A d : d \in Sleepers(awaiters'[f]) <=> d \in Sleepers(awaiters[f]) \/ d = c
      BY <2>1, <2>9, <2>11
    <3>4. QED
      BY <2>3, <3>1, <3>2, <3>3
  <2>14. \A g \in Fds : Alone(awaiters'[g])
    BY <2>8, <2>11 DEF FdInv
  <2>15. \A g, h \in Fds : g # h => Sleepers(awaiters'[g]) \cap Sleepers(awaiters'[h]) = {}
    <3>1. \A g \in Fds : c \notin Sleepers(awaiters[g])
      BY <2>3 DEF FdInv
    <3>2. \A g \in Fds \ {f} : Sleepers(awaiters'[g]) = Sleepers(awaiters[g])
      BY <2>11
    <3>3. Sleepers(awaiters'[f]) = Sleepers(awaiters[f]) \cup {c}
      BY <2>1, <2>9, <2>11
    <3>4. \A g, h \in Fds : g # h => Sleepers(awaiters[g]) \cap Sleepers(awaiters[h]) = {}
      BY DEF FdInv
    <3>5. QED
      BY <3>1, <3>2, <3>3, <3>4
  <2>16. \A g \in Fds : \A i \in DOMAIN awaiters'[g] : awaiters'[g][i].event \in interest'[g]
    <3>1. \A i \in DOMAIN r : r[i].event \in interest'[f]
      <4> SUFFICES ASSUME NEW i \in DOMAIN r PROVE r[i].event \in interest'[f]
        OBVIOUS
      <4>1. CASE r[i] = a
        BY <1>3, <2>6, <4>1
      <4>2. ASSUME NEW j \in DOMAIN as, r[i] = as[j] PROVE r[i].event \in interest'[f]
        <5>1. as[j].event \in interest[f]
          BY <2>1 DEF FdInv
        <5>2. QED
          BY <1>3, <4>2, <5>1
      <4>3. QED
        BY <2>10, <4>1, <4>2 DEF AddedTo
    <3>2. QED
      BY <1>3, <2>11, <3>1 DEF FdInv
  <2>17. FdInv'
    BY <2>12, <2>13, <2>14, <2>15, <2>16 DEF FdInv
  <2>18. QED
    BY <1>3, <1>4, <2>3, <2>4, <2>17
<1>7. QED
  BY <1>5, <1>6

\* A coroutine that yields is still posted once.
LEMMA YieldStep ==
    ASSUME PlaceInv, NEW c \in Coros, Running(c), local' = Append(Tail(local), <<Loop, c>>)
    PROVE  /\ local' \in Seq(Threads \X Callbacks)
           /\ Who(local') = Who(local) /\ Once(local')
<1>1. PICK rest, T, U : rest = Who(pendingCallbacks) /\ T = Threads /\ U = Callbacks
  OBVIOUS
<1>2. Placed(rest) /\ Loop \in T /\ Coros \subseteq U /\ local \in Seq(T \X U)
  BY <1>1 DEF PlaceInv, Threads, Callbacks
<1>3. local' \in Seq(T \X U) /\ Who(local') = Who(local) /\ Once(local')
  BY <1>2, YieldKeeps
<1>4. QED
  BY <1>1, <1>3

\* onStopRequested() takes the awaiter of d out, and d is in no other.
LEMMA StopPollerKeeps ==
    ASSUME PlaceInv, FdInv, NEW c \in Coros, NEW d \in Coros, StopPoller(c, d),
           UNCHANGED pendingCallbacks
    PROVE  PlaceInv' /\ FdInv' /\ (Quit \in Who(local') <=> Quit \in Who(local))
<1>1. /\ Running(c) /\ slices[c] > 0 /\ slices' = [slices EXCEPT ![c] = @ - 1]
      /\ stopReq' = [stopReq EXCEPT ![d] = TRUE]
      /\ local' = Append(Tail(local), <<Loop, c>>)
      /\ st[d] = "polling" /\ st' = [st EXCEPT ![d] = "stopped"]
      /\ UNCHANGED <<mTimers, ready, kernel, interest>>
  BY DEF StopPoller, Request
<1>2. PICK f, as :
          /\ f \in Fds
          /\ as = awaiters[f]
          /\ \E i \in DOMAIN as : /\ as[i].who = d
                                  /\ awaiters' = [awaiters EXCEPT ![f] = RemoveAt(as, i)]
  BY DEF StopPoller
<1>f. f \in Fds
  BY <1>2
<1>3. PICK i \in DOMAIN as : /\ as[i].who = d
                             /\ awaiters' = [awaiters EXCEPT ![f] = RemoveAt(as, i)]
  BY <1>2
<1>4. PICK r : r = RemoveAt(as, i) /\ r = Erase(as, i)
  BY DEF RemoveAt, Erase
<1>5. as \in Seq(Awaiters) /\ Alone(as)
  BY <1>2 DEF FdInv, FdTypeOK, Awaiters
<1>6. i \in 1..Len(as)
  BY <1>5, SeqIs
<1>7. r \in Seq(Awaiters)
  BY <1>4, <1>5, <1>6, ErasedIs
<1>8. Sleepers(r) = Sleepers(as) \ {d} /\ Alone(r)
  <2>1. Alone(r)
    BY <1>4, <1>5, <1>6, ErasedIs
  <2>2. Sleepers(r) = Sleepers(as) \ {as[i].who}
    BY <1>4, <1>5, <1>6, ErasedIs
  <2>3. QED
    BY <1>3, <2>1, <2>2
<1>9. Within(r, as)
  BY <1>4, <1>5, <1>6, ErasedIs
<1>10. /\ local' \in Seq(Threads \X Callbacks) /\ Who(local') = Who(local) /\ Once(local')
  BY <1>1, YieldStep
<1>11. slices' \in [Coros -> 0..Slices] /\ stopReq' \in [Coros -> BOOLEAN]
  <2>1. slices' \in [Coros -> 0..Slices]
    BY <1>1, OneSliceLess DEF PlaceInv
  <2>2. QED
    BY <1>1, <2>1 DEF PlaceInv, ServiceTypes
<1>12. /\ st' \in [Coros -> Places \cup {"polling"}] /\ st'[d] = "stopped"
       /\ \A e \in Coros \ {d} : st'[e] = st[e]
  BY <1>1 DEF PlaceInv, Places
<1>13. PlaceInv'
  <2>1. \A e \in Coros : st'[e] = "ready" <=> st[e] = "ready"
    BY <1>1, <1>12
  <2>2. \A e \in Coros : st'[e] = "asleep" <=> st[e] = "asleep"
    BY <1>1, <1>12
  <2>3. Placed(Who(pendingCallbacks))'
    BY <1>1, <1>10, <2>1, <2>2 DEF PlaceInv, Placed
  <2>4. QED
    BY <1>1, <1>10, <1>11, <1>12, <2>3 DEF PlaceInv, ServiceTypes
<1>14. /\ awaiters' \in [Fds -> Seq(Awaiters)] /\ awaiters'[f] = r
       /\ \A g \in Fds \ {f} : awaiters'[g] = awaiters[g]
  <2>1. awaiters \in [Fds -> Seq(Awaiters)]
    BY DEF FdInv, FdTypeOK, Awaiters
  <2>2. QED
    BY <1>f, <1>3, <1>4, <1>7, <2>1
<1>15. FdTypeOK'
  BY <1>1, <1>14 DEF FdInv, FdTypeOK, Awaiters
<1>16. /\ \A g \in Fds \ {f} : Sleepers(awaiters'[g]) = Sleepers(awaiters[g])
       /\ Sleepers(awaiters'[f]) = Sleepers(awaiters[f]) \ {d}
  BY <1>2, <1>8, <1>14
<1>17. d \in Sleepers(awaiters[f])
  BY <1>2, <1>3 DEF Sleepers
<1>18. \A g, h \in Fds : g # h => Sleepers(awaiters[g]) \cap Sleepers(awaiters[h]) = {}
  BY DEF FdInv
<1>19. \A e \in Coros : st'[e] = "polling" <=> \E g \in Fds : e \in Sleepers(awaiters'[g])
  <2>1. \A g \in Fds \ {f} : d \notin Sleepers(awaiters[g])
    BY <1>f, <1>17, <1>18
  <2>2. \A g \in Fds : Sleepers(awaiters'[g]) = Sleepers(awaiters[g]) \ {d}
    BY <1>f, <1>16, <2>1
  <2>3. st'[d] # "polling" /\ \A e \in Coros \ {d} : st'[e] = st[e]
    BY <1>12
  <2>4. \A e \in Coros : st[e] = "polling" <=> \E g \in Fds : e \in Sleepers(awaiters[g])
    BY DEF FdInv
  <2>5. QED
    BY <2>2, <2>3, <2>4
<1>20. \A g \in Fds : Alone(awaiters'[g])
  BY <1>8, <1>14 DEF FdInv
<1>21. \A g, h \in Fds : g # h => Sleepers(awaiters'[g]) \cap Sleepers(awaiters'[h]) = {}
  BY <1>16, <1>18
<1>22. \A g \in Fds : \A j \in DOMAIN awaiters'[g] : awaiters'[g][j].event \in interest'[g]
  <2>1. ASSUME NEW j \in DOMAIN r PROVE r[j].event \in interest[f]
    <3>1. PICK k \in DOMAIN as : r[j] = as[k]
      BY <1>9 DEF Within
    <3>2. as[k].event \in interest[f]
      BY <1>2 DEF FdInv
    <3>3. QED
      BY <3>1, <3>2
  <2>2. QED
    BY <1>1, <1>14, <2>1 DEF FdInv
<1>23. FdInv'
  BY <1>15, <1>19, <1>20, <1>21, <1>22 DEF FdInv
<1>24. QED
  BY <1>10, <1>13, <1>23

-----------------------------------------------------------------------------
(* The events of the files.                                                *)

\* Those in told are told and those in rest stay, for the events in E, for which the
\* kernel watches again.
LEMMA ToldKeeps ==
    ASSUME PlaceInv, FdInv, ArmInv, NEW f \in Fds, NEW E \in SUBSET Events,
           NEW told \in Seq(Awaiters), NEW rest \in Seq(Awaiters), Alone(told), Alone(rest),
           Halves(awaiters[f], told, rest),
           \A j \in DOMAIN rest : rest[j].event \in E,
           Notify(told),
           awaiters' = [awaiters EXCEPT ![f] = rest],
           interest' = [interest EXCEPT ![f] = E],
           kernel' \in [Fds -> SUBSET (Events \cup {Hup})],
           E \subseteq kernel'[f], \A g \in Fds \ {f} : kernel'[g] = kernel[g],
           \A b \in batch : b.fd # f => b \in batch',
           UNCHANGED <<mTimers, stopReq, slices, pendingCallbacks, ready>>
    PROVE  /\ PlaceInv' /\ FdInv' /\ ArmInv'
           /\ Quit \in Who(local') <=> Quit \in Who(local)
<1>0. /\ Sleepers(awaiters[f]) = Sleepers(told) \cup Sleepers(rest)
      /\ Sleepers(told) \cap Sleepers(rest) = {}
  BY DEF Halves
<1>1. \A c \in Sleepers(told) : c \in Sleepers(awaiters[f])
  BY <1>0
<1>2. Sleepers(told) \subseteq Coros
  <2>1. \A i \in DOMAIN told : told[i] \in Awaiters
    BY SeqIs
  <2>2. QED
    BY <2>1 DEF Sleepers, Awaiters
<1>3. \A c \in Sleepers(told) : st[c] = "polling"
  BY <1>1, <1>2 DEF FdInv
<1>4. PlaceInv' /\ (Quit \in Who(local') <=> Quit \in Who(local))
  BY <1>3, NotifyKeeps
<1>5. \A c \in Coros : st'[c] = IF c \in Sleepers(told) THEN "ready" ELSE st[c]
  BY <1>3, NotifyKeeps
<1>6. /\ awaiters' \in [Fds -> Seq(Awaiters)] /\ awaiters'[f] = rest
      /\ \A g \in Fds \ {f} : awaiters'[g] = awaiters[g]
  <2>1. awaiters \in [Fds -> Seq(Awaiters)]
    BY DEF FdInv, FdTypeOK, Awaiters
  <2>2. QED
    BY <2>1
<1>7. /\ interest' \in [Fds -> SUBSET Events] /\ interest'[f] = E
      /\ \A g \in Fds \ {f} : interest'[g] = interest[g]
  BY DEF FdInv, FdTypeOK
<1>8. FdTypeOK'
  BY <1>6, <1>7 DEF FdInv, FdTypeOK, Awaiters
<1>9. /\ \A g \in Fds \ {f} : Sleepers(awaiters'[g]) = Sleepers(awaiters[g])
      /\ Sleepers(awaiters'[f]) = Sleepers(rest)
  BY <1>6
<1>10. \A g, h \in Fds : g # h => Sleepers(awaiters[g]) \cap Sleepers(awaiters[h]) = {}
  BY DEF FdInv
<1>11. \A c \in Coros : st'[c] = "polling" <=> \E g \in Fds : c \in Sleepers(awaiters'[g])
  <2>1. \A g \in Fds \ {f} : \A c \in Sleepers(told) : c \notin Sleepers(awaiters[g])
    BY <1>1, <1>10
  <2>2. QED
    BY <1>0, <1>5, <1>9, <2>1 DEF FdInv
<1>12. \A g \in Fds : Alone(awaiters'[g])
  BY <1>6 DEF FdInv
<1>13. \A g, h \in Fds : g # h => Sleepers(awaiters'[g]) \cap Sleepers(awaiters'[h]) = {}
  BY <1>0, <1>9, <1>10
<1>14. \A g \in Fds : \A j \in DOMAIN awaiters'[g] : awaiters'[g][j].event \in interest'[g]
  BY <1>6, <1>7 DEF FdInv
<1>15. FdInv'
  BY <1>8, <1>11, <1>12, <1>13, <1>14 DEF FdInv
<1>16. ArmInv'
  <2>1. ASSUME NEW g \in Fds \ {f}
        PROVE  interest'[g] \subseteq kernel'[g] \/ \E b \in batch' : b.fd = g
    BY <1>7 DEF ArmInv
  <2>2. interest'[f] \subseteq kernel'[f]
    BY <1>7
  <2>3. QED
    BY <2>1, <2>2 DEF ArmInv
<1>17. QED
  BY <1>4, <1>15, <1>16

LEMMA DispatchKeeps ==
    ASSUME PlaceInv, FdInv, ArmInv, NEW f \in Fds, NEW events, Dispatch(f, events),
           \A b \in batch : b.fd # f => b \in batch',
           UNCHANGED <<mTimers, stopReq, slices, pendingCallbacks, ready>>
    PROVE  /\ PlaceInv' /\ FdInv' /\ ArmInv'
           /\ Quit \in Who(local') <=> Quit \in Who(local)
<1> DEFINE told0   == Keep(awaiters[f], Told(f, events))
           rest0   == Keep(awaiters[f], DOMAIN awaiters[f] \ Told(f, events))
           wanted0 == {rest0[i].event : i \in DOMAIN rest0}
<1>1. \/ /\ Notify(told0)
         /\ awaiters' = [awaiters EXCEPT ![f] = rest0]
         /\ IF wanted0 # {} THEN Arm(f, wanted0)
                            ELSE /\ interest' = [interest EXCEPT ![f] = {}]
                                 /\ UNCHANGED kernel
      \/ /\ Notify(told0 \o rest0)
         /\ awaiters' = [awaiters EXCEPT ![f] = <<>>]
         /\ interest' = [interest EXCEPT ![f] = {}]
         /\ UNCHANGED kernel
  BY DEF Dispatch
<1>2. PICK as, I : as = awaiters[f] /\ I = Told(f, events)
  OBVIOUS
<1>3. PICK told, rest, wanted : told = told0 /\ rest = rest0 /\ wanted = wanted0
  OBVIOUS
<1>4. /\ told = Keep(as, I) /\ rest = Keep(as, DOMAIN as \ I)
      /\ wanted = {rest[i].event : i \in DOMAIN rest}
  BY <1>2, <1>3
<1> HIDE DEF told0, rest0, wanted0
<1>5. as \in Seq(Awaiters) /\ Alone(as) /\ I \in SUBSET DOMAIN as
  BY <1>2 DEF FdInv, FdTypeOK, Awaiters, Told
<1>6. told \in Seq(Awaiters) /\ rest \in Seq(Awaiters) /\ Alone(told) /\ Alone(rest)
  BY <1>4, <1>5, DividedAre
<1>7. Halves(as, told, rest)
  BY <1>4, <1>5, DividedAre
<1>8. wanted \in SUBSET Events /\ \A j \in DOMAIN rest : rest[j].event \in wanted
  <2>1. \A i \in DOMAIN rest : rest[i] \in Awaiters
    BY <1>6, SeqIs
  <2>2. QED
    BY <1>4, <2>1 DEF Awaiters
<1>9. kernel \in [Fds -> SUBSET (Events \cup {Hup})]
  BY DEF FdInv, FdTypeOK
<1>10. CASE /\ Notify(told)
            /\ awaiters' = [awaiters EXCEPT ![f] = rest]
            /\ IF wanted # {} THEN Arm(f, wanted)
                              ELSE /\ interest' = [interest EXCEPT ![f] = {}]
                                   /\ UNCHANGED kernel
  <2>1. interest' = [interest EXCEPT ![f] = wanted]
    BY <1>10 DEF Arm
  <2>2. /\ kernel' \in [Fds -> SUBSET (Events \cup {Hup})]
        /\ wanted \subseteq kernel'[f] /\ \A g \in Fds \ {f} : kernel'[g] = kernel[g]
    BY <1>8, <1>9, <1>10 DEF Arm
  <2>3. QED
    BY <1>2, <1>6, <1>7, <1>8, <1>10, <2>1, <2>2, ToldKeeps
<1>11. CASE /\ Notify(told \o rest)
            /\ awaiters' = [awaiters EXCEPT ![f] = <<>>]
            /\ interest' = [interest EXCEPT ![f] = {}]
            /\ UNCHANGED kernel
  <2>1. PICK all, none, E : all = told \o rest /\ none = <<>> /\ E = {}
    OBVIOUS
  <2>2. all \in Seq(Awaiters) /\ Alone(all)
    BY <1>6, <1>7, <2>1, AwaitersConcat DEF Halves
  <2>3. Sleepers(all) = Sleepers(told) \cup Sleepers(rest)
    BY <1>6, <1>7, <2>1, AwaitersConcat DEF Halves
  <2>4. /\ none \in Seq(Awaiters) /\ Alone(none) /\ Sleepers(none) = {}
        /\ \A j \in DOMAIN none : none[j].event \in E
    BY <2>1 DEF Alone, Sleepers
  <2>5. E \in SUBSET Events /\ E \subseteq kernel'[f] /\ \A g \in Fds \ {f} : kernel'[g] = kernel[g]
    BY <1>11, <2>1
  <2>6. /\ Notify(all) /\ awaiters' = [awaiters EXCEPT ![f] = none]
        /\ interest' = [interest EXCEPT ![f] = E]
        /\ kernel' \in [Fds -> SUBSET (Events \cup {Hup})]
    BY <1>9, <1>11, <2>1
  <2>7. Halves(awaiters[f], all, none)
    BY <1>2, <1>7, <2>3, <2>4 DEF Halves
  <2>8. QED
    BY <2>2, <2>4, <2>5, <2>6, <2>7, ToldKeeps
<1>12. QED
  BY <1>1, <1>3, <1>10, <1>11

-----------------------------------------------------------------------------
(* The other steps of the callbacks.                                       *)

QuitKept == Quit \in Who(local') \cup Who(pendingCallbacks') => QuitPosted

\* A step of PollSlice or updateTimers().
LEMMA CoroutineStep ==
    ASSUME PlaceInv, FdInv, ArmInv, now \in Nat,
           PollSlice \/ (UpdateTimers /\ UNCHANGED fdVars),
           UNCHANGED <<pendingCallbacks, batch>>
    PROVE  PlaceInv' /\ FdInv' /\ ArmInv' /\ QuitKept
<1>1. Quit \notin Coros
  BY EpollAssumption
<1>2. CASE (Slice \/ UpdateTimers) /\ UNCHANGED fdVars
  <2>1. PlaceInv' /\ OthersKept
    BY <1>2, ServiceStep
  <2>2. \A c \in Coros : st'[c] = "polling" <=> st[c] = "polling"
    BY <1>1, <2>1, OthersAre
  <2>3. Quit \in Who(local') <=> Quit \in Who(local)
    BY <1>1, <2>1, OthersAre
  <2>4. UNCHANGED <<ready, kernel, interest, awaiters>>
    BY <1>2 DEF fdVars
  <2>5. FdInv'
    BY <2>2, <2>4, FdKept DEF FdInv, FdTypeOK
  <2>6. ArmInv'
    BY <2>4 DEF ArmInv
  <2>7. QED
    BY <2>1, <2>3, <2>5, <2>6 DEF QuitKept, QuitPosted
<1>3. ASSUME NEW c \in Coros, NEW g \in Fds, NEW e \in Events, Poll(c, g, e)
      PROVE  PlaceInv' /\ FdInv' /\ ArmInv' /\ (Quit \in Who(local') <=> Quit \in Who(local))
  BY <1>3, PollKeeps
<1>4. ASSUME NEW c \in Coros, NEW d \in Coros, StopPoller(c, d)
      PROVE  PlaceInv' /\ FdInv' /\ ArmInv' /\ (Quit \in Who(local') <=> Quit \in Who(local))
  <2>1. PlaceInv' /\ FdInv' /\ (Quit \in Who(local') <=> Quit \in Who(local))
    BY <1>4, StopPollerKeeps
  <2>2. ArmInv'
    BY <1>4 DEF StopPoller, ArmInv
  <2>3. QED
    BY <2>1, <2>2
<1>5. QED
  BY <1>2, <1>3, <1>4 DEF PollSlice, QuitKept, QuitPosted

\* A coroutine goes on within its callback: nothing is moved.
LEMMA RunOnKeeps ==
    ASSUME PlaceInv, FdInv, ArmInv, RunOn
    PROVE  PlaceInv' /\ FdInv' /\ ArmInv' /\ QuitKept
<1>1. PICK c \in Coros, f \in Fds, e \in Events : PollFails(c, f, e) \/ TryIo(c, f, e)
  BY DEF RunOn
<1>2. /\ slices[c] > 0 /\ slices' = [slices EXCEPT ![c] = @ - 1]
      /\ UNCHANGED <<mTimers, local, st, stopReq, kernel, interest, awaiters>>
      /\ UNCHANGED <<pendingCallbacks, batch>>
  BY <1>1 DEF PollFails, TryIo, RunOn, fdVars, loopRest, wakeVars
<1>3. slices' \in [Coros -> 0..Slices]
  BY <1>2, OneSliceLess DEF PlaceInv
<1>4. PlaceInv'
  BY <1>2, <1>3 DEF PlaceInv, ServiceTypes, Placed
<1>5. ready' \in [Fds -> SUBSET (Events \cup {Hup})]
  <2>1. ready \in [Fds -> SUBSET (Events \cup {Hup})]
    BY DEF FdInv, FdTypeOK
  <2>2. CASE PollFails(c, f, e)
    BY <2>1, <2>2 DEF PollFails, fdVars
  <2>3. CASE TryIo(c, f, e)
    <3>1. PICK left \in {ready[f], ready[f] \ {e}} : ready' = [ready EXCEPT ![f] = left]
      BY <2>3 DEF TryIo
    <3>2. left \in SUBSET (Events \cup {Hup})
      BY <2>1
    <3>3. QED
      BY <2>1, <3>1, <3>2
  <2>4. QED
    BY <1>1, <2>2, <2>3
<1>6. FdInv'
  BY <1>2, <1>5, FdKept DEF FdInv, FdTypeOK
<1>7. QED
  BY <1>2, <1>4, <1>6 DEF ArmInv, QuitKept, QuitPosted

\* What is not about the coroutines and their callbacks leaves them where they are.
LEMMA RestKeeps ==
    ASSUME PlaceInv, FdInv, UNCHANGED <<mTimers, local, st, stopReq, slices, interest,
                                        awaiters, pendingCallbacks>>,
           ready' \in [Fds -> SUBSET (Events \cup {Hup})],
           kernel' \in [Fds -> SUBSET (Events \cup {Hup})]
    PROVE  PlaceInv' /\ FdInv' /\ QuitKept
<1>1. PlaceInv'
  BY DEF PlaceInv, ServiceTypes, Placed
<1>2. FdInv'
  BY FdKept
<1>3. QED
  BY <1>1, <1>2 DEF QuitKept, QuitPosted

\* The coroutine that stops run() posts the callback, which nobody has posted.
LEMMA RunLastKeeps ==
    ASSUME PlaceInv, FdInv, ArmInv, ~QuitPosted, NEW c \in Coros, RunLast(c)
    PROVE  PlaceInv' /\ FdInv' /\ ArmInv'
<1>1. PICK rest, T, U, q : /\ rest = Who(pendingCallbacks) /\ T = Threads /\ U = Callbacks
                           /\ q = Tail(local)
  OBVIOUS
<1>2. /\ Placed(rest) /\ Loop \in T /\ Quit \in U /\ local \in Seq(T \X U)
      /\ Quit \notin Coros /\ Quit \notin rest /\ Quit \notin Who(local)
  BY <1>1, EpollAssumption DEF PlaceInv, Threads, Callbacks, QuitPosted
<1>3. /\ Running(c) /\ st' = [st EXCEPT ![c] = "done"] /\ slices' = [slices EXCEPT ![c] = 0]
      /\ local' = Append(q, <<Loop, Quit>>)
      /\ UNCHANGED <<mTimers, stopReq, fdVars, pendingCallbacks, batch>>
  BY <1>1 DEF RunLast, wakeVars
<1>4. q \in Seq(T \X U) /\ Once(q)
  BY <1>1, <1>2, <1>3, RunningIs
<1>5. c \notin Who(q) /\ Who(local) = Who(q) \cup {c}
  BY <1>1, <1>2, <1>3, RunningIs
<1>6. c \notin rest /\ c \notin Sleepers(mTimers) /\ st[c] = "ready"
  BY <1>1, <1>2, <1>3, RunningIs
<1>7. Quit \notin Who(q)
  BY <1>2, <1>5
<1>8. local' \in Seq(T \X U) /\ Once(local')
  BY <1>2, <1>3, <1>4, <1>7, WhoAppend
<1>9. Who(local') = Who(q) \cup {Quit}
  BY <1>2, <1>3, <1>4, WhoAppend
<1>10. /\ st' \in [Coros -> Places \cup {"polling"}] /\ st'[c] = "done"
       /\ \A d \in Coros \ {c} : st'[d] = st[d]
  BY <1>3 DEF PlaceInv, Places
<1>11. \A d \in Coros : st'[d] = "ready" <=> d \in Who(local') \cup rest
  BY <1>2, <1>5, <1>6, <1>9, <1>10 DEF Placed
<1>12. \A d \in Coros : st'[d] = "asleep" <=> d \in Sleepers(mTimers)
  BY <1>2, <1>6, <1>10 DEF Placed
<1>13. Who(local') \cap rest = {}
  BY <1>2, <1>5, <1>9 DEF Placed
<1>14. Placed(Who(pendingCallbacks))'
  BY <1>1, <1>2, <1>3, <1>8, <1>11, <1>12, <1>13 DEF Placed
<1>15. slices' \in [Coros -> 0..Slices]
  BY <1>3, TimerAssumption DEF PlaceInv, ServiceTypes
<1>16. PlaceInv'
  BY <1>1, <1>3, <1>8, <1>10, <1>14, <1>15 DEF PlaceInv, ServiceTypes
<1>17. FdInv'
  <2>1. \A d \in Coros : st'[d] = "polling" <=> st[d] = "polling"
    BY <1>6, <1>10
  <2>2. QED
    BY <1>3, <2>1, FdKept DEF FdInv, FdTypeOK, fdVars
<1>18. QED
  BY <1>3, <1>16, <1>17 DEF ArmInv, fdVars

\* The callback of the stop runs: it was posted once.
LEMMA RunQuitKeeps ==
    ASSUME PlaceInv, FdInv, ArmInv, RunQuit
    PROVE  /\ PlaceInv' /\ FdInv' /\ ArmInv' /\ QuitPosted
           /\ Quit \notin Who(local') \cup Who(pendingCallbacks')
<1>1. PICK rest, T, U, q : /\ rest = Who(pendingCallbacks) /\ T = Threads /\ U = Callbacks
                           /\ q = Tail(local)
  OBVIOUS
<1>2. /\ Placed(rest) /\ local \in Seq(T \X U) /\ Quit \notin Coros
  BY <1>1, EpollAssumption DEF PlaceInv
<1>3. /\ local # <<>> /\ Head(local)[2] = Quit /\ local' = q
      /\ UNCHANGED <<mTimers, st, stopReq, slices, fdVars, pendingCallbacks, batch>>
  BY <1>1 DEF RunQuit, wakeVars
<1>4. q \in Seq(T \X U) /\ Quit \in Who(local)
  BY <1>1, <1>2, <1>3, WhoTail
<1>5. Once(local) => Once(q) /\ Quit \notin Who(q)
  BY <1>1, <1>2, <1>3, WhoTail
<1>6. Who(local) = Who(q) \cup {Quit}
  BY <1>1, <1>2, <1>3, WhoTail
<1>7. Once(q) /\ Quit \notin Who(q) /\ Quit \notin rest
  BY <1>2, <1>4, <1>5 DEF Placed
<1>8. \A d \in Coros : d \in Who(q) <=> d \in Who(local)
  BY <1>2, <1>6
<1>9. Placed(Who(pendingCallbacks))'
  BY <1>1, <1>2, <1>3, <1>6, <1>7, <1>8 DEF Placed
<1>10. PlaceInv'
  BY <1>1, <1>3, <1>4, <1>9 DEF PlaceInv, ServiceTypes
<1>11. FdInv'
  BY <1>3, FdKept DEF FdInv, FdTypeOK, fdVars
<1>12. QED
  BY <1>1, <1>3, <1>4, <1>7, <1>10, <1>11 DEF ArmInv, fdVars, QuitPosted

\* The posted callbacks become the thread's own.
LEMMA PollCallbacksKeeps ==
    ASSUME PlaceInv, FdInv, ArmInv, PollCallbacks
    PROVE  PlaceInv' /\ FdInv' /\ ArmInv' /\ QuitKept
<1>1. PICK T, U, q, r : /\ T = Threads /\ U = Callbacks
                        /\ q = local /\ q \in Seq(T \X U)
                        /\ r = pendingCallbacks /\ r \in Seq(T \X U)
  <2>1. local \in Seq(Threads \X Callbacks)
    BY DEF PlaceInv
  <2>2. pendingCallbacks \in Seq(Threads \X Callbacks)
    BY DEF PlaceInv, Threads
  <2>3. QED
    BY <2>1, <2>2, Zenon
<1>2. /\ local' = q \o r /\ pendingCallbacks' = <<>>
      /\ UNCHANGED <<mTimers, st, stopReq, slices, fdVars>>
  BY <1>1 DEF PollCallbacks
<1>3. Placed(Who(r)) /\ Once(r)
  BY <1>1 DEF PlaceInv
<1>4. Once(q) /\ Once(r) /\ Who(q) \cap Who(r) = {}
  BY <1>1, <1>3 DEF Placed
<1>5. q \o r \in Seq(T \X U)
  BY <1>1, WhoConcat
<1>6. Once(q \o r)
  BY <1>1, <1>4, WhoConcat
<1>7. ASSUME NEW u PROVE u \in Who(q \o r) <=> u \in Who(q) \/ u \in Who(r)
  BY <1>1, WhoConcat
<1>8. Who(<<>>) = {} /\ Once(<<>>)
  BY DEF Who, Once
<1>9. \A d \in Coros : st[d] = "ready" <=> d \in Who(q \o r)
  BY <1>1, <1>3, <1>7 DEF Placed
<1>10. \A d \in Coros : st'[d] = "ready" <=> d \in Who(local') \cup Who(pendingCallbacks')
  BY <1>2, <1>8, <1>9
<1>11. Placed(Who(pendingCallbacks))' /\ Once(pendingCallbacks)'
  BY <1>2, <1>3, <1>6, <1>8, <1>10 DEF Placed
<1>12. local' \in Seq(Threads \X Callbacks)
  BY <1>1, <1>2, <1>5
<1>13. pendingCallbacks' \in Seq(Others \X Callbacks)
  BY <1>2
<1>14. PlaceInv'
  BY <1>2, <1>11, <1>12, <1>13 DEF PlaceInv, ServiceTypes
<1>15. FdInv'
  BY <1>2, FdKept DEF FdInv, FdTypeOK, fdVars
<1>16. ArmInv'
  <2>1. PICK b \in batch : b.fd = EventFd /\ batch' = batch \ {b}
    BY DEF PollCallbacks
  <2>2. \A f \in Fds : f # EventFd
    BY EpollAssumption
  <2>3. QED
    BY <1>2, <2>1, <2>2 DEF ArmInv, fdVars
<1>17. QuitKept
  BY <1>1, <1>2, <1>7, <1>8 DEF QuitKept, QuitPosted
<1>18. QED
  BY <1>14, <1>15, <1>16, <1>17

\* post() of a coroutine that was parked, or of the callback of a stop that is posted
\* nowhere.
LEMMA PostedKeeps ==
    ASSUME PlaceInv, FdInv, ArmInv, NEW p \in Others, NEW u \in Callbacks,
           pendingCallbacks' = Append(pendingCallbacks, <<p, u>>),
           u \notin Who(local) \cup Who(pendingCallbacks),
           u \in Coros => st[u] = "parked" /\ st' = [st EXCEPT ![u] = "ready"],
           u \notin Coros => UNCHANGED st,
           UNCHANGED <<mTimers, local, stopReq, slices, fdVars, batch>>
    PROVE  PlaceInv' /\ FdInv' /\ ArmInv'
           /\ \A v : v \in Who(pendingCallbacks') => v \in Who(pendingCallbacks) \/ v = u
<1>1. PICK V, r : V = Callbacks /\ r = pendingCallbacks /\ r \in Seq(Others \X V)
  <2>1. pendingCallbacks \in Seq(Others \X Callbacks)
    BY DEF PlaceInv
  <2>2. QED
    BY <2>1, Zenon
<1>2. PICK a : a = Append(r, <<p, u>>)
  OBVIOUS
<1>3. a \in Seq(Others \X V)
  BY <1>1, <1>2, WhoAppend
<1>4. Who(a) = Who(r) \cup {u}
  BY <1>1, <1>2, WhoAppend
<1>5. Placed(Who(r)) /\ Once(r)
  BY <1>1 DEF PlaceInv
<1>6. Once(a)
  BY <1>1, <1>2, <1>5, WhoAppend
<1>7. pendingCallbacks' = a
  BY <1>1, <1>2
<1>8. /\ st' \in [Coros -> Places \cup {"polling"}]
      /\ \A d \in Coros : st'[d] = IF d = u THEN "ready" ELSE st[d]
      /\ u \in Coros => st[u] = "parked"
  BY DEF PlaceInv, Places
<1>9. \A d \in Coros : st'[d] = "ready" <=> d \in Who(local) \cup Who(a)
  BY <1>4, <1>5, <1>8 DEF Placed
<1>10. \A d \in Coros : st'[d] = "asleep" <=> d \in Sleepers(mTimers)
  BY <1>5, <1>8 DEF Placed
<1>11. Who(local) \cap Who(a) = {}
  BY <1>1, <1>4, <1>5 DEF Placed
<1>12. Placed(Who(pendingCallbacks))' /\ Once(pendingCallbacks)'
  BY <1>5, <1>6, <1>7, <1>9, <1>10, <1>11 DEF Placed
<1>13. PlaceInv'
  BY <1>1, <1>3, <1>7, <1>8, <1>12 DEF PlaceInv, ServiceTypes
<1>14. FdInv'
  <2>1. \A d \in Coros : st'[d] = "polling" <=> st[d] = "polling"
    BY <1>8
  <2>2. QED
    BY <2>1, FdKept DEF FdInv, FdTypeOK, fdVars
<1>15. QED
  BY <1>1, <1>4, <1>7, <1>13, <1>14 DEF ArmInv, fdVars

-----------------------------------------------------------------------------
(* The callback of a stop.                                                 *)

LEMMA QuitStays ==
    ASSUME QuitInv, QuitKept, UNCHANGED <<runStop, running>>,
           \A p \in Others : pc'[p] = "stop" => pc[p] = "stop",
           loopPc' = "returned" => loopPc = "returned" \/ ~running
    PROVE  QuitInv'
BY DEF QuitInv, QuitKept, QuitPosted

\* Every step keeps the coroutines, the descriptors and the callback of the stop.
LEMMA PlaceStep == IInv /\ [Next]_vars => PlaceInv' /\ FdInv' /\ ArmInv' /\ QuitInv'
<1> DEFINE Coroutines == PlaceInv' /\ FdInv' /\ ArmInv'
           Goal == Coroutines /\ QuitInv'
<1> SUFFICES ASSUME IInv, [Next]_vars PROVE Goal
  OBVIOUS
<1>0. PlaceInv /\ FdInv /\ ArmInv /\ QuitInv
  BY DEF IInv
<1>a. now \in Nat
  BY TimerAssumption DEF IInv, LoopTypes
<1>b. /\ ready \in [Fds -> SUBSET (Events \cup {Hup})]
      /\ kernel \in [Fds -> SUBSET (Events \cup {Hup})]
  BY <1>0 DEF FdInv, FdTypeOK
<1>c. EventFd \notin Fds /\ TimerFd \notin Fds /\ Quit \notin Coros
  BY EpollAssumption
<1>d. running \in BOOLEAN /\ runStop \in BOOLEAN
  BY DEF IInv, LoopTypes
<1>e. pc \in [Others -> {"idle", "stop", "write", "stopWrite"}]
  BY DEF IInv, WakeInv, WakeTypes
<1>1. CASE Update
  <2>1. /\ UpdateTimers /\ loopPc' = "callbacks"
        /\ UNCHANGED <<fdVars, pendingCallbacks, batch, running, runStop, pc>>
    BY <1>1 DEF Update, LoopGoTo, loopRest, wakeVars, threadVars
  <2>2. Coroutines /\ QuitKept
    BY <1>0, <1>a, <2>1, CoroutineStep
  <2>3. QED
    BY <1>0, <2>1, <2>2, QuitStays
<1>2. CASE RunCallback
  <2>1. /\ PollSlice /\ loopPc' = "update"
        /\ UNCHANGED <<pendingCallbacks, batch, running, runStop, pc>>
    BY <1>2 DEF RunCallback, LoopGoTo, loopRest, wakeVars, threadVars
  <2>2. Coroutines /\ QuitKept
    BY <1>0, <1>a, <2>1, CoroutineStep
  <2>3. QED
    BY <1>0, <2>1, <2>2, QuitStays
<1>3. CASE RunOn
  <2>1. UNCHANGED <<loopPc, running, runStop, pc>>
    BY <1>3 DEF RunOn, loopRest, threadVars
  <2>2. Coroutines /\ QuitKept
    BY <1>0, <1>3, RunOnKeeps
  <2>3. QED
    BY <1>0, <2>1, <2>2, QuitStays
<1>4. ASSUME NEW c \in Coros, RunLast(c) PROVE Goal
  <2>1. /\ ~runStop /\ runStop' = TRUE /\ loopPc' = "update" /\ UNCHANGED <<running, pc>>
    BY <1>4 DEF RunLast, LoopGoTo
  <2>2. ~QuitPosted /\ running /\ \A p \in Others : pc[p] # "stop"
    BY <1>0, <2>1 DEF QuitInv
  <2>3. Coroutines
    BY <1>0, <1>4, <2>2, RunLastKeeps
  <2>4. QuitInv'
    BY <2>1, <2>2 DEF QuitInv
  <2>5. QED
    BY <2>3, <2>4
<1>5. CASE RunQuit
  <2>1. /\ running' = FALSE /\ loopPc' = "update" /\ UNCHANGED <<runStop, pc>>
    BY <1>5 DEF RunQuit, LoopGoTo, threadVars
  <2>2. Coroutines /\ QuitPosted /\ Quit \notin Who(local') \cup Who(pendingCallbacks')
    BY <1>0, <1>5, RunQuitKeeps
  <2>3. runStop /\ \A p \in Others : pc[p] # "stop"
    BY <1>0, <2>2 DEF QuitInv
  <2>4. QuitInv'
    BY <2>1, <2>2, <2>3 DEF QuitInv, QuitPosted
  <2>5. QED
    BY <2>2, <2>4
<1>6. CASE BeginWait
  <2>1. /\ loopPc' = IF running THEN "wait" ELSE "returned"
        /\ UNCHANGED <<timerVars, fdVars, pendingCallbacks, batch, running, runStop, pc>>
    BY <1>6 DEF BeginWait, LoopGoTo, loopRest, wakeVars, threadVars
  <2>2. PlaceInv' /\ FdInv' /\ QuitKept
    BY <1>0, <1>b, <2>1, RestKeeps DEF timerVars, fdVars
  <2>3. ArmInv'
    BY <1>0, <2>1 DEF ArmInv, fdVars
  <2>4. QED
    BY <1>0, <2>1, <2>2, <2>3, QuitStays
<1>7. CASE Wake
  <2>1. /\ Spend /\ batch' = Happened /\ loopPc' = "events"
        /\ UNCHANGED <<timerVars, ready, interest, awaiters, pendingCallbacks, running,
                       runStop, pc>>
    BY <1>7 DEF Wake, LoopGoTo, wakeVars, threadVars
  <2>2. kernel' \in [Fds -> SUBSET (Events \cup {Hup})]
    BY <1>b, <2>1 DEF Spend
  <2>3. PlaceInv' /\ FdInv' /\ QuitKept
    BY <1>0, <1>b, <2>1, <2>2, RestKeeps DEF timerVars
  <2>4. loopPc = "wait" /\ batch = {}
    BY <1>7 DEF Wake, LoopGoTo, IInv, BatchTypes
  <2>5. ASSUME NEW f \in Fds
        PROVE  interest'[f] \subseteq kernel'[f] \/ \E b \in batch' : b.fd = f
    <3>1. CASE Reported(f) = {}
      BY <1>0, <2>1, <2>4, <3>1 DEF Spend, ArmInv
    <3>2. CASE Reported(f) # {}
      <4>1. [fd |-> f, events |-> Reported(f)] \in batch'
        BY <2>1, <3>2 DEF Happened
      <4>2. QED
        BY <4>1
    <3>3. QED
      BY <3>1, <3>2
  <2>6. ArmInv'
    BY <2>5 DEF ArmInv
  <2>7. QED
    BY <1>0, <2>1, <2>3, <2>6, QuitStays
<1>8. CASE FileEvent
  <2>1. PICK b \in batch : b.fd \in Fds /\ Dispatch(b.fd, b.events) /\ batch' = batch \ {b}
    BY <1>8 DEF FileEvent
  <2>2. UNCHANGED <<mTimers, stopReq, slices, ready, pendingCallbacks, loopPc, running,
                    runStop, pc>>
    BY <1>8 DEF FileEvent, wakeVars, threadVars
  <2>3. Coroutines /\ (Quit \in Who(local') <=> Quit \in Who(local))
    BY <1>0, <2>1, <2>2, DispatchKeeps
  <2>4. QuitKept
    BY <2>2, <2>3 DEF QuitKept, QuitPosted
  <2>5. QED
    BY <1>0, <2>2, <2>3, <2>4, QuitStays
<1>9. CASE PollCallbacks
  <2>1. loopPc' = "read" /\ UNCHANGED <<running, runStop, pc>>
    BY <1>9 DEF PollCallbacks, LoopGoTo, threadVars
  <2>2. Coroutines /\ QuitKept
    BY <1>0, <1>9, PollCallbacksKeeps
  <2>3. QED
    BY <1>0, <2>1, <2>2, QuitStays
<1>10. CASE ReadEventFd \/ EndBatch \/ Interrupted
  <2>1. /\ loopPc' # "returned"
        /\ UNCHANGED <<timerVars, fdVars, pendingCallbacks, batch, running, runStop, pc>>
    BY <1>10 DEF ReadEventFd, EndBatch, Interrupted, LoopGoTo, loopRest, wakeVars, threadVars
  <2>2. PlaceInv' /\ FdInv' /\ QuitKept
    BY <1>0, <1>b, <2>1, RestKeeps DEF timerVars, fdVars
  <2>3. ArmInv'
    BY <1>0, <2>1 DEF ArmInv, fdVars
  <2>4. QED
    BY <1>0, <2>1, <2>2, <2>3, QuitStays
<1>11. CASE TimerEvent
  <2>1. PICK b \in batch :
            /\ b.fd = TimerFd
            /\ \/ UpdateTimers /\ UNCHANGED batch
               \/ batch' = batch \ {b} /\ UNCHANGED timerVars
    BY <1>11 DEF TimerEvent
  <2>2. UNCHANGED <<fdVars, pendingCallbacks, loopPc, running, runStop, pc>>
    BY <1>11 DEF TimerEvent, wakeVars, threadVars
  <2>3. CASE UpdateTimers /\ UNCHANGED batch
    <3>1. Coroutines /\ QuitKept
      BY <1>0, <1>a, <2>2, <2>3, CoroutineStep
    <3>2. QED
      BY <1>0, <2>2, <3>1, QuitStays
  <2>4. CASE batch' = batch \ {b} /\ UNCHANGED timerVars
    <3>1. PlaceInv' /\ FdInv' /\ QuitKept
      BY <1>0, <1>b, <2>2, <2>4, RestKeeps DEF timerVars, fdVars
    <3>2. ArmInv'
      BY <1>0, <1>c, <2>1, <2>2, <2>4 DEF ArmInv, fdVars
    <3>3. QED
      BY <1>0, <2>2, <3>1, <3>2, QuitStays
  <2>5. QED
    BY <2>1, <2>3, <2>4
<1>12. CASE Enter
  <2>1. /\ loopPc = "returned" /\ loopPc' = "update" /\ running' = TRUE /\ runStop' = FALSE
        /\ \A p \in Others : pc[p] # "stop"
        /\ UNCHANGED <<timerVars, fdVars, pendingCallbacks, batch, pc>>
    BY <1>12 DEF Enter, LoopGoTo, wakeVars
  <2>2. PlaceInv' /\ FdInv' /\ QuitKept
    BY <1>0, <1>b, <2>1, RestKeeps DEF timerVars, fdVars
  <2>3. ArmInv'
    BY <1>0, <2>1 DEF ArmInv, fdVars
  <2>4. ~QuitPosted
    BY <1>0, <2>1 DEF QuitInv
  <2>5. QuitInv'
    BY <2>1, <2>2, <2>4 DEF QuitInv, QuitKept, QuitPosted
  <2>6. QED
    BY <2>2, <2>3, <2>5
<1>13. CASE Time \/ Files
  <2>1. UNCHANGED <<mTimers, local, st, stopReq, slices, interest, awaiters, kernel,
                    pendingCallbacks, batch, loopPc, running, runStop, pc>>
    BY <1>13 DEF Time, Tick, Files, FileChange, timerVars, fdVars, wakeVars, threadVars
  <2>2. ready' \in [Fds -> SUBSET (Events \cup {Hup})]
    <3>1. CASE Time
      BY <1>b, <3>1 DEF Time, fdVars
    <3>2. CASE Files
      <4>1. PICK f \in Fds, e \in Events \cup {Hup} : FileChange(f, e)
        BY <3>2 DEF Files
      <4>2. ready' = [ready EXCEPT ![f] = IF e \in @ THEN @ \ {e} ELSE @ \cup {e}]
        BY <4>1 DEF FileChange
      <4>3. QED
        BY <1>b, <4>2
    <3>3. QED
      BY <1>13, <3>1, <3>2
  <2>3. PlaceInv' /\ FdInv' /\ QuitKept
    BY <1>0, <1>b, <2>1, <2>2, RestKeeps
  <2>4. ArmInv'
    BY <1>0, <2>1 DEF ArmInv
  <2>5. QED
    BY <1>0, <2>1, <2>3, <2>4, QuitStays
<1>14. ASSUME NEW p \in Others, NEW c \in Coros, Post(p, c) PROVE Goal
  <2>1. /\ st[c] = "parked" /\ st' = [st EXCEPT ![c] = "ready"]
        /\ pendingCallbacks' = Append(pendingCallbacks, <<p, c>>)
        /\ pc' = [pc EXCEPT ![p] = IF wakePending THEN "idle" ELSE "write"]
        /\ UNCHANGED <<mTimers, local, stopReq, slices, fdVars, batch, loopPc, running,
                       runStop>>
    BY <1>14 DEF Post, PostWith, loopVars
  <2>2. c \notin Who(local) \cup Who(pendingCallbacks)
    BY <1>0, <2>1 DEF PlaceInv, Placed
  <2>3. c \in Callbacks /\ c # Quit
    BY <1>c DEF Callbacks
  <2>4. Coroutines
    BY <1>0, <2>1, <2>2, <2>3, PostedKeeps
  <2>5. \A v : v \in Who(pendingCallbacks') => v \in Who(pendingCallbacks) \/ v = c
    BY <1>0, <2>1, <2>2, <2>3, PostedKeeps
  <2>6. QuitKept
    BY <2>1, <2>3, <2>5 DEF QuitKept, QuitPosted
  <2>7. \A q \in Others : pc'[q] = "stop" => pc[q] = "stop"
    BY <1>e, <2>1
  <2>8. QED
    BY <1>0, <2>1, <2>4, <2>6, <2>7, QuitStays
<1>15. ASSUME NEW p \in Others, StopRun(p) PROVE Goal
  <2>1. /\ ~runStop /\ runStop' = TRUE /\ pc' = [pc EXCEPT ![p] = "stop"]
        /\ loopPc # "returned"
        /\ UNCHANGED <<mTimers, local, st, stopReq, slices, ready, kernel, interest, awaiters,
                       pendingCallbacks, batch, loopPc, running>>
    BY <1>15 DEF StopRun, loopVars, wakeVars, fdVars
  <2>2. PlaceInv' /\ FdInv' /\ QuitKept
    BY <1>0, <1>b, <2>1, RestKeeps
  <2>3. ArmInv'
    BY <1>0, <2>1 DEF ArmInv
  <2>4. ~QuitPosted /\ running /\ \A q \in Others : pc[q] # "stop"
    BY <1>0, <2>1 DEF QuitInv
  <2>5. \A q \in Others : pc'[q] = "stop" => q = p
    BY <1>e, <2>1, <2>4
  <2>6. QuitInv'
    BY <2>1, <2>2, <2>4, <2>5 DEF QuitInv, QuitKept, QuitPosted
  <2>7. QED
    BY <2>2, <2>3, <2>6
<1>16. ASSUME NEW p \in Others, PostQuit(p) PROVE Goal
  <2>1. /\ pc[p] = "stop"
        /\ pendingCallbacks' = Append(pendingCallbacks, <<p, Quit>>)
        /\ pc' = [pc EXCEPT ![p] = IF wakePending THEN "idle" ELSE "stopWrite"]
        /\ UNCHANGED <<mTimers, local, st, stopReq, slices, fdVars, batch, loopPc, running,
                       runStop>>
    BY <1>16 DEF PostQuit, PostWith, loopVars
  <2>2. runStop /\ running /\ ~QuitPosted /\ \A q \in Others : pc[q] = "stop" => q = p
    BY <1>0, <2>1 DEF QuitInv
  <2>3. Quit \in Callbacks /\ Quit \notin Who(local) \cup Who(pendingCallbacks)
    BY <2>2 DEF Callbacks, QuitPosted
  <2>4. Coroutines
    BY <1>0, <1>c, <2>1, <2>3, PostedKeeps
  <2>5. \A q \in Others : pc'[q] # "stop"
    BY <1>e, <2>1, <2>2
  <2>6. QuitInv'
    BY <1>0, <2>1, <2>2, <2>5 DEF QuitInv
  <2>7. QED
    BY <2>4, <2>6
<1>17. ASSUME NEW p \in Others, WriteEventFd(p) PROVE Goal
  <2>1. /\ pc' = [pc EXCEPT ![p] = "idle"]
        /\ UNCHANGED <<mTimers, local, st, stopReq, slices, ready, kernel, interest, awaiters,
                       pendingCallbacks, batch, loopPc, running, runStop>>
    BY <1>17 DEF WriteEventFd, loopVars, fdVars
  <2>2. PlaceInv' /\ FdInv' /\ QuitKept
    BY <1>0, <1>b, <2>1, RestKeeps
  <2>3. ArmInv'
    BY <1>0, <2>1 DEF ArmInv
  <2>4. \A q \in Others : pc'[q] = "stop" => pc[q] = "stop"
    BY <1>e, <2>1
  <2>5. QED
    BY <1>0, <2>1, <2>2, <2>3, <2>4, QuitStays
<1>18. CASE UNCHANGED vars
  <2>1. UNCHANGED <<timerVars, fdVars, pendingCallbacks, batch, loopPc, running, runStop, pc>>
    BY <1>18 DEF vars, wakeVars, threadVars
  <2>2. PlaceInv' /\ FdInv' /\ QuitKept
    BY <1>0, <1>b, <2>1, RestKeeps DEF timerVars, fdVars
  <2>3. ArmInv'
    BY <1>0, <2>1 DEF ArmInv, fdVars
  <2>4. QED
    BY <1>0, <2>1, <2>2, <2>3, QuitStays
<1>19. QED
  BY <1>1, <1>2, <1>3, <1>4, <1>5, <1>6, <1>7, <1>8, <1>9, <1>10, <1>11, <1>12, <1>13,
     <1>14, <1>15, <1>16, <1>17, <1>18
  DEF Next, LoopStep, ThreadStep

-----------------------------------------------------------------------------
(* The clock and the timerfd.                                              *)

LEMMA NextIs == PlaceInv => NextTimepoint \in 0..Never
BY NextTimepointIs DEF PlaceInv, Placed

\* timerChanged() leaves the timerfd set for the first timer, or that timer is due.
LEMMA ChangedKeeps ==
    ASSUME NEW fd, TimerChanged(fd), prevTimepoint = NextTimepoint,
           fd = timerfd \/ NextTimepoint' # NextTimepoint,
           timerfd = NextTimepoint \/ NextTimepoint <= now,
           timerfd \in 0..Never, now \in 0..MaxTime, NextTimepoint' \in 0..Never
    PROVE  /\ prevTimepoint' = NextTimepoint'
           /\ timerfd' = NextTimepoint' \/ NextTimepoint' <= now'
           /\ timerfd' \in 0..Never /\ now' \in 0..MaxTime
           /\ NextTimepoint' = NextTimepoint => timerfd' = timerfd
<1>0. MaxTime \in Nat /\ Never = MaxTime + 1
  BY TimerAssumption DEF Never
<1>1. PICK t, u, n : t = NextTimepoint /\ u = NextTimepoint' /\ n = now'
  OBVIOUS
<1>2. CASE u = t
  <2>1. timerfd' = timerfd /\ prevTimepoint' = t /\ now' = now
    BY <1>1, <1>2 DEF TimerChanged
  <2>2. QED
    BY <1>1, <1>2, <2>1
<1>3. CASE u # t
  <2>1. /\ prevTimepoint' = u
        /\ n \in {now, now + 1} \cap 0..MaxTime
        /\ timerfd' = TimerSetting(u, n)
    BY <1>1, <1>3 DEF TimerChanged
  <2>2. u \in 0..MaxTime + 1 /\ n \in 0..MaxTime
    BY <1>0, <1>1, <2>1
  <2>3. \/ u = Never /\ timerfd' = u
        \/ u > n /\ timerfd' = u
        \/ u = n /\ timerfd' = Never
        \/ u <= n /\ timerfd' = n
    BY <1>0, <2>1, <2>2 DEF TimerSetting
  <2>4. (timerfd' = u \/ u <= n) /\ timerfd' \in 0..Never
    BY <1>0, <2>2, <2>3
  <2>5. QED
    BY <1>1, <1>3, <2>1, <2>2, <2>4
<1>4. QED
  BY <1>2, <1>3

\* The timers and the timerfd are left alone, and the clock may go on.
LEMMA ClockStays ==
    ASSUME ClockInv, PlaceInv, UNCHANGED <<mTimers, timerfd, prevTimepoint>>,
           now \in 0..MaxTime, now' \in 0..MaxTime, now <= now',
           \/ loopPc' \notin {"wait", "callbacks"}
           \/ local' # <<>> /\ loopPc' # "wait"
           \/ UNCHANGED <<loopPc, local>>
           \/ loopPc = "callbacks" /\ local = <<>>
    PROVE  ClockInv'
<1>1. NextTimepoint' = NextTimepoint
  BY DEF NextTimepoint
<1>2. PICK t : t = NextTimepoint /\ t \in Nat
  BY NextIs, TimerAssumption DEF Never
<1>3. now \in Nat /\ now' \in Nat
  BY TimerAssumption
<1>4. t <= now => t <= now'
  BY <1>2, <1>3
<1>5. QED
  BY <1>1, <1>2, <1>4 DEF ClockInv

LEMMA ClockStep == IInv /\ [Next]_vars /\ PlaceInv' => ClockInv' /\ LoopTypes'
<1> DEFINE Clock == ClockInv' /\ timerfd' \in 0..Never /\ now' \in 0..MaxTime
           Rest == /\ loopPc' \in {"update", "callbacks", "wait", "events", "read", "returned"}
                   /\ running' \in BOOLEAN /\ runStop' \in BOOLEAN /\ calls' \in 0..Calls
           Goal == Clock /\ Rest
<1>a. PlaceInv' => (NextTimepoint \in 0..Never)'
  BY NextIs, PTL
<1> SUFFICES ASSUME IInv, [Next]_vars, PlaceInv' PROVE Goal
  BY DEF LoopTypes
<1>0. ClockInv /\ LoopTypes /\ PlaceInv
  BY DEF IInv
<1>b. /\ prevTimepoint = NextTimepoint
      /\ timerfd = NextTimepoint \/ NextTimepoint <= now
      /\ timerfd \in 0..Never /\ now \in 0..MaxTime /\ now \in Nat /\ now <= now
      /\ NextTimepoint' \in 0..Never
  BY <1>0, <1>a, TimerAssumption DEF ClockInv, LoopTypes
<1>c. ServiceTypes /\ local \in Seq(Threads \X Callbacks)
  BY <1>0 DEF PlaceInv
<1>d. /\ loopPc \in {"update", "callbacks", "wait", "events", "read", "returned"}
      /\ running \in BOOLEAN /\ runStop \in BOOLEAN /\ calls \in 0..Calls
  BY <1>0 DEF LoopTypes
<1>1. CASE Update
  <2>1. /\ UpdateTimers /\ TimerChanged(timerfd) /\ loopPc' = "callbacks"
        /\ UNCHANGED <<running, runStop, calls>>
    BY <1>1 DEF Update, LoopGoTo, loopRest, threadVars
  <2>2. /\ prevTimepoint' = NextTimepoint'
        /\ timerfd' = NextTimepoint' \/ NextTimepoint' <= now'
        /\ timerfd' \in 0..Never /\ now' \in 0..MaxTime
        /\ NextTimepoint' = NextTimepoint => timerfd' = timerfd
    BY <1>b, <2>1, ChangedKeeps
  <2>3. NextTimepoint' > now /\ (local' = <<>> => mTimers' = mTimers)
    BY <1>b, <1>c, <2>1, UpdateLeaves
  <2>4. ASSUME local' = <<>> PROVE timerfd' = NextTimepoint'
    <3>1. NextTimepoint' = NextTimepoint
      BY <2>3, <2>4 DEF NextTimepoint
    <3>2. PICK t : t = NextTimepoint /\ t \in Nat
      BY <1>0, NextIs, TimerAssumption DEF Never
    <3>3. ~(t <= now)
      BY <1>b, <2>3, <3>1, <3>2
    <3>4. QED
      BY <1>b, <2>2, <3>1, <3>2, <3>3
  <2>5. ClockInv'
    BY <2>1, <2>2, <2>4 DEF ClockInv
  <2>6. QED
    BY <1>d, <2>1, <2>2, <2>5
<1>2. CASE RunCallback
  <2>1. TimerChanged(timerfd) /\ loopPc' = "update" /\ UNCHANGED <<running, runStop, calls>>
    BY <1>2 DEF RunCallback, LoopGoTo, loopRest, threadVars
  <2>2. /\ prevTimepoint' = NextTimepoint'
        /\ timerfd' = NextTimepoint' \/ NextTimepoint' <= now'
        /\ timerfd' \in 0..Never /\ now' \in 0..MaxTime
    BY <1>b, <2>1, ChangedKeeps
  <2>3. ClockInv'
    BY <2>1, <2>2 DEF ClockInv
  <2>4. QED
    BY <1>d, <2>1, <2>2, <2>3
<1>3. CASE RunOn
  <2>1. UNCHANGED <<now, mTimers, local, timerfd, prevTimepoint, loopPc, running, runStop,
                    calls>>
    BY <1>3 DEF RunOn, PollFails, TryIo, loopRest, threadVars
  <2>2. QED
    BY <1>0, <1>b, <1>d, <2>1, ClockStays
<1>4. CASE TimerEvent
  <2>1. UNCHANGED <<loopPc, running, runStop, calls>> /\ loopPc = "events"
    BY <1>4 DEF TimerEvent, threadVars
  <2>2. CASE timerfd <= now /\ UpdateTimers /\ TimerChanged(Never)
    <3>1. NextTimepoint' > now
      BY <1>b, <1>c, <2>2, UpdateLeaves
    <3>2. PICK t, u : t = NextTimepoint /\ t \in Nat /\ u = NextTimepoint' /\ u \in Nat
      BY <1>0, <1>b, NextIs, TimerAssumption DEF Never
    <3>3. t <= now
      BY <1>b, <2>2, <3>2
    <3>4. u # t
      BY <1>b, <3>1, <3>2, <3>3
    <3>5. NextTimepoint' # NextTimepoint
      BY <3>2, <3>4
    <3>6. /\ prevTimepoint' = NextTimepoint'
          /\ timerfd' = NextTimepoint' \/ NextTimepoint' <= now'
          /\ timerfd' \in 0..Never /\ now' \in 0..MaxTime
      BY <1>b, <2>2, <3>5, ChangedKeeps
    <3>7. ClockInv'
      BY <2>1, <3>6 DEF ClockInv
    <3>8. QED
      BY <1>d, <2>1, <3>6, <3>7
  <2>3. CASE UNCHANGED <<timerVars, timerfd, prevTimepoint>>
    BY <1>0, <1>b, <1>d, <2>1, <2>3, ClockStays DEF timerVars
  <2>4. QED
    BY <1>4, <2>2, <2>3 DEF TimerEvent
<1>5. ASSUME NEW c \in Coros, RunLast(c) PROVE Goal
  <2>1. /\ loopPc' = "update" /\ runStop' = TRUE
        /\ UNCHANGED <<now, mTimers, timerfd, prevTimepoint, running, calls>>
    BY <1>5 DEF RunLast, LoopGoTo
  <2>2. QED
    BY <1>0, <1>b, <1>d, <2>1, ClockStays
<1>6. CASE RunQuit \/ ReadEventFd \/ EndBatch \/ Interrupted \/ Enter \/ Wake \/ PollCallbacks
  <2>1. /\ loopPc' \in {"update", "events", "read"}
        /\ UNCHANGED <<now, mTimers, timerfd, prevTimepoint, calls>>
        /\ running' \in {running, TRUE, FALSE} /\ runStop' \in {runStop, FALSE}
    BY <1>6 DEF RunQuit, ReadEventFd, EndBatch, Interrupted, Enter, Wake, PollCallbacks,
                LoopGoTo, loopRest, threadVars, timerVars
  <2>2. QED
    BY <1>0, <1>b, <1>d, <2>1, ClockStays
<1>7. CASE BeginWait
  <2>1. /\ local = <<>> /\ loopPc = "callbacks" /\ loopPc' \in {"wait", "returned"}
        /\ UNCHANGED <<timerVars, timerfd, prevTimepoint, running, runStop, calls>>
    BY <1>7 DEF BeginWait, LoopGoTo, loopRest, threadVars
  <2>2. QED
    BY <1>0, <1>b, <1>d, <2>1, ClockStays DEF timerVars
<1>8. CASE FileEvent
  <2>1. /\ loopPc = "events"
        /\ UNCHANGED <<now, mTimers, timerfd, prevTimepoint, loopPc, running, runStop, calls>>
    BY <1>8 DEF FileEvent, threadVars
  <2>2. QED
    BY <1>0, <1>b, <1>d, <2>1, ClockStays
<1>9. CASE Time
  <2>1. /\ now < MaxTime /\ now' = now + 1
        /\ UNCHANGED <<mTimers, local, timerfd, prevTimepoint, loopPc, running, runStop, calls>>
    BY <1>9 DEF Time, Tick, threadVars
  <2>2. now' \in 0..MaxTime /\ now <= now'
    BY <1>b, <2>1, TimerAssumption
  <2>3. QED
    BY <1>0, <1>b, <1>d, <2>1, <2>2, ClockStays
<1>10. CASE Files \/ UNCHANGED vars
  <2>1. UNCHANGED <<now, mTimers, local, timerfd, prevTimepoint, loopPc, running, runStop,
                    calls>>
    BY <1>10 DEF Files, vars, threadVars, timerVars
  <2>2. QED
    BY <1>0, <1>b, <1>d, <2>1, ClockStays
<1>11. ASSUME NEW p \in Others, (\E c \in Coros : Post(p, c)) \/ StopRun(p) \/ ThreadStep(p)
       PROVE  Goal
  <2>1. /\ UNCHANGED loopVars
        /\ calls' \in {calls, calls - 1} /\ (calls' # calls => calls > 0)
        /\ runStop' \in {runStop, TRUE}
    BY <1>11 DEF Post, StopRun, ThreadStep, PostQuit, WriteEventFd
  <2>2. UNCHANGED <<now, mTimers, local, timerfd, prevTimepoint, loopPc, running>>
    BY <2>1 DEF loopVars
  <2>3. calls' \in 0..Calls
    BY <1>d, <2>1, EpollAssumption
  <2>4. QED
    BY <1>0, <1>b, <1>d, <2>1, <2>2, <2>3, ClockStays
<1>12. QED
  BY <1>1, <1>2, <1>3, <1>4, <1>5, <1>6, <1>7, <1>8, <1>9, <1>10, <1>11
  DEF Next, LoopStep

\* What is reported is of a descriptor, and is processed before anything else.
LEMMA BatchStep == IInv /\ [Next]_vars => BatchTypes'
<1> DEFINE Batches == SUBSET [fd : Fds \cup {EventFd, TimerFd},
                              events : SUBSET (Events \cup {Hup})]
<1> SUFFICES ASSUME IInv, [Next]_vars PROVE BatchTypes'
  OBVIOUS
<1>0. batch \in Batches /\ (loopPc \notin {"events", "read"} => batch = {})
  BY DEF IInv, BatchTypes
<1>1. CASE Wake
  <2>1. loopPc' = "events" /\ batch' = Happened
    BY <1>1 DEF Wake, LoopGoTo
  <2>2. \A f \in Fds : Reported(f) \in SUBSET (Events \cup {Hup})
    BY DEF IInv, FdInv, FdTypeOK, Reported
  <2>3. ASSUME NEW b \in Happened
        PROVE  b \in [fd : Fds \cup {EventFd, TimerFd}, events : SUBSET (Events \cup {Hup})]
    BY <2>2 DEF Happened
  <2>4. QED
    BY <2>1, <2>3 DEF BatchTypes
<1>2. CASE FileEvent \/ TimerEvent \/ PollCallbacks
  <2>1. loopPc' \in {"events", "read"} /\ batch' \subseteq batch
    BY <1>2 DEF FileEvent, TimerEvent, PollCallbacks, LoopGoTo
  <2>2. QED
    BY <1>0, <2>1 DEF BatchTypes
<1>3. CASE ReadEventFd
  BY <1>0, <1>3 DEF ReadEventFd, LoopGoTo, BatchTypes
<1>4. CASE EndBatch
  BY <1>0, <1>4 DEF EndBatch, LoopGoTo, loopRest, BatchTypes
<1>5. CASE Update \/ RunCallback \/ RunOn \/ (\E c \in Coros : RunLast(c)) \/ RunQuit
           \/ BeginWait \/ Enter \/ Interrupted
  <2>1. loopPc \in {"update", "callbacks", "wait", "returned"} /\ UNCHANGED batch
    BY <1>5 DEF Update, RunCallback, RunOn, RunLast, RunQuit, BeginWait, Enter, Interrupted,
                LoopGoTo, loopRest
  <2>2. QED
    BY <1>0, <2>1 DEF BatchTypes
<1>6. CASE Time \/ Files \/ UNCHANGED vars
           \/ \E p \in Others : (\E c \in Coros : Post(p, c)) \/ StopRun(p) \/ ThreadStep(p)
  <2>1. UNCHANGED <<batch, loopPc>>
    BY <1>6 DEF Time, Files, vars, Post, StopRun, ThreadStep, PostQuit, WriteEventFd, loopVars
  <2>2. QED
    BY <1>0, <2>1 DEF BatchTypes
<1>7. QED
  BY <1>1, <1>2, <1>3, <1>4, <1>5, <1>6 DEF Next, LoopStep

-----------------------------------------------------------------------------
LEMMA InitIInv == Init => IInv
<1> SUFFICES ASSUME Init PROVE IInv
  OBVIOUS
<1>1. WakeInv
  BY WakeInit
<1>2. Who(<<>>) = {} /\ Once(<<>>) /\ Sleepers(<<>>) = {} /\ Alone(<<>>) /\ Sorted(<<>>)
  BY DEF Who, Once, Sleepers, Alone, Sorted
<1>3. /\ now = 0 /\ mTimers = <<>> /\ local = <<>> /\ pendingCallbacks = <<>>
      /\ st = [c \in Coros |-> "parked"]
      /\ stopReq = [c \in Coros |-> FALSE] /\ slices = [c \in Coros |-> Slices]
  BY DEF Init, TimerInit
<1>4. ServiceTypes
  BY <1>3, TimerAssumption DEF ServiceTypes
<1>5. Placed(Who(pendingCallbacks)) /\ Once(pendingCallbacks)
  BY <1>2, <1>3 DEF Placed
<1>6. st \in [Coros -> Places \cup {"polling"}]
  BY <1>3 DEF Places
<1>7. PlaceInv
  <2>1. <<>> \in Seq(Threads \X Callbacks) /\ <<>> \in Seq(Others \X Callbacks)
    OBVIOUS
  <2>2. QED
    BY <1>3, <1>4, <1>5, <1>6, <2>1 DEF PlaceInv
<1>8. FdTypeOK
  BY DEF Init, FdInit, FdTypeOK
<1>9. FdInv
  <2>1. /\ \A f \in Fds : awaiters[f] = <<>>
        /\ \A f \in Fds : DOMAIN awaiters[f] = {}
    BY DEF Init, FdInit
  <2>2. QED
    BY <1>2, <1>3, <1>8, <2>1 DEF FdInv
<1>10. ArmInv
  BY DEF Init, FdInit, ArmInv
<1>11. BatchTypes
  BY DEF Init, BatchTypes
<1>12. QuitInv
  BY <1>2, <1>3 DEF Init, QuitInv, QuitPosted
<1>13. ClockInv /\ LoopTypes
  <2>1. NextTimepoint = Never
    BY <1>3 DEF NextTimepoint
  <2>2. timerfd = Never /\ prevTimepoint = Never /\ loopPc = "update"
    BY DEF Init
  <2>3. ClockInv
    BY <2>1, <2>2 DEF ClockInv
  <2>4. Never \in 0..Never /\ 0 \in 0..MaxTime
    BY TimerAssumption DEF Never
  <2>5. running = TRUE /\ runStop = FALSE /\ calls = Calls
    BY DEF Init
  <2>6. Calls \in 0..Calls
    BY EpollAssumption
  <2>7. LoopTypes
    BY <1>3, <2>2, <2>4, <2>5, <2>6 DEF LoopTypes
  <2>8. QED
    BY <2>3, <2>7
<1>14. QED
  BY <1>1, <1>7, <1>9, <1>10, <1>11, <1>12, <1>13 DEF IInv

LEMMA NextIInv == IInv /\ [Next]_vars => IInv'
<1> SUFFICES ASSUME IInv, [Next]_vars PROVE IInv'
  OBVIOUS
<1>1. WakeInv'
  BY WakeStep DEF IInv
<1>2. PlaceInv' /\ FdInv' /\ ArmInv' /\ QuitInv'
  BY PlaceStep
<1>3. BatchTypes'
  BY BatchStep
<1>4. ClockInv' /\ LoopTypes'
  BY <1>2, ClockStep
<1>5. QED
  BY <1>1, <1>2, <1>3, <1>4 DEF IInv

LEMMA SpecIInv == Spec => []IInv
BY InitIInv, NextIInv, PTL DEF Spec

LEMMA TypeIs == IInv => TypeOK
<1> SUFFICES ASSUME IInv PROVE TypeOK
  OBVIOUS
<1>1. TimerTypeOK
  BY DEF IInv, PlaceInv, ServiceTypes, LoopTypes, TimerTypeOK, Timers
<1>2. FdTypeOK
  BY DEF IInv, FdInv
<1>3. /\ st \in [Coros -> Places \cup {"polling"}]
      /\ local \in Seq((Others \cup {Loop}) \X (Coros \cup {Quit}))
      /\ pendingCallbacks \in Seq(Others \X (Coros \cup {Quit}))
  BY DEF IInv, PlaceInv, Threads, Callbacks
<1>4. /\ wakePending \in BOOLEAN /\ eventfd \in BOOLEAN
      /\ pc \in [Others -> {"idle", "stop", "write", "stopWrite"}]
  BY DEF IInv, WakeInv, WakeTypes
<1>5. prevTimepoint \in 0..Never
  BY NextIs DEF IInv, ClockInv
<1>6. QED
  BY <1>1, <1>2, <1>3, <1>4, <1>5 DEF TypeOK, IInv, LoopTypes, BatchTypes

-----------------------------------------------------------------------------
\* Every variable keeps to its type: callbacks of coroutines and of the stop in the two
\* queues, awaiters of coroutines at the descriptors, settings of the timerfd within the
\* clock.
THEOREM TypeCorrect == Spec => []TypeOK
BY TypeIs, SpecIInv, PTL

\* A coroutine is posted once, has one timer, or waits with one awaiter, and is in one of
\* these places: whichever of a notification, a failed re-arming, a timeout and a stop
\* comes first takes it, and it is resumed once (epoll.cpp:107-149, 383-427).
THEOREM OneOfEach == Spec => []OnePlace
<1>1. IInv => OnePlace
  <2> SUFFICES ASSUME IInv PROVE OnePlace
    OBVIOUS
  <2>1. TypeOK /\ PlaceInv /\ FdInv
    BY TypeIs DEF IInv
  <2>2. PICK T, q, r : /\ T = Threads \X Callbacks
                       /\ q = local /\ q \in Seq(Threads \X Callbacks)
                       /\ r = pendingCallbacks /\ r \in Seq(Threads \X Callbacks)
    <3>1. local \in Seq(Threads \X Callbacks)
      BY <2>1 DEF PlaceInv
    <3>2. pendingCallbacks \in Seq(Threads \X Callbacks)
      BY <2>1 DEF PlaceInv, Threads
    <3>3. QED
      BY <3>1, <3>2, Zenon
  <2>3. Placed(Who(r)) /\ Once(r)
    BY <2>1, <2>2 DEF PlaceInv
  <2>4. Once(q) /\ Who(q) \cap Who(r) = {}
    BY <2>2, <2>3 DEF Placed
  <2>5. Once(q \o r)
    BY <2>2, <2>3, <2>4, WhoConcat
  <2>6. ASSUME NEW u PROVE u \in Who(q \o r) <=> u \in Who(q) \/ u \in Who(r)
    BY <2>2, WhoConcat
  <2>7. Posted = q \o r
    BY <2>2 DEF Posted
  <2>8. \A c \in Coros : st[c] = "ready" <=> \E i \in DOMAIN Posted : Posted[i][2] = c
    <3>1. \A c \in Coros : st[c] = "ready" <=> c \in Who(Posted)
      BY <2>2, <2>3, <2>6, <2>7 DEF Placed
    <3>2. QED
      BY <3>1 DEF Who
  <2>9. \A i, j \in DOMAIN Posted : Posted[i][2] = Posted[j][2] => i = j
    BY <2>5, <2>7 DEF Once
  <2>10. \A c \in Coros : st[c] = "asleep" <=> \E i \in DOMAIN mTimers : mTimers[i].who = c
    BY <2>3 DEF Placed, Sleepers
  <2>11. \A i, j \in DOMAIN mTimers : mTimers[i].who = mTimers[j].who => i = j
    BY <2>3 DEF Placed, Alone
  <2>12. \A c \in Coros : st[c] = "polling" <=>
             \E f \in Fds : \E i \in DOMAIN awaiters[f] : awaiters[f][i].who = c
    BY <2>1 DEF FdInv, Sleepers
  <2>13. ASSUME NEW f \in Fds, NEW g \in Fds, NEW i \in DOMAIN awaiters[f],
                NEW j \in DOMAIN awaiters[g], awaiters[f][i].who = awaiters[g][j].who
         PROVE  f = g /\ i = j
    <3>1. f = g
      BY <2>1, <2>13 DEF FdInv, Sleepers
    <3>2. QED
      BY <2>1, <2>13, <3>1 DEF FdInv, Alone
  <2>14. QED
    BY <2>1, <2>8, <2>9, <2>10, <2>11, <2>12, <2>13 DEF OnePlace
<1>2. QED
  BY <1>1, SpecIInv, PTL

\* The callback of a stop refers to a variable of run(): it has run when run() returns,
\* whoever requested the stop and whenever the thread slept (epoll.cpp:302-311).
THEOREM QuitRunsInTime == Spec => []QuitWithinRun
<1>1. IInv => QuitWithinRun
  <2> SUFFICES ASSUME IInv, loopPc = "returned"
               PROVE  /\ \A i \in DOMAIN Posted : Posted[i][2] # Quit
                      /\ \A p \in Others : pc[p] # "stop"
    BY DEF QuitWithinRun
  <2>1. ~running /\ ~QuitPosted /\ \A p \in Others : pc[p] # "stop"
    BY DEF IInv, QuitInv
  <2>2. PICK q, r : /\ q = local /\ q \in Seq(Threads \X Callbacks)
                    /\ r = pendingCallbacks /\ r \in Seq(Threads \X Callbacks)
    <3>1. local \in Seq(Threads \X Callbacks)
      BY DEF IInv, PlaceInv
    <3>2. pendingCallbacks \in Seq(Threads \X Callbacks)
      BY DEF IInv, PlaceInv, Threads
    <3>3. QED
      BY <3>1, <3>2, Zenon
  <2>3. Quit \notin Who(q \o r)
    BY <2>1, <2>2, WhoConcat DEF QuitPosted
  <2>4. Posted = q \o r
    BY <2>2 DEF Posted
  <2>5. QED
    BY <2>1, <2>3, <2>4 DEF Who
<1>2. QED
  BY <1>1, SpecIInv, PTL

\* While the thread sleeps the timerfd is set for the first timer, and the kernel watches
\* every file for which a coroutine polls, or has reported it: no report spends the one
\* shot of a waiter that stays, and no setting disarms a timer that is to come
\* (epoll.cpp:107-122, 203-223, 383-427).
THEOREM WokenInTime == Spec => []WakesInTime
<1>1. IInv => WakesInTime
  <2> SUFFICES ASSUME IInv PROVE WakesInTime
    OBVIOUS
  <2>1. loopPc = "wait" => timerfd = NextTimepoint
    BY DEF IInv, ClockInv
  <2>2. ASSUME NEW f \in Fds, NEW i \in DOMAIN awaiters[f]
        PROVE  awaiters[f][i].event \in kernel[f] \/ \E b \in batch : b.fd = f
    <3>1. awaiters[f][i].event \in interest[f]
      BY DEF IInv, FdInv
    <3>2. QED
      BY <3>1 DEF IInv, ArmInv
  <2>3. QED
    BY <2>1, <2>2 DEF WakesInTime
<1>2. QED
  BY <1>1, SpecIInv, PTL

-----------------------------------------------------------------------------
(* The executor that the context implements.                               *)

LEMMA AbstractStep ==
    ASSUME Serves(Threads, Posted, Posted')
    PROVE  Abstract!Next
BY DEF Serves, Behind, Pending, Threads, StartsWith,
       Abstract!Next, Abstract!Post, Abstract!Run, Abstract!Adds, Abstract!IsPrefix

\* The awaiters of a file are told: their callbacks come behind the thread's others.
LEMMA DispatchServes ==
    ASSUME FdTypeOK, NEW f \in Fds, NEW events, Dispatch(f, events),
           local \in Seq(Threads \X Callbacks), NEW rest \in Seq(Threads \X Callbacks),
           \A i \in DOMAIN rest : rest[i][1] # Loop
    PROVE  Serves(Threads, local \o rest, local' \o rest)
<1>1. PICK T, S, own : T = Threads /\ S = Threads \X Callbacks /\ own = local
  OBVIOUS
<1>2. ASSUME NEW as \in Seq(Awaiters), Notify(as)
      PROVE  Serves(T, own \o rest, local' \o rest)
  <2>1. PICK new : new = [i \in DOMAIN as |-> <<Loop, as[i].who>>]
    OBVIOUS
  <2>2. local' = own \o new
    BY <1>1, <1>2, <2>1 DEF Notify
  <2>3. new \in Seq(S) /\ \A i \in DOMAIN new : new[i][1] = Loop
    <3>1. Len(as) \in Nat /\ DOMAIN as = 1..Len(as) /\ \A i \in DOMAIN as : as[i] \in Awaiters
      BY SeqIs
    <3>2. \A i \in DOMAIN as : <<Loop, as[i].who>> \in S
      BY <1>1, <3>1 DEF Awaiters, Threads, Callbacks
    <3>3. PICK n \in Nat : n = Len(as)
      BY <3>1
    <3>4. new \in [1..n -> S]
      BY <2>1, <3>1, <3>2, <3>3
    <3>5. new \in Seq(S)
      BY <3>4, IsASeq
    <3>6. \A i \in DOMAIN new : new[i][1] = Loop
      BY <2>1
    <3>7. QED
      BY <3>5, <3>6
  <2>4. Loop \in T
    BY <1>1 DEF Threads
  <2>5. Serves(T, own \o rest, (own \o new) \o rest)
    <3>1. own \in Seq(S) /\ rest \in Seq(S)
      BY <1>1
    <3>2. QED
      BY <2>3, <2>4, <3>1, OwnPostServes
  <2>6. QED
    BY <2>2, <2>5
<1>3. PICK as, I, J : /\ as = awaiters[f] /\ I = Told(f, events)
                      /\ J = DOMAIN awaiters[f] \ Told(f, events)
  OBVIOUS
<1>4. as \in Seq(Awaiters) /\ I \in SUBSET DOMAIN as /\ J \in SUBSET DOMAIN as
  BY <1>3 DEF FdTypeOK, Awaiters, Told
<1>5. PICK told, left : told = Keep(as, I) /\ left = Keep(as, J)
  OBVIOUS
<1>6. told \in Seq(Awaiters) /\ left \in Seq(Awaiters)
  BY <1>4, <1>5, KeepIs
<1>7. Notify(told) \/ Notify(told \o left)
  BY <1>3, <1>5 DEF Dispatch
<1>8. told \o left \in Seq(Awaiters)
  BY <1>6
<1>9. QED
  BY <1>1, <1>2, <1>6, <1>7, <1>8

\* Every step serves the posters as module Executor says, or leaves the queues as they
\* are: who is woken to take the callbacks of the other threads puts them behind its own.
LEMMA NextImplements ==
    ASSUME IInv, [Next]_vars
    PROVE  Serves(Threads, Posted, Posted') \/ Posted' = Posted
<1> DEFINE Goal == Serves(Threads, Posted, Posted') \/ Posted' = Posted
<1>1. PICK T, U, rest : T = Threads /\ U = Callbacks /\ rest = pendingCallbacks
  OBVIOUS
<1>2. /\ ServiceTypes /\ now \in Nat /\ Loop \in T /\ Others \subseteq T
      /\ Coros \subseteq U /\ Quit \in U
      /\ local \in Seq(T \X U) /\ rest \in Seq(T \X U)
      /\ \A i \in DOMAIN rest : rest[i][1] # Loop
  <2>1. /\ ServiceTypes /\ now \in Nat
        /\ local \in Seq(Threads \X Callbacks) /\ rest \in Seq(Others \X Callbacks)
    BY <1>1, TimerAssumption DEF IInv, PlaceInv, LoopTypes
  <2>2. \A i \in DOMAIN rest : rest[i] \in Others \X Callbacks
    BY <2>1
  <2>3. \A i \in DOMAIN rest : rest[i][1] # Loop
    BY <2>2, EpollAssumption
  <2>4. QED
    BY <1>1, <2>1, <2>3 DEF Threads, Callbacks
<1>3. ASSUME UNCHANGED <<local, pendingCallbacks>>
      PROVE  Goal
  BY <1>3 DEF Posted
<1>4. ASSUME UNCHANGED pendingCallbacks, Serves(T, local \o rest, local' \o rest)
      PROVE  Goal
  BY <1>1, <1>4 DEF Posted
<1>5. ASSUME UNCHANGED pendingCallbacks, UpdateTimers
      PROVE  Goal
  <2>1. Serves(T, local \o rest, local' \o rest)
    BY <1>2, <1>5, UpdateServes
  <2>2. QED
    BY <1>4, <1>5, <2>1
<1>6. ASSUME UNCHANGED pendingCallbacks, PollSlice
      PROVE  Goal
  <2>1. CASE Slice
    <3>1. Serves(T, local \o rest, local' \o rest)
      BY <1>2, <2>1, SliceServes
    <3>2. QED
      BY <1>4, <1>6, <3>1
  <2>2. ASSUME NEW c \in Coros, NEW f \in Fds, NEW e \in Events, Poll(c, f, e)
        PROVE  Goal
    <3>1. local # <<>> /\ local' = Tail(local)
      BY <2>2 DEF Poll, Running
    <3>2. Serves(T, local \o rest, local' \o rest)
      BY <1>2, <3>1, TailServes
    <3>3. QED
      BY <1>4, <1>6, <3>2
  <2>3. ASSUME NEW c \in Coros, NEW d \in Coros, StopPoller(c, d)
        PROVE  Goal
    <3>1. local # <<>> /\ local' = Append(Tail(local), <<Loop, c>>) /\ c \in U
      BY <1>2, <2>3 DEF StopPoller, Request, Running
    <3>2. Serves(T, local \o rest, local' \o rest)
      BY <1>2, <3>1, TailServes
    <3>3. QED
      BY <1>4, <1>6, <3>2
  <2>4. QED
    BY <1>6, <2>1, <2>2, <2>3 DEF PollSlice
<1>7. CASE Update \/ TimerEvent
  BY <1>3, <1>5, <1>7 DEF Update, TimerEvent, loopRest, wakeVars, timerVars
<1>8. CASE RunCallback
  BY <1>6, <1>8 DEF RunCallback, loopRest, wakeVars
<1>9. CASE RunOn
  BY <1>3, <1>9 DEF RunOn, PollFails, TryIo, loopRest, wakeVars
<1>10. ASSUME NEW c \in Coros, RunLast(c)
       PROVE  Goal
  <2>1. local # <<>> /\ local' = Append(Tail(local), <<Loop, Quit>>)
    BY <1>10 DEF RunLast, Running
  <2>2. Serves(T, local \o rest, local' \o rest)
    BY <1>2, <2>1, TailServes
  <2>3. QED
    BY <1>4, <1>10, <2>2 DEF RunLast, wakeVars
<1>11. CASE RunQuit
  <2>1. local # <<>> /\ local' = Tail(local)
    BY <1>11 DEF RunQuit
  <2>2. Serves(T, local \o rest, local' \o rest)
    BY <1>2, <2>1, TailServes
  <2>3. QED
    BY <1>4, <1>11, <2>2 DEF RunQuit, wakeVars
<1>12. CASE FileEvent
  <2>1. PICK b \in batch : b.fd \in Fds /\ Dispatch(b.fd, b.events)
    BY <1>12 DEF FileEvent
  <2>2. Serves(Threads, local \o rest, local' \o rest)
    <3>1. FdTypeOK /\ local \in Seq(Threads \X Callbacks) /\ rest \in Seq(Threads \X Callbacks)
      BY <1>1, <1>2 DEF IInv, FdInv
    <3>2. QED
      BY <1>2, <2>1, <3>1, DispatchServes
  <2>3. QED
    BY <1>1, <1>4, <1>12, <2>2 DEF FileEvent, wakeVars
<1>13. CASE PollCallbacks
  <2>1. PICK own : own = local /\ own \in Seq(T \X U)
    BY <1>2
  <2>2. local' = own \o rest /\ pendingCallbacks' = <<>>
    BY <1>1, <1>13, <2>1 DEF PollCallbacks
  <2>3. own \o rest \in Seq(T \X U)
    BY <1>2, <2>1
  <2>4. (own \o rest) \o <<>> = own \o rest
    BY <2>3, ConcatEmptySeq
  <2>5. QED
    BY <1>1, <2>1, <2>2, <2>4 DEF Posted
<1>14. ASSUME NEW p \in Others, NEW u \in U, NEW write, PostWith(p, u, write), UNCHANGED local
       PROVE  Goal
  <2>1. PICK own, e : own = local /\ e = <<p, u>>
    OBVIOUS
  <2>2. own \in Seq(T \X U) /\ e \in T \X U /\ e[1] = p /\ p \in T
    BY <1>2, <2>1
  <2>3. Serves(T, own \o rest, own \o Append(rest, e))
    BY <1>2, <2>2, PostServes
  <2>4. local' = own /\ pendingCallbacks' = Append(rest, e)
    BY <1>1, <1>14, <2>1 DEF PostWith
  <2>5. QED
    BY <1>1, <2>1, <2>3, <2>4 DEF Posted
<1>15. CASE \E p \in Others : (\E c \in Coros : Post(p, c)) \/ StopRun(p) \/ ThreadStep(p)
  <2>1. ASSUME NEW p \in Others, NEW c \in Coros, Post(p, c)
        PROVE  Goal
    BY <1>2, <1>14, <2>1 DEF Post, loopVars
  <2>2. ASSUME NEW p \in Others, PostQuit(p)
        PROVE  Goal
    BY <1>2, <1>14, <2>2 DEF PostQuit, loopVars
  <2>3. ASSUME NEW p \in Others, StopRun(p) \/ WriteEventFd(p)
        PROVE  Goal
    BY <1>3, <2>3 DEF StopRun, WriteEventFd, loopVars, wakeVars
  <2>4. QED
    BY <1>15, <2>1, <2>2, <2>3 DEF ThreadStep
<1>16. CASE \/ BeginWait \/ Wake \/ ReadEventFd \/ EndBatch \/ Enter \/ Interrupted
            \/ Time \/ Files \/ UNCHANGED vars
  BY <1>3, <1>16 DEF BeginWait, Wake, ReadEventFd, EndBatch, Enter, Interrupted, Time, Tick,
                     Files, vars, timerVars, wakeVars, loopRest
<1>17. QED
  BY <1>7, <1>8, <1>9, <1>10, <1>11, <1>12, <1>13, <1>15, <1>16 DEF Next, LoopStep

\* The context is an executor: although posts are queued under a mutex, written to an
\* eventfd by one of the posters only, and taken by a thread that also posts itself and
\* tells pollers and sleepers, each callback runs once, and those of one poster in the
\* order in which it posted them (executor.hpp:28-37, epoll.cpp:284-357).
THEOREM ServesInOrder == Spec => ImplementsExecutor
<1>1. Init => Abstract!Init
  <2> SUFFICES ASSUME Init PROVE Abstract!Init
    OBVIOUS
  <2>1. local = <<>> /\ pendingCallbacks = <<>> /\ local \o pendingCallbacks = <<>>
    BY DEF Init, TimerInit
  <2>2. \A p : PostedBy(p, <<>>) = <<>>
    BY PostedByNone
  <2>3. Posted = <<>>
    BY <2>1 DEF Posted
  <2>4. QED
    BY <2>2, <2>3 DEF Abstract!Init
<1>2. ASSUME IInv, [Next]_vars
      PROVE  [Abstract!Next]_([p \in Others \cup {Loop} |-> PostedBy(p, Posted)])
  BY <1>2, NextImplements, AbstractStep
<1>3. QED
  BY <1>1, <1>2, SpecIInv, PTL DEF Spec, ImplementsExecutor, Abstract!Spec
=============================================================================
