----------------------------- MODULE ChannelProofs -----------------------------
(***************************************************************************)
(* Theorems of module Channel: the slots and the wakeups of a bounded      *)
(* channel, for any number of actors, any capacity and any calls.          *)
(***************************************************************************)
EXTENDS Channel, SequencesExt, FiniteSetTheorems, TLAPS

L == INSTANCE WaitQueueProofs WITH queue <- sendQ, qlock <- sendLock, pos <- sendPos, Rounds <- SendCalls

-----------------------------------------------------------------------------
(* The inductive invariant.                                                *)

\* Each wait queue's lock is held by the actor whose location says so.
LockInv ==
    \A t \in Threads :
        /\ sendLock = t <=> \/ pc[t] = "scan" /\ ToSenders(t)
                            \/ pc[t] = "stopUnlink" /\ OnSenders(t)
        /\ recvLock = t <=> \/ pc[t] = "scan" /\ ~ToSenders(t)
                            \/ pc[t] = "stopUnlink" /\ ~OnSenders(t)

InCall == S!Suspended \cup {"suspend", "stopSet", "stopped"}

\* An actor makes the calls of its side; while it waits its end is alive and it has no
\* permit; whoever wakes because of a close has closed.
CallInv(t) ==
    /\ OnSenders(t) => t \in senders
    /\ op[t] = "recv" => t \in receivers
    /\ pc[t] \in InCall => t \in ends \ permits /\ op[t] \in {"send", "reserve", "recv"}
    /\ pc[t] \in {"wake", "scan"} => op[t] \in {"send", "recv", "return", "close"}
    /\ pc[t] \in {"wake", "scan"} /\ op[t] = "close" =>
          IF t \in senders THEN senderClosed ELSE receiverClosed
    /\ pc[t] \in {"wake", "scan"} /\ op[t] = "send" /\ ~PermitOutlivesSender => t \in ends
    /\ t \in permits => t \in senders /\ (~PermitOutlivesSender => t \in ends)

OpInv == \A t \in Threads : CallInv(t)

\* Each queue holds waiters of its side, each once.
QueueInv ==
    /\ \A w \in ToSet(sendQ) : w \in linked /\ OnSenders(w) /\ pc[w] \in S!Suspended
    /\ \A w \in ToSet(recvQ) : w \in linked /\ op[w] = "recv" /\ pc[w] \in S!Suspended
    /\ L!Once(sendQ) /\ L!Once(recvQ)

\* No wakeupAll() has taken t's queue.
SideOpen(t) == IF t \in senders THEN ~receiverClosed ELSE kind = "mpsc" \/ ~senderClosed

InQueue(t) == t \in ToSet(sendQ) \cup ToSet(recvQ)

\* What WaitQueueProofs says of a waiter whom no wakeupAll() has decided.
Clean(t) ==
    /\ t \in linked <=> pc[t] \in S!Suspended /\ waiting[t]
    /\ pc[t] = "stopUnlink" => waiting[t]
    /\ pc[t] = "suspend" => waiting[t] /\ (blocking[t] <=> t \in Plain)
    /\ pc[t] = "blocked" => t \in Plain
    /\ pc[t] \in S!Suspended \ {"blocked"} => t \in Coros /\ ~blocking[t]
    /\ t \in linked => (blocking[t] <=> t \in Plain)
    /\ \A u \in Threads : t \notin ToSet(ready[u])
    /\ \A u \in Threads : cur[u] = t =>
          S!Granted(t) /\ posted[t] = 0 /\ (blocking[t] <=> t \in Plain)
    /\ \A u, v \in Threads : cur[u] = t /\ cur[v] = t => u = v
    /\ posted[t] # 0 => S!Granted(t) /\ posted[t] = 1 /\ t \in Coros

WaiterInv == \A t \in Threads : SideOpen(t) \/ InQueue(t) => Clean(t)

\* A closed channel that a Permit has sent to afterwards.
Late(t) == PermitOutlivesSender /\ senderClosed /\ t \in receivers

\* What a call took is known to a waiter that was decided, and to no other.
TookInv(t) ==
    /\ got[t] => S!Granted(t) \/ Late(t)
    /\ t \in linked \/ pc[t] \in {"stopUnlink", "stopSet", "stopped"} => ~got[t] \/ Late(t)

GotInv == \A t \in Threads : TookInv(t)

\* The scan that closes a side wakes from the front until the queue is empty; and no
\* item is left for it to give.
CloseInv ==
    /\ \A t \in Threads : pc[t] = "scan" /\ WakesAll(t) =>
          IF t \in receivers THEN sendPos = 1 ELSE recvPos = 1
    /\ ~PermitOutlivesSender /\ senderClosed => size = 0 \/ recvQ = <<>>

\* An mpsc channel has one receiver.
KindInv == kind = "mpsc" => \E r \in Threads : receivers = {r}

IInv ==
    /\ SlotsAccounted /\ EnoughWakeups
    /\ LockInv /\ OpInv /\ QueueInv /\ WaiterInv /\ GotInv /\ CloseInv /\ KindInv

-----------------------------------------------------------------------------
(* Types.                                                                  *)

\* The types of the state but for the bound of size and reserved.
ListTypes ==
    /\ sendQ \in Seq(Threads) /\ recvQ \in Seq(Threads)
    /\ ready \in [Threads -> Seq(Threads)]

WaiterTypes ==
    /\ sendLock \in Threads \cup {None} /\ recvLock \in Threads \cup {None}
    /\ sendPos \in Nat \ {0} /\ recvPos \in Nat \ {0}
    /\ cur \in [Threads -> Threads \cup {None}]
    /\ linked \subseteq Threads
    /\ waiting \in [Threads -> BOOLEAN]
    /\ blocking \in [Threads -> BOOLEAN]
    /\ posted \in [Threads -> Nat]
    /\ stopReq \in [Threads -> BOOLEAN]

Types ==
    /\ ListTypes /\ WaiterTypes
    /\ pc \in [Threads -> S!WQLocations]
    /\ kind \in {"mpsc", "mpmc"}
    /\ senders \subseteq Threads /\ ends \subseteq Threads /\ permits \subseteq Threads
    /\ op \in [Threads -> Ops]
    /\ got \in [Threads -> BOOLEAN]
    /\ left \in [Threads -> Nat]

LEMMA RemoveKeeps ==
    ASSUME NEW T, NEW q \in Seq(T), NEW i \in 1..Len(q)
    PROVE  /\ S!RemoveAt(q, i) \in Seq(T) /\ R!RemoveAt(q, i) \in Seq(T)
           /\ S!RemoveAt(q, i) = R!RemoveAt(q, i)
           /\ Len(S!RemoveAt(q, i)) = Len(q) - 1
           /\ L!Once(q) => /\ L!Once(S!RemoveAt(q, i))
                           /\ L!Without(S!RemoveAt(q, i), q, i)
  BY ChannelAssumption, L!RemoveAtProperties, L!RemoveAtOnce
     DEF S!RemoveAt, R!RemoveAt, L!RemoveAt, Threads

LEMMA StepMoves ==
    ASSUME Types, NEW t \in Threads, Step(t) \/ Lock(t) \/ Stop(t)
    PROVE  \E to \in S!WQLocations : pc' = [pc EXCEPT ![t] = to]
  <1> USE DEF S!GoTo, R!GoTo, S!WQLocations, S!Suspended
  <1>1. CASE UNCHANGED pc
    <2>1. pc' = [pc EXCEPT ![t] = pc[t]]
      BY <1>1 DEF Types
    <2>2. QED
      BY <2>1 DEF Types
  <1>2. CASE QueueStep(t)
    BY <1>2 DEF QueueStep, S!RegisterStop, S!StopRead, S!StopLock, S!StopUnlink,
                S!SetStopped, S!WakeLock, R!StopLock, R!StopUnlink, R!WakeLock
  <1>3. CASE WakeEnd(t)
    BY <1>3 DEF WakeEnd, S!ScanEnd, R!ScanEnd, S!Pick, S!Resume
  <1>4. CASE WakeHit(t) \/ WakeMiss(t)
    BY <1>1, <1>4 DEF WakeHit, WakeMiss, S!WakeOne, S!WakeMore, S!Skip, R!WakeOne,
                      R!WakeMore, R!Skip
  <1>5. CASE TrySend(t) \/ TryReserve(t) \/ TryRecv(t)
    BY <1>1, <1>5 DEF TrySend, TryReserve, TryRecv, TryNow, After
  <1>6. CASE \/ Send(t) \/ Reserve(t) \/ Recv(t) \/ BlockingSend(t) \/ BlockingRecv(t)
             \/ PermitSend(t) \/ PermitClose(t) \/ Drop(t)
    BY <1>6 DEF Send, Reserve, Recv, BlockingSend, BlockingRecv, Begin, S!Construct,
                PermitSend, PermitClose, UsePermit, Drop
  <1>7. CASE (\E took \in BOOLEAN : NoWait(t, took)) \/ Wait(t) \/ Resumed(t)
    BY <1>7 DEF NoWait, Wait, Resumed, S!DontSuspend, R!DontSuspend, S!Park, R!Park,
                S!Resumed, S!Unblocked, After
  <1>8. CASE Lock(t)
    BY <1>1, <1>8 DEF Lock, waiterVars
  <1>9. CASE Stop(t)
    BY <1>1, <1>9 DEF Stop, S!StopRequest
  <1>10. QED
    BY <1>2, <1>3, <1>4, <1>5, <1>6, <1>7, <1>8, <1>9 DEF Step

LEMMA ReadyUpdate ==
    ASSUME NEW f \in [Threads -> Seq(Threads)], NEW u \in Threads, NEW x \in Seq(Threads)
    PROVE  [f EXCEPT ![u] = x] \in [Threads -> Seq(Threads)]
  OBVIOUS

LEMMA QueueUpdate ==
    ASSUME NEW q \in Seq(Threads), NEW i \in DOMAIN q
    PROVE  S!RemoveAt(q, i) \in Seq(Threads) /\ R!RemoveAt(q, i) \in Seq(Threads)
  BY RemoveKeeps

\* The queues and the lists of wakeupAll() change by one element at a time.
LEMMA StepLists ==
    ASSUME ListTypes, NEW t \in Threads, Step(t) \/ Lock(t) \/ Stop(t)
    PROVE  /\ \/ UNCHANGED sendQ
              \/ Wait(t) /\ OnSenders(t) /\ sendQ' = Append(sendQ, t)
              \/ \E i \in DOMAIN sendQ : sendQ' = S!RemoveAt(sendQ, i)
           /\ \/ UNCHANGED recvQ
              \/ Wait(t) /\ ~OnSenders(t) /\ recvQ' = Append(recvQ, t)
              \/ \E i \in DOMAIN recvQ : recvQ' = R!RemoveAt(recvQ, i)
           /\ \/ UNCHANGED ready
              \/ \E u \in Threads : \E i \in DOMAIN ready[u] :
                     \/ ready' = [ready EXCEPT ![u] = S!RemoveAt(@, i)]
                     \/ ready' = [ready EXCEPT ![u] = R!RemoveAt(@, i)]
              \/ ready[t] # <<>> /\ ready' = [ready EXCEPT ![t] = Tail(@)]
              \/ \E i \in DOMAIN sendQ : ready' = [ready EXCEPT ![t] = Append(@, sendQ[i])]
              \/ \E i \in DOMAIN recvQ : ready' = [ready EXCEPT ![t] = Append(@, recvQ[i])]
  <1> USE DEF sendVars, recvVars
  <1>1. CASE QueueStep(t)
    <2>1. CASE S!StopUnlink(t) /\ UNCHANGED recvVars
      BY <2>1 DEF S!StopUnlink, S!Unlink, S!Threads, Threads
    <2>2. CASE R!StopUnlink(t) /\ UNCHANGED sendVars
      BY <2>2 DEF R!StopUnlink, R!Unlink, R!Threads, Threads
    <2>3. QED
      BY <1>1, <2>1, <2>2
         DEF QueueStep, S!RegisterStop, S!StopRead, S!StopLock,
             S!SetStopped, S!WakeLock, R!StopLock, R!WakeLock
  <1>2. CASE WakeEnd(t)
    BY <1>2 DEF WakeEnd, S!ScanEnd, R!ScanEnd, S!Pick, S!Resume, S!PopFront
  <1>3. CASE WakeHit(t)
    BY <1>3 DEF WakeHit, S!AtWaiter, S!WakeMore, S!WakeOne, R!AtWaiter, R!WakeMore,
                R!WakeOne
  <1>4. CASE Wait(t)
    BY <1>4 DEF Wait, S!Park, R!Park
  <1>5. CASE WakeMiss(t) \/ Lock(t) \/ Stop(t)
    BY <1>5 DEF WakeMiss, S!Skip, R!Skip, Lock, waiterVars, Stop, S!StopRequest
  <1>6. CASE \/ TrySend(t) \/ TryReserve(t) \/ TryRecv(t)
             \/ PermitSend(t) \/ PermitClose(t) \/ Drop(t)
    BY <1>6 DEF TrySend, TryReserve, TryRecv, TryNow, PermitSend, PermitClose, UsePermit,
                Drop
  <1>7. CASE Send(t) \/ Reserve(t) \/ Recv(t) \/ BlockingSend(t) \/ BlockingRecv(t)
    BY <1>7 DEF Send, Reserve, Recv, BlockingSend, BlockingRecv, Begin, S!Construct
  <1>8. CASE (\E took \in BOOLEAN : NoWait(t, took)) \/ Resumed(t)
    BY <1>8 DEF NoWait, S!DontSuspend, R!DontSuspend, Resumed, S!Resumed, S!Unblocked
  <1>9. QED
    BY <1>1, <1>2, <1>3, <1>4, <1>5, <1>6, <1>7, <1>8 DEF Step

LEMMA StepListTypes ==
    ASSUME Types, NEW t \in Threads, Step(t) \/ Lock(t) \/ Stop(t)
    PROVE  ListTypes'
  <1>1. /\ sendQ \in Seq(Threads) /\ recvQ \in Seq(Threads)
        /\ ready \in [Threads -> Seq(Threads)]
        /\ ListTypes
    BY DEF Types, ListTypes
  <1>2. sendQ' \in Seq(Threads)
    <2>1. \/ UNCHANGED sendQ
          \/ sendQ' = Append(sendQ, t)
          \/ \E i \in DOMAIN sendQ : sendQ' = S!RemoveAt(sendQ, i)
      BY <1>1, StepLists
    <2>2. ASSUME NEW i \in DOMAIN sendQ
          PROVE  S!RemoveAt(sendQ, i) \in Seq(Threads)
      BY <1>1, QueueUpdate
    <2>3. Append(sendQ, t) \in Seq(Threads)
      BY <1>1
    <2>4. QED
      BY <1>1, <2>1, <2>2, <2>3
  <1>3. recvQ' \in Seq(Threads)
    <2>1. \/ UNCHANGED recvQ
          \/ recvQ' = Append(recvQ, t)
          \/ \E i \in DOMAIN recvQ : recvQ' = R!RemoveAt(recvQ, i)
      BY <1>1, StepLists
    <2>2. ASSUME NEW i \in DOMAIN recvQ
          PROVE  R!RemoveAt(recvQ, i) \in Seq(Threads)
      BY <1>1, QueueUpdate
    <2>3. Append(recvQ, t) \in Seq(Threads)
      BY <1>1
    <2>4. QED
      BY <1>1, <2>1, <2>2, <2>3
  <1>4. ready' \in [Threads -> Seq(Threads)]
    <2>1. CASE UNCHANGED ready
      BY <1>1, <2>1
    <2>2. ASSUME NEW u \in Threads, NEW i \in DOMAIN ready[u],
                 \/ ready' = [ready EXCEPT ![u] = S!RemoveAt(@, i)]
                 \/ ready' = [ready EXCEPT ![u] = R!RemoveAt(@, i)]
          PROVE  ready' \in [Threads -> Seq(Threads)]
      <3>1. ready[u] \in Seq(Threads)
        BY <1>1
      <3>2. /\ S!RemoveAt(ready[u], i) \in Seq(Threads)
            /\ R!RemoveAt(ready[u], i) \in Seq(Threads)
        BY <3>1, QueueUpdate
      <3>3. QED
        BY <1>1, <2>2, <3>2, ReadyUpdate
    <2>3. CASE ready[t] # <<>> /\ ready' = [ready EXCEPT ![t] = Tail(@)]
      <3>1. Tail(ready[t]) \in Seq(Threads)
        BY <1>1, <2>3
      <3>2. QED
        BY <1>1, <2>3, <3>1, ReadyUpdate
    <2>4. ASSUME NEW w \in Threads, ready' = [ready EXCEPT ![t] = Append(@, w)]
          PROVE  ready' \in [Threads -> Seq(Threads)]
      <3>1. Append(ready[t], w) \in Seq(Threads)
        BY <1>1
      <3>2. QED
        BY <1>1, <2>4, <3>1, ReadyUpdate
    <2>5. /\ \A i \in DOMAIN sendQ : sendQ[i] \in Threads
          /\ \A i \in DOMAIN recvQ : recvQ[i] \in Threads
      BY <1>1
    <2>6. QED
      BY <1>1, <2>1, <2>2, <2>3, <2>4, <2>5, StepLists
  <1>5. QED
    BY <1>2, <1>3, <1>4 DEF ListTypes

LEMMA StepWaiterTypes ==
    ASSUME Types, NEW t \in Threads, Step(t) \/ Lock(t) \/ Stop(t)
    PROVE  WaiterTypes'
  <1>0. WaiterTypes
    BY DEF Types
  <1> USE <1>0 DEF WaiterTypes, sendVars, recvVars
  <1>1. CASE QueueStep(t)
    <2>1. CASE S!StopUnlink(t) /\ UNCHANGED recvVars
      BY <2>1 DEF S!StopUnlink
    <2>2. CASE R!StopUnlink(t) /\ UNCHANGED sendVars
      BY <2>2 DEF R!StopUnlink
    <2>3. CASE S!StopLock(t) /\ UNCHANGED recvVars
      BY <2>3 DEF S!StopLock
    <2>4. CASE R!StopLock(t) /\ UNCHANGED sendVars
      BY <2>4 DEF R!StopLock
    <2>5. CASE S!WakeLock(t) /\ UNCHANGED recvVars
      BY <2>5 DEF S!WakeLock
    <2>6. CASE R!WakeLock(t) /\ UNCHANGED sendVars
      BY <2>6 DEF R!WakeLock
    <2>7. CASE (S!RegisterStop(t) \/ S!StopRead(t) \/ S!SetStopped(t)) /\ UNCHANGED recvVars
      BY <2>7 DEF S!RegisterStop, S!StopRead, S!SetStopped
    <2>8. QED
      BY <1>1, <2>1, <2>2, <2>3, <2>4, <2>5, <2>6, <2>7 DEF QueueStep
  <1>2. CASE WakeEnd(t)
    <2>1. ready[t] # <<>> => Head(ready[t]) \in Threads
      BY DEF Types, ListTypes
    <2>2. CASE S!Pick(t, "out") /\ UNCHANGED recvVars
      BY <2>1, <2>2 DEF S!Pick
    <2>3. CASE S!Resume(t, "out") /\ UNCHANGED recvVars
      <3>1. /\ UNCHANGED <<sendQ, sendLock, sendPos, waiting, stopReq, recvVars>>
            /\ cur' = [cur EXCEPT ![t] = None]
            /\ blocking' = [blocking EXCEPT ![cur[t]] = FALSE]
            /\ posted' = [posted EXCEPT ![cur[t]] = IF blocking[cur[t]] THEN @ ELSE @ + 1]
        BY <2>3 DEF S!Resume
      <3>2. linked' \subseteq linked
        BY <2>3 DEF S!Resume, S!PopFront
      <3>3. posted' \in [Threads -> Nat]
        <4>1. CASE cur[t] \in Threads
          BY <3>1, <4>1
        <4>2. CASE cur[t] \notin Threads
          BY <3>1, <4>2
        <4>3. QED
          BY <4>1, <4>2
      <3>4. QED
        BY <3>1, <3>2, <3>3
    <2>4. QED
      BY <1>2, <2>2, <2>3 DEF WakeEnd, S!ScanEnd, R!ScanEnd
  <1>3. CASE WakeHit(t)
    <2>1. CASE S!AtWaiter(t) /\ (S!WakeMore(t) \/ S!WakeOne(t)) /\ UNCHANGED recvVars
      <3>1. sendQ[sendPos] \in Threads
        BY <2>1 DEF S!AtWaiter, Types, ListTypes
      <3>2. QED
        BY <2>1, <3>1 DEF S!WakeMore, S!WakeOne
    <2>2. CASE R!AtWaiter(t) /\ (R!WakeMore(t) \/ R!WakeOne(t)) /\ UNCHANGED sendVars
      <3>1. recvQ[recvPos] \in Threads
        BY <2>2 DEF R!AtWaiter, Types, ListTypes
      <3>2. QED
        BY <2>2, <3>1 DEF R!WakeMore, R!WakeOne
    <2>3. QED
      BY <1>3, <2>1, <2>2 DEF WakeHit
  <1>4. CASE WakeMiss(t)
    BY <1>4 DEF WakeMiss, S!Skip, R!Skip
  <1>5. CASE \/ TrySend(t) \/ TryReserve(t) \/ TryRecv(t)
             \/ PermitSend(t) \/ PermitClose(t) \/ Drop(t) \/ Lock(t)
    BY <1>5 DEF TrySend, TryReserve, TryRecv, TryNow, PermitSend, PermitClose, UsePermit,
                Drop, Lock, waiterVars
  <1>6. CASE Send(t) \/ Reserve(t) \/ Recv(t) \/ BlockingSend(t) \/ BlockingRecv(t)
    <2>1. S!Construct(t) /\ UNCHANGED recvVars
      BY <1>6 DEF Send, Reserve, Recv, BlockingSend, BlockingRecv, Begin
    <2>2. QED
      BY <2>1 DEF S!Construct
  <1>7. CASE \E took \in BOOLEAN : NoWait(t, took)
    BY <1>7 DEF NoWait, S!DontSuspend, R!DontSuspend
  <1>8. CASE Wait(t)
    BY <1>8 DEF Wait, S!Park, R!Park
  <1>9. CASE Resumed(t)
    BY <1>9 DEF Resumed, S!Resumed, S!Unblocked
  <1>10. CASE Stop(t)
    BY <1>10 DEF Stop, S!StopRequest
  <1>11. QED
    BY <1>1, <1>2, <1>3, <1>4, <1>5, <1>6, <1>7, <1>8, <1>9, <1>10 DEF Step

LEMMA StepTypes ==
    ASSUME Types, NEW t \in Threads, Step(t) \/ Lock(t) \/ Stop(t)
    PROVE  Types'
  <1> USE DEF Types
  <1>1. ListTypes' /\ WaiterTypes'
    BY StepListTypes, StepWaiterTypes
  <1>2. pc' \in [Threads -> S!WQLocations]
    BY StepMoves
  <1> DEFINE rest ==
        /\ kind \in {"mpsc", "mpmc"}
        /\ senders \subseteq Threads /\ ends \subseteq Threads /\ permits \subseteq Threads
        /\ op \in [Threads -> Ops]
        /\ got \in [Threads -> BOOLEAN]
        /\ left \in [Threads -> Nat]
  <1> SUFFICES rest'
    BY <1>1, <1>2
  <1>3. CASE UNCHANGED <<callVars, op, got>>
    BY <1>3 DEF callVars
  <1>4. CASE WakeEnd(t)
    BY <1>4 DEF WakeEnd, Ops, callVars
  <1>5. CASE WakeHit(t)
    BY <1>5 DEF WakeHit, OnWakeup, callVars
  <1>6. CASE TrySend(t) \/ TryReserve(t) \/ TryRecv(t)
    <2>1. PICK o \in {"send", "reserve", "recv"} : TryNow(t, o)
      BY <1>6 DEF TrySend, TryReserve, TryRecv
    <2>2. Call(t, o) /\ UNCHANGED got /\ (UNCHANGED permits \/ Permitted(t, TRUE))
      BY <2>1 DEF TryNow
    <2>3. QED
      BY <2>2 DEF Call, Permitted, Ops
  <1>7. CASE Send(t) \/ Reserve(t) \/ Recv(t) \/ BlockingSend(t) \/ BlockingRecv(t)
    BY <1>7 DEF Send, Reserve, Recv, BlockingSend, BlockingRecv, Begin, Call, Ops
  <1>8. CASE (\E took \in BOOLEAN : NoWait(t, took)) \/ Resumed(t)
    BY <1>8 DEF NoWait, Resumed, Permitted
  <1>9. CASE PermitSend(t) \/ PermitClose(t) \/ Drop(t) \/ Lock(t)
    BY <1>9 DEF PermitSend, PermitClose, UsePermit, Drop, Lock, Ops
  <1>10. QED
    BY <1>3, <1>4, <1>5, <1>6, <1>7, <1>8, <1>9
       DEF Step, QueueStep, WakeMiss, Wait, Stop

-----------------------------------------------------------------------------
(* What a step of an actor leaves alone.                                   *)

\* The ways of trying, beginning and ending a call, without its operation.
LEMMA StepCases ==
    ASSUME NEW t \in Threads, Step(t) \/ Lock(t) \/ Stop(t)
    PROVE  \/ \E o \in {"send", "reserve", "recv"} : TryNow(t, o) \/ Begin(t, o)
           \/ \E took \in BOOLEAN : NoWait(t, took)
           \/ Wait(t) \/ Resumed(t) \/ PermitSend(t) \/ PermitClose(t) \/ Drop(t)
           \/ Lock(t) \/ Stop(t)
           \/ WakeHit(t) \/ WakeMiss(t) \/ WakeEnd(t) \/ QueueStep(t)
  BY DEF Step, TrySend, TryReserve, TryRecv, Send, Reserve, Recv, BlockingSend,
         BlockingRecv

LEMMA StepOthers ==
    ASSUME Types, NEW t \in Threads, Step(t) \/ Lock(t) \/ Stop(t)
    PROVE  /\ UNCHANGED <<kind, senders>>
           /\ \A u \in Threads \ {t} : /\ pc'[u] = pc[u] /\ op'[u] = op[u]
                                       /\ u \in ends' <=> u \in ends
                                       /\ u \in permits' <=> u \in permits
  <1>1. \A u \in Threads \ {t} : pc'[u] = pc[u]
    BY StepMoves DEF Types
  <1>2. /\ UNCHANGED <<kind, senders>>
        /\ UNCHANGED op \/ \E o \in Ops : op' = [op EXCEPT ![t] = o]
        /\ ends' \in {ends, ends \ {t}, ends \cup {t}}
        /\ permits' \in {permits, permits \ {t}, permits \cup {t}}
    <2> USE DEF callVars, Ops
    <2>1. ASSUME NEW o \in {"send", "reserve", "recv"}, TryNow(t, o) \/ Begin(t, o)
          PROVE  <1>2!:
      BY <2>1 DEF TryNow, Begin, Call, Permitted
    <2>2. CASE (\E took \in BOOLEAN : NoWait(t, took)) \/ Wait(t) \/ Resumed(t)
      BY <2>2 DEF NoWait, Wait, Resumed, Permitted
    <2>3. CASE PermitSend(t) \/ PermitClose(t) \/ Drop(t) \/ Lock(t) \/ Stop(t)
      BY <2>3 DEF PermitSend, PermitClose, UsePermit, Drop, Lock, Stop
    <2>4. CASE WakeHit(t) \/ WakeMiss(t) \/ QueueStep(t)
      BY <2>4 DEF WakeHit, WakeMiss, QueueStep
    <2>5. CASE WakeEnd(t)
      <3>1. UNCHANGED callVars /\ (UNCHANGED op \/ op' = [op EXCEPT ![t] = "none"])
        BY <2>5 DEF WakeEnd, Types
      <3>2. QED
        BY <3>1
    <2>6. QED
      BY <2>1, <2>2, <2>3, <2>4, <2>5, StepCases
  <1>3. QED
    BY <1>1, <1>2 DEF Types

\* A side that is closed stays closed.
LEMMA ClosedStays ==
    ASSUME Types, NEW t \in Threads, Step(t) \/ Lock(t) \/ Stop(t)
    PROVE  /\ senderClosed => senderClosed'
           /\ receiverClosed => receiverClosed'
  <1>1. CASE Lock(t)
    BY <1>1 DEF Lock, senderClosed, receiverClosed, receivers, Types
  <1>2. CASE ~Lock(t)
    <2>1. ends' \subseteq ends
      BY <1>2, StepCases
         DEF TryNow, Begin, Call, NoWait, Wait, Resumed, PermitSend, PermitClose,
             UsePermit, Drop, Stop, WakeHit, WakeMiss, WakeEnd, QueueStep, callVars
    <2>2. QED
      BY <2>1, StepOthers DEF senderClosed, receiverClosed, receivers
  <1>3. QED
    BY <1>1, <1>2

-----------------------------------------------------------------------------
(* The locks.                                                              *)

HoldsSend(u) == \/ pc[u] = "scan" /\ ToSenders(u)
                \/ pc[u] = "stopUnlink" /\ OnSenders(u)
HoldsRecv(u) == \/ pc[u] = "scan" /\ ~ToSenders(u)
                \/ pc[u] = "stopUnlink" /\ ~OnSenders(u)

\* A lock is taken when it is free, left by its holder, or neither.
Handled(lock, lockNext, held, heldNext, t) ==
    \/ lockNext = lock /\ (held <=> heldNext)
    \/ lock = None /\ lockNext = t /\ heldNext
    \/ held /\ lockNext = None /\ ~heldNext

LEMMA StepLocks ==
    ASSUME Types, NEW t \in Threads, Step(t) \/ Lock(t) \/ Stop(t)
    PROVE  /\ Handled(sendLock, sendLock', HoldsSend(t), HoldsSend(t)', t)
           /\ Handled(recvLock, recvLock', HoldsRecv(t), HoldsRecv(t)', t)
  <1> DEFINE goal == /\ Handled(sendLock, sendLock', HoldsSend(t), HoldsSend(t)', t)
                     /\ Handled(recvLock, recvLock', HoldsRecv(t), HoldsRecv(t)', t)
  <1> SUFFICES goal
    OBVIOUS
  <1> USE DEF S!GoTo, R!GoTo, sendVars, recvVars, Handled, HoldsSend, HoldsRecv,
              ToSenders, OnSenders
  <1>0. pc \in [Threads -> S!WQLocations] /\ op \in [Threads -> Ops] /\ senders' = senders
    BY StepOthers DEF Types
  <1> USE <1>0 DEF receivers
  <1>1. ASSUME NEW o \in {"send", "reserve", "recv"}, TryNow(t, o) \/ Begin(t, o)
        PROVE  goal
    <2>1. UNCHANGED <<sendLock, recvLock>> /\ pc[t] = "out" /\ pc'[t] \in {"out", "wake", "suspend"}
      BY <1>1 DEF TryNow, Begin, Call, S!Construct, After
    <2>2. QED
      BY <2>1
  <1>2. ASSUME NEW took \in BOOLEAN, NoWait(t, took)
        PROVE  goal
    <2>1. UNCHANGED <<sendLock, recvLock>> /\ pc[t] = "suspend" /\ pc'[t] \in {"out", "wake"}
      BY <1>2 DEF NoWait, S!DontSuspend, R!DontSuspend, After
    <2>2. QED
      BY <2>1
  <1>3. CASE Wait(t)
    <2>1. UNCHANGED <<sendLock, recvLock>> /\ pc[t] = "suspend" /\ pc'[t] \in {"blocked", "register"}
      BY <1>3 DEF Wait, S!Park, R!Park
    <2>2. QED
      BY <2>1
  <1>4. CASE Resumed(t)
    <2>1. UNCHANGED <<sendLock, recvLock>> /\ pc[t] \in {"wait", "blocked"} /\ pc'[t] \in {"out", "wake"}
      BY <1>4 DEF Resumed, S!Resumed, S!Unblocked, After
    <2>2. QED
      BY <2>1
  <1>5. CASE PermitSend(t) \/ PermitClose(t) \/ Drop(t)
    <2>1. UNCHANGED <<sendLock, recvLock>> /\ pc[t] \in {"out", "stopped"} /\ pc'[t] \in {"out", "wake"}
      BY <1>5 DEF PermitSend, PermitClose, UsePermit, Drop
    <2>2. QED
      BY <2>1
  <1>6. CASE Lock(t) \/ Stop(t)
    <2>1. UNCHANGED <<sendLock, recvLock, op>>
          /\ (pc'[t] = pc[t] \/ (pc[t] = "wait" /\ pc'[t] = "stopRead"))
      BY <1>6 DEF Lock, waiterVars, Stop, S!StopRequest
    <2>2. QED
      BY <2>1
  <1>7. CASE WakeHit(t)
    BY <1>7 DEF WakeHit, S!WakeMore, S!WakeOne, R!WakeMore, R!WakeOne, S!AtWaiter, R!AtWaiter
  <1>8. CASE WakeMiss(t)
    BY <1>8 DEF WakeMiss, S!Skip, R!Skip
  <1>9. CASE WakeEnd(t)
    BY <1>9 DEF WakeEnd, S!ScanEnd, R!ScanEnd, S!Pick, S!Resume
  <1>10. CASE QueueStep(t)
    BY <1>10 DEF QueueStep, S!RegisterStop, S!StopRead, S!StopLock, S!StopUnlink,
                 S!SetStopped, S!WakeLock, R!StopLock, R!StopUnlink, R!WakeLock
  <1>11. QED
    BY <1>1, <1>2, <1>3, <1>4, <1>5, <1>6, <1>7, <1>8, <1>9, <1>10, StepCases

LEMMA StepLockInv ==
    ASSUME Types, LockInv, NEW t \in Threads, Step(t) \/ Lock(t) \/ Stop(t)
    PROVE  LockInv'
  <1>1. \A u \in Threads : /\ sendLock = u <=> HoldsSend(u)
                           /\ recvLock = u <=> HoldsRecv(u)
    BY DEF LockInv, HoldsSend, HoldsRecv
  <1>2. \A u \in Threads \ {t} : /\ HoldsSend(u)' <=> HoldsSend(u)
                                 /\ HoldsRecv(u)' <=> HoldsRecv(u)
    BY StepOthers DEF HoldsSend, HoldsRecv, ToSenders, OnSenders, receivers
  <1>3. None \notin Threads
    BY ChannelAssumption
  <1>4. ASSUME NEW u \in Threads
        PROVE  /\ sendLock' = u <=> HoldsSend(u)'
               /\ recvLock' = u <=> HoldsRecv(u)'
    <2>1. CASE u = t
      BY <1>1, <1>3, <2>1, StepLocks DEF Handled
    <2>2. CASE u # t
      BY <1>1, <1>2, <1>3, <2>2, StepLocks DEF Handled
    <2>3. QED
      BY <2>1, <2>2
  <1>5. QED
    BY <1>4 DEF LockInv, HoldsSend, HoldsRecv

-----------------------------------------------------------------------------
(* The calls.                                                              *)

LEMMA StepOpInv ==
    ASSUME Types, OpInv, NEW t \in Threads, Step(t) \/ Lock(t) \/ Stop(t)
    PROVE  OpInv'
  <1> USE DEF S!GoTo, R!GoTo, InCall, S!Suspended, OnSenders
  <1>0. /\ pc \in [Threads -> S!WQLocations] /\ op \in [Threads -> Ops]
        /\ senders \subseteq Threads
        /\ senders' = senders /\ receivers' = receivers /\ receivers = Threads \ senders
    BY StepOthers DEF Types, receivers
  <1>1. ASSUME NEW u \in Threads \ {t}
        PROVE  CallInv(u)'
    <2>1. /\ pc'[u] = pc[u] /\ op'[u] = op[u]
          /\ u \in ends' <=> u \in ends
          /\ u \in permits' <=> u \in permits
      BY StepOthers
    <2>2. CallInv(u)
      BY DEF OpInv
    <2>3. QED
      BY <1>0, <2>1, <2>2, ClosedStays DEF CallInv
  <1>2. CallInv(t)
    BY DEF OpInv
  <1>3. CASE /\ UNCHANGED <<op, ends, permits>>
             /\ pc'[t] \in InCall => pc[t] \in InCall
             /\ pc'[t] \in {"wake", "scan"} => pc[t] \in {"wake", "scan"}
    <2>1. CallInv(t)'
      BY <1>0, <1>2, <1>3, ClosedStays DEF CallInv
    <2>2. QED
      BY <1>1, <2>1 DEF OpInv
  <1>4. ASSUME NEW o \in {"send", "reserve", "recv"}, TryNow(t, o) \/ Begin(t, o)
        PROVE  CallInv(t)'
    <2>1. /\ op'[t] = o /\ t \in ends \ permits /\ ends' = ends
          /\ o \in IF t \in senders THEN {"send", "reserve"} ELSE {"recv"}
      BY <1>0, <1>4 DEF TryNow, Begin, Call
    <2>2. \/ pc'[t] = "suspend" /\ permits' = permits
          \/ pc'[t] = After(o, TRUE) /\ Permitted(t, TRUE)
          \/ pc'[t] = "out" /\ permits' = permits
      BY <1>0, <1>4 DEF TryNow, Begin, Call, S!Construct
    <2>3. QED
      BY <1>0, <2>1, <2>2 DEF CallInv, After, Permitted
  <1>5. ASSUME NEW took \in BOOLEAN, NoWait(t, took)
        PROVE  CallInv(t)'
    <2>1. pc[t] = "suspend" /\ pc'[t] = After(op[t], took) /\ UNCHANGED <<op, ends>>
          /\ Permitted(t, took)
      BY <1>0, <1>5 DEF NoWait, S!DontSuspend, R!DontSuspend
    <2>2. QED
      BY <1>0, <1>2, <2>1 DEF CallInv, After, Permitted
  <1>6. CASE Resumed(t)
    <2>1. pc[t] \in {"wait", "blocked"} /\ pc'[t] = After(op[t], got[t])
          /\ UNCHANGED <<op, ends>> /\ Permitted(t, got[t])
      BY <1>0, <1>6 DEF Resumed, S!Resumed, S!Unblocked
    <2>2. CallInv(t)'
      BY <1>0, <1>2, <2>1 DEF CallInv, After, Permitted
    <2>3. QED
      BY <1>1, <2>2 DEF OpInv
  <1>7. CASE PermitSend(t) \/ PermitClose(t)
    <2>1. /\ pc'[t] = "wake" /\ op'[t] \in {"send", "return"} /\ UNCHANGED ends
          /\ t \in permits /\ permits' = permits \ {t}
      BY <1>0, <1>7 DEF PermitSend, PermitClose, UsePermit
    <2>2. CallInv(t)'
      BY <1>0, <1>2, <2>1 DEF CallInv
    <2>3. QED
      BY <1>1, <2>2 DEF OpInv
  <1>8. CASE Drop(t)
    <2>1. /\ \/ pc'[t] = "out" /\ op'[t] = "none"
             \/ /\ pc'[t] = "wake" /\ op'[t] = "close"
                /\ IF t \in senders THEN senderClosed' ELSE receiverClosed'
          /\ UNCHANGED permits /\ ends' = ends \ {t}
          /\ t \in permits => PermitOutlivesSender
      BY <1>0, <1>8 DEF Drop, senderClosed, receiverClosed
    <2>2. CallInv(t)'
      BY <1>0, <1>2, <2>1 DEF CallInv
    <2>3. QED
      BY <1>1, <2>2 DEF OpInv
  <1>9. CASE Lock(t)
    <2>1. /\ pc'[t] = "out" /\ UNCHANGED <<op, permits>> /\ t \notin permits
      BY <1>9 DEF Lock, waiterVars
    <2>2. CallInv(t)'
      BY <1>0, <1>2, <2>1 DEF CallInv
    <2>3. QED
      BY <1>1, <2>2 DEF OpInv
  <1>10. CASE WakeEnd(t)
    <2>0. pc'[t] \in {"out", "pick", "resume"}
      BY <1>0, <1>10 DEF WakeEnd, S!ScanEnd, R!ScanEnd, S!Pick, S!Resume
    <2>1. /\ op'[t] = IF pc'[t] = "out" THEN "none" ELSE op[t]
          /\ UNCHANGED <<ends, permits>>
      BY <1>0, <1>10 DEF WakeEnd, callVars
    <2>2. CallInv(t)'
      BY <1>0, <1>2, <2>0, <2>1 DEF CallInv
    <2>3. QED
      BY <1>1, <2>2 DEF OpInv
  <1>11. CASE Wait(t) \/ Stop(t) \/ WakeHit(t) \/ WakeMiss(t) \/ QueueStep(t)
    <2>1. UNCHANGED <<op, ends, permits>>
      BY <1>11 DEF Wait, Stop, WakeHit, WakeMiss, QueueStep, callVars
    <2>2. /\ pc'[t] \in InCall => pc[t] \in InCall
          /\ pc'[t] \in {"wake", "scan"} => pc[t] \in {"wake", "scan"}
      <3>1. CASE Wait(t) \/ Stop(t)
        BY <1>0, <3>1 DEF Wait, Stop, S!Park, R!Park, S!StopRequest
      <3>2. CASE WakeHit(t) \/ WakeMiss(t)
        BY <1>0, <3>2 DEF WakeHit, WakeMiss, S!WakeMore, S!WakeOne, R!WakeMore, R!WakeOne,
                          S!Skip, R!Skip
      <3>3. CASE QueueStep(t)
        BY <1>0, <3>3 DEF QueueStep, S!RegisterStop, S!StopRead, S!StopLock, S!StopUnlink,
                          S!SetStopped, S!WakeLock, R!StopLock, R!StopUnlink, R!WakeLock
      <3>4. QED
        BY <1>11, <3>1, <3>2, <3>3
    <2>3. QED
      BY <1>3, <2>1, <2>2
  <1>12. QED
    BY <1>1, <1>4, <1>5, <1>6, <1>7, <1>8, <1>9, <1>10, <1>11, StepCases DEF OpInv

-----------------------------------------------------------------------------
(* The queues.                                                             *)

LEMMA SetOfSeq ==
    ASSUME NEW q \in Seq(Threads)
    PROVE  /\ ToSet(q) = {q[i] : i \in 1..Len(q)}
           /\ ToSet(q) \subseteq Threads
           /\ ToSet(q) = {} <=> q = <<>>
           /\ q = <<>> <=> Len(q) = 0
           /\ q # <<>> => /\ Head(q) \in ToSet(q)
                          /\ ToSet(Tail(q)) \subseteq ToSet(q)
  BY DEF ToSet

LEMMA AppendSet ==
    ASSUME NEW q \in Seq(Threads), NEW w \in Threads
    PROVE  /\ ToSet(Append(q, w)) = ToSet(q) \cup {w}
           /\ Len(Append(q, w)) = Len(q) + 1
           /\ L!Once(q) /\ w \notin ToSet(q) => L!Once(Append(q, w))
  <1> DEFINE r == Append(q, w)
  <1>1. /\ r \in Seq(Threads)
        /\ Len(r) = Len(q) + 1
        /\ \A i \in 1..Len(q) : r[i] = q[i]
        /\ r[Len(q) + 1] = w
    OBVIOUS
  <1> HIDE DEF r
  <1>2. ToSet(r) = ToSet(q) \cup {w}
    BY <1>1 DEF ToSet
  <1>3. L!Once(q) /\ w \notin ToSet(q) => L!Once(r)
    BY <1>1 DEF ToSet, L!Once
  <1>4. QED
    BY <1>1, <1>2, <1>3 DEF r

LEMMA RemoveSet ==
    ASSUME NEW q \in Seq(Threads), NEW i \in 1..Len(q)
    PROVE  /\ ToSet(S!RemoveAt(q, i)) \subseteq ToSet(q)
           /\ Len(S!RemoveAt(q, i)) = Len(q) - 1
           /\ L!Once(q) => /\ ToSet(S!RemoveAt(q, i)) = ToSet(q) \ {q[i]}
                           /\ L!Once(S!RemoveAt(q, i))
           /\ R!RemoveAt(q, i) = S!RemoveAt(q, i)
  <1> DEFINE r == S!RemoveAt(q, i)
  <1>1. /\ r \in Seq(Threads)
        /\ Len(r) = Len(q) - 1
        /\ R!RemoveAt(q, i) = r
        /\ L!Once(q) => L!Once(r) /\ L!Without(r, q, i)
    BY RemoveKeeps
  <1>2. \A j \in 1..(Len(q) - 1) : r[j] = IF j < i THEN q[j] ELSE q[j + 1]
    BY ChannelAssumption, L!RemoveAtProperties DEF S!RemoveAt, L!RemoveAt, Threads
  <1> HIDE DEF r
  <1>3. ToSet(r) \subseteq ToSet(q)
    BY <1>1, <1>2 DEF ToSet
  <1>4. ASSUME L!Once(q)
        PROVE  ToSet(r) = ToSet(q) \ {q[i]}
    <2>1. /\ \A j \in 1..Len(r) : r[j] # q[i] /\ \E k \in 1..Len(q) : r[j] = q[k]
          /\ \A k \in 1..Len(q) : q[k] # q[i] => \E j \in 1..Len(r) : r[j] = q[k]
      BY <1>1, <1>4 DEF L!Without
    <2>2. /\ ToSet(r) = {r[j] : j \in 1..Len(r)}
          /\ ToSet(q) = {q[j] : j \in 1..Len(q)}
      BY <1>1 DEF ToSet
    <2>3. ASSUME NEW j \in 1..Len(r)
          PROVE  r[j] \in ToSet(q) \ {q[i]}
      BY <2>1, <2>2
    <2>4. ASSUME NEW k \in 1..Len(q), q[k] # q[i]
          PROVE  q[k] \in ToSet(r)
      BY <2>1, <2>2, <2>4
    <2>5. QED
      BY <2>2, <2>3, <2>4
  <1>5. QED
    BY <1>1, <1>3, <1>4 DEF r

\* A queue that holds one actor at most is that long.
LEMMA OneOrNone ==
    ASSUME NEW q \in Seq(Threads), L!Once(q), NEW r, ToSet(q) \subseteq {r}
    PROVE  Len(q) <= 1
  <1>1. SUFFICES ASSUME Len(q) > 1
                 PROVE  FALSE
    OBVIOUS
  <1>2. 1 \in 1..Len(q) /\ 2 \in 1..Len(q)
    BY <1>1
  <1>3. q[1] = r /\ q[2] = r
    BY <1>2 DEF ToSet
  <1>4. QED
    BY <1>2, <1>3 DEF L!Once

\* Only the actor of the step comes into a queue, and that by waiting.
LEMMA StepSets ==
    ASSUME Types, NEW t \in Threads, Step(t) \/ Lock(t) \/ Stop(t)
    PROVE  /\ ToSet(sendQ') \subseteq ToSet(sendQ) \cup {t}
           /\ ToSet(recvQ') \subseteq ToSet(recvQ) \cup {t}
           /\ ~(Wait(t) /\ OnSenders(t)) => ToSet(sendQ') \subseteq ToSet(sendQ)
           /\ ~(Wait(t) /\ ~OnSenders(t)) => ToSet(recvQ') \subseteq ToSet(recvQ)
  <1>0. sendQ \in Seq(Threads) /\ recvQ \in Seq(Threads) /\ ListTypes
    BY DEF Types, ListTypes
  <1>1. \A i \in DOMAIN sendQ : ToSet(S!RemoveAt(sendQ, i)) \subseteq ToSet(sendQ)
    BY <1>0, RemoveSet
  <1>2. \A i \in DOMAIN recvQ : ToSet(R!RemoveAt(recvQ, i)) \subseteq ToSet(recvQ)
    <2>1. \A i \in 1..Len(recvQ) : /\ ToSet(S!RemoveAt(recvQ, i)) \subseteq ToSet(recvQ)
                                   /\ R!RemoveAt(recvQ, i) = S!RemoveAt(recvQ, i)
      BY <1>0, RemoveSet
    <2>2. DOMAIN recvQ = 1..Len(recvQ)
      BY <1>0
    <2>3. QED
      BY <2>1, <2>2
  <1>3. /\ ToSet(Append(sendQ, t)) = ToSet(sendQ) \cup {t}
        /\ ToSet(Append(recvQ, t)) = ToSet(recvQ) \cup {t}
    BY <1>0, AppendSet
  <1>4. /\ \/ UNCHANGED sendQ
           \/ Wait(t) /\ OnSenders(t) /\ sendQ' = Append(sendQ, t)
           \/ \E i \in DOMAIN sendQ : sendQ' = S!RemoveAt(sendQ, i)
        /\ \/ UNCHANGED recvQ
           \/ Wait(t) /\ ~OnSenders(t) /\ recvQ' = Append(recvQ, t)
           \/ \E i \in DOMAIN recvQ : recvQ' = R!RemoveAt(recvQ, i)
    BY <1>0, StepLists
  <1>5. /\ ToSet(sendQ') \subseteq ToSet(sendQ) \cup {t}
        /\ ~(Wait(t) /\ OnSenders(t)) => ToSet(sendQ') \subseteq ToSet(sendQ)
    BY <1>1, <1>3, <1>4
  <1>6. /\ ToSet(recvQ') \subseteq ToSet(recvQ) \cup {t}
        /\ ~(Wait(t) /\ ~OnSenders(t)) => ToSet(recvQ') \subseteq ToSet(recvQ)
    BY <1>2, <1>3, <1>4
  <1>7. QED
    BY <1>5, <1>6

\* A waiter of a closed side is a stranger only once it has left its queue.
LEMMA StillClean ==
    ASSUME Types, OpInv, WaiterInv, NEW t \in Threads, Step(t) \/ Lock(t) \/ Stop(t),
           NEW x \in Threads, SideOpen(x)' \/ InQueue(x)'
    PROVE  Clean(x)
  <1>1. SideOpen(x)' => SideOpen(x)
    BY StepOthers, ClosedStays DEF SideOpen
  <1>2. ASSUME InQueue(x)', ~InQueue(x)
        PROVE  SideOpen(x)
    <2>1. x = t /\ Wait(t)
      BY <1>2, StepSets DEF InQueue
    <2>2. MustWait(op[t]) /\ pc[t] = "suspend"
      BY <2>1 DEF Wait, S!Park, R!Park, S!GoTo, R!GoTo
    <2>3. CallInv(t) /\ pc[t] \in InCall
      BY <2>2 DEF OpInv, InCall
    <2>4. QED
      BY <2>1, <2>2, <2>3 DEF MustWait, SideOpen, CallInv, OnSenders, receivers
  <1>3. QED
    BY <1>1, <1>2 DEF WaiterInv

\* Locations where nothing waits.
Elsewhere == {"out", "stopSet", "stopped", "wake", "scan", "pick", "resume"}

LEMMA CleanKept ==
    ASSUME NEW x \in Threads, Clean(x),
           \/ pc'[x] = pc[x]
           \/ pc[x] \in Elsewhere \cup {"suspend"} /\ pc'[x] \in Elsewhere,
           waiting'[x] = waiting[x], blocking'[x] = blocking[x],
           posted'[x] = posted[x], x \in linked' <=> x \in linked,
           \A u \in Threads : cur'[u] = x => cur[u] = x,
           \A u \in Threads : x \in ToSet(ready'[u]) => x \in ToSet(ready[u])
    PROVE  Clean(x)'
  BY DEF Clean, S!Granted, S!Suspended, Elsewhere

\* A waker decides the waiter w of an open queue, of whichever side.
LEMMA CleanWoken ==
    ASSUME Types, NEW t \in Threads, NEW w \in linked, Clean(w),
           NEW x \in Threads, Clean(x), x = w => pc[w] # "stopUnlink",
           pc[t] = "scan", pc' = [pc EXCEPT ![t] = "resume"],
           waiting' = [waiting EXCEPT ![w] = FALSE], linked' = linked \ {w},
           cur' = [cur EXCEPT ![t] = w], UNCHANGED <<ready, blocking, posted>>
    PROVE  Clean(x)'
  <1>0. /\ pc \in [Threads -> S!WQLocations] /\ waiting \in [Threads -> BOOLEAN]
        /\ cur \in [Threads -> Threads \cup {None}] /\ w \in Threads
    BY DEF Types, WaiterTypes
  <1>1. CASE x # w
    BY <1>0, <1>1, CleanKept DEF Elsewhere
  <1>2. CASE x = w
    <2>1. pc[w] \in S!Suspended /\ waiting[w] /\ t # w
      BY DEF Clean, S!Suspended
    <2>2. /\ posted[w] = 0
          /\ \A u \in Threads : cur[u] # w
      BY <2>1 DEF Clean, S!Granted
    <2>3. /\ pc'[w] = pc[w] /\ ~waiting'[w] /\ w \notin linked'
          /\ \A u \in Threads : cur'[u] = w => u = t
      BY <1>0, <2>1, <2>2
    <2>4. QED
      BY <1>2, <2>1, <2>2, <2>3 DEF Clean, S!Granted, S!Suspended
  <1>3. QED
    BY <1>1, <1>2

\* Only waiters of a closed side come into the list of wakeupAll().
LEMMA CleanTaken ==
    ASSUME Types, NEW t \in Threads, NEW w \in Threads, NEW x \in Threads \ {w}, Clean(x),
           waiting' = [waiting EXCEPT ![w] = FALSE],
           ready' = [ready EXCEPT ![t] = Append(@, w)],
           UNCHANGED <<pc, cur, linked, blocking, posted>>
    PROVE  Clean(x)'
  <1>1. ready[t] \in Seq(Threads) /\ ready \in [Threads -> Seq(Threads)]
    BY DEF Types, ListTypes
  <1>2. ToSet(Append(ready[t], w)) = ToSet(ready[t]) \cup {w}
    BY <1>1, AppendSet
  <1>3. \A u \in Threads : x \in ToSet(ready'[u]) => x \in ToSet(ready[u])
    BY <1>1, <1>2
  <1>4. waiting'[x] = waiting[x]
    BY DEF Types, WaiterTypes
  <1>5. QED
    BY <1>3, <1>4, CleanKept

\* unlink() of the waiter of a stop, from whichever list.
LEMMA CleanStopped ==
    ASSUME Types, NEW t \in Threads, NEW x \in Threads, Clean(x),
           pc[t] = "stopUnlink", pc' = [pc EXCEPT ![t] = "stopSet"],
           \/ UNCHANGED ready
           \/ \E u \in Threads : \E i \in DOMAIN ready[u] :
                  ready' = [ready EXCEPT ![u] = S!RemoveAt(@, i)],
           linked' = linked \ {t}, waiting' = [waiting EXCEPT ![t] = FALSE],
           UNCHANGED <<cur, blocking, posted>>
    PROVE  Clean(x)'
  <1>0. /\ pc \in [Threads -> S!WQLocations] /\ waiting \in [Threads -> BOOLEAN]
        /\ ready \in [Threads -> Seq(Threads)]
    BY DEF Types, ListTypes, WaiterTypes
  <1>1. \A u \in Threads : x \in ToSet(ready'[u]) => x \in ToSet(ready[u])
    <2>1. ASSUME NEW v \in Threads, NEW i \in DOMAIN ready[v],
                 ready' = [ready EXCEPT ![v] = S!RemoveAt(@, i)]
          PROVE  \A u \in Threads : x \in ToSet(ready'[u]) => x \in ToSet(ready[u])
      <3>1. ready[v] \in Seq(Threads)
        BY <1>0
      <3>2. ToSet(S!RemoveAt(ready[v], i)) \subseteq ToSet(ready[v])
        BY <3>1, RemoveSet
      <3>3. QED
        BY <1>0, <2>1, <3>2
    <2>2. QED
      BY <2>1
  <1>2. CASE x # t
    BY <1>0, <1>1, <1>2, CleanKept
  <1>3. CASE x = t
    <2>1. /\ waiting[t] /\ pc'[t] = "stopSet" /\ ~waiting'[t] /\ t \notin linked'
      BY <1>0, <1>3 DEF Clean
    <2>2. posted[t] = 0 /\ \A u \in Threads : cur[u] # t
      BY <1>3, <2>1 DEF Clean, S!Granted
    <2>3. QED
      BY <1>1, <1>3, <2>1, <2>2 DEF Clean, S!Suspended, S!Granted
  <1>4. QED
    BY <1>2, <1>3

\* What a wakeup does to the waiter w it finds.
Woken(t, w) ==
    /\ pc[t] = "scan" /\ InQueue(w) /\ ~InQueue(w)'
    /\ w \in linked /\ Clean(w) /\ (w \in senders <=> ToSenders(t))
    /\ (OnSenders(w) <=> ToSenders(t)) /\ pc[w] # "stopUnlink"
    /\ OnWakeup(w)
    /\ waiting' = [waiting EXCEPT ![w] = FALSE]
    /\ UNCHANGED <<blocking, posted, stopReq, callVars, op>>
    /\ IF ToSenders(t)
         THEN /\ sendPos \in 1..Len(sendQ) /\ Len(sendQ') = Len(sendQ) - 1
              /\ ToSet(sendQ') = ToSet(sendQ) \ {w}
              /\ UNCHANGED <<recvVars, sendPos>>
         ELSE /\ recvPos \in 1..Len(recvQ) /\ Len(recvQ') = Len(recvQ) - 1
              /\ ToSet(recvQ') = ToSet(recvQ) \ {w}
              /\ UNCHANGED <<sendVars, recvPos>>
    /\ IF WakesAll(t)
         THEN /\ ready' = [ready EXCEPT ![t] = Append(@, w)]
              /\ UNCHANGED <<pc, cur, linked>>
         ELSE /\ pc' = [pc EXCEPT ![t] = "resume"]
              /\ linked' = linked \ {w}
              /\ cur' = [cur EXCEPT ![t] = w]
              /\ UNCHANGED ready

LEMMA WakeHitWakes ==
    ASSUME Types, LockInv, OpInv, QueueInv, WaiterInv, NEW t \in Threads, WakeHit(t)
    PROVE  \E w \in Threads : Woken(t, w)
  <1>0. /\ sendQ \in Seq(Threads) /\ recvQ \in Seq(Threads)
        /\ senders \subseteq Threads
    BY DEF Types, ListTypes
  <1>1. CASE ToSenders(t)
    <2>1. /\ S!AtWaiter(t) /\ OnWakeup(sendQ[sendPos])
          /\ IF WakesAll(t) THEN S!WakeMore(t) ELSE S!WakeOne(t)
          /\ UNCHANGED <<recvVars, callVars, op>>
      BY <1>1 DEF WakeHit
    <2>2. sendPos \in 1..Len(sendQ) /\ pc[t] = "scan"
      BY <1>0, <2>1 DEF S!AtWaiter
    <2>3. PICK w \in Threads : w = sendQ[sendPos] /\ w \in ToSet(sendQ)
      BY <1>0, <2>2, SetOfSeq
    <2>4. sendQ' = S!RemoveAt(sendQ, sendPos) /\ UNCHANGED sendPos
      BY <2>1 DEF S!WakeMore, S!WakeOne
    <2>5. ToSet(sendQ') = ToSet(sendQ) \ {w} /\ Len(sendQ') = Len(sendQ) - 1
      BY <1>0, <2>2, <2>3, <2>4, RemoveSet DEF QueueInv
    <2>6. /\ waiting' = [waiting EXCEPT ![w] = FALSE]
          /\ UNCHANGED <<blocking, posted, stopReq>>
          /\ IF WakesAll(t)
               THEN /\ ready' = [ready EXCEPT ![t] = Append(@, w)]
                    /\ UNCHANGED <<pc, cur, linked>>
               ELSE /\ pc' = [pc EXCEPT ![t] = "resume"]
                    /\ linked' = linked \ {w}
                    /\ cur' = [cur EXCEPT ![t] = w]
                    /\ UNCHANGED ready
      BY <2>1, <2>3 DEF S!WakeMore, S!WakeOne, S!GoTo
    <2>7. /\ InQueue(w) /\ Clean(w) /\ w \in linked /\ OnSenders(w) /\ w \in senders
          /\ w \notin ToSet(recvQ) /\ ~InQueue(w)'
      <3>1. InQueue(w) /\ w \in linked /\ OnSenders(w) /\ w \notin ToSet(recvQ)
        BY <2>3 DEF InQueue, QueueInv, OnSenders
      <3>2. Clean(w) /\ CallInv(w)
        BY <2>3, <3>1 DEF WaiterInv, OpInv
      <3>3. ~InQueue(w)'
        <4>1. recvQ' = recvQ /\ w \notin ToSet(sendQ')
          BY <2>1, <2>5 DEF recvVars
        <4>2. QED
          BY <3>1, <4>1 DEF InQueue
      <3>4. QED
        BY <3>1, <3>2, <3>3 DEF CallInv
    <2>8. pc[w] # "stopUnlink"
      <3>1. sendLock = t /\ (pc[w] = "stopUnlink" => sendLock = w)
        BY <1>1, <2>2, <2>7 DEF LockInv
      <3>2. QED
        BY <2>2, <3>1
    <2>9. Woken(t, w)
      BY <1>1, <2>1, <2>2, <2>3, <2>4, <2>5, <2>6, <2>7, <2>8 DEF Woken
    <2>10. QED
      BY <2>9
  <1>2. CASE ~ToSenders(t)
    <2>1. /\ R!AtWaiter(t) /\ OnWakeup(recvQ[recvPos])
          /\ IF WakesAll(t) THEN R!WakeMore(t) ELSE R!WakeOne(t)
          /\ UNCHANGED <<sendVars, callVars, op>>
      BY <1>2 DEF WakeHit
    <2>2. recvPos \in 1..Len(recvQ) /\ pc[t] = "scan"
      BY <1>0, <2>1 DEF R!AtWaiter
    <2>3. PICK w \in Threads : w = recvQ[recvPos] /\ w \in ToSet(recvQ)
      BY <1>0, <2>2, SetOfSeq
    <2>4. recvQ' = R!RemoveAt(recvQ, recvPos) /\ UNCHANGED recvPos
      BY <2>1 DEF R!WakeMore, R!WakeOne
    <2>5. ToSet(recvQ') = ToSet(recvQ) \ {w} /\ Len(recvQ') = Len(recvQ) - 1
      BY <1>0, <2>2, <2>3, <2>4, RemoveSet DEF QueueInv
    <2>6. /\ waiting' = [waiting EXCEPT ![w] = FALSE]
          /\ UNCHANGED <<blocking, posted, stopReq>>
          /\ IF WakesAll(t)
               THEN /\ ready' = [ready EXCEPT ![t] = Append(@, w)]
                    /\ UNCHANGED <<pc, cur, linked>>
               ELSE /\ pc' = [pc EXCEPT ![t] = "resume"]
                    /\ linked' = linked \ {w}
                    /\ cur' = [cur EXCEPT ![t] = w]
                    /\ UNCHANGED ready
      BY <2>1, <2>3 DEF R!WakeMore, R!WakeOne, R!GoTo
    <2>7. /\ InQueue(w) /\ Clean(w) /\ w \in linked /\ ~OnSenders(w) /\ w \notin senders
          /\ w \notin ToSet(sendQ) /\ ~InQueue(w)'
      <3>1. /\ InQueue(w) /\ w \in linked /\ op[w] = "recv" /\ ~OnSenders(w)
            /\ w \notin ToSet(sendQ)
        BY <2>3 DEF InQueue, QueueInv, OnSenders
      <3>2. Clean(w) /\ CallInv(w)
        BY <2>3, <3>1 DEF WaiterInv, OpInv
      <3>3. ~InQueue(w)'
        <4>1. sendQ' = sendQ /\ w \notin ToSet(recvQ')
          BY <2>1, <2>5 DEF sendVars
        <4>2. QED
          BY <3>1, <4>1 DEF InQueue
      <3>4. QED
        BY <3>1, <3>2, <3>3 DEF CallInv, receivers
    <2>8. pc[w] # "stopUnlink"
      <3>1. recvLock = t /\ (pc[w] = "stopUnlink" => recvLock = w)
        BY <1>2, <2>2, <2>7 DEF LockInv
      <3>2. QED
        BY <2>2, <3>1
    <2>9. Woken(t, w)
      BY <1>2, <2>1, <2>2, <2>3, <2>4, <2>5, <2>6, <2>7, <2>8 DEF Woken
    <2>10. QED
      BY <2>9
  <1>3. QED
    BY <1>1, <1>2

LEMMA StepClean ==
    ASSUME Types, LockInv, OpInv, QueueInv, WaiterInv, NEW t \in Threads,
           Step(t) \/ Lock(t) \/ Stop(t), NEW x \in Threads, SideOpen(x)' \/ InQueue(x)'
    PROVE  Clean(x)'
  <1>0. /\ pc \in [Threads -> S!WQLocations] /\ WaiterTypes
        /\ sendQ \in Seq(Threads) /\ recvQ \in Seq(Threads)
        /\ Clean(x) /\ CallInv(t)
    BY StillClean DEF Types, ListTypes, OpInv
  <1> USE <1>0 DEF S!GoTo, R!GoTo
  <1> HIDE DEF Types
  <1>1. CASE \/ \E o \in {"send", "reserve", "recv"} : TryNow(t, o)
             \/ \E took \in BOOLEAN : NoWait(t, took)
             \/ PermitSend(t) \/ PermitClose(t) \/ Drop(t) \/ Lock(t)
    <2>1. /\ UNCHANGED <<ready, cur, linked, waiting, blocking, posted>>
          /\ \/ UNCHANGED pc
             \/ pc[t] \in Elsewhere \cup {"suspend"} /\ pc'[t] \in Elsewhere
      BY <1>1 DEF TryNow, Call, After, NoWait, S!DontSuspend, R!DontSuspend, PermitSend,
                  PermitClose, UsePermit, Drop, Lock, waiterVars, Elsewhere
    <2>2. \A u \in Threads \ {t} : pc'[u] = pc[u]
      BY StepOthers
    <2>3. QED
      BY <2>1, <2>2, CleanKept
  <1>2. ASSUME NEW o \in {"send", "reserve", "recv"}, Begin(t, o)
        PROVE  Clean(x)'
    <2>1. S!Construct(t)
      BY <1>2 DEF Begin
    <2>2. CASE x # t
      BY <2>1, <2>2, CleanKept DEF S!Construct, WaiterTypes
    <2>3. CASE x = t
      BY <2>1, <2>3 DEF S!Construct, WaiterTypes, Clean, S!Granted, S!Suspended
    <2>4. QED
      BY <2>2, <2>3
  <1>3. CASE Wait(t)
    <2>1. /\ pc[t] = "suspend"
          /\ pc' = [pc EXCEPT ![t] = IF t \in Plain THEN "blocked" ELSE "register"]
          /\ linked' = linked \cup {t}
          /\ UNCHANGED <<ready, cur, waiting, blocking, posted>>
      BY <1>3 DEF Wait, S!Park, R!Park
    <2>2. CASE x # t
      BY <2>1, <2>2, CleanKept
    <2>3. CASE x = t
      <3>1. waiting[t] /\ t \in linked' /\ (blocking[t] <=> t \in Plain)
        BY <2>1, <2>3 DEF Clean
      <3>2. pc'[t] = IF t \in Plain THEN "blocked" ELSE "register"
        BY <2>1
      <3>3. posted[t] = 0 /\ \A u \in Threads : cur[u] # t
        BY <2>1, <2>3 DEF Clean, S!Granted, S!Suspended
      <3>4. t \in Plain <=> t \notin Coros
        BY ChannelAssumption DEF Threads
      <3>5. QED
        BY <2>1, <2>3, <3>1, <3>2, <3>3, <3>4 DEF Clean, S!Granted, S!Suspended
    <2>4. QED
      BY <2>2, <2>3
  <1>4. CASE Resumed(t)
    <2>1. /\ pc'[t] \in {"out", "wake"} /\ \A u \in Threads \ {t} : pc'[u] = pc[u]
          /\ UNCHANGED <<ready, cur, linked, waiting, blocking>>
          /\ \/ pc[t] = "wait" /\ posted[t] > 0 /\ posted' = [posted EXCEPT ![t] = @ - 1]
             \/ pc[t] = "blocked" /\ ~blocking[t] /\ UNCHANGED posted
      BY <1>4 DEF Resumed, S!Resumed, S!Unblocked, After
    <2>2. CASE x # t
      BY <2>1, <2>2, CleanKept DEF WaiterTypes
    <2>3. CASE x = t
      <3>1. CASE pc[t] = "wait"
        BY <2>1, <2>3, <3>1 DEF Clean, S!Granted, S!Suspended, WaiterTypes
      <3>2. CASE pc[t] = "blocked"
        <4>1. t \in Plain /\ t \notin Coros
          BY <2>3, <3>2, ChannelAssumption DEF Clean, S!Suspended
        <4>2. posted[t] = 0 /\ t \notin linked /\ \A u \in Threads : cur[u] # t
          BY <2>1, <2>3, <3>2, <4>1 DEF Clean, WaiterTypes
        <4>3. QED
          BY <2>1, <2>3, <3>2, <4>1, <4>2 DEF Clean, S!Granted, S!Suspended
      <3>3. QED
        BY <2>1, <3>1, <3>2
    <2>4. QED
      BY <2>2, <2>3
  <1>5. CASE Stop(t)
    <2>1. /\ UNCHANGED <<ready, cur, linked, waiting, blocking, posted>>
          /\ \/ UNCHANGED pc
             \/ pc[t] = "wait" /\ pc' = [pc EXCEPT ![t] = "stopRead"]
      BY <1>5 DEF Stop, S!StopRequest
    <2>2. CASE x # t \/ UNCHANGED pc
      BY <2>1, <2>2, CleanKept
    <2>3. CASE x = t /\ ~UNCHANGED pc
      BY <2>1, <2>3 DEF Clean, S!Granted, S!Suspended
    <2>4. QED
      BY <2>2, <2>3
  <1>6. CASE QueueStep(t)
    <2>1. CASE S!RegisterStop(t) \/ S!StopRead(t) \/ S!StopLock(t) \/ R!StopLock(t)
      <3>1. /\ UNCHANGED <<ready, cur, linked, waiting, blocking, posted>>
            /\ \/ pc[t] = "register" /\ pc'[t] \in {"stopRead", "wait"}
               \/ pc[t] = "stopRead" /\ pc'[t] \in {"stopLock", "wait"}
               \/ /\ pc[t] = "stopLock"
                  /\ pc'[t] \in IF t \in linked THEN {"stopUnlink"} ELSE {"wait"}
            /\ \A u \in Threads \ {t} : pc'[u] = pc[u]
        BY <2>1 DEF S!RegisterStop, S!StopRead, S!StopLock, R!StopLock
      <3>2. CASE x # t
        BY <3>1, <3>2, CleanKept
      <3>3. CASE x = t
        BY <3>1, <3>3 DEF Clean, S!Granted, S!Suspended
      <3>4. QED
        BY <3>2, <3>3
    <2>2. CASE S!StopUnlink(t) \/ R!StopUnlink(t)
      <3>1. /\ pc[t] = "stopUnlink" /\ pc' = [pc EXCEPT ![t] = "stopSet"]
            /\ linked' = linked \ {t} /\ waiting' = [waiting EXCEPT ![t] = FALSE]
            /\ UNCHANGED <<cur, blocking, posted>>
        BY <2>2 DEF S!StopUnlink, R!StopUnlink
      <3>2. \/ UNCHANGED ready
            \/ \E u \in Threads : \E i \in DOMAIN ready[u] :
                   ready' = [ready EXCEPT ![u] = S!RemoveAt(@, i)]
        <4>1. \A u \in Threads : \A i \in DOMAIN ready[u] :
                 R!RemoveAt(ready[u], i) = S!RemoveAt(ready[u], i)
          BY DEF R!RemoveAt, S!RemoveAt
        <4>2. CASE S!StopUnlink(t)
          BY <4>2 DEF S!StopUnlink, S!Unlink, S!Threads, Threads
        <4>3. CASE R!StopUnlink(t)
          BY <4>1, <4>3 DEF R!StopUnlink, R!Unlink, R!Threads, Threads
        <4>4. QED
          BY <2>2, <4>2, <4>3
      <3>3. QED
        BY <3>1, <3>2, CleanStopped
    <2>3. CASE S!SetStopped(t) \/ S!WakeLock(t) \/ R!WakeLock(t)
      <3>1. /\ UNCHANGED <<ready, cur, linked, waiting, blocking, posted>>
            /\ pc[t] \in Elsewhere /\ pc'[t] \in Elsewhere
            /\ \A u \in Threads \ {t} : pc'[u] = pc[u]
        BY <2>3 DEF S!SetStopped, S!WakeLock, R!WakeLock, Elsewhere
      <3>2. QED
        BY <3>1, CleanKept
    <2>4. QED
      BY <1>6, <2>1, <2>2, <2>3 DEF QueueStep
  <1>7. CASE WakeMiss(t)
    BY <1>7, CleanKept DEF WakeMiss, S!Skip, R!Skip
  <1>8. CASE WakeHit(t)
    <2>1. PICK w \in Threads : Woken(t, w)
      BY <1>8, WakeHitWakes
    <2>2. /\ pc[t] = "scan" /\ w \in linked /\ Clean(w) /\ ~InQueue(w)'
          /\ w \in senders <=> ToSenders(t)
          /\ waiting' = [waiting EXCEPT ![w] = FALSE]
          /\ UNCHANGED <<blocking, posted>>
      BY <2>1 DEF Woken
    <2>3. CASE ~WakesAll(t)
      <3>1. /\ pc' = [pc EXCEPT ![t] = "resume"] /\ linked' = linked \ {w}
            /\ cur' = [cur EXCEPT ![t] = w] /\ UNCHANGED ready
        BY <2>1, <2>3 DEF Woken
      <3>2. pc[w] # "stopUnlink"
        BY <2>1 DEF Woken
      <3>3. QED
        BY <2>2, <3>1, <3>2, CleanWoken
    <2>4. CASE WakesAll(t)
      <3>1. /\ ready' = [ready EXCEPT ![t] = Append(@, w)] /\ UNCHANGED <<pc, cur, linked>>
        BY <2>1, <2>4 DEF Woken
      <3>2. ~SideOpen(w)
        BY <2>2, <2>4 DEF CallInv, WakesAll, SideOpen, ToSenders, receivers
      <3>3. ~SideOpen(w)'
        BY <3>2, StepOthers, ClosedStays DEF SideOpen
      <3>4. x # w
        BY <2>2, <3>3
      <3>5. QED
        BY <2>2, <3>1, <3>4, CleanTaken
    <2>5. QED
      BY <2>3, <2>4
  <1>9. CASE WakeEnd(t)
    <2>0. /\ ready[t] # <<>> => /\ Head(ready[t]) \in Threads \ {x}
                               /\ ToSet(Tail(ready[t])) \subseteq ToSet(ready[t])
          /\ ready \in [Threads -> Seq(Threads)]
      <3>1. ready[t] \in Seq(Threads) /\ ready \in [Threads -> Seq(Threads)]
        BY DEF Types, ListTypes
      <3>2. QED
        BY <3>1, SetOfSeq DEF Clean
    <2>1. CASE S!ScanEnd(t, "out") \/ R!ScanEnd(t, "out") \/ S!Pick(t, "out")
      <3>1. /\ UNCHANGED <<ready, linked, waiting, blocking, posted>>
            /\ pc[t] \in Elsewhere /\ pc'[t] \in Elsewhere
            /\ \A u \in Threads \ {t} : pc'[u] = pc[u]
            /\ \A u \in Threads : cur'[u] = x => cur[u] = x
        BY <2>0, <2>1 DEF S!ScanEnd, R!ScanEnd, S!Pick, Elsewhere, WaiterTypes
      <3>2. QED
        BY <3>1, CleanKept
    <2>2. CASE S!Resume(t, "out")
      <3>1. /\ pc[t] = "resume" /\ pc'[t] \in Elsewhere
            /\ \A u \in Threads \ {t} : pc'[u] = pc[u]
            /\ UNCHANGED waiting /\ cur' = [cur EXCEPT ![t] = None]
            /\ blocking' = [blocking EXCEPT ![cur[t]] = FALSE]
            /\ posted' = [posted EXCEPT ![cur[t]] = IF blocking[cur[t]] THEN @ ELSE @ + 1]
        BY <2>2 DEF S!Resume, Elsewhere
      <3>2. x \in linked' <=> x \in linked
        BY <2>0, <2>2 DEF S!Resume, S!PopFront
      <3>3. \A u \in Threads : x \in ToSet(ready'[u]) => x \in ToSet(ready[u])
        <4>1. CASE UNCHANGED ready
          BY <4>1
        <4>2. CASE ready[t] # <<>> /\ ready' = [ready EXCEPT ![t] = Tail(@)]
          BY <2>0, <4>2
        <4>3. QED
          BY <2>2, <4>1, <4>2 DEF S!Resume, S!PopFront
      <3>4. \A u \in Threads : cur'[u] = x => u # t /\ cur[u] = x
        BY <3>1, ChannelAssumption DEF WaiterTypes
      <3>5. CASE cur[t] # x
        <4>1. blocking'[x] = blocking[x] /\ posted'[x] = posted[x]
          BY <3>1, <3>5 DEF WaiterTypes
        <4>2. QED
          BY <3>1, <3>2, <3>3, <3>4, <4>1, CleanKept DEF Elsewhere
      <3>6. CASE cur[t] = x
        <4>1. /\ pc[x] \in S!Suspended /\ ~waiting[x] /\ posted[x] = 0
              /\ blocking[x] <=> x \in Plain
              /\ x \notin linked /\ pc'[x] = pc[x]
              /\ \A u \in Threads : cur[u] = x => u = t
          BY <3>1, <3>6 DEF Clean, S!Granted, S!Suspended
        <4>2. \A u \in Threads : cur'[u] # x
          BY <3>4, <4>1
        <4>3. ~blocking'[x] /\ posted'[x] = IF x \in Plain THEN 0 ELSE 1
          BY <3>1, <3>6, <4>1 DEF WaiterTypes
        <4>4. x \in Coros \/ x \in Plain
          BY DEF Threads
        <4>5. QED
          BY <3>1, <3>2, <3>3, <4>1, <4>2, <4>3, <4>4 DEF Clean, S!Granted, S!Suspended
      <3>7. QED
        BY <3>5, <3>6
    <2>3. QED
      BY <1>9, <2>1, <2>2 DEF WakeEnd
  <1>10. QED
    BY <1>1, <1>2, <1>3, <1>4, <1>5, <1>6, <1>7, <1>8, <1>9, StepCases

LEMMA StepWaiterInv ==
    ASSUME Types, LockInv, OpInv, QueueInv, WaiterInv, NEW t \in Threads,
           Step(t) \/ Lock(t) \/ Stop(t)
    PROVE  WaiterInv'
  BY StepClean DEF WaiterInv

\* A step that wakes nobody leaves the other waiters undecided.
LEMMA StepBystanders ==
    ASSUME Types, NEW t \in Threads, Step(t) \/ Lock(t) \/ Stop(t), ~WakeHit(t),
           NEW x \in Threads \ {t}
    PROVE  /\ waiting'[x] = waiting[x] /\ got'[x] = got[x]
           /\ x \in linked' => x \in linked
  <1>0. waiting \in [Threads -> BOOLEAN] /\ got \in [Threads -> BOOLEAN]
    BY DEF Types, WaiterTypes
  <1>1. ASSUME NEW o \in {"send", "reserve", "recv"}, TryNow(t, o) \/ Begin(t, o)
        PROVE  /\ waiting'[x] = waiting[x] /\ got'[x] = got[x]
               /\ x \in linked' => x \in linked
    BY <1>0, <1>1 DEF TryNow, Begin, S!Construct
  <1>2. CASE QueueStep(t)
    BY <1>0, <1>2 DEF QueueStep, S!RegisterStop, S!StopRead, S!StopLock, S!StopUnlink,
                      S!SetStopped, S!WakeLock, R!StopLock, R!StopUnlink, R!WakeLock
  <1>3. CASE Resumed(t)
    BY <1>0, <1>3 DEF Resumed, S!Resumed, S!Unblocked
  <1>4. CASE Wait(t)
    BY <1>0, <1>4 DEF Wait, S!Park, R!Park
  <1>5. CASE \E took \in BOOLEAN : NoWait(t, took)
    BY <1>5 DEF NoWait, S!DontSuspend, R!DontSuspend
  <1>6. CASE PermitSend(t) \/ PermitClose(t) \/ Drop(t)
    BY <1>6 DEF PermitSend, PermitClose, UsePermit, Drop
  <1>7. CASE Lock(t) \/ Stop(t) \/ WakeMiss(t)
    BY <1>7 DEF Lock, waiterVars, Stop, S!StopRequest, WakeMiss, S!Skip, R!Skip
  <1>8. CASE WakeEnd(t)
    BY <1>8 DEF WakeEnd, S!ScanEnd, R!ScanEnd, S!Pick, S!Resume, S!PopFront
  <1>9. QED
    BY <1>1, <1>2, <1>3, <1>4, <1>5, <1>6, <1>7, <1>8, StepCases

\* Who stays in a queue goes on waiting.
LEMMA StepInQueue ==
    ASSUME Types, LockInv, OpInv, QueueInv, WaiterInv, NEW t \in Threads,
           Step(t) \/ Lock(t) \/ Stop(t), NEW x \in Threads, InQueue(x), InQueue(x)'
    PROVE  pc'[x] \in S!Suspended /\ waiting'[x] /\ op'[x] = op[x]
  <1>0. /\ pc \in [Threads -> S!WQLocations] /\ waiting \in [Threads -> BOOLEAN]
        /\ op \in [Threads -> Ops] /\ posted \in [Threads -> Nat]
        /\ Clean(x) /\ x \in linked /\ pc[x] \in S!Suspended /\ waiting[x]
    BY DEF Types, WaiterTypes, WaiterInv, QueueInv, InQueue, Clean
  <1> USE <1>0 DEF S!Suspended, S!GoTo, R!GoTo
  <1>1. ASSUME x # t
        PROVE  waiting'[x]
    <2>1. CASE WakeHit(t)
      <3>1. PICK w \in Threads : Woken(t, w)
        BY <2>1, WakeHitWakes
      <3>2. w # x /\ waiting' = [waiting EXCEPT ![w] = FALSE]
        BY <3>1 DEF Woken
      <3>3. QED
        BY <3>2
    <2>2. QED
      BY <1>1, <2>1, StepBystanders
  <1>2. CASE x # t
    BY <1>1, <1>2, StepOthers
  <1>3. CASE x = t
    <2>1. \/ QueueStep(t) \/ Stop(t)
          \/ Resumed(t)
      BY <1>3, StepCases
         DEF TryNow, Begin, Call, NoWait, S!DontSuspend, R!DontSuspend, Wait, S!Park, R!Park,
             PermitSend, PermitClose, UsePermit, Drop, Lock, WakeHit, S!AtWaiter, R!AtWaiter,
             WakeMiss, S!Skip, R!Skip, WakeEnd, S!ScanEnd, R!ScanEnd, S!Pick, S!Resume
    <2>2. ~Resumed(t)
      <3>1. posted[t] = 0 /\ (pc[t] = "blocked" => blocking[t])
        BY <1>3 DEF Clean, S!Granted
      <3>2. QED
        BY <3>1 DEF Resumed, S!Resumed, S!Unblocked
    <2>3. CASE Stop(t)
      BY <1>3, <2>3 DEF Stop, S!StopRequest
    <2>4. CASE QueueStep(t)
      <3>1. UNCHANGED op
        BY <2>4 DEF QueueStep
      <3>2. CASE S!StopUnlink(t) /\ OnSenders(t) /\ UNCHANGED recvVars
        <4>1. PICK i \in 1..Len(sendQ) : sendQ[i] = t /\ sendQ' = S!RemoveAt(sendQ, i)
          BY <1>3, <3>2 DEF S!StopUnlink, S!Unlink, S!Threads, Threads, Clean, ToSet, InQueue,
                            QueueInv, OnSenders, Types, ListTypes
        <4>2. ToSet(sendQ') = ToSet(sendQ) \ {t}
          BY <4>1, RemoveSet DEF QueueInv, Types, ListTypes
        <4>3. QED
          BY <1>3, <3>2, <4>2 DEF InQueue, recvVars, QueueInv, OnSenders
      <3>3. CASE R!StopUnlink(t) /\ ~OnSenders(t) /\ UNCHANGED sendVars
        <4>0. /\ t \in linked /\ \A u \in Threads : \A i \in DOMAIN ready[u] : ready[u][i] # t
              /\ DOMAIN recvQ = 1..Len(recvQ)
          BY <1>3 DEF Clean, ToSet, Types, ListTypes
        <4>1. R!Unlink(t)
          BY <3>3 DEF R!StopUnlink
        <4>2. PICK i \in 1..Len(recvQ) : recvQ[i] = t /\ recvQ' = R!RemoveAt(recvQ, i)
          BY <4>0, <4>1 DEF R!Unlink, R!Threads, Threads
        <4>3. recvQ \in Seq(Threads) /\ L!Once(recvQ)
          BY DEF QueueInv, Types, ListTypes
        <4>4. ToSet(recvQ') = ToSet(recvQ) \ {t}
          BY <4>2, <4>3, RemoveSet
        <4>5. sendQ' = sendQ /\ t \notin ToSet(sendQ)
          BY <1>3, <3>3 DEF sendVars, QueueInv
        <4>6. QED
          BY <1>3, <4>4, <4>5 DEF InQueue
      <3>4. QED
        BY <1>3, <2>4, <3>1, <3>2, <3>3
           DEF QueueStep, S!RegisterStop, S!StopRead, S!StopLock, S!SetStopped, S!WakeLock,
               R!StopLock, R!WakeLock
    <2>5. QED
      BY <2>1, <2>2, <2>3, <2>4
  <1>4. QED
    BY <1>2, <1>3

LEMMA StepQueueInv ==
    ASSUME Types, LockInv, OpInv, QueueInv, WaiterInv, NEW t \in Threads,
           Step(t) \/ Lock(t) \/ Stop(t)
    PROVE  QueueInv'
  <1>0. /\ sendQ \in Seq(Threads) /\ recvQ \in Seq(Threads) /\ ListTypes
        /\ pc \in [Threads -> S!WQLocations] /\ op \in [Threads -> Ops]
    BY DEF Types, ListTypes
  <1>1. WaiterInv'
    BY StepWaiterInv
  <1>2. ASSUME NEW w \in ToSet(sendQ')
        PROVE  w \in linked' /\ OnSenders(w)' /\ pc'[w] \in S!Suspended
    <2>1. InQueue(w)' /\ w \in ToSet(sendQ) \cup {t} /\ w \in Threads
      BY <1>0, StepSets, SetOfSeq DEF InQueue
    <2>2. CASE w \in ToSet(sendQ)
      <3>1. InQueue(w) /\ OnSenders(w)
        BY <2>2 DEF InQueue, QueueInv
      <3>2. pc'[w] \in S!Suspended /\ waiting'[w] /\ op'[w] = op[w]
        BY <2>1, <3>1, StepInQueue
      <3>3. Clean(w)'
        BY <1>1, <2>1 DEF WaiterInv
      <3>4. QED
        BY <3>1, <3>2, <3>3 DEF Clean, OnSenders
    <2>3. CASE w \notin ToSet(sendQ)
      <3>1. w = t /\ Wait(t) /\ OnSenders(t)
        BY <2>1, <2>3, StepSets
      <3>2. QED
        BY <1>0, <3>1 DEF Wait, S!Park, S!GoTo, S!Suspended, OnSenders
    <2>4. QED
      BY <2>2, <2>3
  <1>3. ASSUME NEW w \in ToSet(recvQ')
        PROVE  w \in linked' /\ op'[w] = "recv" /\ pc'[w] \in S!Suspended
    <2>1. InQueue(w)' /\ w \in ToSet(recvQ) \cup {t} /\ w \in Threads
      BY <1>0, StepSets, SetOfSeq DEF InQueue
    <2>2. CASE w \in ToSet(recvQ)
      <3>1. InQueue(w) /\ op[w] = "recv"
        BY <2>2 DEF InQueue, QueueInv
      <3>2. pc'[w] \in S!Suspended /\ waiting'[w] /\ op'[w] = op[w]
        BY <2>1, <3>1, StepInQueue
      <3>3. Clean(w)'
        BY <1>1, <2>1 DEF WaiterInv
      <3>4. QED
        BY <3>1, <3>2, <3>3 DEF Clean
    <2>3. CASE w \notin ToSet(recvQ)
      <3>1. w = t /\ Wait(t) /\ ~OnSenders(t)
        BY <2>1, <2>3, StepSets
      <3>2. pc[t] = "suspend" /\ CallInv(t)
        BY <3>1 DEF Wait, R!Park, R!GoTo, OpInv
      <3>3. op[t] = "recv"
        BY <3>1, <3>2 DEF CallInv, InCall, OnSenders
      <3>4. QED
        BY <1>0, <3>1, <3>3 DEF Wait, R!Park, R!GoTo, S!Suspended
    <2>4. QED
      BY <2>2, <2>3
  <1>4. \A w \in ToSet(sendQ) \cup ToSet(recvQ) : pc[w] # "suspend"
    BY DEF QueueInv, S!Suspended
  <1>5. Wait(t) => t \notin ToSet(sendQ) \cup ToSet(recvQ)
    BY <1>4 DEF Wait, S!Park, R!Park, S!GoTo, R!GoTo
  <1>6. L!Once(sendQ) /\ L!Once(recvQ)
    BY DEF QueueInv
  <1>7. L!Once(sendQ')
    <2>1. CASE UNCHANGED sendQ
      BY <1>6, <2>1
    <2>2. CASE Wait(t) /\ sendQ' = Append(sendQ, t)
      BY <1>0, <1>5, <1>6, <2>2, AppendSet
    <2>3. ASSUME NEW i \in DOMAIN sendQ, sendQ' = S!RemoveAt(sendQ, i)
          PROVE  L!Once(sendQ')
      BY <1>0, <1>6, <2>3, RemoveSet
    <2>4. QED
      BY <1>0, <2>1, <2>2, <2>3, StepLists
  <1>8. L!Once(recvQ')
    <2>1. CASE UNCHANGED recvQ
      BY <1>6, <2>1
    <2>2. CASE Wait(t) /\ recvQ' = Append(recvQ, t)
      BY <1>0, <1>5, <1>6, <2>2, AppendSet
    <2>3. ASSUME NEW i \in DOMAIN recvQ, recvQ' = R!RemoveAt(recvQ, i)
          PROVE  L!Once(recvQ')
      BY <1>0, <1>6, <2>3, RemoveSet
    <2>4. QED
      BY <1>0, <2>1, <2>2, <2>3, StepLists
  <1>9. QED
    BY <1>2, <1>3, <1>7, <1>8 DEF QueueInv

-----------------------------------------------------------------------------
(* What a call took.                                                       *)

\* A wakeupAll() gives nothing, but for items that a Permit has sent late.
LEMMA TakenLate ==
    ASSUME Types, OpInv, QueueInv, CloseInv, NEW t \in Threads, NEW w \in Threads,
           Woken(t, w), WakesAll(t), Take(op[w])
    PROVE  Late(w)
  <1>1. /\ pc[t] = "scan" /\ op[t] = "close" /\ CallInv(t)
        /\ IF t \in senders THEN senderClosed ELSE receiverClosed
    BY DEF Woken, WakesAll, OpInv, CallInv
  <1>2. CASE ToSenders(t)
    <2>1. receiverClosed /\ OnSenders(w)
      BY <1>1, <1>2 DEF Woken, ToSenders, receivers
    <2>2. QED
      BY <2>1 DEF Take, SendItem, ReserveSlot, OnSenders
  <1>3. CASE ~ToSenders(t)
    <2>1. senderClosed /\ w \in receivers
      BY <1>1, <1>3 DEF Woken, ToSenders, receivers
    <2>2. op[w] = "recv" /\ recvQ # <<>>
      <3>1. w \in ToSet(recvQ) /\ recvPos \in 1..Len(recvQ)
        BY <1>3 DEF Woken, InQueue, QueueInv, OnSenders
      <3>2. recvQ # <<>>
        BY <3>1 DEF Types, ListTypes
      <3>3. QED
        BY <3>1, <3>2 DEF QueueInv
    <2>3. size # 0
      BY <2>2 DEF Take, RecvItem
    <2>4. QED
      BY <2>1, <2>2, <2>3, ChannelAssumption DEF CloseInv, Late
  <1>4. QED
    BY <1>2, <1>3

LEMMA StepGotInv ==
    ASSUME Types, LockInv, OpInv, QueueInv, WaiterInv, GotInv, CloseInv, NEW t \in Threads,
           Step(t) \/ Lock(t) \/ Stop(t)
    PROVE  GotInv'
  <1>0. /\ pc \in [Threads -> S!WQLocations] /\ waiting \in [Threads -> BOOLEAN]
        /\ got \in [Threads -> BOOLEAN]
    BY DEF Types, WaiterTypes
  <1>1. \A x \in Threads : Late(x) => Late(x)'
    BY StepOthers, ClosedStays DEF Late, receivers
  <1>2. SUFFICES ASSUME NEW x \in Threads
                 PROVE  TookInv(x)'
    BY DEF GotInv
  <1>3. TookInv(x)
    BY DEF GotInv
  <1>4. CASE WakeHit(t)
    <2>1. PICK w \in Threads : Woken(t, w)
      BY <1>4, WakeHitWakes
    <2>2. /\ pc[t] = "scan" /\ w \in linked /\ pc[w] \in S!Suspended \ {"stopUnlink"}
          /\ waiting' = [waiting EXCEPT ![w] = FALSE] /\ linked' \subseteq linked
          /\ \/ UNCHANGED got
             \/ Take(op[w]) /\ got' = [got EXCEPT ![w] = TRUE]
          /\ pc'[t] \in {"scan", "resume"} /\ \A u \in Threads \ {t} : pc'[u] = pc[u]
      BY <1>0, <2>1 DEF Woken, OnWakeup, Clean
    <2>3. CASE x # w \/ UNCHANGED got
      <3>1. got'[x] = got[x] /\ (~waiting[x] => ~waiting'[x])
        BY <1>0, <2>2, <2>3
      <3>2. QED
        BY <1>1, <1>3, <2>2, <3>1 DEF TookInv, S!Granted, S!Suspended
    <2>4. CASE x = w /\ Take(op[w])
      <3>1. pc'[x] \in S!Suspended \ {"stopUnlink"} /\ ~waiting'[x]
        BY <1>0, <2>2, <2>4 DEF S!Suspended
      <3>2. CASE WakesAll(t)
        BY <1>1, <2>1, <2>4, <3>1, <3>2, TakenLate DEF TookInv, S!Granted, S!Suspended
      <3>3. CASE ~WakesAll(t)
        BY <2>1, <2>4, <3>1, <3>3 DEF TookInv, S!Granted, S!Suspended, Woken
      <3>4. QED
        BY <3>2, <3>3
    <2>5. QED
      BY <2>2, <2>3, <2>4
  <1>5. CASE ~WakeHit(t) /\ x # t
    <2>1. /\ waiting'[x] = waiting[x] /\ got'[x] = got[x] /\ pc'[x] = pc[x]
          /\ x \in linked' => x \in linked
      BY <1>5, StepBystanders, StepOthers
    <2>2. QED
      BY <1>1, <1>3, <2>1 DEF TookInv, S!Granted
  <1>6. CASE pc[t] \notin S!Suspended /\ got'[t] = got[t] /\ x = t
    BY <1>1, <1>3, <1>6 DEF TookInv, S!Granted
  <1>7. CASE Resumed(t) /\ x = t
    BY <1>0, <1>7 DEF Resumed, TookInv
  <1>8. CASE (QueueStep(t) \/ Stop(t)) /\ x = t
    <2>1. /\ UNCHANGED got
          /\ \/ pc[t] \notin S!Suspended
             \/ /\ pc'[t] \in S!Suspended \ {"stopUnlink"}
                /\ UNCHANGED <<linked, waiting>>
             \/ pc'[t] = "stopUnlink" /\ t \in linked /\ UNCHANGED waiting
             \/ pc[t] = "stopUnlink"
      <3> USE <1>0 DEF S!GoTo, R!GoTo, S!Suspended
      <3>1. CASE Stop(t)
        BY <3>1 DEF Stop, S!StopRequest
      <3>2. CASE QueueStep(t)
        BY <3>2 DEF QueueStep, S!RegisterStop, S!StopRead, S!StopLock, S!StopUnlink,
                    S!SetStopped, S!WakeLock, R!StopLock, R!StopUnlink, R!WakeLock
      <3>3. QED
        BY <1>8, <3>1, <3>2
    <2>2. QED
      BY <1>1, <1>3, <1>8, <2>1 DEF TookInv, S!Granted, S!Suspended
  <1>9. CASE x = t /\ ~WakeHit(t) /\ ~QueueStep(t) /\ ~Stop(t) /\ ~Resumed(t)
    <2>1. pc[t] \notin S!Suspended /\ got'[t] = got[t]
      BY <1>9, StepCases
         DEF TryNow, Begin, Call, S!Construct, NoWait, S!DontSuspend, R!DontSuspend, Wait,
             S!Park, R!Park, PermitSend, PermitClose, UsePermit, Drop, Lock, WakeMiss, S!Skip,
             R!Skip, S!AtWaiter, R!AtWaiter, WakeEnd, S!ScanEnd, R!ScanEnd, S!Pick, S!Resume,
             S!GoTo, R!GoTo, S!Suspended
    <2>2. QED
      BY <1>6, <1>9, <2>1
  <1>10. QED
    BY <1>4, <1>5, <1>7, <1>8, <1>9

-----------------------------------------------------------------------------
(* Closing.                                                                *)

\* Items come in by calls of senders, and by Permits.
LEMMA ClosedGains ==
    ASSUME Types, LockInv, OpInv, QueueInv, WaiterInv, ~PermitOutlivesSender, senderClosed,
           NEW t \in Threads, Step(t) \/ Lock(t) \/ Stop(t)
    PROVE  UNCHANGED size \/ RecvItem
  <1>1. \A x \in Threads : x \in senders => x \notin ends
    BY DEF senderClosed
  <1>2. \A x \in Threads : pc[x] \in InCall => op[x] = "recv"
    BY <1>1 DEF OpInv, CallInv, OnSenders
  <1>3. ASSUME NEW o \in {"send", "reserve", "recv"}, TryNow(t, o) \/ Begin(t, o)
        PROVE  UNCHANGED size \/ RecvItem
    <2>1. o = "recv"
      BY <1>1, <1>3 DEF TryNow, Begin, Call
    <2>2. QED
      BY <1>3, <2>1 DEF TryNow, Begin, Take, Closed, chanVars
  <1>4. ASSUME NEW took \in BOOLEAN, NoWait(t, took)
        PROVE  UNCHANGED size \/ RecvItem
    <2>1. pc[t] = "suspend"
      BY <1>4 DEF NoWait, S!DontSuspend, R!DontSuspend, S!GoTo, R!GoTo
    <2>2. op[t] = "recv"
      BY <1>2, <2>1 DEF InCall
    <2>3. QED
      BY <1>4, <2>2 DEF NoWait, Take, Closed, chanVars
  <1>5. CASE WakeHit(t)
    <2>1. PICK w \in Threads : Woken(t, w)
      BY <1>5, WakeHitWakes
    <2>2. pc[w] \in InCall
      BY <2>1 DEF Woken, Clean, InCall
    <2>3. op[w] = "recv" /\ OnWakeup(w)
      BY <1>2, <2>1, <2>2 DEF Woken
    <2>4. QED
      BY <2>3 DEF OnWakeup, Take, Closed, chanVars
  <1>6. CASE PermitSend(t) \/ PermitClose(t)
    <2>1. t \in permits
      BY <1>6 DEF PermitSend, PermitClose, UsePermit
    <2>2. QED
      BY <1>1, <2>1 DEF OpInv, CallInv
  <1>7. CASE \/ Wait(t) \/ Resumed(t) \/ Drop(t) \/ Lock(t) \/ Stop(t)
             \/ WakeMiss(t) \/ WakeEnd(t) \/ QueueStep(t)
    BY <1>7 DEF Wait, Resumed, Drop, Lock, Stop, WakeMiss, WakeEnd, QueueStep, chanVars
  <1>8. QED
    BY <1>3, <1>4, <1>5, <1>6, <1>7, StepCases

\* A queue of a closed side is left by its waiters only.
LEMMA QueuesOfOpen ==
    ASSUME Types, OpInv, QueueInv
    PROVE  /\ senderClosed => sendQ = <<>>
           /\ receiverClosed => recvQ = <<>>
  <1>0. sendQ \in Seq(Threads) /\ recvQ \in Seq(Threads)
    BY DEF Types, ListTypes
  <1>1. \A w \in ToSet(sendQ) : w \in ends \cap senders
    BY <1>0, SetOfSeq DEF QueueInv, OpInv, CallInv, InCall
  <1>2. \A w \in ToSet(recvQ) : w \in ends \cap receivers
    BY <1>0, SetOfSeq DEF QueueInv, OpInv, CallInv, InCall
  <1>3. QED
    BY <1>0, <1>1, <1>2, SetOfSeq DEF senderClosed, receiverClosed

\* Who leaves a side open wakes nobody on the other: no receiver is owed a wakeup when
\* the last sender goes.
LEMMA LastSenderOwesNothing ==
    ASSUME Types, OpInv, GotInv, ~PermitOutlivesSender, NEW t \in Threads, Drop(t),
           ~senderClosed, senderClosed'
    PROVE  ReceiversOwed = {}
  <1>1. pc[t] \in {"out", "stopped"} /\ ends' = ends \ {t} /\ senders' = senders
    BY DEF Drop
  <1>2. \A x \in ends \cap senders : x = t
    BY <1>1 DEF senderClosed
  <1>3. ASSUME NEW x \in Threads, ~ToSenders(x), Waking(x, recvPos)
        PROVE  FALSE
    <2>1. pc[x] \in {"wake", "scan"} /\ CallInv(x)
      BY <1>3 DEF Waking, OpInv
    <2>2. op[x] = "send" \/ (op[x] = "close" /\ x \in senders)
      BY <1>3, <2>1 DEF CallInv, ToSenders, receivers
    <2>3. x \in ends \cap senders
      BY <2>1, <2>2 DEF CallInv, OnSenders
    <2>4. QED
      BY <1>1, <1>2, <2>1, <2>3
  <1>4. ASSUME NEW x \in Threads, op[x] = "send", Granted(x)
        PROVE  FALSE
    <2>1. pc[x] \in S!Suspended /\ CallInv(x)
      BY <1>4 DEF Granted, S!Granted, OpInv
    <2>2. x \in ends \cap senders
      BY <1>4, <2>1 DEF CallInv, OnSenders, InCall
    <2>3. QED
      BY <1>1, <1>2, <2>1, <2>2 DEF S!Suspended
  <1>5. QED
    BY <1>3, <1>4 DEF ReceiversOwed

\* The iterator of a scan moves when the scan begins, and over a waiter it leaves.
LEMMA StepPos ==
    ASSUME NEW t \in Threads, Step(t) \/ Lock(t) \/ Stop(t)
    PROVE  /\ \/ UNCHANGED sendPos
              \/ QueueStep(t) /\ ToSenders(t) /\ S!WakeLock(t) /\ UNCHANGED recvVars
              \/ /\ WakeMiss(t) /\ ToSenders(t) /\ S!Skip(t)
                 /\ MustWait(op[sendQ[sendPos]]) /\ UNCHANGED recvVars
           /\ \/ UNCHANGED recvPos
              \/ QueueStep(t) /\ ~ToSenders(t) /\ R!WakeLock(t) /\ UNCHANGED sendVars
              \/ /\ WakeMiss(t) /\ ~ToSenders(t) /\ R!Skip(t)
                 /\ MustWait(op[recvQ[recvPos]]) /\ UNCHANGED sendVars
  <1> USE DEF sendVars, recvVars
  <1>1. CASE \/ \E o \in {"send", "reserve", "recv"} : TryNow(t, o) \/ Begin(t, o)
             \/ \E took \in BOOLEAN : NoWait(t, took)
             \/ Wait(t) \/ Resumed(t) \/ PermitSend(t) \/ PermitClose(t) \/ Drop(t)
             \/ Lock(t) \/ Stop(t) \/ WakeHit(t)
    BY <1>1 DEF TryNow, Begin, S!Construct, NoWait, S!DontSuspend, R!DontSuspend, Wait,
                S!Park, R!Park, PermitSend, PermitClose, UsePermit, Drop, Lock, Resumed,
                S!Resumed, S!Unblocked, Stop, S!StopRequest, WakeHit, S!WakeMore, S!WakeOne,
                R!WakeMore, R!WakeOne
  <1>2. CASE WakeMiss(t)
    BY <1>2 DEF WakeMiss
  <1>3. CASE WakeEnd(t)
    BY <1>3 DEF WakeEnd, S!ScanEnd, R!ScanEnd, S!Pick, S!Resume
  <1>4. CASE QueueStep(t)
    BY <1>4 DEF QueueStep, S!RegisterStop, S!StopRead, S!StopLock, S!StopUnlink,
                S!SetStopped, R!StopLock, R!StopUnlink
  <1>5. QED
    BY <1>1, <1>2, <1>3, <1>4, StepCases

LEMMA StepCloseInv ==
    ASSUME Types, size \in Nat, LockInv, OpInv, QueueInv, WaiterInv, GotInv, CloseInv,
           EnoughWakeups, NEW t \in Threads, Step(t) \/ Lock(t) \/ Stop(t)
    PROVE  CloseInv'
  <1>0. /\ pc \in [Threads -> S!WQLocations] /\ op \in [Threads -> Ops]
        /\ sendQ \in Seq(Threads) /\ recvQ \in Seq(Threads)
    BY DEF Types, ListTypes
  <1>1. ASSUME NEW x \in Threads, (pc[x] = "scan" /\ WakesAll(x))'
        PROVE  (IF x \in receivers THEN sendPos = 1 ELSE recvPos = 1)'
    <2>1. CASE QueueStep(t) /\ pc' # pc /\ x = t
      <3>1. pc'[t] = "scan" /\ UNCHANGED <<op, senders>> /\ op[t] = "close"
        BY <1>1, <2>1 DEF QueueStep, callVars, WakesAll
      <3>2. \/ ToSenders(t) /\ sendPos' = 1
            \/ ~ToSenders(t) /\ recvPos' = 1
        BY <1>0, <2>1, <3>1
           DEF QueueStep, S!RegisterStop, S!StopRead, S!StopLock, S!StopUnlink,
               S!SetStopped, S!WakeLock, R!StopLock, R!StopUnlink, R!WakeLock, S!GoTo, R!GoTo
      <3>3. QED
        BY <2>1, <3>1, <3>2 DEF ToSenders, receivers
    <2>2. CASE ~(QueueStep(t) /\ pc' # pc /\ x = t)
      <3>1. pc[x] = "scan" /\ op'[x] = op[x] /\ WakesAll(x)
        <4>1. CASE x # t
          BY <1>1, <4>1, StepOthers DEF WakesAll, receivers
        <4>2. CASE x = t
          <5>1. pc[t] = "scan" /\ UNCHANGED op
            BY <1>0, <1>1, <2>2, <4>2, StepCases
               DEF TryNow, Begin, Call, S!Construct, NoWait, S!DontSuspend, R!DontSuspend, Wait,
                   S!Park, R!Park, PermitSend, PermitClose, UsePermit, Drop, Lock, Resumed,
                   S!Resumed, S!Unblocked, After, Stop, S!StopRequest, WakeHit, S!AtWaiter,
                   R!AtWaiter, WakeMiss, S!Skip, R!Skip, WakeEnd, S!ScanEnd, R!ScanEnd, S!Pick,
                   S!Resume, S!GoTo, R!GoTo, waiterVars, QueueStep
          <5>2. QED
            BY <1>1, <4>2, <5>1, StepOthers DEF WakesAll, receivers
        <4>3. QED
          BY <4>1, <4>2
      <3>2. IF x \in receivers THEN sendPos = 1 /\ sendLock = x ELSE recvPos = 1 /\ recvLock = x
        BY <3>1 DEF CloseInv, LockInv, WakesAll, ToSenders, receivers
      <3>3. IF x \in receivers THEN receiverClosed ELSE senderClosed
        BY <3>1 DEF OpInv, CallInv, WakesAll, receivers
      <3>4. sendPos' # sendPos => sendPos' = 1 \/ x \notin receivers
        <4>1. CASE S!Skip(t) /\ MustWait(op[sendQ[sendPos]])
          <5>1. sendPos \in DOMAIN sendQ
            BY <4>1 DEF S!Skip, S!AtWaiter
          <5>2. OnSenders(sendQ[sendPos])
            BY <1>0, <5>1 DEF QueueInv, ToSet
          <5>3. ~receiverClosed
            BY <4>1, <5>2 DEF MustWait, OnSenders
          <5>4. QED
            BY <3>3, <5>3
        <4>2. QED
          BY <4>1, StepPos DEF S!WakeLock
      <3>5. recvPos' # recvPos => recvPos' = 1 \/ x \in receivers
        <4>1. CASE R!Skip(t) /\ MustWait(op[recvQ[recvPos]])
          <5>1. recvPos \in DOMAIN recvQ
            BY <4>1 DEF R!Skip, R!AtWaiter
          <5>2. op[recvQ[recvPos]] = "recv"
            BY <1>0, <5>1 DEF QueueInv, ToSet
          <5>3. ~senderClosed
            BY <4>1, <5>2 DEF MustWait
          <5>4. QED
            BY <3>3, <5>3
        <4>2. QED
          BY <4>1, StepPos DEF R!WakeLock
      <3>6. x \in receivers' <=> x \in receivers
        BY StepOthers DEF receivers
      <3>7. QED
        BY <3>2, <3>4, <3>5, <3>6
    <2>3. QED
      BY <2>1, <2>2
  <1>2. ASSUME ~PermitOutlivesSender, senderClosed'
        PROVE  size' = 0 \/ recvQ' = <<>>
    <2>1. CASE senderClosed
      <3>1. UNCHANGED size \/ RecvItem
        BY <1>2, <2>1, ClosedGains
      <3>2. ~Wait(t) \/ OnSenders(t)
        <4>1. ASSUME Wait(t), ~OnSenders(t)
              PROVE  FALSE
          <5>1. pc[t] = "suspend" /\ MustWait(op[t])
            BY <4>1 DEF Wait, R!Park, R!GoTo
          <5>2. op[t] = "recv"
            BY <4>1, <5>1 DEF OpInv, CallInv, InCall, OnSenders
          <5>3. QED
            BY <2>1, <5>1, <5>2 DEF MustWait
        <4>2. QED
          BY <4>1
      <3>3. ToSet(recvQ') \subseteq ToSet(recvQ)
        BY <3>2, StepSets
      <3>4. recvQ = <<>> => recvQ' = <<>>
        BY <1>0, <3>3, SetOfSeq, StepListTypes DEF ListTypes
      <3>5. QED
        BY <1>2, <2>1, <3>1, <3>4 DEF CloseInv, RecvItem
    <2>2. CASE ~senderClosed
      <3>1. Drop(t)
        BY <1>2, <2>2, StepCases
           DEF TryNow, Begin, Call, NoWait, Wait, Resumed, PermitSend, PermitClose, UsePermit,
               Lock, Stop, WakeHit, WakeMiss, WakeEnd, QueueStep, callVars, senderClosed
      <3>2. ReceiversOwed = {} /\ UNCHANGED <<size, recvQ>>
        BY <1>2, <2>2, <3>1, LastSenderOwesNothing DEF Drop, chanVars, recvVars
      <3>3. Cardinality(ReceiversOwed) = 0
        BY <3>2, FS_EmptySet
      <3>4. size <= 0 \/ Len(recvQ) <= 0
        BY <3>3 DEF EnoughWakeups
      <3>5. QED
        BY <1>0, <3>2, <3>4
    <2>3. QED
      BY <2>1, <2>2
  <1>3. QED
    BY <1>1, <1>2 DEF CloseInv

LEMMA StepKindInv ==
    ASSUME Types, KindInv, NEW t \in Threads, Step(t) \/ Lock(t) \/ Stop(t)
    PROVE  KindInv'
  BY StepOthers DEF KindInv, receivers

-----------------------------------------------------------------------------
(* The slots.                                                              *)

\* Whose slot is reserved: that of a Permit, or of a reserve() to return one.
Holds(x) == x \in permits \/ (Granted(x) /\ op[x] = "reserve")

SlotHolders == permits \cup {x \in Threads : Granted(x) /\ op[x] = "reserve"}

Room == size \in Nat /\ reserved \in Nat /\ size + reserved <= Capacity

LEMMA StepChan ==
    ASSUME NEW t \in Threads, Step(t) \/ Lock(t) \/ Stop(t)
    PROVE  \/ UNCHANGED chanVars
           \/ SendItem \/ ReserveSlot \/ RecvItem
           \/ PermitSend(t) \/ PermitClose(t)
  <1>1. ASSUME NEW o \in {"send", "reserve", "recv"}, TryNow(t, o) \/ Begin(t, o)
        PROVE  UNCHANGED chanVars \/ SendItem \/ ReserveSlot \/ RecvItem
    BY <1>1 DEF TryNow, Begin, Take, Closed
  <1>2. ASSUME NEW took \in BOOLEAN, NoWait(t, took)
        PROVE  UNCHANGED chanVars \/ SendItem \/ ReserveSlot \/ RecvItem
    BY <1>2 DEF NoWait, Take, Closed
  <1>3. CASE WakeHit(t)
    BY <1>3 DEF WakeHit, OnWakeup, Take, Closed
  <1>4. CASE \/ Wait(t) \/ Resumed(t) \/ Drop(t) \/ Lock(t) \/ Stop(t)
             \/ WakeMiss(t) \/ WakeEnd(t) \/ QueueStep(t)
    BY <1>4 DEF Wait, Resumed, Drop, Lock, Stop, WakeMiss, WakeEnd, QueueStep
  <1>5. QED
    BY <1>1, <1>2, <1>3, <1>4, StepCases

\* A slot is granted to a reserve() that waits no longer.
LEMMA GotSlot ==
    ASSUME Types, OpInv, GotInv, NEW x \in Threads, got[x], op[x] = "reserve"
    PROVE  /\ S!Granted(x) /\ x \notin linked /\ pc[x] # "stopUnlink"
  <1>1. CallInv(x) /\ TookInv(x)
    BY DEF OpInv, GotInv
  <1>2. ~Late(x)
    BY <1>1 DEF CallInv, OnSenders, Late, receivers
  <1>3. QED
    BY <1>1, <1>2 DEF TookInv

LEMMA WokenSlot ==
    ASSUME Types, LockInv, OpInv, QueueInv, WaiterInv, GotInv, NEW t \in Threads,
           NEW w \in Threads, Woken(t, w)
    PROVE  \/ UNCHANGED reserved /\ \A x \in Threads : Holds(x)' <=> Holds(x)
           \/ /\ ReserveSlot /\ ~Holds(w) /\ Holds(w)'
              /\ \A x \in Threads \ {w} : Holds(x)' <=> Holds(x)
  <1>0. /\ pc \in [Threads -> S!WQLocations] /\ waiting \in [Threads -> BOOLEAN]
        /\ got \in [Threads -> BOOLEAN]
    BY DEF Types, WaiterTypes
  <1>1. /\ pc[t] = "scan" /\ pc'[t] \in {"scan", "resume"}
        /\ \A x \in Threads \ {t} : pc'[x] = pc[x]
        /\ waiting' = [waiting EXCEPT ![w] = FALSE] /\ UNCHANGED <<op, permits>>
        /\ OnWakeup(w) /\ pc[w] \in S!Suspended /\ waiting[w] /\ w \in linked
    BY <1>0 DEF Woken, Clean, callVars
  <1>2. w # t /\ w \notin permits
    BY <1>1 DEF S!Suspended, OpInv, CallInv, InCall
  <1>3. \A x \in Threads \ {w} : Holds(x)' <=> Holds(x)
    <2>1. ASSUME NEW x \in Threads \ {w}
          PROVE  Granted(x)' <=> Granted(x)
      <3>1. got'[x] = got[x] /\ waiting'[x] = waiting[x]
        BY <1>0, <1>1 DEF OnWakeup
      <3>2. QED
        BY <1>1, <3>1 DEF Granted, S!Granted, S!Suspended
    <2>2. QED
      BY <1>1, <2>1 DEF Holds
  <1>4. ~Holds(w)
    BY <1>1, <1>2 DEF Holds, Granted, S!Granted
  <1>5. CASE op[w] = "reserve" /\ Take(op[w])
    <2>1. ReserveSlot /\ got'[w]
      BY <1>0, <1>1, <1>5 DEF Take, OnWakeup, Closed, ReserveSlot
    <2>2. Holds(w)'
      BY <1>0, <1>1, <1>2, <1>5, <2>1 DEF Holds, Granted, S!Granted
    <2>3. QED
      BY <1>3, <1>4, <2>1, <2>2
  <1>6. CASE ~(op[w] = "reserve" /\ Take(op[w]))
    <2>1. UNCHANGED reserved
      BY <1>1, <1>6 DEF OnWakeup, Take, SendItem, RecvItem, Closed, chanVars
    <2>2. op[w] = "reserve" => ~got'[w]
      BY <1>1, <1>6, GotSlot DEF OnWakeup
    <2>3. ~Holds(w)'
      BY <1>1, <1>2, <2>2 DEF Holds, Granted
    <2>4. QED
      BY <1>3, <1>4, <2>1, <2>3
  <1>7. QED
    BY <1>5, <1>6

\* A slot is reserved for one more actor, given up by the actor of a Permit, or neither.
LEMMA StepHolds ==
    ASSUME Types, LockInv, OpInv, QueueInv, WaiterInv, GotInv, NEW t \in Threads,
           Step(t) \/ Lock(t) \/ Stop(t)
    PROVE  \/ UNCHANGED reserved /\ \A x \in Threads : Holds(x)' <=> Holds(x)
           \/ ReserveSlot /\ \E y \in Threads : /\ ~Holds(y) /\ Holds(y)'
                                                /\ \A x \in Threads \ {y} : Holds(x)' <=> Holds(x)
           \/ /\ reserved' = reserved - 1 /\ t \in permits /\ ~Holds(t)'
              /\ \A x \in Threads \ {t} : Holds(x)' <=> Holds(x)
  <1> DEFINE same == UNCHANGED reserved /\ (Holds(t)' <=> Holds(t))
             more == ReserveSlot /\ ~Holds(t) /\ Holds(t)'
             less == reserved' = reserved - 1 /\ t \in permits /\ ~Holds(t)'
  <1>0. /\ pc \in [Threads -> S!WQLocations] /\ op \in [Threads -> Ops] /\ CallInv(t)
        /\ got \in [Threads -> BOOLEAN] /\ waiting \in [Threads -> BOOLEAN]
    BY DEF Types, WaiterTypes, OpInv
  <1>1. CASE WakeHit(t)
    <2>1. PICK w \in Threads : Woken(t, w)
      BY <1>1, WakeHitWakes
    <2>2. QED
      BY <2>1, WokenSlot
  <1>2. CASE ~WakeHit(t)
    <2>1. \A x \in Threads \ {t} : Holds(x)' <=> Holds(x)
      BY <1>2, StepBystanders, StepOthers DEF Holds, Granted, S!Granted
    <2> SUFFICES same \/ more \/ less
      BY <2>1
    <2> USE DEF Holds, Granted, S!Granted, S!Suspended, S!GoTo, R!GoTo
    <2>2. ASSUME NEW o \in {"send", "reserve", "recv"}, TryNow(t, o) \/ Begin(t, o)
          PROVE  same \/ more
      <3>1. pc[t] = "out" /\ pc'[t] \in {"out", "wake", "suspend"} /\ t \notin permits /\ op'[t] = o
        BY <1>0, <2>2 DEF TryNow, Begin, Call, S!Construct, After
      <3>2. \/ UNCHANGED <<reserved, permits>>
            \/ o = "reserve" /\ ReserveSlot /\ Permitted(t, TRUE)
            \/ o # "reserve" /\ UNCHANGED reserved /\ Permitted(t, TRUE)
        BY <2>2 DEF TryNow, Begin, Take, Closed, chanVars, SendItem, RecvItem
      <3>3. QED
        BY <3>1, <3>2 DEF Permitted
    <2>3. ASSUME NEW took \in BOOLEAN, NoWait(t, took)
          PROVE  same \/ more
      <3>1. pc[t] = "suspend" /\ pc'[t] \in {"out", "wake"} /\ t \notin permits /\ UNCHANGED op
        BY <1>0, <2>3 DEF NoWait, S!DontSuspend, R!DontSuspend, After, CallInv, InCall
      <3>2. \/ took /\ op[t] = "reserve" /\ ReserveSlot /\ Permitted(t, took)
            \/ ~(took /\ op[t] = "reserve") /\ UNCHANGED reserved /\ Permitted(t, took)
        BY <2>3 DEF NoWait, Take, Closed, chanVars, SendItem, RecvItem
      <3>3. QED
        BY <3>1, <3>2 DEF Permitted
    <2>4. CASE Resumed(t)
      <3>1. /\ pc[t] \in S!Suspended /\ pc'[t] \in {"out", "wake"} /\ t \notin permits
            /\ UNCHANGED <<op, reserved>> /\ Permitted(t, got[t])
        BY <1>0, <2>4 DEF Resumed, S!Resumed, S!Unblocked, After, CallInv, InCall, chanVars
      <3>2. CASE got[t] /\ op[t] = "reserve"
        BY <3>1, <3>2, GotSlot DEF Permitted
      <3>3. CASE ~(got[t] /\ op[t] = "reserve")
        BY <3>1, <3>3 DEF Permitted
      <3>4. QED
        BY <3>2, <3>3
    <2>5. CASE PermitSend(t) \/ PermitClose(t)
      <3>1. pc'[t] = "wake" /\ t \in permits /\ permits' = permits \ {t} /\ reserved' = reserved - 1
        BY <1>0, <2>5 DEF PermitSend, PermitClose, UsePermit
      <3>2. less
        BY <3>1
      <3>3. QED
        BY <3>2
    <2>6. CASE \/ Drop(t) \/ Lock(t) \/ WakeMiss(t) \/ WakeEnd(t)
      <3>1. /\ pc[t] \notin S!Suspended /\ pc'[t] \notin S!Suspended
            /\ UNCHANGED <<reserved, permits>>
        BY <1>0, <2>6 DEF Drop, Lock, waiterVars, WakeMiss, S!Skip, R!Skip, S!AtWaiter, R!AtWaiter,
                    WakeEnd, S!ScanEnd, R!ScanEnd, S!Pick, S!Resume, chanVars, callVars
      <3>2. QED
        BY <3>1
    <2>7. CASE Wait(t)
      <3>1. pc[t] = "suspend" /\ UNCHANGED <<op, got, permits, reserved>>
        BY <2>7 DEF Wait, S!Park, R!Park, chanVars, callVars
      <3>2. ~(got[t] /\ op[t] = "reserve")
        BY <3>1, GotSlot
      <3>3. QED
        BY <3>1, <3>2
    <2>8. CASE Stop(t) \/ QueueStep(t)
      <3>1. UNCHANGED <<op, got, permits, reserved>>
        BY <2>8 DEF Stop, QueueStep, chanVars, callVars
      <3>2. \/ UNCHANGED waiting /\ (pc'[t] \in S!Suspended <=> pc[t] \in S!Suspended)
            \/ pc[t] = "stopUnlink"
        <4>1. CASE Stop(t)
          BY <1>0, <4>1 DEF Stop, S!StopRequest
        <4>2. CASE QueueStep(t)
          BY <1>0, <4>2 DEF QueueStep, S!RegisterStop, S!StopRead, S!StopLock, S!StopUnlink,
                      S!SetStopped, S!WakeLock, R!StopLock, R!StopUnlink, R!WakeLock
        <4>3. QED
          BY <2>8, <4>1, <4>2
      <3>3. pc[t] = "stopUnlink" => ~(got[t] /\ op[t] = "reserve")
        BY GotSlot
      <3>4. QED
        BY <3>1, <3>2, <3>3
    <2>9. QED
      BY <1>2, <2>2, <2>3, <2>4, <2>5, <2>6, <2>7, <2>8, StepCases
  <1>3. QED
    BY <1>1, <1>2

LEMMA StepSlots ==
    ASSUME Types, Room, reserved = Cardinality(SlotHolders), LockInv, OpInv, QueueInv,
           WaiterInv, GotInv, NEW t \in Threads, Step(t) \/ Lock(t) \/ Stop(t)
    PROVE  Room' /\ reserved' = Cardinality(SlotHolders')
  <1>0. Types'
    BY StepTypes
  <1>1. /\ SlotHolders = {x \in Threads : Holds(x)}
        /\ SlotHolders' = {x \in Threads : Holds(x)'}
    BY <1>0 DEF SlotHolders, Holds, Types
  <1>2. IsFiniteSet(SlotHolders)
    BY <1>1, FS_Subset, ChannelAssumption
  <1>3. t \in permits => reserved >= 1
    <2>1. t \in permits => Cardinality(SlotHolders) # 0
      BY <1>2, FS_EmptySet DEF SlotHolders
    <2>2. QED
      BY <2>1 DEF Room
  <1>4. reserved' = Cardinality(SlotHolders')
    <2>1. CASE UNCHANGED reserved /\ \A x \in Threads : Holds(x)' <=> Holds(x)
      BY <1>1, <2>1
    <2>2. ASSUME ReserveSlot, NEW y \in Threads, ~Holds(y), Holds(y)',
                 \A x \in Threads \ {y} : Holds(x)' <=> Holds(x)
          PROVE  reserved' = Cardinality(SlotHolders')
      <3>1. y \notin SlotHolders /\ SlotHolders' = SlotHolders \cup {y}
        BY <1>1, <2>2
      <3>2. Cardinality(SlotHolders \cup {y}) = Cardinality(SlotHolders) + 1
        BY <1>2, <3>1, FS_AddElement
      <3>3. QED
        BY <2>2, <3>1, <3>2 DEF ReserveSlot
    <2>3. CASE /\ reserved' = reserved - 1 /\ t \in permits /\ ~Holds(t)'
               /\ \A x \in Threads \ {t} : Holds(x)' <=> Holds(x)
      <3>1. t \in SlotHolders /\ SlotHolders' = SlotHolders \ {t}
        BY <1>1, <2>3 DEF Holds
      <3>2. Cardinality(SlotHolders \ {t}) = Cardinality(SlotHolders) - 1
        BY <1>2, <3>1, FS_RemoveElement
      <3>3. QED
        BY <2>3, <3>1, <3>2
    <2>4. QED
      BY <2>1, <2>2, <2>3, StepHolds
  <1>5. Room'
    <2> USE ChannelAssumption DEF Room
    <2>1. CASE UNCHANGED chanVars
      BY <2>1 DEF chanVars
    <2>2. CASE SendItem \/ ReserveSlot \/ RecvItem
      BY <2>2 DEF SendItem, ReserveSlot, RecvItem, Full
    <2>3. CASE PermitSend(t) \/ PermitClose(t)
      <3>1. t \in permits /\ reserved' = reserved - 1 /\ (size' = size + 1 \/ size' = size)
        BY <2>3 DEF PermitSend, PermitClose, UsePermit
      <3>2. QED
        BY <1>3, <3>1
    <2>4. QED
      BY <2>1, <2>2, <2>3, StepChan
  <1>6. QED
    BY <1>4, <1>5

-----------------------------------------------------------------------------
(* The wakeups.                                                            *)

OwesReceivers(x) == \/ ~ToSenders(x) /\ Waking(x, recvPos)
                    \/ op[x] = "send" /\ Granted(x)

OwesSenders(x) == \/ ToSenders(x) /\ Waking(x, sendPos)
                  \/ op[x] = "recv" /\ Granted(x)

free == Capacity - (size + reserved)

LEMMA StepLens ==
    ASSUME Types, NEW t \in Threads, Step(t) \/ Lock(t) \/ Stop(t)
    PROVE  /\ ~(Wait(t) /\ OnSenders(t)) => Len(sendQ') <= Len(sendQ)
           /\ ~(Wait(t) /\ ~OnSenders(t)) => Len(recvQ') <= Len(recvQ)
           /\ Len(sendQ) \in Nat /\ Len(sendQ') \in Nat
           /\ Len(recvQ) \in Nat /\ Len(recvQ') \in Nat
  <1>0. sendQ \in Seq(Threads) /\ recvQ \in Seq(Threads) /\ ListTypes /\ ListTypes'
    BY StepListTypes DEF Types, ListTypes
  <1>1. \A i \in DOMAIN sendQ : Len(S!RemoveAt(sendQ, i)) <= Len(sendQ)
    BY <1>0, RemoveSet
  <1>2. \A i \in DOMAIN recvQ : Len(R!RemoveAt(recvQ, i)) <= Len(recvQ)
    BY <1>0, RemoveSet
  <1>3. ~(Wait(t) /\ OnSenders(t)) => Len(sendQ') <= Len(sendQ)
    BY <1>0, <1>1, StepLists
  <1>4. ~(Wait(t) /\ ~OnSenders(t)) => Len(recvQ') <= Len(recvQ)
    BY <1>0, <1>2, StepLists
  <1>5. QED
    BY <1>0, <1>3, <1>4 DEF ListTypes

\* A wakeup that is under way, or owed, stays so in the steps of others.
LEMMA OthersOwe ==
    ASSUME Types, LockInv, OpInv, QueueInv, WaiterInv, NEW t \in Threads,
           Step(t) \/ Lock(t) \/ Stop(t), NEW x \in Threads \ {t}
    PROVE  /\ OwesReceivers(x) => OwesReceivers(x)' \/ (size = 0 /\ UNCHANGED size)
           /\ OwesSenders(x) => OwesSenders(x)' \/ (Full /\ UNCHANGED chanVars)
  <1>0. /\ got \in [Threads -> BOOLEAN] /\ waiting \in [Threads -> BOOLEAN]
        /\ sendQ \in Seq(Threads) /\ recvQ \in Seq(Threads)
    BY DEF Types, ListTypes, WaiterTypes
  <1>1. /\ pc'[x] = pc[x] /\ op'[x] = op[x] /\ (ToSenders(x)' <=> ToSenders(x))
    BY StepOthers DEF ToSenders, receivers
  <1>2. Granted(x) => Granted(x)'
    <2>1. CASE WakeHit(t)
      <3>1. PICK w \in Threads : Woken(t, w)
        BY <2>1, WakeHitWakes
      <3>2. waiting' = [waiting EXCEPT ![w] = FALSE] /\ OnWakeup(w)
        BY <3>1 DEF Woken
      <3>3. QED
        BY <1>0, <1>1, <3>2 DEF Granted, S!Granted, OnWakeup
    <2>2. CASE ~WakeHit(t)
      BY <1>1, <2>2, StepBystanders DEF Granted, S!Granted
    <2>3. QED
      BY <2>1, <2>2
  <1>3. Waking(x, recvPos) => Waking(x, recvPos)' \/ (size = 0 /\ UNCHANGED size)
    <2>1. ASSUME WakeMiss(t), R!Skip(t), MustWait(op[recvQ[recvPos]])
          PROVE  size = 0 /\ UNCHANGED size
      <3>1. recvPos \in DOMAIN recvQ
        BY <2>1 DEF R!Skip, R!AtWaiter
      <3>2. op[recvQ[recvPos]] = "recv"
        BY <1>0, <3>1 DEF QueueInv, ToSet
      <3>3. QED
        BY <2>1, <3>2 DEF MustWait, WakeMiss, chanVars
    <2>2. QED
      BY <1>1, <2>1, StepPos DEF Waking, R!WakeLock
  <1>4. Waking(x, sendPos) => Waking(x, sendPos)' \/ (Full /\ UNCHANGED chanVars)
    <2>1. ASSUME WakeMiss(t), S!Skip(t), MustWait(op[sendQ[sendPos]])
          PROVE  Full /\ UNCHANGED chanVars
      <3>1. sendPos \in DOMAIN sendQ
        BY <2>1 DEF S!Skip, S!AtWaiter
      <3>2. OnSenders(sendQ[sendPos])
        BY <1>0, <3>1 DEF QueueInv, ToSet
      <3>3. QED
        BY <2>1, <3>2 DEF MustWait, WakeMiss, OnSenders
    <2>2. QED
      BY <1>1, <2>1, StepPos DEF Waking, S!WakeLock
  <1>5. QED
    BY <1>1, <1>2, <1>3, <1>4 DEF OwesReceivers, OwesSenders

\* An item that comes in, or a receiver that is served, and who owes a wakeup then.
LEMMA StepReceivers ==
    ASSUME Types, Room, LockInv, OpInv, QueueInv, WaiterInv, GotInv, NEW t \in Threads,
           Step(t) \/ Lock(t) \/ Stop(t)
    PROVE  \/ size' = 0 \/ recvQ' = <<>>
           \/ /\ size' <= size /\ Len(recvQ') <= Len(recvQ)
              /\ \A x \in Threads : OwesReceivers(x) => OwesReceivers(x)'
           \/ /\ size' = size + 1 /\ Len(recvQ') <= Len(recvQ)
              /\ \A x \in Threads : OwesReceivers(x) => OwesReceivers(x)'
              /\ \E y \in Threads : ~OwesReceivers(y) /\ OwesReceivers(y)'
           \/ /\ size' = size - 1 /\ Len(recvQ') = Len(recvQ) - 1
              /\ \A x \in Threads \ {t} : OwesReceivers(x) => OwesReceivers(x)'
  <1> DEFINE none == size' = 0 \/ recvQ' = <<>>
             owes == OwesReceivers(t) => OwesReceivers(t)'
             shorter == Len(recvQ') <= Len(recvQ)
             kept == size' <= size /\ shorter /\ owes
             more == /\ size' = size + 1 /\ shorter /\ owes
                     /\ \E y \in Threads : ~OwesReceivers(y) /\ OwesReceivers(y)'
             less == size' = size - 1 /\ Len(recvQ') = Len(recvQ) - 1
  <1> SUFFICES ASSUME ~none
               PROVE  kept \/ more \/ less
    <2>1. \A x \in Threads \ {t} : OwesReceivers(x) => OwesReceivers(x)' \/ none
      BY OthersOwe
    <2>2. none \/ kept \/ more \/ less
      OBVIOUS
    <2>3. CASE none
      BY <2>3
    <2>4. CASE ~none
      <3>1. \A x \in Threads \ {t} : OwesReceivers(x) => OwesReceivers(x)'
        BY <2>1, <2>4
      <3>2. QED
        BY <2>2, <2>4, <3>1
    <2>5. QED
      BY <2>3, <2>4
  <1> HIDE DEF none
  <1>0. /\ pc \in [Threads -> S!WQLocations] /\ op \in [Threads -> Ops] /\ CallInv(t)
        /\ got \in [Threads -> BOOLEAN] /\ waiting \in [Threads -> BOOLEAN]
        /\ senders' = senders
    BY StepOthers DEF Types, WaiterTypes, OpInv
  <1>1. shorter
    <2>1. CASE Wait(t) /\ ~OnSenders(t)
      <3>1. pc[t] = "suspend" /\ MustWait(op[t]) /\ UNCHANGED size
        BY <2>1 DEF Wait, R!Park, R!GoTo, chanVars
      <3>2. op[t] = "recv"
        BY <1>0, <2>1, <3>1 DEF CallInv, InCall, OnSenders
      <3>3. none
        BY <3>1, <3>2 DEF MustWait, none
      <3>4. QED
        BY <3>3
    <2>2. QED
      BY <2>1, StepLens
  <1> HIDE DEF shorter
  <1> USE <1>0, <1>1 DEF Room, OwesReceivers, Waking, Granted, S!Granted, S!Suspended,
          ToSenders, receivers, S!GoTo, R!GoTo
  <1>2. ASSUME NEW o \in {"send", "reserve", "recv"}, TryNow(t, o) \/ Begin(t, o)
        PROVE  kept \/ more
    <2>1. pc[t] = "out" /\ pc'[t] \in {"out", "wake", "suspend"} /\ op'[t] = o
      BY <1>2 DEF TryNow, Begin, Call, S!Construct, After
    <2>2. \/ UNCHANGED size
          \/ RecvItem
          \/ o = "send" /\ SendItem /\ pc' = [pc EXCEPT ![t] = "wake"]
      BY <1>2 DEF TryNow, Begin, Take, Closed, chanVars, ReserveSlot, After
    <2>3. QED
      BY <2>1, <2>2 DEF RecvItem, SendItem
  <1>3. ASSUME NEW took \in BOOLEAN, NoWait(t, took)
        PROVE  kept \/ more
    <2>1. pc[t] = "suspend" /\ pc'[t] = After(op[t], took) /\ UNCHANGED op
      BY <1>3 DEF NoWait, S!DontSuspend, R!DontSuspend
    <2>2. \/ size' <= size
          \/ took /\ op[t] = "send" /\ size' = size + 1
      BY <1>3 DEF NoWait, Take, Closed, chanVars, SendItem, ReserveSlot, RecvItem
    <2>3. QED
      BY <2>1, <2>2 DEF After
  <1>4. CASE Wait(t)
    BY <1>4 DEF Wait, S!Park, R!Park, chanVars
  <1>5. CASE Resumed(t)
    <2>1. /\ pc[t] \in {"wait", "blocked"} /\ pc'[t] = After(op[t], got[t])
          /\ UNCHANGED <<op, size>>
      BY <1>5 DEF Resumed, S!Resumed, S!Unblocked, chanVars
    <2>2. QED
      BY <2>1 DEF After
  <1>6. CASE PermitSend(t)
    <2>1. /\ pc[t] = "out" /\ pc'[t] = "wake" /\ op'[t] = "send" /\ size' = size + 1
      BY <1>6 DEF PermitSend, UsePermit
    <2>2. QED
      BY <2>1
  <1>7. CASE PermitClose(t) \/ Drop(t) \/ Lock(t)
    <2>1. pc[t] \in {"out", "stopped"} /\ UNCHANGED size
      BY <1>7 DEF PermitClose, UsePermit, Drop, Lock, chanVars
    <2>2. QED
      BY <2>1
  <1>8. CASE Stop(t)
    <2>1. /\ UNCHANGED <<size, op, got, waiting, recvPos>>
          /\ pc'[t] = pc[t] \/ (pc[t] = "wait" /\ pc'[t] = "stopRead")
      BY <1>8 DEF Stop, S!StopRequest, chanVars, recvVars
    <2>2. QED
      BY <2>1
  <1>9. CASE WakeHit(t)
    <2>1. PICK w \in Threads : Woken(t, w)
      BY <1>9, WakeHitWakes
    <2>2. /\ pc[t] = "scan" /\ OnWakeup(w) /\ UNCHANGED op
          /\ pc[w] \in S!Suspended /\ waiting[w] /\ pc'[w] = pc[w] /\ ~waiting'[w]
      BY <2>1 DEF Woken, Clean
    <2>3. CASE ToSenders(t)
      <3>1. owes /\ OnSenders(w)
        BY <2>1, <2>2, <2>3 DEF Woken
      <3>2. \/ size' <= size
            \/ op[w] = "send" /\ size' = size + 1 /\ got'[w]
        BY <2>2, <3>1 DEF OnWakeup, Take, Closed, chanVars, SendItem, ReserveSlot, RecvItem
      <3>3. QED
        BY <2>2, <3>1, <3>2
    <2>4. CASE ~ToSenders(t)
      <3>1. /\ w \in ToSet(recvQ) /\ Len(recvQ') = Len(recvQ) - 1 /\ UNCHANGED recvPos
        BY <2>1, <2>4 DEF Woken, InQueue, QueueInv, OnSenders
      <3>2. op[w] = "recv"
        BY <3>1 DEF QueueInv
      <3>3. size' = size - 1
        <4>1. Closed("recv") => none
          BY DEF Closed, chanVars, none
        <4>2. QED
          BY <2>2, <3>2, <4>1 DEF OnWakeup, Take, RecvItem
      <3>4. QED
        BY <3>1, <3>3
    <2>5. QED
      BY <2>3, <2>4
  <1>10. CASE WakeMiss(t)
    <2>1. pc[t] = "scan" /\ UNCHANGED <<pc, op, size>>
      BY <1>10 DEF WakeMiss, S!Skip, S!AtWaiter, R!Skip, R!AtWaiter, chanVars
    <2>2. CASE ToSenders(t)
      BY <2>1, <2>2
    <2>3. CASE ~ToSenders(t)
      <3>1. R!Skip(t) /\ MustWait(op[recvQ[recvPos]])
        BY <1>10, <2>3 DEF WakeMiss
      <3>2. op[recvQ[recvPos]] = "recv"
        BY <3>1 DEF R!Skip, R!AtWaiter, QueueInv, ToSet
      <3>3. none
        BY <2>1, <3>1, <3>2 DEF MustWait, none
      <3>4. QED
        BY <3>3
    <2>4. QED
      BY <2>2, <2>3
  <1>11. CASE WakeEnd(t)
    <2>1. pc[t] \in {"scan", "pick", "resume"} /\ UNCHANGED size
      BY <1>11 DEF WakeEnd, S!ScanEnd, R!ScanEnd, S!Pick, S!Resume, chanVars
    <2>2. pc[t] = "scan" /\ ~ToSenders(t) => recvPos # 1
      <3>1. ASSUME pc[t] = "scan", ~ToSenders(t), recvPos = 1
            PROVE  none
        <4>1. recvPos \notin DOMAIN recvQ /\ UNCHANGED recvQ
          BY <1>11, <3>1 DEF WakeEnd, R!ScanEnd, S!Pick, S!Resume
        <4>2. recvQ \in Seq(Threads)
          BY DEF Types, ListTypes
        <4>3. recvQ = <<>>
          BY <3>1, <4>1, <4>2
        <4>4. QED
          BY <4>1, <4>3 DEF none
      <3>2. QED
        BY <3>1
    <2>3. QED
      BY <2>1, <2>2
  <1>12. CASE QueueStep(t)
    <2>1. UNCHANGED <<size, op, got>>
      BY <1>12 DEF QueueStep, chanVars
    <2>2. owes
      <3>1. CASE S!StopUnlink(t) \/ R!StopUnlink(t)
        <4>1. pc[t] = "stopUnlink" /\ TookInv(t)
          BY <3>1 DEF S!StopUnlink, R!StopUnlink, GotInv
        <4>2. QED
          BY <4>1 DEF TookInv, Late, CallInv, OnSenders
      <3>2. CASE ~(S!StopUnlink(t) \/ R!StopUnlink(t))
        BY <1>12, <2>1, <3>2
           DEF QueueStep, S!RegisterStop, S!StopRead, S!StopLock, S!SetStopped, S!WakeLock,
               R!StopLock, R!WakeLock, sendVars, recvVars
      <3>3. QED
        BY <3>1, <3>2
    <2>3. QED
      BY <2>1, <2>2
  <1>13. QED
    BY <1>2, <1>3, <1>4, <1>5, <1>6, <1>7, <1>8, <1>9, <1>10, <1>11, <1>12, StepCases

\* Room that comes free, or a sender that is served, and who owes a wakeup then.
LEMMA StepSenders ==
    ASSUME Types, Room, LockInv, OpInv, QueueInv, WaiterInv, GotInv, NEW t \in Threads,
           Step(t) \/ Lock(t) \/ Stop(t)
    PROVE  \/ free' <= 0 \/ sendQ' = <<>> \/ receiverClosed'
           \/ /\ free' <= free /\ Len(sendQ') <= Len(sendQ)
              /\ \A x \in Threads : OwesSenders(x) => OwesSenders(x)'
           \/ /\ free' = free + 1 /\ Len(sendQ') <= Len(sendQ)
              /\ \A x \in Threads : OwesSenders(x) => OwesSenders(x)'
              /\ \E y \in Threads : ~OwesSenders(y) /\ OwesSenders(y)'
           \/ /\ free' = free - 1 /\ Len(sendQ') = Len(sendQ) - 1
              /\ \A x \in Threads \ {t} : OwesSenders(x) => OwesSenders(x)'
  <1> DEFINE none == free' <= 0 \/ sendQ' = <<>> \/ receiverClosed'
             owes == OwesSenders(t) => OwesSenders(t)'
             shorter == Len(sendQ') <= Len(sendQ)
             kept == free' <= free /\ shorter /\ owes
             more == /\ free' = free + 1 /\ shorter /\ owes
                     /\ \E y \in Threads : ~OwesSenders(y) /\ OwesSenders(y)'
             less == free' = free - 1 /\ Len(sendQ') = Len(sendQ) - 1
  <1>C. Capacity \in Nat
    BY ChannelAssumption
  <1>F. Full /\ UNCHANGED chanVars => none
    BY <1>C DEF Full, chanVars, Room, free
  <1> SUFFICES ASSUME ~none
               PROVE  kept \/ more \/ less
    <2>1. \A x \in Threads \ {t} : OwesSenders(x) => OwesSenders(x)' \/ none
      BY <1>F, OthersOwe
    <2>2. none \/ kept \/ more \/ less
      OBVIOUS
    <2> HIDE DEF none
    <2>3. CASE none
      BY <2>3 DEF none
    <2>4. CASE ~none
      <3>1. \A x \in Threads \ {t} : OwesSenders(x) => OwesSenders(x)'
        BY <2>1, <2>4
      <3>2. QED
        BY <2>2, <2>4, <3>1
    <2>5. QED
      BY <2>3, <2>4
  <1> HIDE DEF none
  <1>0. /\ pc \in [Threads -> S!WQLocations] /\ op \in [Threads -> Ops] /\ CallInv(t)
        /\ got \in [Threads -> BOOLEAN] /\ waiting \in [Threads -> BOOLEAN]
        /\ senders' = senders
    BY StepOthers DEF Types, WaiterTypes, OpInv
  <1>1. shorter
    <2>1. CASE Wait(t) /\ OnSenders(t)
      <3>1. MustWait(op[t]) /\ UNCHANGED chanVars
        BY <2>1 DEF Wait
      <3>2. none
        BY <1>F, <2>1, <3>1 DEF MustWait, OnSenders
      <3>3. QED
        BY <3>2
    <2>2. QED
      BY <2>1, StepLens
  <1>2. /\ UNCHANGED chanVars => free' = free
        /\ SendItem \/ ReserveSlot => free' = free - 1
        /\ RecvItem => free' = free + 1
    BY <1>C DEF chanVars, SendItem, ReserveSlot, RecvItem, Room, free
  <1>3. free \in Int
    BY <1>C DEF Room, free
  <1> HIDE DEF shorter
  <1> USE <1>0, <1>1, <1>2, <1>3 DEF OwesSenders, Waking, Granted, S!Granted, S!Suspended,
          ToSenders, receivers, S!GoTo, R!GoTo
  <1>4. ASSUME NEW o \in {"send", "reserve", "recv"}, TryNow(t, o) \/ Begin(t, o)
        PROVE  kept \/ more
    <2>1. pc[t] = "out" /\ pc'[t] \in {"out", "wake", "suspend"} /\ op'[t] = o
      BY <1>4 DEF TryNow, Begin, Call, S!Construct, After
    <2>2. \/ UNCHANGED chanVars
          \/ SendItem \/ ReserveSlot
          \/ o = "recv" /\ RecvItem /\ pc' = [pc EXCEPT ![t] = "wake"]
      BY <1>4 DEF TryNow, Begin, Take, Closed, After
    <2>3. QED
      BY <2>1, <2>2
  <1>5. ASSUME NEW took \in BOOLEAN, NoWait(t, took)
        PROVE  kept \/ more
    <2>1. pc[t] = "suspend" /\ pc'[t] = After(op[t], took) /\ UNCHANGED op
      BY <1>5 DEF NoWait, S!DontSuspend, R!DontSuspend
    <2>2. \/ UNCHANGED chanVars
          \/ SendItem \/ ReserveSlot
          \/ took /\ op[t] = "recv" /\ RecvItem
      BY <1>5 DEF NoWait, Take, Closed
    <2>3. QED
      BY <2>1, <2>2 DEF After
  <1>6. CASE Wait(t)
    BY <1>6 DEF Wait, S!Park, R!Park
  <1>7. CASE Resumed(t)
    <2>1. /\ pc[t] \in {"wait", "blocked"} /\ pc'[t] = After(op[t], got[t])
          /\ UNCHANGED <<op, chanVars>>
      BY <1>7 DEF Resumed, S!Resumed, S!Unblocked
    <2>2. QED
      BY <2>1 DEF After
  <1>8. CASE PermitClose(t)
    <2>1. /\ pc[t] = "out" /\ pc'[t] = "wake" /\ op'[t] = "return"
          /\ UNCHANGED size /\ reserved' = reserved - 1
      BY <1>8 DEF PermitClose, UsePermit
    <2>2. free' = free + 1
      BY <1>C, <2>1 DEF Room, free
    <2>3. QED
      BY <2>1, <2>2
  <1>9. CASE PermitSend(t)
    <2>1. pc[t] = "out" /\ size' = size + 1 /\ reserved' = reserved - 1
      BY <1>9 DEF PermitSend, UsePermit
    <2>2. free' = free
      BY <1>C, <2>1 DEF Room, free
    <2>3. QED
      BY <2>1, <2>2
  <1>10. CASE Drop(t) \/ Lock(t)
    <2>1. pc[t] \in {"out", "stopped"} /\ UNCHANGED chanVars
      BY <1>10 DEF Drop, Lock
    <2>2. QED
      BY <2>1
  <1>11. CASE Stop(t)
    <2>1. /\ UNCHANGED <<chanVars, op, got, waiting, sendPos>>
          /\ pc'[t] = pc[t] \/ (pc[t] = "wait" /\ pc'[t] = "stopRead")
      BY <1>11 DEF Stop, S!StopRequest
    <2>2. QED
      BY <2>1
  <1>12. CASE WakeHit(t)
    <2>1. PICK w \in Threads : Woken(t, w)
      BY <1>12, WakeHitWakes
    <2>2. /\ pc[t] = "scan" /\ OnWakeup(w) /\ UNCHANGED op
          /\ pc[w] \in S!Suspended /\ waiting[w] /\ pc'[w] = pc[w] /\ ~waiting'[w]
      BY <2>1 DEF Woken, Clean
    <2>3. CASE ToSenders(t)
      <3>1. OnSenders(w) /\ Len(sendQ') = Len(sendQ) - 1
        BY <2>1, <2>3 DEF Woken
      <3>2. SendItem \/ ReserveSlot
        <4>1. ASSUME Closed(op[w])
              PROVE  none
          <5>1. receiverClosed
            BY <3>1, <4>1 DEF Closed, OnSenders
          <5>2. QED
            BY <5>1, ClosedStays DEF none
        <4>2. QED
          BY <2>2, <3>1, <4>1 DEF OnWakeup, Take, OnSenders
      <3>3. QED
        BY <3>1, <3>2
    <2>4. CASE ~ToSenders(t)
      <3>1. w \in ToSet(recvQ) /\ owes
        BY <2>1, <2>2, <2>4 DEF Woken, InQueue, QueueInv, OnSenders
      <3>2. op[w] = "recv"
        BY <3>1 DEF QueueInv
      <3>3. UNCHANGED chanVars \/ (RecvItem /\ got'[w])
        BY <2>2, <3>2 DEF OnWakeup, Take, Closed
      <3>4. QED
        BY <2>2, <3>1, <3>2, <3>3
    <2>5. QED
      BY <2>3, <2>4
  <1>13. CASE WakeMiss(t)
    <2>1. pc[t] = "scan" /\ UNCHANGED <<pc, op, chanVars>>
      BY <1>13 DEF WakeMiss, S!Skip, S!AtWaiter, R!Skip, R!AtWaiter
    <2>2. CASE ~ToSenders(t)
      BY <2>1, <2>2
    <2>3. CASE ToSenders(t)
      <3>1. S!Skip(t) /\ MustWait(op[sendQ[sendPos]])
        BY <1>13, <2>3 DEF WakeMiss
      <3>2. OnSenders(sendQ[sendPos])
        BY <3>1 DEF S!Skip, S!AtWaiter, QueueInv, ToSet
      <3>3. none
        BY <1>F, <2>1, <3>1, <3>2 DEF MustWait, OnSenders
      <3>4. QED
        BY <3>3
    <2>4. QED
      BY <2>2, <2>3
  <1>14. CASE WakeEnd(t)
    <2>1. pc[t] \in {"scan", "pick", "resume"} /\ UNCHANGED chanVars
      BY <1>14 DEF WakeEnd, S!ScanEnd, R!ScanEnd, S!Pick, S!Resume
    <2>2. pc[t] = "scan" /\ ToSenders(t) => sendPos # 1
      <3>1. ASSUME pc[t] = "scan", ToSenders(t), sendPos = 1
            PROVE  none
        <4>1. sendPos \notin DOMAIN sendQ /\ UNCHANGED sendQ
          BY <1>14, <3>1 DEF WakeEnd, S!ScanEnd, S!Pick, S!Resume
        <4>2. sendQ \in Seq(Threads)
          BY DEF Types, ListTypes
        <4>3. sendQ = <<>>
          BY <3>1, <4>1, <4>2
        <4>4. QED
          BY <4>1, <4>3 DEF none
      <3>2. QED
        BY <3>1
    <2>3. QED
      BY <2>1, <2>2
  <1>15. CASE QueueStep(t)
    <2>1. UNCHANGED <<chanVars, op, got>>
      BY <1>15 DEF QueueStep
    <2>2. owes
      <3>1. CASE S!StopUnlink(t) \/ R!StopUnlink(t)
        <4>1. pc[t] = "stopUnlink" /\ TookInv(t)
          BY <3>1 DEF S!StopUnlink, R!StopUnlink, GotInv
        <4>2. ~Late(t)
          <5>1. ASSUME Late(t)
                PROVE  none
            <6>1. sendQ = <<>> /\ t \in receivers
              BY <5>1, QueuesOfOpen DEF Late
            <6>2. ToSet(sendQ) = {} /\ ~OnSenders(t)
              BY <6>1 DEF ToSet, CallInv
            <6>3. ToSet(sendQ') = {} /\ ListTypes'
              BY <6>2, StepSets, StepListTypes
            <6>4. QED
              BY <6>3, SetOfSeq DEF none, ListTypes
          <5>2. QED
            BY <5>1
        <4>3. QED
          BY <4>1, <4>2 DEF TookInv
      <3>2. CASE ~(S!StopUnlink(t) \/ R!StopUnlink(t))
        BY <1>15, <2>1, <3>2
           DEF QueueStep, S!RegisterStop, S!StopRead, S!StopLock, S!SetStopped, S!WakeLock,
               R!StopLock, R!WakeLock, sendVars, recvVars
      <3>3. QED
        BY <3>1, <3>2
    <2>3. QED
      BY <2>1, <2>2
  <1>16. QED
    BY <1>4, <1>5, <1>6, <1>7, <1>8, <1>9, <1>10, <1>11, <1>12, <1>13, <1>14, <1>15,
       StepCases

\* As many wakeups as there are things to give, or waiters, in spite of a step: n things
\* and l waiters before, m and k after; A owes a wakeup before, B after.
Enough(n, l, A) == n <= Cardinality(A) \/ l <= Cardinality(A)

Changes(n, l, A, m, k, B, t) ==
    \/ m <= n /\ k <= l /\ A \subseteq B
    \/ m = n + 1 /\ k <= l /\ A \subseteq B /\ \E y \in B : y \notin A
    \/ m = n - 1 /\ k = l - 1 /\ A \ {t} \subseteq B

LEMMA EnoughKept ==
    ASSUME NEW n \in Int, NEW m \in Int, NEW l \in Nat, NEW k \in Nat,
           NEW A \in SUBSET Threads, NEW B \in SUBSET Threads, NEW t,
           Enough(n, l, A), Changes(n, l, A, m, k, B, t)
    PROVE  Enough(m, k, B)
  <1> USE DEF Enough, Changes
  <1>0. IsFiniteSet(A) /\ IsFiniteSet(B) /\ IsFiniteSet(A \ {t})
    BY FS_Subset, ChannelAssumption
  <1>1. Cardinality(A) \in Nat /\ Cardinality(B) \in Nat /\ Cardinality(A \ {t}) \in Nat
    BY <1>0, FS_CardinalityType
  <1>2. A \subseteq B => Cardinality(A) <= Cardinality(B)
    BY <1>0, FS_Subset
  <1>3. CASE m <= n /\ k <= l /\ A \subseteq B
    BY <1>1, <1>2, <1>3
  <1>4. CASE m = n + 1 /\ k <= l /\ A \subseteq B /\ \E y \in B : y \notin A
    <2>1. PICK y \in B : y \notin A
      BY <1>4
    <2>2. Cardinality(A \cup {y}) = Cardinality(A) + 1
      BY <1>0, <2>1, FS_AddElement
    <2>3. A \cup {y} \subseteq B
      BY <1>4, <2>1
    <2>4. Cardinality(A \cup {y}) <= Cardinality(B)
      BY <1>0, <2>3, FS_Subset
    <2>5. QED
      BY <1>1, <1>4, <2>2, <2>4
  <1>5. CASE m = n - 1 /\ k = l - 1 /\ A \ {t} \subseteq B
    <2>1. Cardinality(A \ {t}) >= Cardinality(A) - 1
      <3>1. CASE t \in A
        <4>1. Cardinality(A \ {t}) = Cardinality(A) - 1
          BY <1>0, <3>1, FS_RemoveElement
        <4>2. QED
          BY <1>1, <4>1
      <3>2. CASE t \notin A
        <4>1. A \ {t} = A
          BY <3>2
        <4>2. QED
          BY <1>1, <4>1
      <3>3. QED
        BY <3>1, <3>2
    <2>2. Cardinality(A \ {t}) <= Cardinality(B)
      BY <1>0, <1>5, FS_Subset
    <2>3. QED
      BY <1>1, <1>5, <2>1, <2>2
  <1>6. QED
    BY <1>3, <1>4, <1>5

\* Who closed a side is on its way to the other until nobody waits there.
CloserComes ==
    /\ receiverClosed /\ sendQ # <<>> =>
          \E t \in receivers : op[t] = "close" /\ Waking(t, sendPos)
    /\ senderClosed /\ recvQ # <<>> =>
          \E t \in senders : op[t] = "close" /\ Waking(t, recvPos)

\* A step of the actor that closes.
LEMMA CloserStep ==
    ASSUME Types, LockInv, OpInv, QueueInv, WaiterInv, CloseInv, KindInv, NEW t \in Threads,
           Step(t) \/ Lock(t) \/ Stop(t), op[t] = "close"
    PROVE  /\ t \in receivers /\ receiverClosed /\ Waking(t, sendPos) =>
                 sendQ' = <<>> \/ (op[t] = "close" /\ Waking(t, sendPos))'
           /\ t \in senders /\ senderClosed /\ Waking(t, recvPos) =>
                 recvQ' = <<>> \/ (op[t] = "close" /\ Waking(t, recvPos))'
  <1>0. /\ pc \in [Threads -> S!WQLocations] /\ op \in [Threads -> Ops]
        /\ sendQ \in Seq(Threads) /\ recvQ \in Seq(Threads)
        /\ senders' = senders /\ receivers' = receivers
    BY StepOthers DEF Types, ListTypes, receivers
  <1> USE <1>0 DEF S!GoTo, R!GoTo
  <1>1. SUFFICES ASSUME pc[t] \in {"wake", "scan"}
                 PROVE  /\ t \in receivers /\ receiverClosed /\ Waking(t, sendPos) =>
                              sendQ' = <<>> \/ (op[t] = "close" /\ Waking(t, sendPos))'
                        /\ t \in senders /\ senderClosed /\ Waking(t, recvPos) =>
                              recvQ' = <<>> \/ (op[t] = "close" /\ Waking(t, recvPos))'
    BY DEF Waking
  <1>2. QueueStep(t) \/ WakeHit(t) \/ WakeMiss(t) \/ WakeEnd(t)
    BY <1>1, StepCases
       DEF TryNow, Begin, Call, NoWait, S!DontSuspend, R!DontSuspend, Wait, S!Park, R!Park,
           PermitSend, PermitClose, UsePermit, Drop, Lock, Resumed, S!Resumed, S!Unblocked,
           Stop, S!StopRequest
  <1>3. CASE QueueStep(t)
    <2>1. UNCHANGED op
      BY <1>3 DEF QueueStep
    <2>2. \/ ToSenders(t) /\ pc'[t] = "scan" /\ sendPos' = 1
          \/ ~ToSenders(t) /\ pc'[t] = "scan" /\ recvPos' = 1
      BY <1>1, <1>3 DEF QueueStep, S!RegisterStop, S!StopRead, S!StopLock, S!StopUnlink,
                        S!SetStopped, S!WakeLock, R!StopLock, R!StopUnlink, R!WakeLock
    <2>3. QED
      BY <2>1, <2>2 DEF Waking, ToSenders, receivers
  <1>4. CASE WakeHit(t)
    <2>1. PICK w \in Threads : Woken(t, w)
      BY <1>4, WakeHitWakes
    <2>2. pc[t] = "scan" /\ UNCHANGED op
      BY <2>1 DEF Woken
    <2>3. CASE WakesAll(t)
      BY <2>1, <2>2, <2>3 DEF Woken, Waking, ToSenders, receivers, sendVars, recvVars
    <2>4. CASE ~WakesAll(t)
      <3>1. t \notin receivers /\ kind = "mpsc" /\ ~ToSenders(t)
        BY <2>4 DEF WakesAll, Types, ToSenders
      <3>2. PICK r \in Threads : receivers = {r}
        BY <3>1 DEF KindInv
      <3>3. ToSet(recvQ) \subseteq {r}
        BY <3>2, SetOfSeq DEF QueueInv, OpInv, CallInv
      <3>4. Len(recvQ) <= 1
        BY <3>3, OneOrNone DEF QueueInv
      <3>5. Len(recvQ') = Len(recvQ) - 1 /\ ListTypes'
        BY <2>1, <3>1, StepListTypes DEF Woken
      <3>6. recvQ' = <<>>
        BY <3>4, <3>5 DEF ListTypes
      <3>7. QED
        BY <3>1, <3>6
    <2>5. QED
      BY <2>3, <2>4
  <1>5. CASE WakeMiss(t)
    <2>1. CASE ToSenders(t)
      <3>1. sendPos \in DOMAIN sendQ /\ MustWait(op[sendQ[sendPos]])
        BY <1>5, <2>1 DEF WakeMiss, S!Skip, S!AtWaiter
      <3>2. OnSenders(sendQ[sendPos])
        BY <3>1 DEF QueueInv, ToSet
      <3>3. ~receiverClosed /\ t \notin senders
        BY <2>1, <3>1, <3>2 DEF MustWait, OnSenders, ToSenders, receivers
      <3>4. QED
        BY <3>3
    <2>2. CASE ~ToSenders(t)
      <3>1. recvPos \in DOMAIN recvQ /\ MustWait(op[recvQ[recvPos]])
        BY <1>5, <2>2 DEF WakeMiss, R!Skip, R!AtWaiter
      <3>2. op[recvQ[recvPos]] = "recv"
        BY <3>1 DEF QueueInv, ToSet
      <3>3. ~senderClosed /\ t \notin receivers
        BY <2>2, <3>1, <3>2 DEF MustWait, ToSenders
      <3>4. QED
        BY <3>3
    <2>3. QED
      BY <2>1, <2>2
  <1>6. CASE WakeEnd(t)
    <2>1. \/ ToSenders(t) /\ sendPos \notin DOMAIN sendQ /\ UNCHANGED sendQ /\ pc[t] = "scan"
          \/ ~ToSenders(t) /\ recvPos \notin DOMAIN recvQ /\ UNCHANGED recvQ /\ pc[t] = "scan"
      BY <1>1, <1>6 DEF WakeEnd, S!ScanEnd, R!ScanEnd, S!Pick, S!Resume
    <2>2. /\ 1 \notin DOMAIN sendQ => sendQ = <<>>
          /\ 1 \notin DOMAIN recvQ => recvQ = <<>>
      OBVIOUS
    <2>3. QED
      BY <2>1, <2>2 DEF Waking, ToSenders, receivers
  <1>7. QED
    BY <1>2, <1>3, <1>4, <1>5, <1>6

LEMMA StepCloserComes ==
    ASSUME Types, LockInv, OpInv, QueueInv, WaiterInv, CloseInv, KindInv, CloserComes,
           NEW t \in Threads, Step(t) \/ Lock(t) \/ Stop(t)
    PROVE  CloserComes'
  <1>0. /\ sendQ \in Seq(Threads) /\ recvQ \in Seq(Threads) /\ ListTypes'
        /\ pc \in [Threads -> S!WQLocations] /\ op \in [Threads -> Ops]
        /\ senders' = senders /\ receivers' = receivers
        /\ senders \subseteq Threads /\ receivers = Threads \ senders
    BY StepOthers, StepListTypes DEF Types, ListTypes, receivers
  <1>1. ASSUME NEW x \in Threads, x # t
        PROVE  /\ op'[x] = op[x]
               /\ receiverClosed => (Waking(x, sendPos) => Waking(x, sendPos)')
               /\ senderClosed => (Waking(x, recvPos) => Waking(x, recvPos)')
    <2>1. pc'[x] = pc[x] /\ op'[x] = op[x]
      BY <1>1, StepOthers
    <2>2. ASSUME receiverClosed
          PROVE  sendPos' \in {1, sendPos}
      <3>1. ASSUME S!Skip(t), MustWait(op[sendQ[sendPos]])
            PROVE  FALSE
        <4>1. sendPos \in DOMAIN sendQ
          BY <3>1 DEF S!Skip, S!AtWaiter
        <4>2. OnSenders(sendQ[sendPos])
          BY <1>0, <4>1 DEF QueueInv, ToSet
        <4>3. QED
          BY <2>2, <3>1, <4>2 DEF MustWait, OnSenders
      <3>2. QED
        BY <3>1, StepPos DEF S!WakeLock
    <2>3. ASSUME senderClosed
          PROVE  recvPos' \in {1, recvPos}
      <3>1. ASSUME R!Skip(t), MustWait(op[recvQ[recvPos]])
            PROVE  FALSE
        <4>1. recvPos \in DOMAIN recvQ
          BY <3>1 DEF R!Skip, R!AtWaiter
        <4>2. op[recvQ[recvPos]] = "recv"
          BY <1>0, <4>1 DEF QueueInv, ToSet
        <4>3. QED
          BY <2>3, <3>1, <4>2 DEF MustWait
      <3>2. QED
        BY <3>1, StepPos DEF R!WakeLock
    <2>4. QED
      BY <2>1, <2>2, <2>3 DEF Waking
  <1>2. ASSUME receiverClosed', sendQ' # <<>>
        PROVE  \E x \in receivers : (op[x] = "close" /\ Waking(x, sendPos))'
    <2>1. CASE receiverClosed
      <3>1. ~(Wait(t) /\ OnSenders(t))
        BY <2>1 DEF Wait, MustWait, OnSenders
      <3>2. ToSet(sendQ') \subseteq ToSet(sendQ)
        BY <3>1, StepSets
      <3>3. sendQ # <<>>
        BY <1>0, <1>2, <3>2, SetOfSeq DEF ListTypes
      <3>4. PICK x \in receivers : op[x] = "close" /\ Waking(x, sendPos)
        BY <2>1, <3>3 DEF CloserComes
      <3>5. CASE x = t
        BY <1>2, <2>1, <3>4, <3>5, CloserStep
      <3>6. CASE x # t
        BY <1>0, <1>1, <2>1, <3>4, <3>6
      <3>7. QED
        BY <3>5, <3>6
    <2>2. CASE ~receiverClosed
      <3>1. Drop(t)
        BY <1>0, <1>2, <2>2, StepCases
           DEF TryNow, Begin, Call, NoWait, Wait, Resumed, PermitSend, PermitClose, UsePermit,
               Lock, Stop, WakeHit, WakeMiss, WakeEnd, QueueStep, callVars, receiverClosed
      <3>2. t \in receivers /\ ends' \cap receivers = {} /\ UNCHANGED sendQ
        BY <1>0, <1>2, <2>2, <3>1 DEF Drop, receiverClosed, sendVars
      <3>3. ~senderClosed
        BY <1>2, <3>2, QueuesOfOpen
      <3>4. pc'[t] = "wake" /\ op'[t] = "close"
        BY <1>0, <3>1, <3>2, <3>3 DEF Drop
      <3>5. QED
        BY <3>2, <3>4 DEF Waking
    <2>3. QED
      BY <2>1, <2>2
  <1>3. ASSUME senderClosed', recvQ' # <<>>
        PROVE  \E x \in senders : (op[x] = "close" /\ Waking(x, recvPos))'
    <2>1. CASE senderClosed
      <3>1. ~(Wait(t) /\ ~OnSenders(t))
        <4>1. Wait(t) => pc[t] \in InCall /\ MustWait(op[t])
          BY DEF Wait, S!Park, R!Park, S!GoTo, R!GoTo, InCall
        <4>2. QED
          BY <2>1, <4>1 DEF OpInv, CallInv, MustWait, OnSenders
      <3>2. ToSet(recvQ') \subseteq ToSet(recvQ)
        BY <3>1, StepSets
      <3>3. recvQ # <<>>
        BY <1>0, <1>3, <3>2, SetOfSeq DEF ListTypes
      <3>4. PICK x \in senders : op[x] = "close" /\ Waking(x, recvPos)
        BY <2>1, <3>3 DEF CloserComes
      <3>5. CASE x = t
        BY <1>3, <2>1, <3>4, <3>5, CloserStep
      <3>6. CASE x # t
        BY <1>0, <1>1, <2>1, <3>4, <3>6
      <3>7. QED
        BY <3>5, <3>6
    <2>2. CASE ~senderClosed
      <3>1. Drop(t)
        BY <1>0, <1>3, <2>2, StepCases
           DEF TryNow, Begin, Call, NoWait, Wait, Resumed, PermitSend, PermitClose, UsePermit,
               Lock, Stop, WakeHit, WakeMiss, WakeEnd, QueueStep, callVars, senderClosed
      <3>2. t \in senders /\ ends' \cap senders = {} /\ UNCHANGED recvQ
        BY <1>0, <1>3, <2>2, <3>1 DEF Drop, senderClosed, recvVars
      <3>3. ~receiverClosed
        BY <1>3, <3>2, QueuesOfOpen
      <3>4. pc'[t] = "wake" /\ op'[t] = "close"
        BY <1>0, <3>1, <3>2, <3>3 DEF Drop
      <3>5. QED
        BY <3>2, <3>4 DEF Waking
    <2>3. QED
      BY <2>1, <2>2
  <1>4. QED
    BY <1>0, <1>2, <1>3 DEF CloserComes

LEMMA StepEnoughWakeups ==
    ASSUME Types, Room, LockInv, OpInv, QueueInv, WaiterInv, GotInv, CloseInv, KindInv,
           EnoughWakeups, NEW t \in Threads, Step(t) \/ Lock(t) \/ Stop(t), Room'
    PROVE  EnoughWakeups'
  <1>1. /\ ReceiversOwed = {x \in Threads : OwesReceivers(x)}
        /\ ReceiversOwed' = {x \in Threads : OwesReceivers(x)'}
        /\ SendersOwed = {x \in Threads : OwesSenders(x)}
        /\ SendersOwed' = {x \in Threads : OwesSenders(x)'}
    <2>1. ReceiversOwed = {x \in Threads : OwesReceivers(x)}
      BY DEF ReceiversOwed, OwesReceivers
    <2>2. ReceiversOwed' = {x \in Threads : OwesReceivers(x)'}
      BY DEF ReceiversOwed, OwesReceivers
    <2>3. SendersOwed = {x \in Threads : OwesSenders(x)}
      BY DEF SendersOwed, OwesSenders
    <2>4. SendersOwed' = {x \in Threads : OwesSenders(x)'}
      BY DEF SendersOwed, OwesSenders
    <2>5. QED
      BY <2>1, <2>2, <2>3, <2>4
  <1>2. /\ size \in Int /\ size' \in Int /\ free \in Int /\ free' \in Int
        /\ Len(sendQ) \in Nat /\ Len(sendQ') \in Nat
        /\ Len(recvQ) \in Nat /\ Len(recvQ') \in Nat
    BY StepLens, ChannelAssumption DEF Room, free
  <1>3. /\ IsFiniteSet(ReceiversOwed') /\ IsFiniteSet(SendersOwed')
        /\ Cardinality(ReceiversOwed') \in Nat /\ Cardinality(SendersOwed') \in Nat
    BY <1>1, FS_Subset, FS_CardinalityType, ChannelAssumption
  <1>4. \/ size' <= Cardinality(ReceiversOwed')
        \/ Len(recvQ') <= Cardinality(ReceiversOwed')
    <2>1. CASE size' = 0 \/ recvQ' = <<>>
      BY <1>2, <1>3, <2>1
    <2>2. CASE ~(size' = 0 \/ recvQ' = <<>>)
      <3>1. size <= Cardinality(ReceiversOwed) \/ Len(recvQ) <= Cardinality(ReceiversOwed)
        BY DEF EnoughWakeups
      <3>2. \/ /\ size' <= size /\ Len(recvQ') <= Len(recvQ)
               /\ ReceiversOwed \subseteq ReceiversOwed'
            \/ /\ size' = size + 1 /\ Len(recvQ') <= Len(recvQ)
               /\ ReceiversOwed \subseteq ReceiversOwed'
               /\ \E y \in ReceiversOwed' : y \notin ReceiversOwed
            \/ /\ size' = size - 1 /\ Len(recvQ') = Len(recvQ) - 1
               /\ ReceiversOwed \ {t} \subseteq ReceiversOwed'
        BY <1>1, <2>2, StepReceivers
      <3>3. ReceiversOwed \in SUBSET Threads /\ ReceiversOwed' \in SUBSET Threads
        BY <1>1
      <3>4. PICK n, m, l, k, A, B : /\ n = size /\ m = size' /\ l = Len(recvQ) /\ k = Len(recvQ')
                                     /\ A = ReceiversOwed /\ B = ReceiversOwed'
        OBVIOUS
      <3>5. /\ n \in Int /\ m \in Int /\ l \in Nat /\ k \in Nat
            /\ A \in SUBSET Threads /\ B \in SUBSET Threads
        BY <1>2, <3>3, <3>4
      <3>6. Enough(n, l, A)
        BY <3>1, <3>4 DEF Enough
      <3>7. Changes(n, l, A, m, k, B, t)
        BY <3>2, <3>4 DEF Changes
      <3>8. Enough(m, k, B)
        BY <3>5, <3>6, <3>7, EnoughKept
      <3>9. QED
        BY <3>4, <3>8 DEF Enough
    <2>3. QED
      BY <2>1, <2>2
  <1>5. \/ receiverClosed'
        \/ free' <= Cardinality(SendersOwed')
        \/ Len(sendQ') <= Cardinality(SendersOwed')
    <2>1. CASE free' <= 0 \/ sendQ' = <<>> \/ receiverClosed'
      BY <1>2, <1>3, <2>1
    <2>2. CASE ~(free' <= 0 \/ sendQ' = <<>> \/ receiverClosed')
      <3>1. free <= Cardinality(SendersOwed) \/ Len(sendQ) <= Cardinality(SendersOwed)
        BY <2>2, ClosedStays DEF EnoughWakeups, free
      <3>2. \/ /\ free' <= free /\ Len(sendQ') <= Len(sendQ)
               /\ SendersOwed \subseteq SendersOwed'
            \/ /\ free' = free + 1 /\ Len(sendQ') <= Len(sendQ)
               /\ SendersOwed \subseteq SendersOwed'
               /\ \E y \in SendersOwed' : y \notin SendersOwed
            \/ /\ free' = free - 1 /\ Len(sendQ') = Len(sendQ) - 1
               /\ SendersOwed \ {t} \subseteq SendersOwed'
        BY <1>1, <2>2, StepSenders
      <3>3. SendersOwed \in SUBSET Threads /\ SendersOwed' \in SUBSET Threads
        BY <1>1
      <3>4. PICK n, m, l, k, A, B : /\ n = free /\ m = free' /\ l = Len(sendQ) /\ k = Len(sendQ')
                                     /\ A = SendersOwed /\ B = SendersOwed'
        OBVIOUS
      <3>5. /\ n \in Int /\ m \in Int /\ l \in Nat /\ k \in Nat
            /\ A \in SUBSET Threads /\ B \in SUBSET Threads
        BY <1>2, <3>3, <3>4
      <3>6. Enough(n, l, A)
        BY <3>1, <3>4 DEF Enough
      <3>7. Changes(n, l, A, m, k, B, t)
        BY <3>2, <3>4 DEF Changes
      <3>8. Enough(m, k, B)
        BY <3>5, <3>6, <3>7, EnoughKept
      <3>9. QED
        BY <3>4, <3>8 DEF Enough
    <2>3. QED
      BY <2>1, <2>2
  <1>6. CloserComes
    BY DEF EnoughWakeups, CloserComes
  <1>7. CloserComes'
    BY <1>6, StepCloserComes
  <1>8. QED
    BY <1>4, <1>5, <1>7 DEF EnoughWakeups, CloserComes, free

-----------------------------------------------------------------------------
(* The invariant holds.                                                    *)

LEMMA TypeSplit == TypeOK <=> Types /\ Room
  BY DEF TypeOK, Types, Room, ListTypes, WaiterTypes, S!WQTypeOK, R!WQTypeOK, S!Threads,
         R!Threads, Threads

LEMMA SlotsSplit == SlotsAccounted <=> Types /\ Room /\ reserved = Cardinality(SlotHolders)
  BY TypeSplit DEF SlotsAccounted, SlotHolders

LEMMA InitIInv == Init => IInv
  <1> SUFFICES ASSUME Init PROVE IInv
    OBVIOUS
  <1> USE DEF Init, S!WQInit, R!WQInit, S!Threads, R!Threads, Threads
  <1>1. Types /\ Room
    <2>1. PICK s \in Setups : kind = s[1] /\ senders = s[2]
      OBVIOUS
    <2>2. kind \in {"mpsc", "mpmc"} /\ senders \subseteq Threads
      BY <2>1, ChannelAssumption
    <2>3. left \in [Threads -> Nat]
      BY ChannelAssumption
    <2>4. QED
      BY <2>2, <2>3, ChannelAssumption
         DEF Types, Room, ListTypes, WaiterTypes, Ops, S!WQLocations, S!Suspended
  <1>2. \A t \in Threads : pc[t] = "out" /\ op[t] = "none" /\ ~got[t] /\ cur[t] = None
    OBVIOUS
  <1>3. reserved = Cardinality(SlotHolders)
    <2>1. SlotHolders = {}
      BY <1>2 DEF SlotHolders, Granted
    <2>2. QED
      BY <2>1, FS_EmptySet
  <1>4. EnoughWakeups
    <2>1. IsFiniteSet(ReceiversOwed) /\ IsFiniteSet(SendersOwed)
      BY FS_Subset, ChannelAssumption DEF ReceiversOwed, SendersOwed
    <2>2. Cardinality(ReceiversOwed) \in Nat /\ Cardinality(SendersOwed) \in Nat
      BY <2>1, FS_CardinalityType
    <2>3. QED
      BY <2>2 DEF EnoughWakeups
  <1>5. LockInv
    BY <1>2, ChannelAssumption DEF LockInv
  <1>6. OpInv
    BY <1>2 DEF OpInv, CallInv, OnSenders, InCall, S!Suspended
  <1>7. QueueInv
    BY DEF QueueInv, ToSet, L!Once
  <1>8. WaiterInv
    <2>1. \A t \in Threads : Clean(t)
      BY <1>2, ChannelAssumption DEF Clean, S!Suspended, ToSet
    <2>2. QED
      BY <2>1 DEF WaiterInv
  <1>9. GotInv
    BY <1>2 DEF GotInv, TookInv
  <1>10. CloseInv
    BY <1>2 DEF CloseInv
  <1>11. KindInv
    <2>1. PICK s \in Setups : kind = s[1] /\ senders = s[2]
      OBVIOUS
    <2>2. kind = "mpsc" => Cardinality(receivers) = 1
      BY <2>1, ChannelAssumption DEF receivers
    <2>3. IsFiniteSet(receivers)
      BY FS_Subset, ChannelAssumption DEF receivers
    <2>4. kind = "mpsc" => \E r : receivers = {r}
      BY <2>2, <2>3, FS_Singleton
    <2>5. QED
      BY <2>4 DEF KindInv, receivers
  <1>12. QED
    BY <1>1, <1>3, <1>4, <1>5, <1>6, <1>7, <1>8, <1>9, <1>10, <1>11, SlotsSplit DEF IInv

LEMMA StepIInv ==
    ASSUME IInv, NEW t \in Threads, Step(t) \/ Lock(t) \/ Stop(t)
    PROVE  IInv'
  <1> USE DEF IInv
  <1>1. Types /\ Room /\ reserved = Cardinality(SlotHolders)
    BY SlotsSplit
  <1>2. Types'
    BY <1>1, StepTypes
  <1>3. Room' /\ reserved' = Cardinality(SlotHolders')
    BY <1>1, StepSlots
  <1>4. SlotsAccounted'
    <2>1. (Types /\ Room /\ reserved = Cardinality(SlotHolders))'
      BY <1>2, <1>3
    <2>2. QED
      BY <2>1, SlotsSplit, PTL
  <1>5. EnoughWakeups'
    BY <1>1, <1>3, StepEnoughWakeups
  <1>6. LockInv' /\ OpInv' /\ QueueInv' /\ WaiterInv' /\ GotInv'
    BY <1>1, StepLockInv, StepOpInv, StepQueueInv, StepWaiterInv, StepGotInv
  <1>7. CloseInv' /\ KindInv'
    BY <1>1, StepCloseInv, StepKindInv DEF Room
  <1>8. QED
    BY <1>4, <1>5, <1>6, <1>7

LEMMA SpecIInv == Spec => []IInv
  <1>1. IInv /\ [Next]_vars => IInv'
    <2> SUFFICES ASSUME IInv, [Next]_vars PROVE IInv'
      OBVIOUS
    <2>1. ASSUME NEW t \in Threads, Step(t) \/ Lock(t) \/ Stop(t)
          PROVE  IInv'
      BY <2>1, StepIInv
    <2>2. CASE UNCHANGED vars
      <3> USE <2>2 DEF vars, waiterVars, sendVars, recvVars, chanVars, callVars, IInv
      <3>1. SlotsAccounted'
        BY DEF SlotsAccounted, TypeOK, S!WQTypeOK, R!WQTypeOK, Granted, S!Granted
      <3>2. EnoughWakeups'
        BY DEF EnoughWakeups, ReceiversOwed, SendersOwed, ToSenders, Waking, Granted,
               S!Granted, receivers, receiverClosed, senderClosed
      <3>3. LockInv' /\ OpInv' /\ KindInv'
        BY DEF LockInv, OpInv, CallInv, KindInv, ToSenders, OnSenders, receivers,
               receiverClosed, senderClosed
      <3>4. QueueInv'
        BY DEF QueueInv, OnSenders
      <3>5. WaiterInv' /\ GotInv' /\ CloseInv'
        BY DEF WaiterInv, GotInv, CloseInv, SideOpen, InQueue, Clean, TookInv, Late,
               S!Granted, WakesAll, receivers, receiverClosed, senderClosed
      <3>6. QED
        BY <3>1, <3>2, <3>3, <3>4, <3>5
    <2>3. QED
      BY <2>1, <2>2 DEF Next
  <1>2. QED
    BY <1>1, InitIInv, PTL DEF Spec

-----------------------------------------------------------------------------
\* The state of a channel keeps its types, and the channel never holds or promises more
\* items than its capacity (mpsc.hpp:54, 69).
THEOREM TypeCorrect == Spec => []TypeOK
  <1>1. IInv => TypeOK
    BY DEF IInv, SlotsAccounted
  <1>2. QED
    BY <1>1, SpecIInv, PTL

\* Every reserved slot belongs to a Permit, or to a reserve() that was granted in
\* another thread's wakeup and is still to return one: a stop or a close leaks none
\* (mpsc.hpp:63-75, 130-144, 189-207).
THEOREM SlotsBelong == Spec => []SlotsAccounted
  <1>1. IInv => SlotsAccounted
    BY DEF IInv
  <1>2. QED
    BY <1>1, SpecIInv, PTL

\* As many wakeups are under way on each side as there are waiters that the items, or
\* the room, could serve, and nobody is left to sleep beside a closed channel
\* (mpsc.hpp:77-88, 103-114, 154, 175, 392-399).
THEOREM NoWakeupLost == Spec => []EnoughWakeups
  <1>1. IInv => EnoughWakeups
    BY DEF IInv
  <1>2. QED
    BY <1>1, SpecIInv, PTL

\* When no actor keeps a Permit longer than its Sender, a call that was stopped took
\* nothing, and until wakeupAll() closes the channel a wakeup and a stop never both
\* win (mpsc.hpp:90-101, sync.cpp:110-124).
THEOREM StopTakesNothing == ~PermitOutlivesSender => (Spec => []StopIsFinal)
  <1> SUFFICES ASSUME ~PermitOutlivesSender PROVE Spec => []StopIsFinal
    OBVIOUS
  <1>1. IInv => StopIsFinal
    <2> SUFFICES ASSUME IInv PROVE StopIsFinal
      OBVIOUS
    <2>1. \A t \in Threads : pc[t] \in {"stopSet", "stopped"} => ~got[t]
      BY DEF IInv, GotInv, TookInv, Late
    <2>2. ASSUME ~receiverClosed, kind = "mpmc" => ~senderClosed
          PROVE  S!StoppedNotResumed
      <3>1. kind \in {"mpsc", "mpmc"}
        BY SlotsSplit DEF IInv, Types
      <3>2. \A t \in Threads : Clean(t)
        BY <2>2, <3>1 DEF IInv, WaiterInv, SideOpen
      <3>3. QED
        BY <3>2 DEF Clean, S!StoppedNotResumed, S!Granted, S!Suspended, S!Threads, Threads
    <2>3. QED
      BY <2>1, <2>2 DEF StopIsFinal
  <1>2. QED
    BY <1>1, SpecIInv, PTL

\* When no actor keeps a Permit longer than its Sender, "no sender can send any more
\* data" (mpsc.hpp:501) is so: once the senders' side is closed no item comes in.
THEOREM ClosesForGood == ~PermitOutlivesSender => (Spec => ClosedForGood)
  <1> SUFFICES ASSUME ~PermitOutlivesSender PROVE Spec => ClosedForGood
    OBVIOUS
  <1>1. IInv /\ [Next]_vars => [senderClosed => size' <= size]_vars
    <2> SUFFICES ASSUME IInv, [Next]_vars, senderClosed
                 PROVE  size' <= size \/ UNCHANGED vars
      OBVIOUS
    <2>1. Types /\ size \in Nat
      BY SlotsSplit DEF IInv, Room
    <2>2. ASSUME NEW t \in Threads, Step(t) \/ Lock(t) \/ Stop(t)
          PROVE  size' <= size
      <3>1. UNCHANGED size \/ RecvItem
        BY <2>1, <2>2, ClosedGains DEF IInv
      <3>2. QED
        BY <2>1, <3>1 DEF RecvItem
    <2>3. QED
      BY <2>2 DEF Next
  <1>2. QED
    BY <1>1, SpecIInv, PTL DEF Spec, ClosedForGood
=============================================================================
