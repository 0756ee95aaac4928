------------------------------- MODULE Channel -------------------------------
(***************************************************************************)
(* ilias::mpsc and ilias::mpmc (sync/mpsc.hpp, sync/mpmc.hpp): a bounded   *)
(* queue of items with permits that reserve room in it, and two wait       *)
(* queues, one of senders and one of receivers.                            *)
(*                                                                         *)
(* Each actor has one end, a Sender or a Receiver, makes its calls and     *)
(* drops it, or keeps a weak copy of it to lock later; a coroutine that is *)
(* stopped drops its end with its frame.  Items are counted: nothing       *)
(* depends on which they are.  The channel's mutex is held for one step,   *)
(* inside the wait queue's lock when a predicate takes it.                 *)
(***************************************************************************)
EXTENDS Naturals, Sequences, FiniteSets

CONSTANTS Coros, Plain, None,    \* as in WaitQueue
          Capacity,              \* the channel's capacity
          Setups,                \* <<kind, senders>>: "mpsc" or "mpmc", and who sends
          SendCalls, RecvCalls,  \* calls an actor of each side makes
          PermitOutlivesSender   \* whether an actor may keep its permit longer
                                 \* than its Sender, which the types allow

Threads == Coros \cup Plain

ASSUME ChannelAssumption ==
    /\ IsFiniteSet(Threads)
    /\ Coros \cap Plain = {} /\ None \notin Threads
    /\ Capacity \in Nat \ {0}
    /\ Setups \subseteq {"mpsc", "mpmc"} \X SUBSET Threads
    /\ \A s \in Setups : s[1] = "mpsc" => Cardinality(Threads \ s[2]) = 1
    /\ SendCalls \in Nat /\ RecvCalls \in Nat
    /\ PermitOutlivesSender \in BOOLEAN

VARIABLES
    pc, ready, cur, linked, waiting, blocking, posted, stopReq,  \* as in WaitQueue
    sendQ, sendLock, sendPos,  \* the wait queue "senders"
    recvQ, recvLock, recvPos,  \* the wait queue "receiver(s)"
    kind,      \* "mpsc" or "mpmc"
    senders,   \* the actors on the sending side
    ends,      \* the actors whose Sender or Receiver is alive
    size,      \* queue.size()
    reserved,
    permits,   \* the actors that have a Permit
    op,        \* the operation the actor is in
    got,       \* its awaiter's predicate took what the operation is for
    left       \* calls the actor still makes

waiterVars == <<pc, ready, cur, linked, waiting, blocking, posted, stopReq>>
sendVars == <<sendQ, sendLock, sendPos>>
recvVars == <<recvQ, recvLock, recvPos>>
chanVars == <<size, reserved>>
callVars == <<kind, senders, ends, permits, left>>

vars == <<waiterVars, sendVars, recvVars, chanVars, callVars, op, got>>

S == INSTANCE WaitQueue WITH queue <- sendQ, qlock <- sendLock, pos <- sendPos, Rounds <- SendCalls
R == INSTANCE WaitQueue WITH queue <- recvQ, qlock <- recvLock, pos <- recvPos, Rounds <- RecvCalls

receivers == Threads \ senders

Ops == {"none", "send", "reserve", "recv", "return", "close"}

Init ==
    /\ S!WQInit /\ R!WQInit
    /\ \E s \in Setups : kind = s[1] /\ senders = s[2]
    /\ ends = Threads
    /\ size \in 0..Capacity    \* sent before by one of these Senders
    /\ reserved = 0
    /\ permits = {}
    /\ op = [t \in Threads |-> "none"]
    /\ got = [t \in Threads |-> FALSE]
    /\ left = [t \in Threads |-> IF t \in senders THEN SendCalls ELSE RecvCalls]

senderClosed == ends \cap senders = {}
receiverClosed == ends \cap receivers = {}
\* Mutant: reserved room is not counted.
FullOfItems == size >= Capacity

Full == size + reserved >= Capacity

-----------------------------------------------------------------------------
(* What the operations do to the channel, under its mutex.                 *)

SendItem == ~receiverClosed /\ ~Full /\ size' = size + 1 /\ UNCHANGED reserved

ReserveSlot == ~receiverClosed /\ ~Full /\ reserved' = reserved + 1 /\ UNCHANGED size

RecvItem == size > 0 /\ size' = size - 1 /\ UNCHANGED reserved

\* The operation o succeeds.
Take(o) ==
    \/ o = "send" /\ SendItem
    \/ o = "reserve" /\ ReserveSlot
    \/ o = "recv" /\ RecvItem

\* It fails for good: nobody is left on the other side.
Closed(o) ==
    /\ IF o = "recv" THEN size = 0 /\ senderClosed ELSE receiverClosed
    /\ UNCHANGED chanVars

\* It cannot be decided now: the predicates of the wait queues are false.
MustWait(o) ==
    IF o = "recv" THEN size = 0 /\ ~senderClosed ELSE Full /\ ~receiverClosed

\* Mutant: a receive wakes no sender.
AfterSend(o, took) == IF took /\ o = "send" THEN "wake" ELSE "out"

\* Where an operation goes on that ended with "took": a wakeup of the other side
\* follows an item sent or received.
After(o, took) == IF took /\ o \in {"send", "recv"} THEN "wake" ELSE "out"

\* A successful reserve() returns a Permit.
Permitted(t, took) == permits' = IF took /\ op'[t] = "reserve" THEN permits \cup {t}
                                                             ELSE permits

-----------------------------------------------------------------------------
(* The calls.                                                              *)

\* An actor makes one of its calls.  While it has a permit it makes no other.
Call(t, o) ==
    /\ pc[t] = "out"
    /\ t \in ends \ permits
    /\ left[t] > 0
    /\ left' = [left EXCEPT ![t] = @ - 1]
    /\ o \in IF t \in senders THEN {"send", "reserve"} ELSE {"recv"}
    /\ op' = [op EXCEPT ![t] = o]
    /\ UNCHANGED <<kind, senders, ends>>

\* The operation is tried under the channel's mutex and over, but for its wakeup.
TryNow(t, o) ==
    /\ Call(t, o)
    /\ \/ /\ Take(o)
          /\ pc' = [pc EXCEPT ![t] = After(o, TRUE)]
          /\ Permitted(t, TRUE)
       \/ /\ Closed(o) \/ (MustWait(o) /\ UNCHANGED chanVars)
          /\ UNCHANGED <<pc, permits>>
    /\ UNCHANGED <<ready, cur, linked, waiting, blocking, posted, stopReq,
                   sendVars, recvVars, got>>

TrySend(t) == TryNow(t, "send")

TryReserve(t) == TryNow(t, "reserve")

TryRecv(t) == TryNow(t, "recv")

\* An operation that waits, up to the lock of the wait queue.
Begin(t, o) ==
    /\ Call(t, o)
    /\ S!Construct(t)
    /\ UNCHANGED <<recvVars, chanVars, permits, got>>

Send(t) == t \in Coros /\ Begin(t, "send")

Reserve(t) == t \in Coros /\ Begin(t, "reserve")

Recv(t) == t \in Coros /\ Begin(t, "recv")

\* Its fast path is a TrySend.
BlockingSend(t) == t \in Plain /\ MustWait("send") /\ Begin(t, "send")

\* Its fast path is a TryRecv.
BlockingRecv(t) == t \in Plain /\ MustWait("recv") /\ Begin(t, "recv")

OnSenders(t) == op[t] \in {"send", "reserve"}

\* The predicate under the lock of the wait queue answers at once.
NoWait(t, took) ==
    /\ IF took THEN Take(op[t]) ELSE Closed(op[t])
    /\ IF OnSenders(t)
         THEN S!DontSuspend(t, After(op[t], took)) /\ UNCHANGED recvVars
         ELSE R!DontSuspend(t, After(op[t], took)) /\ UNCHANGED sendVars
    /\ UNCHANGED <<kind, senders, ends, left, op, got>>
    /\ Permitted(t, took)

Wait(t) ==
    /\ MustWait(op[t])
    /\ IF OnSenders(t) THEN S!Park(t) /\ UNCHANGED recvVars
                       ELSE R!Park(t) /\ UNCHANGED sendVars
    /\ UNCHANGED <<chanVars, callVars, op, got>>

\* await_resume(), or the end of a blocking call.
Resumed(t) ==
    /\ LET to == After(op[t], got[t]) IN S!Resumed(t, to) \/ S!Unblocked(t, to)
    /\ got' = [got EXCEPT ![t] = FALSE]
    /\ UNCHANGED <<recvVars, chanVars, kind, senders, ends, left, op>>
    /\ Permitted(t, got[t])

\* A Permit is used up by the operation o, which wakes the other side or a sender.
UsePermit(t, o) ==
    /\ t \in permits
    /\ ends # {}    \* a Permit does not keep the channel alive: the caller must
    /\ S!GoTo(t, "out", "wake")
    /\ permits' = permits \ {t}
    /\ reserved' = reserved - 1
    /\ op' = [op EXCEPT ![t] = o]
    /\ UNCHANGED <<ready, cur, linked, waiting, blocking, posted, stopReq,
                   sendVars, recvVars, kind, senders, ends, left, got>>

PermitSend(t) == UsePermit(t, "send") /\ size' = size + 1

\* close() and the destructor.
PermitClose(t) == UsePermit(t, "return") /\ UNCHANGED size

\* A Sender or Receiver is dropped.  The last of its side closes the channel for
\* the other side, and wakes it if it is there.
Drop(t) ==
    /\ pc[t] \in {"out", "stopped"}
    /\ t \in ends
    /\ t \in permits => PermitOutlivesSender
    /\ ends' = ends \ {t}
    /\ LET closes == IF t \in senders THEN ends' \cap senders = {} /\ ~receiverClosed
                                      ELSE ends' \cap receivers = {} /\ ~senderClosed
       IN  /\ pc' = [pc EXCEPT ![t] = IF closes THEN "wake" ELSE "out"]
           /\ op' = [op EXCEPT ![t] = IF closes THEN "close" ELSE "none"]
    /\ UNCHANGED <<ready, cur, linked, waiting, blocking, posted, stopReq, sendVars,
                   recvVars, chanVars, kind, senders, permits, left, got>>

\* lock() of a WeakSender or WeakReceiver: the end is there again if its side is
\* not closed.  It counts as one of the calls.
Lock(t) ==
    /\ pc[t] = "out" /\ ~stopReq[t]
    /\ t \notin ends \cup permits
    /\ left[t] > 0
    /\ ends \cap (IF t \in senders THEN senders ELSE receivers) # {}
    /\ ends' = ends \cup {t}
    /\ left' = [left EXCEPT ![t] = @ - 1]
    /\ UNCHANGED <<waiterVars, sendVars, recvVars, chanVars, kind, senders, permits,
                   op, got>>

-----------------------------------------------------------------------------
(* Waking the other side.                                                  *)

ToSenders(t) ==
    op[t] \in {"recv", "return"} \/ (op[t] = "close" /\ t \in receivers)

\* Mutant: closing wakes one waiter.
WakesOne(t) == FALSE

WakesAll(t) == op[t] = "close" /\ (t \in receivers \/ kind = "mpmc")

\* Mutant: reserve() does not tell a closed channel from a reserved slot.
OnWakeupGot(w) ==
    /\ Take(op[w]) \/ Closed(op[w])
    /\ got' = [got EXCEPT ![w] = TRUE]

\* onWakeup() of the waiter w.
OnWakeup(w) ==
    \/ Take(op[w]) /\ got' = [got EXCEPT ![w] = TRUE]
    \/ Closed(op[w]) /\ UNCHANGED got

WakeHit(t) ==
    /\ \/ /\ ToSenders(t) /\ S!AtWaiter(t)
          /\ OnWakeup(sendQ[sendPos])
          /\ IF WakesAll(t) THEN S!WakeMore(t) ELSE S!WakeOne(t)
          /\ UNCHANGED recvVars
       \/ /\ ~ToSenders(t) /\ R!AtWaiter(t)
          /\ OnWakeup(recvQ[recvPos])
          /\ IF WakesAll(t) THEN R!WakeMore(t) ELSE R!WakeOne(t)
          /\ UNCHANGED sendVars
    /\ UNCHANGED <<callVars, op>>

WakeMiss(t) ==
    /\ \/ /\ ToSenders(t) /\ S!Skip(t)
          /\ MustWait(op[sendQ[sendPos]])
          /\ UNCHANGED recvVars
       \/ /\ ~ToSenders(t) /\ R!Skip(t)
          /\ MustWait(op[recvQ[recvPos]])
          /\ UNCHANGED sendVars
    /\ UNCHANGED <<chanVars, callVars, op, got>>

\* The wakeup is done: the operation is over.
WakeEnd(t) ==
    /\ \/ ToSenders(t) /\ S!ScanEnd(t, "out") /\ UNCHANGED recvVars
       \/ ~ToSenders(t) /\ R!ScanEnd(t, "out") /\ UNCHANGED sendVars
       \/ S!Pick(t, "out") /\ UNCHANGED recvVars
       \/ S!Resume(t, "out") /\ UNCHANGED recvVars
    /\ op' = [op EXCEPT ![t] = IF pc'[t] = "out" THEN "none" ELSE @]
    /\ UNCHANGED <<chanVars, callVars, got>>

-----------------------------------------------------------------------------
\* The steps that leave the channel alone.
QueueStep(t) ==
    /\ \/ S!RegisterStop(t) /\ UNCHANGED recvVars
       \/ S!StopRead(t) /\ UNCHANGED recvVars
       \/ OnSenders(t) /\ (S!StopLock(t) \/ S!StopUnlink(t)) /\ UNCHANGED recvVars
       \/ ~OnSenders(t) /\ (R!StopLock(t) \/ R!StopUnlink(t)) /\ UNCHANGED sendVars
       \/ S!SetStopped(t) /\ UNCHANGED recvVars
       \/ ToSenders(t) /\ S!WakeLock(t) /\ UNCHANGED recvVars
       \/ ~ToSenders(t) /\ R!WakeLock(t) /\ UNCHANGED sendVars
    /\ UNCHANGED <<chanVars, callVars, op, got>>

Stop(t) ==
    /\ S!StopRequest(t, {"out"})
    /\ t \in ends
    /\ UNCHANGED <<recvVars, chanVars, callVars, op, got>>

Step(t) ==
    \/ TrySend(t) \/ TryReserve(t) \/ TryRecv(t)
    \/ Send(t) \/ Reserve(t) \/ Recv(t)
    \/ BlockingSend(t) \/ BlockingRecv(t)
    \/ PermitSend(t) \/ PermitClose(t)
    \/ \E took \in BOOLEAN : NoWait(t, took)
    \/ Wait(t) \/ Resumed(t) \/ Drop(t)
    \/ WakeHit(t) \/ WakeMiss(t) \/ WakeEnd(t) \/ QueueStep(t)

Finished == \A t \in Threads : pc[t] = "out" /\ t \notin ends \cup permits

Next ==
    \/ \E t \in Threads : Step(t) \/ Lock(t) \/ Stop(t)
    \/ Finished /\ UNCHANGED vars

Spec == Init /\ [][Next]_vars

\* A thread that can run does, and so drops its end when its calls are made.
FairSpec == Spec /\ \A t \in Threads : WF_vars(Step(t))

-----------------------------------------------------------------------------
\* The types of the state; the channel never holds or promises more items than
\* its capacity (mpsc.hpp:54, 69).
TypeOK ==
    /\ S!WQTypeOK /\ R!WQTypeOK
    /\ pc \in [Threads -> S!WQLocations]
    /\ kind \in {"mpsc", "mpmc"}
    /\ senders \subseteq Threads /\ ends \subseteq Threads /\ permits \subseteq Threads
    /\ size \in Nat /\ reserved \in Nat /\ size + reserved <= Capacity
    /\ op \in [Threads -> Ops]
    /\ got \in [Threads -> BOOLEAN]
    /\ left \in [Threads -> Nat]

Granted(t) == S!Granted(t) /\ got[t]

\* The capacity is kept, and every reserved slot belongs to a Permit, or to a reserve() that was granted in
\* another thread's wakeup and is still to return one: none leaks when a reserve()
\* is stopped or the channel closes (mpsc.hpp:63-75, 130-144, 189-207).
SlotsAccounted ==
    /\ TypeOK
    /\ reserved = Cardinality(permits \cup {t \in Threads : Granted(t) /\ op[t] = "reserve"})

\* The wakeups of the senders that are under way or that a receiver owes which was
\* given an item and has not run yet; and so for the receivers.
Waking(t, p) == pc[t] = "wake" \/ (pc[t] = "scan" /\ p = 1)

SendersOwed == {t \in Threads : \/ ToSenders(t) /\ Waking(t, sendPos)
                                \/ op[t] = "recv" /\ Granted(t)}

ReceiversOwed == {t \in Threads : \/ ~ToSenders(t) /\ Waking(t, recvPos)
                                  \/ op[t] = "send" /\ Granted(t)}

\* No lost wakeup on either side: as many wakeups are under way as there are waiters
\* that the items, or the room, could serve, although both are changed under a mutex
\* that is released before the wait queue is locked (mpsc.hpp:154, 175, 392-399).  And
\* nobody sleeps beside a closed channel: whoever closed it is on its way to the
\* waiters of the other side (mpsc.hpp:77-88, 103-114).  (A wakeup for the room that a
\* Permit frees may then go to a sender that learns of the close from it, so the count
\* of the senders' wakeups means nothing any more.)
EnoughWakeups ==
    /\ \/ size <= Cardinality(ReceiversOwed)
       \/ Len(recvQ) <= Cardinality(ReceiversOwed)
    /\ \/ receiverClosed
       \/ Capacity - (size + reserved) <= Cardinality(SendersOwed)
       \/ Len(sendQ) <= Cardinality(SendersOwed)
    /\ receiverClosed /\ sendQ # <<>> =>
          \E t \in receivers : op[t] = "close" /\ Waking(t, sendPos)
    /\ senderClosed /\ recvQ # <<>> =>
          \E t \in senders : op[t] = "close" /\ Waking(t, recvPos)

\* A stop is the whole answer.  A call that was stopped took nothing: no item is lost
\* with a stopped recv(), none is sent by a stopped send() (mpsc.hpp:90-101,
\* sync.cpp:110-124).  And until the channel is closed by wakeupAll(), a wakeup and a
\* stop never both win.
StopIsFinal ==
    /\ \A t \in Threads : pc[t] \in {"stopSet", "stopped"} => ~got[t]
    /\ ~receiverClosed /\ (kind = "mpmc" => ~senderClosed) => S!StoppedNotResumed

\* A stop takes a waiter out of the local list of wakeupAll().
Stolen == \E t, u \in Threads : /\ pc[t] = "stopUnlink"
                                /\ \E i \in DOMAIN ready[u] : ready[u][i] = t

\* Every call comes to its end and both sides close, for as long as no stop gets into
\* the list of a wakeupAll().
AllFinish == []~Stolen => <>[]Finished

\* "Check if the channel is closed. no sender can send any more data" (mpsc.hpp:501):
\* once a receiver may have seen it closed, no item comes in.
ClosedForGood == [][senderClosed => size' <= size]_vars
=============================================================================
