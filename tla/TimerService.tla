---------------------------- MODULE TimerService ----------------------------
(***************************************************************************)
(* ilias::runtime::TimerService (runtime/timer.hpp), and the coroutines    *)
(* that an executor's thread runs: each is a callback that was posted, and *)
(* runs until it suspends again.  An executor EXTENDS this module and adds *)
(* how callbacks come from other threads and how its thread waits.         *)
(*                                                                         *)
(* All of this happens on the executor's own thread, one callback after    *)
(* the other, so a slice of a coroutine between two suspensions is a step. *)
(* The slices are the ones in which the executor takes part.  None says    *)
(* how the clock goes on: now' is left to the executor.                    *)
(***************************************************************************)
EXTENDS Naturals, Sequences

CONSTANTS Coros,    \* the coroutines of the executor
          Loop,     \* the executor's thread
          Delays,   \* the timeouts of sleep()
          MaxTime,  \* where the clock of the model ends
          Slices    \* times a coroutine suspends before it finishes

ASSUME TimerAssumption ==
    /\ Delays \subseteq Nat
    /\ MaxTime \in Nat
    /\ Slices \in Nat
    /\ Loop \notin Coros

VARIABLES
    now,      \* the steady clock
    mTimers,  \* the multimap: its entries, earliest first
    local,    \* the callbacks of the executor's own thread, each with who posted it
    st,       \* where a coroutine is: "parked" until another thread schedules it,
              \* "ready" (posted), "asleep" (in mTimers), "stopped", "done", or
              \* where the executor adds
    stopReq,  \* its stop token is requested
    slices    \* suspensions it still makes

\* Where a coroutine is as far as this module knows.
Places == {"parked", "ready", "asleep", "stopped", "done"}

timerVars == <<now, mTimers, local, st, stopReq, slices>>

TimerInit ==
    /\ now = 0
    /\ mTimers = <<>>
    /\ local = <<>>
    /\ st = [c \in Coros |-> "parked"]
    /\ stopReq = [c \in Coros |-> FALSE]
    /\ slices = [c \in Coros |-> Slices]

Tick ==
    /\ now < MaxTime
    /\ now' = now + 1
    /\ UNCHANGED <<mTimers, local, st, stopReq, slices>>

\* k is the numbers in I, one after the other.
Enumerates(k, I) ==
    /\ \A i, j \in DOMAIN k : i < j => k[i] < k[j]
    /\ \A i \in I : \E j \in DOMAIN k : k[j] = i

\* The elements of s at the places in I, in their order.
Keep(s, I) ==
    LET at == CHOOSE k \in UNION {[1..n -> I] : n \in 0..Len(s)} : Enumerates(k, I)
    IN  [i \in DOMAIN at |-> s[at[i]]]

\* Those of the callbacks in q that p posted.
PostedBy(p, q) == Keep(q, {i \in DOMAIN q : q[i][1] = p})

-----------------------------------------------------------------------------
(* The service.                                                            *)

\* How many timers in front are not later than t.
UpTo(t) ==
    CHOOSE n \in 0..Len(mTimers) :
        /\ \A i \in 1..n : mTimers[i].at <= t
        /\ n < Len(mTimers) => mTimers[n + 1].at > t

\* Mutant: a timer is put last.
InsertLast(e) == Append(mTimers, e)

\* emplace() into the multimap: after the timers of the same time.
Insert(e) ==
    LET n == UpTo(e.at) IN
    (SubSeq(mTimers, 1, n) \o <<e>>) \o SubSeq(mTimers, n + 1, Len(mTimers))

\* cancelTimer(): the awaiter knows where its timer is.
Cancelled(c) ==
    LET i == CHOOSE i \in DOMAIN mTimers : mTimers[i].who = c IN
    SubSeq(mTimers, 1, i - 1) \o SubSeq(mTimers, i + 1, Len(mTimers))

\* updateTimers(): onTimeout() schedules the sleepers whose time has come; the loop ends
\* at the first that is not due.
UpdateTimers ==
    LET n == UpTo(now) IN
    /\ mTimers' = SubSeq(mTimers, n + 1, Len(mTimers))
    /\ local' = local \o [i \in 1..n |-> <<Loop, mTimers[i].who>>]
    /\ st' = [c \in Coros |-> IF \E i \in 1..n : mTimers[i].who = c THEN "ready"
                                                                   ELSE st[c]]
    /\ UNCHANGED <<stopReq, slices>>

-----------------------------------------------------------------------------
(* What a coroutine does when its callback runs.                           *)

\* It is the next one.
Running(c) == local # <<>> /\ Head(local)[2] = c

\* It suspends until another thread schedules it, or is done.
Suspend(c) ==
    /\ Running(c)
    /\ \/ slices[c] > 0 /\ st' = [st EXCEPT ![c] = "parked"]
       \/ st' = [st EXCEPT ![c] = "done"]
    /\ slices' = [slices EXCEPT ![c] = IF st'[c] = "done" THEN 0 ELSE @ - 1]
    /\ local' = Tail(local)
    /\ UNCHANGED <<mTimers, stopReq>>

\* It schedules itself behind the others: post() on the executor's own thread.
Yield(c) ==
    /\ Running(c)
    /\ slices[c] > 0
    /\ slices' = [slices EXCEPT ![c] = @ - 1]
    /\ local' = Append(Tail(local), <<Loop, c>>)
    /\ UNCHANGED <<mTimers, st, stopReq>>

\* sleep(): await_suspend submits the timer and registers for the stop token, which
\* runs onStopRequested() at once when it is requested already.  The timer is then
\* submitted and cancelled within the step, and the timers are those of before; that the
\* context is called for both changes, and sets its timer twice, is left out.
Sleep(c, delay) ==
    /\ Running(c)
    /\ slices[c] > 0
    /\ now + delay <= MaxTime
    /\ slices' = [slices EXCEPT ![c] = @ - 1]
    /\ IF stopReq[c]
         THEN st' = [st EXCEPT ![c] = "stopped"] /\ UNCHANGED mTimers
         ELSE /\ st' = [st EXCEPT ![c] = "asleep"]
              /\ mTimers' = Insert([at |-> now + delay, who |-> c])
    /\ local' = Tail(local)
    /\ UNCHANGED stopReq

\* It requests the stop of another, and yields.
Request(c, d) ==
    /\ Running(c)
    /\ slices[c] > 0
    /\ c # d /\ ~stopReq[d]
    /\ stopReq' = [stopReq EXCEPT ![d] = TRUE]
    /\ slices' = [slices EXCEPT ![c] = @ - 1]
    /\ local' = Append(Tail(local), <<Loop, c>>)

\* Mutant: onStopRequested() leaves the timer.
StopOtherKeepsTimer(c, d) ==
    /\ Request(c, d)
    /\ st[d] \in Places
    /\ st' = [st EXCEPT ![d] = IF @ = "asleep" THEN "stopped" ELSE @]
    /\ UNCHANGED mTimers

\* onStopRequested() of a sleeper cancels the timer, and does nothing when the timer
\* has expired.
StopOther(c, d) ==
    /\ Request(c, d)
    /\ st[d] \in Places
    /\ IF st[d] = "asleep"
         THEN st' = [st EXCEPT ![d] = "stopped"] /\ mTimers' = Cancelled(d)
         ELSE UNCHANGED <<st, mTimers>>

Slice ==
    \E c \in Coros :
        \/ Suspend(c) \/ Yield(c)
        \/ \E delay \in Delays : Sleep(c, delay)
        \/ \E d \in Coros : StopOther(c, d)

-----------------------------------------------------------------------------
TimerTypeOK ==
    /\ now \in 0..MaxTime
    /\ mTimers \in Seq([at : 0..MaxTime, who : Coros])
    /\ stopReq \in [Coros -> BOOLEAN]
    /\ slices \in [Coros -> 0..Slices]

\* The earliest time at which a timer is due, or never.
Never == MaxTime + 1

NextTimepoint == IF mTimers = <<>> THEN Never ELSE Head(mTimers).at
=============================================================================
