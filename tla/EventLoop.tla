------------------------------ MODULE EventLoop ------------------------------
(***************************************************************************)
(* ilias::EventLoop (runtime.cpp:50-114): an executor with a queue of its  *)
(* own thread and one that other threads share, a condition variable, and  *)
(* a TimerService.  Other threads schedule parked coroutines and request   *)
(* the stop of run(), which may be entered again.                          *)
(***************************************************************************)
EXTENDS TimerService

CONSTANTS Others,  \* the other threads
          Calls    \* calls each of them makes

ASSUME EventLoopAssumption == Loop \notin Others /\ Calls \in Nat

VARIABLES
    shared,   \* sharedQueue
    loopPc,   \* where run() stands
    until,    \* the time to which the thread waits
    runStop,  \* the stop token of run() is requested
    pc,       \* where each other thread stands
    calls     \* calls it still makes

vars == <<timerVars, shared, loopPc, until, runStop, pc, calls>>

Init ==
    /\ TimerInit
    /\ shared = <<>>
    /\ loopPc = "local"
    /\ until = Never
    /\ runStop = FALSE
    /\ pc = [p \in Others |-> "idle"]
    /\ calls = [p \in Others |-> Calls]

\* Nobody holds the mutex.  Other threads hold it within one step only.
MutexFree == loopPc \notin {"pred", "doze", "collect"}

LoopGoTo(from, to) == loopPc = from /\ loopPc' = to

-----------------------------------------------------------------------------
(* The thread in run().                                                    *)

\* The first callback of the local queue.
RunLocal ==
    /\ loopPc = "local"
    /\ Slice
    /\ UNCHANGED <<now, shared, loopPc, until, runStop, pc, calls>>

\* A coroutine that is done may be what run() was waiting for: the token is
\* requested on this thread.
RunLast(c) ==
    /\ loopPc = "local"
    /\ Suspend(c) /\ st'[c] = "done"
    /\ ~runStop
    /\ runStop' = TRUE
    /\ UNCHANGED <<now, shared, loopPc, until, pc, calls>>

\* Mutant: the wait does not look at the timers.
BeginWaitForever ==
    /\ local = <<>>
    /\ LoopGoTo("local", "pred")
    /\ until' = Never
    /\ UNCHANGED <<timerVars, shared, runStop, pc, calls>>

\* The local queue is empty: lock the mutex, read the next timepoint.
BeginWait ==
    /\ local = <<>>
    /\ LoopGoTo("local", "pred")
    /\ until' = NextTimepoint
    /\ UNCHANGED <<timerVars, shared, runStop, pc, calls>>

\* pred(), under the mutex.  The stop token is not under the mutex.
Predicate ==
    /\ LoopGoTo("pred", IF shared # <<>> \/ runStop THEN "collect" ELSE "doze")
    /\ UNCHANGED <<timerVars, shared, until, runStop, pc, calls>>

\* The condition variable unlocks the mutex and sleeps, in one step.
Doze ==
    /\ LoopGoTo("doze", "wait")
    /\ UNCHANGED <<timerVars, shared, until, runStop, pc, calls>>

\* Notified: lock the mutex again and evaluate pred().
Notified ==
    /\ LoopGoTo("notified", "pred")
    /\ UNCHANGED <<timerVars, shared, until, runStop, pc, calls>>

\* wait_until() times out.
TimedOut ==
    /\ until # Never /\ now >= until
    /\ LoopGoTo("wait", "collect")
    /\ UNCHANGED <<timerVars, shared, until, runStop, pc, calls>>

\* Mutant: run() returns as soon as the stop is requested.
CollectOrQuit ==
    /\ IF runStop
         THEN LoopGoTo("collect", "returned") /\ local' = <<>> /\ shared' = <<>>
         ELSE LoopGoTo("collect", "timers") /\ local' = shared /\ shared' = <<>>
    /\ UNCHANGED <<now, mTimers, st, stopReq, slices, until, runStop, pc, calls>>

\* The queues are swapped, and the mutex unlocked; run() returns when the stop is
\* requested and nothing is left to run.
Collect ==
    /\ local' = shared
    /\ shared' = <<>>
    /\ LoopGoTo("collect", IF shared = <<>> /\ runStop THEN "returned" ELSE "timers")
    /\ UNCHANGED <<now, mTimers, st, stopReq, slices, until, runStop, pc, calls>>

ExpireTimers ==
    /\ LoopGoTo("timers", "local")
    /\ UpdateTimers
    /\ UNCHANGED <<now, shared, until, runStop, pc, calls>>

\* run() is called again, with a new token.
Enter ==
    /\ LoopGoTo("returned", "local")
    /\ runStop' = FALSE
    /\ \A p \in Others : pc[p] # "stop"  \* ~StopCallback waits for its callback
    /\ UNCHANGED <<timerVars, shared, until, pc, calls>>

\* The condition variable may wake without a reason.
Spurious ==
    /\ LoopGoTo("wait", "pred")
    /\ UNCHANGED <<timerVars, shared, until, runStop, pc, calls>>

LoopStep ==
    \/ RunLocal \/ (\E c \in Coros : RunLast(c)) \/ BeginWait \/ Predicate \/ Doze
    \/ Notified \/ TimedOut \/ Collect \/ ExpireTimers \/ Enter

-----------------------------------------------------------------------------
(* The other threads.                                                      *)

Call(p) ==
    /\ pc[p] = "idle"
    /\ calls[p] > 0
    /\ calls' = [calls EXCEPT ![p] = @ - 1]

\* post(), by schedule() of a coroutine that waits for this thread.
Post(p, c) ==
    /\ Call(p)
    /\ MutexFree
    /\ st[c] = "parked"
    /\ st' = [st EXCEPT ![c] = "ready"]
    /\ shared' = Append(shared, <<p, c>>)
    /\ pc' = [pc EXCEPT ![p] = "post"]
    /\ UNCHANGED <<now, mTimers, local, stopReq, slices, loopPc, until, runStop>>

\* request_stop() of the token of run(): the flag, then the callback.
StopRun(p) ==
    /\ Call(p)
    /\ loopPc # "returned"
    /\ ~runStop
    /\ runStop' = TRUE
    /\ pc' = [pc EXCEPT ![p] = "stop"]
    /\ UNCHANGED <<timerVars, shared, loopPc, until>>

\* notify_one(), of either.
Notify(p) ==
    /\ pc[p] \in {"post", "stop"}
    /\ pc' = [pc EXCEPT ![p] = "idle"]
    /\ loopPc' = IF loopPc = "wait" THEN "notified" ELSE loopPc
    /\ UNCHANGED <<timerVars, shared, until, runStop, calls>>

OtherStep(p) == (\E c \in Coros : Post(p, c)) \/ StopRun(p) \/ Notify(p)

Time == Tick /\ UNCHANGED <<shared, loopPc, until, runStop, pc, calls>>

\* Nothing is left to do and the loop waits.
Finished ==
    /\ loopPc = "wait"
    /\ shared = <<>> /\ mTimers = <<>>
    /\ \A p \in Others : pc[p] = "idle"

Next ==
    \/ LoopStep \/ Spurious \/ Time
    \/ \E p \in Others : OtherStep(p)
    \/ Finished /\ UNCHANGED vars

Spec == Init /\ [][Next]_vars

\* The loop's thread runs and run() is entered again, a thread that has changed
\* something goes on to notify, time passes, and wake-ups without a reason do not
\* hide for ever that it has passed.  Nobody has to post or to stop.
FairSpec ==
    /\ Spec
    /\ WF_vars(LoopStep)
    /\ SF_vars(TimedOut)
    /\ \A p \in Others : WF_vars(Notify(p))
    /\ WF_vars(Time)

-----------------------------------------------------------------------------
TypeOK ==
    /\ TimerTypeOK
    /\ st \in [Coros -> Places]
    /\ local \in Seq((Others \cup {Loop}) \X Coros)
    /\ shared \in Seq(Others \X Coros)
    /\ loopPc \in {"local", "pred", "doze", "wait", "notified", "collect", "timers",
                   "returned"}
    /\ until \in 0..Never
    /\ runStop \in BOOLEAN
    /\ pc \in [Others -> {"idle", "post", "stop"}]
    /\ calls \in [Others -> 0..Calls]

Posted == local \o shared

\* A coroutine is in one place: posted once while it is ready, with one timer while
\* it sleeps, and nowhere else; so it is resumed once, and never after a stop.
\* Expiry and stop decide it between them (timer.hpp:207-221).
OnePlace ==
    /\ TypeOK
    /\ \A c \in Coros :
        /\ st[c] = "ready" <=> \E i \in DOMAIN Posted : Posted[i][2] = c
        /\ st[c] = "asleep" <=> \E i \in DOMAIN mTimers : mTimers[i].who = c
        /\ \A i, j \in DOMAIN Posted : Posted[i][2] = c /\ Posted[j][2] = c => i = j
        /\ \A i, j \in DOMAIN mTimers : mTimers[i].who = c /\ mTimers[j].who = c => i = j

\* The thread never waits longer than to the first timer (runtime.cpp:92-97).
WakesInTime ==
    loopPc \in {"doze", "wait"} => \A i \in DOMAIN mTimers : until <= mTimers[i].at

\* A posted callback runs and a sleep ends, also when run() returned in between and
\* was entered again.
NobodyForgotten ==
    \A c \in Coros :
        st[c] \in {"ready", "asleep"} ~> st[c] \in {"parked", "stopped", "done"}

Abstract == INSTANCE Executor WITH
    Posters <- Others \cup {Loop},
    pending <- [p \in Others \cup {Loop} |-> PostedBy(p, Posted)]

\* The two queues implement the executor of module Executor.
ImplementsExecutor == Abstract!Spec

\* "it will infinitely loop until the token is canceled" (executor.hpp:42): a stop
\* request ends run().
StopEndsRun == runStop ~> loopPc = "returned"
=============================================================================
