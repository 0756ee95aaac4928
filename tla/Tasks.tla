-------------------------------- MODULE Tasks --------------------------------
(***************************************************************************)
(* A coroutine, the caller, that awaits several tasks on one executor, and *)
(* the contexts of those tasks (runtime/coro.hpp, task/task.hpp).  What    *)
(* the caller awaits them with (whenAny, whenAll, a TaskScope, ...) is in  *)
(* the modules that extend this one; each keeps its awaiter in aw.         *)
(*                                                                         *)
(* Everything runs on the executor's thread: a step is what happens from   *)
(* one return to the event loop to the next, except that the caller's own  *)
(* code, while caller = "running", is cut at each task it starts.          *)
(***************************************************************************)
EXTENDS Naturals, Sequences, FiniteSets

CONSTANT N   \* how many tasks there are

Child  == 1..N
Caller == 0    \* the caller's own context
None   == 0    \* no task

VARIABLES
    child,   \* a task's coroutine: "new", "ready", "live", or how it ended
    asked,   \* the contexts a stop was requested of
    caller,  \* "running", "suspended", or how the await ended
    loop,    \* the callbacks posted to the executor
    aw       \* the awaiter the caller suspends in

taskVars == <<child, asked, caller, loop, aw>>

\* The awaiting coroutine runs, and may have been asked to stop before.
TaskInit ==
    /\ child = [c \in Child |-> "new"]
    /\ asked \in {{}, {Caller}}
    /\ caller = "running"
    /\ loop = <<>>

Ended(c) == child[c] \in {"value", "stopped"}

\* The thread is back in the event loop.
Idle == caller # "running"

\* CoroContext::stop on the contexts in S runs the callbacks of those that
\* were not asked before.  The awaiter a live task sits in may answer from
\* its callback, with setStopped, or later, or not at all.
Answering(S) == {c \in S \ asked : child[c] = "live"}

\* A live task ends: with a value, or stopped if it was asked to stop.
Outcomes(c) == {"value"} \cup (IF c \in asked THEN {"stopped"} ELSE {})

\* Executor::schedule of callback f about task c, or about the caller, and
\* the loop's turn to run it.
Posted(f, c) == <<f, c>>
Resumption   == Posted("resume", Caller)
Schedule(x)  == loop' = Append(loop, x)
Runs(x)      == Idle /\ loop # <<>> /\ Head(loop) = x

\* The caller that was scheduled is resumed, and await_resume takes the value it was
\* scheduled for.
Resume ==
    /\ Runs(Resumption)
    /\ loop' = Tail(loop)
    /\ caller' = "done"
    /\ UNCHANGED <<child, asked, aw>>

-----------------------------------------------------------------------------
(* Once a coroutine has entered the stopped state it is never resumed, and *)
(* an await is resumed at most once (coro.hpp:63-75).                      *)
OneOutcome == caller \in {"done", "stopped"} => caller' = caller
=============================================================================
