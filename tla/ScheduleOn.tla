------------------------------ MODULE ScheduleOn ------------------------------
(***************************************************************************)
(* scheduleOn (task/utils.hpp:72-140, task.cpp:316-369): a task runs on    *)
(* the executor of another thread, and the caller goes on when it ended.   *)
(* The caller's thread and the executor's run concurrently; they meet at   *)
(* one atomic state and at the two loops.  The task is child 1.            *)
(***************************************************************************)
EXTENDS Tasks

\* ScheduleAwaiterBase; executor is the other thread's loop, thread is the
\* one that invoked the caller.
Init ==
    /\ TaskInit
    /\ aw = [at |-> "start", state |-> "Running", executor |-> <<>>, thread |-> "none"]

Task == 1

\* The executor's loop, with the callback at its head about to run.
ExecutorRuns(f) == aw.executor # <<>> /\ Head(aw.executor) = f

\* await_suspend, in the caller's thread: the task is posted, ...
AwaitSuspend ==
    /\ caller = "running" /\ aw.at = "start"
    /\ child' = [child EXCEPT ![Task] = "ready"]
    /\ aw' = [aw EXCEPT !.at = "scheduled", !.executor = Append(@, "start")]
    /\ UNCHANGED <<asked, caller, loop>>

\* onStopRequested, in the caller's thread: only a running task is told.
OnStopRequested(w) ==
    aw' = IF w.state = "Running"
          THEN [w EXCEPT !.state = "StopPending", !.executor = Append(@, "stop")]
          ELSE w

\* ... then the stop callback is registered, and runs at once if the stop
\* was requested before.  The caller counts as suspended from here on: what
\* the executor's thread posts to it while await_suspend still returns
\* waits in its own executor until it has.
Register ==
    LET w == [aw EXCEPT !.at = "registered"]
    IN  /\ caller = "running" /\ aw.at = "scheduled"
        /\ caller' = "suspended"
        /\ IF Caller \in asked THEN OnStopRequested(w) ELSE aw' = w
        /\ UNCHANGED <<child, asked, loop>>

Stop ==
    /\ caller = "suspended" /\ Caller \notin asked
    /\ asked' = asked \cup {Caller}
    /\ OnStopRequested(aw)
    /\ UNCHANGED <<child, caller, loop>>

\* Mutant: a stop that is on its way is not waited for.
OnCompletionAtOnce(how, w) ==
    /\ child' = [child EXCEPT ![Task] = how]
    /\ aw' = [w EXCEPT !.state = "Completed", !.executor = Append(@, "invokeLater")]

\* onCompletion, in the executor's thread, at the task's final suspension:
\* the caller is invoked later, unless a pending stop has still to pass.
OnCompletion(how, w) ==
    /\ child' = [child EXCEPT ![Task] = how]
    /\ aw' = [w EXCEPT !.state = "Completed",
                       !.executor = IF w.state = "StopPending" THEN @
                                    ELSE Append(@, "invokeLater")]

Start ==
    LET w == [aw EXCEPT !.executor = Tail(@)]
    IN  /\ ExecutorRuns("start")
        /\ \/ child' = [child EXCEPT ![Task] = "live"] /\ aw' = w
           \/ \E how \in Outcomes(Task) : OnCompletion(how, w)
        /\ UNCHANGED <<asked, caller, loop>>

End ==
    /\ child[Task] = "live"
    /\ \E how \in Outcomes(Task) : OnCompletion(how, aw)
    /\ UNCHANGED <<asked, caller, loop>>

\* onStopInvoke, in the executor's thread: the task is stopped, and may end
\* in it; if it had completed, the caller is invoked from this loop.
OnStopInvoke ==
    LET w == [aw EXCEPT !.executor = Tail(@)]
    IN  /\ ExecutorRuns("stop")
        /\ UNCHANGED <<caller, loop>>
        /\ IF aw.state = "StopPending"
           THEN /\ asked' = asked \cup {Task}
                /\ \/ aw' = [w EXCEPT !.state = "StopHandled"] /\ UNCHANGED child
                   \/ /\ Answering({Task}) # {}
                      /\ OnCompletion("stopped", [w EXCEPT !.state = "StopHandled"])
           ELSE /\ aw' = IF aw.state = "Completed"
                         THEN [w EXCEPT !.executor = Append(@, "invoke")] ELSE w
                /\ UNCHANGED <<child, asked>>

\* The callback invokeLater posts invoke() to the caller's executor.
InvokeLater ==
    /\ ExecutorRuns("invokeLater")
    /\ aw' = [aw EXCEPT !.executor = Tail(@)]
    /\ Schedule(Posted("invoke", Task))
    /\ UNCHANGED <<child, asked, caller>>

\* invoke(), in the thread whose loop has it: the caller stops if the task
\* was stopped, and else goes on; its awaiter is gone.
Invoke(thread) ==
    /\ IF thread = "caller"
       THEN Runs(Posted("invoke", Task)) /\ loop' = Tail(loop)
       ELSE ExecutorRuns("invoke") /\ UNCHANGED loop
    /\ aw' = [aw EXCEPT !.thread = thread,
                        !.executor = IF thread = "caller" THEN @ ELSE Tail(@)]
    /\ caller' = IF child[Task] = "stopped" THEN "stopped" ELSE "done"
    /\ UNCHANGED <<child, asked>>

Next ==
    \/ AwaitSuspend \/ Register \/ Stop \/ Start \/ End \/ OnStopInvoke \/ InvokeLater
    \/ \E thread \in {"caller", "executor"} : Invoke(thread)

\* What goes on by itself: both loops, and a task that was asked to stop.
Progress ==
    \/ AwaitSuspend \/ Register \/ Start \/ OnStopInvoke \/ InvokeLater
    \/ \E thread \in {"caller", "executor"} : Invoke(thread)
    \/ Task \in asked /\ End

-----------------------------------------------------------------------------
(* The awaiter is gone when the caller goes on or stops: by then the task  *)
(* has ended, and neither loop holds a callback of the awaiter's, which    *)
(* would run on freed memory (task.cpp:333-352).  The caller stops only if *)
(* it was asked to.                                                        *)
NoCallbackLeft ==
    caller \in {"done", "stopped"} =>
        /\ Ended(Task)
        /\ aw.executor = <<>> /\ loop = <<>>
        /\ caller = "stopped" => Caller \in asked

(* invoke() runs in the caller's thread (task.cpp:360).                    *)
InvokedInCallerThread == aw.thread # "executor"

(* Who must be answered: a caller that was asked to stop, or whose task    *)
(* has ended.                                                              *)
Waiting == caller = "suspended" /\ (Caller \in asked \/ Ended(Task))
=============================================================================
