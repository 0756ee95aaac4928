-------------------------------- MODULE Await --------------------------------
(***************************************************************************)
(* The caller awaits one thing: a spawned task through its WaitHandle,     *)
(* with co_await or with the blocking wait() (task/spawn.hpp:167-325); a   *)
(* task in the caller's own context, or in an unstoppable one              *)
(* (task/task.hpp:142-190, task/utils.hpp:14-52); or a stop token          *)
(* (task/utils.hpp:232-258, task.cpp:435-454).  The task is child 1.       *)
(***************************************************************************)
EXTENDS Spawn

Task == 1

\* What is awaited; holds is the reference the awaiter has on the context,
\* completed is StopTokenAwaiter::mCompleted, fired the awaited token.
Init ==
    /\ SpawnInit
    /\ \E kind \in {"handle", "wait", "task", "unstoppable", "token"} :
           aw = [kind |-> kind, holds |-> FALSE, completed |-> FALSE, fired |-> FALSE]

OnHandle == aw.kind \in {"handle", "wait"}

\* The caller runs its own code before the await, or others run during it.
Spawn(c) ==
    /\ OnHandle /\ caller = "running"
    /\ SpawnTask(c)
    /\ UNCHANGED <<asked, caller, aw, finished, handler>>

\* A WaitHandle becomes the awaiter's, which does not wait for a task that
\* has completed.  In await_suspend the stop is forwarded to the task, at
\* once if it was requested before; wait() runs the loop inside the call, and
\* forwards nothing.
AwaitHandle ==
    /\ OnHandle /\ Task \in handles
    /\ caller \in {"running", "elsewhere"}
    /\ handles' = handles \ {Task}
    /\ aw' = [aw EXCEPT !.holds = TRUE]
    /\ UNCHANGED <<refs, finished>>
    /\ IF Task \in finished
       THEN caller' = "done" /\ UNCHANGED <<child, asked, loop, handler>>
       ELSE /\ handler' = [handler EXCEPT ![Task] = aw.kind]
            /\ caller' = "suspended"
            /\ StopTasks(IF aw.kind = "handle" /\ Caller \in asked THEN {Task} ELSE {})

\* The caller does something else first, and the loop runs.
Leave ==
    /\ OnHandle /\ caller = "running"
    /\ caller' = "elsewhere"
    /\ UNCHANGED <<child, asked, loop, aw, spawnVars>>

\* WaitHandle::stopHandle, taken before the await.
CopyHandle ==
    /\ OnHandle /\ caller = "suspended" /\ Task \notin handles /\ refs[Task] > 0
    /\ handles' = handles \cup {Task}
    /\ refs' = [refs EXCEPT ![Task] = @ + 1]
    /\ UNCHANGED <<child, asked, caller, loop, aw, finished, handler>>

\* onComplete, and onCompletion of who waits; wait() returns from its loop.
\* The awaiter of a caller that goes on lets go when it does.
Complete ==
    LET stopped == child[Task] = "stopped" /\ Caller \in asked
    IN  /\ Runs(Posted("complete", Task))
        /\ UNCHANGED <<child, asked, handles, aw>>
        /\ CASE handler[Task] = "handle" ->
                  /\ caller' = IF stopped THEN "stopped" ELSE caller
                  /\ GiveUpSelf(Task, refs, IF stopped THEN Tail(loop)
                                            ELSE Append(Tail(loop), Resumption))
             [] handler[Task] = "wait" ->
                  /\ caller' = "done"
                  /\ GiveUpSelf(Task, refs, Tail(loop))
             [] OTHER ->
                  /\ GiveUpSelf(Task, refs, Tail(loop))
                  /\ UNCHANGED caller

ResumeCaller == Resume /\ UNCHANGED spawnVars

\* The awaiter goes with the caller's frame, or wait()'s local.
LetGo ==
    /\ caller \in {"done", "stopped"} /\ aw.holds
    /\ aw' = [aw EXCEPT !.holds = FALSE]
    /\ refs' = [refs EXCEPT ![Task] = @ - 1]
    /\ UNCHANGED <<child, asked, caller, loop, handles, finished, handler>>

\* TaskAwaiter: the task runs in its context to its first suspension.
AwaitTask ==
    /\ aw.kind \in {"task", "unstoppable"} /\ caller = "running"
    /\ \E how \in {"live", "value"} \cup
                  (IF aw.kind = "task" /\ Caller \in asked THEN {"stopped"} ELSE {}) :
           /\ child' = [child EXCEPT ![Task] = how]
           /\ caller' = CASE how = "live"    -> "suspended"
                          [] how = "value"   -> "done"
                          [] how = "stopped" -> "stopped"
    /\ UNCHANGED <<asked, loop, aw, spawnVars>>

\* It ends in the event loop and switches into the caller; it may end
\* stopped, in the caller's context, which is then stopped as a whole.
TaskEnds ==
    /\ aw.kind \in {"task", "unstoppable"} /\ caller = "suspended"
    /\ \/ /\ child' = [child EXCEPT ![Task] = "value"]
          /\ caller' = "done"
       \/ /\ aw.kind = "task" /\ Caller \in asked
          /\ child' = [child EXCEPT ![Task] = "stopped"]
          /\ caller' = "stopped"
    /\ UNCHANGED <<asked, loop, aw, spawnVars>>

\* StopTokenAwaiter: a callback with each of the two tokens; the one that
\* completes the awaiter first decides.
AwaitToken ==
    /\ aw.kind = "token" /\ caller = "running"
    /\ IF aw.fired THEN caller' = "done" /\ UNCHANGED aw
       ELSE /\ aw' = [aw EXCEPT !.completed = Caller \in asked]
            /\ caller' = IF Caller \in asked THEN "stopped" ELSE "suspended"
    /\ UNCHANGED <<child, asked, loop, spawnVars>>

TokenStops ==
    /\ aw.kind = "token" /\ ~aw.fired
    /\ aw' = [aw EXCEPT !.fired = TRUE, !.completed = @ \/ caller = "suspended"]
    /\ IF caller = "suspended" /\ ~aw.completed THEN Schedule(Resumption)
       ELSE UNCHANGED loop
    /\ UNCHANGED <<child, asked, caller, spawnVars>>

\* The stop of the caller, as each of them takes it.
Stop ==
    /\ caller = "suspended" /\ Caller \notin asked
    /\ CASE aw.kind = "handle" ->
              /\ asked' = asked \cup {Caller, Task}
              /\ \E T \in SUBSET Answering({Task}) : EndsPosted(T, "stopped")
              /\ UNCHANGED <<caller, aw>>
         [] aw.kind = "token" ->
              /\ asked' = asked \cup {Caller}
              /\ aw' = [aw EXCEPT !.completed = TRUE]
              /\ caller' = IF aw.completed THEN caller ELSE "stopped"
              /\ UNCHANGED <<child, loop>>
         [] OTHER ->
              /\ asked' = asked \cup {Caller}
              /\ UNCHANGED <<child, caller, loop, aw>>
    /\ UNCHANGED spawnVars

\* What goes on by itself.
Progress ==
    \/ ResumeCaller \/ Complete \/ LetGo \/ Start(Task) \/ Deref(Task)
    \/ Task \in asked /\ OnHandle /\ End(Task)
    \/ Caller \in asked /\ TaskEnds

Next ==
    \/ Spawn(Task) \/ Leave \/ AwaitHandle \/ CopyHandle \/ Complete \/ ResumeCaller \/ LetGo
    \/ AwaitTask \/ TaskEnds \/ AwaitToken \/ TokenStops \/ Stop
    \/ Start(Task) \/ (OnHandle /\ End(Task)) \/ Deref(Task)
    \/ DropHandle(Task) \/ StopHandle(Task)

-----------------------------------------------------------------------------
(* Who awaited a spawned task goes on or stops when its onComplete ran     *)
(* (spawn.hpp:178), and leaves no callback about the task in the loop, so  *)
(* that wait() may be the last use of the executor (task.cpp:56).  The     *)
(* caller stops only if it was asked to, and a task in an unstoppable      *)
(* context has a value whatever is asked.  A context is deleted when       *)
(* nothing refers to it.                                                   *)
NothingLeft ==
    /\ caller \in {"done", "stopped"} /\ OnHandle =>
           /\ Task \in finished
           /\ aw.kind = "wait" /\ aw.holds => loop = <<>>
    /\ caller = "stopped" => Caller \in asked
    /\ aw.kind = "unstoppable" => caller # "stopped" /\ child[Task] # "stopped"
    /\ OnHandle => refs[Task] =
           Count(SelfRef(Task)) + Count(Task \in handles) + Count(aw.holds)

(* Who must be answered: a caller that was asked to stop, unless it sits   *)
(* in wait(), and one whose task has ended or whose token has stopped.     *)
Waiting ==
    /\ caller = "suspended"
    /\ \/ Caller \in asked /\ aw.kind \in {"handle", "task", "token"}
       \/ OnHandle /\ Ended(Task)
       \/ aw.fired
=============================================================================
