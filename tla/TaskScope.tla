------------------------------ MODULE TaskScope ------------------------------
(***************************************************************************)
(* TaskScope (task/scope.hpp, task.cpp:213-313) and finally                *)
(* (task/utils.hpp:141-230, task.cpp:372-433), which enter() composes:     *)
(* run main, then run the scope's cleanup whatever main did, then go on.   *)
(* Tasks are inserted by the caller, by main, by tasks of the scope and by *)
(* others that were given a reference to it.                               *)
(***************************************************************************)
EXTENDS Spawn

Main == 1   \* the task that enter() runs; not a spawned one

\* A TaskScope, the cleanup that waits in it, and FinallyAwaiterBase.  late are the tasks
\* that were inserted when the last one had ended and scheduled who waits for them.
Init ==
    /\ SpawnInit
    /\ \E mode \in {"enter", "waitAll", "shutdown"} :
           aw = [mode |-> mode, at |-> "build", running |-> {},
                 stopRequested |-> FALSE, waiter |-> FALSE, mainStopped |-> FALSE,
                 late |-> {}]

Entered == aw.mode = "enter"
Spawnable == Child \ {Main}

\* Somebody who may use the scope runs: the caller, or anybody while it waits.
InScope ==
    \/ caller = "running" /\ ~Entered
    \/ caller = "suspended"

Spawn(c) ==
    /\ InScope /\ c \in Spawnable
    /\ SpawnTask(c)
    /\ UNCHANGED <<asked, caller, aw, finished, handler>>

\* The waiter was scheduled, and does not look again.
Told == aw.at \in {"wait", "cleanup"} /\ ~aw.waiter

Inserted(c) == [aw EXCEPT !.running = @ \cup {c}, !.late = @ \cup (IF Told THEN {c} ELSE {})]

\* Mutant: the new task is not told of the stop.
InsertUnstopped(c) ==
    /\ InScope /\ c \in handles /\ c \notin aw.running /\ c \notin finished
    /\ aw' = Inserted(c)
    /\ refs' = [refs EXCEPT ![c] = @ + 1]
    /\ handler' = [handler EXCEPT ![c] = "scope"]
    /\ UNCHANGED <<child, asked, caller, loop, handles, finished>>

\* insertImpl: a task that has completed is not kept; a scope that was
\* stopped stops the task.
Insert(c) ==
    /\ InScope /\ c \in handles /\ c \notin aw.running /\ c \notin finished
    /\ aw' = Inserted(c)
    /\ refs' = [refs EXCEPT ![c] = @ + 1]
    /\ handler' = [handler EXCEPT ![c] = "scope"]
    /\ StopTasks(IF aw.stopRequested THEN {c} ELSE {})
    /\ UNCHANGED <<caller, handles, finished>>

\* TaskScope::stop: the running tasks, once.  more are the other contexts
\* that the same request reaches.
StopScope(w, more) ==
    /\ aw' = [w EXCEPT !.stopRequested = TRUE]
    /\ asked' = asked \cup more \cup (IF w.stopRequested THEN {} ELSE w.running)
    /\ IF w.stopRequested THEN UNCHANGED <<child, loop>>
       ELSE \E T \in SUBSET Answering(w.running) :
                EndsPosted(T, "stopped")

ScopeStop ==
    /\ InScope /\ ~aw.stopRequested
    /\ StopScope(aw, {})
    /\ UNCHANGED <<caller, spawnVars>>

\* waitAll(), and shutdown(), which stops the scope first: cleanup in the
\* caller's own context.  Its StopCallback runs at once if the stop was
\* requested before.
Wait ==
    LET w == [aw EXCEPT !.at = "wait", !.waiter = aw.running # {}]
    IN  /\ caller = "running" /\ ~Entered
        /\ caller' = IF aw.running = {} THEN "done" ELSE "suspended"
        /\ IF aw.mode = "shutdown" \/ Caller \in asked THEN StopScope(w, {})
           ELSE aw' = w /\ UNCHANGED <<child, asked, loop>>
        /\ UNCHANGED spawnVars

\* FinallyAwaiterBase::await_suspend: the caller's stop is forwarded to
\* main, and main runs to its first suspension or to its end.
Enter ==
    /\ caller = "running" /\ Entered
    /\ caller' = "suspended"
    /\ aw' = [aw EXCEPT !.at = "main"]
    /\ asked' = IF Caller \in asked THEN asked \cup {Main} ELSE asked
    /\ \/ child' = [child EXCEPT ![Main] = "live"] /\ UNCHANGED loop
       \/ \E how \in {"value"} \cup (IF Caller \in asked THEN {"stopped"} ELSE {}) :
              /\ child' = [child EXCEPT ![Main] = how]
              /\ Schedule(Posted("finally", Main))
    /\ UNCHANGED spawnVars

\* Main ends in the event loop, and onTaskCompletion posts the rest.
EndMain ==
    /\ Idle /\ Entered /\ child[Main] = "live"
    /\ \E how \in Outcomes(Main) : child' = [child EXCEPT ![Main] = how]
    /\ Schedule(Posted("finally", Main))
    /\ UNCHANGED <<asked, caller, aw, spawnVars>>

\* onFinallyCompletion: the caller stops if main did, and else goes on.
FinallyDone(stopped) == caller' = IF stopped THEN "stopped" ELSE "done"

\* onTaskCompletion's callback: the cleanup starts, in a context that cannot
\* be stopped, with the caller's token.
Finally ==
    LET stopped == child[Main] = "stopped"
        w == [aw EXCEPT !.at = "cleanup", !.mainStopped = stopped,
                        !.waiter = aw.running # {}]
    IN  /\ Runs(Posted("finally", Main))
        /\ IF Caller \notin asked \/ aw.stopRequested
           THEN aw' = w /\ loop' = Tail(loop) /\ UNCHANGED <<child, asked>>
           ELSE /\ aw' = [w EXCEPT !.stopRequested = TRUE]
                /\ asked' = asked \cup aw.running
                /\ \E T \in SUBSET Answering(aw.running) :
                       /\ child' = [c \in Child |-> IF c \in T THEN "stopped" ELSE child[c]]
                       /\ \E q \in Orders(T) : loop' = Tail(loop) \o q
        /\ IF aw.running = {} THEN FinallyDone(stopped) ELSE UNCHANGED caller
        /\ UNCHANGED spawnVars

\* onComplete(c), and onTaskCompleted if the scope has the task: the last one
\* wakes the waiter, which stops if its own context was asked to.
Complete(c) ==
    LET r    == [refs EXCEPT ![c] = @ - 1]
        w    == [aw EXCEPT !.running = @ \ {c}]
        last == w.running = {} /\ aw.waiter
    IN  /\ Runs(Posted("complete", c))
        /\ UNCHANGED <<child, asked, handles>>
        /\ IF c \notin aw.running
           THEN GiveUpSelf(c, refs, Tail(loop)) /\ UNCHANGED <<aw, caller>>
           ELSE /\ aw' = [w EXCEPT !.waiter = @ /\ ~last]
                /\ IF last /\ ~Entered /\ Caller \in asked
                   THEN caller' = "stopped" /\ GiveUpSelf(c, r, Tail(loop))
                   ELSE /\ UNCHANGED caller
                        /\ GiveUpSelf(c, r,
                               IF ~last THEN Tail(loop)
                               ELSE Append(Tail(loop), IF Entered THEN Posted("cleanup", Main)
                                                       ELSE Resumption))

\* The cleanup goes on in its own context and ends.
Cleanup ==
    /\ Runs(Posted("cleanup", Main))
    /\ loop' = Tail(loop)
    /\ FinallyDone(aw.mainStopped)
    /\ UNCHANGED <<child, asked, aw, spawnVars>>

\* The stop of the caller goes to main while main runs, and to the scope
\* through the cleanup's StopCallback.
Stop ==
    /\ caller = "suspended" /\ Caller \notin asked
    /\ IF aw.at # "main" THEN StopScope(aw, {Caller})
       ELSE /\ asked' = asked \cup {Caller, Main}
            /\ UNCHANGED aw
            /\ \/ UNCHANGED <<child, loop>>
               \/ /\ child[Main] = "live"
                  /\ child' = [child EXCEPT ![Main] = "stopped"]
                  /\ Schedule(Posted("finally", Main))
    /\ UNCHANGED <<caller, spawnVars>>

ResumeWaiter == Resume /\ UNCHANGED spawnVars

Next ==
    \/ Wait \/ ScopeStop \/ Enter \/ EndMain \/ Finally \/ Cleanup \/ Stop \/ ResumeWaiter
    \/ \E c \in Spawnable :
           \/ Spawn(c) \/ Insert(c) \/ DropHandle(c)
           \/ Start(c) \/ End(c) \/ Complete(c) \/ Deref(c)

\* What goes on by itself: the loop and the tasks asked to stop.
Progress ==
    \/ Finally \/ Cleanup \/ ResumeWaiter
    \/ Main \in asked /\ EndMain
    \/ \E c \in Spawnable :
           \/ Start(c) \/ Complete(c) \/ Deref(c)
           \/ c \in asked /\ End(c)

-----------------------------------------------------------------------------
(* "Wait all tasks in the scope to finish" (scope.hpp:48): when waitAll(), *)
(* shutdown() or the cleanup of enter() returns, no task is left of those  *)
(* that were inserted before the waiter was scheduled.  (One that comes    *)
(* between that and its resumption, from a coroutine that is no task of    *)
(* the scope, is not waited for, and ~TaskScope aborts, task.cpp:216-222.) *)
(* The cleanup of enter() is run whatever main did, and enter() stops only *)
(* if main stopped.                                                        *)
ScopeClosed ==
    caller \in {"done", "stopped"} =>
        /\ aw.running \subseteq aw.late
        /\ Entered => Ended(Main) /\ (caller = "stopped" <=> child[Main] = "stopped")

(* A stop that reaches the caller during the cleanup reaches every task    *)
(* that the cleanup waits for, those inserted later included.              *)
StopForwarded ==
    aw.at \in {"wait", "cleanup"} /\ Caller \in asked => aw.running \subseteq asked

(* Who must be answered: a caller that was asked to stop, and one whose    *)
(* scope has become empty.                                                 *)
Waiting ==
    caller = "suspended" /\ (Caller \in asked \/ (aw.at # "main" /\ aw.running = {}))
=============================================================================
