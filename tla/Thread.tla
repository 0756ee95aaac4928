-------------------------------- MODULE Thread --------------------------------
(***************************************************************************)
(* Thread<T> (task/thread.hpp, task.cpp:456-504): a task on a thread with  *)
(* an executor of its own, awaited from the caller's thread, or only       *)
(* destroyed.  The two threads meet at a mutex, a stop source and the two  *)
(* executors.  The task is child 1.                                        *)
(***************************************************************************)
EXTENDS Tasks

Task == 1

\* ThreadBase, once start() has made the thread.  at is where the caller is,
\* thread where the thread is, executor what its loop has to run.
Init ==
    /\ TaskInit
    /\ aw = [at |-> "has", thread |-> "starting", executor |-> <<>>,
             stopRequested |-> FALSE, forwards |-> FALSE,
             completed |-> FALSE, handle |-> FALSE, taken |-> FALSE]

\* mSource.request_stop(): the thread's StopCallback, while it is there,
\* posts the stop to the thread's own executor.
RequestStop(w) ==
    [w EXCEPT !.stopRequested = TRUE,
              !.executor = IF w.forwards /\ ~w.stopRequested THEN Append(@, "stop") ELSE @]

\* The thread makes its executor and spawns the task, ...
ThreadSpawns ==
    /\ aw.thread = "starting"
    /\ child' = [child EXCEPT ![Task] = "ready"]
    /\ aw' = [aw EXCEPT !.thread = "spawned", !.executor = Append(@, "start")]
    /\ UNCHANGED <<asked, caller, loop>>

\* Mutant: an early stop is not noticed.
ThreadForwardsLater ==
    /\ aw.thread = "spawned"
    /\ aw' = [aw EXCEPT !.thread = "waits", !.forwards = TRUE]
    /\ UNCHANGED <<child, asked, caller, loop>>

\* ... registers the StopCallback, which runs at once after an early stop, ...
ThreadForwards ==
    /\ aw.thread = "spawned"
    /\ aw' = [aw EXCEPT !.thread = "waits", !.forwards = TRUE,
                        !.executor = IF aw.stopRequested THEN Append(@, "stop") ELSE @]
    /\ UNCHANGED <<child, asked, caller, loop>>

\* ... and waits for the task in the executor's loop.
ThreadRuns ==
    /\ aw.thread = "waits" /\ aw.executor # <<>> /\ ~Ended(Task)
    /\ aw' = [aw EXCEPT !.executor = Tail(@)]
    /\ IF Head(aw.executor) = "start"
       THEN /\ \E how \in {"live"} \cup Outcomes(Task) : child' = [child EXCEPT ![Task] = how]
            /\ UNCHANGED asked
       ELSE /\ asked' = asked \cup {Task}
            /\ \E how \in {child[Task]} \cup (IF Answering({Task}) = {} THEN {} ELSE {"stopped"}) :
                   child' = [child EXCEPT ![Task] = how]
    /\ UNCHANGED <<caller, loop>>

TaskEnds ==
    /\ aw.thread = "waits" /\ child[Task] = "live"
    /\ \E how \in Outcomes(Task) : child' = [child EXCEPT ![Task] = how]
    /\ UNCHANGED <<asked, caller, loop, aw>>

\* The wait is over: the StopCallback goes, and whatever the loop still has.
ThreadLeaves ==
    /\ aw.thread = "waits" /\ Ended(Task)
    /\ aw' = [aw EXCEPT !.thread = "leaves", !.forwards = FALSE, !.executor = <<>>]
    /\ UNCHANGED <<child, asked, caller, loop>>

\* Under the mutex the thread marks the end and takes the handle ...
ThreadCompletes ==
    /\ aw.thread = "leaves"
    /\ aw' = [aw EXCEPT !.thread = "wakes", !.completed = TRUE, !.taken = aw.handle]
    /\ UNCHANGED <<child, asked, caller, loop>>

\* ... and posts to the caller's executor, if there is a caller; it exits.
ThreadExits ==
    /\ aw.thread = "wakes"
    /\ aw' = [aw EXCEPT !.thread = "exited"]
    /\ IF aw.taken THEN Schedule(Posted("back", Task)) ELSE UNCHANGED loop
    /\ UNCHANGED <<child, asked, caller>>

\* tryAwait, under the mutex: the caller does not suspend if it is over.
TryAwait ==
    /\ caller = "running" /\ aw.at = "has"
    /\ IF aw.completed
       THEN caller' = "done" /\ UNCHANGED aw
       ELSE aw' = [aw EXCEPT !.at = "awaits", !.handle = TRUE] /\ UNCHANGED caller
    /\ UNCHANGED <<child, asked, loop>>

\* The rest of await_suspend: the caller's stop is forwarded to the thread.
Register ==
    /\ caller = "running" /\ aw.at = "awaits"
    /\ caller' = "suspended"
    /\ aw' = IF Caller \in asked THEN RequestStop([aw EXCEPT !.at = "registered"])
             ELSE [aw EXCEPT !.at = "registered"]
    /\ UNCHANGED <<child, asked, loop>>

\* The stop of the caller; and ThreadBase::stop by whoever has the Thread.
Stop ==
    /\ Caller \notin asked /\ caller = "suspended"
    /\ asked' = asked \cup {Caller}
    /\ aw' = RequestStop(aw)
    /\ UNCHANGED <<child, caller, loop>>

StopThread ==
    /\ caller = "running" /\ aw.at = "has" /\ ~aw.stopRequested
    /\ aw' = RequestStop(aw)
    /\ UNCHANGED <<child, asked, caller, loop>>

\* What the thread posted: the caller stops if it and the thread were asked
\* to, and else goes on.
Back ==
    /\ Runs(Posted("back", Task))
    /\ loop' = Tail(loop)
    /\ caller' = IF aw.stopRequested /\ Caller \in asked THEN "stopped" ELSE "done"
    /\ UNCHANGED <<child, asked, aw>>

\* destroy(), by the awaiter or by who drops the Thread unawaited: request
\* the stop and join the thread.
Destroy ==
    /\ aw.at \notin {"joining", "gone"}
    /\ \/ caller \in {"done", "stopped"}
       \/ caller = "running" /\ aw.at = "has"
    /\ aw' = RequestStop([aw EXCEPT !.at = "joining"])
    /\ UNCHANGED <<child, asked, caller, loop>>

Joined ==
    /\ aw.at = "joining" /\ aw.thread = "exited"
    /\ aw' = [aw EXCEPT !.at = "gone"]
    /\ caller' = IF caller = "running" THEN "done" ELSE caller
    /\ UNCHANGED <<child, asked, loop>>

Next ==
    \/ ThreadSpawns \/ ThreadForwards \/ ThreadRuns \/ TaskEnds \/ ThreadLeaves
    \/ ThreadCompletes \/ ThreadExits \/ TryAwait \/ Register \/ Stop \/ StopThread
    \/ Back \/ Destroy \/ Joined

\* What goes on by itself: the thread, the loop, the join, and a task that
\* was asked to stop.
Progress ==
    \/ ThreadSpawns \/ ThreadForwards \/ ThreadRuns \/ ThreadLeaves
    \/ ThreadCompletes \/ ThreadExits \/ Register \/ Back \/ Joined
    \/ Task \in asked /\ TaskEnds

-----------------------------------------------------------------------------
(* The caller goes on once the task has ended, and the thread's state is   *)
(* deleted when no callback of the thread's is in the caller's loop and    *)
(* the thread is gone: what it posted holds a pointer to that state        *)
(* (task.cpp:489-502).                                                     *)
ThreadOutlived ==
    /\ caller \in {"done", "stopped"} => Ended(Task)
    /\ aw.at = "gone" => aw.thread = "exited" /\ loop = <<>>
    /\ caller = "stopped" => Caller \in asked

(* Who must be answered: a caller that was asked to stop or whose task has *)
(* ended, and whoever joins the thread.                                    *)
Waiting ==
    \/ caller = "suspended" /\ (Caller \in asked \/ Ended(Task))
    \/ aw.at = "joining"
=============================================================================
