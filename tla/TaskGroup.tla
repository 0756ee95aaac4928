------------------------------ MODULE TaskGroup ------------------------------
(***************************************************************************)
(* TaskGroup (task/group.hpp, task.cpp:61-212).  The caller owns the group *)
(* and waits with next(), waitAll() or shutdown(); tasks may be spawned    *)
(* and inserted by it before, or by other coroutines while it waits.       *)
(***************************************************************************)
EXTENDS Spawn

\* TaskGroupBase with its one TaskGroupAwaiterBase, and what the caller
\* does with it; inserted and taken are what went in and came out.
Init ==
    /\ SpawnInit
    /\ \E mode \in {"next", "waitAll", "shutdown"} :
           aw = [mode |-> mode, at |-> "build", running |-> {}, completed |-> <<>>,
                 stopRequested |-> FALSE, awaiter |-> FALSE,
                 got |-> FALSE, stopping |-> FALSE,
                 inserted |-> {}, taken |-> {}, result |-> None]

Size == Cardinality(aw.running) + Len(aw.completed)

\* The group is built by its caller, or another coroutine runs while the
\* caller waits; once the wait is over nobody adds to the group.
Open == caller = "suspended" \/ (caller = "running" /\ aw.at = "build")

Spawn(c) ==
    /\ Open
    /\ SpawnTask(c)
    /\ UNCHANGED <<asked, caller, aw, finished, handler>>

\* notifyCompletion, and onCompletion of the awaiter: w is the group with a
\* new completion, r the counts, l the loop.  A stopping awaiter drops the
\* completion and waits for the others, any other takes it when it resumes.
Notified(w, r, l, how(_, _, _, _)) ==
    IF ~w.awaiter THEN how(w, r, l, caller)
    ELSE IF ~w.stopping
    THEN how([w EXCEPT !.awaiter = FALSE, !.got = TRUE], r, Append(l, Resumption), caller)
    ELSE LET c == Head(w.completed)
         IN  how([w EXCEPT !.completed = Tail(@), !.awaiter = w.running # {}],
                 [r EXCEPT ![c] = @ - 1], l,
                 IF w.running = {} THEN "stopped" ELSE caller)

\* insert(): the group shares the context.  A group that was stopped stops
\* the task; one that has completed goes to the completions at once.
Insert(c) ==
    LET r == [refs EXCEPT ![c] = @ + 1]
        w == [aw EXCEPT !.inserted = @ \cup {c}]
    IN  /\ Open /\ c \in handles /\ c \notin aw.inserted
        /\ UNCHANGED <<handles, finished>>
        /\ IF c \in finished
           THEN /\ asked' = IF aw.stopRequested THEN asked \cup {c} ELSE asked
                /\ UNCHANGED <<child, handler>>
                /\ Notified([w EXCEPT !.completed = Append(@, c)], r, loop,
                        LAMBDA w2, r2, l2, how : /\ aw' = w2
                                                 /\ refs' = r2
                                                 /\ loop' = l2
                                                 /\ caller' = how)
           ELSE /\ StopTasks(IF aw.stopRequested THEN {c} ELSE {})
                /\ aw' = [w EXCEPT !.running = @ \cup {c}]
                /\ handler' = [handler EXCEPT ![c] = "group"]
                /\ refs' = r
                /\ UNCHANGED caller

\* onComplete(c), and onTaskCompleted if the task is still in the group.
Complete(c) ==
    /\ Runs(Posted("complete", c))
    /\ UNCHANGED <<child, asked, handles>>
    /\ IF handler[c] = "none"
       THEN GiveUpSelf(c, refs, Tail(loop)) /\ UNCHANGED <<aw, caller>>
       ELSE Notified([aw EXCEPT !.running = @ \ {c}, !.completed = Append(@, c)],
                     refs, Tail(loop),
                LAMBDA w, r, l, how : /\ aw' = w
                                      /\ caller' = how
                                      /\ GiveUpSelf(c, r, l))

\* TaskGroupBase::stop: the tasks of the running list, once.
StopGroup(w) ==
    /\ aw' = [w EXCEPT !.stopRequested = TRUE]
    /\ IF w.stopRequested THEN UNCHANGED <<child, loop>>
       ELSE \E T \in SUBSET Answering(w.running) :
                EndsPosted(T, "stopped")

GroupStop ==
    /\ Open /\ ~aw.stopRequested
    /\ StopGroup(aw)
    /\ asked' = asked \cup aw.running
    /\ UNCHANGED <<caller, spawnVars>>

\* shutdown() stops the group, then waits as waitAll() does.
Wait ==
    /\ caller = "running" /\ aw.at = "build"
    /\ IF aw.mode = "shutdown"
       THEN /\ StopGroup([aw EXCEPT !.at = "wait"])
            /\ asked' = IF aw.stopRequested THEN asked ELSE asked \cup aw.running
       ELSE aw' = [aw EXCEPT !.at = "wait"] /\ UNCHANGED <<child, asked, loop>>
    /\ UNCHANGED <<caller, spawnVars>>

\* nextCompletion, in await_resume: the task leaves the group.
Take ==
    LET c == Head(aw.completed)
    IN  /\ aw' = [aw EXCEPT !.completed = Tail(@), !.taken = @ \cup {c},
                            !.result = c, !.got = FALSE]
        /\ refs' = [refs EXCEPT ![c] = @ - 1]
        /\ caller' = IF aw.mode = "next" THEN "done" ELSE "running"
        /\ UNCHANGED <<child, asked, handles, finished, handler>>

\* await_suspend: a stop that was requested before is handled at once.
Suspend ==
    LET w == [aw EXCEPT !.awaiter = TRUE, !.got = FALSE, !.stopping = Caller \in asked]
    IN  /\ caller' = "suspended"
        /\ IF Caller \in asked
           THEN /\ StopGroup(w)
                /\ asked' = IF aw.stopRequested THEN asked ELSE asked \cup aw.running
           ELSE aw' = w /\ UNCHANGED <<child, asked, loop>>
        /\ UNCHANGED spawnVars

\* One turn of the loop in waitAll() and shutdown(), or the one next().
Turn ==
    /\ caller = "running" /\ aw.at = "wait"
    /\ IF aw.mode # "next" /\ Size = 0
       THEN caller' = "done" /\ UNCHANGED <<child, asked, loop, aw, spawnVars>>
       ELSE IF aw.completed # <<>> THEN Take /\ UNCHANGED loop
       ELSE Suspend

Resumed ==
    /\ Runs(Resumption)
    /\ loop' = Tail(loop)
    /\ Take

\* The stop of the caller: onStopRequested, unless a completion was got.
Stop ==
    /\ caller = "suspended" /\ Caller \notin asked
    /\ IF aw.got
       THEN asked' = asked \cup {Caller} /\ UNCHANGED <<child, loop, aw>>
       ELSE /\ StopGroup([aw EXCEPT !.stopping = TRUE])
            /\ asked' = asked \cup {Caller}
                              \cup (IF aw.stopRequested THEN {} ELSE aw.running)
    /\ UNCHANGED <<caller, spawnVars>>

\* Mutant: the completions nobody took are forgotten.
DestroyRunning ==
    /\ caller \in {"done", "stopped"} /\ aw.at # "gone"
    /\ aw' = [aw EXCEPT !.at = "gone", !.running = {}, !.completed = <<>>]
    /\ refs' = [c \in Child |-> IF c \in aw.running THEN refs[c] - 1 ELSE refs[c]]
    /\ handler' = [c \in Child |-> IF c \in aw.running THEN "none" ELSE handler[c]]
    /\ StopTasks(aw.running)
    /\ UNCHANGED <<caller, handles, finished>>

\* ~TaskGroupBase, with the caller's frame: tasks that still run are
\* detached and stopped, completions are dropped.
Destroy ==
    LET left == aw.running \cup {aw.completed[i] : i \in DOMAIN aw.completed}
    IN  /\ caller \in {"done", "stopped"} /\ aw.at # "gone"
        /\ aw' = [aw EXCEPT !.at = "gone", !.running = {}, !.completed = <<>>]
        /\ refs' = [c \in Child |-> IF c \in left THEN refs[c] - 1 ELSE refs[c]]
        /\ handler' = [c \in Child |-> IF c \in aw.running THEN "none" ELSE handler[c]]
        /\ StopTasks(aw.running)
        /\ UNCHANGED <<caller, handles, finished>>

Next ==
    \/ Wait \/ Turn \/ Resumed \/ Stop \/ GroupStop \/ Destroy
    \/ \E c \in Child :
           \/ Spawn(c) \/ Insert(c) \/ DropHandle(c) \/ StopHandle(c)
           \/ Start(c) \/ End(c) \/ Complete(c) \/ Deref(c)

\* What goes on by itself: the caller, the loop, the tasks asked to stop.
Progress ==
    \/ Turn \/ Resumed
    \/ \E c \in Child :
           \/ Start(c) \/ Complete(c) \/ Deref(c)
           \/ c \in asked /\ End(c)

-----------------------------------------------------------------------------
(* A completion is delivered once, for each of the tasks: who resumes has  *)
(* one to take, waitAll() and shutdown() return when every task that was   *)
(* inserted has ended and was taken, and a caller that stops leaves no     *)
(* task running (group.hpp:195-215).                                       *)
Delivered ==
    /\ aw.got => aw.completed # <<>>
    /\ caller = "done" => IF aw.mode = "next" THEN aw.result \in finished
                          ELSE aw.at = "wait" => aw.taken = aw.inserted /\ Size = 0
    /\ caller = "stopped" => aw.running = {}
    /\ \A c \in aw.taken : Ended(c)

(* A context is counted once for each that refers to it, so it is deleted  *)
(* when the last of them lets go, and never while the loop, the group or a *)
(* handle still points at it (task.cpp:36-58, :119, :185).                 *)
RefsMatch ==
    \A c \in Child :
        refs[c] = Count(SelfRef(c)) + Count(c \in handles)
                  + Count(c \in aw.running \/ \E i \in DOMAIN aw.completed : aw.completed[i] = c)

(* Who must be answered: a caller that was asked to stop while tasks run,  *)
(* and one for which there is a completion.  A stop of a caller that waits *)
(* on an empty group is kept until a task is inserted (task.cpp:206).      *)
Waiting ==
    /\ caller = "suspended"
    /\ aw.completed # <<>> \/ (Caller \in asked /\ aw.running # {})
=============================================================================
