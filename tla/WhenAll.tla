------------------------------- MODULE WhenAll -------------------------------
(***************************************************************************)
(* whenAll (task/when_all.hpp): start every task, and go on with all the   *)
(* values when the last one ended, or stop when a stop was forwarded.      *)
(***************************************************************************)
EXTENDS Tasks

\* WhenAllAwaiterBase, over the contexts whenAll() made of its arguments;
\* mCaller is null until await_suspend.
Init ==
    /\ TaskInit
    /\ aw = [started |-> 0, left |-> N, stopRequested |-> FALSE,
             suspended |-> FALSE]

\* Mutant: the stop is not looked at.
OnTaskCompletedGoesOn(S, w) ==
    /\ aw' = [w EXCEPT !.left = @ - Cardinality(S)]
    /\ UNCHANGED loop
    /\ caller' = IF S # {} /\ aw'.left = 0 /\ w.suspended THEN "done" ELSE caller

\* onTaskCompleted for the tasks in S, the last of them deciding: it resumes
\* the caller itself (setPrevAwaiting), within the same step.
OnTaskCompleted(S, w) ==
    /\ aw' = [w EXCEPT !.left = @ - Cardinality(S)]
    /\ UNCHANGED loop
    /\ caller' = IF S = {} \/ aw'.left # 0 THEN caller
                 ELSE IF w.stopRequested THEN "stopped"
                 ELSE IF w.suspended THEN "done"
                 ELSE caller

\* One turn of the loop in await_ready.
Start ==
    LET c == aw.started + 1
        w == [aw EXCEPT !.started = c]
    IN  /\ caller = "running" /\ c <= N
        /\ UNCHANGED asked
        /\ \/ /\ child' = [child EXCEPT ![c] = "live"]
              /\ aw' = w
              /\ UNCHANGED <<caller, loop>>
           \/ /\ child' = [child EXCEPT ![c] = "value"]
              /\ OnTaskCompleted({c}, w)

\* The result of await_ready, and await_suspend.  The stop callback, which
\* runs later or here, is onStopRequested.
Suspend ==
    /\ caller = "running" /\ aw.started = N
    /\ caller' = IF aw.left = 0 THEN "done" ELSE "suspended"
    /\ aw' = [aw EXCEPT !.suspended = aw.left # 0]
    /\ UNCHANGED <<child, asked, loop>>

\* onStopRequested: the stop is forwarded, the tasks in S end in it.
OnStopRequested ==
    /\ caller = "suspended" /\ ~aw.stopRequested
    /\ \E S \in SUBSET Answering(Child) :
           /\ child' = [c \in Child |-> IF c \in S THEN "stopped" ELSE child[c]]
           /\ asked' = asked \cup Child \cup {Caller}
           /\ OnTaskCompleted(S, [aw EXCEPT !.stopRequested = TRUE])

\* The stop callback of a caller that was asked before is part of Suspend:
\* nothing else happens in between.
Registering == caller = "suspended" /\ Caller \in asked /\ ~aw.stopRequested

\* A task ends in the event loop.
End(c) ==
    /\ Idle /\ ~Registering /\ child[c] = "live"
    /\ \E how \in Outcomes(c) :
           /\ child' = [child EXCEPT ![c] = how]
           /\ UNCHANGED asked
           /\ OnTaskCompleted({c}, aw)

\* What goes on by itself.
Progress ==
    \/ Start \/ Suspend
    \/ Registering /\ OnStopRequested
    \/ \E c \in asked \cap Child : End(c)

Next == Start \/ Suspend \/ OnStopRequested \/ \E c \in Child : End(c)

-----------------------------------------------------------------------------
(* The caller goes on with a value of every task: await_resume takes the   *)
(* value of each without asking whether it was stopped (when_all.hpp:144). *)
(* It stops only when every task has ended.                                *)
EveryValue ==
    /\ caller = "done" => \A c \in Child : child[c] = "value"
    /\ caller = "stopped" => \A c \in Child : Ended(c)

\* What the theorems about whenAll need: the types, ...
TypeOK ==
    /\ child \in [Child -> {"new", "live", "value", "stopped"}]
    /\ asked \subseteq Child \cup {Caller}
    /\ caller \in {"running", "suspended", "done", "stopped"}
    /\ loop = <<>>
    /\ aw \in [started : 0..N, left : Nat, stopRequested : BOOLEAN,
               suspended : BOOLEAN]

\* ... that the awaiter counts the tasks that have not ended, and only a stop that it
\* forwarded stops a task, ...
Unfinished == {c \in Child : ~Ended(c)}

Counted ==
    /\ \A c \in Child : child[c] = "new" <=> c > aw.started
    /\ aw.left = Cardinality(Unfinished)
    /\ ~aw.stopRequested => asked \cap Child = {}
    /\ \A c \in Child : child[c] = "stopped" => c \in asked

\* ... and that the caller waits while there is a task to wait for.
CallerWaits ==
    /\ caller = "running" => ~aw.suspended /\ ~aw.stopRequested
    /\ caller = "suspended" => aw.suspended /\ aw.left # 0 /\ aw.started = N
    /\ caller \in {"done", "stopped"} => aw.left = 0
    /\ caller = "done" => ~aw.stopRequested

(* Who must be answered: a caller that was asked to stop.                  *)
Waiting == caller = "suspended" /\ Caller \in asked
=============================================================================
