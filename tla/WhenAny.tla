------------------------------- MODULE WhenAny -------------------------------
(***************************************************************************)
(* whenAny (task/when_any.hpp): start the tasks from left to right, take   *)
(* the first value, stop the others, and go on when all of them ended.     *)
(* A stop callback may end a task inside stopAll(), so completions nest.   *)
(***************************************************************************)
EXTENDS Tasks

\* WhenAnyAwaiterBase, over the contexts whenAny() made of its arguments.
Init ==
    /\ TaskInit
    /\ aw = [started |-> 0, left |-> 0, got |-> None,
             stopRequested |-> FALSE, suspended |-> FALSE]

Started(w) == 1..w.started

\* Mutants: the stop does not end the function, or comes before the value.
WakeupBoth(w) ==
    IF ~w.suspended \/ w.left # 0 THEN UNCHANGED <<caller, loop>>
    ELSE /\ Schedule(Resumption)
         /\ caller' = IF w.stopRequested /\ w.got = None THEN "stopped" ELSE caller

WakeupStopped(w) ==
    IF ~w.suspended \/ w.left # 0 THEN UNCHANGED <<caller, loop>>
    ELSE IF w.stopRequested THEN caller' = "stopped" /\ UNCHANGED loop
         ELSE Schedule(Resumption) /\ UNCHANGED caller

\* The end of a completion, when the awaiter has become w: who waits in
\* await_suspend goes on or stops when nothing is left.
Wakeup(w) ==
    IF ~w.suspended \/ w.left # 0 THEN UNCHANGED <<caller, loop>>
    ELSE IF w.stopRequested /\ w.got = None
         THEN caller' = "stopped" /\ UNCHANGED loop
         ELSE Schedule(Resumption) /\ UNCHANGED caller

\* onTaskCompleted of c, the awaiter being w: a first value stops the
\* others, those in S end inside stopAll(), before c is counted.
OnTaskCompleted(c, how, w) ==
    LET first == how = "value" /\ w.got = None
    IN  \E S \in SUBSET (IF first THEN Answering(Started(w) \ {c}) ELSE {}) :
            /\ child' = [d \in Child |-> IF d = c THEN how
                                         ELSE IF d \in S THEN "stopped"
                                         ELSE child[d]]
            /\ asked' = IF first THEN asked \cup Started(w) ELSE asked
            /\ aw' = [w EXCEPT !.got  = IF first THEN c ELSE @,
                               !.left = @ - 1 - Cardinality(S)]
            /\ Wakeup(aw')

\* One turn of the loop in await_ready: the next task runs to its first
\* suspension, or to its end.
Start ==
    LET c == aw.started + 1
        w == [aw EXCEPT !.started = c, !.left = @ + 1]
    IN  /\ caller = "running" /\ aw.got = None /\ c <= N
        /\ \/ /\ child' = [child EXCEPT ![c] = "live"]
              /\ aw' = w
              /\ UNCHANGED <<asked, caller, loop>>
           \/ OnTaskCompleted(c, "value", w)

\* onStopRequested: the caller's stop is forwarded, the tasks in S end in it.
OnStopRequested(w) ==
    \E S \in SUBSET Answering(Started(w)) :
        /\ child' = [c \in Child |-> IF c \in S THEN "stopped" ELSE child[c]]
        /\ asked' = asked \cup Started(w) \cup {Caller}
        /\ aw' = [w EXCEPT !.stopRequested = TRUE,
                           !.left = @ - Cardinality(S)]
        /\ IF S = {} THEN caller' = "suspended" /\ UNCHANGED loop
           ELSE IF aw'.left = 0 /\ w.got = None
           THEN caller' = "stopped" /\ UNCHANGED loop
           ELSE IF aw'.left = 0 THEN Schedule(Resumption) /\ caller' = "suspended"
           ELSE caller' = "suspended" /\ UNCHANGED loop

\* The result of await_ready, and await_suspend, which registers the stop
\* callback: if the stop was requested before, it runs at once.
Suspend ==
    /\ caller = "running"
    /\ aw.got # None \/ aw.started = N
    /\ IF aw.got # None /\ aw.left = 0
       THEN caller' = "done" /\ UNCHANGED <<child, asked, loop, aw>>
       ELSE IF Caller \in asked
       THEN OnStopRequested([aw EXCEPT !.suspended = TRUE])
       ELSE /\ aw' = [aw EXCEPT !.suspended = TRUE]
            /\ caller' = "suspended"
            /\ UNCHANGED <<child, asked, loop>>

\* The stop of the caller is requested.
Stop ==
    /\ caller = "suspended" /\ Caller \notin asked
    /\ OnStopRequested(aw)

\* A task ends in the event loop.
End(c) ==
    /\ Idle /\ child[c] = "live"
    /\ \E how \in Outcomes(c) : OnTaskCompleted(c, how, aw)

Next == Start \/ Suspend \/ Stop \/ Resume \/ \E c \in Child : End(c)

\* What goes on by itself: the caller's code, the loop, and the tasks that
\* were asked to stop.
Progress == Start \/ Suspend \/ Resume \/ \E c \in asked \cap Child : End(c)

-----------------------------------------------------------------------------
(* whenAny goes on or stops only when every task it started has ended      *)
(* (when_any.hpp:228-230), and a value was got unless it stopped: the      *)
(* assertion of await_resume.  What was got is a value: a task that was    *)
(* stopped has none.                                                       *)
AllAwaited ==
    caller \in {"done", "stopped"} \/ loop # <<>> =>
        /\ \A c \in Started(aw) : Ended(c)
        /\ aw.got = None <=> caller = "stopped"
        /\ aw.got # None => child[aw.got] = "value"

(* A value that was got stays, and a stop that comes later does not take   *)
(* it away; no task starts after it (when_any.hpp:97, :131).               *)
FirstWins ==
    aw.got # None => /\ aw'.got = aw.got
                     /\ aw'.started = aw.started
                     /\ caller' # "stopped"

\* What the theorems about whenAny need: the types, ...
TypeOK ==
    /\ child \in [Child -> {"new", "live", "value", "stopped"}]
    /\ asked \subseteq Child \cup {Caller}
    /\ caller \in {"running", "suspended", "done", "stopped"}
    /\ loop \in {<<>>, <<Resumption>>}
    /\ aw \in [started : 0..N, left : Nat, got : Child \cup {None},
               stopRequested : BOOLEAN, suspended : BOOLEAN]

\* ... that the awaiter counts the tasks that run, knows whether one has a value, and
\* that a task stops only if it was asked to, ...
Live == {c \in Child : child[c] = "live"}

Counted ==
    /\ \A c \in Child : child[c] = "new" <=> c > aw.started
    /\ aw.left = Cardinality(Live)
    /\ aw.got # None => child[aw.got] = "value"
    /\ aw.got = None => \A c \in Child : child[c] # "value"
    /\ aw.got = None /\ ~aw.stopRequested => asked \cap Child = {}
    /\ \A c \in Child : child[c] = "stopped" => c \in asked

\* ... and that the caller goes on or stops when it is told to.
CallerWaits ==
    /\ caller = "suspended" => aw.suspended /\ (aw.got = None => aw.started = N)
    /\ caller = "running" => ~aw.suspended
    /\ caller # "suspended" => loop = <<>>
    /\ caller \in {"done", "stopped"} \/ loop # <<>> =>
           aw.left = 0 /\ (aw.got = None <=> caller = "stopped")

(* Who waits for an answer that must come, if tasks answer their stop: a   *)
(* caller that was asked to stop, and one whose await has a value.         *)
Waiting == caller = "suspended" /\ (Caller \in asked \/ aw.got # None)
=============================================================================
