-------------------------------- MODULE Spawn --------------------------------
(***************************************************************************)
(* spawn() (task/spawn.hpp, task.cpp:15-58): a task with a context of its  *)
(* own, counted by reference.  The task is posted to the loop; when its    *)
(* coroutine ends, onComplete is posted, which calls the completion        *)
(* handler and gives up the reference the context holds on itself.         *)
(***************************************************************************)
EXTENDS Tasks

VARIABLES
    refs,      \* use_count of each context; 0 once it is deleted
    handles,   \* the tasks a WaitHandle or a StopHandle refers to
    finished,  \* mCompleted
    handler    \* mCompletionHandler: "none", or whose it is

spawnVars == <<refs, handles, finished, handler>>
vars      == <<child, asked, caller, loop, aw, refs, handles, finished, handler>>

SpawnInit ==
    /\ TaskInit
    /\ refs = [c \in Child |-> 0]
    /\ handles = {}
    /\ finished = {}
    /\ handler = [c \in Child |-> "none"]

Spawned(c) == child[c] # "new"

\* The constructor: the context refers to itself until onComplete, and the
\* handle that spawn() returns refers to it.
SpawnTask(c) ==
    /\ child[c] = "new"
    /\ child' = [child EXCEPT ![c] = "ready"]
    /\ refs' = [refs EXCEPT ![c] = 2]
    /\ handles' = handles \cup {c}
    /\ Schedule(Posted("start", c))

\* The ends of the tasks in S, posted in some order.
Orders(S) == {q \in [1..Cardinality(S) -> {Posted("complete", c) : c \in S}] :
                  \A c \in S : \E i \in DOMAIN q : q[i] = Posted("complete", c)}

\* The coroutines of the tasks in S end: each posts onComplete.
EndsPosted(S, how) ==
    /\ child' = [c \in Child |-> IF c \in S THEN how ELSE child[c]]
    /\ \E q \in Orders(S) : loop' = loop \o q

\* The loop starts the task that was posted: it suspends, or ends at once.
Start(c) ==
    /\ Runs(Posted("start", c))
    /\ \/ /\ child' = [child EXCEPT ![c] = "live"]
          /\ loop' = Tail(loop)
       \/ \E how \in Outcomes(c) :
              /\ child' = [child EXCEPT ![c] = how]
              /\ loop' = Append(Tail(loop), Posted("complete", c))
    /\ UNCHANGED <<asked, caller, aw, spawnVars>>

\* A live task ends in the event loop.
End(c) ==
    /\ Idle /\ child[c] = "live"
    /\ \E how \in Outcomes(c) : EndsPosted({c}, how)
    /\ UNCHANGED <<asked, caller, aw, spawnVars>>

\* stop() on the contexts of S: the tasks that answer at once post their end.
StopTasks(S) ==
    /\ asked' = asked \cup S
    /\ \E T \in SUBSET Answering(S) : EndsPosted(T, "stopped")

\* The end of onComplete(c), when the handler has left the counts r and the
\* loop l: the last reference is only given up from the loop.
GiveUpSelf(c, r, l) ==
    /\ finished' = finished \cup {c}
    /\ handler' = [handler EXCEPT ![c] = "none"]
    /\ IF r[c] = 1
       THEN refs' = r /\ loop' = Append(l, Posted("deref", c))
       ELSE refs' = [r EXCEPT ![c] = @ - 1] /\ loop' = l

Deref(c) ==
    /\ Runs(Posted("deref", c))
    /\ loop' = Tail(loop)
    /\ refs' = [refs EXCEPT ![c] = @ - 1]
    /\ UNCHANGED <<child, asked, caller, aw, handles, finished, handler>>

\* A handle is dropped.
DropHandle(c) ==
    /\ Idle /\ c \in handles
    /\ handles' = handles \ {c}
    /\ refs' = [refs EXCEPT ![c] = @ - 1]
    /\ UNCHANGED <<child, asked, caller, loop, aw, finished, handler>>

\* StopHandle::stop.
StopHandle(c) ==
    /\ Idle /\ c \in handles /\ c \notin asked
    /\ StopTasks({c})
    /\ UNCHANGED <<caller, aw, spawnVars>>

\* The context refers to itself until onComplete, or until the deref that
\* onComplete posted.
SelfRef(c) ==
    /\ Spawned(c)
    /\ c \notin finished \/ \E i \in DOMAIN loop : loop[i] = Posted("deref", c)

Count(b) == IF b THEN 1 ELSE 0
=============================================================================
