------------------------------ MODULE ThreadPool ------------------------------
(***************************************************************************)
(* The pool of threads for blocking calls (runtime.cpp:116-193, not on     *)
(* Windows), with the awaiter that submits to it (task/task.hpp:280-318)   *)
(* and the read and write that use it (linux/blocking.cpp).  The mutex is  *)
(* held for the length of one action, except by a worker that found        *)
(* nothing to do and has not fallen asleep yet.                            *)
(***************************************************************************)
EXTENDS Naturals, Sequences, FiniteSets

CONSTANTS Callables,   \* what is submitted, each once and by its own coroutine
          Limit        \* hardware_concurrency() * 2

Worker == 1..Limit

VARIABLES
    queue,
    idle,
    stopped,   \* stopSource
    threads,   \* how many workers were made
    at,        \* where each worker is
    has,       \* the callable it took
    call,      \* a callable, and who awaits it: "new", "queued", "invoked"
    exit       \* cleanup(): "no", "requested", "joining", "done"

vars == <<queue, idle, stopped, threads, at, has, call, exit>>

Init ==
    /\ queue = <<>> /\ idle = 0 /\ stopped = FALSE /\ threads = 0
    /\ at = [w \in Worker |-> "none"]
    /\ has = [w \in Worker |-> "nothing"]
    /\ call = [c \in Callables |-> "new"]
    /\ exit = "no"

MutexFree == \A w \in Worker : at[w] # "dozing"
Grows     == threads = 0 \/ (idle = 0 /\ threads < Limit)

\* Mutant: who makes a thread, or sees an idle one, leaves it at that.
SubmitSilently(c) ==
    /\ exit = "no" /\ MutexFree
    /\ call[c] = "new"
    /\ call' = [call EXCEPT ![c] = "queued"]
    /\ queue' = Append(queue, c)
    /\ threads' = IF Grows THEN threads + 1 ELSE threads
    /\ idle' = IF Grows THEN idle + 1 ELSE idle
    /\ at' = IF Grows THEN [at EXCEPT ![threads + 1] = "check"] ELSE at
    /\ UNCHANGED <<stopped, has, exit>>

\* await_suspend: submit() makes the first thread, or another one when no
\* one is idle and the limit allows it; notify_one wakes one that sleeps.
Submit(c) ==
    /\ exit = "no" /\ MutexFree
    /\ call[c] = "new"
    /\ call' = [call EXCEPT ![c] = "queued"]
    /\ queue' = Append(queue, c)
    /\ threads' = IF Grows THEN threads + 1 ELSE threads
    /\ idle' = IF Grows THEN idle + 1 ELSE idle
    /\ LET started == IF Grows THEN [at EXCEPT ![threads + 1] = "check"] ELSE at
           asleep  == {w \in Worker : at[w] = "asleep"}
       IN  IF asleep = {} THEN at' = started
           ELSE \E w \in asleep : at' = [started EXCEPT ![w] = "check"]
    /\ UNCHANGED <<stopped, has, exit>>

\* dispatch(): the predicate, with the mutex.  A stop goes before the queue.
Check(w) ==
    /\ at[w] = "check" /\ MutexFree
    /\ UNCHANGED <<idle, stopped, threads, call, exit>>
    /\ IF stopped
       THEN at' = [at EXCEPT ![w] = "leaving"] /\ UNCHANGED <<queue, has>>
       ELSE IF queue = <<>>
       THEN at' = [at EXCEPT ![w] = "dozing"] /\ UNCHANGED <<queue, has>>
       ELSE /\ at' = [at EXCEPT ![w] = "took"]
            /\ has' = [has EXCEPT ![w] = Head(queue)]
            /\ queue' = Tail(queue)

\* It sleeps, and has released the mutex; or wakes for no reason.
Sleep(w) ==
    /\ at[w] = "dozing"
    /\ at' = [at EXCEPT ![w] = "asleep"]
    /\ UNCHANGED <<queue, idle, stopped, threads, has, call, exit>>

Spurious(w) ==
    /\ at[w] = "asleep"
    /\ at' = [at EXCEPT ![w] = "check"]
    /\ UNCHANGED <<queue, idle, stopped, threads, has, call, exit>>

\* Without the mutex: idle goes down only now, ...
Busy(w) ==
    /\ at[w] = "took"
    /\ at' = [at EXCEPT ![w] = "busy"]
    /\ idle' = idle - 1
    /\ UNCHANGED <<queue, stopped, threads, has, call, exit>>

\* ... the callable is invoked and schedules who awaits it, ...
Invoke(w) ==
    /\ at[w] = "busy"
    /\ at' = [at EXCEPT ![w] = "returning"]
    /\ call' = [call EXCEPT ![has[w]] = "invoked"]
    /\ has' = [has EXCEPT ![w] = "nothing"]
    /\ UNCHANGED <<queue, idle, stopped, threads, exit>>

\* ... and idle goes up again.
Return(w) ==
    /\ at[w] = "returning"
    /\ at' = [at EXCEPT ![w] = "check"]
    /\ idle' = idle + 1
    /\ UNCHANGED <<queue, stopped, threads, has, call, exit>>

Leave(w) ==
    /\ at[w] = "leaving"
    /\ at' = [at EXCEPT ![w] = "exited"]
    /\ idle' = idle - 1
    /\ UNCHANGED <<queue, stopped, threads, has, call, exit>>

\* cleanup(), at the exit of the program: the stop is requested and all are
\* notified, neither with the mutex; then every thread is joined.
RequestStop ==
    /\ exit = "no" /\ threads > 0
    /\ stopped' = TRUE /\ exit' = "requested"
    /\ UNCHANGED <<queue, idle, threads, at, has, call>>

NotifyAll ==
    /\ exit = "requested"
    /\ exit' = "joining"
    /\ at' = [w \in Worker |-> IF at[w] = "asleep" THEN "check" ELSE at[w]]
    /\ UNCHANGED <<queue, idle, stopped, threads, has, call>>

Join ==
    /\ exit = "joining"
    /\ \A w \in Worker : at[w] \in {"none", "exited"}
    /\ exit' = "done"
    /\ UNCHANGED <<queue, idle, stopped, threads, at, has, call>>

\* What goes on by itself: the workers, if the callables return.
WorkerStep(w) == Check(w) \/ Sleep(w) \/ Busy(w) \/ Invoke(w) \/ Return(w) \/ Leave(w)

Progress == NotifyAll \/ Join \/ \E w \in Worker : WorkerStep(w)

Next ==
    \/ RequestStop \/ NotifyAll \/ Join
    \/ \E c \in Callables : Submit(c)
    \/ \E w \in Worker : WorkerStep(w) \/ Spurious(w)

-----------------------------------------------------------------------------
(* idle, which is unsigned and read to decide on a new thread, counts the  *)
(* workers that are not busy, those included that have a callable and have *)
(* not said so (runtime.cpp:158): it never wraps, and is too large by      *)
(* those only.  No more threads are made than the limit, and a callable in *)
(* the queue has a worker that is awake.                                   *)
IdleCounts ==
    LET In(places) == {w \in Worker : at[w] \in places}
    IN  /\ idle = Cardinality(In({"check", "dozing", "asleep", "took", "leaving"}))
        /\ threads = Cardinality(Worker \ In({"none"}))
        /\ queue # <<>> /\ ~stopped => In({"check", "took", "busy", "returning"}) # {}

\* The types, and that the workers are made one after the other and leave only
\* when they are told to: what the theorem about IdleCounts needs.
TypeOK ==
    /\ queue \in Seq(Callables)
    /\ idle \in Nat /\ stopped \in BOOLEAN /\ threads \in 0..Limit
    /\ at \in [Worker -> {"none", "check", "dozing", "asleep", "took", "busy",
                          "returning", "leaving", "exited"}]
    /\ has \in [Worker -> Callables \cup {"nothing"}]
    /\ call \in [Callables -> {"new", "queued", "invoked"}]
    /\ exit \in {"no", "requested", "joining", "done"}

WorkersMade ==
    /\ \A w \in Worker : at[w] = "none" <=> w > threads
    /\ \A w \in Worker : at[w] \in {"leaving", "exited"} => stopped
    /\ \A w \in Worker : at[w] \in {"took", "busy"} => has[w] \in Callables

(* Who waits for an answer: a coroutine whose callable is in the queue or  *)
(* with a worker, as long as the program does not exit.                    *)
Waiting(c) == call[c] = "queued" /\ ~stopped
=============================================================================
