------------------------------- MODULE Process -------------------------------
(***************************************************************************)
(* ilias::Process and its Builder (process.hpp, process.cpp, the Linux     *)
(* branch).  In one program output() spawns a child and awaits its two     *)
(* pipes and its end; in the other spawn() gives a handle, on which two    *)
(* coroutines wait() while somebody may kill().  The child is another      *)
(* process: it writes and ends when it likes.  Its standard output and     *)
(* error are the non-blocking pipes that the builder was given, so a full  *)
(* pipe fails its write (fd_utils.hpp:55).                                 *)
(***************************************************************************)
EXTENDS Naturals, FiniteSets

CONSTANTS Room,   \* what a pipe holds
          Bytes   \* what the child writes to each pipe at most

Pipes == {"out", "err"}

VARIABLES
    mode,       \* "output" or "handle"
    at,         \* where the parent is in spawn() and output()
    result,     \* what it returned
    child,      \* "none", "setup", "running", "exited" (a zombie) or "reaped"
    status,     \* how the child ended
    exitStatus, \* what wait() said
    errWriters, \* who holds the writing end of errpipes
    errMsg,     \* the child wrote its errno
    writers,    \* who holds the writing ends of the two pipes
    reading,    \* the parent holds the reading ends
    wrote,      \* what the child has written to each
    pipe, got,  \* what is in each, and what the parent has read
    task,       \* readToEnd() of each pipe, and one or two wait()
    asked       \* the parent's stop is requested

spawnVars == <<at, result, errWriters, errMsg>>
childVars == <<child, status, wrote>>
pipeVars == <<writers, reading, pipe, got>>
vars == <<mode, spawnVars, childVars, pipeVars, exitStatus, task, asked>>

Awaited == Pipes \cup {"wait", "again"}

Init ==
    /\ mode \in {"output", "handle"}
    /\ at = "start" /\ result = "none"
    /\ child = "none" /\ status = "none" /\ exitStatus = "none"
    /\ errWriters = {} /\ errMsg = FALSE
    /\ writers = {} /\ reading = FALSE
    /\ wrote = [s \in Pipes |-> 0]
    /\ pipe = [s \in Pipes |-> 0] /\ got = [s \in Pipes |-> 0]
    /\ task = [t \in Awaited |-> "none"]
    /\ asked = FALSE

-----------------------------------------------------------------------------
(* spawn(), on the thread of the executor.                                 *)

\* It returns; the readers of output() are its locals.
Return(r) == at' = "ended" /\ result' = r /\ reading' = FALSE

\* PipePair::make() twice, and the writers given to the builder.
MakePipes ==
    /\ at = "start"
    /\ \/ /\ mode = "output"
          /\ at' = "piped" /\ writers' = {"builder"} /\ reading' = TRUE /\ UNCHANGED result
       \/ mode = "output" /\ Return("error") /\ UNCHANGED writers
       \/ mode = "handle" /\ at' = "piped" /\ UNCHANGED <<writers, reading, result>>
    /\ UNCHANGED <<mode, errWriters, errMsg, childVars, pipe, got, exitStatus, task, asked>>

\* Mutant: the parent keeps its writing end of errpipes.
ForkKeepsEnd ==
    /\ at = "piped"
    /\ at' = "forked" /\ child' = "setup"
    /\ errWriters' = {"parent", "child"}
    /\ writers' = IF mode = "output" THEN writers \cup {"child"} ELSE writers
    /\ UNCHANGED <<mode, result, errMsg, status, wrote, reading, pipe, got, exitStatus, task,
                   asked>>

\* fork() copies every descriptor; the parent closes the writing end of errpipes.
Fork ==
    /\ at = "piped"
    /\ at' = "forked" /\ child' = "setup"
    /\ errWriters' = {"child"}
    /\ writers' = IF mode = "output" THEN writers \cup {"child"} ELSE writers
    /\ UNCHANGED <<mode, result, errMsg, status, wrote, reading, pipe, got, exitStatus, task,
                   asked>>

\* pipe2() or fork() fails.
ForkFails ==
    /\ at = "piped" /\ Return("error")
    /\ UNCHANGED <<mode, errWriters, errMsg, childVars, writers, pipe, got, exitStatus, task,
                   asked>>

\* ~State(): the child is killed and reaped.
Reap ==
    /\ child' = "reaped"
    /\ status' = IF status = "none" THEN "killed" ELSE status
    /\ writers' = writers \ {"child"}

\* Mutant: the guard is cleared before the message is read.
ReadErrLeavesChild ==
    /\ at = "forked" /\ (errMsg \/ errWriters = {})
    /\ IF errMsg
         THEN Return("error") /\ UNCHANGED <<child, status, writers>>
         ELSE /\ at' = "execed" /\ writers' = writers \ {"builder"}
              /\ UNCHANGED <<result, reading, child, status>>
    /\ UNCHANGED <<mode, errWriters, errMsg, wrote, pipe, got, exitStatus, task, asked>>

\* read() of errpipes blocks the thread until the child has written its errno, or its
\* exec closed the other end; then the builder's descriptors are closed.
ReadErr ==
    /\ at = "forked" /\ (errMsg \/ errWriters = {})
    /\ IF errMsg
         THEN Return("error") /\ Reap
         ELSE /\ at' = "execed" /\ writers' = writers \ {"builder"}
              /\ UNCHANGED <<result, reading, child, status>>
    /\ UNCHANGED <<mode, errWriters, errMsg, wrote, pipe, got, exitStatus, task, asked>>

\* pidfd_open() and the handle, after which the tasks start, or one of them fails.
OpenPidfd ==
    /\ at = "execed"
    /\ \/ /\ at' = "joining"
          /\ task' = [t \in Awaited |-> IF (t \in Pipes) => (mode = "output")
                                        THEN IF t = "again" /\ mode = "output" THEN "none"
                                                                               ELSE "run"
                                        ELSE "none"]
          /\ UNCHANGED <<result, reading, child, status, writers>>
       \/ Return("error") /\ Reap /\ UNCHANGED task
    /\ UNCHANGED <<mode, errWriters, errMsg, wrote, pipe, got, exitStatus, asked>>

-----------------------------------------------------------------------------
(* The child.                                                              *)

Ends(how) ==
    /\ child' = "exited" /\ status' = how
    /\ writers' = writers \ {"child"}

\* Between fork() and exec: dup2() of what is redirected, and execvp().  Success closes
\* its end of errpipes; failure is written there, and the child ends.
ChildSetup ==
    /\ child = "setup" /\ errWriters' = errWriters \ {"child"}
    /\ \/ child' = "running" /\ UNCHANGED <<errMsg, status, writers>>
       \/ errMsg' = TRUE /\ Ends("127")
    /\ UNCHANGED <<mode, at, result, wrote, reading, pipe, got, exitStatus, task, asked>>

\* It writes; a pipe without a reader kills it, a full one may make it give up.
ChildWrites(s) ==
    /\ child = "running" /\ mode = "output" /\ wrote[s] < Bytes
    /\ \/ /\ reading /\ pipe[s] < Room
          /\ pipe' = [pipe EXCEPT ![s] = @ + 1]
          /\ wrote' = [wrote EXCEPT ![s] = @ + 1]
          /\ UNCHANGED <<child, status, writers>>
       \/ reading /\ pipe[s] = Room /\ Ends("EAGAIN") /\ UNCHANGED <<pipe, wrote>>
       \/ ~reading /\ Ends("SIGPIPE") /\ UNCHANGED <<pipe, wrote>>
    /\ UNCHANGED <<mode, spawnVars, reading, got, exitStatus, task, asked>>

ChildExits ==
    /\ child = "running" /\ Ends("own")
    /\ UNCHANGED <<mode, spawnVars, wrote, reading, pipe, got, exitStatus, task, asked>>

-----------------------------------------------------------------------------
(* The tasks.                                                              *)

\* Mutant: an empty pipe is taken for its end.
ReadToEndEmpty(s) ==
    /\ task[s] = "run"
    /\ \/ pipe[s] > 0 /\ got' = [got EXCEPT ![s] = @ + pipe[s]]
                      /\ pipe' = [pipe EXCEPT ![s] = 0] /\ UNCHANGED task
       \/ pipe[s] = 0 /\ task' = [task EXCEPT ![s] = "done"] /\ UNCHANGED <<got, pipe>>
    /\ UNCHANGED <<mode, spawnVars, childVars, writers, reading, exitStatus, asked>>

\* readToEnd(): until a read returns 0, which is when nobody can write any more.  A read
\* may fail.
ReadToEnd(s) ==
    /\ task[s] = "run"
    /\ \/ pipe[s] > 0 /\ got' = [got EXCEPT ![s] = @ + pipe[s]]
                      /\ pipe' = [pipe EXCEPT ![s] = 0] /\ UNCHANGED task
       \/ pipe[s] = 0 /\ writers = {} /\ task' = [task EXCEPT ![s] = "done"]
                      /\ UNCHANGED <<got, pipe>>
       \/ task' = [task EXCEPT ![s] = "error"] /\ UNCHANGED <<got, pipe>>
    /\ UNCHANGED <<mode, spawnVars, childVars, writers, reading, exitStatus, asked>>

\* wait(): the pidfd is readable when the child has ended; waitid() reaps it, for the
\* first who calls.
Wait(t) ==
    /\ task[t] = "run" /\ child \in {"exited", "reaped"}
    /\ child' = "reaped"
    /\ IF child = "exited"
         THEN task' = [task EXCEPT ![t] = "done"] /\ exitStatus' = status
         ELSE task' = [task EXCEPT ![t] = "error"] /\ UNCHANGED exitStatus
    /\ UNCHANGED <<mode, spawnVars, status, wrote, pipeVars, asked>>

\* The poll of the pidfd fails: the child is left as it is.
WaitFails(t) ==
    /\ task[t] = "run" /\ t \in {"wait", "again"}
    /\ task' = [task EXCEPT ![t] = "error"]
    /\ UNCHANGED <<mode, spawnVars, childVars, pipeVars, exitStatus, asked>>

\* kill(): SIGKILL through the pidfd, at any time.
Kill ==
    /\ mode = "handle" /\ at = "joining" /\ child = "running"
    /\ Ends("killed")
    /\ UNCHANGED <<mode, spawnVars, wrote, reading, pipe, got, exitStatus, task, asked>>

RequestStop ==
    /\ at = "joining" /\ ~asked /\ asked' = TRUE
    /\ UNCHANGED <<mode, spawnVars, childVars, pipeVars, exitStatus, task>>

\* Whatever task still polls is stopped; the child is not touched.
TaskStops(t) ==
    /\ asked /\ task[t] = "run"
    /\ task' = [task EXCEPT ![t] = "stopped"]
    /\ UNCHANGED <<mode, spawnVars, childVars, pipeVars, exitStatus, asked>>

\* whenAll() has all of them, and stops when a stop was forwarded; output() looks at
\* the result of wait() only.
Joined ==
    /\ at = "joining" /\ \A t \in Awaited : task[t] # "run"
    /\ Return(IF asked THEN "stopped"
              ELSE IF task["wait"] = "error" /\ mode = "output" THEN "error" ELSE "ok")
    /\ UNCHANGED <<mode, errWriters, errMsg, childVars, writers, pipe, got, exitStatus, task,
                   asked>>

Progress ==
    \/ Fork \/ ForkFails \/ ReadErr \/ OpenPidfd \/ ChildSetup \/ ChildExits \/ Joined
    \/ \E s \in Pipes : ChildWrites(s) \/ ReadToEnd(s)
    \/ \E t \in {"wait", "again"} : Wait(t)
    \/ \E t \in Awaited : TaskStops(t) \/ WaitFails(t)

Next == MakePipes \/ Progress \/ Kill \/ RequestStop

-----------------------------------------------------------------------------
(* What output() returns is all that the child wrote, with the status it   *)
(* ended with, when no read failed, and the child is reaped; of two that   *)
(* wait(), one at most is told the status (process.cpp:250-321).           *)
OutputWhole ==
    /\ result = "ok" /\ mode = "output" =>
         /\ child = "reaped" /\ exitStatus = status
         /\ \A s \in Pipes : task[s] = "done" => got[s] = wrote[s] /\ pipe[s] = 0
    /\ {task["wait"], task["again"]} # {"done"}

(* A spawn() that fails leaves no child and no end of errpipes; one that   *)
(* succeeds leaves the builder no descriptor (process.cpp:165-245).        *)
NoChildLeft ==
    /\ at = "ended" => errWriters = {}
    /\ result = "error" /\ task["wait"] = "none" => child \in {"none", "reaped"}
    /\ result # "none" /\ task["wait"] # "none" => writers \subseteq {"child"}

\* Whoever spawned comes back.
Waiting == at \notin {"start", "ended"}
=============================================================================
