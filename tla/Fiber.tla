-------------------------------- MODULE Fiber --------------------------------
(***************************************************************************)
(* A fiber (fiber/fiber.cpp, fiber/fiber.hpp) that yields and awaits       *)
(* coroutines, and who awaits it: a coroutine whose frame outlives the     *)
(* stop ("awaited"), one whose frame is dropped by it ("spawned", see      *)
(* task.cpp:36-58), or a blocking wait().  All is on one thread, of which  *)
(* an action is what runs up to the next switch of stacks.                 *)
(***************************************************************************)
EXTENDS Naturals, FiniteSets

CONSTANT Awaits     \* the most often the fiber yields or awaits

VARIABLES
    kind,       \* who awaits it
    fiber,      \* "new", "running", "suspended", "done"
    left,       \* how often it still may yield or await
    resumer,    \* whose stack it was resumed from: the awaiting one's or the
                \* executor's
    mStopped,
    stop,       \* mStopSource was requested to stop
    co,         \* the coroutine it awaits: "none", "suspended", "done", "stopped"
    userdata,   \* the context of that coroutine knows the fiber
    handler,    \* mCompletionHandler is set
    caller,     \* "new", "resuming", "suspended", "resumed", "stopped"
    asked,      \* the caller's stop was requested
    queue,      \* what the executor has to resume
    freed       \* the fiber's stack was unmapped

vars == <<kind, fiber, left, resumer, mStopped, stop, co, userdata, handler,
          caller, asked, queue, freed>>

Init ==
    /\ kind \in {"awaited", "spawned", "blocking"}
    /\ fiber = "new" /\ left = Awaits /\ resumer = "none"
    /\ mStopped = FALSE /\ stop = FALSE
    /\ co = "none" /\ userdata = FALSE
    /\ handler = FALSE
    /\ caller = "new" /\ asked \in {b \in BOOLEAN : b => kind # "blocking"}
    /\ queue = {} /\ freed = FALSE

inFiber == <<mStopped, co, userdata>>

\* await_ready, or wait(): the fiber is resumed on the caller's stack.
Await ==
    /\ caller = "new"
    /\ caller' = "resuming"
    /\ fiber' = "running" /\ resumer' = "caller"
    /\ UNCHANGED <<kind, left, inFiber, stop, handler, asked, queue, freed>>

\* The stop of the fiber goes on to the coroutine it awaits, which may end
\* at once for it: the context's handler schedules the fiber.
ForwardStop ==
    /\ stop' = TRUE
    /\ \/ UNCHANGED <<co, queue>>
       \/ /\ ~stop /\ co = "suspended"
          /\ co' = "stopped"
          /\ queue' = IF userdata THEN queue \cup {"fiber"} ELSE queue

\* Back from the fiber that has not ended: await_suspend, that registers the
\* stop, or the loop of wait().
Suspend ==
    /\ caller = "resuming" /\ fiber = "suspended"
    /\ caller' = "suspended"
    /\ handler' = TRUE
    /\ IF asked THEN ForwardStop ELSE UNCHANGED <<stop, co, queue>>
    /\ UNCHANGED <<kind, fiber, left, resumer, mStopped, userdata, asked, freed>>

\* onStopRequested.
Stop ==
    /\ caller = "suspended" /\ ~asked /\ kind # "blocking"
    /\ fiber # "running"
    /\ asked' = TRUE
    /\ ForwardStop
    /\ UNCHANGED <<kind, fiber, left, resumer, mStopped, userdata, handler, caller, freed>>

Running == fiber = "running" /\ co = "none"

SwitchBack(to) == fiber' = to /\ resumer' = "none"

\* this_fiber::yield.
Yield ==
    /\ Running /\ left > 0
    /\ left' = left - 1
    /\ queue' = queue \cup {"fiber"}
    /\ SwitchBack("suspended")
    /\ UNCHANGED <<kind, inFiber, stop, handler, caller, asked, freed>>

\* Mutant: the fiber suspends before the context knows it.
AwaitImplUnknown ==
    /\ Running /\ left > 0
    /\ left' = left - 1
    /\ \/ UNCHANGED <<co, userdata, fiber, resumer>>
       \/ /\ co' \in {"suspended"} \cup {s \in {"stopped"} : stop}
          /\ UNCHANGED userdata
          /\ SwitchBack("suspended")
    /\ UNCHANGED <<kind, mStopped, stop, handler, caller, asked, queue, freed>>

\* awaitImpl: the coroutine runs.  If it is not done the fiber suspends,
\* also when the coroutine was stopped at once for a stop that the fiber had
\* before: its context does not know the fiber then.
AwaitImpl ==
    /\ Running /\ left > 0
    /\ left' = left - 1
    /\ \/ UNCHANGED <<co, userdata, fiber, resumer>>
       \/ /\ co' \in {"suspended"} \cup {s \in {"stopped"} : stop}
          /\ userdata' = TRUE
          /\ SwitchBack("suspended")
    /\ UNCHANGED <<kind, mStopped, stop, handler, caller, asked, queue, freed>>

\* The coroutine ends: the completion handler schedules the fiber.
CoroutineEnds ==
    /\ co = "suspended" /\ fiber = "suspended"
    /\ \/ co' = "done"
       \/ co' = "stopped" /\ stop
    /\ queue' = IF userdata THEN queue \cup {"fiber"} ELSE queue
    /\ UNCHANGED <<kind, fiber, left, resumer, mStopped, stop, userdata, handler, caller, asked, freed>>

\* The executor resumes it.
ResumeFiber ==
    /\ "fiber" \in queue /\ fiber = "suspended" /\ caller # "resuming"
    /\ queue' = queue \ {"fiber"}
    /\ fiber' = "running" /\ resumer' = "executor"
    /\ UNCHANGED <<kind, left, inFiber, stop, handler, caller, asked, freed>>

\* Back in awaitImpl: a stopped coroutine ends the fiber, by an exception.
Awaited ==
    /\ fiber = "running" /\ co = "done"
    /\ co' = "none" /\ userdata' = FALSE
    /\ UNCHANGED <<kind, fiber, left, resumer, mStopped, stop, handler, caller, asked, queue, freed>>

\* onCompletion, still on the fiber's stack: the caller is stopped or, when
\* the fiber was not, scheduled; wait() ends its loop.  The frame of a
\* "spawned" caller, and with it the fiber's stack, goes as soon as the
\* caller is stopped, the earliest that a context can drop it.
OnCompletion(stopped) ==
    IF ~handler THEN UNCHANGED <<caller, queue, freed>>
    ELSE IF stopped /\ kind # "blocking"
    THEN /\ caller' = "stopped"
         /\ freed' = (kind = "spawned")
         /\ UNCHANGED queue
    ELSE queue' = queue \cup {"caller"} /\ UNCHANGED <<caller, freed>>

Main(stopped) ==
    /\ fiber = "running"
    /\ co = (IF stopped THEN "stopped" ELSE "none")
    /\ mStopped' = stopped
    /\ co' = "none" /\ userdata' = FALSE
    /\ fiber' = "done"
    /\ OnCompletion(stopped)
    /\ UNCHANGED <<kind, left, resumer, stop, handler, asked>>

\* The fiber's stack is left for the last time.
Leave ==
    /\ fiber = "done" /\ resumer # "none" /\ ~freed
    /\ resumer' = "none"
    /\ UNCHANGED <<kind, fiber, left, inFiber, stop, handler, caller, asked, queue, freed>>

\* The caller takes the value and drops the fiber: at once when the fiber
\* ended in await_ready, or when the executor resumes it.
Resume ==
    /\ fiber = "done" /\ resumer = "none"
    /\ caller = "resuming" \/ "caller" \in queue
    /\ caller' = "resumed" /\ queue' = queue \ {"caller"}
    /\ freed' = TRUE
    /\ UNCHANGED <<kind, fiber, left, resumer, inFiber, stop, handler, asked>>

\* Whose frame outlived the stop drops it later.
Drop ==
    /\ caller = "stopped" /\ kind = "awaited" /\ resumer = "none" /\ ~freed
    /\ freed' = TRUE
    /\ UNCHANGED <<kind, fiber, left, resumer, inFiber, stop, handler, caller, asked, queue>>

Next ==
    \/ Await \/ Suspend \/ Stop \/ Yield \/ AwaitImpl \/ CoroutineEnds
    \/ ResumeFiber \/ Awaited \/ (\E s \in BOOLEAN : Main(s)) \/ Leave \/ Resume \/ Drop

\* What goes on by itself; a coroutine ends in the end, as most do.
Progress ==
    \/ Suspend \/ Yield \/ AwaitImpl \/ CoroutineEnds
    \/ ResumeFiber \/ Awaited \/ (\E s \in BOOLEAN : Main(s)) \/ Leave \/ Resume \/ Drop

-----------------------------------------------------------------------------
(* A stop does not end the fiber where it is: its stack is left, to whom   *)
(* resumed it, before it is unmapped, unless the caller's frame is dropped *)
(* by the stop itself (fiber.cpp:157-172, 404-411): of a spawned caller    *)
(* this says nothing of the stack.  The caller is stopped only when asked, *)
(* and has a value otherwise.                                              *)
StackOutlives ==
    /\ freed /\ kind # "spawned" => fiber = "done" /\ resumer = "none"
    /\ caller = "stopped" => asked /\ mStopped
    /\ caller = "resumed" => fiber = "done" /\ ~mStopped
    /\ co # "none" => fiber \in {"suspended", "running"}

(* The fiber will be resumed when the coroutine it awaits is over, done or *)
(* stopped (fiber.cpp:384-390).                                            *)
Resumed == fiber = "suspended" /\ co \in {"done", "stopped"} => "fiber" \in queue

\* What the theorem about the fiber needs: the types, ...
TypeOK ==
    /\ kind \in {"awaited", "spawned", "blocking"}
    /\ fiber \in {"new", "running", "suspended", "done"}
    /\ resumer \in {"none", "caller", "executor"}
    /\ mStopped \in BOOLEAN /\ stop \in BOOLEAN /\ handler \in BOOLEAN
    /\ co \in {"none", "suspended", "done", "stopped"}
    /\ caller \in {"new", "resuming", "suspended", "resumed", "stopped"}
    /\ asked \in BOOLEAN /\ freed \in BOOLEAN /\ queue \subseteq {"fiber", "caller"}

\* ... and what a stop, and the end of the fiber, come from.
StopKnown ==
    /\ caller = "new" <=> fiber = "new"
    /\ caller \in {"stopped", "resumed"} => fiber = "done"
    /\ stop => asked /\ kind # "blocking" /\ caller \notin {"new", "resuming"}
    /\ asked => kind # "blocking"
    /\ co = "stopped" \/ mStopped => stop
    /\ "caller" \in queue => fiber = "done" /\ ~mStopped

(* Who awaits a fiber, unless the fiber awaits a coroutine that was        *)
(* stopped at once, or has lost its stack.                                 *)
Waiting ==
    /\ caller \in {"resuming", "suspended"}
    /\ ~(fiber = "suspended" /\ co = "stopped" /\ queue = {})
=============================================================================
