--------------------------- MODULE EpollDescriptor ---------------------------
(***************************************************************************)
(* EpollDescriptor and EpollAwaiter (linux/epoll.cpp): a coroutine polls a *)
(* file, which the kernel watches in one-shot mode.  The descriptor keeps  *)
(* what it believes the kernel watches for, to save system calls.          *)
(*                                                                         *)
(* Everything but the files happens on the thread of the EpollContext.     *)
(* A file is registered throughout: removeDescriptor() may be called only  *)
(* when nobody polls (io/context.hpp:76).                                  *)
(***************************************************************************)
EXTENDS TimerService, SequencesExt

CONSTANTS Fds,     \* the descriptors
          Events,  \* what one polls for: EPOLLIN, EPOLLOUT
          Hup      \* EPOLLHUP and EPOLLERR, which the kernel reports unasked

ASSUME EventsAssumption == Hup \notin Events

VARIABLES
    ready,     \* the state of each file
    kernel,    \* what the kernel reports of it: {} when the one shot is spent
    interest,  \* EpollDescriptor::events
    awaiters   \* EpollDescriptor::awaiters

fdVars == <<ready, kernel, interest, awaiters>>

\* addDescriptor() registers without events.
FdInit ==
    /\ ready = [f \in Fds |-> {}]
    /\ kernel = [f \in Fds |-> {Hup}]
    /\ interest = [f \in Fds |-> {}]
    /\ awaiters = [f \in Fds |-> <<>>]

\* A file becomes ready or is drained; a peer hangs up for good.
FileChange(f, e) ==
    /\ e = Hup => e \notin ready[f]
    /\ ready' = [ready EXCEPT ![f] = IF e \in @ THEN @ \ {e} ELSE @ \cup {e}]
    /\ UNCHANGED <<kernel, interest, awaiters>>

-----------------------------------------------------------------------------
\* EPOLL_CTL_MOD to the events in E, one shot.
Arm(f, E) ==
    /\ kernel' = [kernel EXCEPT ![f] = E \cup {Hup}]
    /\ interest' = [interest EXCEPT ![f] = E]

\* Mutant: only the new events are registered.
RegisterOnly(f, e) ==
    IF e \in interest[f] THEN UNCHANGED <<kernel, interest>> ELSE Arm(f, {e})

\* await_ready(): nothing to do when the kernel is believed to watch already.
Register(f, e) ==
    IF e \in interest[f] THEN UNCHANGED <<kernel, interest>>
                         ELSE Arm(f, interest[f] \cup {e})

\* Mutant: a stop that was requested before leaves the awaiter.
PollStopped(c, f, e) ==
    /\ Running(c)
    /\ slices[c] > 0
    /\ slices' = [slices EXCEPT ![c] = @ - 1]
    /\ local' = Tail(local)
    /\ Register(f, e)
    /\ st' = [st EXCEPT ![c] = IF stopReq[c] THEN "stopped" ELSE "polling"]
    /\ awaiters' = [awaiters EXCEPT ![f] = Append(@, [who |-> c, event |-> e])]
    /\ UNCHANGED <<mTimers, stopReq, ready>>

\* poll(): await_ready(), then await_suspend(); onStopRequested() runs within it when
\* the stop is requested already, and takes the awaiter out again.
Poll(c, f, e) ==
    /\ Running(c)
    /\ slices[c] > 0
    /\ slices' = [slices EXCEPT ![c] = @ - 1]
    /\ local' = Tail(local)
    /\ Register(f, e)
    /\ IF stopReq[c]
         THEN st' = [st EXCEPT ![c] = "stopped"] /\ UNCHANGED awaiters
         ELSE /\ st' = [st EXCEPT ![c] = "polling"]
              /\ awaiters' = [awaiters EXCEPT ![f] = Append(@, [who |-> c, event |-> e])]
    /\ UNCHANGED <<mTimers, stopReq, ready>>

\* The registration fails: poll() returns the error, and the coroutine goes on.
PollFails(c, f, e) ==
    /\ Running(c)
    /\ slices[c] > 0
    /\ e \notin interest[f]
    /\ slices' = [slices EXCEPT ![c] = @ - 1]
    /\ UNCHANGED <<mTimers, local, st, stopReq, fdVars>>

\* EpollAwaiter::onStopRequested() takes the awaiter out; the kernel still watches.
StopPoller(c, d) ==
    /\ Request(c, d)
    /\ st[d] = "polling"
    /\ st' = [st EXCEPT ![d] = "stopped"]
    /\ \E f \in Fds : \E i \in DOMAIN awaiters[f] :
           /\ awaiters[f][i].who = d
           /\ awaiters' = [awaiters EXCEPT ![f] = RemoveAt(@, i)]
    /\ UNCHANGED <<mTimers, ready, kernel, interest>>

\* The try of an operation ends: the file is ready, or hung up, and the operation is
\* over and the coroutine goes on.  When it would block, and when sendmsg() or recvmsg()
\* return 0, the operation polls (Poll) and tries again when it is told.
TryIo(c, f, e) ==
    /\ Running(c)
    /\ slices[c] > 0
    /\ ready[f] \cap {e, Hup} # {}
    /\ slices' = [slices EXCEPT ![c] = @ - 1]
    /\ \E left \in {ready[f], ready[f] \ {e}} : ready' = [ready EXCEPT ![f] = left]
    /\ UNCHANGED <<mTimers, local, st, stopReq, kernel, interest, awaiters>>

PollSlice ==
    \/ Slice /\ UNCHANGED fdVars
    \/ \E c \in Coros, f \in Fds, e \in Events : Poll(c, f, e)
    \/ \E c, d \in Coros : StopPoller(c, d)

-----------------------------------------------------------------------------
(* What epoll_wait() reports of a file, and its dispatch.                  *)

Reported(f) == ready[f] \cap kernel[f]

\* The one shots of the reported files are spent.
Spend == kernel' = [f \in Fds |-> IF Reported(f) # {} THEN {} ELSE kernel[f]]

\* onNotify() of each of the awaiters: scheduled, with a result.
Notify(as) ==
    /\ local' = local \o [i \in DOMAIN as |-> <<Loop, as[i].who>>]
    /\ st' = [c \in Coros |-> IF \E i \in DOMAIN as : as[i].who = c THEN "ready"
                                                                   ELSE st[c]]

\* Which awaiters of f an event is for: those who asked for it, or all on a hang-up.
Told(f, events) ==
    {i \in DOMAIN awaiters[f] : awaiters[f][i].event \in events \/ Hup \in events}

\* Mutant: the one shot is not armed again for those that wait on.
DispatchOnce(f, events) ==
    LET told == Told(f, events)
        rest == Keep(awaiters[f], DOMAIN awaiters[f] \ told)
    IN  /\ Notify(Keep(awaiters[f], told))
        /\ awaiters' = [awaiters EXCEPT ![f] = rest]
        /\ interest' = [interest EXCEPT ![f] = {rest[i].event : i \in DOMAIN rest}]
        /\ UNCHANGED kernel

\* processEvent() for a file: those whom the event is for are told; the file is armed
\* again for the others, and when that fails they are told too.
Dispatch(f, events) ==
    LET told   == Told(f, events)
        rest   == Keep(awaiters[f], DOMAIN awaiters[f] \ told)
        wanted == {rest[i].event : i \in DOMAIN rest}
    IN  \/ /\ Notify(Keep(awaiters[f], told))
           /\ awaiters' = [awaiters EXCEPT ![f] = rest]
           /\ IF wanted # {} THEN Arm(f, wanted)
                             ELSE /\ interest' = [interest EXCEPT ![f] = {}]
                                  /\ UNCHANGED kernel
        \/ /\ wanted # {}
           /\ Notify(Keep(awaiters[f], told) \o rest)
           /\ awaiters' = [awaiters EXCEPT ![f] = <<>>]
           /\ interest' = [interest EXCEPT ![f] = {}]
           /\ UNCHANGED kernel

-----------------------------------------------------------------------------
FdTypeOK ==
    /\ ready \in [Fds -> SUBSET (Events \cup {Hup})]
    /\ kernel \in [Fds -> SUBSET (Events \cup {Hup})]
    /\ interest \in [Fds -> SUBSET Events]
    /\ awaiters \in [Fds -> Seq([who : Coros, event : Events])]
=============================================================================
