--------------------------------- MODULE Iocp ---------------------------------
(***************************************************************************)
(* IocpContext (win32/io_context.cpp, overlapped.hpp, iocp_ops.hpp): an    *)
(* executor whose thread takes entries from a completion port, several at  *)
(* once, and the operations its coroutines await: overlapped ones, and     *)
(* waits for an object by a completion packet.  A run() may be started     *)
(* while an entry is dispatched, and goes on with the entries left.  The   *)
(* timers are in TimerService, reached by a callback of the port.          *)
(***************************************************************************)
EXTENDS Naturals, Sequences, FiniteSets, Functions

CONSTANTS
    Ops,        \* the operations, each awaited once by its own coroutine
    Packets,    \* those that wait for an object
    Batch,      \* the entries of one GetQueuedCompletionStatusEx
    Depth,      \* how deep run() nests
    MaxPosts    \* the most that is posted

VARIABLES
    port,       \* the completion port
    pending,    \* the operations that the system has and has not completed
    mEntries,   \* the entries taken and not dispatched
    mCallbacks,
    runs,       \* the run()s on the stack, the inner one last: where each
                \* is, and whether it is still to go on
    op,         \* "new", "suspended", "resumed", "stopped"
    asked,      \* the coroutines whose stop was requested
    posted      \* what was posted

vars == <<port, pending, mEntries, mCallbacks, runs, op, asked, posted>>

Done(o, how) == [kind |-> "overlapped", of |-> o, how |-> how]
Call(what, o) == [kind |-> "callback", of |-> o, how |-> what]

\* The thread has posted to itself: the operations, and perhaps a callback
\* that itself runs the executor until it is told to end.
Init ==
    /\ port = <<>> /\ pending = {} /\ mEntries = <<>>
    /\ \E s \in Injection(1..Cardinality(Ops), {Call("start", o) : o \in Ops}),
          nest \in {<<>>, <<Call("nest", 2)>>} :
           posted = Range(nest) /\ mCallbacks = s \o nest
    /\ runs = <<[at |-> "drain", running |-> TRUE]>>
    /\ op = [o \in Ops |-> "new"]
    /\ asked = {}

Inner == runs[Len(runs)]
At(place) == runs # <<>> /\ Inner.at = place

\* What another thread posts: the request to stop a coroutine, such a
\* callback, and the end of a run().
Calls ==
    {Call("request", o) : o \in Ops} \cup
    {Call("nest", d) : d \in 2..Depth} \cup {Call("end", d) : d \in 1..Depth}

\* post() from another thread.
Post(call) ==
    /\ call \notin posted /\ Cardinality(posted) < MaxPosts
    /\ posted' = posted \cup {call}
    /\ port' = Append(port, call)
    /\ UNCHANGED <<pending, mEntries, mCallbacks, runs, op, asked>>

\* What onSubmit() does or refuses at once is not reported by the port.
AtOnce(o) ==
    /\ op' = [op EXCEPT ![o] = "resumed"]
    /\ UNCHANGED <<port, pending>>

Pends(o) ==
    /\ op' = [op EXCEPT ![o] = "suspended"]
    /\ pending' = pending \cup {o}
    /\ UNCHANGED port

\* read() to poll(): the descriptor refuses the operation, or it is submitted.
Submit(o) == AtOnce(o) \/ Pends(o)

\* waitObject: a packet that cannot be associated fails the wait at once; a
\* stop requested before takes it back.
WaitObject(o) ==
    \/ AtOnce(o)
    \/ o \notin asked /\ Pends(o)
    \/ /\ o \in asked
       /\ op' = [op EXCEPT ![o] = "stopped"]
       /\ UNCHANGED <<port, pending>>

\* The coroutine awaits: a stop requested before cancels the operation.
Start(o) ==
    /\ IF o \in Packets THEN WaitObject(o) ELSE Submit(o)
    /\ UNCHANGED asked

\* The packet of a wait reports that it is over and nothing else.
Reported(o) == \E i \in DOMAIN port : port[i] = Done(o, "ok")

TakeBack(o) ==
    /\ pending' = pending \ {o}
    /\ IF Reported(o)
       THEN \E i \in DOMAIN port :
                /\ port[i] = Done(o, "ok")
                /\ port' = SubSeq(port, 1, i - 1) \o SubSeq(port, i + 1, Len(port))
       ELSE UNCHANGED port

\* Mutant: a wait that could not be cancelled is stopped as well.
CancelAlways(o) ==
    IF o \in Packets
    THEN /\ op' = [op EXCEPT ![o] = "stopped"]
         /\ TakeBack(o)
    ELSE UNCHANGED <<port, pending, op>>

\* The stop of an operation: CancelIoEx only asks for it, as does
\* NtCancelWaitCompletionPacket once the entry has left the port; before, it
\* takes the entry back and the coroutine is stopped there.
Cancel(o) ==
    IF o \in Packets /\ (o \in pending \/ Reported(o))
    THEN /\ op' = [op EXCEPT ![o] = "stopped"]
         /\ TakeBack(o)
    ELSE UNCHANGED <<port, pending, op>>

Request(o) ==
    /\ asked' = asked \cup {o}
    /\ IF o \notin asked /\ op[o] = "suspended" THEN Cancel(o)
       ELSE UNCHANGED <<port, pending, op>>

\* A callback is called, from mCallbacks or from the port.  One that runs
\* the executor puts a run() on the stack, that starts to drain.
Invoke(call) ==
    \/ /\ call.how = "start" /\ Start(call.of) /\ UNCHANGED runs
    \/ /\ call.how = "request" /\ Request(call.of) /\ UNCHANGED runs
    \/ /\ call.how = "nest"
       /\ runs' = IF Len(runs) + 1 = call.of
                  THEN Append(runs, [at |-> "drain", running |-> TRUE]) ELSE runs
       /\ UNCHANGED <<port, pending, op, asked>>
    \/ /\ call.how = "end"
       /\ runs' = [d \in DOMAIN runs |-> IF d = call.of THEN [runs[d] EXCEPT !.running = FALSE]
                                         ELSE runs[d]]
       /\ UNCHANGED <<port, pending, op, asked>>

\* run(): the queue first, ...
Drain ==
    /\ At("drain") /\ mCallbacks # <<>>
    /\ mCallbacks' = Tail(mCallbacks)
    /\ Invoke(Head(mCallbacks))
    /\ UNCHANGED <<mEntries, posted>>

\* ... then, unless it is to end, ...
Return ==
    /\ At("drain") /\ mCallbacks = <<>> /\ ~Inner.running
    /\ runs' = SubSeq(runs, 1, Len(runs) - 1)
    /\ UNCHANGED <<port, pending, mEntries, mCallbacks, op, asked, posted>>

Goes(place) == runs' = [runs EXCEPT ![Len(runs)].at = place]

\* Mutant: the entries left by an outer run() are overwritten.
TakeAlways ==
    /\ At("drain") /\ mCallbacks = <<>> /\ Inner.running
    /\ port # <<>>
    /\ \E n \in 1..Batch :
           /\ n <= Len(port)
           /\ mEntries' = SubSeq(port, 1, n) /\ port' = SubSeq(port, n + 1, Len(port))
    /\ Goes("dispatch")
    /\ UNCHANGED <<pending, mCallbacks, op, asked, posted>>

\* ... processCompletion: the port, when no entry is left from before, ...  How long it
\* waits for one, which without a timer object is till the first timepoint of before the
\* callbacks (io_context.cpp:108-116), is left out.
TakeEntries ==
    /\ At("drain") /\ mCallbacks = <<>> /\ Inner.running
    /\ IF mEntries # <<>> THEN UNCHANGED <<port, mEntries>>
       ELSE /\ port # <<>>
            /\ \E n \in 1..Batch :
                   /\ n <= Len(port)
                   /\ mEntries' = SubSeq(port, 1, n) /\ port' = SubSeq(port, n + 1, Len(port))
    /\ Goes("dispatch")
    /\ UNCHANGED <<pending, mCallbacks, op, asked, posted>>

\* completeCallback: stopped when it was aborted for that, or resumed.
Complete(o, how) ==
    /\ op' = [op EXCEPT ![o] = IF how = "aborted" /\ o \in asked THEN "stopped" ELSE "resumed"]
    /\ UNCHANGED <<port, pending, runs, asked>>

\* ... and all of them are dispatched, the index moved on before the call.
Dispatch ==
    /\ At("dispatch") /\ mEntries # <<>>
    /\ mEntries' = Tail(mEntries)
    /\ LET e == Head(mEntries)
       IN  IF e.kind = "callback" THEN Invoke(e) ELSE Complete(e.of, e.how)
    /\ UNCHANGED <<mCallbacks, posted>>

Dispatched ==
    /\ At("dispatch") /\ mEntries = <<>>
    /\ Goes("drain")
    /\ UNCHANGED <<port, pending, mEntries, mCallbacks, op, asked, posted>>

\* The system completes an operation; one that was cancelled may be aborted.
Finish(o, how) ==
    /\ o \in pending
    /\ how = "aborted" => o \in asked \ Packets
    /\ pending' = pending \ {o}
    /\ port' = Append(port, Done(o, how))
    /\ UNCHANGED <<mEntries, mCallbacks, runs, op, asked, posted>>

Loop == Drain \/ Return \/ TakeEntries \/ Dispatch \/ Dispatched
Finishes == \E o \in Ops : \E how \in {"ok", "aborted"} : Finish(o, how)

Next == (\E call \in Calls : Post(call)) \/ Loop \/ Finishes

\* What goes on by itself; an operation completes in the end, as most do.
Progress == Loop \/ Finishes

-----------------------------------------------------------------------------
(* An operation is with the system, in the port or among the entries that  *)
(* were taken, in one place and once, exactly while its coroutine is       *)
(* suspended: no entry is left behind by a nested run() or a batch, and    *)
(* none points at an awaiter that is gone (io_context.cpp:165-200).        *)
EntriesOutlive ==
    \A o \in Ops :
        LET entries == mEntries \o port
            of == {i \in DOMAIN entries : entries[i].kind = "overlapped" /\ entries[i].of = o}
        IN  /\ op[o] = "suspended" <=> o \in pending \/ of # {}
            /\ o \in pending => of = {}
            /\ \A i, j \in of : i = j
            /\ op[o] = "stopped" => o \in asked

\* What the theorem about the port needs: the types, ...
Callbacks ==
    {Call("request", o) : o \in Ops} \cup {Call("nest", d) : d \in {2} \cup 1..Depth} \cup
    {Call("end", d) : d \in 1..Depth}
Entries == Callbacks \cup {Done(o, "ok") : o \in Ops} \cup {Done(o, "aborted") : o \in Ops \ Packets}

TypeOK ==
    /\ port \in Seq(Entries) /\ mEntries \in Seq(Entries)
    /\ mCallbacks \in Seq(Callbacks \cup {Call("start", o) : o \in Ops})
    /\ pending \subseteq Ops /\ asked \subseteq Ops
    /\ op \in [Ops -> {"new", "suspended", "resumed", "stopped"}]

\* ... and that a coroutine starts once.
StartsOnce ==
    \A o \in Ops : \A i \in DOMAIN mCallbacks :
        mCallbacks[i] = Call("start", o) =>
            /\ op[o] = "new"
            /\ \A j \in DOMAIN mCallbacks : mCallbacks[j] = Call("start", o) => i = j

Waiting ==
    /\ runs # <<>> /\ \A d \in DOMAIN runs : runs[d].running
    /\ \E o \in Ops : op[o] = "suspended"
=============================================================================
