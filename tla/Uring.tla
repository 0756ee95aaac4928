-------------------------------- MODULE Uring --------------------------------
(***************************************************************************)
(* UringContext (linux/uring.cpp, uring_core.hpp): an executor whose       *)
(* thread sleeps in io_uring_wait_cqe, and the operations its coroutines   *)
(* await.  An operation and its cancellation are submission entries whose  *)
(* user data points into the awaiter; the kernel answers each with a       *)
(* completion entry, in any order.  A post from another thread reaches the *)
(* loop as the completion of a poll of the event fd.                       *)
(***************************************************************************)
EXTENDS Naturals, Sequences, FiniteSets, Functions

CONSTANTS
    Ops,        \* the operations, each awaited once by its own coroutine
    Local,      \* those of coroutines that the loop's own thread posted
    Entries     \* of the submission queue

Main(o)   == <<"main", o>>
Cancel(o) == <<"cancel", o>>
Event == <<<<"event">>, "ready">>
Nop   == <<<<"nop">>, "done">>
Start(o)   == <<"start", o>>
Request(o) == <<"request", o>>
Quit == <<"quit">>

VARIABLES
    sq,         \* the submission queue
    kernel,     \* what the kernel has and has not answered
    cq,         \* the completion queue
    mSqe,       \* the operations whose mSqe is set
    mCancelSqe, \* the operations whose mCancelSqe is set
    mResult,
    op,         \* "new", "suspended", "resumed", "stopped"
    asked,      \* the coroutines whose stop was requested
    mCallbacks,
    mPendingCallbacks,
    posted,     \* what another thread has posted
    writing,    \* the poster has not written to the event fd yet
    quit,       \* run() was asked to stop
    loop        \* "callbacks", "wait", "ended"

ring == <<sq, kernel, cq>>
awaiters == <<mSqe, mCancelSqe, mResult, op, asked>>
posts == <<mCallbacks, mPendingCallbacks, posted, writing>>
vars == <<ring, awaiters, posts, quit, loop>>

Init ==
    /\ sq = {} /\ kernel = {} /\ cq = <<>>
    /\ mSqe = {} /\ mCancelSqe = {}
    /\ mResult = [o \in Ops |-> "none"]
    /\ op = [o \in Ops |-> "new"]
    /\ asked = {}
    /\ mCallbacks \in Injection(1..Cardinality(Local), {Start(o) : o \in Local})
    /\ mPendingCallbacks = <<>> /\ posted = {} /\ writing = FALSE
    /\ quit = FALSE /\ loop = "callbacks"

\* allocSqe for entry e, with the queue and the kernel as in q: a full queue
\* is submitted.
Alloc(e, q) ==
    IF Cardinality(q.sq) < Entries THEN [q EXCEPT !.sq = @ \cup {e}]
    ELSE [sq |-> {e}, kernel |-> q.kernel \cup q.sq]

Now == [sq |-> sq, kernel |-> kernel]
Becomes(q) == sq' = q.sq /\ kernel' = q.kernel

Submit == sq' = {} /\ kernel' = kernel \cup sq

\* post() from another thread: what is posted starts an operation, requests
\* the stop of a coroutine, or the stop of run() on the loop's own thread.
Post(call) ==
    /\ call \notin posted /\ ~writing
    /\ posted' = posted \cup {call}
    /\ mPendingCallbacks' = Append(mPendingCallbacks, call)
    /\ writing' = TRUE
    /\ UNCHANGED <<ring, awaiters, mCallbacks, quit, loop>>

\* Without mMutex: the write, that the multishot poll reports.
WriteEvent ==
    /\ writing
    /\ writing' = FALSE
    /\ cq' = Append(cq, Event)
    /\ UNCHANGED <<sq, kernel, awaiters, mCallbacks, mPendingCallbacks, posted, quit, loop>>

\* onStopRequested, where a coroutine's stop is requested: its operation, if
\* it awaits one, is cancelled.
RequestStop(o) ==
    /\ asked' = asked \cup {o}
    /\ IF o \notin asked /\ op[o] = "suspended"
       THEN mCancelSqe' = mCancelSqe \cup {o} /\ Becomes(Alloc(Cancel(o), Now))
       ELSE UNCHANGED <<sq, kernel, mCancelSqe>>

\* A coroutine awaits an operation: one whose stop was requested before is
\* submitted with its cancellation.
Await(o) ==
    /\ op' = [op EXCEPT ![o] = "suspended"]
    /\ mSqe' = mSqe \cup {o}
    /\ mCancelSqe' = mCancelSqe \cup ({o} \cap asked)
    /\ LET q == Alloc(Main(o), Now)
       IN  Becomes(IF o \in asked THEN Alloc(Cancel(o), q) ELSE q)
    /\ UNCHANGED <<mResult, asked>>

\* run(): all of mCallbacks are called, also after a request to stop.
RunCallback ==
    /\ loop = "callbacks" /\ mCallbacks # <<>>
    /\ mCallbacks' = Tail(mCallbacks)
    /\ LET call == Head(mCallbacks)
       IN  \/ /\ \E o \in Ops : call = Start(o) /\ Await(o)
              /\ UNCHANGED <<cq, quit>>
           \/ /\ \E o \in Ops : call = Request(o) /\ RequestStop(o)
              /\ UNCHANGED <<cq, mSqe, mResult, op, quit>>
           \/ /\ call = Quit
              /\ quit' = TRUE
              /\ sq' = {}
              /\ kernel' = kernel \cup sq
              /\ cq' = Append(cq, Nop)
              /\ UNCHANGED awaiters
    /\ UNCHANGED <<mPendingCallbacks, posted, writing, loop>>

\* Mutant: the queue is submitted only when it is full.
SubmitWhenFull ==
    /\ loop = "callbacks" /\ mCallbacks = <<>>
    /\ IF Cardinality(sq) = Entries THEN Submit ELSE UNCHANGED <<sq, kernel>>
    /\ loop' = IF quit THEN "ended" ELSE "wait"
    /\ UNCHANGED <<cq, awaiters, posts, quit>>

\* Then what was prepared is submitted, and the thread sleeps.
SubmitPending ==
    /\ loop = "callbacks" /\ mCallbacks = <<>>
    /\ Submit
    /\ loop' = IF quit THEN "ended" ELSE "wait"
    /\ UNCHANGED <<cq, awaiters, posts, quit>>

\* onResume: the coroutine is stopped when the operation was cancelled for
\* that, or goes on and may request the stop of others.
OnResume(o) ==
    IF mResult'[o] = "canceled" /\ o \in asked
    THEN /\ op' = [op EXCEPT ![o] = "stopped"]
         /\ UNCHANGED <<sq, kernel, asked>>
    ELSE /\ op' = [op EXCEPT ![o] = "resumed"]
         /\ \/ UNCHANGED <<sq, kernel, asked>>
            \/ \E p \in Ops \ (asked \cup {o}) :
                   /\ asked' = asked \cup {p}
                   /\ Becomes(IF op[p] = "suspended" THEN Alloc(Cancel(p), Now) ELSE Now)

\* Operations whose stop was requested just now have a cancellation too.
Cancelled == {p \in asked' \ asked : op[p] = "suspended"}

Waits == UNCHANGED <<sq, kernel, op, asked>>

\* Mutant: the completion of the operation does not wait for that of its
\* cancellation.
OnCompletionAtOnce(o, result) ==
    /\ mResult' = [mResult EXCEPT ![o] = result]
    /\ mSqe' = mSqe \ {o}
    /\ OnResume(o)
    /\ mCancelSqe' = mCancelSqe \cup Cancelled

\* callback and cancelCallback: the last of the two resumes.
OnCompletion(o, result) ==
    /\ mResult' = [mResult EXCEPT ![o] = result]
    /\ mSqe' = mSqe \ {o}
    /\ IF o \in mCancelSqe THEN Waits ELSE OnResume(o)
    /\ mCancelSqe' = mCancelSqe \cup Cancelled

OnCancelCompletion(o) ==
    /\ UNCHANGED <<mResult, mSqe>>
    /\ IF o \in mSqe THEN Waits ELSE OnResume(o)
    /\ mCancelSqe' = (mCancelSqe \ {o}) \cup Cancelled

\* processCompletion: one entry.  That of the event fd has no user data, and
\* moves what is pending with mMutex.
ProcessCompletion ==
    /\ loop = "wait" /\ cq # <<>>
    /\ cq' = Tail(cq)
    /\ loop' = "callbacks"
    /\ LET entry == Head(cq)
       IN  \/ /\ entry = Event
              /\ mCallbacks' = mCallbacks \o mPendingCallbacks
              /\ mPendingCallbacks' = <<>>
              /\ UNCHANGED <<sq, kernel, awaiters>>
           \/ /\ \/ \E o \in Ops : entry[1] = Cancel(o) /\ OnCancelCompletion(o)
                 \/ \E o \in Ops : entry[1] = Main(o) /\ OnCompletion(o, entry[2])
              /\ UNCHANGED <<mCallbacks, mPendingCallbacks>>
    /\ UNCHANGED <<posted, writing, quit>>

\* The kernel completes an operation, ...
Complete(o) ==
    /\ Main(o) \in kernel
    /\ kernel' = kernel \ {Main(o)}
    /\ cq' = Append(cq, <<Main(o), "done">>)
    /\ UNCHANGED <<sq, awaiters, posts, loop, quit>>

\* ... or cancels it, and reports the two in any order, or finds it done.
CancelHit(o) ==
    /\ {Main(o), Cancel(o)} \subseteq kernel
    /\ kernel' = kernel \ {Main(o), Cancel(o)}
    /\ \/ cq' = cq \o <<<<Main(o), "canceled">>, <<Cancel(o), "done">>>>
       \/ cq' = cq \o <<<<Cancel(o), "done">>, <<Main(o), "canceled">>>>
    /\ UNCHANGED <<sq, awaiters, posts, loop, quit>>

CancelMiss(o) ==
    /\ Cancel(o) \in kernel
    /\ kernel' = kernel \ {Cancel(o)}
    /\ cq' = Append(cq, <<Cancel(o), "already">>)
    /\ UNCHANGED <<sq, awaiters, posts, loop, quit>>

\* What the other thread posts: the other coroutines, and the stop of those.
Calls == {Quit} \cup UNION {{Start(o), Request(o)} : o \in Ops \ Local}

Kernel == \E o \in Ops : CancelHit(o) \/ CancelMiss(o)

Next ==
    \/ \E call \in Calls : Post(call)
    \/ WriteEvent \/ RunCallback \/ SubmitPending \/ ProcessCompletion
    \/ Kernel
    \/ \E o \in Ops : Complete(o)

\* What goes on by itself; an operation completes in the end, as most do.
Progress ==
    \/ WriteEvent \/ RunCallback \/ SubmitPending \/ ProcessCompletion \/ Kernel
    \/ \E o \in Ops : Complete(o)

-----------------------------------------------------------------------------
InRing(e) == e \in sq \cup kernel \/ \E i \in DOMAIN cq : cq[i][1] = e

(* Whatever points into an awaiter, in a queue or in the kernel, does so   *)
(* while its coroutine is suspended, and both of an operation's entries    *)
(* are answered before it goes on (uring_core.hpp:110-136).  While the     *)
(* thread sleeps nothing is prepared and not submitted, and what is        *)
(* pending has a completion that wakes it.                                 *)
AwaiterOutlives ==
    /\ \A o \in Ops :
           /\ InRing(Main(o)) = (o \in mSqe)
           /\ InRing(Cancel(o)) = (o \in mCancelSqe)
           /\ op[o] = "suspended" <=> o \in mSqe \cup mCancelSqe
           /\ op[o] = "stopped" => o \in asked
    /\ loop = "wait" => sq = {} /\ mCallbacks = <<>>
    /\ mPendingCallbacks # <<>> => writing \/ \E i \in DOMAIN cq : cq[i] = Event

\* What the theorem about the ring needs: the types, ...
Entry == {Main(o) : o \in Ops} \cup {Cancel(o) : o \in Ops}
Callback == {Quit} \cup {Start(o) : o \in Ops} \cup {Request(o) : o \in Ops}

TypeOK ==
    /\ mSqe \subseteq Ops /\ mCancelSqe \subseteq asked /\ asked \subseteq Ops
    /\ mResult \in [Ops -> {"none", "done", "canceled", "already"}]
    /\ op \in [Ops -> {"new", "suspended", "resumed", "stopped"}]
    /\ mCallbacks \in Seq(Callback) /\ mPendingCallbacks \in Seq(Callback)
    /\ posted \subseteq Callback
    /\ writing \in BOOLEAN /\ quit \in BOOLEAN /\ loop \in {"callbacks", "wait", "ended"}

\* ... that an entry is in one place and once, and ...
EntriesOnce ==
    /\ sq \subseteq Entry /\ kernel \subseteq Entry /\ sq \cap kernel = {}
    /\ cq \in Seq((Entry \X {"done", "canceled", "already"}) \cup {Event, Nop})
    /\ \A i \in DOMAIN cq : cq[i][1] \notin sq \cup kernel
    /\ \A i, j \in DOMAIN cq : cq[i][1] = cq[j][1] /\ cq[i][1] \in Entry => i = j

\* ... that a coroutine starts once.
StartsOnce ==
    LET calls == mCallbacks \o mPendingCallbacks
    IN  \A o \in Ops :
            /\ o \notin Local /\ Start(o) \notin posted => op[o] = "new"
            /\ \A i \in DOMAIN calls : calls[i] = Start(o) =>
                   /\ op[o] = "new" /\ (o \in Local \/ Start(o) \in posted)
                   /\ \A j \in DOMAIN calls : calls[j] = Start(o) => i = j

(* A coroutine awaits an operation, and the loop runs.                     *)
Waiting == loop # "ended" /\ ~quit /\ \E o \in Ops : op[o] = "suspended"
=============================================================================
