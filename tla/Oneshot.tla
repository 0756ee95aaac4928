------------------------------- MODULE Oneshot -------------------------------
(***************************************************************************)
(* A oneshot channel (sync/oneshot.hpp): one value from a sender's thread  *)
(* to a receiver that awaits it, blocks for it or tries.  The channel has  *)
(* a lock (FutexMutex), held for the length of one action here; what runs  *)
(* without it is an action of its own.  The last of the two ends to let go *)
(* deletes the channel (sync/detail/channel_core.hpp).                     *)
(***************************************************************************)
EXTENDS Naturals

VARIABLES
    value,        \* "none", "set", or "got": moved out by the receiver
    senderClose,
    receiverClose,
    receiver,     \* the coroutine handle in the channel is set
    finally,      \* what a blocking receiver waits for
    refCount,     \* ends that have not let go
    sender,       \* the sender's thread: "open", "closing", "gone"
    sent,         \* what the sender was told: "nothing", "ok", "refused"
    recv,         \* where the receiver is
    scheduled,    \* the executor has its resumption
    result,       \* what it has: "none", "value", "closed", "stopped"
    asked         \* its stop was requested

chan == <<value, senderClose, receiverClose, receiver, finally, refCount>>
vars == <<chan, sender, sent, recv, scheduled, result, asked>>

Init ==
    /\ value = "none" /\ senderClose = FALSE /\ receiverClose = FALSE
    /\ receiver = FALSE /\ finally = FALSE /\ refCount = 2
    /\ sender = "open" /\ sent = "nothing"
    /\ recv = "open" /\ scheduled = FALSE /\ result = "none" /\ asked \in BOOLEAN

Deleted == refCount = 0

\* Mutant: the handle stays in the channel.
NotifyKeepsHandle ==
    /\ scheduled' = (scheduled \/ receiver)
    /\ finally' = TRUE
    /\ UNCHANGED receiver

\* Channel::notify: schedule the receiver and forget its handle.
Notify ==
    /\ scheduled' = (scheduled \/ receiver)
    /\ receiver' = FALSE
    /\ finally' = TRUE

\* Sender::send, once or more.
Send ==
    /\ sender = "open"
    /\ UNCHANGED <<senderClose, receiverClose, refCount, sender, recv, result, asked>>
    /\ IF value # "none" \/ receiverClose
       THEN /\ sent' = IF sent = "nothing" THEN "refused" ELSE sent
            /\ UNCHANGED <<value, receiver, finally, scheduled>>
       ELSE value' = "set" /\ sent' = "ok" /\ Notify

\* The sender is closed or dropped: onSenderClose, ...
OnSenderClose ==
    /\ sender = "open"
    /\ sender' = "closing"
    /\ senderClose' = TRUE
    /\ Notify
    /\ UNCHANGED <<value, receiverClose, refCount, sent, recv, result, asked>>

\* ... then onDeref, by either end; who is last deletes the channel.
SenderDeref ==
    /\ sender = "closing"
    /\ sender' = "gone"
    /\ refCount' = refCount - 1
    /\ UNCHANGED <<value, senderClose, receiverClose, receiver, finally,
                   sent, recv, scheduled, result, asked>>

\* The value, or nullopt when the sender is closed, leaves with the lock
\* held; the receiver's end closes after it.
Take ==
    /\ value' = IF value = "set" THEN "got" ELSE value
    /\ result' = IF value = "set" THEN "value" ELSE "closed"
    /\ recv' = "leaving"
    /\ scheduled' = FALSE
    /\ UNCHANGED <<senderClose, receiverClose, receiver, finally, refCount,
                   sender, sent, asked>>

Ready == value # "none" \/ senderClose

\* RecvAwaiter: locked from its construction to await_resume or to the end
\* of await_suspend's first part, ...
Recv ==
    /\ recv = "open"
    /\ IF Ready THEN Take
       ELSE /\ receiver' = TRUE
            /\ recv' = "parking"
            /\ UNCHANGED <<value, senderClose, receiverClose, finally, refCount,
                           sender, sent, scheduled, result, asked>>

\* onStopRequested, on the executor's thread: who takes the handle out of
\* the channel decides.
OnStopRequested ==
    /\ asked' = TRUE
    /\ receiver' = FALSE
    /\ recv' = IF receiver THEN "leaving" ELSE "suspended"
    /\ result' = IF receiver THEN "stopped" ELSE result
    /\ UNCHANGED <<value, senderClose, receiverClose, finally, refCount,
                   sender, sent, scheduled>>

\* ... which registers the stop callback without the lock; by then the
\* sender may have scheduled the receiver.
Register ==
    /\ recv = "parking"
    /\ IF asked THEN OnStopRequested
       ELSE recv' = "suspended" /\ UNCHANGED <<chan, sender, sent, scheduled, result, asked>>

Stop == recv = "suspended" /\ ~asked /\ OnStopRequested

Resume == recv = "suspended" /\ scheduled /\ Take

\* blockingRecv, past finally.wait(false).
BlockingRecv == recv = "open" /\ finally /\ Take

\* tryRecv keeps the receiver unless there is a value.
TryRecv == recv = "open" /\ value = "set" /\ Take

\* The receiver's end is dropped, after a receive or without one.
OnReceiverClose ==
    /\ recv \in {"open", "leaving"}
    /\ recv' = "closing"
    /\ receiverClose' = TRUE
    /\ UNCHANGED <<value, senderClose, receiver, finally, refCount,
                   sender, sent, scheduled, result, asked>>

ReceiverDeref ==
    /\ recv = "closing"
    /\ recv' = "gone"
    /\ refCount' = refCount - 1
    /\ UNCHANGED <<value, senderClose, receiverClose, receiver, finally,
                   sender, sent, scheduled, result, asked>>

Next ==
    \/ Send \/ OnSenderClose \/ SenderDeref
    \/ Recv \/ Register \/ Stop \/ Resume \/ BlockingRecv \/ TryRecv
    \/ OnReceiverClose \/ ReceiverDeref

\* What goes on by itself: the receiver once it receives.
Progress == Register \/ Resume

-----------------------------------------------------------------------------
(* A value that was sent reaches a receiver that waits, nullopt means that *)
(* nothing was sent, and a receiver is scheduled or stopped, not both.     *)
(* The channel has the handle of a receiver that still waits, and is       *)
(* deleted when both ends have let go (oneshot.hpp:99-131).                *)
Delivered ==
    /\ result = "value" => sent = "ok"
    /\ result = "closed" => sent # "ok" /\ senderClose
    /\ recv \in {"parking", "suspended"} => (receiver <=> ~Ready) /\ (scheduled <=> Ready)
    /\ recv \notin {"parking", "suspended"} => ~receiver /\ ~scheduled
    /\ result = "stopped" => asked
    /\ Deleted => sender = "gone" /\ recv = "gone"

\* What the theorem about the channel needs: the types, ...
TypeOK ==
    /\ value \in {"none", "set", "got"}
    /\ senderClose \in BOOLEAN /\ receiverClose \in BOOLEAN
    /\ receiver \in BOOLEAN /\ finally \in BOOLEAN /\ refCount \in 0..2
    /\ sender \in {"open", "closing", "gone"}
    /\ sent \in {"nothing", "ok", "refused"}
    /\ recv \in {"open", "parking", "suspended", "leaving", "closing", "gone"}
    /\ scheduled \in BOOLEAN /\ asked \in BOOLEAN
    /\ result \in {"none", "value", "closed", "stopped"}

\* ... and what each end has done.
EndsKnown ==
    /\ refCount = (IF sender = "gone" THEN 0 ELSE 1) + (IF recv = "gone" THEN 0 ELSE 1)
    /\ senderClose <=> sender # "open"
    /\ receiverClose <=> recv \in {"closing", "gone"}
    /\ sent = "ok" <=> value # "none"
    /\ value = "got" <=> result = "value"
    /\ recv \in {"open", "parking", "suspended"} => result = "none"
    /\ finally <=> Ready

(* A receiver that waits is answered when there is a value, when the       *)
(* sender is gone and when it is asked to stop.                            *)
Waiting == recv \in {"parking", "suspended"} /\ (Ready \/ asked)
=============================================================================
