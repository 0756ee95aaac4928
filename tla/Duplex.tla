-------------------------------- MODULE Duplex --------------------------------
(***************************************************************************)
(* A direction of a DuplexStream (io.cpp:251-420): a ByteChannel between   *)
(* the writer of one end and the reader of the other, on executors of      *)
(* their own.  The mutex is held for the length of one action; what runs   *)
(* without it is an action of its own.  The other direction is the same    *)
(* with the ends exchanged, and meets this one in shutdown and close only. *)
(* A byte is its place among those written.                                *)
(***************************************************************************)
EXTENDS Naturals, Sequences, FiniteSetsExt

CONSTANTS
    MaxSize,     \* of the channel
    Sent,        \* how many bytes are written
    Sizes        \* the sizes of the buffers, 0 too

Side  == {"reader", "writer"}
Other(s) == IF s = "reader" THEN "writer" ELSE "reader"

VARIABLES
    buffer,
    handle,     \* the sides whose handle is in the channel
    closed,     \* readerClose and writerClose
    at,         \* where each side is: "idle", "parking", "suspended", "gone"
    size,       \* of the buffer it brought
    scheduled,  \* the sides whose executor has their resumption
    asked,      \* the sides whose stop was requested
    told,       \* what its last operation returned
    count,      \* how many bytes it has written, or read
    empties,    \* the sides that once brought a buffer of no bytes
    ref         \* the ends that have not closed

vars == <<buffer, handle, closed, at, size, scheduled, asked, told, count, empties, ref>>

Init ==
    /\ buffer = <<>> /\ handle = {} /\ closed = {}
    /\ at = [s \in Side |-> "idle"] /\ size = [s \in Side |-> 0]
    /\ scheduled = {} /\ asked = {} /\ empties = {}
    /\ told = [s \in Side |-> "nothing"] /\ count = [s \in Side |-> 0]
    /\ ref = 2

\* await_ready, with the mutex since the awaiter was made.
Ready(s) ==
    \/ Other(s) \in closed
    \/ IF s = "reader" THEN buffer # <<>> ELSE Len(buffer) < MaxSize

Ended(s, what) ==
    /\ at' = [at EXCEPT ![s] = "idle"]
    /\ told' = [told EXCEPT ![s] = what]

WakeupIf(s) ==
    /\ handle' = handle \ {s}
    /\ scheduled' = (scheduled \cup ({s} \cap handle))

\* await_resume of read and write, with buffers of n bytes: both take or put
\* what there is, and wake up the other side.
ReadBytes(n) ==
    LET k == Min({n, Len(buffer)})
    IN  /\ buffer' = SubSeq(buffer, k + 1, Len(buffer))
        /\ count' = [count EXCEPT !["reader"] = @ + k]
        /\ Ended("reader", IF k = 0 THEN "zero" ELSE "bytes")

WriteBytes(n) ==
    LET k == Min({n, MaxSize - Len(buffer)})
    IN  /\ buffer' = buffer \o [i \in 1..k |-> count["writer"] + i]
        /\ count' = [count EXCEPT !["writer"] = @ + k]
        /\ Ended("writer", IF k = 0 THEN "zero" ELSE "bytes")

\* The side's handle is no longer with its executor.
Awake(s) == scheduled' = scheduled \ {s}

\* Mutant: a reader that leaves bytes behind does not wake up the writer.
TransferWakesSometimes(s, n) ==
    IF s = "writer" /\ "reader" \in closed
    THEN Ended(s, "zero") /\ Awake(s) /\ UNCHANGED <<buffer, handle, count>>
    ELSE /\ IF s = "reader" THEN ReadBytes(n) ELSE WriteBytes(n)
         /\ LET w == IF s = "reader" /\ n < Len(buffer) THEN {} ELSE {Other(s)}
            IN  /\ handle' = handle \ w
                /\ scheduled' = (scheduled \ {s}) \cup (w \cap handle)

Transfer(s, n) ==
    IF s = "writer" /\ "reader" \in closed
    THEN Ended(s, "zero") /\ Awake(s) /\ UNCHANGED <<buffer, handle, count>>
    ELSE /\ IF s = "reader" THEN ReadBytes(n) ELSE WriteBytes(n)
         /\ handle' = handle \ {Other(s)}
         /\ scheduled' = (scheduled \ {s}) \cup ({Other(s)} \cap handle)

\* A new read or write; its task may be stopped already.
Start(s) ==
    /\ at[s] = "idle" /\ s \notin asked
    /\ \E n \in Sizes :
           /\ s = "writer" => count["writer"] + n <= Sent
           /\ size' = [size EXCEPT ![s] = n]
           /\ empties' = IF n = 0 THEN empties \cup {s} ELSE empties
           /\ IF Ready(s) THEN Transfer(s, n)
              ELSE /\ handle' = handle \cup {s}
                   /\ at' = [at EXCEPT ![s] = "parking"]
                   /\ UNCHANGED <<buffer, scheduled, told, count>>
    /\ UNCHANGED <<closed, asked, ref>>

\* onStopRequested, on the side's executor: who takes the handle out of the
\* channel decides.
OnStopRequested(s) ==
    /\ asked' = asked \cup {s}
    /\ handle' = handle \ {s}
    /\ IF s \in handle THEN Ended(s, "stopped")
       ELSE at' = [at EXCEPT ![s] = "suspended"] /\ UNCHANGED told
    /\ UNCHANGED <<buffer, closed, size, scheduled, count, empties, ref>>

\* await_suspend registers the stop without the mutex: the other side may
\* have scheduled it, and a stop requested before is delivered here.
Register(s) ==
    /\ at[s] = "parking"
    /\ \/ OnStopRequested(s)
       \/ /\ at' = [at EXCEPT ![s] = "suspended"]
          /\ UNCHANGED <<buffer, handle, closed, size, scheduled, asked, told, count, empties, ref>>

Stop(s) == at[s] = "suspended" /\ s \notin asked /\ OnStopRequested(s)

Resume(s) ==
    /\ at[s] = "suspended" /\ s \in scheduled
    /\ Transfer(s, size[s])
    /\ UNCHANGED <<closed, size, asked, empties, ref>>

\* shutdownImpl of the end that s is at, with both mutexes: this direction is
\* closed for s, and the other side wakes up.
Close(s) ==
    /\ closed' = closed \cup {s}
    /\ WakeupIf(Other(s))

Shutdown(s) ==
    /\ s \notin closed
    /\ Close(s)
    /\ UNCHANGED <<buffer, at, size, asked, told, count, empties, ref>>

\* closeImpl, when the end is dropped: the last one deletes the channels.
Drop(s) ==
    /\ at[s] = "idle"
    /\ Close(s)
    /\ at' = [at EXCEPT ![s] = "gone"]
    /\ ref' = ref - 1
    /\ UNCHANGED <<buffer, size, asked, told, count, empties>>

Next == \E s \in Side :
    Start(s) \/ Register(s) \/ Stop(s) \/ Resume(s) \/ Shutdown(s) \/ Drop(s)

\* What goes on by itself: a side that awaits.
Progress == \E s \in Side : Register(s) \/ Resume(s)

-----------------------------------------------------------------------------
(* A side in the channel has nothing to do: no byte or end for the reader, *)
(* no room or end for the writer, whoever wrote, read, shut down or was    *)
(* stopped; a side that waits and is not in it is scheduled, once.  The    *)
(* channel holds the bytes in the order of writing and no more than        *)
(* MaxSize; zero, the end, is told of a closed channel only, unless        *)
(* someone brought an empty buffer (io.cpp:299-412).                       *)
NoWakeupLost ==
    /\ \A s \in handle : ~Ready(s) /\ at[s] \in {"parking", "suspended"}
    /\ \A s \in Side : at[s] = "suspended" => (s \in handle) # (s \in scheduled)
    /\ \A s \in scheduled : at[s] \in {"parking", "suspended"}
    /\ buffer = [i \in 1..Len(buffer) |-> count["reader"] + i]
    /\ count["writer"] = count["reader"] + Len(buffer) /\ Len(buffer) <= MaxSize
    /\ \A s \in Side : told[s] = "zero" => Other(s) \in closed \/ empties # {}
    /\ ref = (IF at["reader"] = "gone" THEN 0 ELSE 1) + (IF at["writer"] = "gone" THEN 0 ELSE 1)

\* What the theorem about the stream needs: the types, ...
TypeOK ==
    /\ buffer \in Seq(Nat) /\ handle \subseteq Side /\ closed \subseteq Side
    /\ at \in [Side -> {"idle", "parking", "suspended", "gone"}]
    /\ size \in [Side -> Nat] /\ scheduled \subseteq Side /\ asked \subseteq Side
    /\ told \in [Side -> {"nothing", "bytes", "zero", "stopped"}]
    /\ count \in [Side -> Nat] /\ empties \subseteq Side

\* ... and why a side is scheduled.
WakeupKnown ==
    /\ \A s \in Side : at[s] = "parking" => (s \in handle) # (s \in scheduled)
    /\ \A s \in Side : at[s] \in {"parking", "suspended"} /\ size[s] = 0 => s \in empties
    /\ \A s \in scheduled : Ready(s) \/ empties # {}

(* Who could go on.                                                        *)
Waiting == \E s \in Side : at[s] \in {"parking", "suspended"} /\ Ready(s)
=============================================================================
