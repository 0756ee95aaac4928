------------------------------ MODULE BufWriter ------------------------------
(***************************************************************************)
(* BufWriter (io/stream.hpp:489-576) over a stream that writes short,      *)
(* writes nothing, fails and can be stopped, with writeAll (io/ext.hpp)    *)
(* over it.  A byte is its place among those the caller writes.            *)
(***************************************************************************)
EXTENDS StreamBuffer, FiniteSets

CONSTANTS
    Sent,      \* how many bytes the caller writes
    Cap,       \* the capacity of the buffer
    Sizes      \* the sizes of its buffers

VARIABLES
    sink,      \* the last byte the wrapped stream has
    out,       \* mBuffer
    given,     \* the last byte the caller was told is written
    op,        \* what the coroutine awaits, and the bytes it still has
    told,      \* what the last operation returned
    crashed    \* the program is gone

vars == <<sink, out, given, op, told, crashed>>

Idle == [kind |-> "none", left |-> 0]

Init ==
    /\ sink = 0 /\ given = 0
    /\ out = Cleared
    /\ op = Idle /\ told = "nothing" /\ crashed = FALSE

Call(kind, n) == [kind |-> kind, left |-> n]

Starts ==
    {Call(k, n) : k \in {"write", "writeAll"}, n \in {s \in Sizes : given + s <= Sent}}
    \cup {Call(k, 0) : k \in {"flush", "shutdown", "seek"}}

Begin ==
    /\ op = Idle /\ ~crashed
    /\ op' \in Starts
    /\ told' = "nothing"
    /\ UNCHANGED <<sink, out, given, crashed>>

Return(what) == op' = Idle /\ told' = what

Writes == op.kind \in {"write", "writeAll"} /\ ~crashed

\* n bytes of the caller's were written: writeAll goes on with the rest.
Wrote(n) ==
    /\ given' = given + n
    /\ IF op.kind = "writeAll" /\ op.left > n
       THEN op' = [op EXCEPT !.left = @ - n] /\ UNCHANGED told
       ELSE Return("bytes")

Large == op.left >= Cap \div 2
NoRoom == Cap - Len(out.data) < op.left

\* flush() writes out the buffer before a large write, when there is no room,
\* and where it was called.
Flushes ==
    /\ ~crashed /\ out.data # <<>>
    /\ \/ Writes /\ (Large \/ NoRoom)
       \/ op.kind \in {"flush", "shutdown", "seek"}

\* A step of flush(): what the stream took is consumed.
FlushSome ==
    /\ Flushes
    /\ \E n \in 1..Len(out.data) :
           /\ out' = Consume(out, n)
           /\ sink' = out.data[n]
    /\ UNCHANGED <<given, op, told, crashed>>

\* The stream took nothing, failed, or the task was stopped there.
FlushFails ==
    /\ Flushes
    /\ \E what \in {"writeZero", "error"} : Return(what)
    /\ UNCHANGED <<sink, out, given, crashed>>

\* Mutant: a large buffer does not wait for the flush.
WriteDirectlyFirst ==
    /\ Writes /\ Large
    /\ \E n \in 1..op.left : sink' = given + n /\ Wrote(n)
    /\ UNCHANGED <<out, crashed>>

\* A large buffer is written directly.
WriteDirectly ==
    /\ Writes /\ Large /\ ~Flushes
    /\ \E n \in 1..op.left : sink' = given + n /\ Wrote(n)
    /\ UNCHANGED <<out, crashed>>

DirectFails ==
    /\ Writes /\ Large /\ ~Flushes
    /\ \E what \in {"writeZero", "error"} : Return(what)
    /\ UNCHANGED <<sink, out, given, crashed>>

Bytes(n) == [i \in 1..n |-> given + i]

\* A small one is copied into the window that prepare() gives: when it gives
\* none, the copy goes to a null pointer.
CopyIn ==
    /\ Writes /\ ~Large /\ ~Flushes
    /\ UNCHANGED sink
    /\ IF Gives(out, op.left, Cap)
       THEN /\ out' = Commit(Prepared(out, op.left, Cap), Bytes(op.left))
            /\ Wrote(op.left)
            /\ UNCHANGED crashed
       ELSE crashed' = TRUE /\ UNCHANGED <<out, given, op, told>>

\* The flush, shutdown or seek of the stream itself, when all is written.
Forward ==
    /\ op.kind \in {"flush", "shutdown", "seek"} /\ ~Flushes /\ ~crashed
    /\ \E what \in {"done", "error"} : Return(what)
    /\ UNCHANGED <<sink, out, given, crashed>>

\* The caller writes into the buffer itself: prepare and commit.
PrepareCommit ==
    /\ op = Idle /\ ~crashed
    /\ \E n \in {s \in Sizes : given + s <= Sent} :
           /\ Gives(out, n, Cap)
           /\ \E k \in 1..n :
                  /\ out' = Commit(Prepared(out, n, Cap), Bytes(k))
                  /\ given' = given + k
    /\ told' = "nothing"
    /\ UNCHANGED <<sink, op, crashed>>

Next ==
    \/ Begin \/ FlushSome \/ FlushFails \/ WriteDirectly \/ DirectFails
    \/ CopyIn \/ Forward \/ PrepareCommit

-----------------------------------------------------------------------------
(* What the caller was told is written has reached the stream or is in the *)
(* buffer, once and in order, whichever write of a flush fails: a caller   *)
(* that writes what was refused again repeats nothing.  After a flush, a   *)
(* shutdown or a seek the stream has all of it.                            *)
InOrder ==
    /\ out.data = [i \in 1..Len(out.data) |-> sink + i]
    /\ given = sink + Len(out.data)
    /\ TailOf(out) <= out.size /\ out.size <= Cap
    /\ told = "done" => out.data = <<>>
=============================================================================
