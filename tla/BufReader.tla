------------------------------ MODULE BufReader ------------------------------
(***************************************************************************)
(* BufReader (io/stream.hpp:374-481) over a stream that reads short, ends, *)
(* fails and can be stopped, and the loops of io/ext.hpp over it: readAll, *)
(* readToEnd, copy and readline.  A byte is its place in the stream.       *)
(***************************************************************************)
EXTENDS StreamBuffer, FiniteSets

CONSTANTS
    Source,     \* how many bytes the stream has
    Cap,        \* the capacity of the buffer
    Sizes,      \* the sizes of the reader's own buffers
    Chunk,      \* by what readToEnd makes its container larger: 1024
    CopySize,   \* the buffer of copy: 8192
    Delims,     \* where in the stream a delimiter starts ...
    DelimSize   \* ... and its length

VARIABLES
    next,       \* the byte the wrapped stream reads next
    in,         \* mBuffer
    op,         \* what the coroutine awaits: its kind, the bytes still to
                \* read, the bytes it has, and whether fill() has read
    told,       \* what the last operation returned
    at          \* the byte the caller is to get next

vars == <<next, in, op, told, at>>

Idle == [kind |-> "none", left |-> 0, got |-> 0, filled |-> FALSE]

Init ==
    /\ next = 1 /\ at = 1
    /\ in = Cleared
    /\ op = Idle /\ told = "nothing"

Call(kind, n) == [Idle EXCEPT !.kind = kind, !.left = n]

Starts ==
    {Call(k, n) : k \in {"read", "readAll"}, n \in Sizes} \cup {Call("readToEnd", Chunk), Call("copy", CopySize)}
    \cup {Call(k, 0) : k \in {"fill", "fillMore", "readline"}}

Begin ==
    /\ op.kind = "none"
    /\ op' \in Starts
    /\ told' = "nothing"
    /\ UNCHANGED <<next, in, at>>

Return(what) == op' = Idle /\ told' = what

Awaits(kinds) == op.kind \in kinds
Loops == {"readAll", "readToEnd", "copy"}

\* How many bytes a read of n returns: none at the end or into no space.
ReadCounts(n) ==
    LET most == Min({n, Source + 1 - next}) IN IF most = 0 THEN {0} ELSE 1..most

Bytes(k) == [i \in 1..k |-> next + i - 1]

\* How much a loop asks for after it got n bytes: copy has written them all to
\* its destination.
Further(n) ==
    CASE op.kind = "readAll"   -> op.left - n
      [] op.kind = "readToEnd" -> IF op.left = n THEN Chunk ELSE op.left - n
      [] op.kind = "copy"      -> CopySize

\* n bytes went to the caller of read(): a loop goes on.
Got(n) ==
    /\ at' = at + n
    /\ IF Awaits(Loops) /\ Further(n) > 0
       THEN op' = [op EXCEPT !.left = Further(n), !.got = @ + n, !.filled = FALSE] /\ UNCHANGED told
       ELSE Return("bytes")

\* The stream, or the buffer after a fill, had nothing.
AtEnd ==
    IF Awaits({"readAll"}) THEN Return("unexpectedEOF")
    ELSE IF Awaits({"readline"}) /\ op.got = 0 THEN Return("unexpectedEOF")
    ELSE IF Awaits({"readline"}) THEN Return("lastLine")
    ELSE Return("eof")

Direct ==
    /\ Awaits({"read"} \cup Loops) /\ ~op.filled
    /\ in.data = <<>> /\ op.left >= Cap \div 2

\* A large buffer is read into directly.
ReadDirectly ==
    /\ Direct
    /\ UNCHANGED in
    /\ \E k \in ReadCounts(op.left) :
           /\ next' = next + k
           /\ IF k = 0 THEN AtEnd /\ UNCHANGED at ELSE Got(k)

\* fill() reads the stream when the buffer is empty or more is asked for.
Fills ==
    /\ op.kind # "none" /\ ~Direct /\ ~op.filled
    /\ in.data = <<>> \/ Awaits({"fillMore"})

Room == Cap - Len(in.data)

FillFull ==
    /\ Fills /\ Room = 0
    /\ Return("noBufferSpace")
    /\ UNCHANGED <<next, in, at>>

\* Mutant: what is read replaces the input window.
FillOver ==
    /\ Fills /\ Room > 0
    /\ \E k \in ReadCounts(IF Gives(in, Room, Cap) THEN Room ELSE 0) :
           /\ next' = next + k
           /\ in' = Commit([Prepared(in, Room, Cap) EXCEPT !.data = <<>>], Bytes(k))
           /\ IF k = 0 /\ Awaits({"fillMore"}) THEN Return("unexpectedEOF")
              ELSE op' = [op EXCEPT !.filled = TRUE] /\ UNCHANGED told
    /\ UNCHANGED at

Fill ==
    /\ Fills /\ Room > 0
    /\ \E k \in ReadCounts(IF Gives(in, Room, Cap) THEN Room ELSE 0) :
           /\ next' = next + k
           /\ in' = Commit(Prepared(in, Room, Cap), Bytes(k))
           /\ IF k = 0 /\ Awaits({"fillMore"}) THEN Return("unexpectedEOF")
              ELSE op' = [op EXCEPT !.filled = TRUE] /\ UNCHANGED told
    /\ UNCHANGED at

\* The stream fails or the task is stopped there.
ReadFails ==
    /\ Direct \/ (Fills /\ Room > 0)
    /\ Return("error")
    /\ in' = IF Direct THEN in ELSE Prepared(in, Room, Cap)
    /\ UNCHANGED <<next, at>>

\* What fill() returned is used.
Filled == op.kind # "none" /\ ~Direct /\ ~Fills

Empty ==
    /\ Filled /\ in.data = <<>>
    /\ AtEnd
    /\ UNCHANGED <<next, in, at>>

CopyOut ==
    /\ Filled /\ in.data # <<>> /\ Awaits({"read"} \cup Loops)
    /\ LET n == Min({op.left, Len(in.data)})
       IN  in' = Consume(in, n) /\ Got(n)
    /\ UNCHANGED next

View ==
    /\ Filled /\ in.data # <<>> /\ Awaits({"fill", "fillMore"})
    /\ Return("view")
    /\ UNCHANGED <<next, in, at>>

\* readline: the view up to the first delimiter that is all in it, or all of
\* the view.
Found == {d \in Delims : d >= at /\ d + DelimSize <= at + Len(in.data)}

ReadLine ==
    /\ Filled /\ in.data # <<>> /\ Awaits({"readline"})
    /\ LET n == IF Found = {} THEN Len(in.data) ELSE Min(Found) + DelimSize - at
       IN  /\ in' = Consume(in, n)
           /\ at' = at + n
           /\ IF Found # {}
              THEN told' = "line" /\ op' = [Idle EXCEPT !.got = op.got + n]
              ELSE op' = [op EXCEPT !.got = @ + n, !.filled = FALSE] /\ UNCHANGED told
    /\ UNCHANGED next

\* The caller, with a view.
ConsumeSome ==
    /\ op.kind = "none" /\ told = "view"
    /\ \E n \in 1..Len(in.data) : in' = Consume(in, n) /\ at' = at + n
    /\ told' = "nothing"
    /\ UNCHANGED <<next, op>>

\* seek, and tell and rewind with it: what is buffered is gone, even when the
\* stream then fails, and reading goes on where the stream is.
Seek ==
    /\ op.kind = "none"
    /\ in' = Cleared
    /\ next' \in {1, next, Source + 1}
    /\ at' = next'
    /\ told' = "nothing"
    /\ UNCHANGED op

Next ==
    \/ Begin \/ ReadDirectly \/ FillFull \/ Fill \/ ReadFails
    \/ Empty \/ CopyOut \/ View \/ ReadLine \/ ConsumeSome \/ Seek

-----------------------------------------------------------------------------
(* No byte is lost, repeated or out of place, whatever the sizes of the    *)
(* reads and wherever one fails: the input window is what lies between the *)
(* caller and the wrapped stream, and fits into the buffer.  Who is told   *)
(* of the end is there.                                                    *)
InOrder ==
    /\ in.data = [i \in 1..Len(in.data) |-> at + i - 1]
    /\ next = at + Len(in.data)
    /\ TailOf(in) <= in.size /\ in.size <= Cap
    /\ told = "eof" => at = Source + 1

(* A line ends with the first delimiter after its start (ext.hpp:204-210). *)
LineEnds ==
    told = "line" =>
        {d \in Delims : d >= at - op.got /\ d + DelimSize <= at} = {at - DelimSize}
=============================================================================
