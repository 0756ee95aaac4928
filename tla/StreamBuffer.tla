----------------------------- MODULE StreamBuffer -----------------------------
(***************************************************************************)
(* StreamBuffer and FixedStreamBuffer (io/stream.hpp): an input window,    *)
(* that is read from the front, followed by an output window, that is      *)
(* written and then committed.  A buffer is a record: data is the input    *)
(* window, pos where it starts (mPos), size the bytes allocated.           *)
(***************************************************************************)
EXTENDS Naturals, Sequences, FiniteSetsExt

Cleared == [data |-> <<>>, pos |-> 0, size |-> 0]

TailOf(b) == b.pos + Len(b.data)

\* An empty input window, or a small one, is moved to the front.
Slide(b) ==
    IF b.data = <<>> \/ Len(b.data) < b.size \div 8 THEN [b EXCEPT !.pos = 0] ELSE b

\* What a buffer of at most max bytes grows to for n more.
GrownTo(b, n, max) ==
    IF b.size - TailOf(b) < n THEN Min({(b.size + n) * 2, max}) ELSE b.size

\* StreamBuffer::prepare: whether n bytes are given, and the buffer after it.
Gives(b, n, max) ==
    LET s == Slide(b)
    IN  Len(s.data) + n <= max /\ GrownTo(s, n, max) - TailOf(s) >= n

Prepared(b, n, max) ==
    LET s == Slide(b)
    IN  IF Gives(b, n, max) THEN [s EXCEPT !.size = GrownTo(s, n, max)] ELSE s

\* FixedStreamBuffer::prepare, whose size is n and stays: it also moves the
\* window when the space after it is too small.
FixedPrepared(b, n) ==
    LET s == Slide(b)
    IN  IF b.size - TailOf(s) < n THEN [s EXCEPT !.pos = 0] ELSE s

FixedGives(b, n) == b.size - TailOf(FixedPrepared(b, n)) >= n

Commit(b, bytes) == [b EXCEPT !.data = @ \o bytes]

Consume(b, n) ==
    [b EXCEPT !.data = SubSeq(@, n + 1, Len(@)), !.pos = @ + n]
=============================================================================
