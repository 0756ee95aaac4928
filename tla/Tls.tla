--------------------------------- MODULE Tls ---------------------------------
(***************************************************************************)
(* A TlsStream (tls/tls_basic.hpp) over a lower stream, with either        *)
(* engine: OpenSSL, that reads and writes memory buffers which the stream  *)
(* fills and flushes (tls/openssl.cpp), or Schannel, that is given whole   *)
(* buffers (tls/schannel.cpp).  Its owner calls one operation at a time.   *)
(* Every record, of the handshake or of the application, is two bytes, and *)
(* the bytes of a direction are numbered; the lower stream reads and       *)
(* writes any part of what it is given.  The peer is the other end, which  *)
(* answers when it has what it answers to.  An operation that fails or is  *)
(* stopped is the last: what it left in the buffers is not used again.     *)
(***************************************************************************)
EXTENDS StreamBuffer

CONSTANTS
    App,    \* application records in each direction
    Cap     \* capacity of either buffer

VARIABLES
    backend, role,
    step,       \* how much of the handshake is over
    rbuf, wbuf, \* mReadBuffer, mWriteBuffer
    mFlush,     \* OpenSSL asked for a flush
    held,       \* the part of a record OpenSSL has taken from rbuf
    plain,      \* the decrypted bytes not given yet; Schannel's are in rbuf
    expired,    \* the peer's close_notify was read
    op,         \* the operation: "new", "idle", "over", or its name
    at,         \* where it is: "engine", "read", "flush" before it returns, or
                \* "flushThenRead", "flushThenEngine"
    want,       \* the size of the buffer it reads into
    told,       \* what the last operation returned
    got,        \* the bytes that were read from it
    closed,     \* it was shut down
    made,       \* bytes of the records the engine wrote
    wire,       \* bytes the lower stream took
    sent, taken,\* bytes the peer sent, and those that were read
    cut         \* the lower stream has ended without a close_notify

inside == <<step, rbuf, wbuf, mFlush, held, plain, expired>>
outside == <<wire, sent, taken, cut>>
vars == <<backend, role, inside, op, at, want, told, got, closed, made, outside>>

\* The handshake, of TLS 1.3: hello, the server's flight, the client's
\* Finished; a server then sends a ticket.
Script == IF role = "client" THEN <<"out", "in", "out">> ELSE <<"in", "out", "in", "out">>
InHandshake == 2 * Len(SelectSeq(Script, LAMBDA s : s = "in"))
InApp    == InHandshake + 2 * App
InAll    == InApp + 2
OutAll   == 2 * (2 + App)

Init ==
    /\ backend \in {"openssl", "schannel"} /\ role \in {"client", "server"}
    /\ step = 1
    /\ rbuf = [Cleared EXCEPT !.size = Cap] /\ wbuf = [Cleared EXCEPT !.size = Cap]
    /\ mFlush = FALSE /\ held = <<>> /\ plain = <<>> /\ expired = FALSE
    /\ op = "new" /\ at = "engine" /\ want = 0 /\ told = "nothing" /\ got = <<>> /\ closed = FALSE
    /\ made = 0 /\ wire = <<>> /\ sent = 0 /\ taken = 0 /\ cut = FALSE

Open == backend = "openssl"

-----------------------------------------------------------------------------
(* The peer.                                                               *)

\* It sends its next record when it has the flight that precedes it.
PeerSends ==
    /\ sent < InAll /\ ~cut
    /\ LET record == (sent \div 2) + 1
           needs  == IF role = "client" THEN 2 * Min({record, 2})
                     ELSE IF record = 1 THEN 0 ELSE 2
       IN  Len(wire) >= needs
    /\ sent' = sent + 2
    /\ UNCHANGED <<backend, role, got, closed, inside, op, at, want, told, made, wire, taken, cut>>

Cut ==
    /\ ~cut /\ cut' = TRUE
    /\ UNCHANGED <<backend, role, got, closed, inside, op, at, want, told, made, wire, sent, taken>>

-----------------------------------------------------------------------------
(* The engine.                                                             *)

Returns(what) == op' = "idle" /\ at' = "engine" /\ told' = what
Fails == op' = "over" /\ at' = "engine" /\ told' = "error"

\* A whole record is there to be read.
Whole == Len(held) + Len(rbuf.data) >= 2
Record == SubSeq(held \o rbuf.data, 1, 2)

TakeRecord ==
    /\ Whole
    /\ rbuf' = Consume(rbuf, 2 - Len(held))
    /\ held' = <<>>

\* Mutant: OpenSSL reads before it has flushed what it was asked to.
NeedMoreUnflushed ==
    /\ ~Whole
    /\ held' = IF Open THEN held \o rbuf.data ELSE held
    /\ rbuf' = IF Open THEN Consume(rbuf, Len(rbuf.data)) ELSE rbuf
    /\ at' = "read"

\* SSL_ERROR_WANT_READ, or SEC_E_INCOMPLETE_MESSAGE.
NeedMore ==
    /\ ~Whole
    /\ held' = IF Open THEN held \o rbuf.data ELSE held
    /\ rbuf' = IF Open THEN Consume(rbuf, Len(rbuf.data)) ELSE rbuf
    /\ at' = IF mFlush THEN "flushThenRead" ELSE "read"

\* bioWrite, or the engine's output: a record goes to the write buffer.
Emits ==
    /\ FixedGives(wbuf, 2)
    /\ wbuf' = Commit(FixedPrepared(wbuf, 2), <<made + 1, made + 2>>)
    /\ made' = made + 2

-----------------------------------------------------------------------------
(* The lower stream.                                                       *)

\* The bytes that came are read into what the read buffer has left.
LowerRead ==
    /\ at = "read" /\ sent > taken
    /\ \E n \in 1..Min({sent - taken, Cap - Len(rbuf.data)}) :
           /\ rbuf' = Commit(FixedPrepared(rbuf, Cap - Len(rbuf.data)),
                             [i \in 1..n |-> taken + i])
           /\ taken' = taken + n
    /\ at' = "engine"
    /\ UNCHANGED <<backend, role, got, closed, step, wbuf, mFlush, held, plain, expired, op, want, told,
                   made, wire, sent, cut>>

\* UnexpectedEOF.
LowerEof ==
    /\ at = "read" /\ sent = taken /\ cut
    /\ Fails
    /\ UNCHANGED <<backend, role, got, closed, inside, want, made, outside>>

Flushing == at \in {"flush", "flushThenRead", "flushThenEngine"}

\* Mutant: what a short write took is not consumed.
LowerWriteKeeps ==
    /\ Flushing /\ wbuf.data # <<>> /\ ~cut
    /\ \E n \in 1..Len(wbuf.data) :
           /\ wire' = wire \o SubSeq(wbuf.data, 1, n)
           /\ wbuf' = IF n = Len(wbuf.data) THEN Consume(wbuf, n) ELSE wbuf
    /\ UNCHANGED <<backend, role, got, closed, step, rbuf, mFlush, held, plain, expired, op, at, want, told,
                   made, sent, taken, cut>>

\* The loop of flushImpl, or of writeAll.
LowerWrite ==
    /\ Flushing /\ wbuf.data # <<>> /\ ~cut
    /\ \E n \in 1..Len(wbuf.data) :
           /\ wire' = wire \o SubSeq(wbuf.data, 1, n)
           /\ wbuf' = Consume(wbuf, n)
    /\ UNCHANGED <<backend, role, got, closed, step, rbuf, mFlush, held, plain, expired, op, at, want, told,
                   made, sent, taken, cut>>

\* Schannel's server has done its handshake though its ticket fails.
LowerWriteFails ==
    /\ Flushing /\ wbuf.data # <<>> /\ cut
    /\ IF ~Open /\ role = "server" /\ op = "handshake" /\ step > Len(Script)
       THEN Returns("ok") /\ wbuf' = [Cleared EXCEPT !.size = Cap]
       ELSE Fails /\ UNCHANGED wbuf
    /\ UNCHANGED <<backend, role, got, closed, step, rbuf, mFlush, held, plain, expired, want, made, outside>>

\* The lower stream is flushed, and the operation goes on or returns;
\* Schannel's write awaits writeAll only.
Flushed ==
    /\ Flushing /\ wbuf.data = <<>>
    /\ mFlush' = FALSE
    /\ CASE at = "flushThenRead"   -> at' = "read" /\ UNCHANGED <<op, told>>
         [] at = "flushThenEngine" -> at' = "engine" /\ UNCHANGED <<op, told>>
         [] at = "flush"           -> Returns(op)
    /\ UNCHANGED <<backend, role, got, closed, step, rbuf, wbuf, held, plain, expired, want, made, outside>>

-----------------------------------------------------------------------------
(* The operations.                                                         *)

\* A call from its owner.
Starts(name, size) ==
    /\ op' = name /\ want' = size /\ told' = "nothing"
    /\ UNCHANGED <<backend, role, got, closed, inside, made, outside>>

Handshake == op = "new" /\ Starts("handshake", 0) /\ at' = "engine"
Read      == op = "idle" /\ (\E size \in 1..2 : Starts("read", size)) /\ at' = "engine"
Write     == op = "idle" /\ ~closed /\ made < OutAll /\ Starts("write", 0) /\ at' = "engine"
Flush     == op = "idle" /\ Starts("flush", 0) /\ at' = "flush"
Shutdown  == op = "idle" /\ ~closed /\ Starts("shutdown", 0) /\ at' = "engine"

Engine(name) == op = name /\ at = "engine"

\* SSL_do_handshake, InitializeSecurityContext or AcceptSecurityContext.
\* OpenSSL's output waits for the next read or flush.
HandshakeOut ==
    /\ Engine("handshake") /\ step <= Len(Script) /\ Script[step] = "out"
    /\ Emits
    /\ step' = step + 1
    /\ mFlush' = Open
    /\ at' = IF Open THEN "engine" ELSE "flushThenEngine"
    /\ UNCHANGED <<backend, role, got, closed, rbuf, held, plain, expired, op, want, told, outside>>

HandshakeIn ==
    /\ Engine("handshake") /\ step <= Len(Script) /\ Script[step] = "in"
    /\ \/ TakeRecord /\ step' = step + 1 /\ UNCHANGED at
       \/ NeedMore /\ UNCHANGED step
    /\ UNCHANGED <<backend, role, got, closed, wbuf, mFlush, plain, expired, op, want, told, made, outside>>

HandshakeDone ==
    /\ Engine("handshake") /\ step > Len(Script)
    /\ Returns("ok")
    /\ UNCHANGED <<backend, role, got, closed, inside, want, made, outside>>

\* SSL_read, or what DecryptMessage has left: the bytes are given.  Those
\* of Schannel stay in the read buffer until the last of them is.
Give ==
    /\ Engine("read") /\ plain # <<>>
    /\ LET n == Min({want, Len(plain)})
       IN  /\ Returns("data")
           /\ got' = got \o SubSeq(plain, 1, n)
           /\ plain' = SubSeq(plain, n + 1, Len(plain))
           /\ rbuf' = IF ~Open /\ n = Len(plain) THEN Consume(rbuf, 2) ELSE rbuf
    /\ UNCHANGED <<backend, role, closed, step, wbuf, mFlush, held, expired, want, made, outside>>

\* The next record is decrypted, or it is close_notify, or more is needed.
Decrypt ==
    /\ Engine("read") /\ plain = <<>>
    /\ IF expired
       THEN Returns("eof") /\ UNCHANGED <<rbuf, held, plain, expired>>
       ELSE \/ /\ Whole /\ Head(Record) <= InApp
               /\ plain' = Record
               /\ IF Open THEN TakeRecord ELSE UNCHANGED <<rbuf, held>>
               /\ UNCHANGED <<expired, op, at, told>>
            \/ /\ TakeRecord /\ Head(Record) > InApp
               /\ expired' = TRUE
               /\ Returns("eof")
               /\ UNCHANGED plain
            \/ NeedMore /\ UNCHANGED <<plain, expired, op, told>>
    /\ UNCHANGED <<backend, role, got, closed, step, wbuf, mFlush, want, made, outside>>

\* SSL_write, refused when the buffer is full (SSL_ERROR_WANT_WRITE), or
\* EncryptMessage, whose record is written at once.
Encrypt ==
    /\ Engine("write")
    /\ IF FixedGives(wbuf, 2)
       THEN /\ Emits
            /\ IF Open THEN Returns("write") ELSE at' = "flush" /\ UNCHANGED <<op, told>>
       ELSE at' = "flushThenEngine" /\ UNCHANGED <<wbuf, made, op, told>>
    /\ UNCHANGED <<backend, role, got, closed, step, rbuf, mFlush, held, plain, expired, want, outside>>

\* SSL_shutdown, or SCHANNEL_SHUTDOWN: close_notify, and a flush.
CloseNotify ==
    /\ Engine("shutdown")
    /\ \/ Emits /\ at' = "flush" /\ closed' = TRUE
       \/ /\ ~FixedGives(wbuf, 2)
          /\ at' = "flushThenEngine"
          /\ UNCHANGED <<wbuf, made, closed>>
    /\ UNCHANGED <<backend, role, step, rbuf, mFlush, held, plain, expired, op, want, told,
                   got, outside>>

Next ==
    \/ PeerSends \/ Cut
    \/ LowerRead \/ LowerEof \/ LowerWrite \/ LowerWriteFails \/ Flushed
    \/ Handshake \/ Read \/ Write \/ Flush \/ Shutdown
    \/ HandshakeOut \/ HandshakeIn \/ HandshakeDone \/ Give \/ Decrypt \/ Encrypt \/ CloseNotify

\* What goes on by itself, with a peer that sends what it has to.
Progress ==
    \/ PeerSends
    \/ LowerRead \/ LowerEof \/ LowerWrite \/ LowerWriteFails \/ Flushed
    \/ HandshakeOut \/ HandshakeIn \/ HandshakeDone \/ Give \/ Decrypt \/ Encrypt \/ CloseNotify

-----------------------------------------------------------------------------
(* Every byte of the peer is read once and in order, and every record the  *)
(* engine wrote is on the wire once and whole, whatever part of it the     *)
(* lower stream takes at a time.  EOF is told for a close_notify only,     *)
(* when all before it was read; a flush or a shutdown that succeeds has    *)
(* left nothing in the buffer.  (Schannel's server gives up a ticket that  *)
(* the peer no longer takes.)                                              *)
RecordsInOrder ==
    /\ got = [i \in 1..Len(got) |-> InHandshake + i]
    /\ ~cut => wire \o wbuf.data = [i \in 1..made |-> i]
    /\ wire = [i \in 1..Len(wire) |-> i]
    /\ told = "eof" => Len(got) = 2 * App
    /\ told \in {"flush", "shutdown"} => Len(wire) = made \/ (cut /\ ~Open)

(* An operation returns, with a peer that answers: before it waits for the *)
(* peer it has sent what the peer waits for.                               *)
Waiting == op \notin {"new", "idle", "over"}
=============================================================================
