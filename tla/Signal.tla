-------------------------------- MODULE Signal --------------------------------
(***************************************************************************)
(* signal::waitFor() (linux/signal.cpp): a coroutine waits for a signal at *)
(* the end of a pipe whose writing end is in the slot of the signal.  The  *)
(* handler, on any thread, takes it from there and closes it; so does the  *)
(* guard of a coroutine that leaves before.                                *)
(*                                                                         *)
(* A waiter calls waitFor() once and its pipe is known by its name: that   *)
(* the number of a closed descriptor is used again (FIXME, line 94) is not *)
(* in the model.                                                           *)
(***************************************************************************)
EXTENDS Naturals, FiniteSets

CONSTANTS Waiters, Handlers, None

VARIABLES
    installed,  \* the handler is: call_once has run
    writer,     \* the slot: whose writing end, or None
    open,       \* the writing ends that are open
    byte,       \* the pipes that hold a byte
    pc,         \* where each waiter stands
    result,
    holds,      \* the writing end a running handler has taken, and
    hpc,        \* where it stands
    raised,     \* the waiters in whose waiting the signal came
    asked       \* whose stop is requested

slotVars == <<installed, writer, open, byte>>
waiterVars == <<pc, result, asked>>
handlerVars == <<holds, hpc, raised>>
vars == <<slotVars, waiterVars, handlerVars>>

Init ==
    /\ installed = FALSE /\ writer = None /\ open = {} /\ byte = {}
    /\ pc = [w \in Waiters |-> "idle"] /\ result = [w \in Waiters |-> "none"]
    /\ asked = {}
    /\ holds = [h \in Handlers |-> None] /\ hpc = [h \in Handlers |-> "idle"]
    /\ raised = {}

GoTo(w, from, to) == pc[w] = from /\ pc' = [pc EXCEPT ![w] = to]
Ends(w, from, r) == GoTo(w, from, "guard") /\ result' = [result EXCEPT ![w] = r]

-----------------------------------------------------------------------------
(* waitFor().                                                              *)

\* call_once installs the handler; it throws when sigaction() fails.
Install(w) ==
    /\ GoTo(w, "idle", "pipe")
    /\ installed' = TRUE
    /\ UNCHANGED <<writer, open, byte, result, asked, handlerVars>>

InstallFails(w) ==
    /\ ~installed /\ GoTo(w, "idle", "ended")
    /\ result' = [result EXCEPT ![w] = "error"]
    /\ UNCHANGED <<slotVars, asked, handlerVars>>

\* pipe2()
MakePipe(w) ==
    \/ /\ GoTo(w, "pipe", "store") /\ open' = open \cup {w}
       /\ UNCHANGED <<installed, writer, byte, result, asked, handlerVars>>
    \/ /\ Ends(w, "pipe", "error")
       /\ UNCHANGED <<slotVars, asked, handlerVars>>

\* Mutant: the slot is not looked at.
StoreOver(w) ==
    /\ GoTo(w, "store", "wrap") /\ writer' = w /\ UNCHANGED result
    /\ UNCHANGED <<installed, open, byte, asked, handlerVars>>

\* The exchange of an empty slot; in a full one another waits.
Store(w) ==
    /\ IF writer = None
         THEN GoTo(w, "store", "wrap") /\ writer' = w /\ UNCHANGED result
         ELSE Ends(w, "store", "busy") /\ UNCHANGED writer
    /\ UNCHANGED <<installed, open, byte, asked, handlerVars>>

\* IoHandle::make()
Wrap(w) ==
    /\ \/ GoTo(w, "wrap", "read") /\ UNCHANGED result
       \/ Ends(w, "wrap", "error")
    /\ UNCHANGED <<slotVars, asked, handlerVars>>

\* The read ends with the byte, or with 0 when the writing end is closed; both are
\* taken for the signal.
Read(w) ==
    /\ w \in byte \/ w \notin open
    /\ Ends(w, "read", "ok")
    /\ byte' = byte \ {w}
    /\ UNCHANGED <<installed, writer, open, asked, handlerVars>>

RequestStop(w) ==
    /\ w \notin asked /\ asked' = asked \cup {w}
    /\ pc[w] # "idle"
    /\ UNCHANGED <<slotVars, pc, result, handlerVars>>

\* The poll of the read is stopped, or fails.
ReadStops(w) ==
    /\ w \in asked /\ Ends(w, "read", "stopped")
    /\ UNCHANGED <<slotVars, asked, handlerVars>>

\* Mutant: the guard asks the slot, and empties it later.
TakeBackLater(w) ==
    /\ GoTo(w, "guard", IF writer = w THEN "close" ELSE "ended")
    /\ UNCHANGED <<slotVars, result, asked, handlerVars>>

\* ~Guard(): takes its writing end back when the slot still has it ...
TakeBack(w) ==
    /\ GoTo(w, "guard", IF writer = w THEN "close" ELSE "ended")
    /\ writer' = IF writer = w THEN None ELSE writer
    /\ UNCHANGED <<installed, open, byte, result, asked, handlerVars>>

\* ... and closes it.  The reading end is closed in either case.
CloseWriter(w) ==
    /\ GoTo(w, "close", "ended")
    /\ open' = open \ {w}
    /\ UNCHANGED <<installed, writer, byte, result, asked, handlerVars>>

-----------------------------------------------------------------------------
(* actionHandler(), on any thread.                                         *)

\* The exchange of the slot by an empty one.
Raise(h) ==
    /\ installed /\ hpc[h] = "idle" /\ writer # None
    /\ holds' = [holds EXCEPT ![h] = writer]
    /\ hpc' = [hpc EXCEPT ![h] = "write"]
    /\ raised' = raised \cup {writer}
    /\ writer' = None
    /\ UNCHANGED <<installed, open, byte, waiterVars>>

WriteByte(h) ==
    /\ hpc[h] = "write" /\ hpc' = [hpc EXCEPT ![h] = "close"]
    /\ byte' = byte \cup {holds[h]}
    /\ UNCHANGED <<installed, writer, open, waiterVars, holds, raised>>

\* It closes the writing end, and calls the handler that was there before.
CloseTaken(h) ==
    /\ hpc[h] = "close" /\ hpc' = [hpc EXCEPT ![h] = "idle"]
    /\ open' = open \ {holds[h]}
    /\ holds' = [holds EXCEPT ![h] = None]
    /\ UNCHANGED <<installed, writer, byte, waiterVars, raised>>

Progress ==
    \/ \E w \in Waiters : \/ MakePipe(w) \/ Store(w) \/ Wrap(w) \/ Read(w) \/ ReadStops(w)
                          \/ TakeBack(w) \/ CloseWriter(w)
    \/ \E h \in Handlers : WriteByte(h) \/ CloseTaken(h)

Next ==
    \/ Progress
    \/ \E w \in Waiters : Install(w) \/ InstallFails(w) \/ RequestStop(w)
    \/ \E h \in Handlers : Raise(h)

-----------------------------------------------------------------------------
(* A writing end is open as long as one refers to it that will close it:   *)
(* its waiter before and after it was in the slot, the slot, or a handler; *)
(* never two, of which the second would close another file.  The waiter    *)
(* that finds the slot taken keeps its own open for good (signal.cpp:82).  *)
WriterClosedOnce ==
    \A w \in Waiters :
        LET owners == {x \in Waiters : x = w /\ pc[x] \in {"store", "close"}}
                      \cup {h \in Handlers : holds[h] = w}
                      \cup (IF writer = w THEN {None} ELSE {})
        IN  /\ Cardinality(owners) <= 1
            /\ owners # {} => w \in open
            /\ owners = {} /\ w \in open => result[w] = "busy"

(* Who returns without an error was waiting when the signal came.          *)
SignalCame == \A w \in Waiters : result[w] = "ok" => w \in raised

\* What the theorems about the signal need: the types, ...
TypeOK ==
    /\ installed \in BOOLEAN /\ writer \in Waiters \cup {None}
    /\ open \subseteq Waiters /\ byte \subseteq Waiters /\ raised \subseteq Waiters
    /\ pc \in [Waiters -> {"idle", "pipe", "store", "wrap", "read", "guard", "close", "ended"}]
    /\ result \in [Waiters -> {"none", "ok", "busy", "error", "stopped"}]
    /\ holds \in [Handlers -> Waiters \cup {None}]
    /\ hpc \in [Handlers -> {"idle", "write", "close"}]

\* ... and where a writing end has been.
EndsKnown ==
    /\ \A h \in Handlers : hpc[h] = "idle" <=> holds[h] = None
    /\ \A h, g \in Handlers : holds[h] = holds[g] /\ holds[h] # None => h = g
    /\ \A h \in Handlers : holds[h] # None =>
           holds[h] \in open /\ holds[h] \in raised /\ holds[h] # writer
    /\ \A w \in Waiters :
           /\ writer = w => w \in open /\ pc[w] \in {"wrap", "read", "guard"} /\ w \notin raised
           /\ w \in raised => pc[w] \in {"wrap", "read", "guard", "ended"}
           /\ pc[w] \in {"idle", "pipe"} => w \notin open
           /\ pc[w] \in {"store", "close"} => w \in open
           /\ pc[w] \in {"wrap", "read"} => writer = w \/ w \in raised
           /\ pc[w] \in {"pipe", "store", "wrap", "read"} => result[w] = "none"
           /\ w \in byte => w \in raised
           /\ pc[w] = "idle" => result[w] = "none"

\* Who has been signalled, whose stop is requested, or who leaves.
Waiting ==
    \E w \in Waiters : \/ pc[w] \in {"pipe", "store", "wrap", "guard", "close"}
                       \/ pc[w] = "read" /\ (w \in asked \cup raised)
=============================================================================
