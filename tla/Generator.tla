------------------------------ MODULE Generator ------------------------------
(***************************************************************************)
(* A coroutine that iterates over a generator (task/generator.hpp): each   *)
(* begin() and each ++ resumes the generator, which yields a value, awaits *)
(* something, returns or throws.  Both run in the consumer's context, so   *)
(* that a stop inside the generator stops the consumer too.  All is on one *)
(* thread; an action is what runs up to a switch between the two.          *)
(***************************************************************************)
EXTENDS Naturals, Sequences

CONSTANTS Values, Awaits    \* how many values it yields and awaits at most

VARIABLES
    gen,      \* "new", "running", "yielded", "awaiting", "done", "destroyed"
    produced, \* how many values it has yielded
    left,     \* how often it still may await
    value,    \* mValue; 0 is nullopt
    threw,    \* mException is set
    prev,     \* mPrevAwaiting is the consumer, not the noop coroutine
    consumer, \* "body", "asking" in await_ready, "suspended", "resumed",
              \* "over", "thrown", "stopped"
    got,      \* what its body has been given
    ready,    \* the executor has to resume the generator
    stopAsked \* the context's stop was requested

vars == <<gen, produced, left, value, threw, prev, consumer, got, ready, stopAsked>>

Init ==
    /\ gen = "new" /\ produced = 0 /\ left = Awaits
    /\ value = 0 /\ threw = FALSE /\ prev = FALSE
    /\ consumer = "body" /\ got = <<>>
    /\ ready = FALSE /\ stopAsked \in BOOLEAN

\* await_ready of begin() or ++: the value goes, the generator is resumed.
Advance ==
    /\ consumer = "body" /\ gen \in {"new", "yielded"}
    /\ consumer' = "asking"
    /\ value' = 0
    /\ gen' = "running"
    /\ UNCHANGED <<produced, left, threw, prev, got, ready, stopAsked>>

\* Symmetric transfer to mPrevAwaiting; the noop coroutine returns to who
\* resumed the generator.
Transfer == consumer' = IF prev THEN "resumed" ELSE consumer

\* Mutant: the consumer stays in mPrevAwaiting.
YieldKeepsPrev ==
    /\ gen = "running" /\ produced < Values
    /\ produced' = produced + 1
    /\ value' = produced + 1
    /\ gen' = "yielded"
    /\ Transfer
    /\ UNCHANGED <<left, threw, prev, got, ready, stopAsked>>

\* yield_value.
Yield ==
    /\ gen = "running" /\ produced < Values
    /\ produced' = produced + 1
    /\ value' = produced + 1
    /\ gen' = "yielded"
    /\ Transfer
    /\ prev' = FALSE
    /\ UNCHANGED <<left, threw, got, ready, stopAsked>>

\* It awaits something that is not ready, and may answer at once to a stop that was
\* requested before; then await_suspend of the consumer still follows.
AwaitInside ==
    /\ gen = "running" /\ left > 0
    /\ left' = left - 1
    /\ gen' = "awaiting"
    /\ \/ UNCHANGED <<prev, consumer>>
       \/ stopAsked /\ consumer' = "stopped" /\ prev' = TRUE
    /\ UNCHANGED <<produced, value, threw, got, ready, stopAsked>>

\* return_void or unhandled_exception, then final_suspend.
Return(throws) ==
    /\ gen = "running"
    /\ gen' = "done"
    /\ threw' = throws
    /\ Transfer
    /\ UNCHANGED <<produced, left, value, prev, got, ready, stopAsked>>

\* Back in await_ready without a value: await_suspend.
Suspend ==
    /\ consumer = "asking" /\ gen = "awaiting"
    /\ consumer' = "suspended"
    /\ prev' = TRUE
    /\ UNCHANGED <<gen, produced, left, value, threw, got, ready, stopAsked>>

\* What it awaits completes, and the executor resumes the generator.
Complete ==
    /\ gen = "awaiting" /\ consumer = "suspended" /\ ~ready
    /\ ready' = TRUE
    /\ UNCHANGED <<gen, produced, left, value, threw, prev, consumer, got, stopAsked>>

Resume ==
    /\ ready
    /\ ready' = FALSE
    /\ gen' = "running"
    /\ UNCHANGED <<produced, left, value, threw, prev, consumer, got, stopAsked>>

\* The stop of the context; what the generator awaits may answer it.
Stop ==
    /\ consumer = "suspended" /\ gen = "awaiting" /\ ~stopAsked
    /\ stopAsked' = TRUE
    /\ consumer' \in {"suspended"} \cup {s \in {"stopped"} : ~ready}
    /\ UNCHANGED <<gen, produced, left, value, threw, prev, got, ready>>

\* await_resume, and the test against end().
Take ==
    /\ \/ consumer = "resumed"
       \/ consumer = "asking" /\ (gen = "done" \/ (gen = "yielded" /\ value # 0))
    /\ threw' = FALSE
    /\ consumer' = IF threw THEN "thrown" ELSE IF gen = "done" THEN "over" ELSE "body"
    /\ got' = IF gen = "done" THEN got ELSE Append(got, value)
    /\ UNCHANGED <<gen, produced, left, value, prev, ready, stopAsked>>

\* The consumer leaves the loop and drops the generator, or its frame goes.
Clear ==
    /\ consumer \in {"body", "over", "thrown", "stopped"} /\ gen # "destroyed"
    /\ gen' = "destroyed"
    /\ consumer' = IF consumer = "body" THEN "over" ELSE consumer
    /\ UNCHANGED <<produced, left, value, threw, prev, got, ready, stopAsked>>

Next ==
    \/ Advance \/ Yield \/ AwaitInside \/ Suspend \/ Complete \/ Resume \/ Stop
    \/ Take \/ Clear \/ (\E throws \in BOOLEAN : Return(throws))

\* What goes on by itself; what the generator awaits completes in the end.
Progress ==
    \/ Yield \/ AwaitInside \/ Suspend \/ Complete \/ Resume \/ Take
    \/ (\E throws \in BOOLEAN : Return(throws))

-----------------------------------------------------------------------------
(* The body is given every value once, in order, whether the generator     *)
(* yielded it within await_ready or after an await of its own, and an      *)
(* exception reaches the consumer.  A generator transfers only to a        *)
(* consumer that is suspended, and is never resumed in a stopped context   *)
(* (generator.hpp:72-75, 110-124, coro.hpp:70-71).                         *)
EachValueOnce ==
    /\ got = [i \in 1..Len(got) |-> i]
    /\ consumer \in {"body", "over"} /\ ~threw /\ gen # "destroyed" => Len(got) = produced
    /\ consumer = "suspended" => prev /\ value = 0
    /\ prev => consumer \in {"suspended", "resumed", "stopped"} \/ gen \in {"done", "destroyed"}
    /\ consumer = "stopped" => stopAsked /\ ~ready
    /\ consumer = "over" => ~threw

(* Who asked for a value, and was not stopped, gets one, or the end.       *)
Waiting == consumer \in {"asking", "suspended", "resumed"}
=============================================================================
