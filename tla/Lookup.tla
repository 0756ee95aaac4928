-------------------------------- MODULE Lookup --------------------------------
(***************************************************************************)
(* AddressInfo::fromHostname() (net/addrinfo.cpp): the resolver of the     *)
(* system answers on a thread of its own, through an awaiter in the        *)
(* caller's frame.  With glibc (getaddrinfo_a) the answer schedules the    *)
(* caller, whatever it is; on Windows (GetAddrInfoExW) it waits until the  *)
(* caller is suspended and posts onComplete(), which resumes or stops it.  *)
(*                                                                         *)
(* The system tells of a request once, and not of one it refused.          *)
(***************************************************************************)
EXTENDS Naturals

VARIABLES
    api,       \* "glibc" or "windows"
    caller,    \* "start", "starting" (in the await), "suspended", "ended"
    step,      \* within await_suspend(): "submit", "register", "done"
    request,   \* "none", "pending", "answered", "canceled" or "refused"
    latch,     \* suspend, the latch of the Windows awaiter, is down
    thread,    \* the resolver's thread: "idle", "callback", "told"
    posted,    \* times the caller is posted to its executor
    asked,     \* its stop is requested
    result

awaitVars == <<caller, step, latch>>
systemVars == <<request, thread>>
vars == <<api, awaitVars, systemVars, posted, asked, result>>

Init ==
    /\ api \in {"glibc", "windows"}
    /\ caller = "start" /\ step = "submit" /\ latch = FALSE
    /\ request = "none" /\ thread = "idle"
    /\ posted = 0 /\ asked = FALSE /\ result = "none"

RequestStop ==
    /\ ~asked /\ caller \in {"start", "starting"} /\ asked' = TRUE
    /\ UNCHANGED <<api, awaitVars, systemVars, posted, result>>

\* The coroutine starts.
Start ==
    /\ caller = "start" /\ caller' = "starting"
    /\ UNCHANGED <<api, step, latch, systemVars, posted, asked, result>>

\* The request is given to the system.  Windows' await_ready() ends the await when it is
\* not pending; glibc's refusal is looked at after the registration.
Submit ==
    /\ caller = "starting" /\ step = "submit"
    /\ \E r \in {"pending", "refused"} :
           /\ request' = r
           /\ IF api = "windows" /\ r = "refused"
                THEN caller' = "ended" /\ result' = "error" /\ UNCHANGED step
                ELSE step' = "register" /\ UNCHANGED <<caller, result>>
    /\ UNCHANGED <<api, latch, thread, posted, asked>>

\* onStopRequested(): the system cancels the request, unless it is about to answer.
Cancel(r) == r \in {request} \cup (IF request = "pending" THEN {"canceled"} ELSE {})

\* The stop is registered, which cancels at once when it is requested already; a request
\* that was refused is its own answer.  The caller is suspended then.
Register ==
    /\ caller = "starting" /\ step = "register"
    /\ step' = "done" /\ caller' = "suspended"
    /\ IF asked THEN \E r \in {"pending", "answered", "canceled", "refused"} :
                         Cancel(r) /\ request' = r
                ELSE UNCHANGED request
    /\ latch' = TRUE
    /\ posted' = IF request = "refused" THEN posted + 1 ELSE posted
    /\ UNCHANGED <<api, thread, asked, result>>

\* The stop of a caller that is suspended.
StopSuspended ==
    /\ caller = "suspended" /\ ~asked /\ asked' = TRUE
    /\ \E r \in {"pending", "answered", "canceled", "refused"} : Cancel(r) /\ request' = r
    /\ UNCHANGED <<api, awaitVars, thread, posted, result>>

-----------------------------------------------------------------------------
(* The resolver.                                                           *)

Answer ==
    /\ request = "pending" /\ request' = "answered"
    /\ UNCHANGED <<api, awaitVars, thread, posted, asked, result>>

\* Its callback is called, on another thread, of what is answered or canceled.
CallBack ==
    /\ thread = "idle" /\ request \in {"answered", "canceled"}
    /\ thread' = "callback"
    /\ UNCHANGED <<api, awaitVars, request, posted, asked, result>>

\* Mutant: it does not wait for the latch.
TellAtOnce ==
    /\ thread = "callback" /\ thread' = "told"
    /\ posted' = posted + 1
    /\ UNCHANGED <<api, awaitVars, request, asked, result>>

\* schedule() of the caller, or the post of onComplete() behind the latch.
Tell ==
    /\ thread = "callback" /\ thread' = "told"
    /\ api = "windows" => latch
    /\ posted' = posted + 1
    /\ UNCHANGED <<api, awaitVars, request, asked, result>>

\* The executor's thread, when it has left await_suspend(): await_resume() of the caller,
\* or its stop.  glibc's EAI_CANCELED is an error like others.
Resume ==
    /\ caller = "suspended" /\ posted > 0 /\ posted' = posted - 1
    /\ caller' = "ended"
    /\ result' = CASE request = "answered" -> "answer"
                   [] request = "canceled" /\ api = "windows" -> "stopped"
                   [] OTHER -> "error"
    /\ UNCHANGED <<api, step, latch, systemVars, asked>>

Progress ==
    Submit \/ Register \/ Answer \/ CallBack \/ Tell \/ Resume

Next == Start \/ Progress \/ RequestStop \/ StopSuspended

-----------------------------------------------------------------------------
(* The awaiter is there as long as the resolver refers to it, is complete  *)
(* when its callback uses it (on Windows its handle is set only in         *)
(* await_suspend), and posts one resumption (addrinfo.cpp:87-190).         *)
AwaiterComplete ==
    /\ request = "pending" \/ thread = "callback" => caller # "ended"
    /\ request \in {"answered", "canceled"} /\ thread = "idle" => caller # "ended"
    /\ thread = "told" /\ api = "windows" => step = "done"
    /\ posted <= 1 /\ (caller = "ended" => posted = 0)

\* What the theorem about the lookup needs: the types, ...
TypeOK ==
    /\ api \in {"glibc", "windows"}
    /\ caller \in {"start", "starting", "suspended", "ended"}
    /\ step \in {"submit", "register", "done"}
    /\ request \in {"none", "pending", "answered", "canceled", "refused"}
    /\ latch \in BOOLEAN /\ thread \in {"idle", "callback", "told"}
    /\ posted \in Nat /\ asked \in BOOLEAN

\* ... and who has posted the caller: the resolver's thread, or its own refusal.
Posted ==
    /\ caller = "start" => step = "submit"
    /\ caller \in {"start", "starting"} /\ step = "submit" <=> request = "none"
    /\ step = "register" => caller = "starting"
    /\ caller = "suspended" => step = "done"
    /\ step = "done" <=> latch
    /\ step = "submit" => posted = 0 /\ thread = "idle"
    /\ caller = "starting" /\ step = "done" => FALSE
    /\ caller = "ended" /\ step = "submit" => request = "refused" /\ api = "windows"
    /\ thread # "idle" => request \in {"answered", "canceled"}
    /\ thread = "told" /\ api = "windows" => latch
    /\ caller = "ended" => thread = "told" \/ request = "refused"
    /\ posted = IF /\ caller # "ended"
                   /\ thread = "told" \/ (request = "refused" /\ step = "done")
                THEN 1 ELSE 0

\* Who has begun is answered.
Waiting == caller \in {"starting", "suspended"}
=============================================================================
