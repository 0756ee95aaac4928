---------------------------------- MODULE Qt ----------------------------------
(***************************************************************************)
(* ilias::QIoContext (platform/qt.hpp): an executor on top of Qt's event   *)
(* loop.  post() queues an event; one timer of Qt stands for the first of  *)
(* the timer service; a descriptor has a notifier for each event, that is  *)
(* enabled while somebody is connected to it.  On Windows a file is read   *)
(* with an OVERLAPPED whose event has a notifier of its own.               *)
(*                                                                         *)
(* `local` is Qt's queue of posted events.  Between two of them Qt         *)
(* dispatches notifiers and timers in an order of its own, which is any.   *)
(***************************************************************************)
EXTENDS TimerService, FiniteSets, Functions

CONSTANTS Other,     \* another thread
          Kinds,     \* the operations coroutines start
          Arrivals,  \* times the descriptor becomes ready
          Ms,        \* a millisecond, in units of the clock
          Rounds     \* Qt is older than 6.8, whose timers take nanoseconds

Notifiers == {"Read", "Write", "Except"}

VARIABLES
    alive,     \* the QIoDescriptor exists
    ready,     \* what the notifiers find; Except is the hang-up, which stays
    arrivals,  \* times it still becomes ready
    num,       \* numOfRead, numOfWrite, numOfExcept
    enabled,   \* the notifiers that are enabled
    con,       \* the connections of each QPollAwaiter
    op,        \* the operation a coroutine is in, or none
    sys,       \* its OVERLAPPED: "none", "pending", "done" or "canceled"
    mTimerId,  \* Qt's timer: at which time it fires next, or Never, and its interval
    mPrevTimepoint,
    loop,      \* run(): "entered", "in" the event loop, "returned"; or "on", in a
               \* second call that nobody stops
    quit       \* the event loop is told to end

fdVars == <<alive, ready, arrivals, num, enabled, con, op, sys>>
qtTimer == <<mTimerId, mPrevTimepoint>>
runVars == <<loop, quit>>
vars == <<timerVars, fdVars, qtTimer, runVars>>

InLoop == loop \in {"in", "on"}

\* addDescriptor() disables the notifiers.
Init ==
    /\ TimerInit
    /\ alive = TRUE /\ ready = {} /\ arrivals = Arrivals
    /\ num = [n \in Notifiers |-> 0] /\ enabled = {}
    /\ con = [c \in Coros |-> {}]
    /\ op = [c \in Coros |-> "none"] /\ sys = [c \in Coros |-> "none"]
    /\ mTimerId = [at |-> Never, every |-> 0] /\ mPrevTimepoint = Never
    /\ loop = "entered" /\ quit = FALSE

-----------------------------------------------------------------------------
(* The timer.                                                              *)

\* A time the clock reaches: it ends at MaxTime.
Reached(t) == IF t <= MaxTime THEN t ELSE MaxTime

\* The interval started at time s for a timer due at t: a millisecond when t has passed.
\* Before Qt 6.8 it is in whole milliseconds, and what is left over is dropped.
Interval(t, s) ==
    IF t < s THEN Ms ELSE IF Rounds THEN (t - s) - ((t - s) % Ms) ELSE t - s

\* The callback of the service reads the clock again, and replaces Qt's timer.
StartTimer ==
    /\ mPrevTimepoint' = NextTimepoint'
    /\ now' \in {now} \cup (IF now + 1 < MaxTime THEN {now + 1} ELSE {})
    /\ mTimerId' = IF NextTimepoint' = Never
                     THEN [at |-> Never, every |-> 0]
                     ELSE LET i == Interval(NextTimepoint', now')
                          IN  [at |-> Reached(now' + i), every |-> i]

\* Mutant: the timer is left when the last sleeper goes.
TimerChangedKeepsLast ==
    IF NextTimepoint' \in {mPrevTimepoint, Never} THEN UNCHANGED <<qtTimer, now>>
                                                  ELSE StartTimer

\* timerChanged(): the callback is called when the first timepoint is another one.
TimerChanged ==
    IF NextTimepoint' = mPrevTimepoint THEN UNCHANGED <<qtTimer, now>> ELSE StartTimer

\* timerEvent(): Qt's timer goes on with its interval unless it is replaced, which it is
\* not when nobody's time has come.
TimerEvent ==
    /\ InLoop /\ mTimerId.at <= now
    /\ UpdateTimers
    /\ IF NextTimepoint' = mPrevTimepoint
         THEN /\ mTimerId' = [mTimerId EXCEPT !.at = Reached(now + mTimerId.every)]
              /\ UNCHANGED <<mPrevTimepoint, now>>
         ELSE StartTimer
    /\ UNCHANGED <<fdVars, runVars>>

-----------------------------------------------------------------------------
(* QPollAwaiter.                                                           *)

\* Mutant: numOfExcept stays.
DisconnectKeepsCount(S) ==
    /\ num' = [n \in Notifiers |->
                  IF n = "Except" THEN num[n]
                                  ELSE num[n] - Cardinality({c \in S : n \in con[c]})]
    /\ enabled' = {n \in enabled : num'[n] > 0}
    /\ con' = [c \in Coros |-> IF c \in S THEN {} ELSE con[c]]

\* doDisconnect() of those in S: the last one disables the notifier.
Disconnect(S) ==
    /\ num' = [n \in Notifiers |-> num[n] - Cardinality({c \in S : n \in con[c]})]
    /\ enabled' = {n \in enabled : num'[n] > 0}
    /\ con' = [c \in Coros |-> IF c \in S THEN {} ELSE con[c]]

\* They are scheduled with a result, in the order in which they are connected.
Schedule(S) ==
    /\ st' = [c \in Coros |-> IF c \in S THEN "ready" ELSE st[c]]
    /\ \E s \in Injection(1..Cardinality(S), S) : local' = local \o [i \in DOMAIN s |-> <<Loop, s[i]>>]

Polls == {"recv", "send", "connect", "poll"}

Wants(k) == CASE k = "recv" -> {"Read"}
              [] k \in {"send", "connect"} -> {"Write"}
              [] k = "poll" -> {"Read", "Write"}

\* await_suspend(): doConnect(), then the registration, whose callback runs at once when
\* the stop is requested, and takes all of it back.
DoPoll(c, k) ==
    /\ local' = Tail(local)
    /\ IF stopReq[c]
         THEN /\ st' = [st EXCEPT ![c] = "stopped"]
              /\ op' = [op EXCEPT ![c] = "none"]
              /\ UNCHANGED <<num, enabled, con>>
         ELSE LET on == Wants(k) \cup {"Except"} IN
              /\ st' = [st EXCEPT ![c] = "polling"]
              /\ op' = [op EXCEPT ![c] = k]
              /\ con' = [con EXCEPT ![c] = on \cup {"Destroy"}]
              /\ enabled' = enabled \cup on
              /\ num' = [n \in Notifiers |-> num[n] + IF n \in on THEN 1 ELSE 0]
    /\ UNCHANGED <<ready, sys>>

\* onNotifierActivated() of whoever is connected.
Activated(n) ==
    /\ InLoop /\ n \in enabled \cap ready
    /\ LET S == {c \in Coros : n \in con[c]} IN Disconnect(S) /\ Schedule(S)
    /\ UNCHANGED <<now, mTimers, stopReq, slices, alive, ready, arrivals, op, sys, qtTimer,
                   runVars>>

-----------------------------------------------------------------------------
(* The operations, within the callback of coroutine c.                     *)

\* The operation returns: the coroutine yields, or is done.
GoOn(c) ==
    /\ op' = [op EXCEPT ![c] = "none"] /\ sys' = [sys EXCEPT ![c] = "none"]
    /\ IF slices'[c] > 0
         THEN local' = Append(Tail(local), <<Loop, c>>) /\ UNCHANGED st
         ELSE local' = Tail(local) /\ st' = [st EXCEPT ![c] = "done"]
    /\ UNCHANGED <<num, enabled, con>>

\* The loop of sendto(), recvfrom(), sendmsg() and recvmsg(): try, and poll when it would
\* block.  What is hung up fails at once; what succeeds may take all there is.  Of who was
\* scheduled before the descriptor went, the code still uses it, and polls it again, which
\* is undefined: here it fails.
Attempt(c, k) ==
    IF ~alive \/ ready \cap (Wants(k) \cup {"Except"}) # {}
      THEN GoOn(c) /\ ready' \in {ready, ready \ Wants(k)}
      ELSE DoPoll(c, k)

\* ReadFile() ends at once, or is pending; it is canceled for a stop that was requested.
Overlapped(c) ==
    \/ GoOn(c) /\ UNCHANGED ready
    \/ /\ local' = Tail(local)
       /\ st' = [st EXCEPT ![c] = "overlapped"]
       /\ op' = [op EXCEPT ![c] = "overlapped"] /\ sys' = [sys EXCEPT ![c] = "pending"]
       /\ UNCHANGED <<ready, num, enabled, con>>

opRest == <<mTimers, stopReq, alive, arrivals, qtTimer, runVars>>

StartIo(c, k) ==
    /\ Running(c) /\ op[c] = "none" /\ slices[c] > 0
    /\ slices' = [slices EXCEPT ![c] = @ - 1]
    /\ k = "overlapped" \/ alive
    /\ \/ k \in {"recv", "send"} /\ Attempt(c, k)
       \/ k \in {"connect", "poll"} /\ DoPoll(c, k)
       \/ k = "connect" /\ GoOn(c) /\ UNCHANGED ready
       \/ k = "overlapped" /\ Overlapped(c)
    /\ UNCHANGED <<now, opRest>>

\* After the poll, or the event of the OVERLAPPED, whose cancellation stops.
ResumeIo(c) ==
    /\ Running(c) /\ UNCHANGED slices
    /\ \/ op[c] \in {"recv", "send"} /\ Attempt(c, op[c])
       \/ op[c] \in {"connect", "poll"} /\ GoOn(c) /\ UNCHANGED ready
       \/ op[c] = "overlapped" /\ sys[c] = "done" /\ GoOn(c) /\ UNCHANGED ready
       \/ /\ op[c] = "overlapped" /\ sys[c] = "canceled"
          /\ st' = [st EXCEPT ![c] = "stopped"] /\ local' = Tail(local)
          /\ op' = [op EXCEPT ![c] = "none"] /\ sys' = [sys EXCEPT ![c] = "none"]
          /\ UNCHANGED <<ready, num, enabled, con>>
    /\ UNCHANGED <<now, opRest>>

\* Mutant: the descriptor goes without a word.
CloseSilently(c) ==
    /\ Running(c) /\ op[c] = "none" /\ slices[c] > 0 /\ alive
    /\ slices' = [slices EXCEPT ![c] = @ - 1]
    /\ alive' = FALSE /\ UNCHANGED <<num, enabled, con>>
    /\ local' = Append(Tail(local), <<Loop, c>>)
    /\ UNCHANGED <<now, mTimers, st, stopReq, ready, arrivals, op, sys, qtTimer, runVars>>

\* removeDescriptor() deletes the descriptor: onFdDestroyed() of whoever polls it, then
\* its notifiers go.  The coroutine that did it yields.
Close(c) ==
    /\ Running(c) /\ op[c] = "none" /\ slices[c] > 0 /\ alive
    /\ slices' = [slices EXCEPT ![c] = @ - 1]
    /\ alive' = FALSE
    /\ LET S == {d \in Coros : "Destroy" \in con[d]} IN
       /\ Disconnect(S)
       /\ st' = [d \in Coros |-> IF d \in S THEN "ready" ELSE st[d]]
       /\ \E s \in Injection(1..Cardinality(S), S) :
              local' = Tail(local) \o [i \in DOMAIN s |-> <<Loop, s[i]>>] \o <<<<Loop, c>>>>
    /\ UNCHANGED <<now, mTimers, stopReq, ready, arrivals, op, sys, qtTimer, runVars>>

\* Mutant: a stopped read is not waited for.
StopOverlappedAtOnce(c, d) ==
    /\ Request(c, d) /\ st[d] = "overlapped"
    /\ st' = [st EXCEPT ![d] = "stopped"]
    /\ UNCHANGED <<now, mTimers, fdVars, qtTimer, runVars>>

\* The stop of a pending OVERLAPPED asks the system to cancel it.
StopOverlapped(c, d) ==
    /\ Request(c, d) /\ st[d] = "overlapped"
    /\ UNCHANGED <<now, mTimers, st, fdVars, qtTimer, runVars>>

\* onStopRequested() of a QPollAwaiter.
StopPoller(c, d) ==
    /\ Request(c, d) /\ st[d] = "polling"
    /\ Disconnect({d})
    /\ st' = [st EXCEPT ![d] = "stopped"]
    /\ op' = [op EXCEPT ![d] = "none"]
    /\ UNCHANGED <<now, mTimers, alive, ready, arrivals, sys, qtTimer, runVars>>

\* The first posted event: a coroutine runs until it suspends.
Posted ==
    /\ InLoop
    /\ \/ /\ Slice /\ op[Head(local)[2]] = "none" /\ TimerChanged
          /\ UNCHANGED <<fdVars, runVars>>
       \/ \E c \in Coros : \/ \E k \in Kinds : StartIo(c, k)
                           \/ ResumeIo(c) \/ Close(c)
       \/ \E c, d \in Coros : op[c] = "none" /\ (StopPoller(c, d) \/ StopOverlapped(c, d))

-----------------------------------------------------------------------------
(* The system, run(), and other threads.                                   *)

\* The notifier of the OVERLAPPED's event is activated.
EventActivated(c) ==
    /\ InLoop /\ st[c] = "overlapped" /\ sys[c] \in {"done", "canceled"}
    /\ Schedule({c})
    /\ UNCHANGED <<now, mTimers, stopReq, slices, fdVars, qtTimer, runVars>>

SystemEnds(c) ==
    /\ sys[c] = "pending"
    /\ \E r \in {"done"} \cup (IF stopReq[c] THEN {"canceled"} ELSE {}) :
           sys' = [sys EXCEPT ![c] = r]
    /\ UNCHANGED <<timerVars, alive, ready, arrivals, num, enabled, con, op, qtTimer, runVars>>

Arrives(n) ==
    /\ arrivals > 0 /\ n \notin ready
    /\ arrivals' = arrivals - 1 /\ ready' = ready \cup {n}
    /\ UNCHANGED <<timerVars, alive, num, enabled, con, op, sys, qtTimer, runVars>>

\* schedule() by another thread.
Post(c) ==
    /\ st[c] = "parked"
    /\ st' = [st EXCEPT ![c] = "ready"] /\ local' = Append(local, <<Other, c>>)
    /\ UNCHANGED <<now, mTimers, stopReq, slices, fdVars, qtTimer, runVars>>

\* QEventLoop::exec() forgets a quit() that came before it.
Exec ==
    /\ loop = "entered"
    /\ loop' = "in" /\ quit' = FALSE
    /\ UNCHANGED <<timerVars, fdVars, qtTimer>>

\* The stop of run()'s token calls quit().
StopRun ==
    /\ loop \in {"entered", "in"} /\ ~quit /\ quit' = TRUE
    /\ UNCHANGED <<timerVars, fdVars, qtTimer, loop>>

Return ==
    /\ loop = "in" /\ quit
    /\ loop' = "returned" /\ UNCHANGED <<timerVars, fdVars, qtTimer, quit>>

RunAgain ==
    /\ loop = "returned" /\ loop' = "on"
    /\ UNCHANGED <<timerVars, fdVars, qtTimer, quit>>

Time == Tick /\ UNCHANGED <<fdVars, qtTimer, runVars>>

Progress ==
    \/ Posted \/ TimerEvent \/ Time \/ Exec \/ Return \/ RunAgain
    \/ \E n \in Notifiers : Activated(n)
    \/ \E c \in Coros : EventActivated(c) \/ SystemEnds(c)

Next ==
    \/ Progress \/ StopRun
    \/ \E n \in Notifiers : Arrives(n)
    \/ \E c \in Coros : Post(c)

-----------------------------------------------------------------------------
(* A notifier is enabled as long as somebody is connected, so the loop     *)
(* neither spins on it nor forgets anybody; and a coroutine is in one      *)
(* place: posted once, asleep, or connected, whichever of an event, the    *)
(* close and the stop took it (mGot, qt.hpp:600-640).                      *)
NotifiersMatch ==
    /\ \A n \in Notifiers :
           /\ num[n] = Cardinality({c \in Coros : n \in con[c]})
           /\ n \in enabled <=> num[n] > 0
    /\ \A c \in Coros :
           /\ con[c] # {} <=> st[c] = "polling"
           /\ con[c] # {} => alive /\ con[c] = Wants(op[c]) \cup {"Except", "Destroy"}
           /\ Cardinality({i \in DOMAIN local : local[i][2] = c})
                  = IF st[c] = "ready" THEN 1 ELSE 0

(* Qt's timer runs when somebody sleeps.  It comes less than a millisecond *)
(* before the first of them is due, not at all early since Qt 6.8, and     *)
(* after that by less than its interval, or within a millisecond when the  *)
(* sleeper is late already (qt.hpp:171-192, timer.hpp:130-156).  A timer   *)
(* that came early finds nobody due and is not set anew, so that the       *)
(* interval is the bound: there is no better one.                          *)
TimerRuns ==
    /\ mTimerId.at = Never <=> mTimers = <<>>
    /\ mTimers # <<>> =>
           /\ mTimerId.at + (IF Rounds THEN Ms - 1 ELSE 0) >= NextTimepoint
           /\ \/ mTimerId.at < NextTimepoint + mTimerId.every
              \/ mTimerId.at <= now + Ms

(* The OVERLAPPED is part of the awaiting coroutine's frame: the frame is  *)
(* there until the system has ended it (qt.hpp:101-126).                   *)
OverlappedOutlives ==
    \A c \in Coros : sys[c] # "none" => st[c] \in {"overlapped", "ready"}

\* What the theorems about Qt's loop need: the types, ...
TypeOK ==
    /\ TimerTypeOK
    /\ local \in Seq({Loop, Other} \X Coros)
    /\ st \in [Coros -> Places \cup {"polling", "overlapped"}]
    /\ alive \in BOOLEAN
    /\ num \in [Notifiers -> Nat]
    /\ enabled \subseteq Notifiers
    /\ con \in [Coros -> SUBSET (Notifiers \cup {"Destroy"})]
    /\ op \in [Coros -> Polls \cup {"none", "overlapped"}]
    /\ sys \in [Coros -> {"none", "pending", "done", "canceled"}]

\* ... what the timer was started for, and ...
TimerFollows == mPrevTimepoint = NextTimepoint

\* ... which operation a coroutine is in when it waits.
OpsKept ==
    \A c \in Coros :
        /\ sys[c] # "none" <=> op[c] = "overlapped"
        /\ st[c] = "overlapped" => op[c] = "overlapped"
        /\ st[c] = "polling" => op[c] \in Polls
        /\ op[c] # "none" => st[c] \in {"ready", "polling", "overlapped"}

\* Somebody who is posted or asleep, who polls what is ready or closed, or whose stop is
\* requested; or a run that is told to end.
Waiting ==
    \/ \E c \in Coros :
           \/ st[c] \in {"ready", "asleep", "overlapped"}
           \/ st[c] = "polling" /\ (~alive \/ stopReq[c] \/ con[c] \cap ready # {})
    \/ loop = "in" /\ quit
=============================================================================
