------------------------------ MODULE Executor ------------------------------
(***************************************************************************)
(* What an Executor promises of post() (runtime/executor.hpp:28-37):       *)
(* every callback runs once, and the callbacks of one poster run in the    *)
(* order in which it posted them.  Nothing is promised between posters.    *)
(***************************************************************************)
EXTENDS Sequences, SequencesExt

CONSTANTS Posters,  \* the threads, with the executor's own
          Loop      \* the executor's own

VARIABLE pending    \* each poster's callbacks that have not run yet

Init == pending = [p \in Posters |-> <<>>]

\* Callbacks are added behind those in q, at none but p's queue.
Adds(q, p) == /\ IsPrefix(q[p], pending'[p])
              /\ \A r \in Posters \ {p} : pending'[r] = q[r]

Post(p) == Adds(pending, p)

\* The first callback of p runs, and may post on its own executor.
Run(p) ==
    /\ pending[p] # <<>>
    /\ Adds([pending EXCEPT ![p] = Tail(@)], Loop)

Next == \E p \in Posters : Post(p) \/ Run(p)

Spec == Init /\ [][Next]_pending
=============================================================================
