------------------------------ MODULE WorkPool ------------------------------
(***************************************************************************)
(* What the thread pool of src/network/queue.c promises to the code that   *)
(* uses it: units are started in the order they were submitted, by a       *)
(* worker that runs nothing else, each once; stopping the pool discards    *)
(* what is queued, and nothing is started after it.  WorkQueue implements  *)
(* this specification, the server (ServerConnections) is built on it.      *)
(***************************************************************************)
EXTENDS Sequences

CONSTANTS
    Workers,
    Units,     \* what may be submitted
    Idle       \* what an idle worker runs

VARIABLES
    pending,   \* the queued units, in the order of their submission
    running,   \* the unit each worker runs
    stopped

pool == <<pending, running, stopped>>

Init ==
    /\ pending = <<>>
    /\ running = [w \in Workers |-> Idle]
    /\ stopped = FALSE

\* dynpm_work_queue_add
Submit(u) ==
    /\ pending' = Append(pending, u)
    /\ UNCHANGED <<running, stopped>>

\* A worker takes the oldest unit.
Start(w) ==
    /\ ~stopped
    /\ running[w] = Idle
    /\ pending # <<>>
    /\ running' = [running EXCEPT ![w] = Head(pending)]
    /\ pending' = Tail(pending)
    /\ UNCHANGED stopped

\* The function of its unit has returned.
End(w) ==
    /\ running[w] # Idle
    /\ running' = [running EXCEPT ![w] = Idle]
    /\ UNCHANGED <<pending, stopped>>

\* dynpm_work_queue_finalize
Stop ==
    /\ stopped' = TRUE
    /\ pending' = <<>>
    /\ UNCHANGED running

Next ==
    \/ \E u \in Units : Submit(u)
    \/ \E w \in Workers : Start(w) \/ End(w)
    \/ Stop

Spec == Init /\ [][Next]_pool
=============================================================================
