----------------------------- MODULE WorkQueue -----------------------------
(***************************************************************************)
(* The thread pool of src/network/queue.c: a linked list of work units     *)
(* guarded by one mutex and one condition variable, drained by detached    *)
(* worker threads.  Every critical section of work_queue.mutex is one      *)
(* action; pthread_cond_wait releases the mutex, so a waiting worker is    *)
(* one whose pc is "wait".  dynpm_work_queue_init runs without the mutex   *)
(* while the workers it has already created are running, so its loop is    *)
(* one action per pthread_create and one per insertion in thread_data.     *)
(*                                                                         *)
(* A work unit is numbered by the order of its dynpm_work_queue_add.       *)
(***************************************************************************)
EXTENDS Naturals, Sequences, FiniteSets, Functions

CONSTANTS
    ThreadCount,  \* thread_count, the argument of dynpm_work_queue_init
    MaxUnits      \* bound: how many units are ever added

ASSUME PoolAssumption == ThreadCount \in Nat /\ MaxUnits \in Nat

VARIABLES
    work_units,   \* the list of units, head first
    thread_data,  \* the workers in the list dynpm_work_queue_finalize walks
    terminate,    \* worker_thread_data->terminate
    pc,           \* where each worker is in queue_thread
    unit,         \* the unit a worker is running, 0 if none
    init_pc,      \* where dynpm_work_queue_init is
    created,      \* how many pthread_create calls have succeeded
    \* history
    added,        \* number of units added so far
    started,      \* units some worker has taken
    dropped,      \* units dynpm_work_queue_finalize discarded
    finalized     \* dynpm_work_queue_finalize has run

vars == <<work_units, thread_data, terminate, pc, unit, init_pc, created,
          added, started, dropped, finalized>>

Workers == 1..ThreadCount
Units   == 1..MaxUnits

\* Every variable keeps its type: in particular the loop of work_queue_init
\* creates no more than thread_count workers.
TypeOK ==
    /\ work_units \in Seq(Units)
    /\ thread_data \subseteq Workers
    /\ terminate \in [Workers -> BOOLEAN]
    /\ pc \in [Workers -> {"none", "lock", "wait", "run", "exit", "freed"}]
    /\ unit \in [Workers -> {0} \cup Units]
    /\ init_pc \in {"create", "link", "ok", "error"}
    /\ created \in 0..ThreadCount
    /\ added \in 0..MaxUnits
    /\ started \subseteq Units
    /\ dropped \subseteq Units
    /\ finalized \in BOOLEAN

Init ==
    /\ work_units = <<>>
    /\ thread_data = {}
    /\ terminate = [w \in Workers |-> FALSE]
    /\ pc = [w \in Workers |-> "none"]
    /\ unit = [w \in Workers |-> 0]
    /\ init_pc = "create"
    /\ created = 0
    /\ added = 0
    /\ started = {}
    /\ dropped = {}
    /\ finalized = FALSE

-----------------------------------------------------------------------------
(* dynpm_work_queue_init *)

\* The loop condition i < thread_count.
MoreThreads == created < ThreadCount

\* pthread_create succeeds: the new worker runs before it is in thread_data.
CreateThread ==
    /\ init_pc = "create"
    /\ MoreThreads
    /\ created' = created + 1
    /\ pc' = [pc EXCEPT ![created'] = "lock"]
    /\ init_pc' = "link"
    /\ UNCHANGED <<work_units, thread_data, terminate, unit, added, started,
                   dropped, finalized>>

\* The new worker's data goes to the head of work_queue.thread_data.
LinkThread ==
    /\ init_pc = "link"
    /\ thread_data' = thread_data \cup {created}
    /\ init_pc' = IF MoreThreads THEN "create" ELSE "ok"
    /\ UNCHANGED <<work_units, terminate, pc, unit, created, added, started,
                   dropped, finalized>>

\* thread_count < 1, or malloc or pthread_create failed: a nonzero return.
InitFails ==
    /\ init_pc = "create"
    /\ init_pc' = "error"
    /\ UNCHANGED <<work_units, thread_data, terminate, pc, unit, created,
                   added, started, dropped, finalized>>

-----------------------------------------------------------------------------
(* queue_thread *)

\* No work: pthread_cond_wait.
Wait(w) ==
    /\ pc[w] = "lock"
    /\ work_units = <<>>
    /\ ~terminate[w]
    /\ pc' = [pc EXCEPT ![w] = "wait"]
    /\ UNCHANGED <<work_units, thread_data, terminate, unit, init_pc, created,
                   added, started, dropped, finalized>>

\* POSIX lets pthread_cond_wait return with no signal.
SpuriousWakeup(w) ==
    /\ pc[w] = "wait"
    /\ pc' = [pc EXCEPT ![w] = "lock"]
    /\ UNCHANGED <<work_units, thread_data, terminate, unit, init_pc, created,
                   added, started, dropped, finalized>>

\* The head of the list is unlinked and its function called after the unlock.
Take(w) ==
    /\ pc[w] = "lock"
    /\ work_units # <<>>
    /\ ~terminate[w]
    /\ unit' = [unit EXCEPT ![w] = Head(work_units)]
    /\ work_units' = Tail(work_units)
    /\ started' = started \cup {Head(work_units)}
    /\ pc' = [pc EXCEPT ![w] = "run"]
    /\ UNCHANGED <<thread_data, terminate, init_pc, created, added, dropped,
                   finalized>>

\* work_unit->function returns.
Finish(w) ==
    /\ pc[w] = "run"
    /\ unit' = [unit EXCEPT ![w] = 0]
    /\ pc' = [pc EXCEPT ![w] = "lock"]
    /\ UNCHANGED <<work_units, thread_data, terminate, init_pc, created, added,
                   started, dropped, finalized>>

\* terminate is tested after the wait loop and before the list is touched.
Leave(w) ==
    /\ pc[w] = "lock"
    /\ terminate[w]
    /\ pc' = [pc EXCEPT ![w] = "exit"]
    /\ UNCHANGED <<work_units, thread_data, terminate, unit, init_pc, created,
                   added, started, dropped, finalized>>

\* free(worker_thread_data); pthread_exit
Free(w) ==
    /\ pc[w] = "exit"
    /\ pc' = [pc EXCEPT ![w] = "freed"]
    /\ UNCHANGED <<work_units, thread_data, terminate, unit, init_pc, created,
                   added, started, dropped, finalized>>

-----------------------------------------------------------------------------
(* dynpm_work_queue_add and dynpm_work_queue_finalize *)

Waiting == {w \in Workers : pc[w] = "wait"}

\* Mutant: the signal is forgotten.
SignalNobody == UNCHANGED pc

\* pthread_cond_signal: one waiter, if there is one, goes back for the mutex.
Signal ==
    \/ /\ Waiting = {}
       /\ UNCHANGED pc
    \/ \E w \in Waiting : pc' = [pc EXCEPT ![w] = "lock"]

\* Mutant: the unit goes to the head of the list.
AddAtHead ==
    /\ init_pc = "ok"
    /\ added < MaxUnits
    /\ added' = added + 1
    /\ work_units' = <<added'>> \o work_units
    /\ Signal
    /\ UNCHANGED <<thread_data, terminate, unit, init_pc, created, started,
                   dropped, finalized>>

\* The accept thread and the connection threads, started once init succeeded,
\* add at the tail; they keep adding after a finalize.
Add ==
    /\ init_pc = "ok"
    /\ added < MaxUnits
    /\ added' = added + 1
    /\ work_units' = Append(work_units, added')
    /\ Signal
    /\ UNCHANGED <<thread_data, terminate, unit, init_pc, created, started,
                   dropped, finalized>>

\* Mutant: work_queue.thread_data is not reset.
FinalizeKeepsList ==
    /\ init_pc \in {"ok", "error"}
    /\ terminate' = [w \in Workers |-> terminate[w] \/ w \in thread_data]
    /\ dropped' = dropped \cup Range(work_units)
    /\ work_units' = <<>>
    /\ pc' = [w \in Workers |-> IF pc[w] = "wait" THEN "lock" ELSE pc[w]]
    /\ finalized' = TRUE
    /\ UNCHANGED <<thread_data, unit, init_pc, created, added, started>>

\* Mutant: the broadcast is missing.
FinalizeSilently ==
    /\ init_pc \in {"ok", "error"}
    /\ terminate' = [w \in Workers |-> terminate[w] \/ w \in thread_data]
    /\ dropped' = dropped \cup Range(work_units)
    /\ work_units' = <<>>
    /\ thread_data' = {}
    /\ finalized' = TRUE
    /\ UNCHANGED <<pc, unit, init_pc, created, added, started>>

\* Called by _dynpm_server_init_common when init fails, else by the program.
Finalize ==
    /\ init_pc \in {"ok", "error"}
    /\ terminate' = [w \in Workers |-> terminate[w] \/ w \in thread_data]
    /\ dropped' = dropped \cup Range(work_units)
    /\ work_units' = <<>>
    /\ thread_data' = {}
    /\ pc' = [w \in Workers |-> IF pc[w] = "wait" THEN "lock" ELSE pc[w]]
    /\ finalized' = TRUE
    /\ UNCHANGED <<unit, init_pc, created, added, started>>

-----------------------------------------------------------------------------
Worker(w) == Wait(w) \/ Take(w) \/ Finish(w) \/ Leave(w) \/ Free(w)

Next ==
    \/ CreateThread \/ LinkThread \/ InitFails
    \/ \E w \in Workers : Worker(w) \/ SpuriousWakeup(w)
    \/ Add \/ Finalize

\* Threads are scheduled fairly, work functions return, and the failed init
\* of a server reaches the finalize call on its next line.
Fairness ==
    /\ WF_vars(CreateThread \/ LinkThread)
    /\ \A w \in Workers : WF_vars(Worker(w))
    /\ WF_vars(init_pc = "error" /\ Finalize)

Spec == Init /\ [][Next]_vars
FairSpec == Spec /\ Fairness

-----------------------------------------------------------------------------
(* Properties *)

\* No overtaking: when a unit has been taken, every unit added before it has
\* been taken too, or was discarded by a finalize.
StartOrder ==
    \A u \in started, v \in 1..added : v < u => v \in started \cup dropped

Pool == INSTANCE WorkPool WITH
            Idle <- 0, pending <- work_units, running <- unit, stopped <- finalized

\* The list, the wait loop of queue_thread and the terminate flags implement
\* the pool its users rely on (module WorkPool): units are started in the
\* order of their dynpm_work_queue_add, each by a worker that runs nothing
\* else, and none once finalize has run, also while init still links workers.
ImplementsPool == Pool!Spec

\* An added unit is in exactly one place: once in the list, taken, or
\* discarded; and no two workers run the same unit.
OneOutcome ==
    /\ 1..added = Range(work_units) \cup started \cup dropped
    /\ started \cap dropped = {}
    /\ Range(work_units) \cap (started \cup dropped) = {}
    /\ \A i, j \in DOMAIN work_units : work_units[i] = work_units[j] => i = j
    /\ \A v, w \in Workers : unit[v] = unit[w] /\ unit[v] # 0 => v = w

\* One pthread_cond_signal per unit is enough: while there is work and the
\* pool is not finalized, some worker is awake.
NoLostWakeup ==
    work_units # <<>> /\ ~finalized => \E w \in Workers : pc[w] \in {"lock", "run"}

\* finalize never walks freed memory: a worker frees its worker_thread_data
\* only when it is no longer in the thread_data list.
LinkedNotFreed == \A w \in thread_data : pc[w] \notin {"exit", "freed"}

\* Once finalize has run no further unit is taken, although units may still
\* be added and although workers were created before they were linked.
NoStartAfterFinalize == [][finalized => started' = started]_vars

\* A queued unit is taken, unless the pool is finalized.
QueuedUnitRuns ==
    \A u \in Units : u \in Range(work_units) ~> (u \in started \/ finalized)

\* After a finalize, and after a failed init, every worker that was created
\* leaves queue_thread and frees its data.
PoolShutsDown ==
    (finalized \/ init_pc = "error")
        ~> \A w \in Workers : pc[w] \in {"none", "freed"}
=============================================================================
