------------------------------ MODULE ShmMode ------------------------------
(***************************************************************************)
(* Malleability modes through shared memory, src/shm/shm.c: each process   *)
(* reports its mode (dynpm_shm_process_set_malleability_mode), the manager *)
(* asks for the mode all of them agree on                                  *)
(* (dynpm_shm_manager_get_malleability_mode).  A process publishes its     *)
(* control block, and the manager fetches it, by a plain memcpy: word by   *)
(* word, in any order.                                                     *)
(*                                                                         *)
(* payload_bytes of a process is 0 from init on and set_malleability_mode, *)
(* its only writer, keeps it 0, so the test on it is left out.             *)
(***************************************************************************)
EXTENDS Naturals

CONSTANTS
    ProcessCount,  \* processes of the application on this node
    Modes,         \* malleability modes; 0 is "disabled"
    CountMod,      \* the counters wrap at this value (2^32)
    MaxSets        \* bound: calls of set_malleability_mode per process

ASSUME ModeAssumption ==
    /\ ProcessCount \in Nat \ {0}
    /\ 0 \in Modes
    /\ CountMod \in Nat /\ CountMod >= 2
    /\ MaxSets \in Nat

VARIABLES
    shm_meta,      \* each process's block in shared memory
    meta,          \* each process's private block
    todo,          \* words each process has still to publish
    \* the manager
    gpc,           \* where it is in get_malleability_mode
    process_control, \* its copies of the processes' blocks
    i,             \* the process whose block is being fetched
    gtodo,         \* words of that block still to be fetched
    meta_updates,
    read_count,
    result,        \* *mode and *status of the last call
    \* history
    sets,          \* set_malleability_mode calls of each process
    seen,          \* modes each block in shared memory has held during the call
    moved          \* processes that have published a word during the call

pvars == <<shm_meta, meta, todo, sets, seen, moved>>
gvars == <<gpc, process_control, i, gtodo, meta_updates, read_count, result>>
vars == <<pvars, gvars>>

Procs  == 1..ProcessCount
Counts == 0..(CountMod - 1)
Words  == {"malleability_mode", "write_count"}
Blocks == [malleability_mode : Modes, write_count : Counts]
Inc(n) == IF n = CountMod - 1 THEN 0 ELSE n + 1
Dec(n) == IF n = 0 THEN CountMod - 1 ELSE n - 1

\* Every variable keeps its type: the counters stay within uint32_t and the
\* reported mode is one that exists.
TypeOK ==
    /\ shm_meta \in [Procs -> Blocks]
    /\ meta \in [Procs -> Blocks]
    /\ todo \in [Procs -> SUBSET Words]
    /\ gpc \in {"idle", "poll"}
    /\ process_control \in [Procs -> Blocks]
    /\ i \in 1..(ProcessCount + 1)
    /\ gtodo \in SUBSET Words
    /\ meta_updates \in 0..ProcessCount
    /\ read_count \in Counts
    /\ result \in [mode : Modes, status : {"match", "mismatch", "out_of_sync", "none"}]
    /\ sets \in [Procs -> 0..MaxSets]
    /\ seen \in [Procs -> SUBSET Modes]
    /\ moved \in SUBSET Procs

\* After dynpm_shm_manager_init and the processes' attach.
Init ==
    /\ shm_meta = [p \in Procs |-> [malleability_mode |-> 0, write_count |-> 0]]
    /\ meta = shm_meta
    /\ todo = [p \in Procs |-> {}]
    /\ gpc = "idle"
    /\ process_control = shm_meta
    /\ i = 1
    /\ gtodo = {}
    /\ meta_updates = 0
    /\ read_count = 0
    /\ result = [mode |-> 0, status |-> "none"]
    /\ sets = [p \in Procs |-> 0]
    /\ seen = [p \in Procs |-> {0}]
    /\ moved = {}

-----------------------------------------------------------------------------
(* dynpm_shm_process_set_malleability_mode *)

\* The private block is updated, its copy to shared memory begins.
SetMode(p, mode) ==
    /\ todo[p] = {}
    /\ sets[p] < MaxSets
    /\ sets' = [sets EXCEPT ![p] = @ + 1]
    /\ meta' = [meta EXCEPT ![p] = [malleability_mode |-> mode,
                                    write_count |-> Inc(@.write_count)]]
    /\ todo' = [todo EXCEPT ![p] = Words]
    /\ UNCHANGED <<shm_meta, seen, moved, gvars>>

PublishWord(p, k) ==
    /\ k \in todo[p]
    /\ shm_meta' = [shm_meta EXCEPT ![p][k] = meta[p][k]]
    /\ todo' = [todo EXCEPT ![p] = @ \ {k}]
    /\ seen' = [seen EXCEPT ![p] = @ \cup {shm_meta'[p].malleability_mode}]
    /\ moved' = moved \cup {p}
    /\ UNCHANGED <<meta, sets, gvars>>

-----------------------------------------------------------------------------
(* dynpm_shm_manager_get_malleability_mode *)

\* The call: _sync_processes_meta starts with process 1.
GetCall ==
    /\ gpc = "idle"
    /\ gpc' = "poll"
    /\ i' = 1
    /\ gtodo' = Words
    /\ meta_updates' = 0
    /\ seen' = [p \in Procs |-> {shm_meta[p].malleability_mode}]
    /\ moved' = {}
    /\ UNCHANGED <<shm_meta, meta, todo, sets, process_control, read_count, result>>

\* Mutant: the block is not copied, the manager looks at its old copy.
FetchWordStale(k) ==
    /\ gpc = "poll"
    /\ k \in gtodo
    /\ gtodo' = gtodo \ {k}
    /\ UNCHANGED <<pvars, gpc, process_control, i, meta_updates, read_count, result>>

\* One word of the memcpy of process i's block.
FetchWord(k) ==
    /\ gpc = "poll"
    /\ k \in gtodo
    /\ process_control' = [process_control EXCEPT ![i][k] = shm_meta[i][k]]
    /\ gtodo' = gtodo \ {k}
    /\ UNCHANGED <<pvars, gpc, i, meta_updates, read_count, result>>

\* Mutant: read_count is bumped in the loop, at the first update counted.
CountUpdateBumps ==
    /\ gpc = "poll"
    /\ i <= ProcessCount
    /\ gtodo = {}
    /\ LET new == process_control[i].write_count = Dec(read_count)
       IN /\ meta_updates' = IF new THEN meta_updates + 1 ELSE meta_updates
          /\ read_count' = IF new THEN Inc(read_count) ELSE read_count
    /\ i' = i + 1
    /\ gtodo' = IF i = ProcessCount THEN {} ELSE Words
    /\ UNCHANGED <<pvars, gpc, process_control, result>>

\* The block of process i is compared with the manager's read_count - 1.
CountUpdate ==
    /\ gpc = "poll"
    /\ i <= ProcessCount
    /\ gtodo = {}
    /\ meta_updates' = IF process_control[i].write_count = Dec(read_count)
                       THEN meta_updates + 1 ELSE meta_updates
    /\ i' = i + 1
    /\ gtodo' = IF i = ProcessCount THEN {} ELSE Words
    /\ UNCHANGED <<pvars, gpc, process_control, read_count, result>>

\* No mode_mismatch: every copied mode equals first_mode.
Agree == \A p \in 2..ProcessCount :
    process_control[p].malleability_mode = process_control[1].malleability_mode

\* All processes or none have an update: compare the modes; else give up.
Decide ==
    /\ gpc = "poll"
    /\ i > ProcessCount
    /\ gpc' = "idle"
    /\ IF meta_updates \in {0, ProcessCount}
       THEN /\ read_count' = IF meta_updates > 0 THEN Inc(read_count) ELSE read_count
            /\ result' = IF Agree
                         THEN [mode |-> process_control[1].malleability_mode, status |-> "match"]
                         ELSE [mode |-> 0, status |-> "mismatch"]
       ELSE /\ result' = [mode |-> 0, status |-> "out_of_sync"]
            /\ UNCHANGED read_count
    /\ UNCHANGED <<pvars, process_control, i, gtodo, meta_updates>>

-----------------------------------------------------------------------------
Next ==
    \/ \E p \in Procs : \/ \E mode \in Modes : SetMode(p, mode)
                        \/ \E k \in Words : PublishWord(p, k)
    \/ GetCall \/ CountUpdate \/ Decide
    \/ \E k \in Words : FetchWord(k)

Spec == Init /\ [][Next]_vars

-----------------------------------------------------------------------------
(* Properties *)

\* An agreement is never made up: when get_malleability_mode returns a mode,
\* every process's block held that mode at some moment of the call.
AgreementWasReported ==
    [][gpc = "poll" /\ gpc' = "idle" /\ result'.status = "match"
         => \A p \in Procs : result'.mode \in seen[p]]_vars

\* A poll of processes that have all reported equally often, and that none of
\* them changes its block under, is exact, also when the counters wrap: it
\* reports an agreement when the published modes are the same and a mismatch
\* when they are not, and is never "out of sync".  (Where only some processes
\* have reported anew the code and its comments differ: OutOfSyncReported.)
SettledPollExact ==
    [][gpc = "poll" /\ gpc' = "idle" /\ moved = {}
         /\ (\A p, q \in Procs : shm_meta[p].write_count = shm_meta[q].write_count)
         => result'.status =
              IF \A p, q \in Procs :
                   shm_meta[p].malleability_mode = shm_meta[q].malleability_mode
              THEN "match" ELSE "mismatch"]_vars

\* The status "out of sync; need to repoll or give up": a call that has seen
\* an update not read by the manager from some processes only reports it.
OutOfSyncReported ==
    [][gpc = "poll" /\ gpc' = "idle"
         /\ {p \in Procs : process_control[p].write_count = Inc(read_count)}
                \notin {{}, Procs}
         => result'.status = "out_of_sync"]_vars
=============================================================================
