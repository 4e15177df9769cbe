---------------------------- MODULE ShmLifecycle ----------------------------
(***************************************************************************)
(* Life of the shared memory segments, src/shm/shm.c: the manager creates  *)
(* one segment for itself and one per process (dynpm_shm_manager_init),    *)
(* the processes map the manager's and their own                           *)
(* (dynpm_shm_process_attach), use them, and leave                         *)
(* (dynpm_shm_process_detach, dynpm_shm_manager_finalize).  Manager and    *)
(* processes are separate programs that share nothing but the names of the *)
(* segments, so every system call is a step.                               *)
(*                                                                         *)
(* Segment 0 is the manager's, segment p that of the process with pid p.   *)
(* A name refers to a file; a file is known by the segment it was made for *)
(* and the number of the init that made it, and lives on without its name. *)
(* Of a control block the model keeps whether it was published and the     *)
(* counter the other side compares: write_count of the manager, read_count *)
(* of a process.  Publishing and fetching a block is one step here;        *)
(* ShmExchange and ShmMode look into it.                                   *)
(*                                                                         *)
(* shm_fd is a uint32_t, so the tests "shm_fd < 0" never hold: a failed    *)
(* shm_open is noticed by the mmap or ftruncate that follows.              *)
(***************************************************************************)
EXTENDS Naturals

CONSTANTS
    ProcessCount,  \* processes in pid_list
    MaxInits,      \* bound: calls of dynpm_shm_manager_init
    MaxWrites,     \* bound: messages written per init
    MaxReplaced    \* bound: programs that end and leave their pid to another

ASSUME LifecycleAssumption ==
    {ProcessCount, MaxInits, MaxWrites, MaxReplaced} \subseteq Nat \ {0}

Procs    == 1..ProcessCount
Segments == 0..ProcessCount
Files    == Segments \X (1..MaxInits)

VARIABLES
    name,          \* the file each name refers to: an init number, 0 = none
    block,         \* the first 64 bytes of each file
    foreign,       \* "/dynpm_0_0", the segment of another application, is named
    mgr,           \* the manager
    proc,          \* the processes
    replaced,      \* history: programs that have left their pid to another
    detached       \* history: somebody has detached since init was called

vars == <<name, block, foreign, mgr, proc, replaced, detached>>

\* state of a file: empty until ftruncate, zero until a block is published
Blocks == [state : {"none", "empty", "zero", "set"}, count : 0..MaxWrites]

\* pc and i: where dynpm_shm_manager_init is, and with which segment; seg: the
\* mapping of segment 0; inits: the number of this init
Managers ==
    [pc : {"out", "open", "truncate", "publish", "up", "failed"}, i : Segments,
     error_code : BOOLEAN, seg : 0..MaxInits, write_count : 0..MaxWrites,
     inits : 0..MaxInits]

\* manager_control, process_control: the pointer is not NULL; pm, pp: the
\* mapped files, the manager's and the own; job: job_index was fetched after
\* the manager published it.  The last three are history: times the program
\* mapped its own segment; the init after whose return the attach began, 0 if
\* before; a first attach, begun after init returned and before any detach,
\* finalize or crash, and in which no mmap fails.
Programs ==
    [pc : {"out", "fetch", "own", "fetch_own", "attached", "killed", "aborted"},
     manager_control : BOOLEAN, process_control : BOOLEAN,
     pm : 0..MaxInits, pp : 0..MaxInits, job : BOOLEAN, read_count : 0..MaxWrites,
     maps : Nat, since : 0..MaxInits, invited : BOOLEAN]

\* Every variable keeps its type.
TypeOK ==
    /\ name \in [Segments -> 0..MaxInits]
    /\ block \in [Files -> Blocks]
    /\ mgr \in Managers
    /\ proc \in [Procs -> Programs]
    /\ replaced \in 0..MaxReplaced
    /\ {foreign, detached} \subseteq BOOLEAN

NewProgram ==
    [pc |-> "out", manager_control |-> FALSE, process_control |-> FALSE,
     pm |-> 0, pp |-> 0, job |-> FALSE, read_count |-> 0,
     maps |-> 0, since |-> 0, invited |-> FALSE]

Init ==
    /\ name = [s \in Segments |-> 0]
    /\ block = [f \in Files |-> [state |-> "none", count |-> 0]]
    /\ foreign = TRUE
    /\ mgr = [pc |-> "out", i |-> 0, error_code |-> FALSE, seg |-> 0,
              write_count |-> 0, inits |-> 0]
    /\ proc = [p \in Procs |-> NewProgram]
    /\ replaced = 0
    /\ detached = FALSE

-----------------------------------------------------------------------------
(* The manager *)

ManagerInit ==
    /\ mgr.pc = "out" /\ mgr.inits < MaxInits
    /\ mgr' = [pc |-> "open", i |-> 0, error_code |-> FALSE, seg |-> 0,
               write_count |-> 0, inits |-> mgr.inits + 1]
    /\ detached' = FALSE
    /\ UNCHANGED <<name, block, foreign, proc, replaced>>

\* shm_open with O_CREAT and without O_EXCL: a file that has the name is
\* reused, with what it holds.
Open ==
    /\ mgr.pc = "open"
    /\ IF name[mgr.i] = 0
       THEN /\ name' = [name EXCEPT ![mgr.i] = mgr.inits]
            /\ block' = [block EXCEPT ![<<mgr.i, mgr.inits>>].state = "empty"]
       ELSE UNCHANGED <<name, block>>
    /\ mgr' = [mgr EXCEPT !.pc = "truncate",
                          !.seg = IF mgr.i = 0 THEN name'[0] ELSE @]
    /\ UNCHANGED <<foreign, proc, replaced, detached>>

\* The file open in shm_fd: the manager's name may have been removed since
File == <<mgr.i, IF mgr.i = 0 THEN mgr.seg ELSE name[mgr.i]>>

\* ftruncate to the size a file already has leaves its bytes alone.
Truncate ==
    /\ mgr.pc = "truncate"
    /\ block' = [block EXCEPT ![File].state = IF @ = "empty" THEN "zero" ELSE @]
    /\ mgr' = [mgr EXCEPT !.pc = "publish"]
    /\ UNCHANGED <<name, foreign, proc, replaced, detached>>

\* What dynpm_shm_manager_init does after a segment: the next one, or return.
\* An error of one segment does not keep it from going on.
NextSegment(failed) ==
    LET error == mgr.error_code \/ failed IN
    /\ mgr' = IF mgr.i < ProcessCount
              THEN [mgr EXCEPT !.pc = "open", !.i = @ + 1, !.error_code = error]
              ELSE [mgr EXCEPT !.pc = IF error THEN "failed" ELSE "up", !.error_code = error]
    /\ UNCHANGED <<name, foreign, proc, replaced, detached>>

\* Mutant: the block in shared memory is left as it is found.
PublishNothing == mgr.pc = "publish" /\ UNCHANGED block /\ NextSegment(FALSE)

\* mmap, and memcpy of a block whose counters are 0
Publish ==
    /\ mgr.pc = "publish"
    /\ block' = [block EXCEPT ![File] = [state |-> "set", count |-> 0]]
    /\ NextSegment(FALSE)

\* ftruncate or mmap fails, or shm_open does and makes no name.
SegmentFails ==
    /\ mgr.pc \in {"open", "truncate", "publish"}
    /\ NextSegment(TRUE)
    /\ UNCHANGED block

ManagerLeaves ==
    /\ mgr' = [mgr EXCEPT !.pc = "out", !.i = 0, !.seg = 0]
    /\ UNCHANGED <<block, foreign, proc, replaced, detached>>

\* Mutant: the names of the processes' segments are removed too.
ManagerFinalizeAll ==
    mgr.pc \in {"up", "failed"} /\ name' = [s \in Segments |-> 0] /\ ManagerLeaves

\* Only the manager's own name is removed.
ManagerFinalize ==
    /\ mgr.pc \in {"up", "failed"}
    /\ name' = [name EXCEPT ![0] = 0]
    /\ ManagerLeaves

\* The manager's program ends without finalize; a later one starts over.
ManagerCrash ==
    /\ mgr.pc # "out"
    /\ UNCHANGED name
    /\ ManagerLeaves

\* dynpm_shm_manager_write, with _all_processes_read_ready
ManagerWrite ==
    /\ mgr.pc = "up" /\ mgr.write_count < MaxWrites
    /\ \A p \in Procs : block[<<p, name[p]>>].count = mgr.write_count
    /\ mgr' = [mgr EXCEPT !.write_count = @ + 1]
    /\ block' = [block EXCEPT ![<<0, mgr.seg>>].count = mgr.write_count + 1]
    /\ UNCHANGED <<name, foreign, proc, replaced, detached>>

-----------------------------------------------------------------------------
(* dynpm_shm_process_attach *)

OthersUnchanged == UNCHANGED <<name, block, foreign, mgr, replaced, detached>>

\* shm_open of the manager's name.  When there is none the mmap that follows
\* fails, and the call returns with manager_control set.
AttachOpen(p) ==
    /\ proc[p].pc = "out" /\ ~proc[p].manager_control
    /\ proc' = [proc EXCEPT
         ![p].manager_control = TRUE,
         ![p].pc = IF name[0] = 0 THEN "out" ELSE "fetch",
         ![p].pm = name[0],
         ![p].since = IF mgr.pc = "up" THEN mgr.inits ELSE 0,
         ![p].invited = mgr.pc = "up" /\ ~detached /\ ~proc[p].process_control]
    /\ OthersUnchanged

\* assert(manager_control == NULL)
AttachAgain(p) ==
    /\ proc[p].pc = "out" /\ proc[p].manager_control
    /\ proc' = [proc EXCEPT ![p].pc = "aborted", ![p].invited = FALSE]
    /\ OthersUnchanged

\* Mutant: the assertion on process_control is missing.
MayAllocateAlways(p) == TRUE

\* assert(process_control == NULL)
MayAllocate(p) == ~proc[p].process_control

\* The manager's block is copied; a file without bytes ends the program with
\* a bus error.
AttachFetch(p) ==
    /\ proc[p].pc = "fetch"
    /\ LET state == block[<<0, proc[p].pm>>].state IN
       proc' = [proc EXCEPT
         ![p].job = state = "set",
         ![p].pc = IF state = "empty" THEN "killed"
                   ELSE IF MayAllocate(p) THEN "own" ELSE "aborted"]
    /\ OthersUnchanged

\* shm_open and mmap of the own segment; without a file the call returns with
\* both pointers set.
AttachOwn(p) ==
    /\ proc[p].pc = "own"
    /\ proc' = [proc EXCEPT
         ![p].process_control = TRUE,
         ![p].pp = name[p],
         ![p].pc = IF name[p] = 0 THEN "out" ELSE "fetch_own",
         ![p].maps = IF name[p] = 0 THEN @ ELSE @ + 1]
    /\ OthersUnchanged

AttachFetchOwn(p) ==
    /\ proc[p].pc = "fetch_own"
    /\ LET own == block[<<p, proc[p].pp>>] IN
       proc' = [proc EXCEPT
         ![p].pc = IF own.state = "empty" THEN "killed" ELSE "attached",
         ![p].read_count = own.count]
    /\ OthersUnchanged

\* mmap fails although the name is there: the call returns as it does without
\* one.
AttachFails(p) ==
    /\ \/ /\ proc[p].pc = "out" /\ ~proc[p].manager_control
          /\ proc' = [proc EXCEPT ![p].manager_control = TRUE, ![p].pm = 0,
                                  ![p].since = 0, ![p].invited = FALSE]
       \/ /\ proc[p].pc = "own"
          /\ proc' = [proc EXCEPT ![p].process_control = TRUE, ![p].pc = "out",
                                  ![p].invited = FALSE]
    /\ OthersUnchanged

-----------------------------------------------------------------------------
(* The other operations of a process *)

\* The name is made from the fetched job_index and application_index, which
\* are 0 if the manager had not published them.  The own segment stays mapped
\* and process_control set.
Detach(p) ==
    /\ proc[p].pc = "attached"
    /\ IF proc[p].job THEN name' = [name EXCEPT ![0] = 0] /\ UNCHANGED foreign
                      ELSE foreign' = FALSE /\ UNCHANGED name
    /\ proc' = [proc EXCEPT ![p].manager_control = FALSE, ![p].pm = 0,
                            ![p].pc = "out", ![p].invited = FALSE]
    /\ detached' = TRUE
    /\ UNCHANGED <<block, mgr, replaced>>

\* The private block, with counter n, is copied to the own segment.
PublishOwn(p, n) ==
    /\ proc[p].pc = "attached"
    /\ proc' = [proc EXCEPT ![p].read_count = n]
    /\ block' = [block EXCEPT ![<<p, proc[p].pp>>] = [state |-> "set", count |-> n]]
    /\ UNCHANGED <<name, foreign, mgr, replaced, detached>>

\* dynpm_shm_process_read finds a message
Read(p) ==
    /\ PublishOwn(p, proc[p].read_count + 1)
    /\ proc[p].read_count + 1 = block[<<0, proc[p].pm>>].count

\* dynpm_shm_process_set_malleability_mode publishes the counter with the mode.
SetMode(p) == PublishOwn(p, proc[p].read_count)

\* The program ends, whatever it was doing, and the pid is given to another
\* one, or kept by exec.  pid_list names running programs, so this happens
\* between two sessions of the manager.
Replace(p) ==
    /\ mgr.pc = "out" /\ replaced < MaxReplaced
    /\ replaced' = replaced + 1
    /\ proc' = [proc EXCEPT ![p] = NewProgram]
    /\ UNCHANGED <<name, block, foreign, mgr, detached>>

-----------------------------------------------------------------------------
Manager ==
    \/ ManagerInit \/ Open \/ Truncate \/ Publish \/ SegmentFails
    \/ ManagerFinalize \/ ManagerCrash \/ ManagerWrite

Process(p) ==
    \/ AttachOpen(p) \/ AttachAgain(p) \/ AttachFetch(p) \/ AttachOwn(p)
    \/ AttachFetchOwn(p) \/ AttachFails(p) \/ Detach(p) \/ Read(p) \/ SetMode(p) \/ Replace(p)

Next == Manager \/ \E p \in Procs : Process(p)

Spec == Init /\ [][Next]_vars

-----------------------------------------------------------------------------
(* Properties *)

\* A program's first attach, unless mmap fails in it, succeeds if it begins after dynpm_shm_manager_init
\* returned 0 and before anybody detached or the manager left, whatever happens
\* while it is under way, and whatever earlier inits and programs with its pid
\* left behind.
InvitedSucceeds ==
    \A p \in Procs : proc[p].invited =>
        proc[p].pc \in {"fetch", "own", "fetch_own", "attached"}

\* A process that attached after the init of the manager that now runs shares
\* that manager's segment, its private counter is the published one, and it
\* is at most one message behind: counters left in a reused process segment
\* by an earlier run do not make it miss or repeat a message.
KeepsUp ==
    \A p \in Procs :
        proc[p].pc = "attached" /\ mgr.pc = "up" /\ proc[p].since = mgr.inits =>
            /\ proc[p].pm = mgr.seg
            /\ block[<<p, name[p]>>].count = proc[p].read_count
            /\ mgr.write_count \in {proc[p].read_count, proc[p].read_count + 1}

\* Only a process that began to attach before dynpm_shm_manager_init returned
\* can have taken job_index 0 from a block that was not published yet, so that
\* its detach removes the segment of job 0 instead of the one it used.
DetachUnlinksOwn ==
    [][foreign' # foreign =>
         \E p \in Procs : proc'[p].pc # proc[p].pc /\ proc[p].since = 0]_vars

\* A program maps its own segment at most once, although neither a failed
\* attach nor a detach gives it back: the assertions stop every second try.
MapsOnce == \A p \in Procs : proc[p].maps <= 1
=============================================================================
