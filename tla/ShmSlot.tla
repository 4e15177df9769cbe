------------------------------ MODULE ShmSlot ------------------------------
(***************************************************************************)
(* What the payload exchange of src/shm/shm.c promises, without counters,  *)
(* control blocks and polls: the manager puts one message for all          *)
(* processes when none of them has one left, and each process takes it     *)
(* once.  It takes all of it, except when its read overlapped the          *)
(* publication: such a read is torn and may be handed any length.          *)
(***************************************************************************)
CONSTANTS Procs, Messages, None

VARIABLES
    pending,   \* the message each process has still to take, or None
    last       \* what each process took last: the message (content), how
               \* many bytes it was given, and whether the read was torn

Took(m, n, torn) == [content |-> m, bytes |-> n, torn |-> torn]

Init ==
    /\ pending = [p \in Procs |-> None]
    /\ last = [p \in Procs |-> Took(None, None, FALSE)]

\* dynpm_shm_manager_write returns 0.
Put(m) ==
    /\ \A p \in Procs : pending[p] = None
    /\ pending' = [p \in Procs |-> m]
    /\ UNCHANGED last

\* dynpm_shm_process_read returns data.
Get(p) ==
    /\ pending[p] # None
    /\ \E n \in Messages \cup {None}, torn \in BOOLEAN :
         /\ torn \/ n = pending[p]
         /\ last' = [last EXCEPT ![p] = Took(pending[p], n, torn)]
    /\ pending' = [pending EXCEPT ![p] = None]

Next == (\E m \in Messages : Put(m)) \/ (\E p \in Procs : Get(p))

Spec == Init /\ [][Next]_<<pending, last>>
=============================================================================
