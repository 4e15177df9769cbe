---------------------------- MODULE ShmExchange ----------------------------
(***************************************************************************)
(* Payload exchange through shared memory, src/shm/shm.c: one manager      *)
(* (dynpm_shm_manager_write) and ProcessCount processes                    *)
(* (dynpm_shm_process_read), each a single thread of its own address       *)
(* space.  There is no lock: the manager bumps write_count when it has     *)
(* stored a payload, a process bumps its own read_count when it has copied *)
(* it out, and the manager stores the next payload only when every         *)
(* read_count it polls equals its write_count.                             *)
(*                                                                         *)
(* A control block is published and fetched by a plain 64-byte memcpy.     *)
(* Its 32-bit words are copied whole but in no guaranteed order, so the    *)
(* two words of the manager's block the exchange depends on are copied by  *)
(* separate steps in any order.  The payload is stored before the block is *)
(* published (the program order of two memcpy calls, which x86 keeps).     *)
(*                                                                         *)
(* A message is represented by its length, payload_bytes.  What a read     *)
(* hands over is the first bytes of the payload area, as many as the       *)
(* payload_bytes word it has fetched says: buf keeps the message that lay  *)
(* in the area (content) and that length (bytes) apart.                    *)
(***************************************************************************)
EXTENDS Naturals, Sequences

CONSTANTS
    ProcessCount,  \* processes of the application on this node
    PayloadMax,    \* payload_max: a payload is shorter than this
    CountMod       \* read_count and write_count wrap at this value (2^32)

ASSUME ShmAssumption ==
    /\ ProcessCount \in Nat \ {0}
    /\ PayloadMax \in Nat
    /\ CountMod \in Nat /\ CountMod >= 2

VARIABLES
    shm_mgr,      \* the manager's control block in shared memory
    shm_payload,  \* the manager's payload area in shared memory
    shm_proc,     \* read_count in each process's block in shared memory
    \* the manager
    mpc,          \* where the manager is in dynpm_shm_manager_write
    mgr,          \* its private control block
    msg,          \* the payload argument
    poll,         \* i and ready of _all_processes_read_ready
    mtodo,        \* words of the block still to be published
    \* the processes
    ppc,          \* where each process is in dynpm_shm_process_read
    read_count,   \* its private read_count
    pmgr,         \* its copy of the manager's block
    ptodo,        \* words of the block still to be fetched
    buf,          \* what the last read that returned data stored in *read_buffer
    \* history
    overlapped,   \* the fetch of a read under way overlapped a publication
    unread        \* messages written that each process has not yet returned

mvars == <<shm_mgr, shm_payload, mpc, mgr, msg, poll, mtodo>>
pvars == <<shm_proc, ppc, read_count, pmgr, ptodo, buf>>
vars == <<mvars, pvars, overlapped, unread>>

Procs    == 1..ProcessCount
Counts   == 0..(CountMod - 1)
Messages == 1..(PayloadMax - 1)
Words    == {"write_count", "payload_bytes"}
Torn     == 0    \* a payload area that is being overwritten
Inc(n)   == IF n = CountMod - 1 THEN 0 ELSE n + 1
Dec(n)   == IF n = 0 THEN CountMod - 1 ELSE n - 1

PollStart == [i |-> 1, ready |-> 0]   \* nobody polled

Blocks == [write_count : Counts, payload_bytes : Messages \cup {0}]
Copies == [content : Messages \cup {Torn}, bytes : Messages \cup {0}, torn : BOOLEAN]

\* Every variable keeps its type: in particular both counters stay within
\* uint32_t through the increments of manager_write and process_read.
TypeOK ==
    /\ shm_mgr \in Blocks
    /\ shm_payload \in Messages \cup {Torn}
    /\ shm_proc \in [Procs -> Counts]
    /\ mpc \in {"idle", "poll", "store", "publish"}
    /\ mgr \in Blocks
    /\ msg \in Messages \cup {0}
    /\ poll \in [i : 1..(ProcessCount + 1), ready : 0..ProcessCount]
    /\ mtodo \in SUBSET Words
    /\ ppc \in [Procs -> {"idle", "fetch", "copy", "ack", "missed"}]
    /\ read_count \in [Procs -> Counts]
    /\ pmgr \in [Procs -> Blocks]
    /\ ptodo \in [Procs -> SUBSET Words]
    /\ buf \in [Procs -> Copies]
    /\ overlapped \in [Procs -> BOOLEAN]
    /\ unread \in [Procs -> Seq(Messages)]

\* dynpm_shm_manager_init and every dynpm_shm_process_attach have returned.
Init ==
    /\ mgr = [write_count |-> 0, payload_bytes |-> 0]
    /\ shm_mgr = mgr
    /\ shm_payload = Torn
    /\ shm_proc = [p \in Procs |-> 0]
    /\ mpc = "idle"
    /\ msg = 0
    /\ poll = PollStart
    /\ mtodo = {}
    /\ ppc = [p \in Procs |-> "idle"]
    /\ read_count = [p \in Procs |-> 0]
    /\ pmgr = [p \in Procs |-> mgr]
    /\ ptodo = [p \in Procs |-> {}]
    /\ buf = [p \in Procs |-> [content |-> Torn, bytes |-> 0, torn |-> FALSE]]
    /\ overlapped = [p \in Procs |-> FALSE]
    /\ unread = [p \in Procs |-> <<>>]

-----------------------------------------------------------------------------
(* dynpm_shm_manager_write *)

\* The arguments are valid (payload # NULL, 0 < payload_bytes < payload_max;
\* otherwise -1 or -3 and nothing changes): poll the processes.
WriteCall(m) ==
    /\ mpc = "idle"
    /\ mpc' = "poll"
    /\ msg' = m
    /\ poll' = PollStart
    /\ UNCHANGED <<shm_mgr, shm_payload, mgr, mtodo, pvars, overlapped, unread>>

\* Mutant: any process block that was ever published counts as ready.
PollProcessLagging ==
    /\ mpc = "poll"
    /\ poll.i <= ProcessCount
    /\ poll' = [i |-> poll.i + 1,
                ready |-> IF shm_proc[poll.i] \in {mgr.write_count, Dec(mgr.write_count)}
                          THEN poll.ready + 1 ELSE poll.ready]
    /\ UNCHANGED <<shm_mgr, shm_payload, mpc, mgr, msg, mtodo, pvars, overlapped, unread>>

\* One iteration of _all_processes_read_ready: fetch the block of process i.
PollProcess ==
    /\ mpc = "poll"
    /\ poll.i <= ProcessCount
    /\ poll' = [i |-> poll.i + 1,
                ready |-> IF shm_proc[poll.i] = mgr.write_count
                          THEN poll.ready + 1 ELSE poll.ready]
    /\ UNCHANGED <<shm_mgr, shm_payload, mpc, mgr, msg, mtodo, pvars, overlapped, unread>>

\* Not all are ready: manager_write returns -2 and the caller may retry.
NotReady ==
    /\ mpc = "poll"
    /\ poll.i > ProcessCount
    /\ poll.ready # ProcessCount
    /\ mpc' = "idle"
    /\ poll' = PollStart
    /\ UNCHANGED <<shm_mgr, shm_payload, mgr, msg, mtodo, pvars, overlapped, unread>>

\* Mutant: one process that is ready is enough.
AllReadyAny ==
    /\ mpc = "poll"
    /\ poll.i > ProcessCount
    /\ poll.ready >= 1
    /\ mpc' = "store"
    /\ shm_payload' = Torn
    /\ poll' = PollStart
    /\ UNCHANGED <<shm_mgr, mgr, msg, mtodo, pvars, overlapped, unread>>

\* All are ready: the payload area is being overwritten from here on.
AllReady ==
    /\ mpc = "poll"
    /\ poll.i > ProcessCount
    /\ poll.ready = ProcessCount
    /\ mpc' = "store"
    /\ shm_payload' = Torn
    /\ poll' = PollStart
    /\ UNCHANGED <<shm_mgr, mgr, msg, mtodo, pvars, overlapped, unread>>

\* Mutant: payload_bytes is not set, the block keeps the last message's.
StorePayloadLength ==
    /\ mpc = "store"
    /\ shm_payload' = msg
    /\ mgr' = [mgr EXCEPT !.write_count = Inc(@)]
    /\ mpc' = "publish"
    /\ mtodo' = Words
    /\ unread' = [p \in Procs |-> Append(unread[p], msg)]
    /\ overlapped' = [p \in Procs |-> overlapped[p] \/ ppc[p] = "fetch"]
    /\ UNCHANGED <<shm_mgr, msg, poll, pvars>>

\* The payload is in place; payload_bytes and write_count are set privately.
StorePayload ==
    /\ mpc = "store"
    /\ shm_payload' = msg
    /\ mgr' = [write_count |-> Inc(mgr.write_count), payload_bytes |-> msg]
    /\ mpc' = "publish"
    /\ mtodo' = Words
    /\ unread' = [p \in Procs |-> Append(unread[p], msg)]
    /\ overlapped' = [p \in Procs |-> overlapped[p] \/ ppc[p] = "fetch"]
    /\ UNCHANGED <<shm_mgr, msg, poll, pvars>>

\* One word of the memcpy to shm_base; after the last one, return 0.
PublishWord(k) ==
    /\ mpc = "publish"
    /\ k \in mtodo
    /\ shm_mgr' = [shm_mgr EXCEPT ![k] = mgr[k]]
    /\ mtodo' = mtodo \ {k}
    /\ mpc' = IF mtodo' = {} THEN "idle" ELSE "publish"
    /\ UNCHANGED <<shm_payload, mgr, msg, poll, pvars, overlapped, unread>>

-----------------------------------------------------------------------------
(* dynpm_shm_process_read *)

ReadCall(p) ==
    /\ ppc[p] = "idle"
    /\ ppc' = [ppc EXCEPT ![p] = "fetch"]
    /\ ptodo' = [ptodo EXCEPT ![p] = Words]
    /\ overlapped' = [overlapped EXCEPT ![p] = (mpc = "publish")]
    /\ UNCHANGED <<mvars, shm_proc, read_count, pmgr, buf, unread>>

\* One word of the memcpy from the manager's shm_base.
FetchWord(p, k) ==
    /\ ppc[p] = "fetch"
    /\ k \in ptodo[p]
    /\ pmgr' = [pmgr EXCEPT ![p][k] = shm_mgr[k]]
    /\ ptodo' = [ptodo EXCEPT ![p] = @ \ {k}]
    /\ UNCHANGED <<mvars, shm_proc, ppc, read_count, buf, overlapped, unread>>

\* Mutant: the counters are compared as <, so the wrap-around is a miss.
DecideByOrder(p) ==
    /\ ppc[p] = "fetch"
    /\ ptodo[p] = {}
    /\ ppc' = [ppc EXCEPT ![p] =
                 IF read_count[p] = pmgr[p].write_count THEN "idle"
                 ELSE IF read_count[p] + 1 = pmgr[p].write_count THEN "copy"
                 ELSE "missed"]
    /\ overlapped' = [overlapped EXCEPT ![p] = @ /\ ppc'[p] = "copy"]
    /\ UNCHANGED <<mvars, shm_proc, read_count, pmgr, ptodo, buf, unread>>

\* In sync: 0 bytes.  One behind: copy the payload.  Else: "missed message",
\* and every later read finds the same.
Decide(p) ==
    /\ ppc[p] = "fetch"
    /\ ptodo[p] = {}
    /\ ppc' = [ppc EXCEPT ![p] =
                 IF read_count[p] = pmgr[p].write_count THEN "idle"
                 ELSE IF read_count[p] = Dec(pmgr[p].write_count) THEN "copy"
                 ELSE "missed"]
    /\ overlapped' = [overlapped EXCEPT ![p] = @ /\ ppc'[p] = "copy"]
    /\ UNCHANGED <<mvars, shm_proc, read_count, pmgr, ptodo, buf, unread>>

\* As many bytes of the payload area as the fetched payload_bytes says have
\* been copied out (the copy began when ppc became "copy").  The word may be
\* that of an earlier message: write_count and payload_bytes are fetched, and
\* published, in no guaranteed order.
CopyPayload(p) ==
    /\ ppc[p] = "copy"
    /\ buf' = [buf EXCEPT ![p] = [content |-> shm_payload,
                                  bytes |-> pmgr[p].payload_bytes,
                                  torn |-> overlapped[p]]]
    /\ read_count' = [read_count EXCEPT ![p] = Inc(@)]
    /\ ppc' = [ppc EXCEPT ![p] = "ack"]
    /\ overlapped' = [overlapped EXCEPT ![p] = FALSE]
    /\ UNCHANGED <<mvars, shm_proc, pmgr, ptodo, unread>>

\* Mutant: read_count is bumped but the block is not copied to shared memory.
PublishAckPrivately(p) ==
    /\ ppc[p] = "ack"
    /\ ppc' = [ppc EXCEPT ![p] = "idle"]
    /\ unread' = [unread EXCEPT ![p] = Tail(@)]
    /\ UNCHANGED <<mvars, shm_proc, read_count, pmgr, ptodo, buf, overlapped>>

\* The process's block, with the new read_count, reaches shared memory.
PublishAck(p) ==
    /\ ppc[p] = "ack"
    /\ shm_proc' = [shm_proc EXCEPT ![p] = read_count[p]]
    /\ ppc' = [ppc EXCEPT ![p] = "idle"]
    /\ unread' = [unread EXCEPT ![p] = Tail(@)]
    /\ UNCHANGED <<mvars, read_count, pmgr, ptodo, buf, overlapped>>

-----------------------------------------------------------------------------
Manager ==
    \/ \E m \in Messages : WriteCall(m)
    \/ PollProcess \/ NotReady \/ AllReady \/ StorePayload
    \/ \E k \in Words : PublishWord(k)

Process(p) ==
    \/ ReadCall(p) \/ Decide(p) \/ CopyPayload(p) \/ PublishAck(p)
    \/ \E k \in Words : FetchWord(p, k)

Next == Manager \/ \E p \in Procs : Process(p)

Spec == Init /\ [][Next]_vars

\* The callers poll: the manager retries its write, each process its read.
FairSpec == Spec /\ WF_vars(Manager) /\ \A p \in Procs : WF_vars(Process(p))

-----------------------------------------------------------------------------
(* Properties *)

\* The "missed message from the manager" branch of process_read is dead: at
\* no interleaving, and across the wrap-around of the counters, is a process
\* more than one message behind the block it fetched.
NeverMissed == \A p \in Procs : ppc[p] # "missed"

\* The manager never overwrites the payload area while a process is copying
\* from it or still has to.
NoOverwrite ==
    mpc = "store" => \A p \in Procs : ppc[p] # "copy" /\ unread[p] = <<>>

\* A process returns every message once, in the order written, and never from
\* a half-written payload area: what process_read has copied when it
\* acknowledges is the oldest message it has not returned yet.  It is all of
\* that message unless the fetch of the control block overlapped its
\* publication: then the length may be an earlier message's, and a truncated
\* or over-long copy is acknowledged like any other.
ReadsInOrder ==
    \A p \in Procs : ppc[p] = "ack" =>
        /\ unread[p] # <<>>
        /\ buf[p].content = Head(unread[p])
        /\ buf[p].torn \/ buf[p].bytes = Head(unread[p])

\* The acknowledged counters are a faithful account of what was delivered: a
\* process is at most one message behind, and it is behind exactly when the
\* read_count it has published differs from the manager's write_count.
CountersAgree ==
    \A p \in Procs :
        /\ Len(unread[p]) = IF shm_proc[p] = mgr.write_count THEN 0 ELSE 1
        /\ shm_proc[p] \in {mgr.write_count, Dec(mgr.write_count)}

\* The exchange is a slot that holds one message for everybody.  A process has
\* a message to take while the read_count it has published is behind and it has
\* not copied the payload yet; the message is what lies in shared memory.
Slot == INSTANCE ShmSlot WITH
    None    <- Torn,
    pending <- [p \in Procs |-> IF shm_proc[p] = mgr.write_count \/ ppc[p] = "ack"
                                THEN Torn ELSE shm_payload],
    last    <- buf

\* Through every interleaving of the copies, torn blocks and the wrap-around of
\* the counters, each message reaches every process once, in the order written
\* and before the next one is stored; and all of it, unless the process fetched
\* the control block while the manager was publishing it.  Only then can the
\* payload_bytes that process_read copies by be another message's.
ImplementsSlot == Slot!Spec

\* A manager that keeps retrying gets to write again and again: it never
\* waits for processes that wait for it.
WritesGoThrough == []<>(mpc = "store")
=============================================================================
