----------------------------- MODULE TbonWaits -----------------------------
(***************************************************************************)
(* The way back up the tree overlay: after a message went down (Tbon) each *)
(* vertex waits for its children with dynpm_tbon_children_done_wait_timeout*)
(* of src/network/tbon.c and then reports PROCESSES_DONE to its parent.    *)
(* dynpm_tbon_initialized_wait_timeout and _finalized_wait_timeout wait in *)
(* the same way for a flag, a count of one.                                *)
(*                                                                         *)
(* Who calls the wait, counts the reports and signals children_done_cond   *)
(* is the daemon that uses the library (external): it does so under the    *)
(* vertex's mutex, signals when the count is complete, and may signal for  *)
(* each report.                                                            *)
(***************************************************************************)
EXTENDS Tbon

CONSTANTS
    Seconds, Nanoseconds,  \* how long a wait is asked to last
    Micros,                \* microseconds per second
    Nanos                  \* nanoseconds per microsecond

ASSUME WaitAssumption ==
    /\ {Seconds, Nanoseconds} \subseteq Nat
    /\ {Micros, Nanos} \subseteq Nat \ {0}

VARIABLES
    children_done,  \* reports each vertex has counted
    wpc,            \* before, in or after the vertex's wait
    reported,       \* the vertices that have reported to their parent
    \* history
    faults          \* a wait ended early, a send failed, a connection or a message was lost

wvars == <<children_done, wpc, reported, faults>>

WaitsInit ==
    /\ Init
    /\ children_done = [v \in Nodes |-> 0]
    /\ wpc = [v \in Nodes |-> "before"]
    /\ reported = {}
    /\ faults = FALSE

-----------------------------------------------------------------------------
(* The deadline *)

NanosPerSecond == Micros * Nanos
Requested == Seconds * NanosPerSecond + Nanoseconds

\* _create_time_offset at usec microseconds after a full second: the field for
\* nanoseconds gets the sum of microseconds and nanoseconds.
DeadlineNsec(usec) == usec + Nanoseconds

\* The time from now to the deadline.
TimeLeft(usec) == Seconds * NanosPerSecond + DeadlineNsec(usec) - usec * Nanos

\* pthread_cond_timedwait refuses a tv_nsec of a second or more, and returns
\* at once when the deadline has passed.
Expired(usec) == DeadlineNsec(usec) >= NanosPerSecond \/ TimeLeft(usec) <= 0

-----------------------------------------------------------------------------
(* The wait *)

\* Mutant: the count is not tested.
CompleteUntested(v) == FALSE

Complete(v) == ~(children_done[v] < total_children[v])

\* The call, up to the wait: a leaf, a vertex whose children are done and one
\* whose deadline is bad do not wait.
WaitBegin(v, usec) ==
    /\ wpc[v] = "before"
    /\ spc[v] \in {"sent", "error"}
    /\ wpc' = [wpc EXCEPT ![v] =
         IF total_children[v] = 0 \/ Complete(v) \/ Expired(usec) THEN "after" ELSE "waiting"]
    /\ faults' = (faults \/ spc[v] = "error" \/ (~Complete(v) /\ Expired(usec)))
    /\ UNCHANGED <<vars, children_done, reported>>

\* Mutant: the wait has no deadline.
TimeoutNever(v) == FALSE /\ UNCHANGED <<vars, wvars>>

\* The deadline passes, or the wait ends for no reason: the condition is not
\* tested again.
Timeout(v) ==
    /\ wpc[v] = "waiting"
    /\ wpc' = [wpc EXCEPT ![v] = "after"]
    /\ faults' = TRUE
    /\ UNCHANGED <<vars, children_done, reported>>

\* Mutant: a vertex may report before its wait.
MayReportAlways(v) == TRUE

MayReport(v) == wpc[v] = "after"

\* The vertex reports, and the parent counts the report and signals.
Report(v, signal) ==
    LET p == parent_id[v]
        complete == ~(children_done[p] + 1 < total_children[p]) IN
    /\ v # 0 /\ v \in created /\ p \in created
    /\ MayReport(v)
    /\ v \in up /\ v \notin reported
    /\ reported' = reported \cup {v}
    /\ children_done' = [children_done EXCEPT ![p] = @ + 1]
    /\ complete => signal
    /\ wpc' = IF signal /\ wpc[p] = "waiting" THEN [wpc EXCEPT ![p] = "after"] ELSE wpc
    /\ faults' = (faults \/ (signal /\ wpc[p] = "waiting" /\ ~complete))
    /\ UNCHANGED vars

\* The message on its way down, and what gets lost: a connection, or the message
\* in its list
Down(v) == Vertex(v) /\ UNCHANGED wvars
Lost(v) ==
    /\ Disconnect(v) \/ Overtaken(v)
    /\ faults' = TRUE
    /\ UNCHANGED <<children_done, wpc, reported>>

Waiting(v) == \/ \E usec \in 0..(Micros - 1) : WaitBegin(v, usec)
              \/ Timeout(v)
              \/ \E signal \in BOOLEAN : Report(v, signal)

WaitsNext == \E v \in Nodes : Down(v) \/ Lost(v) \/ Waiting(v)

WaitsSpec == WaitsInit /\ [][WaitsNext]_<<vars, wvars>>

\* The threads of every vertex are scheduled, and deadlines pass.  No step can
\* be repeated for ever, so that one condition for all the threads amounts to
\* one for each.
FairWaitsSpec ==
    WaitsSpec /\ WF_<<vars, wvars>>(\E v \in Nodes : Down(v) \/ Waiting(v))

-----------------------------------------------------------------------------
(* Properties *)

\* No wakeup is lost: a vertex never waits when all its children have already
\* reported, in whatever order reports and the wait begin.
NoLostReport ==
    \A v \in Nodes : wpc[v] = "waiting" => children_done[v] < total_children[v]

\* The vertices below v and v itself
Subtree(v) ==
    LET below[c \in Nodes] == c = v \/ (c # 0 /\ below[ParentId(c)])
    IN {c \in Nodes : below[c]}

\* If no wait of the tree ended early, no send failed and no connection or
\* message was lost, a vertex that comes back from its wait can rely on its whole subtree:
\* everybody below has received the message and come back from its own wait.
SubtreeDone ==
    ~faults => \A v \in Nodes : wpc[v] = "after" =>
        \A c \in Subtree(v) : copies[c] = 1 /\ wpc[c] = "after"

\* A vertex that has received the message comes back from its wait, whatever
\* happens to its children: in the end none is still waiting.
WaitReturns == <>[](\A v \in Nodes : copies[v] = 1 => wpc[v] = "after")
============================================================================
