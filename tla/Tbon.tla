-------------------------------- MODULE Tbon --------------------------------
(***************************************************************************)
(* The tree overlay of src/network/tbon.c: the edges a vertex computes for *)
(* itself from its id, the degree and the number of nodes, and a message   *)
(* sent down the tree.  Each vertex runs on a host of its own and forwards *)
(* what it receives with dynpm_send_message_to_tbon_children, which gives  *)
(* up at the first child whose connection is gone.  A message that was     *)
(* linked into the outgoing list of a connection may still be lost there   *)
(* (MessageQueue): the send has returned 0 by then.                        *)
(***************************************************************************)
EXTENDS Integers, FiniteSets

CONSTANTS
    Degree,  \* tbon_vertex->degree
    Total    \* tbon_vertex->total_nodes

ASSUME TbonAssumption == Degree \in Nat \ {0} /\ Total \in Nat \ {0}

Nodes == 0..(Total - 1)
Slots == 0..(Degree - 1)

\* Mutant: the parent of a vertex as if ids started at 1.
ParentIdFromOne(id) == IF id = 0 THEN -1 ELSE id \div Degree

\* parent_id of dynpm_compute_local_tbon_edges.
ParentId(id) == IF id = 0 THEN -1 ELSE (id - 1) \div Degree

\* children_ids[i] of dynpm_compute_local_tbon_edges.
ChildId(id, i) ==
    LET child == Degree * id + i + 1 IN IF child >= Total THEN -1 ELSE child

\* The scan of dynpm_initialize_tbon_vertex: it walks the nodes in order and
\* advances child_index when the node is the child it looks for, until it has
\* Degree of them.  child_index[n] is its value after n nodes.
Scan(ids) ==
    LET child_index[n \in 0..Total] ==
          IF n = 0 THEN 0
          ELSE LET k == child_index[n - 1] IN
               IF k < Degree /\ ids[k] = n - 1 THEN k + 1 ELSE k
    IN child_index[Total]

-----------------------------------------------------------------------------
VARIABLES
    created,         \* the vertices that have been initialized
    parent_id, children_ids, total_children,  \* their fields
    up,      \* the vertices whose connection from the parent is in the table
    inbox,   \* copies of the message on their way to each vertex: in the
             \* outgoing list of the parent's connection, or sent from it
    copies,  \* copies each vertex has received
    slot,    \* child_id of the vertex's send loop
    spc,     \* "idle", or where dynpm_send_message_to_tbon_children is
    \* history
    overtaken \* the vertices whose message was lost in the outgoing list

edges == <<created, parent_id, children_ids, total_children>>
vars == <<edges, up, inbox, copies, slot, spc, overtaken>>

\* The daemons are connected, no vertex is initialized, and the root is about
\* to receive the message.
Init ==
    /\ created = {}
    /\ parent_id = [v \in Nodes |-> -1]
    /\ children_ids = [v \in Nodes |-> [i \in Slots |-> -1]]
    /\ total_children = [v \in Nodes |-> 0]
    /\ up = Nodes \ {0}
    /\ inbox = [v \in Nodes |-> IF v = 0 THEN 1 ELSE 0]
    /\ copies = [v \in Nodes |-> 0]
    /\ slot = [v \in Nodes |-> 0]
    /\ spc = [v \in Nodes |-> "idle"]
    /\ overtaken = {}

\* dynpm_initialize_tbon_vertex, when CREATE_TBON arrives.
Initialize(v) ==
    /\ v \notin created
    /\ created' = created \cup {v}
    /\ parent_id' = [parent_id EXCEPT ![v] = ParentId(v)]
    /\ children_ids' = [children_ids EXCEPT ![v] = [i \in Slots |-> ChildId(v, i)]]
    /\ total_children' = [total_children EXCEPT ![v] = Scan(children_ids'[v])]
    /\ UNCHANGED <<up, inbox, copies, slot, spc, overtaken>>

\* The vertex's handler gets the message and forwards it.
Receive(v) ==
    /\ v \in created
    /\ inbox[v] > 0
    /\ spc[v] # "loop"
    /\ inbox' = [inbox EXCEPT ![v] = @ - 1]
    /\ copies' = [copies EXCEPT ![v] = @ + 1]
    /\ slot' = [slot EXCEPT ![v] = 0]
    /\ spc' = [spc EXCEPT ![v] = "loop"]
    /\ UNCHANGED <<edges, up, overtaken>>

\* Mutant: the loop leaves the last slot out.
HasChildShort(v) == slot[v] < Degree - 1 /\ children_ids[v][slot[v]] # -1

\* The loop condition: child_id < degree and children_ids[child_id] != -1.
HasChild(v) == slot[v] < Degree /\ children_ids[v][slot[v]] # -1

\* Mutant: child_id is not advanced after a message.
SendToChildStays(v) ==
    /\ spc[v] = "loop"
    /\ HasChild(v)
    /\ children_ids[v][slot[v]] \in up
    /\ inbox' = [inbox EXCEPT ![children_ids[v][slot[v]]] = @ + 1]
    /\ UNCHANGED <<edges, up, copies, slot, spc, overtaken>>

\* dynpm_send_buffer_to_server has linked the message for the next child.
SendToChild(v) ==
    /\ spc[v] = "loop"
    /\ HasChild(v)
    /\ children_ids[v][slot[v]] \in up
    /\ inbox' = [inbox EXCEPT ![children_ids[v][slot[v]]] = @ + 1]
    /\ slot' = [slot EXCEPT ![v] = @ + 1]
    /\ UNCHANGED <<edges, up, copies, spc, overtaken>>

\* Mutant: the failed child is passed over before the return.
SendFailsCounts(v) ==
    /\ spc[v] = "loop"
    /\ HasChild(v)
    /\ children_ids[v][slot[v]] \notin up
    /\ slot' = [slot EXCEPT ![v] = @ + 1]
    /\ spc' = [spc EXCEPT ![v] = "error"]
    /\ UNCHANGED <<edges, up, inbox, copies, overtaken>>

\* The child's entry is NULL: -1, the remaining children get nothing.
SendFails(v) ==
    /\ spc[v] = "loop"
    /\ HasChild(v)
    /\ children_ids[v][slot[v]] \notin up
    /\ spc' = [spc EXCEPT ![v] = "error"]
    /\ UNCHANGED <<edges, up, inbox, copies, slot, overtaken>>

\* The loop is over: 0.
SendReturns(v) ==
    /\ spc[v] = "loop"
    /\ ~HasChild(v)
    /\ spc' = [spc EXCEPT ![v] = "sent"]
    /\ UNCHANGED <<edges, up, inbox, copies, slot, overtaken>>

\* A connection to a child is closed; what was queued on it is lost.
Disconnect(v) ==
    /\ v \in up
    /\ up' = up \ {v}
    /\ inbox' = [inbox EXCEPT ![v] = 0]
    /\ UNCHANGED <<edges, copies, slot, spc, overtaken>>

\* The message was linked behind one that the timer was removing from the list,
\* and is overtaken by the update of the head (Advance of MessageQueue).
Overtaken(v) ==
    /\ v \in up /\ inbox[v] > 0
    /\ inbox' = [inbox EXCEPT ![v] = 0]
    /\ overtaken' = overtaken \cup {v}
    /\ UNCHANGED <<edges, up, copies, slot, spc>>

Vertex(v) ==
    \/ Initialize(v) \/ Receive(v)
    \/ SendToChild(v) \/ SendFails(v) \/ SendReturns(v)

Next == \E v \in Nodes : Vertex(v) \/ Disconnect(v) \/ Overtaken(v)

Spec == Init /\ [][Next]_vars

-----------------------------------------------------------------------------
(* Properties *)

\* The edges computed by each vertex on its own fit together: the children of
\* a vertex are exactly the vertices that take it for their parent, each in
\* one slot, and their ids are larger, so there is no cycle.
EdgesAgree ==
    \A v \in created :
        /\ \A c \in created :
             (\E i \in Slots : children_ids[v][i] = c) <=> parent_id[c] = v
        /\ \A i, j \in Slots : children_ids[v][i] # -1 =>
             /\ v < children_ids[v][i]
             /\ children_ids[v][j] = children_ids[v][i] => j = i

Children(v) == {c \in Nodes : ParentId(c) = v}

\* No vertex gets the message twice, and none before its parent.
OnceAndTopDown ==
    \A v \in Nodes :
        /\ copies[v] + inbox[v] <= 1
        /\ copies[v] + inbox[v] = 1 /\ v # 0 => copies[ParentId(v)] = 1

\* What became of the message for the child c that was linked for it
Accounted(c) == copies[c] + inbox[c] = 1 \/ c \notin up \/ c \in overtaken

\* The return code of a send down the tree tells the truth: 0 means that no
\* child was left out, the message was linked for each and has been received,
\* is on its way or was lost with the connection or in its list; -1 that this
\* is so of exactly the children before the one whose connection is gone.
ReturnCodeTrue ==
    \A v \in Nodes :
        /\ spc[v] = "sent" => \A c \in Children(v) : Accounted(c)
        /\ spc[v] = "error" =>
             LET gone == children_ids[v][slot[v]] IN
             /\ gone \notin up
             /\ \A c \in Children(v) :
                  IF c < gone THEN Accounted(c) ELSE copies[c] + inbox[c] = 0

\* Nothing was lost on the way to v: at v and each vertex above it the message
\* was not lost in a list, and the sender met no lost connection before it.
Served(v) ==
    LET way[c \in Nodes] ==
          c = 0 \/ /\ way[ParentId(c)]
                   /\ c \notin overtaken
                   /\ \A b \in Children(ParentId(c)) : b <= c => b \in up
    IN way[v]

\* Whatever is lost elsewhere, the message reaches every vertex with nothing lost
\* on the way to it: a message lost in a list costs no more than the subtree it
\* was for, a lost connection no more than that and the subtrees of the siblings
\* after it.
ReachesAll == <>(\A v \in Nodes : Served(v) => copies[v] = 1)
=============================================================================
