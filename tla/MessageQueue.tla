---------------------------- MODULE MessageQueue ----------------------------
(***************************************************************************)
(* The list of outgoing messages of one connection, client side            *)
(* (src/network/client.c) or server side (src/network/server.c).           *)
(*                                                                         *)
(* Senders append under connection->messages_mutex; the connection's event *)
(* thread removes the head under connection->mutex.  The two mutexes do    *)
(* not exclude each other, so every read and write of messages_head and of *)
(* a next pointer is a step of its own.  A message is numbered by the      *)
(* order in which the senders get messages_mutex; 0 is NULL.               *)
(***************************************************************************)
EXTENDS Naturals, Sequences

CONSTANTS
    Senders,   \* threads that send on the connection
    NoOne,     \* nobody holds messages_mutex
    MaxMsgs    \* bound: how many messages are ever sent

ASSUME QueueAssumption == MaxMsgs \in Nat /\ NoOne \notin Senders

VARIABLES
    messages_head,
    next,            \* the next pointer of each message
    messages_mutex,  \* its holder
    allocated,       \* messages allocated so far
    spc,             \* where each sender is
    tail,            \* its local variable tail
    dpc,             \* where the event thread is
    dnext,           \* messages_head->next as the event thread has read it
    draining,        \* output was written and has not drained yet
    \* history
    written,         \* messages handed to bufferevent_write, in order
    linked,          \* messages whose enqueue is complete
    overtaken        \* messages linked behind one the event thread was removing

list  == <<messages_head, next>>
svars == <<messages_mutex, allocated, spc, tail, linked, overtaken>>
dvars == <<dpc, dnext, draining, written>>
vars  == <<list, svars, dvars>>

Msgs == 1..MaxMsgs
NULL == 0

\* Every variable keeps its type.
TypeOK ==
    /\ messages_head \in Msgs \cup {NULL}
    /\ next \in [Msgs -> Msgs \cup {NULL}]
    /\ messages_mutex \in Senders \cup {NoOne}
    /\ allocated \in 0..MaxMsgs
    /\ spc \in [Senders -> {"idle", "head", "walk"}]
    /\ tail \in Msgs \cup {NULL}
    /\ dpc \in {"idle", "write", "advance", "store"}
    /\ dnext \in Msgs \cup {NULL}
    /\ draining \in BOOLEAN
    /\ written \in Seq(Msgs)
    /\ linked \subseteq Msgs
    /\ overtaken \subseteq Msgs

\* A new connection.
Init ==
    /\ messages_head = NULL
    /\ next = [m \in Msgs |-> NULL]
    /\ messages_mutex = NoOne
    /\ allocated = 0
    /\ spc = [s \in Senders |-> "idle"]
    /\ tail = NULL
    /\ dpc = "idle"
    /\ dnext = NULL
    /\ draining = FALSE
    /\ written = <<>>
    /\ linked = {}
    /\ overtaken = {}

-----------------------------------------------------------------------------
(* Senders: lock messages_mutex, serialize, _dynpm_enqueue_send_buffer *)

\* The lock is taken and a message allocated.
SendBegin(s) ==
    /\ spc[s] = "idle"
    /\ messages_mutex = NoOne
    /\ allocated < MaxMsgs
    /\ allocated' = allocated + 1
    /\ messages_mutex' = s
    /\ spc' = [spc EXCEPT ![s] = "head"]
    /\ UNCHANGED <<list, tail, dvars, linked, overtaken>>

\* A message type that may not be sent.  dynpm_send_message_to_client_connection
\* returns -1 with messages_mutex held; the client side releases it, and what
\* it does is what the specification allows without this action.  (For a type
\* it does not know the server side also unlocks connection->mutex, which it
\* does not hold.  Nothing here depends on that mutex: only the event thread
\* takes messages off the list.)
SendRejected(s) ==
    /\ spc[s] = "idle"
    /\ messages_mutex = NoOne
    /\ messages_mutex' = s
    /\ UNCHANGED <<list, allocated, spc, tail, dvars, linked, overtaken>>

\* *messages_head is NULL: the message becomes the head.  (The event thread
\* leaves an empty list alone, so testing and storing are one step.)
EnqueueEmpty(s) ==
    /\ spc[s] = "head"
    /\ messages_head = NULL
    /\ messages_head' = allocated
    /\ linked' = linked \cup {allocated}
    /\ messages_mutex' = NoOne
    /\ spc' = [spc EXCEPT ![s] = "idle"]
    /\ UNCHANGED <<next, allocated, tail, dvars, overtaken>>

\* Not NULL: the walk to the end of the list begins.  (The test and the
\* assignment read messages_head once in the default -O2 build.)
EnqueueBehind(s) ==
    /\ spc[s] = "head"
    /\ messages_head # NULL
    /\ tail' = messages_head
    /\ spc' = [spc EXCEPT ![s] = "walk"]
    /\ UNCHANGED <<list, messages_mutex, allocated, dvars, linked, overtaken>>

\* while(tail->next) tail = tail->next
WalkOn(s) ==
    /\ spc[s] = "walk"
    /\ next[tail] # NULL
    /\ tail' = next[tail]
    /\ UNCHANGED <<list, messages_mutex, allocated, spc, dvars, linked, overtaken>>

\* Has the event thread removed message m, or read its next pointer to do so,
\* or does m itself hang behind such a message?
Leaving(m) ==
    \/ m \in overtaken
    \/ \E i \in 1..Len(written) : written[i] = m /\ messages_head # m
    \/ dpc = "store" /\ messages_head = m

\* tail->next = new_message, unlock.
Link(s) ==
    /\ spc[s] = "walk"
    /\ next[tail] = NULL
    /\ next' = [next EXCEPT ![tail] = allocated]
    /\ linked' = linked \cup {allocated}
    /\ overtaken' = IF Leaving(tail) THEN overtaken \cup {allocated} ELSE overtaken
    /\ messages_mutex' = NoOne
    /\ spc' = [spc EXCEPT ![s] = "idle"]
    /\ tail' = NULL
    /\ UNCHANGED <<messages_head, allocated, dvars>>

-----------------------------------------------------------------------------
(* The event thread *)

\* if(connection->messages_head): the timer, re-armed by every call.
SendProgress ==
    /\ dpc = "idle"
    /\ messages_head # NULL
    /\ dpc' = "write"
    /\ UNCHANGED <<list, svars, dnext, draining, written>>

\* The same, when the output of an earlier write has drained.
OnWrite ==
    /\ dpc = "idle"
    /\ draining
    /\ draining' = FALSE
    /\ dpc' = IF messages_head # NULL THEN "write" ELSE "idle"
    /\ UNCHANGED <<list, svars, dnext, written>>

\* bufferevent_write copies the head's buffer.  (It fails only when libevent
\* cannot allocate, which is left out.)
Write ==
    /\ dpc = "write"
    /\ written' = Append(written, messages_head)
    /\ draining' = TRUE
    /\ dpc' = "advance"
    /\ UNCHANGED <<list, svars, dnext>>

\* messages_head->next is read ...
ReadNext ==
    /\ dpc = "advance"
    /\ dnext' = next[messages_head]
    /\ dpc' = "store"
    /\ UNCHANGED <<list, svars, draining, written>>

\* Mutant: the whole list is dropped with its head.
AdvanceAll ==
    /\ dpc = "store"
    /\ messages_head' = NULL
    /\ dpc' = "idle"
    /\ UNCHANGED <<next, svars, dnext, draining, written>>

\* Mutant: the head stays.
AdvanceStays ==
    /\ dpc = "store"
    /\ dpc' = "idle"
    /\ UNCHANGED <<list, svars, dnext, draining, written>>

\* ... and stored in messages_head.
Advance ==
    /\ dpc = "store"
    /\ messages_head' = dnext
    /\ dpc' = "idle"
    /\ UNCHANGED <<next, svars, dnext, draining, written>>

-----------------------------------------------------------------------------
Enqueue(s) == EnqueueEmpty(s) \/ EnqueueBehind(s) \/ WalkOn(s) \/ Link(s)
EventThread == SendProgress \/ OnWrite \/ Write \/ ReadNext \/ Advance

Next ==
    \/ \E s \in Senders : SendBegin(s) \/ SendRejected(s) \/ Enqueue(s)
    \/ EventThread

Spec == Init /\ [][Next]_vars

-----------------------------------------------------------------------------
(* Properties *)

IsWritten(m) == \E i \in 1..Len(written) : written[i] = m

\* m is on the list that starts at messages_head.
Reachable(m) ==
    \/ messages_head = m
    \/ \E p \in [1..MaxMsgs -> Msgs] : \E n \in 1..MaxMsgs :
          /\ p[1] = messages_head /\ p[n] = m
          /\ \A i \in 1..(n - 1) : next[p[i]] = p[i + 1]

\* Messages are lost, but only in one window: those linked, directly or
\* through one another, behind a message whose next pointer the event thread
\* has already read.  Every other message is written or still on the list.
OnlyOvertakenLost ==
    \A m \in linked : m \in overtaken \/ IsWritten(m) \/ Reachable(m)
=============================================================================
