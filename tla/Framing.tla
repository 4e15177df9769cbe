------------------------------ MODULE Framing ------------------------------
(***************************************************************************)
(* Reception of fixed-size messages by the server: _server_on_read of      *)
(* src/network/server.c.  Each connection has an event thread that runs    *)
(* the callback when bytes have arrived; the callback puts them into a     *)
(* buffer and queues a work unit when it has counted a whole message.      *)
(*                                                                         *)
(* The count, message_bytes_read, is static: it is shared by the event     *)
(* threads of all connections and outlives the callback, while the buffer  *)
(* belongs to one call and is freed at its end.  Loading and storing it    *)
(* are therefore steps of their own.                                       *)
(*                                                                         *)
(* bufferevent_set_max_single_read limits what has arrived when a callback *)
(* begins to Size bytes, and only the connection's own event thread adds   *)
(* to it, so that the first bufferevent_read returns all of it and the     *)
(* second returns 0 and ends the loop.  A byte is represented by its       *)
(* position in the stream of its connection.                               *)
(***************************************************************************)
EXTENDS MessageSize

CONSTANTS
    Conns,   \* client connections
    Length   \* bound: bytes each client sends, a multiple of Size

ASSUME FramingAssumption ==
    /\ Length \in Nat
    /\ Length % Size = 0

VARIABLES
    message_bytes_read,  \* the static variable
    pc,        \* where each event thread is in the callback
    consumed,  \* bytes of each stream taken out of the connection
    buffer,    \* read_buffer of each call: positions in the stream
    current_bytes_read,
    count,     \* message_bytes_read as the thread has computed it
    units,     \* how many work units were queued for each connection
    unit,      \* the message in the last of them
    \* history
    cut,       \* some callback got less than a message
    crossed,   \* some callback got bytes of two messages
    mixed,     \* a callback began while another connection had one at work or
               \* was in the middle of a message
    spill      \* bytes were stored behind the end of a buffer

history == <<cut, crossed, mixed, spill>>
fvars == <<message_bytes_read, pc, consumed, buffer, current_bytes_read, count,
          units, unit, history>>

Slots   == 0..(Size - 1)
Unset   == -1    \* a byte of a buffer that nothing was stored to
Buffers == [Slots -> 0..(Length - 1) \cup {Unset}]

\* Every variable keeps its type, however the callbacks interleave: a unit
\* takes at least one byte of its connection, and what a buffer holds are
\* positions of the stream.
FramingTypeOK ==
    /\ message_bytes_read \in Nat
    /\ pc \in [Conns -> {"idle", "load", "store", "reset", "end"}]
    /\ consumed \in [Conns -> 0..Length]
    /\ buffer \in [Conns -> Buffers]
    /\ current_bytes_read \in [Conns -> 0..Size]
    /\ count \in [Conns -> Nat]
    /\ units \in [Conns -> 0..Length]
    /\ unit \in [Conns -> Buffers]
    /\ cut \in BOOLEAN
    /\ crossed \in BOOLEAN
    /\ mixed \in BOOLEAN
    /\ spill \in BOOLEAN

Empty == [j \in Slots |-> Unset]

FramingInit ==
    /\ message_bytes_read = 0
    /\ pc = [c \in Conns |-> "idle"]
    /\ consumed = [c \in Conns |-> 0]
    /\ buffer = [c \in Conns |-> Empty]
    /\ current_bytes_read = [c \in Conns |-> 0]
    /\ count = [c \in Conns |-> 0]
    /\ units = [c \in Conns |-> 0]
    /\ unit = [c \in Conns |-> Empty]
    /\ cut = FALSE
    /\ crossed = FALSE
    /\ mixed = FALSE
    /\ spill = FALSE

-----------------------------------------------------------------------------
\* Mutant: bytes go to the start of the buffer, whatever has been counted.
FillFromStart(c, n) ==
    [j \in Slots |-> IF j < n THEN consumed[c] + j ELSE Unset]

\* The first n bytes of the stream stored at read_buffer + message_bytes_read.
Fill(c, n) ==
    [j \in Slots |->
       IF j >= message_bytes_read /\ j < message_bytes_read + n
       THEN consumed[c] + (j - message_bytes_read) ELSE Unset]

\* n bytes have arrived: the callback runs up to its first bufferevent_read.
OnRead(c, n) ==
    /\ pc[c] = "idle"
    /\ consumed[c] + n <= Length
    /\ consumed' = [consumed EXCEPT ![c] = @ + n]
    /\ buffer' = [buffer EXCEPT ![c] = Fill(c, n)]
    /\ current_bytes_read' = [current_bytes_read EXCEPT ![c] = n]
    /\ pc' = [pc EXCEPT ![c] = "load"]
    /\ cut' = (cut \/ n < Size)
    /\ crossed' = (crossed \/ (consumed[c] % Size) + n > Size)
    /\ mixed' = (mixed \/ \E d \in Conns \ {c} :
                 pc[d] # "idle" \/ consumed[d] % Size # 0)
    /\ spill' = (spill \/ message_bytes_read + n > Size)
    /\ UNCHANGED <<message_bytes_read, count, units, unit>>

\* message_bytes_read += current_bytes_read: the load ...
Load(c) ==
    /\ pc[c] = "load"
    /\ count' = [count EXCEPT ![c] = message_bytes_read + current_bytes_read[c]]
    /\ pc' = [pc EXCEPT ![c] = "store"]
    /\ UNCHANGED <<message_bytes_read, consumed, buffer, current_bytes_read, units,
                   unit, history>>

\* Mutant: a count of exactly one message is not enough.
IsMessageAbove(n) == n > Size

\* Not less than DYNPM_MAX_MESSAGE_SIZE: the loop body goes on after its tests.
IsMessage(n) == n >= Size

\* ... and the store.  Less than a message: continue, and the next read ends
\* the loop.  Otherwise the buffer is queued in a work unit.
Store(c) ==
    /\ pc[c] = "store"
    /\ message_bytes_read' = count[c]
    /\ IF IsMessage(count[c])
       THEN /\ units' = [units EXCEPT ![c] = @ + 1]
            /\ unit' = [unit EXCEPT ![c] = buffer[c]]
            /\ pc' = [pc EXCEPT ![c] = "reset"]
       ELSE /\ pc' = [pc EXCEPT ![c] = "end"]
            /\ UNCHANGED <<units, unit>>
    /\ UNCHANGED <<consumed, buffer, current_bytes_read, count, history>>

\* A new read_buffer, message_bytes_read = 0.
Reset(c) ==
    /\ pc[c] = "reset"
    /\ message_bytes_read' = 0
    /\ pc' = [pc EXCEPT ![c] = "end"]
    /\ UNCHANGED <<consumed, buffer, current_bytes_read, count, units, unit, history>>

\* bufferevent_read returns 0: read_buffer is freed with what is in it.
Return(c) ==
    /\ pc[c] = "end"
    /\ pc' = [pc EXCEPT ![c] = "idle"]
    /\ buffer' = [buffer EXCEPT ![c] = Empty]
    /\ count' = [count EXCEPT ![c] = 0]
    /\ current_bytes_read' = [current_bytes_read EXCEPT ![c] = 0]
    /\ UNCHANGED <<message_bytes_read, consumed, units, unit, history>>

Callback(c) ==
    \/ \E n \in 1..Size : OnRead(c, n)
    \/ Load(c) \/ Store(c) \/ Reset(c) \/ Return(c)

FramingNext == \E c \in Conns : Callback(c)

FramingSpec == FramingInit /\ [][FramingNext]_fvars

-----------------------------------------------------------------------------
(* Properties *)

AtRest == \A c \in Conns : pc[c] = "idle"

\* The k-th message of a stream, complete.
Message(k) == [j \in Slots |-> (k - 1) * Size + j]

\* While messages arrive whole and callbacks do not overlap, framing is
\* exact: the units of a connection are its messages, complete, in order and
\* none left out, and no buffer is overrun.
WholeUntilHarm ==
    ~cut /\ ~mixed =>
        /\ ~spill
        /\ \A c \in Conns :
             /\ units[c] > 0 => unit[c] = Message(units[c])
             /\ pc[c] \in {"idle", "reset", "end"} =>
                  units[c] = consumed[c] \div Size

\* A message that arrives in pieces is damaged but does no harm to the ones
\* after it, as long as no callback gets bytes of two messages and connections
\* do not mix: the shared count is then the position within the message, no
\* buffer is overrun, and every byte of a unit is in its place or missing, the
\* last one in place.
SplitRealigns ==
    ~mixed /\ ~crossed =>
        /\ ~spill
        /\ AtRest => {consumed[c] % Size : c \in Conns} \ {0} = {message_bytes_read} \ {0}
        /\ \A c \in Conns : units[c] > 0 =>
             LET sent == Message(units[c]) IN
             /\ \A j \in Slots : unit[c][j] \in {Unset, sent[j]}
             /\ unit[c][Size - 1] = sent[Size - 1]
=============================================================================
