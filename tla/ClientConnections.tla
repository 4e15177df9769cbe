------------------------- MODULE ClientConnections -------------------------
(***************************************************************************)
(* The table of client-to-server connections of src/network/client.c.      *)
(* Application threads connect, send and disconnect; each connection has   *)
(* an event thread (_server_event_connection_thread) that runs libevent    *)
(* callbacks and frees the connection when its loop exits.                 *)
(*                                                                         *)
(* server_connections_mutex guards the table, but three operations are     *)
(* longer than a critical section and are split where others can step in:  *)
(*  - connect keeps the mutex while it waits for the CONNECTED event;      *)
(*  - disconnect calls event_base_loopexit before it clears the entry, and *)
(*    the event thread, which needs no mutex to leave its loop, may free   *)
(*    the connection in between;                                           *)
(*  - send checks the entry under the mutex, reads it again without, and   *)
(*    then uses the connection it read.                                    *)
(* A connection's own mutex is taken inside one callback or one enqueue    *)
(* only and is left out.  Connections are numbered by where they are in    *)
(* memory; 0 is the NULL pointer.                                          *)
(***************************************************************************)
EXTENDS Integers, FiniteSets, Functions

CONSTANTS
    Threads,   \* the application threads
    NoOne,     \* nobody holds server_connections_mutex
    MAX_SERVER_CONNECTIONS,
    NConns,    \* bound: connections that are in memory at the same time
    MaxHeld,   \* bound: indexes the application holds at the same time
    Faults     \* which failures and delays of the environment may happen

ASSUME ConnAssumption ==
    /\ MAX_SERVER_CONNECTIONS \in Nat \ {0}
    /\ NConns \in Nat
    /\ MaxHeld \in Nat
    /\ Faults \subseteq {"setup", "thread", "name", "error", "slow", "spurious"}
    /\ NoOne \notin Threads \cup (1..NConns)
    /\ Threads \cap (1..NConns) = {}

VARIABLES
    server_connections,      \* the table
    server_connection_count,
    mutex,      \* holder of server_connections_mutex: a thread, a connection
                \* (its event thread) or NoOne
    conn,       \* the connection structures
    epc,        \* where each event thread is
    apc,        \* where each application thread is
    aidx,       \* the index argument of its call
    aconn,      \* the connection its call works on
    handles,    \* how often each index is held by the application
    fault,      \* what ended the program, "none" while it runs
    \* history
    raced,      \* a disconnect of the index began since a thread's send check
    emptied     \* a disconnect has found a NULL entry

table == <<server_connections, server_connection_count>>
args == <<aidx, aconn, handles>>
history == <<raced, emptied>>
vars == <<table, mutex, conn, epc, apc, args, fault, history>>

Conns   == 1..NConns
Indexes == 0..(MAX_SERVER_CONNECTIONS - 1)
NULL    == 0

\* dynpm_client_to_server_connection_t: with whether its loop was told to exit,
\* the state of its socket, the first message queued, and whether the connect
\* that made it has returned -1.
Structures == [state : {"none", "live", "freed"}, index : Indexes,
               connected : BOOLEAN, loopexit : BOOLEAN,
               link : {"new", "open", "shut"},
               first : {"none", "register", "other"}, failed : BOOLEAN]

\* Every variable keeps its type; server_connection_count is between the
\* value its assertion rejects and the size of the table.
TypeOK ==
    /\ server_connections \in [Indexes -> Conns \cup {NULL}]
    /\ server_connection_count \in (-1)..MAX_SERVER_CONNECTIONS
    /\ mutex \in Threads \cup Conns \cup {NoOne}
    /\ conn \in [Conns -> Structures]
    /\ epc \in [Conns -> {"none", "loop", "timer", "eof", "drop", "ended"}]
    /\ apc \in [Threads -> {"idle", "connect", "drop", "send", "enqueue"}]
    /\ aidx \in [Threads -> Indexes]
    /\ aconn \in [Threads -> Conns \cup {NULL}]
    /\ handles \in [Indexes -> Nat]
    /\ fault \in {"none", "assert", "null", "use_after_free"}
    /\ raced \in [Threads -> BOOLEAN]
    /\ emptied \in BOOLEAN

Unused == [state |-> "none", index |-> 0, connected |-> FALSE,
           loopexit |-> FALSE, link |-> "new", first |-> "none", failed |-> FALSE]

\* After dynpm_client_init.
Init ==
    /\ server_connections = [i \in Indexes |-> NULL]
    /\ server_connection_count = 0
    /\ mutex = NoOne
    /\ conn = [c \in Conns |-> Unused]
    /\ epc = [c \in Conns |-> "none"]
    /\ apc = [t \in Threads |-> "idle"]
    /\ aidx = [t \in Threads |-> 0]
    /\ aconn = [t \in Threads |-> NULL]
    /\ handles = [i \in Indexes |-> 0]
    /\ fault = "none"
    /\ raced = [t \in Threads |-> FALSE]
    /\ emptied = FALSE

-----------------------------------------------------------------------------
(* dynpm_connect_to_server *)

\* Indexes the application holds
Held == FoldFunction(+, 0, handles)

FreeIndexes == {i \in Indexes : server_connections[i] = NULL}

\* Mutant: the search takes the last entry whether or not it is NULL.
FirstFreeLast(i) == i = MAX_SERVER_CONNECTIONS - 1

\* The entry the search loop stops at.
FirstFree(i) == i \in FreeIndexes /\ \A j \in FreeIndexes : i <= j

\* The mutex is free and the limit is not reached (else -1, nothing changes).
MayConnect(t) ==
    /\ apc[t] = "idle"
    /\ mutex = NoOne
    /\ ~(server_connection_count > MAX_SERVER_CONNECTIONS - 1)

\* _dynpm_init_server_connection and the assignments that follow it: c is the
\* memory that malloc returns, which may be that of a freed connection; failed
\* tells whether the call goes on to return -1.
Allocate(c, i, failed) ==
    /\ FirstFree(i)
    /\ conn[c].state # "live"
    /\ Held < MaxHeld
    /\ server_connections' = [server_connections EXCEPT ![i] = c]
    /\ conn' = [conn EXCEPT ![c] = [Unused EXCEPT !.state = "live", !.index = i,
                                                  !.failed = failed]]
    /\ server_connection_count' = server_connection_count + 1

\* Setup succeeds, the event thread runs, the caller waits for CONNECTED
\* while it holds the mutex.
ConnectStart(t) == \E c \in Conns, i \in Indexes :
    /\ MayConnect(t)
    /\ Allocate(c, i, FALSE)
    /\ epc' = [epc EXCEPT ![c] = "loop"]
    /\ mutex' = t
    /\ apc' = [apc EXCEPT ![t] = "connect"]
    /\ aidx' = [aidx EXCEPT ![t] = i]
    /\ aconn' = [aconn EXCEPT ![t] = c]
    /\ UNCHANGED <<handles, fault, history>>

\* event_base_new, evdns_base_new or bufferevent_socket_new returned NULL:
\* -1 is returned with the mutex held.
ConnectSetupFails(t) == \E c \in Conns, i \in Indexes :
    /\ "setup" \in Faults
    /\ MayConnect(t)
    /\ Allocate(c, i, TRUE)
    /\ epc' = [epc EXCEPT ![c] = "none"]
    /\ mutex' = t
    /\ UNCHANGED <<apc, args, fault, history>>

\* pthread_create failed: -1, the entry stays without an event thread.
ConnectThreadFails(t) == \E c \in Conns, i \in Indexes :
    /\ "thread" \in Faults
    /\ MayConnect(t)
    /\ Allocate(c, i, TRUE)
    /\ epc' = [epc EXCEPT ![c] = "none"]
    /\ UNCHANGED <<mutex, apc, args, fault, history>>

\* pthread_setname_np failed: -1, the entry stays with its event thread running
\* and nothing registers the connection.
ConnectNameFails(t) == \E c \in Conns, i \in Indexes :
    /\ "name" \in Faults
    /\ MayConnect(t)
    /\ Allocate(c, i, TRUE)
    /\ epc' = [epc EXCEPT ![c] = "loop"]
    /\ UNCHANGED <<mutex, apc, args, fault, history>>

\* "could not find a NULL entry": the count is already incremented.
ConnectNoEntry(t) ==
    /\ MayConnect(t)
    /\ FreeIndexes = {}
    /\ server_connection_count' = server_connection_count + 1
    /\ UNCHANGED <<server_connections, mutex, conn, epc, apc, args, fault, history>>

\* BEV_EVENT_CONNECTED in _client_on_error.
Connected(c) ==
    /\ epc[c] = "loop"
    /\ conn[c].link = "new"
    /\ conn' = [conn EXCEPT ![c].connected = TRUE, ![c].link = "open"]
    /\ UNCHANGED <<table, mutex, epc, apc, args, fault, history>>

\* BEV_EVENT_ERROR in _client_on_error: a connect that is refused or does not
\* resolve, or a connection that breaks, is only logged.
OnError(c) ==
    /\ "error" \in Faults
    /\ epc[c] = "loop"
    /\ conn[c].link # "shut"
    /\ conn' = [conn EXCEPT ![c].link = "shut"]
    /\ UNCHANGED <<table, mutex, epc, apc, args, fault, history>>

\* The call of thread t is over.
Return(t) ==
    /\ apc' = [apc EXCEPT ![t] = "idle"]
    /\ aidx' = [aidx EXCEPT ![t] = 0]
    /\ raced' = [raced EXCEPT ![t] = FALSE]

\* _dynpm_internal_send_message_to_server queues REGISTER_CONNECTION.
Register(c) ==
    conn' = [conn EXCEPT ![c].first = IF @ = "none" THEN "register" ELSE @]

\* The wait is over (pthread_cond_wait is not in a loop): the connection is
\* registered, the mutex released and the index returned.
ConnectDone(t) ==
    /\ apc[t] = "connect"
    /\ conn[aconn[t]].connected \/ "spurious" \in Faults
    /\ Register(aconn[t])
    /\ mutex' = NoOne
    /\ handles' = [handles EXCEPT ![aidx[t]] = @ + 1]
    /\ Return(t)
    /\ aconn' = [aconn EXCEPT ![t] = NULL]
    /\ UNCHANGED <<table, epc, fault, emptied>>

-----------------------------------------------------------------------------
(* dynpm_disconnect_from_server *)

\* Up to the call of event_base_loopexit, as holder h of the mutex.
DisconnectBegin(h, i) ==
    /\ mutex = NoOne
    /\ mutex' = h
    /\ conn' = IF server_connections[i] = NULL THEN conn
               ELSE [conn EXCEPT ![server_connections[i]].loopexit = TRUE]
    /\ raced' = [t \in Threads |->
                   raced[t] \/ (apc[t] \in {"send", "enqueue"} /\ aidx[t] = i)]

\* Mutant: server_connection_count-- is forgotten.
DisconnectEndKeepsCount(i) ==
    /\ server_connections' = [server_connections EXCEPT ![i] = NULL]
    /\ emptied' = (emptied \/ server_connections[i] = NULL)
    /\ fault' = "none"
    /\ mutex' = NoOne
    /\ UNCHANGED server_connection_count

\* Mutant: pthread_mutex_unlock is forgotten.
DisconnectEndKeepsLock(i) ==
    /\ server_connections' = [server_connections EXCEPT ![i] = NULL]
    /\ server_connection_count' = server_connection_count - 1
    /\ emptied' = (emptied \/ server_connections[i] = NULL)
    /\ fault' = IF server_connection_count' >= 0 THEN "none" ELSE "assert"
    /\ UNCHANGED mutex

\* The entry is cleared and the count decremented, NULL entry or not.
DisconnectEnd(i) ==
    /\ server_connections' = [server_connections EXCEPT ![i] = NULL]
    /\ server_connection_count' = server_connection_count - 1
    /\ emptied' = (emptied \/ server_connections[i] = NULL)
    /\ fault' = IF server_connection_count' >= 0 THEN "none" ELSE "assert"
    /\ mutex' = NoOne

\* The application disconnects each index it was given once.
AppDisconnect(t, i) ==
    /\ apc[t] = "idle"
    /\ handles[i] > 0
    /\ handles' = [handles EXCEPT ![i] = @ - 1]
    /\ DisconnectBegin(t, i)
    /\ apc' = [apc EXCEPT ![t] = "drop"]
    /\ aidx' = [aidx EXCEPT ![t] = i]
    /\ UNCHANGED <<table, epc, aconn, fault, emptied>>

AppDisconnected(t) ==
    /\ apc[t] = "drop"
    /\ DisconnectEnd(aidx[t])
    /\ Return(t)
    /\ UNCHANGED <<conn, epc, aconn, handles>>

-----------------------------------------------------------------------------
(* The event thread: _server_event_connection_thread and its callbacks *)

\* The timer of _client_to_server_send_progress, first due after a second,
\* fires: the callback goes for server_connections_mutex.
TimerFires(c) ==
    /\ epc[c] = "loop"
    /\ conn[c].connected \/ "slow" \in Faults
    /\ epc' = [epc EXCEPT ![c] = "timer"]
    /\ UNCHANGED <<table, mutex, conn, apc, args, fault, history>>

\* The callback writes the head message and re-arms the timer.
SendProgress(c) ==
    /\ epc[c] = "timer"
    /\ mutex = NoOne
    /\ epc' = [epc EXCEPT ![c] = "loop"]
    /\ UNCHANGED <<table, mutex, conn, apc, args, fault, history>>

\* The server closed: _client_on_error calls disconnect with the index.
ServerCloses(c) ==
    /\ epc[c] = "loop"
    /\ conn[c].link = "open"
    /\ conn' = [conn EXCEPT ![c].link = "shut"]
    /\ epc' = [epc EXCEPT ![c] = "eof"]
    /\ UNCHANGED <<table, mutex, apc, args, fault, history>>

EofDisconnect(c) ==
    /\ epc[c] = "eof"
    /\ DisconnectBegin(c, conn[c].index)
    /\ epc' = [epc EXCEPT ![c] = "drop"]
    /\ UNCHANGED <<table, apc, args, fault, emptied>>

EofDisconnected(c) ==
    /\ epc[c] = "drop"
    /\ DisconnectEnd(conn[c].index)
    /\ epc' = [epc EXCEPT ![c] = "loop"]
    /\ UNCHANGED <<conn, apc, args, raced>>

\* Mutant: the loop ends by itself (a timer that is not re-armed).
LoopExitsEarly(c) ==
    /\ epc[c] = "loop"
    /\ epc' = [epc EXCEPT ![c] = "ended"]
    /\ conn' = [conn EXCEPT ![c] = [Unused EXCEPT !.state = "freed", !.index = conn[c].index]]
    /\ UNCHANGED <<table, mutex, apc, args, fault, history>>

\* event_base_dispatch returns after a loopexit and the connection is freed.
LoopExits(c) ==
    /\ epc[c] = "loop"
    /\ conn[c].loopexit
    /\ epc' = [epc EXCEPT ![c] = "ended"]
    /\ conn' = [conn EXCEPT ![c] = [Unused EXCEPT !.state = "freed", !.index = conn[c].index]]
    /\ UNCHANGED <<table, mutex, apc, args, fault, history>>

-----------------------------------------------------------------------------
(* dynpm_send_message_to_server and dynpm_send_buffer_to_server *)

\* Mutant: the NULL test is dropped.
SendCheckNothing(t, i) ==
    /\ apc[t] = "idle"
    /\ handles[i] > 0
    /\ mutex = NoOne
    /\ apc' = [apc EXCEPT ![t] = "send"]
    /\ aidx' = [aidx EXCEPT ![t] = i]
    /\ raced' = [raced EXCEPT ![t] = FALSE]
    /\ UNCHANGED <<table, mutex, conn, epc, aconn, handles, fault, emptied>>

\* Under the mutex the entry is not NULL (else -1, nothing changes).
SendCheck(t, i) ==
    /\ apc[t] = "idle"
    /\ handles[i] > 0
    /\ mutex = NoOne
    /\ server_connections[i] # NULL
    /\ apc' = [apc EXCEPT ![t] = "send"]
    /\ aidx' = [aidx EXCEPT ![t] = i]
    /\ raced' = [raced EXCEPT ![t] = FALSE]
    /\ UNCHANGED <<table, mutex, conn, epc, aconn, handles, fault, emptied>>

\* The entry is read again, without the mutex, for the internal send call.
SendReread(t) ==
    /\ apc[t] = "send"
    /\ aconn' = [aconn EXCEPT ![t] = server_connections[aidx[t]]]
    /\ apc' = [apc EXCEPT ![t] = "enqueue"]
    /\ UNCHANGED <<table, mutex, conn, epc, aidx, handles, fault, history>>

\* The internal call dereferences the connection and queues the message.
SendEnqueue(t) ==
    /\ apc[t] = "enqueue"
    /\ LET c == aconn[t] IN
         \/ /\ c = NULL
            /\ fault' = "null"
            /\ UNCHANGED conn
         \/ /\ c # NULL
            /\ conn[c].state = "freed"
            /\ fault' = "use_after_free"
            /\ UNCHANGED conn
         \/ /\ c # NULL
            /\ conn[c].state = "live"
            /\ conn' = [conn EXCEPT ![c].first = IF @ = "none" THEN "other" ELSE @]
            /\ UNCHANGED fault
    /\ Return(t)
    /\ aconn' = [aconn EXCEPT ![t] = NULL]
    /\ UNCHANGED <<table, mutex, epc, handles, emptied>>

-----------------------------------------------------------------------------
App(t) ==
    \/ ConnectStart(t) \/ ConnectSetupFails(t) \/ ConnectThreadFails(t)
    \/ ConnectNameFails(t) \/ ConnectNoEntry(t) \/ ConnectDone(t)
    \/ AppDisconnected(t)
    \/ \E i \in Indexes : AppDisconnect(t, i) \/ SendCheck(t, i)
    \/ SendReread(t) \/ SendEnqueue(t)

Event(c) ==
    \/ Connected(c) \/ OnError(c) \/ TimerFires(c) \/ SendProgress(c) \/ ServerCloses(c)
    \/ EofDisconnect(c) \/ EofDisconnected(c) \/ LoopExits(c)

\* An abort or a bad dereference ends the program.
Next ==
    /\ fault = "none"
    /\ (\E t \in Threads : App(t)) \/ (\E c \in Conns : Event(c))

Spec == Init /\ [][Next]_vars

-----------------------------------------------------------------------------
(* Properties *)

Occupied == Indexes \ FreeIndexes

\* The table never exposes freed memory to a thread that looks under the
\* mutex: an entry is a live connection that carries that index, unless the
\* holder of the mutex is about to clear it.
TableSound ==
    \A i \in Occupied : LET c == server_connections[i] IN
        /\ conn[c].index = i
        /\ \/ conn[c].state = "live"
           \/ \E t \in Threads : mutex = t /\ apc[t] = "drop" /\ aidx[t] = i
           \/ \E d \in Conns : mutex = d /\ epc[d] = "drop" /\ conn[d].index = i

\* No connection is forgotten: one whose event thread still runs is in the
\* table at its index, or its loop has been told to exit.
NoOrphan ==
    \A c \in Conns : epc[c] \in {"loop", "timer", "eof", "drop"} =>
        server_connections[conn[c].index] = c \/ conn[c].loopexit

\* server_connection_count never exceeds the entries in use, so the limit
\* never refuses a connection that would fit; and it is exact until some
\* disconnect has found its entry already NULL.
CountTracksTable ==
    mutex = NoOne =>
        /\ server_connection_count <= Cardinality(Occupied)
        /\ ~emptied => server_connection_count = Cardinality(Occupied)

\* A send is safe unless a disconnect of its index begins between its check
\* and its use of the entry: until then the entry, and the connection read
\* from it, is live; and REGISTER_CONNECTION is ahead of the message, unless
\* the connect that made the entry returned -1 and left it behind (a thread can
\* reach such an entry by an index it was given for an earlier connection).
SendSafeUnlessRaced ==
    \A t \in Threads : apc[t] \in {"send", "enqueue"} /\ ~raced[t] =>
        LET c == IF apc[t] = "send" THEN server_connections[aidx[t]] ELSE aconn[t] IN
            /\ c # NULL
            /\ conn[c].state = "live"
            /\ conn[c].first # "none" \/ conn[c].failed

\* The assertion at the end of dynpm_disconnect_from_server.
CountNonNegative == server_connection_count >= 0

\* The mutex is held for ever in three cases only: a failed setup returned with
\* it and left an entry without an event thread; or a connect waits with it for
\* a connection that was refused, which nobody signals; or for an event thread
\* that waits for it, because the timer of the connection was due before
\* CONNECTED.  Otherwise its holder is about to release it, or waits for an
\* event thread that is free to deliver CONNECTED.
HolderGoesOn ==
    /\ \A c \in Conns : mutex = c => epc[c] = "drop"
    /\ \A t \in Threads : mutex = t =>
         \/ apc[t] = "drop"
         \/ /\ apc[t] = "connect"
            /\ LET c == aconn[t] IN
                 \/ conn[c].connected
                 \/ epc[c] = "loop" /\ conn[c].link = "new"
                 \/ conn[c].link = "shut" /\ "error" \in Faults
                 \/ epc[c] = "timer" /\ "slow" \in Faults
         \/ /\ apc[t] = "idle" /\ "setup" \in Faults
            /\ \E i \in Occupied : epc[server_connections[i]] = "none"
=============================================================================
