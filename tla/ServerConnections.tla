------------------------- MODULE ServerConnections -------------------------
(***************************************************************************)
(* The server's client connections, src/network/server.c: the accept       *)
(* thread, the worker pool that runs queued units, one event thread per    *)
(* connection, the list `head` under registration_mutex, and the cascade   *)
(* of a closed connection into the client table of src/network/client.c.   *)
(*                                                                         *)
(* A connection is numbered in the order of its accept and lives at an     *)
(* address at[c]; the address is reused after free().  All the code holds  *)
(* are addresses: a unit queued for connection c works on whatever is at   *)
(* at[c] when it runs (Target(c)): on c, on nothing any more, or on a      *)
(* newer connection.  registration_mutex is a variable only for the EOF    *)
(* callback, whose cascade takes many steps; every other critical section  *)
(* is one action.  Messages arrive whole (Framing is about that).          *)
(***************************************************************************)
EXTENDS Integers, Sequences, FiniteSets, Functions

CONSTANTS
    NWorkers,     \* the threads of the pool
    NConns,       \* bound: connections ever accepted
    NChildren,    \* bound: connections the handlers open towards other servers
    MAX_SERVER_CONNECTIONS

ASSUME ServerAssumption ==
    NWorkers \in Nat /\ NConns \in Nat /\ NChildren \in Nat /\ MAX_SERVER_CONNECTIONS \in Nat \ {0}

VARIABLES
    server,       \* "down", "up", "closed" or "failed"
    work_units, running, stopped,   \* the pool
    accepted,     \* connections accepted so far
    acc,          \* the connection the accept thread still holds locked, or 0
    at,           \* the address of each connection
    live,         \* the connections that are allocated
    hosted,       \* the connections whose pid and host are set
    head,         \* the connections in the list
    registration_mutex,  \* the connection whose EOF callback holds it, or 0
    epc,          \* where each event thread is
    stage,        \* the last message read from each client
    index, look,  \* the cascade: its loop index, the entry it saw there (only
                  \* the holder of registration_mutex runs one)
    server_connections, server_connection_count,  \* the client table
    table_mutex,  \* the worker that holds server_connections_mutex, or 0
    children,     \* connections opened so far by handlers
    parent,       \* parent_connection of each of them
    fault,        \* what ended the program, "none" while it runs
    \* history
    dangling,     \* connections whose address was used after they were freed
    quiet,        \* connections freed while nobody else could hold them
    settled,      \* connections whose cascade began with no handler outstanding
    remover       \* whose DEREGISTER_CONNECTION took each connection off the list

pool   == <<work_units, running, stopped>>
conns  == <<accepted, acc, at, live, hosted, head>>
loop   == <<registration_mutex, epc, stage, index, look>>
table  == <<server_connections, server_connection_count, table_mutex, children, parent>>
ghosts == <<dangling, quiet, settled, remover>>
vars   == <<server, pool, conns, loop, table, fault, ghosts>>

Workers  == 1..NWorkers
Conns    == 1..NConns
Addrs    == 1..NConns
Children == 1..NChildren
Indexes  == 0..(MAX_SERVER_CONNECTIONS - 1)
NULL     == 0
Idle     == [f |-> "idle", c |-> 0]
Units    == [f : {"setup", "thread", "register", "deregister", "app", "connect"},
             c : Conns]

Pool == INSTANCE WorkPool WITH pending <- work_units

\* Every variable keeps its type.
TypeOK ==
    /\ server \in {"down", "up", "closed", "failed"}
    /\ work_units \in Seq(Units)
    /\ running \in [Workers -> Units \cup {Idle}]
    /\ accepted \in 0..NConns
    /\ acc \in Conns \cup {0}
    /\ at \in [Conns -> Addrs \cup {NULL}]
    /\ live \subseteq Conns /\ hosted \subseteq Conns /\ head \subseteq Conns
    /\ registration_mutex \in Conns \cup {0}
    /\ epc \in [Conns -> {"none", "loop", "eof", "test", "deref", "drop", "free",
                          "stale", "ended"}]
    /\ stage \in [Conns -> {"none", "register", "app", "deregister"}]
    /\ index \in 0..MAX_SERVER_CONNECTIONS /\ look \in Children \cup {NULL}
    /\ server_connections \in [Indexes -> Children \cup {NULL}]
    /\ server_connection_count \in (-1)..NChildren
    /\ table_mutex \in Workers \cup {0}
    /\ children \in 0..NChildren
    /\ parent \in [Children -> Conns \cup {0}]
    /\ fault \in {"none", "use_after_free", "wild_host", "cascade", "assert"}
    /\ dangling \subseteq Conns /\ quiet \subseteq Conns /\ settled \subseteq Conns
    /\ remover \in [Conns -> Conns \cup {0}]

Init ==
    /\ server = "down"
    /\ Pool!Init
    /\ accepted = 0 /\ acc = 0
    /\ at = [c \in Conns |-> NULL]
    /\ live = {} /\ hosted = {} /\ head = {}
    /\ registration_mutex = 0
    /\ epc = [c \in Conns |-> "none"]
    /\ stage = [c \in Conns |-> "none"]
    /\ index = 0 /\ look = NULL
    /\ server_connections = [i \in Indexes |-> NULL]
    /\ server_connection_count = 0
    /\ table_mutex = 0
    /\ children = 0
    /\ parent = [k \in Children |-> 0]
    /\ fault = "none"
    /\ dangling = {} /\ quiet = {} /\ settled = {}
    /\ remover = [c \in Conns |-> 0]

-----------------------------------------------------------------------------
(* Start and end of the server *)

\* dynpm_server_init or dynpm_server_init_port_range found a port and
\* _dynpm_server_init_common started the pool and the accept thread.
ServerInit ==
    /\ server = "down"
    /\ server' = "up"
    /\ UNCHANGED <<pool, conns, loop, table, fault, ghosts>>

\* No socket, no free port, no pool (which is then finalized) or no accept
\* thread (the pool goes on): -1.
ServerInitFails ==
    /\ server = "down"
    /\ server' = "failed"
    /\ Pool!Stop \/ UNCHANGED pool
    /\ UNCHANGED <<conns, loop, table, fault, ghosts>>

\* dynpm_server_finalize closes the listening socket, and nothing else.
\* (Once NConns connections were accepted it would make no difference.)
ServerFinalize ==
    /\ server = "up"
    /\ accepted < NConns
    /\ server' = "closed"
    /\ UNCHANGED <<pool, conns, loop, table, fault, ghosts>>

-----------------------------------------------------------------------------
(* Pointers *)

\* The connection at the address of c, if there still is one.
Target(c) == {d \in live : at[d] = at[c]}

\* A thread follows the address of c: a crash, or worse, if it was freed.
Follow(c) ==
    /\ dangling' = IF c \in live THEN dangling ELSE dangling \cup {c}
    /\ fault' = IF Target(c) = {} THEN "use_after_free" ELSE fault

\* The host pointers of cs are freed.  The pointer of a connection that was
\* never registered is whatever malloc left there, NULL or not.
FreeHost(cs) ==
    \/ UNCHANGED fault
    \/ /\ ~(cs \subseteq hosted)
       /\ fault' = "wild_host"

-----------------------------------------------------------------------------
(* The accept thread: _client_connection_event_handler *)

\* malloc returns an address that was freed, or a new one.
FreedAddrs == Range(at) \ ({at[d] : d \in live} \cup {NULL})
FreshAddr  == {Cardinality(Range(at) \cup {NULL})}

\* A connection is allocated, locked, and its setup queued ...
Accept(a) ==
    /\ server = "up"
    /\ acc = 0
    /\ accepted < NConns
    /\ a \in FreshAddr \cup FreedAddrs
    /\ accepted' = accepted + 1
    /\ acc' = accepted'
    /\ at' = [at EXCEPT ![accepted'] = a]
    /\ live' = live \cup {accepted'}
    /\ Pool!Submit([f |-> "setup", c |-> accepted'])
    /\ UNCHANGED <<server, hosted, head, loop, table, fault, ghosts>>

\* ... and only then unlocked.
AcceptUnlock ==
    /\ acc # 0
    /\ Follow(acc)
    /\ acc' = 0
    /\ UNCHANGED <<server, pool, accepted, at, live, hosted, head, loop, table,
                   quiet, settled, remover>>

-----------------------------------------------------------------------------
(* The workers *)

Runs(w, f) == running[w].f = f
Unit(w)    == running[w].c
Becomes(w, f) == running' = [running EXCEPT ![w].f = f]

\* A worker takes the next unit.  (It makes no difference which idle worker.)
Take(w) ==
    /\ \A v \in Workers : v < w => running[v] # Idle
    /\ Pool!Start(w)
    /\ UNCHANGED <<server, conns, loop, table, fault, ghosts>>

\* Mutant: the thread is created before the connection is in the list.
SetupInsertLate(w) ==
    /\ Runs(w, "setup")
    /\ registration_mutex = 0
    /\ epc' = [epc EXCEPT ![Unit(w)] = "loop"]
    /\ Becomes(w, "thread")
    /\ UNCHANGED <<server, work_units, stopped, conns, registration_mutex, stage,
                   index, look, table, fault, ghosts>>

\* _client_connection_setup: LIST_INSERT_HEAD under registration_mutex ...
SetupInsert(w) ==
    /\ Runs(w, "setup")
    /\ registration_mutex = 0
    /\ head' = head \cup {Unit(w)}
    /\ Becomes(w, "thread")
    /\ UNCHANGED <<server, work_units, stopped, accepted, acc, at, live, hosted, loop,
                   table, fault, ghosts>>

\* ... then pthread_create, whose failure is only logged.
SetupThread(w) ==
    /\ Runs(w, "thread")
    /\ Follow(Unit(w))
    /\ \/ epc' = [epc EXCEPT ![Unit(w)] = "loop"]
       \/ epc' = [epc EXCEPT ![Unit(w)] = "ended"]
    /\ Pool!End(w)
    /\ UNCHANGED <<server, conns, registration_mutex, stage, index, look, table,
                   quiet, settled, remover>>

\* REGISTER_CONNECTION: pid and host, under the connection's own mutex.
Register(w) ==
    /\ Runs(w, "register")
    /\ acc \notin Target(Unit(w))
    /\ Follow(Unit(w))
    /\ hosted' = hosted \cup Target(Unit(w))
    /\ Pool!End(w)
    /\ UNCHANGED <<server, accepted, acc, at, live, head, loop, table, quiet,
                   settled, remover>>

\* DEREGISTER_CONNECTION takes the connection at that address off the list;
\* the log line that follows reads its fd.
Deregister(w) ==
    /\ Runs(w, "deregister")
    /\ registration_mutex = 0
    /\ head' = head \ Target(Unit(w))
    /\ remover' = [d \in Conns |-> IF d \in head \cap Target(Unit(w))
                                   THEN Unit(w) ELSE remover[d]]
    /\ Follow(Unit(w))
    /\ Pool!End(w)
    /\ UNCHANGED <<server, accepted, acc, at, live, hosted, loop, table, quiet, settled>>

\* The application's handler uses its connection, for example to answer.
HandlerUses(w) ==
    /\ Runs(w, "app")
    /\ Follow(Unit(w))
    /\ UNCHANGED <<server, pool, conns, loop, table, quiet, settled, remover>>

FreeIndexes == {i \in Indexes : server_connections[i] = NULL}

\* It may connect to another server with its connection as the parent:
\* dynpm_connect_to_server fills the first free entry and waits, with
\* server_connections_mutex held.  (A cascade that looks at the new entry
\* before parent_connection is set passes over it, as over a NULL entry.)
HandlerConnects(w) ==
    /\ Runs(w, "app")
    /\ table_mutex = 0
    /\ children < NChildren
    /\ server_connection_count <= MAX_SERVER_CONNECTIONS - 1
    /\ children' = children + 1
    /\ parent' = [parent EXCEPT ![children'] = Unit(w)]
    /\ server_connection_count' = server_connection_count + 1
    /\ \E i \in FreeIndexes :
         /\ \A j \in FreeIndexes : i <= j
         /\ server_connections' = [server_connections EXCEPT ![i] = children']
    /\ table_mutex' = w
    /\ Becomes(w, "connect")
    /\ UNCHANGED <<server, work_units, stopped, conns, loop, fault, ghosts>>

\* The other server has accepted: the mutex is released, the call returns.
HandlerConnected(w) ==
    /\ Runs(w, "connect")
    /\ table_mutex' = 0
    /\ Becomes(w, "app")
    /\ UNCHANGED <<server, work_units, stopped, conns, loop, server_connections,
                   server_connection_count, children, parent, fault, ghosts>>

HandlerReturns(w) ==
    /\ Runs(w, "app")
    /\ Pool!End(w)
    /\ UNCHANGED <<server, conns, loop, table, fault, ghosts>>

-----------------------------------------------------------------------------
(* dynpm_disconnect_from_server, as far as the table is concerned *)

Disconnect(i) ==
    /\ table_mutex = 0
    /\ server_connections' = [server_connections EXCEPT ![i] = NULL]
    /\ server_connection_count' = server_connection_count - 1
    /\ fault' = IF server_connection_count' >= 0 THEN fault ELSE "assert"
    /\ UNCHANGED <<table_mutex, children, parent>>

\* The other server closes: the EOF callback of the child clears its entry.
ChildLost(i) ==
    /\ server_connections[i] # NULL
    /\ Disconnect(i)
    /\ UNCHANGED <<server, pool, conns, loop, ghosts>>

-----------------------------------------------------------------------------
(* The event thread of a connection *)

\* _server_on_read queues a unit for the next message of the client, whose
\* first is REGISTER_CONNECTION.  It needs the connection's mutex.
OnRead(c, m) ==
    /\ epc[c] = "loop"
    /\ c \in live
    /\ acc # c
    /\ m = "register" <=> stage[c] = "none"
    /\ stage[c] \notin {m, "deregister"}
    /\ stage' = [stage EXCEPT ![c] = m]
    /\ Pool!Submit([f |-> m, c |-> c])
    /\ UNCHANGED <<server, conns, registration_mutex, epc, index, look, table, fault,
                   ghosts>>

\* _server_to_client_send_progress, every 10 microseconds: here only what it
\* does to a connection that dynpm_clear_client_connections has freed.
\* (What it does to a live one is MessageQueue's subject.)
Timer(c) ==
    /\ epc[c] = "loop"
    /\ c \notin live
    /\ registration_mutex = 0
    /\ Follow(c)
    /\ UNCHANGED <<server, pool, conns, loop, table, quiet, settled, remover>>

\* The client has closed; libevent calls _server_on_error.  (A descriptor
\* closed by dynpm_clear_client_connections reports nothing any more.)
Eof(c) ==
    /\ epc[c] = "loop"
    /\ c \in live
    /\ epc' = [epc EXCEPT ![c] = "eof"]
    /\ UNCHANGED <<server, pool, conns, registration_mutex, stage, index, look, table,
                   fault, ghosts>>

\* The units that carry the address of c.
Held(c) == {u \in Range(work_units) \cup Range(running) : u.c = c}

\* registration_mutex is taken; the cascade runs if c is in the list.  (An EOF
\* callback that tears down a connection it does not own is a fault, even when
\* the address is in use again.)
EofBegin(c) ==
    /\ epc[c] = "eof"
    /\ registration_mutex = 0
    /\ registration_mutex' = c
    /\ dangling' = IF c \in live THEN dangling ELSE dangling \cup {c}
    /\ fault' = IF c \in live THEN fault ELSE "use_after_free"
    /\ LET found == \E d \in head : at[d] = at[c] IN
         /\ epc' = [epc EXCEPT ![c] = IF found THEN "test" ELSE "free"]
         /\ settled' = IF found /\ \A u \in Held(c) : u.f \notin {"app", "connect"}
                       THEN settled \cup {c} ELSE settled
    /\ UNCHANGED <<server, pool, conns, stage, index, look, table, quiet, remover>>

\* Mutant: the loop stops before the last entry.
MoreEntriesShort == index < MAX_SERVER_CONNECTIONS - 1

\* The loop condition of the cascade.
MoreEntries == index < MAX_SERVER_CONNECTIONS

\* To the next entry.
Advance(c) ==
    /\ index' = index + 1
    /\ epc' = [epc EXCEPT ![c] = "test"]

\* server_connections[index] != NULL, without server_connections_mutex.
CascadeTest(c) ==
    /\ epc[c] = "test"
    /\ MoreEntries
    /\ LET k == server_connections[index] IN
         \/ /\ k = NULL
            /\ Advance(c)
            /\ UNCHANGED look
         \/ /\ k # NULL
            /\ look' = k
            /\ epc' = [epc EXCEPT ![c] = "deref"]
            /\ UNCHANGED index
    /\ UNCHANGED <<server, pool, conns, registration_mutex, stage, table, fault, ghosts>>

\* Mutant: parent_connection is not compared.
IsParentAny(c, k) == TRUE

\* server_connections[index]->parent_connection == in_connection.
IsParent(c, k) == at[parent[k]] = at[c]

\* The entry, or the pointer the compiler kept from the test, is followed.
\* When the entry has changed in between this is a NULL or a freed pointer.
CascadeDeref(c) ==
    /\ epc[c] = "deref"
    /\ \/ \E k \in {look, server_connections[index]} \ {NULL} :
            /\ look' = k
            /\ \/ /\ IsParent(c, k)
                  /\ epc' = [epc EXCEPT ![c] = "drop"]
                  /\ UNCHANGED index
               \/ ~IsParent(c, k) /\ Advance(c)
            /\ UNCHANGED fault
       \/ /\ server_connections[index] # look
          /\ fault' = "cascade"
          /\ UNCHANGED <<epc, index, look>>
    /\ UNCHANGED <<server, pool, conns, registration_mutex, stage, table, ghosts>>

\* dynpm_disconnect_from_server(index).
CascadeDisconnect(c) ==
    /\ epc[c] = "drop"
    /\ Disconnect(index)
    /\ Advance(c)
    /\ UNCHANGED <<server, pool, conns, registration_mutex, stage, look, ghosts>>

CascadeEnds(c) ==
    /\ epc[c] = "test"
    /\ ~MoreEntries
    /\ epc' = [epc EXCEPT ![c] = "free"]
    /\ UNCHANGED <<server, pool, conns, registration_mutex, stage, index, look, table,
                   fault, ghosts>>

\* Mutant: the connection stays in the list.
UnlinkNot(c) == UNCHANGED head

\* _remove_client_connection_from_list.
Unlink(c) == head' = {d \in head : at[d] # at[c]}

\* Mutant: event_base_loopexit is not called.
ExitLoopNot(c) == epc' = [epc EXCEPT ![c] = "loop"]

\* event_base_loopexit lets the callbacks libevent has already activated run
\* first: the timer, if it was due.
ExitLoop(c) == \E next \in {"ended", "stale"} : epc' = [epc EXCEPT ![c] = next]

\* The connection leaves the list and is freed, the mutex is released.
EofFree(c) ==
    /\ epc[c] = "free"
    /\ Unlink(c)
    /\ ExitLoop(c)
    /\ FreeHost({c})
    /\ live' = live \ {c}
    /\ hosted' = hosted \ {c}
    /\ registration_mutex' = 0
    /\ stage' = [stage EXCEPT ![c] = "none"]
    /\ index' = 0 /\ look' = NULL
    /\ quiet' = IF Held(c) = {} /\ acc # c /\ epc'[c] # "stale"
                THEN quiet \cup {c} ELSE quiet
    /\ UNCHANGED <<server, pool, accepted, acc, at, table, dangling, settled, remover>>

\* The timer callback that was due with the EOF.
StaleTimer(c) ==
    /\ epc[c] = "stale"
    /\ registration_mutex = 0
    /\ Follow(c)
    /\ epc' = [epc EXCEPT ![c] = "ended"]
    /\ UNCHANGED <<server, pool, conns, registration_mutex, stage, index, look, table,
                   quiet, settled, remover>>

-----------------------------------------------------------------------------
\* dynpm_clear_client_connections between dynpm_lock_client_connections and
\* dynpm_unlock_client_connections.  LIST_FOREACH reads the next pointer of
\* each connection after it was freed.
Clear ==
    /\ registration_mutex = 0
    /\ head # {}
    /\ live' = live \ head
    /\ hosted' = hosted \ head
    /\ head' = {}
    /\ FreeHost(head) \/ fault' = "use_after_free"
    /\ UNCHANGED <<server, pool, accepted, acc, at, loop, table, ghosts>>

-----------------------------------------------------------------------------
Worker(w) ==
    \/ Take(w) \/ SetupInsert(w) \/ SetupThread(w) \/ Register(w) \/ Deregister(w)
    \/ HandlerConnected(w) \/ HandlerReturns(w)

EofCallback(c) ==
    \/ EofBegin(c) \/ CascadeTest(c) \/ CascadeDeref(c) \/ CascadeDisconnect(c)
    \/ CascadeEnds(c) \/ EofFree(c)

EventThread(c) ==
    \/ \E m \in {"register", "app", "deregister"} : OnRead(c, m)
    \/ Timer(c) \/ Eof(c) \/ EofCallback(c) \/ StaleTimer(c)

\* A crash or an abort ends the program.
Next ==
    /\ fault = "none"
    /\ \/ ServerInit \/ ServerInitFails \/ ServerFinalize
       \/ (\E a \in Addrs : Accept(a)) \/ AcceptUnlock
       \/ \E w \in Workers : Worker(w) \/ HandlerUses(w) \/ HandlerConnects(w)
       \/ \E i \in Indexes : ChildLost(i)
       \/ \E c \in Conns : EventThread(c)
       \/ Clear

Spec == Init /\ [][Next]_vars

-----------------------------------------------------------------------------
(* Properties *)

\* Whoever walks the list under registration_mutex finds allocated
\* connections only, and never two at one address.
ListIsLive ==
    registration_mutex = 0 /\ fault = "none" =>
        head \subseteq live /\ \A c, d \in head : at[c] = at[d] => c = d

\* The EOF callback finds its connection in the list (and so runs the
\* cascade) unless it was taken off by its own DEREGISTER_CONNECTION, or by
\* one left over from an earlier connection at the same address.
EofFinds ==
    \A c \in live : epc[c] \in {"loop", "eof"} /\ c \notin head =>
        \/ remover[c] = c
        \/ remover[c] \in dangling /\ at[remover[c]] = at[c]

\* A connection that is freed when no unit, no due timer and not the accept
\* thread holds its address is never touched again.
QuietCloseIsSafe == dangling \cap quiet = {}

\* A connection that is found in the list when it closes, with none of its
\* handlers outstanding, leaves no child connection behind, whatever happens to
\* the table during its cascade.  (One that deregistered before is not in the
\* list, runs no cascade and leaves its children.)
CascadeComplete ==
    \A k \in Range(server_connections) \ {NULL} :
        ~(parent[k] \in settled /\ epc[parent[k]] \in {"free", "stale", "ended"})

\* The cascade disconnects children of the closing connection only, or
\* children an earlier connection at its address has left behind, unless the
\* entry changes hands between its look and its disconnect.
CascadeOnlyOwn ==
    [][\A c \in Conns : epc[c] = "drop" /\ epc'[c] = "test" =>
          LET k == server_connections[index] IN
          k # NULL /\ k = look =>
              \/ parent[k] = c
              \/ at[parent[k]] = at[c] /\ parent[k] \notin settled]_vars
=============================================================================
