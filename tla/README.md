# A TLA+ model of libdynpm

libdynpm is the communication library of a dynamic process manager: resource
managers, node daemons and applications of an HPC system use it to exchange
fixed-size messages over TCP (libevent), to form a tree overlay of node
daemons, and to exchange data with the processes of a node through shared
memory. This directory holds TLA+ modules for its concurrent parts, TLC
configurations that check them on small instances, and TLAPS proofs of the
main properties for every value of the constants.

Paths below are relative to the repository root.

## 1. Inventory

### Work queue, `src/network/queue.c`
- State: the list `work_units`, the list `thread_data` of workers, each
  worker's `terminate` flag; one mutex, one condition variable.
- Operations: `dynpm_work_queue_init`, `queue_thread` (the workers),
  `dynpm_work_queue_add`, `dynpm_work_queue_finalize`.
- Used by the server: accepting a connection and receiving a message each
  queue a unit; workers run the setup and the message handlers.
- Hard: lost wakeups, finalize against workers that free their own data, an
  init that fails after some workers run, finalize while units are queued.
- Correct when: units start in order, each once, none after finalize; none
  waits while everybody sleeps; finalize walks live data; workers stop.

### Shared memory, `src/shm/shm.c`
- State: one segment of the manager (control block and payload), one of each
  process (control block). Manager and process keep private copies of both.
- Operations: `dynpm_shm_manager_init`, `_process_attach`,
  `_manager_finalize`, `_process_detach`; payload: `_manager_write`,
  `_process_read`; modes: `_process_set_malleability_mode`,
  `_manager_get_malleability_mode`.
- Interaction only through memory: counters say who has written and read what.
- Hard: no lock, blocks copied word by word, 32-bit counters that wrap, a poll
  that looks at one process after the other while all of them move on; attach
  while init is under way, init over segments an earlier run left, a program
  that inherits the pid and so the segment of another.
- Correct when: no message is missed, repeated, torn or overwritten under a
  reader; an agreement on a mode is one the processes really published; who
  attaches after init works with the manager that runs now.

### Client connections, `src/network/client.c`
- State: the table `server_connections[MAX_SERVER_CONNECTIONS]` and its count
  under `server_connections_mutex`; per connection: a libevent base, an event
  thread, `connected`, the list of outgoing messages.
- Operations: `dynpm_client_init`, `dynpm_connect_to_server`,
  `dynpm_disconnect_from_server`, `dynpm_send_*_to_server`; event thread:
  timer (`_client_to_server_send_progress`), `_client_on_read`,
  `_client_on_write`, `_client_on_error`, and the frees when its loop ends.
- Hard: critical sections with a blocking wait inside, an event thread that
  frees what the table still names, an entry read again after the unlock,
  disconnects from two sides, setup failures that keep the mutex.
- Correct when: the table only shows live connections, none is forgotten, the
  count fits the table, a send uses a live connection.

### Outgoing messages, `src/network/client.c` and `src/network/server.c`
- State: `messages_head`, a singly linked list per connection.
- Operations: `_dynpm_enqueue_send_buffer` under `messages_mutex`; removal of
  the head by the timer and the write callback under `connection->mutex`.
- Hard: two different mutexes protect the same list; the server's rejected
  message types return with `messages_mutex` held.
- Correct when: messages leave once, in order, and none is lost.

### Server, `src/network/server.c`
- State: the list of client connections under `registration_mutex`; per
  connection a base, an event thread and outgoing messages; a *static* byte
  counter for reassembly.
- Operations: accept, queued setup, `_server_on_read` (frames a message and
  queues a unit), `_dynpm_top_server_handler` (register, deregister, the
  application's handler), `_server_on_error` (cascades disconnects into the
  client table, frees the connection), `dynpm_clear_client_connections`.
- Hard: connection freed while units, timers and the application hold it;
  cascade without the table's mutex; ordering of units of one connection
  over several workers; the shared byte counter.
- Correct when: a handler only gets live connections and whole messages.

### Tree overlay, `src/network/tbon.c`
- State: a vertex with its id, degree, parent, children, and counters.
- Operations: `dynpm_compute_local_tbon_edges`, `dynpm_initialize_tbon_vertex`,
  `dynpm_send_message_to_tbon_children`, three timed waits, free.
- Hard: every vertex computes its edges alone; a send fails in the middle;
  waits that test their condition once, with a deadline whose units are mixed.
- Correct when: the edges agree, a message comes down once and to everybody
  that no loss cuts off,
  and an undisturbed wait covers everybody below.

### Protocol, `src/network/protocol.c`
- A serializer and a deserializer per message type, `sprintf` into and `sscanf`
  from a fixed-size buffer. The one piece of state is hidden: registrations are
  cut into lines by `strtok`, whose position is process-wide, while deserializers
  run on all workers of the pool.
- Hard: registrations read side by side; two layouts per type that must agree; a conversion that fails leaves
  the rest of the message uninitialized; `%d` for unsigned numbers and for
  `time_t`; a loop variable that is never initialized.
- Correct when: what is read is what was written.

### Configuration, logger
`src/config/` is a flex/bison parser with setters; `src/common/logger.c` and
`src/print/print.c` only print. They are sequential.

## 2. Modules

| module | models | checked by | proved in |
|---|---|---|---|
| `WorkPool` | what `queue.c` promises (abstract) | through the two below | |
| `WorkQueue` | `queue.c`, implements `WorkPool` | `MCWorkQueue` | `WorkQueueProofs` |
| `ShmSlot` | what the payload part of `shm.c` promises (abstract) | through the one below | |
| `ShmExchange` | payload part of `shm.c`, implements `ShmSlot` | `MCShmExchange` | `ShmExchangeProofs` |
| `ShmMode` | mode part of `shm.c` | `MCShmMode` | `ShmModeProofs` |
| `ShmLifecycle` | init, attach, detach, finalize of `shm.c` | `MCShmLifecycle` | `ShmLifecycleProofs` |
| `ClientConnections` | table, calls and event threads of `client.c` | `MCClientConnections` | `ClientConnectionsProofs` |
| `MessageSize` | `DYNPM_MAX_MESSAGE_SIZE` | through the users of it | |
| `MessageQueue` | outgoing list, both sides | `MCChannel` | `TransportProofs` |
| `Channel` | `MessageQueue`, the byte stream and `_client_on_read` | `MCChannel` | `TransportProofs` |
| `Framing` | `_server_on_read` on several connections | `MCFraming` | `TransportProofs` |
| `ServerConnections` | `server.c` on top of `WorkPool`, with the client table | `MCServerConnections` | `ServerConnectionsProofs` |
| `Protocol` | `protocol.c` | `MCProtocol` | `TransportProofs` |
| `Tbon` | edges, children and downward send of `tbon.c` | `MCTbon` | `TbonProofs` |
| `TbonWaits` | `Tbon` with the timed waits of `tbon.c` | `MCTbon` | `TbonProofs` |

Every module with state has a `TypeOK` that documents the types of its
variables; it is proved invariant (`TypeCorrect`) for `WorkQueue`, `ShmExchange`,
`ShmMode`, `ShmLifecycle`, `ClientConnections`, `MessageQueue`,
`ServerConnections` and `Framing` (`FramingTypeOK`, `FramingTypeCorrect`). The
specifications of `Channel`, `Framing` and `Protocol` have names of their own
(`ChannelSpec`, `FramingSpec`, `ProtocolSpec`), because `TransportProofs` extends
all three.

Definitions whose comment starts with "Mutant" are deliberately wrong versions
of the definition that follows them, each with one plausible mistake. They are
not part of the specification; each property has one that violates it, as
evidence that the property depends on the code.

### WorkQueue
Every critical section of `work_queue.mutex` is one action: `Wait` (list empty,
`pthread_cond_wait`), `Take`, `Leave` (terminate seen), `Add` with its `Signal`,
`Finalize`. `Finish` is the return of a work function, `Free` the
`free(worker_thread_data)` after the loop. The init function runs without the
mutex, so each `pthread_create` (`CreateThread`) and each insertion in the list
(`LinkThread`) is an action, and `InitFails` its error return at any point.
`SpuriousWakeup` wakes a waiting worker for no reason. Units are numbered in
the order of their `Add`. A worker that is waiting has pc `"wait"`; `Signal`
moves one of them, any one, to `"lock"`.

Units are numbered, so `WorkPool` is instantiated with the queue itself, with
the unit each running worker took, and with "finalize has run".

### ShmExchange
The private and the shared copy of every block are separate variables. The two
words of the manager's block that matter, `write_count` and `payload_bytes`,
are copied by one action per word in any order, on both sides: a 64-byte
`memcpy` promises no more. The payload area is `Torn` from the moment the
manager begins to overwrite it until it is stored. Polling the processes
is one action per process. A message is represented by its length. `buf` keeps
apart which message lay in the payload area and the length by which it was
copied, the `payload_bytes` word that was fetched: when a fetch overlaps a
publication that word may belong to an earlier message. The history variable
`overlapped` marks such fetches. Counters wrap at `CountMod`, which stands for 2^32. The model relies on the x86 store
order between the payload `memcpy` and the block `memcpy` (the code's `sfence`
comes after both).

`ShmSlot` is instantiated with memory that is really there: a process has a
message pending while the `read_count` it has published differs from the
manager's `write_count` and it has not copied the payload yet, and the message is
what the payload area holds; what it took last is what is in its buffer. The
slot promises the whole message to a process whose fetch overlapped no
publication, and any length to the others.

### ShmMode
Same treatment of blocks. `meta_updates` is counted as the code counts it, by
comparison with `read_count - 1`. The history variable `moved` holds the processes
that published a word during the poll under way.

### ShmLifecycle
Manager and processes share nothing but names, so every system call is an
action. A file is known by the segment it was made for and the number of the
init that made it, and outlives its name: `shm_open` with `O_CREAT` reuses what
it finds, `ftruncate` to the same size leaves the bytes, `shm_unlink` takes the
name only. `shm_fd` is a `uint32_t`, so the tests `shm_fd < 0` never hold and a
failed `shm_open` is noticed by the call after it; `dynpm_shm_manager_init` goes
on with the next segment when one fails (`SegmentFails`, at the open, the
truncation or the mapping). `AttachFails` is a failing `mmap` of a process, of
either segment, although the name is there. A control block is reduced to whether
it was published and to the counter that the other side compares (`ShmExchange`
and `ShmMode` look inside). `ManagerCrash` ends the manager without finalize,
`Replace` gives a pid to another program between two sessions, `ManagerWrite`,
`Read` and `SetMode` move the counters so that stale ones can be told apart.

### ClientConnections
Application threads and event threads compete for `server_connections_mutex`.
Operations that span more than a critical section are split: `ConnectStart`
(mutex taken, entry allocated, event thread running, waiting) and
`ConnectDone`, with `ConnectSetupFails`, `ConnectThreadFails` and
`ConnectNameFails` for its error returns; `DisconnectBegin` (up to `event_base_loopexit`) and
`DisconnectEnd` (entry cleared, count decremented, assertion, unlock), used by
the application and by the EOF callback; `SendCheck`, `SendReread` and
`SendEnqueue`. The timer callback is split into `TimerFires` (it wants the
mutex) and `SendProgress`. Connections are pieces of memory: a freed one can be
returned by the next `calloc`, so a stale pointer may reach a new connection,
and threads may connect and disconnect for ever. The constant `Faults` says
what the environment may do: a failing libevent constructor (`"setup"`), a
failing `pthread_create` (`"thread"`), a failing `pthread_setname_np` (`"name"`:
connect returns -1 and leaves an entry with a running event thread and no
registration), a refused connection (`"error"`: the callback logs it and signals
nobody), a server that answers only after the
first timer (`"slow"`), a spurious wakeup of the wait in connect (`"spurious"`).
The assertion, a NULL dereference and a use of freed memory set `fault`, after
which nothing happens. The application disconnects an index once per connect
that returned it, and holds at most `MaxHeld` of them.

### MessageQueue
Reads and writes of `messages_head` and of `next` are separate actions. The
event thread's callbacks are `SendProgress` or `OnWrite`, then `Write`,
`ReadNext`, `Advance`. `overtaken` is a history variable: messages linked
behind one the event thread had already decided to remove. `SendRejected` is
the server side only; without it the specification is the client side.

### Channel
Extends `MessageQueue` with the other end. What the event thread has written is
a stream of bytes that arrives in order and in pieces of any length. The client,
unlike the server, sets no limit on a read, and `_client_on_read` ends the
program unless it finds exactly one message. The history variables `split` and
`outrun` say whether a piece was cut inside a message, and whether a message
was written before the one before it was handled.

### Framing
One event thread per connection runs `_server_on_read`. The callback is cut
where the static `message_bytes_read` is touched: `OnRead` (the offset is
read, the bytes are stored), `Load`, `Store` with the tests and the queueing of
a unit, `Reset`, `Return` (the buffer is freed). `bufferevent_set_max_single_read`
limits what a callback finds to one message size, so the first
`bufferevent_read` takes everything. Bytes are represented by their position in
the stream; bytes stored behind the end of a buffer only set the history
variable `spill`. The other history variables say what has happened so far:
`cut` (a callback got less than a message), `crossed` (bytes of two
messages), `mixed` (a callback began while another connection was at work or
in the middle of a message).

### ServerConnections
The accept thread (`Accept`, `AcceptUnlock`), the workers (`Take`, `SetupInsert`,
`SetupThread`, `Register`, `Deregister`, `HandlerUses`, `HandlerConnects`,
`HandlerConnected`, `HandlerReturns`), the event thread of each connection
(`OnRead`, `Timer`, the EOF callback) and the application (`Clear`,
`ServerFinalize`). The pool is an instance of `WorkPool`. A connection lives at an
address, addresses are reused after `free`, and a unit, a timer or a child
connection that holds an address works on whatever is there when it runs: on
the connection it was made for, on nothing (`dangling`, a fault) or on a newer
one. The cascade of the EOF callback reads the client table without its mutex:
the test for NULL (`CascadeTest`), the comparison of `parent_connection`
(`CascadeDeref`) and the call of disconnect (`CascadeDisconnect`) are separate
actions, between which children come (`HandlerConnects`) and go (`ChildLost`).
Of `client.c` only the table is kept here; the way messages are put together is
`Framing`'s subject, the outgoing ones are `MessageQueue`'s.

### Protocol
A text is a sequence of tokens, numbers and words; a string is the sequence of
its words, so empty strings and strings with blanks are told apart from proper
ones. `Sprintf` prints numbers signed; `Sscanf` reads until the first conversion
that fails and leaves the rest as `malloc` did. Every conversion takes one
token, so `Sscanf` is stated without a loop: the k-th conversion reads the k-th
token if all before it succeeded. Numbers are counted modulo `Modulus`, which
stands for 2^32. `Layouts` pairs, for every message type, the format of its
serializer with that of its deserializer. `Serialize(first)` starts its loop over
the applications at any value, because `app` is not initialized; a negative one
is large in the comparison with the unsigned `application_count`, so that no line
is written.

A registration is read in steps, `ReadFirstLine`, `ReadLine`, `EndOfLines`:
`saved` is the position of `strtok`, that is, the lines after it. `OtherWorker`
stands for the deserializers that other workers run meanwhile on the texts
`Others`: their calls leave the position in one of these texts or at any line of
this one, or take the process down when no line is left. The history variable
`overlapped` says that this has happened to the registration under way.

### Tbon
`ParentId` and `ChildId` are the two formulas of
`dynpm_compute_local_tbon_edges`, `Scan` the search for the children in
`dynpm_initialize_tbon_vertex` as a recursive function over the nodes, and
`Initialize` the whole of that function: vertices are initialized one by one,
in any order, while the message is already on its way.
`Receive`, `SendToChild`, `SendFails`, `SendReturns` are the forwarding of a
message at a vertex, `Disconnect` the loss of a connection to a child with
whatever was queued on it, `Overtaken` the loss of a message in the child's
outgoing list, which `MessageQueue` looks into: `dynpm_send_buffer_to_server`
only links the message, and has returned 0 by then. That a vertex forwards what it receives is what the
function is for; the handler that calls it belongs to the daemon.

### TbonWaits
Extends `Tbon`: `WaitBegin` is one of the three timed waits (they are the same
function up to the condition) with the deadline of `_create_time_offset`,
`Timeout` its end by the deadline or by a spurious wakeup, after which the
condition is not tested again. `Report` is the daemon: it counts a child's
`PROCESSES_DONE` under the vertex's mutex and signals when the count is
complete, or for every report (external; the library only declares the
counters and the condition variables).

## 3. Runs

| run | instance | shows |
|---|---|---|
| `pool` | 3 workers, 4 units | the pool implements `WorkPool`, no lost wakeup, finalize safe, every unit gets an outcome, workers stop |
| `shm_exchange` | 2 processes, 2 lengths, counters mod 3 | the exchange implements `ShmSlot`; no missed, repeated or overwritten payload, none cut short unless fetch and publication overlapped; the manager can always write again |
| `shm_mode_safety` | 2 processes, 2 modes, 3 updates each, mod 3 | agreements are real; undisturbed polls of complete rounds are exact |
| `shm_mode_sync` | 2 processes, 1 update each | **violated**: half a round of updates is not reported as out of sync |
| `shm_lifecycle` | 2 processes, 2 inits, 1 write each, 1 replaced program | attaching in the agreed window succeeds and keeps up; what happens outside it is bounded |
| `client` | 2 threads, table of 2, 2 pieces of memory, all faults | table sound, nothing forgotten, count explained, sends safe outside the race window, the mutex stuck in three ways only |
| `client_count` | 1 thread, 1 connection | **violated**: the assertion on the count |
| `channel` | 2 senders, 4 messages of 2 bytes | order from sender to handler, losses in one window only, why a client ends, everything else arrives |
| `framing` | 2 connections, 2 messages of 3 bytes each, cut anywhere | exact framing of whole messages, recovery after a split one |
| `server` | 2 workers, 2 connections, 2 children, table of 2 | the list is live, the EOF callback finds its connection, a quiet close is final, the cascade is complete and takes no others |
| `protocol` | every message type, numbers mod 4, up to 2 applications, another worker with a registration of 1 | fields read back as written; a registration has all its applications or crashes, and its own unless others were read meanwhile |
| `tbon` | degree 3, 5 vertices, waits of 1 s and 3 ns with 2 µs to the second and 2 ns to the µs | edges form one tree, delivery once and top down, return codes, no lost report, waits cover the subtree, everybody reached whom no loss cuts off, waits end |

Why the bounds are enough. *Pool*: with three workers one can run, one wait and
one be between the two; four units let a signal hit while others are
queued. *Exchange*: the handshake admits one outstanding message, so counters
mod 3 contain every phase difference and the wrap-around (the proofs remove
these bounds); two lengths tell a message from the one before it. *Modes*:
three updates mod 3 reach the wrap-around. *Lifecycle*: the second init meets
every state the first can leave, in files, names and processes; one process
can be ahead of the other. *Client*: the two pieces of memory are reused without
end, so an index and an address can each be met again by a thread that holds an
older one. *Channel*: losing a message takes two; four let losses chain and the
list recover; two bytes can be cut and joined. *Framing*: three bytes can be cut
at two places, so that a piece can be first, middle or last, and the second
message shows what is left of a split first one. *Server*: two connections at
one address, one after the other, or at two; two workers take the units of one
connection out of order; two children have the same or different parents.
*Protocol*: modulo 4 there is a number that prints as positive and one that prints
as negative; the strings are a word, the empty one and one of a number and a word
with a blank between, in any field; the other worker's text is shorter or longer
than what is left of this one.
*Tree*: five vertices of degree three are one full, one partial and three leaf
vertices on three levels, and a send can fail at its first, second or third
child; the units of time make deadlines that are good, that have passed and
that are refused.

Deadlock is checked except where the program may stop: `ClientConnections` (it
aborts, or a failed setup keeps the mutex for good), `Channel` (all messages
handled, the client ended, or the mutex kept by a rejected message),
`Framing` (all bytes have arrived), `ServerConnections` (a crash, or all
connections closed), `ShmLifecycle` (a program has ended), `Protocol` (the
message was read), `Tbon` (everybody was reached and has waited).

### Findings
- `client.c:599`, `assert(server_connection_count >= 0)`: a connection closed by
  the server is disconnected by its event thread and, later, by the
  application. The second call finds NULL, returns -1, and still decrements.
- `shm.c:391`: "the process has updated metadata not read by the manager" is
  tested as `write_count == read_count - 1`, the reverse of an update. No
  update is ever recognised until a counter wraps, so the out-of-sync status of
  line 432 is not reported when it should be.

More behaviours are visible in the models, without a statement in the code
that they contradict. The properties are stated so that they bound them:
- *Queue and framing*: messages linked behind one that is being removed are lost
  (`OnlyOvertakenLost`); messages are damaged when they arrive in pieces or on
  two connections at once (`WholeUntilHarm`, `SplitRealigns`); a client ends when
  a read finds less or more than one message (`ExitNeedsCrowding`).
- *Client*: connect and the timer of the same connection wait for each other
  when the server takes longer than a second; a failed setup returns with the
  mutex held; a connect whose connection is refused waits, with the mutex, for a
  signal that nobody sends (`HolderGoesOn` says these are the only three ways); a
  send uses freed memory when a disconnect falls between its check and its use;
  after a failed `pthread_setname_np` a thread with an older handle of the same
  entry sends over a connection that never registered (`SendSafeUnlessRaced`).
- *Server*: units, a due timer and the application keep the address of a
  connection the EOF callback frees (`QuietCloseIsSafe`); a deregistration that
  is overtaken works on the next connection at that address (`EofFinds`); the
  cascade may follow an entry that was cleared in between
  (`CascadeOnlyOwn`); `dynpm_clear_client_connections` reads the next pointer of
  a node it has freed, and leaves event threads whose timers use it.
- *Shared memory*: the length by which a process copies can be that of an earlier
  message, 0 before the first, because the block is copied word by word: a
  truncated or over-long copy is then returned and acknowledged. It takes a
  fetch that overlaps the publication; which message it is, and the order, are
  not affected (`ImplementsSlot`). A process that attaches during
  init may read zeroes and later unlink the name of job 0
  (`DetachUnlinksOwn`); a detach left over from an earlier session unlinks the
  name of the manager that runs now; an attach that failed can never be repeated
  (`MapsOnce`).
- *Protocol*: an empty string or one with blanks cuts off the fields after it;
  only half of a `time_t` is carried (`FieldsIntact` allows for both); a
  registration whose loop does not start at 0 loses lines and crashes the reader;
  registrations deserialized at the same time take each other's lines, or crash
  (`WholeOrCrash`, `FieldsIntact`: the count and the first line are always right).
- *Tree*: a message lost in an outgoing list costs the subtree it was for, although
  the send returned 0; a lost connection also those of the siblings after it
  (`ReachesAll`, `ReturnCodeTrue`). `_create_time_offset` adds microseconds to nanoseconds, so a deadline
  is up to a second early (`DeadlineIsNear`), and one of a second or
  more in the nanoseconds makes the wait return at once.

### Fairness
- `WorkQueue`: weak fairness of each worker and of the init function; a thread
  that can run does, and work functions return. Nothing forces `Add`, and
  `Finalize` only after a failed init, where the server calls it on the next
  line (`server.c:708`). Spurious wakeups may but need not happen.
- `ShmExchange`: weak fairness of the manager and of each process: the calls do
  not block and return -2 or 0 bytes, so their callers have to poll.
- `Channel`: the timer re-arms itself in every call, a sender that holds
  `messages_mutex` continues, and bytes that were written arrive.
- `TbonWaits`: the threads of every vertex run and deadlines pass. No step can be
  repeated for ever, so one condition for all of them amounts to one for each.

`ClientConnections` and `ServerConnections` are checked for safety only. Connect
really can wait for ever, so what is stated of the client is `HolderGoesOn`:
whoever holds the mutex can take its next step, except in the three situations
above. For the server, liveness on the full instance is too large for TLC.

## 4. Proofs

`tlapm M.tla` checks the proofs of module `M`; the modules are
`WorkQueueProofs`, `ShmExchangeProofs`, `ShmModeProofs`, `ShmLifecycleProofs`,
`ClientConnectionsProofs`, `TransportProofs`, `ServerConnectionsProofs` and
`TbonProofs`. The inductive invariants were first checked by TLC, on the
instances above or slightly smaller or larger ones. Assumptions are the named
ones of the modules. They say that the parameters are natural numbers, positive
where the code requires it (`SizeAssumption`: a message has at least one byte),
that a counter has at least two values (`ShmAssumption`, `ModeAssumption`), that 0 is a mode (`ModeAssumption`: a fresh
block is zero), and that what represents the holder of a mutex can be told
apart: "nobody", a thread and an event thread (`ConnAssumption`,
`QueueAssumption`). The bounds that keep TLC's state spaces finite (number of
units, updates, inits, messages, connections) are parameters of the theorems.

**WorkQueueProofs.** `IInv` is `TypeOK`, `PoolInv` (which workers exist, are
linked and may have left, depending on where init is and whether finalize
ran), `QueueInv` (the queue holds consecutive unit numbers that end with the
last unit added; started and discarded units are the ones before) and
`NoLostWakeup`. `StartOrder` and `OneOutcome` are not inductive alone: that
`Take` gets the smallest remaining number needs the shape of the queue.
`LinkedNotFreed` needs that a worker leaves only after finalize has emptied the
list. `NoLostWakeup` is inductive next to the others because a signal wakes a
waiting worker if there is one, and a worker starts to wait only when the
queue is empty. One lemma per part of the invariant (`TypeStep`, `PoolStep`,
`QueueStep`, `WakeStep`), one step per action in each. `PoolIsImplemented` shows
that every step is, under the mapping, a step of `WorkPool` or invisible there;
besides `IInv` it needs `BusyInv`, that a worker has a unit exactly while it is
busy, so that the mapping of an idle worker is idle.

**ShmExchangeProofs.** `IInv` is `TypeOK`, `ManagerInv` (how the manager's
shared and private blocks differ while it publishes; that a process counted by
the poll has acknowledged and cannot change its mind), `ProcessInv(p)` (for
each point of `process_read`, the relation of its counters and its copy of the
block to the manager's counter and to `unread[p]`) and `LengthInv(p)` (a fetch
that overlaps no publication finds the length of the message in the payload area,
which stays until it is acknowledged). The argument: a process one
behind blocks the manager, and a process in sync cannot get ahead, so the
difference is 0 or 1 modulo `CountMod`, and for `CountMod >= 2` these are told
apart (lemma `Ring`). From it follow `NeverMissed`, `NoOverwrite`,
`ReadsInOrder` and `CountersAgree`, although blocks are torn: `write_count` is
a single word and is stored after the payload. `SlotIsImplemented` shows that the
step that stores the payload and counts it is `Put`, the copy by a process is
`Get`, and every other step is invisible: the payload area, which the mapping
shows while somebody has a message left, is overwritten only when nobody has, and
an acknowledgement makes the counters equal just when the copy is done.

**ShmModeProofs.** `IInv` is `PollInv` (types; blocks are fetched in order, at
most one update is counted for each), `SeenInv` (the mode in a block, and the
mode in the manager's copy once that word is fetched, was published at some
moment of the call), `CopyInv` (while nobody has published anything since the call
began, the words fetched are those of the blocks) and `CountInv` (if the blocks
looked at have the same `write_count`, all of them or none were counted as
updated). `AgreementsAreReal` needs `SeenInv` only. `SettledPollsAreExact` needs
the others: the code compares in the wrong direction, so a complete round is
counted as no update at all or, where the counter has wrapped, as one of
everybody; the decision comes out right in both cases.

**ShmLifecycleProofs.** `IInv` is `TypeOK`, `ManagerInv` (init takes the segments
in order and returns 0 only if none failed), `NameInv` (names of process
segments stay; the manager's name is that of the mapped file until someone
removes it), `NumberInv` (a file that an init creates is mapped by nobody yet),
`PublishedInv` (what this session published is still there), `AttachInv`,
`SinceInv`, `InvitedInv` (what an attach holds at each of its steps, depending on
when it began) and `LagInv` (the counters of who attached in this session).
`KeepsUp` is not inductive: that the counter a process adopts from its own,
possibly reused, segment is 0 comes from `PublishedInv`, because nobody writes to
the segment of a process that has not mapped it and the manager cannot be more
than one message ahead of it. `DetachOfLateAttachIsSafe` is an action
property: `SinceInv` shows that who began after init has read its job.

**ClientConnectionsProofs.** `IInv` is `TypeOK`, `MutexInv` and `HolderInv` (who
holds the mutex, and why a thread outside every call may), `ThreadInv` (what an
event thread's place says about its connection), `NoOrphan`, `TableInv` (an entry
names a connection that knows its index; it is told to exit, or freed, exactly
while the holder of the mutex is between the two halves of a disconnect of that
entry), `ConnectInv`, `SendInv` (what a send has checked stays true until a
disconnect of its index begins) and `CountInv`. `TableSound` speaks of moments when
the mutex is free; `TableInv` says what the table looks like while it is held.
`CountInv` counts entries with the cardinality theorems of `FiniteSetTheorems`.
`MutexGoesOn` goes through the kinds of holder: each stands where its next step needs
no other thread to give way, or is in one of the three known situations. The
registration ahead of a send, and a refused connection, are followed by the fields
`first`, `failed` and `link` of a connection.

**TransportProofs, outgoing queue and client.** `QueueInv` is about the linked list while it is changed from
two sides: `SenderInv`, `LinkInv`, `WrittenInv`, `HeadInv` (`messages_head` divides
the messages into written ones and others), `ChainInv` (from the head on each
message that was not overtaken points to the next such message; only the last,
while it is being removed, may point to an overtaken one) and `StoreInv` (the
`next` that the event thread has read is still there, unless it was NULL).
`OnlyOvertakenLost` then says that every other message is written or reachable
from the head. Reachability follows by taking the least message that could be
missing (`WFMin` of `WellFoundedInduction`, on the natural numbers).
`ReadingLeavesQueueAlone` shows that `Channel` implements `MessageQueue`, so that
`QueueInv` holds there as well. `ClientInv` says that what was handled is a
beginning of what was written, and that two messages on their way mean that the
writer was ahead; with the arithmetic of pieces and message sizes it gives
`HandledInOrder` and `ExitNeedsCrowding`.

**TransportProofs, reception by the server.** `FramingInv` is `FramingTypeOK`,
`PieceInv` (a callback has at least one byte, so units need bytes), `SoloInv`
(until connections mix at most one of them is at work or in the middle of a
message), `AlignInv` and `WholeInv`. `AlignInv` says that until connections mix or
a callback gets bytes of two messages the static `message_bytes_read` is the
position of that one connection within its message, with `BufferInv` for the
bytes of the callback at work and `UnitInv` for the last unit; its arithmetic is
in the lemmas `Position`, `PositionUnique` and `Forward`. `WholeInv` says that until
a callback gets less than a message each of them gets exactly one. `WholeUntilHarm`
and `SplitRealigns` are not inductive: that the next piece goes where its message
continues needs the count that the last callback of the same connection left,
hence that no other connection was active in between.

**TransportProofs, protocol.** A text is a recursive function of the
conversions; that the function exists (`SprintfDefined`), and that its first k
tokens are those of the first k fields when these are numbers or single words
(`SprintfPrefix`), is shown by taking the least conversion for which it could
fail. `FieldReturns` reads one field back, `NumbersReturn` being the arithmetic of
signed printing. `LayoutsAgree` goes through all message types: both sides have the
same format, and its fields differ. `ProtocolInv` is `MessageInv` (the message fits
its layout, a registration counts its applications), `TextInv` (the text has the
lines of the last applications) and `ReceivedInv` (what was received is what
`sscanf` makes of them) with `LinesInv` for a registration (what is read and what
`strtok` has left are this text's lines in order, as long as no other worker has
called it; the list ends at the expected number in any case). `WholeOrCrash` then
follows by counting: a reader that finds as many lines as `application_count` says
has all of them.

**ServerConnectionsProofs.** `IInv` has fourteen parts: `TypeOK`; `PoolInv`,
`FreshInv` and `SetupInv` (which units can be queued for which connections, and
that a connection is set up by one unit only, before its event thread runs);
`AddrInv` (no two allocated connections share an address; addresses are numbered
without gaps, so `malloc` returns a free one or the next); `ListInv` and `EofInv`
(the list holds allocated connections, one EOF callback at a time is past
`registration_mutex`); `FindInv` (who took an allocated connection off the list);
`QuietInv` and `SettledInv` (a connection that closed quietly, or with no handler
outstanding, is in nobody's hands any more); `ChildInv`, `CascadeInv` and `DropInv`
(the entries the cascade has passed hold no child of a settled connection, even
though children come and go meanwhile); `CountInv`. There is one lemma per
action. The histories `quiet` and `settled` are what makes `QuietCloseIsSafe` and
`CascadeComplete` provable: they fix what was outstanding at the moment of the
close, and only units that exist then can bring the address back.

**TbonProofs.** `EdgesInv` says that an initialized vertex holds what the two
formulas give, and that no step changes it. `EdgesAgree` then follows from the
arithmetic of `(id - 1) / degree` and `degree * id + i + 1` (lemmas `ChildDiv`,
`DivMod`, `ChildNumber`, `ChildIffParent`, `ChildSlots`). `SendInv` says, slot by slot,
which children have got the message, or lost it with the connection or in the
list, when the loop at their parent
stands at a given slot; with `ChildUnique` (a child is in one slot of one vertex)
it gives `OnceAndTopDown` and `ReturnCodeTrue`. `WaitsLeaveTreeAlone` shows that
`TbonWaits` implements `Tbon`, which carries all three over
(`TreeSafeWhileWaiting`). `ReportsAreNotLost` rests on `WaitInv` (counts and numbers
of children are naturals, and a vertex waits only while reports are missing,
since the report that completes the count signals). `WaitCoversSubtree` rests on
`ReportInv`: `total_children` is the number of children, the reports counted are
those of different children, and each of them came back from its wait. Two
recursive functions are involved, the scan for the children and the subtree of
a vertex; both are reasoned about by the least node for which the claim could
fail (`LeastNumber`, `ScanCounts`, `SubtreeParent`). `DeadlineIsNear` is arithmetic.

Only model-checked: the liveness properties `QueuedUnitRuns`, `PoolShutsDown`,
`WritesGoThrough`, `LinkedIsHandled`, `ReachesAll` and `WaitReturns`; fairness and
ENABLED are beyond the prover. Every invariant, action property and refinement
that a passing run checks is also proved.

## 5. Plan

The components of the inventory are modelled, and their safety properties are
proved. What could follow:
1. An abstract specification of a connection as its users see it, implemented by
   the client table and the outgoing queue together.
2. Liveness of the server, on an instance that is cut down to one connection.
3. The lengths of texts: which messages fit in the fixed-size buffer.

## 6. Not modelled

Configuration, logging and printing are sequential and keep no state that
others depend on; the PMIx glue is empty. `dynpm_free_tbon_vertex` is never
called by the library, and the functions that only find or print list entries
change nothing. In the EOF callback of the server, `connection->mutex` is
unlocked although it is not held (`server.c:290`), as it is by a rejected message
type (`server.c:681`); what that does is up to the threads library. The callback
also closes the descriptor at `server.c:294` and again in `bufferevent_free`
(line 332), and its log call reads the table entry once more (line 312). Text lengths and payload bytes of messages are left out.
libevent, pthreads, TCP and `mmap` are represented only by what the code relies
on: callbacks of one base run one at a time on its thread, a loop exits after
the callbacks that are due, mutexes exclude, a condition wait may return early.
Memory exhaustion is modelled only where the code's error path leaves state
behind (work queue, connect). Left out are the failing allocations of
`_server_on_read`, which return with `connection->mutex` locked
(`server.c:231`-`239`), and a failing `bufferevent_write`, which can fail for lack
of memory only and costs the message. In `ServerConnections` a handler's connect
succeeds when the table has room; its failures are `ClientConnections`' subject.
That `strtok`'s position may be in the buffer of a message that has been freed is
left out too: a line it finds there is one of that text.
