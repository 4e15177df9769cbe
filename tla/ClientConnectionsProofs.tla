---------------------- MODULE ClientConnectionsProofs ----------------------
(***************************************************************************)
(* Proofs about the client's connection table, for any number of           *)
(* application threads, connections and entries, and for every combination *)
(* of the failures the code handles.                                       *)
(***************************************************************************)
EXTENDS ClientConnections, FiniteSetTheorems, TLAPS

Running == {"loop", "timer", "eof", "drop"}

\* The index for which the holder of the mutex is between the two halves of a
\* disconnect
AppDropping ==
    {i \in Indexes : \E t \in Threads : mutex = t /\ apc[t] = "drop" /\ aidx[t] = i}
EofDropping ==
    {i \in Indexes : \E d \in Conns : mutex = d /\ epc[d] = "drop" /\ conn[d].index = i}
Dropping == AppDropping \cup EofDropping

\* Who is inside connect or disconnect holds the mutex.
MutexInv ==
    /\ \A t \in Threads : apc[t] \in {"connect", "drop"} => mutex = t
    /\ \A c \in Conns : epc[c] = "drop" <=> mutex = c

\* What the place of an event thread says about its connection.
ThreadInv ==
    \A c \in Conns :
        /\ epc[c] \in Running => conn[c].state = "live"
        /\ epc[c] = "ended" <=> conn[c].state = "freed"
        /\ epc[c] = "timer" => conn[c].connected \/ "slow" \in Faults
        /\ epc[c] \in {"eof", "drop"} => conn[c].connected
        /\ conn[c].link = "open" => conn[c].connected
        /\ conn[c].link = "shut" => conn[c].connected \/ "error" \in Faults

\* What a filled entry says about its connection: it was told to exit, or has
\* done so, exactly while a disconnect of the entry is under way; until it is
\* registered its connect holds the mutex, or has failed.
EntryInv(i) ==
    LET c == server_connections[i] IN
    c # NULL =>
        /\ conn[c].index = i
        /\ conn[c].state # "none"
        /\ conn[c].loopexit \/ conn[c].state = "freed" <=> i \in Dropping
        /\ \/ conn[c].first # "none"
           \/ conn[c].failed
           \/ epc[c] = "ended"
           \/ \E t \in Threads : mutex = t /\ apc[t] = "connect" /\ aconn[t] = c

TableInv == \A i \in Indexes : EntryInv(i)

\* The connection a connect waits for is in the table and has its thread.
ConnectInv ==
    \A t \in Threads : apc[t] = "connect" =>
        /\ aconn[t] # NULL
        /\ server_connections[aidx[t]] = aconn[t]
        /\ epc[aconn[t]] \in {"loop", "timer", "eof"}

\* A thread that holds the mutex outside a call has come back from a failed
\* setup.
HolderInv ==
    \A t \in Threads : mutex = t =>
        \/ apc[t] \in {"connect", "drop"}
        \/ /\ apc[t] = "idle" /\ "setup" \in Faults
           /\ \E i \in Occupied : epc[server_connections[i]] = "none"

\* What a send has checked stays true until a disconnect of its index begins.
SendInv ==
    \A t \in Threads : apc[t] \in {"send", "enqueue"} /\ ~raced[t] =>
        LET c == server_connections[aidx[t]] IN
        /\ c # NULL
        /\ aidx[t] \notin Dropping
        /\ apc[t] = "enqueue" => aconn[t] = c
        /\ conn[c].first # "none" \/ conn[c].failed

\* The count at every moment, not only when the mutex is free.
CountInv ==
    /\ server_connection_count <= Cardinality(Occupied)
    /\ ~emptied => server_connection_count = Cardinality(Occupied)
    /\ fault = "none" => server_connection_count >= 0

IInv ==
    /\ TypeOK
    /\ MutexInv
    /\ ThreadInv
    /\ NoOrphan
    /\ TableInv
    /\ ConnectInv
    /\ HolderInv
    /\ SendInv
    /\ CountInv

-----------------------------------------------------------------------------
\* After dynpm_client_init.
LEMMA TypeInit == Init => TypeOK
  <1> SUFFICES ASSUME Init PROVE TypeOK
    OBVIOUS
  <1> USE ConnAssumption DEF Init, Conns, Indexes, NULL
  <1>1. conn \in [Conns -> Structures]
    BY DEF Unused, Structures
  <1>2. server_connections \in [Indexes -> Conns \cup {NULL}] /\ aconn \in [Threads -> Conns \cup {NULL}]
    OBVIOUS
  <1>3. handles \in [Indexes -> Nat] /\ aidx \in [Threads -> Indexes]
    OBVIOUS
  <1>4. server_connection_count \in (-1)..MAX_SERVER_CONNECTIONS
    OBVIOUS
  <1>5. raced \in [Threads -> BOOLEAN] /\ emptied \in BOOLEAN
    OBVIOUS
  <1> QED
    BY <1>1, <1>2, <1>3, <1>4, <1>5 DEF TypeOK

\* What malloc and the assignments after it give to the table and to the
\* count.
LEMMA TypeAllocate ==
    ASSUME TypeOK, NEW c \in Conns, NEW i \in Indexes, NEW f \in BOOLEAN, Allocate(c, i, f),
           ~(server_connection_count > MAX_SERVER_CONNECTIONS - 1)
    PROVE  /\ server_connections' \in [Indexes -> Conns \cup {NULL}]
           /\ server_connection_count' \in (-1)..MAX_SERVER_CONNECTIONS
           /\ conn' \in [Conns -> Structures]
  <1> USE ConnAssumption DEF TypeOK, Allocate
  <1>1. conn' \in [Conns -> Structures]
    BY DEF Unused, Structures
  <1> QED
    BY <1>1

\* Assignments to the fields of a connection.
LEMMA TypeFields ==
    ASSUME NEW f \in [Conns -> Structures], NEW c
    PROVE  /\ [f EXCEPT ![c].loopexit = TRUE] \in [Conns -> Structures]
           /\ [f EXCEPT ![c].link = "shut"] \in [Conns -> Structures]
           /\ [f EXCEPT ![c].connected = TRUE, ![c].link = "open"] \in [Conns -> Structures]
           /\ [f EXCEPT ![c].first = IF @ = "none" THEN "register" ELSE @] \in [Conns -> Structures]
           /\ [f EXCEPT ![c].first = IF @ = "none" THEN "other" ELSE @] \in [Conns -> Structures]
  <1>1. [f EXCEPT ![c].loopexit = TRUE] \in [Conns -> Structures]
    BY DEF Structures
  <1>2. [f EXCEPT ![c].connected = TRUE, ![c].link = "open"] \in [Conns -> Structures]
    BY DEF Structures
  <1>3. [f EXCEPT ![c].first = IF @ = "none" THEN "register" ELSE @] \in [Conns -> Structures]
    BY DEF Structures
  <1>4. [f EXCEPT ![c].first = IF @ = "none" THEN "other" ELSE @] \in [Conns -> Structures]
    BY DEF Structures
  <1>5. [f EXCEPT ![c].link = "shut"] \in [Conns -> Structures]
    BY DEF Structures
  <1> QED
    BY <1>1, <1>2, <1>3, <1>4, <1>5

\* ... and what the two halves of a disconnect give.
LEMMA TypeDisconnect ==
    ASSUME TypeOK, NEW h, NEW i \in Indexes
    PROVE  /\ DisconnectBegin(h, i) => /\ conn' \in [Conns -> Structures]
                                      /\ raced' \in [Threads -> BOOLEAN]
           /\ DisconnectEnd(i) /\ server_connection_count >= 0 =>
                /\ server_connections' \in [Indexes -> Conns \cup {NULL}]
                /\ server_connection_count' \in (-1)..MAX_SERVER_CONNECTIONS
                /\ emptied' \in BOOLEAN
                /\ fault' \in {"none", "assert"}
  <1> USE ConnAssumption DEF TypeOK
  <1>1. ASSUME DisconnectBegin(h, i) PROVE conn' \in [Conns -> Structures]
    <2>1. CASE server_connections[i] = NULL
      BY <1>1, <2>1 DEF DisconnectBegin
    <2>2. CASE server_connections[i] # NULL
      BY <1>1, <2>2, TypeFields DEF DisconnectBegin
    <2> QED
      BY <2>1, <2>2
  <1>2. ASSUME DisconnectBegin(h, i) PROVE raced' \in [Threads -> BOOLEAN]
    BY <1>2 DEF DisconnectBegin
  <1>3. ASSUME DisconnectEnd(i), server_connection_count >= 0
        PROVE  /\ server_connections' \in [Indexes -> Conns \cup {NULL}]
               /\ server_connection_count' \in (-1)..MAX_SERVER_CONNECTIONS
               /\ fault' \in {"none", "assert"}
    BY <1>3 DEF DisconnectEnd
  <1>4. ASSUME DisconnectEnd(i) PROVE emptied' \in BOOLEAN
    BY <1>4 DEF DisconnectEnd
  <1> QED
    BY <1>1, <1>2, <1>3, <1>4

\* Every step keeps the types.
LEMMA TypeStep == TypeOK /\ (fault = "none" => server_connection_count >= 0) /\ [Next]_vars => TypeOK'
  <1> SUFFICES ASSUME TypeOK, fault = "none" => server_connection_count >= 0, [Next]_vars
               PROVE  TypeOK'
    OBVIOUS
  <1> USE DEF TypeOK, table, args, history
  <1>1. ASSUME NEW t \in Threads,
               \/ ConnectStart(t) \/ ConnectSetupFails(t) \/ ConnectThreadFails(t)
               \/ ConnectNameFails(t)
        PROVE  TypeOK'
    <2>1. CASE ConnectStart(t)
      <3>1. PICK c \in Conns, i \in Indexes :
              /\ MayConnect(t) /\ Allocate(c, i, FALSE)
              /\ epc' = [epc EXCEPT ![c] = "loop"] /\ mutex' = t
              /\ apc' = [apc EXCEPT ![t] = "connect"]
              /\ aidx' = [aidx EXCEPT ![t] = i] /\ aconn' = [aconn EXCEPT ![t] = c]
              /\ UNCHANGED <<handles, fault, history>>
        BY <2>1 DEF ConnectStart
      <3>2. FALSE \in BOOLEAN
        OBVIOUS
      <3>3. /\ server_connections' \in [Indexes -> Conns \cup {NULL}]
            /\ server_connection_count' \in (-1)..MAX_SERVER_CONNECTIONS
            /\ conn' \in [Conns -> Structures]
        BY <3>1, <3>2, TypeAllocate DEF MayConnect
      <3> QED
        BY <3>1, <3>3
    <2>2. CASE ConnectSetupFails(t)
      BY <2>2, TypeAllocate DEF ConnectSetupFails, MayConnect
    <2>3. CASE ConnectThreadFails(t)
      BY <2>3, TypeAllocate DEF ConnectThreadFails, MayConnect
    <2>4. CASE ConnectNameFails(t)
      BY <2>4, TypeAllocate DEF ConnectNameFails, MayConnect
    <2> QED
      BY <1>1, <2>1, <2>2, <2>3, <2>4
  <1>2. ASSUME NEW t \in Threads, ConnectNoEntry(t) PROVE TypeOK'
    BY <1>2, ConnAssumption DEF ConnectNoEntry, MayConnect
  <1>3. ASSUME NEW t \in Threads, ConnectDone(t) PROVE TypeOK'
    <2>1. conn' \in [Conns -> Structures]
      BY <1>3, TypeFields DEF ConnectDone, Register
    <2>2. handles' \in [Indexes -> Nat]
      BY <1>3 DEF ConnectDone
    <2> QED
      BY <1>3, <2>1, <2>2, ConnAssumption DEF ConnectDone, Return, Indexes
  <1>4. ASSUME NEW t \in Threads, NEW i \in Indexes, AppDisconnect(t, i) PROVE TypeOK'
    <2>1. handles' \in [Indexes -> Nat]
      BY <1>4 DEF AppDisconnect
    <2>2. conn' \in [Conns -> Structures] /\ raced' \in [Threads -> BOOLEAN] /\ mutex' = t
      BY <1>4, TypeDisconnect DEF AppDisconnect, DisconnectBegin
    <2> QED
      BY <1>4, <2>1, <2>2 DEF AppDisconnect
  <1>5. ASSUME NEW t \in Threads, AppDisconnected(t), fault = "none" PROVE TypeOK'
    <2>1. /\ server_connections' \in [Indexes -> Conns \cup {NULL}]
          /\ server_connection_count' \in (-1)..MAX_SERVER_CONNECTIONS
          /\ emptied' \in BOOLEAN
          /\ fault' \in {"none", "assert"}
          /\ mutex' = NoOne
      BY <1>5, TypeDisconnect DEF AppDisconnected, DisconnectEnd
    <2> QED
      BY <1>5, <2>1, ConnAssumption DEF AppDisconnected, Return, Indexes
  <1>6. ASSUME NEW t \in Threads, NEW i \in Indexes, SendCheck(t, i) PROVE TypeOK'
    BY <1>6 DEF SendCheck
  <1>7. ASSUME NEW t \in Threads, SendReread(t) PROVE TypeOK'
    BY <1>7 DEF SendReread
  <1>8. ASSUME NEW t \in Threads, SendEnqueue(t) PROVE TypeOK'
    <2> DEFINE other == [conn EXCEPT ![aconn[t]].first = IF @ = "none" THEN "other" ELSE @]
    <2>3. conn' = conn \/ conn' = other
      BY <1>8 DEF SendEnqueue
    <2>4. other \in [Conns -> Structures]
      BY TypeFields
    <2>1. conn' \in [Conns -> Structures]
      BY <2>3, <2>4
    <2>2. fault' \in {"none", "assert", "null", "use_after_free"}
      BY <1>8 DEF SendEnqueue
    <2> QED
      BY <1>8, <2>1, <2>2, ConnAssumption DEF SendEnqueue, Return, Indexes
  <1>9. ASSUME NEW c \in Conns, Connected(c) PROVE TypeOK'
    <2>1. conn' \in [Conns -> Structures]
      BY <1>9, TypeFields DEF Connected
    <2> QED
      BY <1>9, <2>1 DEF Connected
  <1>10. ASSUME NEW c \in Conns, TimerFires(c) \/ SendProgress(c) PROVE TypeOK'
    BY <1>10 DEF TimerFires, SendProgress
  <1>11. ASSUME NEW c \in Conns, ServerCloses(c) \/ OnError(c) PROVE TypeOK'
    <2>1. conn' \in [Conns -> Structures]
      <3>1. conn' = [conn EXCEPT ![c].link = "shut"]
        BY <1>11 DEF ServerCloses, OnError
      <3> QED
        BY <3>1, TypeFields
    <2> QED
      BY <1>11, <2>1 DEF ServerCloses, OnError
  <1>12. ASSUME NEW c \in Conns, EofDisconnect(c) PROVE TypeOK'
    <2>1. conn[c].index \in Indexes
      BY DEF Structures
    <2>2. conn' \in [Conns -> Structures] /\ raced' \in [Threads -> BOOLEAN] /\ mutex' = c
      BY <1>12, <2>1, TypeDisconnect DEF EofDisconnect, DisconnectBegin
    <2> QED
      BY <1>12, <2>2 DEF EofDisconnect
  <1>13. ASSUME NEW c \in Conns, EofDisconnected(c), fault = "none" PROVE TypeOK'
    BY <1>13, ConnAssumption DEF EofDisconnected, DisconnectEnd, Structures
  <1>14. ASSUME NEW c \in Conns, LoopExits(c) PROVE TypeOK'
    BY <1>14 DEF LoopExits, Unused, Structures
  <1>15. CASE UNCHANGED vars
    BY <1>15 DEF vars
  <1> QED
    BY <1>1, <1>2, <1>3, <1>4, <1>5, <1>6, <1>7, <1>8, <1>9, <1>10, <1>11, <1>12,
       <1>13, <1>14, <1>15 DEF Next, App, Event

-----------------------------------------------------------------------------
\* NULL, NoOne, the threads and the connections are different from each other.
LEMMA Names ==
    /\ NULL \notin Conns
    /\ NoOne \notin Threads /\ NoOne \notin Conns
    /\ \A t \in Threads, c \in Conns : t # c
    /\ 0 \in Indexes
  BY ConnAssumption DEF NULL, Conns, Indexes

\* A disconnect by an event thread is known by the mutex, its place and its
\* connection's index.
LEMMA EofDroppingSame ==
    ASSUME mutex' = mutex, epc' = epc,
           \A c \in Conns : conn'[c].index = conn[c].index
    PROVE  EofDropping' = EofDropping
  BY DEF EofDropping

\* The mutex is taken and released where the places of the threads say so.
LEMMA MutexInvStep == IInv /\ TypeOK' /\ [Next]_vars => MutexInv'
  <1> SUFFICES ASSUME IInv, TypeOK', [Next]_vars PROVE MutexInv'
    OBVIOUS
  <1> USE Names DEF IInv, TypeOK, table, args, history, MutexInv
  <1>1. ASSUME NEW t \in Threads, ConnectStart(t) PROVE MutexInv'
    BY <1>1 DEF ConnectStart, MayConnect, Allocate, Unused
  <1>2. ASSUME NEW t \in Threads, ConnectSetupFails(t) PROVE MutexInv'
    BY <1>2 DEF ConnectSetupFails, MayConnect, Allocate, Unused
  <1>3. ASSUME NEW t \in Threads, ConnectThreadFails(t) PROVE MutexInv'
    BY <1>3 DEF ConnectThreadFails, MayConnect, Allocate, Unused
  <1>3a. ASSUME NEW t \in Threads, ConnectNameFails(t) PROVE MutexInv'
    BY <1>3a DEF ConnectNameFails, MayConnect, Allocate, Unused
  <1>4. ASSUME NEW t \in Threads, ConnectNoEntry(t) PROVE MutexInv'
    BY <1>4 DEF ConnectNoEntry, MayConnect
  <1>5. ASSUME NEW t \in Threads, ConnectDone(t) PROVE MutexInv'
    BY <1>5 DEF ConnectDone, Register, Return
  <1>6. ASSUME NEW t \in Threads, NEW i \in Indexes, AppDisconnect(t, i) PROVE MutexInv'
    BY <1>6 DEF AppDisconnect, DisconnectBegin
  <1>7. ASSUME NEW t \in Threads, AppDisconnected(t) PROVE MutexInv'
    <2>1. mutex = t /\ mutex' = NoOne /\ epc' = epc /\ apc' = [apc EXCEPT ![t] = "idle"]
      BY <1>7 DEF AppDisconnected, DisconnectEnd, Return
    <2> QED
      BY <2>1
  <1>8. ASSUME NEW t \in Threads, NEW i \in Indexes, SendCheck(t, i) PROVE MutexInv'
    BY <1>8 DEF SendCheck
  <1>9. ASSUME NEW t \in Threads, SendReread(t) PROVE MutexInv'
    BY <1>9 DEF SendReread
  <1>10. ASSUME NEW t \in Threads, SendEnqueue(t) PROVE MutexInv'
    BY <1>10 DEF SendEnqueue, Return
  <1>11. ASSUME NEW c \in Conns, Connected(c) PROVE MutexInv'
    BY <1>11 DEF Connected
  <1>11a. ASSUME NEW c \in Conns, OnError(c) PROVE MutexInv'
    BY <1>11a DEF OnError
  <1>12. ASSUME NEW c \in Conns, TimerFires(c) PROVE MutexInv'
    BY <1>12 DEF TimerFires
  <1>13. ASSUME NEW c \in Conns, SendProgress(c) PROVE MutexInv'
    BY <1>13 DEF SendProgress
  <1>14. ASSUME NEW c \in Conns, ServerCloses(c) PROVE MutexInv'
    BY <1>14 DEF ServerCloses
  <1>15. ASSUME NEW c \in Conns, EofDisconnect(c) PROVE MutexInv'
    BY <1>15 DEF EofDisconnect, DisconnectBegin
  <1>16. ASSUME NEW c \in Conns, EofDisconnected(c) PROVE MutexInv'
    <2>1. mutex = c /\ mutex' = NoOne /\ apc' = apc /\ epc' = [epc EXCEPT ![c] = "loop"]
      BY <1>16 DEF EofDisconnected, DisconnectEnd
    <2> QED
      BY <2>1
  <1>17. ASSUME NEW c \in Conns, LoopExits(c) PROVE MutexInv'
    BY <1>17 DEF LoopExits, Unused
  <1>18. CASE UNCHANGED vars
    BY <1>18 DEF vars
  <1> QED
    BY <1>1, <1>2, <1>3, <1>3a, <1>4, <1>5, <1>6, <1>7, <1>8, <1>9, <1>10, <1>11, <1>11a, <1>12,
       <1>13, <1>14, <1>15, <1>16, <1>17, <1>18 DEF Next, App, Event

\* A connection lives as long as its event thread, which frees it at the end.
LEMMA ThreadInvStep == IInv /\ TypeOK' /\ [Next]_vars => ThreadInv'
  <1> SUFFICES ASSUME IInv, TypeOK', [Next]_vars PROVE ThreadInv'
    OBVIOUS
  <1> USE Names DEF IInv, TypeOK, table, args, history, ThreadInv, Running, Structures
  <1>1. ASSUME NEW t \in Threads, ConnectStart(t) PROVE ThreadInv'
    BY <1>1 DEF ConnectStart, MayConnect, Allocate, Unused
  <1>2. ASSUME NEW t \in Threads, ConnectSetupFails(t) PROVE ThreadInv'
    BY <1>2 DEF ConnectSetupFails, MayConnect, Allocate, Unused
  <1>3. ASSUME NEW t \in Threads, ConnectThreadFails(t) PROVE ThreadInv'
    BY <1>3 DEF ConnectThreadFails, MayConnect, Allocate, Unused
  <1>3a. ASSUME NEW t \in Threads, ConnectNameFails(t) PROVE ThreadInv'
    BY <1>3a DEF ConnectNameFails, MayConnect, Allocate, Unused
  <1>4. ASSUME NEW t \in Threads, ConnectNoEntry(t) PROVE ThreadInv'
    BY <1>4 DEF ConnectNoEntry, MayConnect
  <1>5. ASSUME NEW t \in Threads, ConnectDone(t) PROVE ThreadInv'
    BY <1>5 DEF ConnectDone, Register, Return
  <1>6. ASSUME NEW t \in Threads, NEW i \in Indexes, AppDisconnect(t, i) PROVE ThreadInv'
    BY <1>6 DEF AppDisconnect, DisconnectBegin
  <1>7. ASSUME NEW t \in Threads, AppDisconnected(t) PROVE ThreadInv'
    BY <1>7 DEF AppDisconnected, DisconnectEnd, Return
  <1>8. ASSUME NEW t \in Threads, NEW i \in Indexes, SendCheck(t, i) PROVE ThreadInv'
    BY <1>8 DEF SendCheck
  <1>9. ASSUME NEW t \in Threads, SendReread(t) PROVE ThreadInv'
    BY <1>9 DEF SendReread
  <1>10. ASSUME NEW t \in Threads, SendEnqueue(t) PROVE ThreadInv'
    BY <1>10 DEF SendEnqueue, Return
  <1>11. ASSUME NEW c \in Conns, Connected(c) PROVE ThreadInv'
    BY <1>11 DEF Connected
  <1>11a. ASSUME NEW c \in Conns, OnError(c) PROVE ThreadInv'
    BY <1>11a DEF OnError
  <1>12. ASSUME NEW c \in Conns, TimerFires(c) PROVE ThreadInv'
    BY <1>12 DEF TimerFires
  <1>13. ASSUME NEW c \in Conns, SendProgress(c) PROVE ThreadInv'
    BY <1>13 DEF SendProgress
  <1>14. ASSUME NEW c \in Conns, ServerCloses(c) PROVE ThreadInv'
    BY <1>14 DEF ServerCloses
  <1>15. ASSUME NEW c \in Conns, EofDisconnect(c) PROVE ThreadInv'
    BY <1>15 DEF EofDisconnect, DisconnectBegin
  <1>16. ASSUME NEW c \in Conns, EofDisconnected(c) PROVE ThreadInv'
    BY <1>16 DEF EofDisconnected, DisconnectEnd
  <1>17. ASSUME NEW c \in Conns, LoopExits(c) PROVE ThreadInv'
    BY <1>17 DEF LoopExits, Unused
  <1>18. CASE UNCHANGED vars
    BY <1>18 DEF vars
  <1> QED
    BY <1>1, <1>2, <1>3, <1>3a, <1>4, <1>5, <1>6, <1>7, <1>8, <1>9, <1>10, <1>11, <1>11a, <1>12,
       <1>13, <1>14, <1>15, <1>16, <1>17, <1>18 DEF Next, App, Event

\* An entry is cleared only after its connection was told to exit.
LEMMA NoOrphanStep == IInv /\ TypeOK' /\ [Next]_vars => NoOrphan'
  <1> SUFFICES ASSUME IInv, TypeOK', [Next]_vars PROVE NoOrphan'
    OBVIOUS
  <1> USE Names DEF IInv, TypeOK, table, args, history, NoOrphan, ThreadInv, Running, Structures, MutexInv, TableInv, EntryInv, Dropping, AppDropping, EofDropping, FreeIndexes, FirstFree
  <1>1. ASSUME NEW t \in Threads, ConnectStart(t) PROVE NoOrphan'
    BY <1>1 DEF ConnectStart, MayConnect, Allocate, Unused
  <1>2. ASSUME NEW t \in Threads, ConnectSetupFails(t) PROVE NoOrphan'
    BY <1>2 DEF ConnectSetupFails, MayConnect, Allocate, Unused
  <1>3. ASSUME NEW t \in Threads, ConnectThreadFails(t) PROVE NoOrphan'
    BY <1>3 DEF ConnectThreadFails, MayConnect, Allocate, Unused
  <1>3a. ASSUME NEW t \in Threads, ConnectNameFails(t) PROVE NoOrphan'
    BY <1>3a DEF ConnectNameFails, MayConnect, Allocate, Unused
  <1>4. ASSUME NEW t \in Threads, ConnectNoEntry(t) PROVE NoOrphan'
    BY <1>4 DEF ConnectNoEntry, MayConnect
  <1>5. ASSUME NEW t \in Threads, ConnectDone(t) PROVE NoOrphan'
    BY <1>5 DEF ConnectDone, Register, Return
  <1>6. ASSUME NEW t \in Threads, NEW i \in Indexes, AppDisconnect(t, i) PROVE NoOrphan'
    BY <1>6 DEF AppDisconnect, DisconnectBegin
  <1>7. ASSUME NEW t \in Threads, AppDisconnected(t) PROVE NoOrphan'
    BY <1>7 DEF AppDisconnected, DisconnectEnd, Return
  <1>8. ASSUME NEW t \in Threads, NEW i \in Indexes, SendCheck(t, i) PROVE NoOrphan'
    BY <1>8 DEF SendCheck
  <1>9. ASSUME NEW t \in Threads, SendReread(t) PROVE NoOrphan'
    BY <1>9 DEF SendReread
  <1>10. ASSUME NEW t \in Threads, SendEnqueue(t) PROVE NoOrphan'
    <2>1. epc' = epc /\ server_connections' = server_connections
      BY <1>10 DEF SendEnqueue
    <2>2. \A c \in Conns : conn'[c].index = conn[c].index /\ conn'[c].loopexit = conn[c].loopexit
      BY <1>10 DEF SendEnqueue
    <2> QED
      BY <2>1, <2>2
  <1>11. ASSUME NEW c \in Conns, Connected(c) PROVE NoOrphan'
    BY <1>11 DEF Connected
  <1>11a. ASSUME NEW c \in Conns, OnError(c) PROVE NoOrphan'
    BY <1>11a DEF OnError
  <1>12. ASSUME NEW c \in Conns, TimerFires(c) PROVE NoOrphan'
    BY <1>12 DEF TimerFires
  <1>13. ASSUME NEW c \in Conns, SendProgress(c) PROVE NoOrphan'
    BY <1>13 DEF SendProgress
  <1>14. ASSUME NEW c \in Conns, ServerCloses(c) PROVE NoOrphan'
    BY <1>14 DEF ServerCloses
  <1>15. ASSUME NEW c \in Conns, EofDisconnect(c) PROVE NoOrphan'
    BY <1>15 DEF EofDisconnect, DisconnectBegin
  <1>16. ASSUME NEW c \in Conns, EofDisconnected(c) PROVE NoOrphan'
    BY <1>16 DEF EofDisconnected, DisconnectEnd
  <1>17. ASSUME NEW c \in Conns, LoopExits(c) PROVE NoOrphan'
    BY <1>17 DEF LoopExits, Unused
  <1>18. CASE UNCHANGED vars
    BY <1>18 DEF vars
  <1> QED
    BY <1>1, <1>2, <1>3, <1>3a, <1>4, <1>5, <1>6, <1>7, <1>8, <1>9, <1>10, <1>11, <1>11a, <1>12,
       <1>13, <1>14, <1>15, <1>16, <1>17, <1>18 DEF Next, App, Event

\* The entries: a connection is put into a NULL entry by a connect that holds
\* the mutex, told to exit by the first half of a disconnect, and taken out by
\* the second, whoever runs it.
LEMMA TableInvStep == IInv /\ TypeOK' /\ [Next]_vars => TableInv'
  <1> SUFFICES ASSUME IInv, TypeOK', [Next]_vars PROVE TableInv'
    OBVIOUS
  <1> USE Names DEF IInv, TypeOK, table, args, history, TableInv, EntryInv, Dropping, AppDropping, EofDropping, MutexInv, ThreadInv, Running, FirstFree, FreeIndexes, Structures
  <1>1. ASSUME NEW t \in Threads, ConnectStart(t) PROVE TableInv'
    BY <1>1 DEF ConnectStart, MayConnect, Allocate, Unused
  <1>2. ASSUME NEW t \in Threads, ConnectSetupFails(t) PROVE TableInv'
    BY <1>2 DEF ConnectSetupFails, MayConnect, Allocate, Unused
  <1>3. ASSUME NEW t \in Threads, ConnectThreadFails(t) PROVE TableInv'
    BY <1>3 DEF ConnectThreadFails, MayConnect, Allocate, Unused
  <1>3a. ASSUME NEW t \in Threads, ConnectNameFails(t) PROVE TableInv'
    BY <1>3a DEF ConnectNameFails, MayConnect, Allocate, Unused
  <1>4. ASSUME NEW t \in Threads, ConnectNoEntry(t) PROVE TableInv'
    BY <1>4 DEF ConnectNoEntry, MayConnect
  <1>5. ASSUME NEW t \in Threads, ConnectDone(t) PROVE TableInv'
    <2>1. /\ server_connections' = server_connections
          /\ mutex = t /\ mutex' = NoOne /\ epc' = epc
      BY <1>5 DEF ConnectDone
    <2>2. \A c \in Conns :
            /\ conn'[c].index = conn[c].index
            /\ conn'[c].state = conn[c].state
            /\ conn'[c].loopexit = conn[c].loopexit
            /\ conn'[c].failed = conn[c].failed
            /\ conn[c].first # "none" \/ c = aconn[t] => conn'[c].first # "none"
      BY <1>5 DEF ConnectDone, Register
    <2>3. apc[t] = "connect"
      BY <1>5 DEF ConnectDone
    <2>4. Dropping = {} /\ Dropping' = {}
      BY <2>1, <2>3
    <2> QED
      BY <2>1, <2>2, <2>3, <2>4
  <1>6. ASSUME NEW t \in Threads, NEW i \in Indexes, AppDisconnect(t, i) PROVE TableInv'
    BY <1>6 DEF AppDisconnect, DisconnectBegin
  <1>7. ASSUME NEW t \in Threads, AppDisconnected(t) PROVE TableInv'
    <2>1. /\ server_connections' = [server_connections EXCEPT ![aidx[t]] = NULL]
          /\ mutex = t /\ mutex' = NoOne /\ epc' = epc /\ conn' = conn
      BY <1>7 DEF AppDisconnected, DisconnectEnd
    <2>2. apc[t] = "drop"
      BY <1>7 DEF AppDisconnected
    <2>3. Dropping \subseteq {aidx[t]}
      BY <2>1, <2>2
    <2>4. Dropping' = {}
      BY <2>1
    <2> QED
      BY <2>1, <2>2, <2>3, <2>4
  <1>8. ASSUME NEW t \in Threads, NEW i \in Indexes, SendCheck(t, i) PROVE TableInv'
    BY <1>8 DEF SendCheck
  <1>9. ASSUME NEW t \in Threads, SendReread(t) PROVE TableInv'
    BY <1>9 DEF SendReread
  <1>10. ASSUME NEW t \in Threads, SendEnqueue(t) PROVE TableInv'
    <2>1. /\ server_connections' = server_connections
          /\ mutex' = mutex /\ epc' = epc
          /\ apc[t] = "enqueue" /\ apc' = [apc EXCEPT ![t] = "idle"]
          /\ aidx' = [aidx EXCEPT ![t] = 0]
          /\ aconn' = [aconn EXCEPT ![t] = NULL]
      BY <1>10 DEF SendEnqueue, Return
    <2>2. \A c \in Conns :
            /\ conn'[c].index = conn[c].index
            /\ conn'[c].state = conn[c].state
            /\ conn'[c].loopexit = conn[c].loopexit
            /\ conn'[c].failed = conn[c].failed
            /\ conn[c].first # "none" => conn'[c].first # "none"
      BY <1>10 DEF SendEnqueue
    <2>3. Dropping' = Dropping
      <3>1. \A u \in Threads :
            /\ (apc'[u] = "drop" <=> apc[u] = "drop")
            /\ (apc[u] = "drop" => aidx'[u] = aidx[u])
        BY <2>1
      <3>2. AppDropping' = AppDropping
        BY <2>1, <3>1
      <3>3. EofDropping' = EofDropping
        BY <2>1, <2>2, EofDroppingSame
      <3> QED
        BY <3>2, <3>3
    <2> QED
      BY <2>1, <2>2, <2>3
  <1>11. ASSUME NEW c \in Conns, Connected(c) PROVE TableInv'
    BY <1>11 DEF Connected
  <1>11a. ASSUME NEW c \in Conns, OnError(c) PROVE TableInv'
    BY <1>11a DEF OnError
  <1>12. ASSUME NEW c \in Conns, TimerFires(c) PROVE TableInv'
    BY <1>12 DEF TimerFires
  <1>13. ASSUME NEW c \in Conns, SendProgress(c) PROVE TableInv'
    BY <1>13 DEF SendProgress
  <1>14. ASSUME NEW c \in Conns, ServerCloses(c) PROVE TableInv'
    BY <1>14 DEF ServerCloses
  <1>15. ASSUME NEW c \in Conns, EofDisconnect(c) PROVE TableInv'
    BY <1>15 DEF EofDisconnect, DisconnectBegin
  <1>16. ASSUME NEW c \in Conns, EofDisconnected(c) PROVE TableInv'
    <2>1. /\ server_connections' = [server_connections EXCEPT ![conn[c].index] = NULL]
          /\ mutex = c /\ mutex' = NoOne /\ conn' = conn /\ apc' = apc /\ aconn' = aconn
          /\ epc' = [epc EXCEPT ![c] = "loop"] /\ epc[c] = "drop"
      BY <1>16 DEF EofDisconnected, DisconnectEnd
    <2>2. conn[c].index \in Indexes
      OBVIOUS
    <2>3. Dropping \subseteq {conn[c].index}
      BY <2>1
    <2>4. Dropping' = {}
      BY <2>1
    <2> QED
      BY <2>1, <2>2, <2>3, <2>4
  <1>17. ASSUME NEW c \in Conns, LoopExits(c) PROVE TableInv'
    BY <1>17 DEF LoopExits, Unused
  <1>18. CASE UNCHANGED vars
    BY <1>18 DEF vars
  <1> QED
    BY <1>1, <1>2, <1>3, <1>3a, <1>4, <1>5, <1>6, <1>7, <1>8, <1>9, <1>10, <1>11, <1>11a, <1>12,
       <1>13, <1>14, <1>15, <1>16, <1>17, <1>18 DEF Next, App, Event

\* Nobody can disconnect what a connect is waiting for: it holds the mutex.
LEMMA ConnectInvStep == IInv /\ TypeOK' /\ [Next]_vars => ConnectInv'
  <1> SUFFICES ASSUME IInv, TypeOK', [Next]_vars PROVE ConnectInv'
    OBVIOUS
  <1> USE Names DEF IInv, TypeOK, table, args, history, ConnectInv, MutexInv, TableInv, EntryInv, Dropping, AppDropping, EofDropping, FirstFree, FreeIndexes, Structures
  <1>1. ASSUME NEW t \in Threads, ConnectStart(t) PROVE ConnectInv'
    <2> PICK c \in Conns, i \in Indexes :
          /\ Allocate(c, i, FALSE)
          /\ epc' = [epc EXCEPT ![c] = "loop"]
          /\ apc' = [apc EXCEPT ![t] = "connect"]
          /\ aidx' = [aidx EXCEPT ![t] = i]
          /\ aconn' = [aconn EXCEPT ![t] = c]
      BY <1>1 DEF ConnectStart
    <2>1. \A u \in Threads : apc[u] # "connect"
      BY <1>1 DEF ConnectStart, MayConnect
    <2> QED
      BY <2>1 DEF Allocate
  <1>2. ASSUME NEW t \in Threads, ConnectSetupFails(t) PROVE ConnectInv'
    BY <1>2 DEF ConnectSetupFails, MayConnect, Allocate, Unused
  <1>3. ASSUME NEW t \in Threads, ConnectThreadFails(t) PROVE ConnectInv'
    BY <1>3 DEF ConnectThreadFails, MayConnect, Allocate, Unused
  <1>3a. ASSUME NEW t \in Threads, ConnectNameFails(t) PROVE ConnectInv'
    BY <1>3a DEF ConnectNameFails, MayConnect, Allocate, Unused
  <1>4. ASSUME NEW t \in Threads, ConnectNoEntry(t) PROVE ConnectInv'
    BY <1>4 DEF ConnectNoEntry, MayConnect
  <1>5. ASSUME NEW t \in Threads, ConnectDone(t) PROVE ConnectInv'
    BY <1>5 DEF ConnectDone, Register, Return
  <1>6. ASSUME NEW t \in Threads, NEW i \in Indexes, AppDisconnect(t, i) PROVE ConnectInv'
    BY <1>6 DEF AppDisconnect, DisconnectBegin
  <1>7. ASSUME NEW t \in Threads, AppDisconnected(t) PROVE ConnectInv'
    BY <1>7 DEF AppDisconnected, DisconnectEnd, Return
  <1>8. ASSUME NEW t \in Threads, NEW i \in Indexes, SendCheck(t, i) PROVE ConnectInv'
    BY <1>8 DEF SendCheck
  <1>9. ASSUME NEW t \in Threads, SendReread(t) PROVE ConnectInv'
    BY <1>9 DEF SendReread
  <1>10. ASSUME NEW t \in Threads, SendEnqueue(t) PROVE ConnectInv'
    BY <1>10 DEF SendEnqueue, Return
  <1>11. ASSUME NEW c \in Conns, Connected(c) PROVE ConnectInv'
    BY <1>11 DEF Connected
  <1>11a. ASSUME NEW c \in Conns, OnError(c) PROVE ConnectInv'
    BY <1>11a DEF OnError
  <1>12. ASSUME NEW c \in Conns, TimerFires(c) PROVE ConnectInv'
    BY <1>12 DEF TimerFires
  <1>13. ASSUME NEW c \in Conns, SendProgress(c) PROVE ConnectInv'
    BY <1>13 DEF SendProgress
  <1>14. ASSUME NEW c \in Conns, ServerCloses(c) PROVE ConnectInv'
    BY <1>14 DEF ServerCloses
  <1>15. ASSUME NEW c \in Conns, EofDisconnect(c) PROVE ConnectInv'
    BY <1>15 DEF EofDisconnect, DisconnectBegin
  <1>16. ASSUME NEW c \in Conns, EofDisconnected(c) PROVE ConnectInv'
    <2>1. /\ mutex = c
          /\ apc' = apc /\ aconn' = aconn /\ aidx' = aidx
      BY <1>16 DEF EofDisconnected, DisconnectEnd
    <2>2. \A t \in Threads : apc[t] # "connect"
      BY <2>1
    <2> QED
      BY <2>1, <2>2
  <1>17. ASSUME NEW c \in Conns, LoopExits(c) PROVE ConnectInv'
    <2>1. /\ server_connections' = server_connections /\ apc' = apc
          /\ aconn' = aconn /\ aidx' = aidx /\ mutex' = mutex
          /\ conn[c].loopexit /\ epc' = [epc EXCEPT ![c] = "ended"]
      BY <1>17 DEF LoopExits
    <2>2. ASSUME NEW t \in Threads, apc[t] = "connect" PROVE aconn[t] # c
      BY <2>1, <2>2
    <2> QED
      BY <2>1, <2>2
  <1>18. CASE UNCHANGED vars
    BY <1>18 DEF vars
  <1> QED
    BY <1>1, <1>2, <1>3, <1>3a, <1>4, <1>5, <1>6, <1>7, <1>8, <1>9, <1>10, <1>11, <1>11a, <1>12,
       <1>13, <1>14, <1>15, <1>16, <1>17, <1>18 DEF Next, App, Event

\* The entry of a failed setup keeps its place as long as the mutex is held.
LEMMA HolderInvStep == IInv /\ TypeOK' /\ [Next]_vars => HolderInv'
  <1> SUFFICES ASSUME IInv, TypeOK', [Next]_vars PROVE HolderInv'
    OBVIOUS
  <1> USE Names DEF IInv, TypeOK, table, args, history, HolderInv, MutexInv, Occupied, FreeIndexes, FirstFree, Structures
  <1>1. ASSUME NEW t \in Threads, ConnectStart(t) PROVE HolderInv'
    BY <1>1 DEF ConnectStart, MayConnect, Allocate, Unused
  <1>2. ASSUME NEW t \in Threads, ConnectSetupFails(t) PROVE HolderInv'
    BY <1>2 DEF ConnectSetupFails, MayConnect, Allocate, Unused
  <1>3. ASSUME NEW t \in Threads, ConnectThreadFails(t) PROVE HolderInv'
    BY <1>3 DEF ConnectThreadFails, MayConnect, Allocate, Unused
  <1>3a. ASSUME NEW t \in Threads, ConnectNameFails(t) PROVE HolderInv'
    BY <1>3a DEF ConnectNameFails, MayConnect, Allocate, Unused
  <1>4. ASSUME NEW t \in Threads, ConnectNoEntry(t) PROVE HolderInv'
    BY <1>4 DEF ConnectNoEntry, MayConnect
  <1>5. ASSUME NEW t \in Threads, ConnectDone(t) PROVE HolderInv'
    BY <1>5 DEF ConnectDone, Register, Return
  <1>6. ASSUME NEW t \in Threads, NEW i \in Indexes, AppDisconnect(t, i) PROVE HolderInv'
    BY <1>6 DEF AppDisconnect, DisconnectBegin
  <1>7. ASSUME NEW t \in Threads, AppDisconnected(t) PROVE HolderInv'
    BY <1>7 DEF AppDisconnected, DisconnectEnd, Return
  <1>8. ASSUME NEW t \in Threads, NEW i \in Indexes, SendCheck(t, i) PROVE HolderInv'
    BY <1>8 DEF SendCheck
  <1>9. ASSUME NEW t \in Threads, SendReread(t) PROVE HolderInv'
    BY <1>9 DEF SendReread
  <1>10. ASSUME NEW t \in Threads, SendEnqueue(t) PROVE HolderInv'
    BY <1>10 DEF SendEnqueue, Return
  <1>11. ASSUME NEW c \in Conns, Connected(c) PROVE HolderInv'
    BY <1>11 DEF Connected
  <1>11a. ASSUME NEW c \in Conns, OnError(c) PROVE HolderInv'
    BY <1>11a DEF OnError
  <1>12. ASSUME NEW c \in Conns, TimerFires(c) PROVE HolderInv'
    BY <1>12 DEF TimerFires
  <1>13. ASSUME NEW c \in Conns, SendProgress(c) PROVE HolderInv'
    BY <1>13 DEF SendProgress
  <1>14. ASSUME NEW c \in Conns, ServerCloses(c) PROVE HolderInv'
    BY <1>14 DEF ServerCloses
  <1>15. ASSUME NEW c \in Conns, EofDisconnect(c) PROVE HolderInv'
    BY <1>15 DEF EofDisconnect, DisconnectBegin
  <1>16. ASSUME NEW c \in Conns, EofDisconnected(c) PROVE HolderInv'
    BY <1>16 DEF EofDisconnected, DisconnectEnd
  <1>17. ASSUME NEW c \in Conns, LoopExits(c) PROVE HolderInv'
    BY <1>17 DEF LoopExits, Unused
  <1>18. CASE UNCHANGED vars
    BY <1>18 DEF vars
  <1> QED
    BY <1>1, <1>2, <1>3, <1>3a, <1>4, <1>5, <1>6, <1>7, <1>8, <1>9, <1>10, <1>11, <1>11a, <1>12,
       <1>13, <1>14, <1>15, <1>16, <1>17, <1>18 DEF Next, App, Event

\* Only a disconnect of the index takes away what a send has found, and it is
\* recorded in raced.
LEMMA SendInvStep == IInv /\ TypeOK' /\ [Next]_vars => SendInv'
  <1> SUFFICES ASSUME IInv, TypeOK', [Next]_vars PROVE SendInv'
    OBVIOUS
  <1> USE Names DEF IInv, TypeOK, table, args, history, SendInv, MutexInv, TableInv, EntryInv, Dropping, AppDropping, EofDropping, FirstFree, FreeIndexes, Structures
  <1>1. ASSUME NEW t \in Threads, ConnectStart(t) PROVE SendInv'
    BY <1>1 DEF ConnectStart, MayConnect, Allocate, Unused
  <1>2. ASSUME NEW t \in Threads, ConnectSetupFails(t) PROVE SendInv'
    BY <1>2 DEF ConnectSetupFails, MayConnect, Allocate, Unused
  <1>3. ASSUME NEW t \in Threads, ConnectThreadFails(t) PROVE SendInv'
    BY <1>3 DEF ConnectThreadFails, MayConnect, Allocate, Unused
  <1>3a. ASSUME NEW t \in Threads, ConnectNameFails(t) PROVE SendInv'
    BY <1>3a DEF ConnectNameFails, MayConnect, Allocate, Unused
  <1>4. ASSUME NEW t \in Threads, ConnectNoEntry(t) PROVE SendInv'
    BY <1>4 DEF ConnectNoEntry, MayConnect
  <1>5. ASSUME NEW t \in Threads, ConnectDone(t) PROVE SendInv'
    BY <1>5 DEF ConnectDone, Register, Return
  <1>6. ASSUME NEW t \in Threads, NEW i \in Indexes, AppDisconnect(t, i) PROVE SendInv'
    BY <1>6 DEF AppDisconnect, DisconnectBegin
  <1>7. ASSUME NEW t \in Threads, AppDisconnected(t) PROVE SendInv'
    BY <1>7 DEF AppDisconnected, DisconnectEnd, Return
  <1>8. ASSUME NEW t \in Threads, NEW i \in Indexes, SendCheck(t, i) PROVE SendInv'
    <2>1. /\ mutex = NoOne /\ server_connections[i] # NULL
          /\ UNCHANGED <<server_connections, mutex, conn, epc, aconn>>
          /\ apc' = [apc EXCEPT ![t] = "send"] /\ aidx' = [aidx EXCEPT ![t] = i]
          /\ raced' = [raced EXCEPT ![t] = FALSE]
      BY <1>8 DEF SendCheck
    <2>2. Dropping = {} /\ Dropping' = {}
      BY <2>1
    <2>3. conn[server_connections[i]].first # "none" \/ conn[server_connections[i]].failed
      BY <2>1, <2>2 DEF ThreadInv
    <2> QED
      BY <2>1, <2>2, <2>3
  <1>9. ASSUME NEW t \in Threads, SendReread(t) PROVE SendInv'
    BY <1>9 DEF SendReread
  <1>10. ASSUME NEW t \in Threads, SendEnqueue(t) PROVE SendInv'
    <2>1. /\ server_connections' = server_connections
          /\ mutex' = mutex /\ epc' = epc
          /\ apc[t] = "enqueue" /\ apc' = [apc EXCEPT ![t] = "idle"]
          /\ aidx' = [aidx EXCEPT ![t] = 0]
          /\ aconn' = [aconn EXCEPT ![t] = NULL]
          /\ raced' = [raced EXCEPT ![t] = FALSE]
      BY <1>10 DEF SendEnqueue, Return
    <2>2. \A c \in Conns :
            /\ conn'[c].index = conn[c].index
            /\ conn'[c].failed = conn[c].failed
            /\ conn[c].first # "none" => conn'[c].first # "none"
      BY <1>10 DEF SendEnqueue
    <2>3. Dropping' = Dropping
      <3>1. \A u \in Threads :
            /\ (apc'[u] = "drop" <=> apc[u] = "drop")
            /\ (apc[u] = "drop" => aidx'[u] = aidx[u])
        BY <2>1
      <3>2. AppDropping' = AppDropping
        BY <2>1, <3>1
      <3>3. EofDropping' = EofDropping
        BY <2>1, <2>2, EofDroppingSame
      <3> QED
        BY <3>2, <3>3
    <2> QED
      BY <2>1, <2>2, <2>3
  <1>11. ASSUME NEW c \in Conns, Connected(c) PROVE SendInv'
    BY <1>11 DEF Connected
  <1>11a. ASSUME NEW c \in Conns, OnError(c) PROVE SendInv'
    BY <1>11a DEF OnError
  <1>12. ASSUME NEW c \in Conns, TimerFires(c) PROVE SendInv'
    BY <1>12 DEF TimerFires
  <1>13. ASSUME NEW c \in Conns, SendProgress(c) PROVE SendInv'
    BY <1>13 DEF SendProgress
  <1>14. ASSUME NEW c \in Conns, ServerCloses(c) PROVE SendInv'
    BY <1>14 DEF ServerCloses
  <1>15. ASSUME NEW c \in Conns, EofDisconnect(c) PROVE SendInv'
    BY <1>15 DEF EofDisconnect, DisconnectBegin
  <1>16. ASSUME NEW c \in Conns, EofDisconnected(c) PROVE SendInv'
    BY <1>16 DEF EofDisconnected, DisconnectEnd
  <1>17. ASSUME NEW c \in Conns, LoopExits(c) PROVE SendInv'
    BY <1>17 DEF LoopExits, Unused
  <1>18. CASE UNCHANGED vars
    BY <1>18 DEF vars
  <1> QED
    BY <1>1, <1>2, <1>3, <1>3a, <1>4, <1>5, <1>6, <1>7, <1>8, <1>9, <1>10, <1>11, <1>11a, <1>12,
       <1>13, <1>14, <1>15, <1>16, <1>17, <1>18 DEF Next, App, Event

-----------------------------------------------------------------------------
\* The count is incremented with each entry that is filled, and once more when
\* the table turns out to be full, which it is only if an earlier disconnect
\* found a NULL entry and decremented it for nothing.
LEMMA CountStep == IInv /\ TypeOK' /\ fault = "none" /\ Next => CountInv'
  <1> SUFFICES ASSUME IInv, TypeOK', fault = "none", Next PROVE CountInv'
    OBVIOUS
  <1> USE ConnAssumption DEF IInv, TypeOK, table, args, history
  <1>0. IsFiniteSet(Indexes) /\ Cardinality(Indexes) = MAX_SERVER_CONNECTIONS
    BY FS_Interval DEF Indexes
  <1>1. IsFiniteSet(Occupied) /\ Cardinality(Occupied) \in Nat
    BY <1>0, FS_Subset, FS_CardinalityType DEF Occupied
  <1>2. ASSUME NEW c \in Conns, NEW i \in Indexes, NEW f \in BOOLEAN, Allocate(c, i, f),
               UNCHANGED <<fault, emptied>>
        PROVE  CountInv'
    <2>1. i \notin Occupied /\ Occupied' = Occupied \cup {i}
      BY <1>2, Names DEF Occupied, FreeIndexes, Allocate, FirstFree
    <2>2. Cardinality(Occupied') = Cardinality(Occupied) + 1
      BY <1>1, <2>1, FS_AddElement
    <2> QED
      BY <1>1, <1>2, <2>2 DEF CountInv, Allocate
  <1>3. ASSUME NEW i \in Indexes, DisconnectEnd(i) PROVE CountInv'
    <2>1. Occupied' = Occupied \ {i} /\ (i \in Occupied <=> server_connections[i] # NULL)
      BY <1>3 DEF Occupied, FreeIndexes, DisconnectEnd
    <2>2. Cardinality(Occupied') = IF i \in Occupied THEN Cardinality(Occupied) - 1
                                                    ELSE Cardinality(Occupied)
      BY <1>1, <2>1, FS_RemoveElement
    <2>3. /\ server_connection_count' = server_connection_count - 1
          /\ emptied' = (emptied \/ server_connections[i] = NULL)
          /\ fault' = "none" => server_connection_count' >= 0
      BY <1>3 DEF DisconnectEnd
    <2>4. server_connection_count' <= Cardinality(Occupied')
      BY <1>1, <2>2, <2>3 DEF CountInv
    <2>5. ~emptied' => server_connection_count' = Cardinality(Occupied')
      <3>1. ASSUME ~emptied' PROVE ~emptied /\ i \in Occupied
        BY <2>1, <2>3, <3>1
      <3> QED
        BY <1>1, <2>2, <2>3, <3>1 DEF CountInv
    <2> QED
      BY <2>3, <2>4, <2>5 DEF CountInv
  <1>4. ASSUME NEW t \in Threads, ConnectNoEntry(t) PROVE CountInv'
    <2>1. Occupied = Indexes /\ Occupied' = Occupied
      BY <1>4 DEF ConnectNoEntry, Occupied, FreeIndexes
    <2> QED
      BY <1>0, <1>4, <2>1 DEF CountInv, ConnectNoEntry, MayConnect
  <1>5. ASSUME UNCHANGED <<table, emptied>> PROVE CountInv'
    BY <1>5 DEF CountInv, Occupied, FreeIndexes
  <1>6. ASSUME NEW t \in Threads, App(t) PROVE CountInv'
    <2>1. CASE \/ ConnectStart(t) \/ ConnectSetupFails(t) \/ ConnectThreadFails(t)
               \/ ConnectNameFails(t)
      BY <1>2, <2>1 DEF ConnectStart, ConnectSetupFails, ConnectThreadFails, ConnectNameFails
    <2>2. CASE ConnectNoEntry(t)
      BY <1>4, <2>2
    <2>3. CASE AppDisconnected(t)
      BY <1>3, <2>3 DEF AppDisconnected
    <2>4. CASE ConnectDone(t) \/ SendReread(t) \/ SendEnqueue(t)
      BY <1>5, <2>4 DEF ConnectDone, SendReread, SendEnqueue
    <2>5. CASE \E i \in Indexes : AppDisconnect(t, i) \/ SendCheck(t, i)
      BY <1>5, <2>5 DEF AppDisconnect, SendCheck
    <2> QED
      BY <1>6, <2>1, <2>2, <2>3, <2>4, <2>5 DEF App
  <1>7. ASSUME NEW c \in Conns, Event(c) PROVE CountInv'
    <2>1. CASE EofDisconnected(c)
      <3>1. conn[c].index \in Indexes
        BY DEF Structures
      <3> QED
        BY <1>3, <2>1, <3>1 DEF EofDisconnected
    <2>2. CASE Connected(c) \/ TimerFires(c) \/ SendProgress(c) \/ LoopExits(c)
      BY <1>5, <2>2 DEF Connected, TimerFires, SendProgress, LoopExits
    <2>3. CASE ServerCloses(c) \/ OnError(c) \/ EofDisconnect(c)
      BY <1>5, <2>3 DEF ServerCloses, OnError, EofDisconnect
    <2> QED
      BY <1>7, <2>1, <2>2, <2>3 DEF Event
  <1> QED
    BY <1>6, <1>7 DEF Next

\* The initial state: an empty table, nobody in a call.
LEMMA InitInv == Init => IInv
  <1> SUFFICES ASSUME Init PROVE IInv
    OBVIOUS
  <1>1. TypeOK
    BY TypeInit
  <1>2. MutexInv /\ HolderInv /\ ConnectInv /\ SendInv
    BY Names DEF Init, MutexInv, HolderInv, ConnectInv, SendInv
  <1>3. ThreadInv /\ NoOrphan /\ TableInv
    BY DEF Init, ThreadInv, NoOrphan, TableInv, EntryInv, Running, Unused
  <1>4. CountInv
    <2>1. Occupied = {}
      BY DEF Init, Occupied, FreeIndexes
    <2> QED
      BY <2>1, FS_EmptySet DEF Init, CountInv
  <1> QED
    BY <1>1, <1>2, <1>3, <1>4 DEF IInv

\* All parts together are inductive.
LEMMA Invariance == Spec => []IInv
  <1>1. IInv /\ [Next]_vars => IInv'
    <2> SUFFICES ASSUME IInv, [Next]_vars PROVE IInv'
      OBVIOUS
    <2>1. TypeOK'
      BY TypeStep DEF IInv, CountInv
    <2>2. CountInv'
      <3>1. CASE Next
        BY <2>1, <3>1, CountStep DEF Next
      <3>2. CASE UNCHANGED vars
        BY <3>2 DEF IInv, CountInv, vars, table, history, Occupied, FreeIndexes
      <3> QED
        BY <3>1, <3>2
    <2> QED
      BY <2>1, <2>2, MutexInvStep, ThreadInvStep, NoOrphanStep, TableInvStep,
         ConnectInvStep, HolderInvStep, SendInvStep DEF IInv
  <1> QED
    BY <1>1, InitInv, PTL DEF Spec

-----------------------------------------------------------------------------
\* The variables of the client keep their types; server_connection_count stays
\* between the value its assertion rejects and the size of the table.
THEOREM TypeCorrect == Spec => []TypeOK
  <1>1. IInv => TypeOK
    BY DEF IInv
  <1> QED
    BY <1>1, Invariance, PTL

\* Whoever looks at the table under the mutex finds live connections only.
THEOREM TableIsSound == Spec => []TableSound
  <1>1. IInv => TableSound
    <2> SUFFICES ASSUME IInv, NEW i \in Occupied PROVE
          LET c == server_connections[i] IN
            /\ conn[c].index = i
            /\ \/ conn[c].state = "live"
               \/ \E t \in Threads : mutex = t /\ apc[t] = "drop" /\ aidx[t] = i
               \/ \E d \in Conns : mutex = d /\ epc[d] = "drop" /\ conn[d].index = i
      BY DEF TableSound
    <2>1. i \in Indexes /\ server_connections[i] # NULL /\ server_connections[i] \in Conns
      BY DEF IInv, TypeOK, Occupied, FreeIndexes
    <2>2. conn[server_connections[i]].state \in {"none", "live", "freed"}
      BY <2>1 DEF IInv, TypeOK, Structures
    <2>3. EntryInv(i)
      BY <2>1 DEF IInv, TableInv
    <2> QED
      BY <2>1, <2>2, <2>3 DEF EntryInv, Dropping, AppDropping, EofDropping
  <1> QED
    BY <1>1, Invariance, PTL

\* A connection whose event thread runs is in the table or was told to exit.
THEOREM NoneForgotten == Spec => []NoOrphan
  <1>1. IInv => NoOrphan
    BY DEF IInv
  <1> QED
    BY <1>1, Invariance, PTL

\* server_connection_count is the number of entries in use until a disconnect
\* finds its entry NULL, and never more.
THEOREM CountIsExplained == Spec => []CountTracksTable
  <1>1. IInv => CountTracksTable
    BY DEF IInv, CountInv, CountTracksTable
  <1> QED
    BY <1>1, Invariance, PTL

\* A send uses a live connection, behind its registration if the connect that
\* made it succeeded, unless a disconnect of its index begins between its check
\* and its use.
THEOREM SendsAreSafe == Spec => []SendSafeUnlessRaced
  <1>1. IInv => SendSafeUnlessRaced
    <2> SUFFICES ASSUME IInv, NEW t \in Threads,
                        apc[t] \in {"send", "enqueue"}, ~raced[t]
                 PROVE  LET c == IF apc[t] = "send" THEN server_connections[aidx[t]] ELSE aconn[t] IN
                          /\ c # NULL
                          /\ conn[c].state = "live"
                          /\ conn[c].first # "none" \/ conn[c].failed
      BY DEF SendSafeUnlessRaced
    <2> DEFINE c == server_connections[aidx[t]]
    <2>1. /\ c # NULL /\ aidx[t] \notin Dropping
          /\ apc[t] = "enqueue" => aconn[t] = c
          /\ conn[c].first # "none" \/ conn[c].failed
      BY DEF IInv, SendInv
    <2>2. c \in Conns /\ aidx[t] \in Indexes
      BY <2>1 DEF IInv, TypeOK
    <2>3. conn[c].state \in {"none", "live", "freed"}
      BY <2>2 DEF IInv, TypeOK, Structures
    <2>4. EntryInv(aidx[t])
      BY <2>2 DEF IInv, TableInv
    <2>5. conn[c].state = "live"
      BY <2>1, <2>3, <2>4 DEF EntryInv
    <2> QED
      BY <2>1, <2>5
  <1> QED
    BY <1>1, Invariance, PTL

\* server_connections_mutex is stuck only after a failed setup, while a connect
\* waits for a refused connection, or while a connect and the timer of its
\* connection wait for each other.
THEOREM MutexGoesOn == Spec => []HolderGoesOn
  <1>1. IInv => HolderGoesOn
    <2> SUFFICES ASSUME IInv PROVE HolderGoesOn
      OBVIOUS
    <2>1. \A c \in Conns : mutex = c => epc[c] = "drop"
      BY DEF IInv, MutexInv
    <2>2. ASSUME NEW t \in Threads, mutex = t, apc[t] = "connect"
          PROVE  \/ conn[aconn[t]].connected
                 \/ epc[aconn[t]] = "loop" /\ conn[aconn[t]].link = "new"
                 \/ conn[aconn[t]].link = "shut" /\ "error" \in Faults
                 \/ epc[aconn[t]] = "timer" /\ "slow" \in Faults
      <3>1. aconn[t] \in Conns /\ epc[aconn[t]] \in {"loop", "timer", "eof"}
        BY <2>2 DEF IInv, TypeOK, ConnectInv
      <3>2. conn[aconn[t]].link \in {"new", "open", "shut"}
        BY <3>1 DEF IInv, TypeOK, Structures
      <3> QED
        BY <3>1, <3>2 DEF IInv, ThreadInv
    <2> QED
      BY <2>1, <2>2 DEF IInv, HolderInv, HolderGoesOn
  <1> QED
    BY <1>1, Invariance, PTL
=============================================================================
