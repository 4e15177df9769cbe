---------------------- MODULE ServerConnectionsProofs ----------------------
(* Proofs about the server's connections for every number of workers,       *)
(* connections, children and table entries.                                 *)
EXTENDS ServerConnections, FiniteSetTheorems, TLAPS

\* What is queued comes from accepted connections; only a worker that has
\* inserted its connection is at "thread", only one in a handler at "connect".
PoolInv ==
    /\ \A n \in DOMAIN work_units :
         /\ work_units[n].f \in {"setup", "register", "deregister", "app"}
         /\ work_units[n].c <= accepted
    /\ \A w \in Workers : running[w].c <= accepted

\* Connections are used in order; nothing is known of those to come.
FreshInv ==
    /\ acc <= accepted
    /\ \A c \in live \cup head \cup dangling \cup quiet \cup settled : c <= accepted
    /\ \A c \in Conns : /\ c > accepted => at[c] = NULL /\ epc[c] = "none"
                        /\ remover[c] <= accepted

\* A connection is set up once, by one unit, before its event thread runs.
SetupInv ==
    /\ \A n \in DOMAIN work_units : work_units[n].f = "setup" =>
         /\ work_units[n].c \in live \ head /\ epc[work_units[n].c] = "none"
         /\ \A o \in DOMAIN work_units :
              work_units[o] = work_units[n] => o = n
         /\ \A w \in Workers : running[w].f \in {"setup", "thread"}
                                 => running[w].c # work_units[n].c
    /\ \A w \in Workers :
         /\ running[w].f = "setup" => running[w].c \in live \ head
         /\ running[w].f \in {"setup", "thread"} =>
              /\ epc[running[w].c] = "none"
              /\ \A v \in Workers : running[v].f \in {"setup", "thread"}
                                      /\ running[v].c = running[w].c
                                      => v = w

\* The addresses in use are numbered without gaps, and no two allocated
\* connections share one.
AddrInv ==
    /\ \E n \in Nat : Range(at) \cup {NULL} = 0..n
    /\ \A c, d \in live : at[c] = at[d] => c = d

\* The list holds allocated connections.
ListInv == head \subseteq live

\* One EOF callback at a time is past registration_mutex, on a connection that
\* is allocated; its loop starts at 0.
EofInv ==
    /\ \A c \in Conns : epc[c] \in {"test", "deref", "drop", "free"} =>
         registration_mutex = c /\ (fault = "none" => c \in live)
    /\ registration_mutex = 0 => index = 0
    /\ \A c \in Conns : epc[c] \in {"deref", "drop"} => index < MAX_SERVER_CONNECTIONS

\* Who took c off the list
Removed(c) == remover[c] = c \/ (remover[c] \in dangling /\ at[remover[c]] = at[c])

\* An allocated connection outside the list was taken off it, or its setup has
\* not come to it.
FindInv ==
    \A c \in live \ head :
        \/ Removed(c)
        \/ epc[c] = "none" /\ \A w \in Workers : running[w].f = "thread" => running[w].c # c

\* An address is dangling after its connection was freed, and a connection that
\* was freed quietly is in nobody's hands.
QuietInv ==
    /\ dangling \cap live = {}
    /\ \A c \in quiet :
         /\ c \notin live /\ c \notin dangling /\ acc # c /\ epc[c] = "ended"
         /\ \A n \in DOMAIN work_units : work_units[n].c # c
         /\ \A w \in Workers : running[w].c # c

\* No handler of a settled connection runs or will run.
SettledInv ==
    \A c \in settled :
        /\ epc[c] \notin {"none", "loop", "eof"}
        /\ \A n \in DOMAIN work_units : work_units[n].c = c => work_units[n].f # "app"
        /\ \A w \in Workers : running[w].c = c => running[w].f \notin {"app", "connect"}

\* The entries of the table and their parents are known.
ChildInv ==
    /\ \A n \in Indexes : server_connections[n] <= children
    /\ look <= children
    /\ \A k \in Children : k <= children => parent[k] \in Conns /\ parent[k] <= accepted

\* Entry n holds no child of c.
NoChild(c, n) == server_connections[n] # NULL => parent[server_connections[n]] # c

\* The cascade of a settled connection leaves no child behind it.
CascadeInv ==
    \A c \in settled :
        /\ epc[c] \in {"test", "deref", "drop"} => \A n \in Indexes : n < index => NoChild(c, n)
        /\ epc[c] = "deref" => server_connections[index] = look \/ NoChild(c, index)
        /\ epc[c] \in {"free", "stale", "ended"} => \A n \in Indexes : NoChild(c, n)

\* The entry that is about to be disconnected had the closing connection's
\* address for its parent when it was looked at.
DropInv ==
    \A c \in Conns :
        /\ epc[c] \in {"deref", "drop"} => look # NULL
        /\ epc[c] = "drop" => at[parent[look]] = at[c]

\* The count follows the table's operations, and the program ends below 0.
CountInv ==
    /\ server_connection_count <= children
    /\ fault = "none" => server_connection_count >= 0

IInv ==
    /\ TypeOK /\ PoolInv /\ FreshInv /\ SetupInv /\ AddrInv /\ ListInv /\ EofInv
    /\ FindInv /\ QuietInv /\ SettledInv /\ ChildInv /\ CascadeInv /\ DropInv /\ CountInv

-----------------------------------------------------------------------------
(* The pool *)

\* Every history and every set the code keeps is one of connections.
LEMMA ConnSets ==
    ASSUME TypeOK
    PROVE  /\ live \subseteq Conns /\ head \subseteq Conns /\ dangling \subseteq Conns
           /\ quiet \subseteq Conns /\ settled \subseteq Conns
           /\ \A n \in DOMAIN work_units : work_units[n].c \in Conns
           /\ \A w \in Workers : running[w].c \in Conns \cup {0}
  <1>1. /\ live \subseteq Conns /\ head \subseteq Conns /\ dangling \subseteq Conns
        /\ quiet \subseteq Conns /\ settled \subseteq Conns
    BY DEF TypeOK
  <1>2. ASSUME NEW n \in DOMAIN work_units PROVE work_units[n].c \in Conns
    <2>1. work_units[n] \in Units
      BY DEF TypeOK
    <2> QED
      BY <2>1 DEF Units
  <1>3. ASSUME NEW w \in Workers PROVE running[w].c \in Conns \cup {0}
    <2>1. running[w] \in Units \/ running[w] = Idle
      BY DEF TypeOK
    <2> QED
      BY <2>1 DEF Units, Idle
  <1> QED
    BY <1>1, <1>2, <1>3

\* Connections, children and entries are numbers; 0 is none of the first two.
LEMMA Numbers ==
    ASSUME TypeOK
    PROVE  /\ accepted \in Nat /\ children \in Nat /\ index \in Nat /\ look \in Nat
                /\ acc \in Nat
           /\ NULL = 0 /\ server_connection_count \in Int
           /\ MAX_SERVER_CONNECTIONS \in Nat /\ NConns \in Nat /\ NChildren \in Nat
           /\ \A c \in Conns : c \in Nat /\ c # 0
           /\ \A k \in Children : k \in Nat /\ k # 0
           /\ \A n \in Indexes : n \in Nat /\ n < MAX_SERVER_CONNECTIONS
                                   /\ server_connections[n] \in Nat
           /\ \A n \in Nat : n < MAX_SERVER_CONNECTIONS => n \in Indexes
  <1>1. NConns \in Nat /\ NChildren \in Nat /\ MAX_SERVER_CONNECTIONS \in Nat \ {0}
    BY ServerAssumption
  <1>2. \A c \in Conns : c \in Nat /\ c # 0
    BY <1>1 DEF Conns
  <1>3. \A k \in Children : k \in Nat /\ k # 0
    BY <1>1 DEF Children
  <1>4. \A n \in Indexes : n \in Nat /\ n < MAX_SERVER_CONNECTIONS
                             /\ server_connections[n] \in Nat
    BY <1>1, <1>3 DEF TypeOK, Indexes, NULL
  <1>7. \A n \in Nat : n < MAX_SERVER_CONNECTIONS => n \in Indexes
    BY <1>1 DEF Indexes
  <1>8. accepted \in Nat /\ children \in Nat /\ index \in Nat /\ server_connection_count \in Int
    BY <1>1 DEF TypeOK
  <1>9. look \in Nat /\ acc \in Nat /\ NULL = 0
    BY <1>2, <1>3 DEF TypeOK, NULL
  <1> QED
    BY <1>1, <1>2, <1>3, <1>4, <1>7, <1>8, <1>9

\* A new unit is queued behind the others.
LEMMA SubmitFacts ==
    ASSUME TypeOK, NEW u \in Units, Pool!Submit(u)
    PROVE  /\ work_units' \in Seq(Units) /\ UNCHANGED <<running, stopped>>
           /\ \A n \in DOMAIN work_units : n \in DOMAIN work_units'
                                             /\ work_units'[n] = work_units[n]
           /\ Len(work_units) + 1 \notin DOMAIN work_units
           /\ \A n \in DOMAIN work_units' :
                n \in DOMAIN work_units \/ (n = Len(work_units) + 1 /\ work_units'[n] = u)
  <1>1. work_units \in Seq(Units) /\ work_units' = Append(work_units, u) /\ UNCHANGED <<running,
                                                                                        stopped>>
    BY DEF TypeOK, Pool!Submit
  <1> QED
    BY <1>1

\* An idle worker takes the oldest unit.
LEMMA StartFacts ==
    ASSUME TypeOK, NEW w \in Workers, Pool!Start(w)
    PROVE  /\ work_units' \in Seq(Units) /\ running[w] = Idle /\ stopped' = stopped
           /\ 1 \in DOMAIN work_units /\ work_units[1] \in Units
           /\ running' = [running EXCEPT ![w] = work_units[1]]
           /\ \A n \in DOMAIN work_units' :
                /\ n + 1 \in DOMAIN work_units /\ n + 1 # 1 /\ n \in Nat
                /\ work_units'[n] = work_units[n + 1]
  <1>1. /\ work_units \in Seq(Units) /\ work_units # << >>
        /\ running' = [running EXCEPT ![w] = Head(work_units)]
        /\ work_units' = Tail(work_units) /\ running[w] = Idle /\ stopped' = stopped
    BY DEF TypeOK, Pool!Start
  <1>2. 1 \in DOMAIN work_units /\ Head(work_units) = work_units[1] /\ work_units[1] \in Units
    BY <1>1
  <1> QED
    BY <1>1, <1>2

\* What a worker runs after a step inside its unit.
LEMMA BecomesFacts ==
    ASSUME TypeOK, NEW w \in Workers, NEW f, Becomes(w, f), running[w] \in Units
    PROVE  /\ \A v \in Workers : v # w => running'[v] = running[v]
           /\ running'[w].f = f /\ running'[w].c = running[w].c
           /\ f \in {"setup", "thread", "register", "deregister", "app", "connect"} =>
                running' \in [Workers -> Units \cup {Idle}]
  BY DEF Becomes, TypeOK, Units

\* A worker with a unit runs it for a connection.
LEMMA UnitFacts ==
    ASSUME TypeOK, NEW w \in Workers
    PROVE  /\ running[w] \in Units \cup {Idle}
           /\ running[w].f # "idle" => running[w] \in Units /\ running[w].c \in Conns
           /\ running[w] # Idle => running[w] \in Units /\ running[w].c \in Conns
           /\ Idle.f = "idle" /\ Idle.c = 0
  BY DEF TypeOK, Units, Idle

-----------------------------------------------------------------------------
(* One lemma per action: what it changes, then each part it can disturb *)

\* Starting the server touches no connection.
LEMMA ServerInitKeeps ==
    ASSUME IInv, fault = "none", ServerInit
    PROVE  IInv'
  <1>1. /\ server' = "up"
        /\ UNCHANGED <<work_units, running, stopped, accepted, acc, at, live, hosted, head,
                       registration_mutex, epc, stage, index, look, server_connections,
                       server_connection_count, table_mutex, children, parent, fault, dangling,
                       quiet, settled, remover>>
    BY DEF ServerInit, pool, conns, loop, table, ghosts, IInv
  <1>2. TypeOK'
    BY <1>1 DEF IInv, TypeOK
  <1>3. PoolInv' /\ FreshInv' /\ SetupInv' /\ AddrInv' /\ ListInv' /\ EofInv' /\ FindInv'
        /\ QuietInv' /\ SettledInv' /\ ChildInv' /\ CascadeInv' /\ DropInv' /\ CountInv'
    BY <1>1 DEF IInv, PoolInv, FreshInv, SetupInv, AddrInv, ListInv, EofInv, FindInv, QuietInv,
       SettledInv, ChildInv, CascadeInv, DropInv, CountInv, Removed, NoChild
  <1> QED
    BY <1>2, <1>3 DEF IInv

\* A failed start leaves the queue as it was or empty.
LEMMA ServerInitFailsKeeps ==
    ASSUME IInv, fault = "none", ServerInitFails
    PROVE  IInv'
  <1>1. /\ server' = "failed"
        /\ work_units' = work_units \/ work_units' = << >>
        /\ work_units' \in Seq(Units)
        /\ UNCHANGED <<running, accepted, acc, at, live, hosted, head, registration_mutex, epc,
                       stage, index, look, server_connections, server_connection_count,
                       table_mutex, children, parent, fault, dangling, quiet, settled, remover>>
    <2>1. Pool!Stop \/ UNCHANGED pool
      BY DEF ServerInitFails
    <2>2. work_units' = work_units \/ work_units' = << >>
      BY <2>1 DEF Pool!Stop, pool
    <2>3. work_units' \in Seq(Units)
      <3>1. work_units \in Seq(Units)
        BY DEF IInv, TypeOK
      <3>2. << >> \in Seq(Units)
        OBVIOUS
      <3> QED
        BY <2>2, <3>1, <3>2
    <2>4. UNCHANGED running
      BY <2>1 DEF Pool!Stop, pool
    <2> QED
      BY <2>2, <2>3, <2>4 DEF ServerInitFails, conns, loop, table, ghosts
  <1>2. TypeOK'
    BY <1>1 DEF IInv, TypeOK
  <1>3. PoolInv'
    BY <1>1 DEF IInv, PoolInv
  <1>4. SetupInv'
    BY <1>1 DEF IInv, SetupInv
  <1>5. QuietInv'
    BY <1>1 DEF IInv, QuietInv
  <1>6. SettledInv'
    BY <1>1 DEF IInv, SettledInv
  <1>7. FreshInv' /\ AddrInv' /\ ListInv' /\ EofInv' /\ FindInv' /\ ChildInv' /\ CascadeInv'
        /\ DropInv' /\ CountInv'
    BY <1>1 DEF IInv, FreshInv, AddrInv, ListInv, EofInv, FindInv, ChildInv, CascadeInv,
       DropInv, CountInv, Removed, NoChild
  <1> QED
    BY <1>2, <1>3, <1>4, <1>5, <1>6, <1>7 DEF IInv

\* Closing the listening socket touches no connection.
LEMMA ServerFinalizeKeeps ==
    ASSUME IInv, fault = "none", ServerFinalize
    PROVE  IInv'
  <1>1. /\ server' = "closed"
        /\ UNCHANGED <<work_units, running, stopped, accepted, acc, at, live, hosted, head,
                       registration_mutex, epc, stage, index, look, server_connections,
                       server_connection_count, table_mutex, children, parent, fault, dangling,
                       quiet, settled, remover>>
    BY DEF ServerFinalize, pool, conns, loop, table, ghosts, IInv
  <1>2. TypeOK'
    BY <1>1 DEF IInv, TypeOK
  <1>3. PoolInv' /\ FreshInv' /\ SetupInv' /\ AddrInv' /\ ListInv' /\ EofInv' /\ FindInv'
        /\ QuietInv' /\ SettledInv' /\ ChildInv' /\ CascadeInv' /\ DropInv' /\ CountInv'
    BY <1>1 DEF IInv, PoolInv, FreshInv, SetupInv, AddrInv, ListInv, EofInv, FindInv, QuietInv,
       SettledInv, ChildInv, CascadeInv, DropInv, CountInv, Removed, NoChild
  <1> QED
    BY <1>2, <1>3 DEF IInv

\* malloc returns an address no allocated connection has, so a new connection
\* shares one with freed connections at most, and is set up by the one unit queued.
LEMMA AcceptKeeps ==
    ASSUME IInv, fault = "none", NEW a \in Addrs, Accept(a)
    PROVE  IInv'
  <1>1. /\ accepted < NConns /\ accepted' = accepted + 1 /\ acc' = accepted + 1
        /\ at' = [at EXCEPT ![accepted + 1] = a]
        /\ live' = live \cup {accepted + 1}
        /\ Pool!Submit([f |-> "setup", c |-> accepted + 1])
        /\ UNCHANGED <<server, running, stopped, hosted, head, registration_mutex, epc, stage,
                       index, look, server_connections, server_connection_count, table_mutex,
                       children, parent, fault, dangling, quiet, settled, remover>>
    BY DEF Accept, pool, conns, loop, table, ghosts, IInv, Pool!Submit
  <1> DEFINE u == [f |-> "setup", c |-> accepted + 1]
  <1>2. u \in Units /\ u.f = "setup" /\ u.c = accepted + 1
    BY <1>1, ServerAssumption DEF Units, Conns, IInv, TypeOK
  <1>3. /\ work_units' \in Seq(Units)
        /\ \A n \in DOMAIN work_units : n \in DOMAIN work_units'
                                          /\ work_units'[n] = work_units[n]
        /\ \A n \in DOMAIN work_units' :
             n \in DOMAIN work_units \/ (n = Len(work_units) + 1 /\ work_units'[n] = u)
        /\ Len(work_units) + 1 \notin DOMAIN work_units
        /\ UNCHANGED <<running, stopped>>
    BY <1>1, <1>2, SubmitFacts DEF IInv
  <1> HIDE DEF u
  <1>4. /\ at'[accepted + 1] = a /\ \A d \in Conns : d # accepted + 1 => at'[d] = at[d]
        /\ accepted + 1 \in Conns
    <2>1. accepted + 1 \in Conns
      BY <1>1, ServerAssumption DEF IInv, TypeOK, Conns
    <2> QED
      BY <1>1, <2>1 DEF IInv, TypeOK
  <1>5. /\ at[accepted + 1] = NULL /\ a # NULL /\ accepted \in Nat
        /\ \A d \in Conns : d <= accepted => d # accepted + 1 /\ at'[d] = at[d]
    <2>1. accepted \in Nat /\ \A d \in Conns : d \in Nat /\ (d <= accepted => d # accepted + 1)
      BY Numbers DEF IInv
    <2>2. accepted + 1 > accepted
      BY <2>1
    <2>3. at[accepted + 1] = NULL
      BY <1>4, <2>2 DEF IInv, FreshInv
    <2>4. a # NULL
      BY ServerAssumption DEF Addrs, NULL
    <2> QED
      BY <1>4, <2>1, <2>3, <2>4
  <1>6. TypeOK'
    <2>1. accepted' \in 0..NConns
      BY <1>1, <1>5, ServerAssumption
    <2>2. acc' \in Conns \cup {0} /\ live' \subseteq Conns
      BY <1>1, <1>4 DEF IInv, TypeOK
    <2>3. at' \in [Conns -> Addrs \cup {NULL}]
      BY <1>1, <1>4 DEF IInv, TypeOK
    <2> QED
      BY <1>1, <1>3, <2>1, <2>2, <2>3 DEF IInv, TypeOK
  <1>7. PoolInv'
    <2>1. ASSUME NEW n \in DOMAIN work_units'
          PROVE  /\ work_units'[n].f \in {"setup", "register", "deregister", "app"}
                 /\ work_units'[n].c <= accepted + 1
      <3>1. CASE n \in DOMAIN work_units
        <4>1. work_units[n].c \in Nat
          BY <3>1, ConnSets, Numbers DEF IInv
        <4> QED
          BY <1>3, <1>5, <3>1, <4>1 DEF IInv, PoolInv
      <3>2. CASE work_units'[n] = u
        BY <1>2, <1>5, <3>2
      <3> QED
        BY <1>3, <3>1, <3>2
    <2>2. ASSUME NEW w \in Workers PROVE running[w].c <= accepted + 1
      <3>1. running[w].c \in Nat
        BY ConnSets, Numbers DEF IInv
      <3> QED
        BY <1>5, <3>1 DEF IInv, PoolInv
    <2> QED
      BY <1>1, <2>1, <2>2 DEF PoolInv
  <1>8. FreshInv'
    <2>1. \A c \in Conns : c \in Nat
      BY Numbers DEF IInv
    <2>2. ASSUME NEW c \in live' \cup head \cup dangling \cup quiet \cup settled
          PROVE  c <= accepted + 1
      <3>1. c = accepted + 1 \/ c \in live \cup head \cup dangling \cup quiet \cup settled
        BY <1>1
      <3>2. CASE c \in live \cup head \cup dangling \cup quiet \cup settled
        <4>1. c \in Nat /\ c <= accepted
          BY <2>1, <3>2, ConnSets DEF IInv, FreshInv
        <4> QED
          BY <1>5, <4>1
      <3> QED
        BY <1>5, <3>1, <3>2
    <2>3. ASSUME NEW c \in Conns, c > accepted + 1 PROVE at'[c] = NULL /\ epc[c] = "none"
      <3>1. c > accepted /\ c # accepted + 1
        BY <1>5, <2>1, <2>3
      <3> QED
        BY <1>4, <3>1 DEF IInv, FreshInv
    <2>4. ASSUME NEW c \in Conns PROVE remover[c] <= accepted + 1
      <3>1. remover[c] \in Conns \cup {0} /\ remover[c] <= accepted
        BY DEF IInv, TypeOK, FreshInv
      <3> QED
        BY <1>5, <2>1, <3>1
    <2>5. acc' <= accepted'
      BY <1>1, <1>5
    <2> QED
      BY <1>1, <2>2, <2>3, <2>4, <2>5 DEF FreshInv
  <1>9. SetupInv'
    BY <1>1, <1>2, <1>3, <1>4, <1>5 DEF IInv, TypeOK, SetupInv, PoolInv, EofInv, FreshInv,
       ListInv
  <1>10. AddrInv'
    <2>1. PICK n \in Nat : Range(at) \cup {NULL} = 0..n
      BY DEF IInv, AddrInv
    <2>2. Cardinality(Range(at) \cup {NULL}) = n + 1
      <3>1. Cardinality(0..n) = n + 1
        BY FS_Interval
      <3> QED
        BY <2>1, <3>1
    <2>3. a = n + 1 \/ a \in FreedAddrs
      BY <2>2 DEF Accept, FreshAddr
    <2>4. \A d \in Conns : at[d] \in Range(at)
      BY DEF Range, IInv, TypeOK
    <2>5. \A d \in live : at[d] # a
      <3>1. CASE a = n + 1
        BY <2>1, <2>4, <3>1, ConnSets DEF IInv
      <3>2. CASE a \in FreedAddrs
        BY <3>2 DEF FreedAddrs
      <3> QED
        BY <2>3, <3>1, <3>2
    <2>6. Range(at') \cup {NULL} = (Range(at) \cup {NULL}) \cup {a}
      <3>1. DOMAIN at = Conns /\ DOMAIN at' = Conns
        BY <1>1 DEF IInv, TypeOK
      <3>2. ASSUME NEW d \in Conns PROVE at'[d] \in Range(at) \cup {a}
        BY <1>4, <2>4, <3>2
      <3>3. ASSUME NEW d \in Conns PROVE at[d] \in Range(at') \cup {NULL}
        <4>1. CASE d = accepted + 1
          BY <1>5, <4>1
        <4>2. CASE d # accepted + 1
          BY <1>4, <3>1, <4>2 DEF Range
        <4> QED
          BY <4>1, <4>2
      <3>4. a \in Range(at')
        BY <1>4, <3>1 DEF Range
      <3> QED
        BY <3>1, <3>2, <3>3, <3>4 DEF Range
    <2>7. \E m \in Nat : Range(at') \cup {NULL} = 0..m
      <3>1. CASE a = n + 1
        <4>1. Range(at') \cup {NULL} = 0..(n + 1)
          BY <2>1, <2>6, <3>1
        <4> QED
          BY <4>1
      <3>2. CASE a \in FreedAddrs
        <4>1. Range(at') \cup {NULL} = 0..n
          BY <2>1, <2>6, <3>2 DEF FreedAddrs
        <4> QED
          BY <4>1
      <3> QED
        BY <2>3, <3>1, <3>2
    <2>8. \A c, d \in live' : at'[c] = at'[d] => c = d
      <3>1. \A d \in live : d \in Conns /\ d <= accepted
        BY ConnSets DEF IInv, FreshInv
      <3>2. \A d \in live : d # accepted + 1 /\ at'[d] = at[d]
        BY <1>5, <3>1
      <3> QED
        BY <1>1, <1>4, <2>5, <3>2 DEF IInv, AddrInv
    <2> QED
      BY <2>7, <2>8 DEF AddrInv
  <1>11. ListInv'
    BY <1>1, <1>2, <1>3, <1>4, <1>5 DEF IInv, ListInv
  <1>12. EofInv'
    BY <1>1, <1>2, <1>3, <1>4, <1>5 DEF IInv, EofInv
  <1>13. FindInv'
    BY <1>1, <1>2, <1>3, <1>4, <1>5, Numbers DEF IInv, FindInv, PoolInv, Removed, AddrInv,
       FreshInv, ListInv, SetupInv, EofInv, QuietInv
  <1>14. QuietInv'
    BY <1>1, <1>2, <1>3, <1>4, <1>5, Numbers DEF IInv, QuietInv, PoolInv, FreshInv, EofInv,
       SetupInv
  <1>15. SettledInv'
    BY <1>1, <1>2, <1>3, <1>4, <1>5 DEF IInv, SettledInv
  <1>16. ChildInv'
    BY <1>1, <1>2, <1>3, <1>4, <1>5, Numbers DEF IInv, ChildInv
  <1>17. DropInv'
    <2>1. ASSUME NEW c \in Conns, epc[c] = "drop" PROVE at'[parent[look]] = at'[c]
      <3>1. c <= accepted
        BY <2>1 DEF IInv, EofInv, FreshInv
      <3>2. look \in Children /\ look <= children
        BY <2>1 DEF IInv, TypeOK, DropInv, ChildInv
      <3>3. parent[look] \in Conns /\ parent[look] <= accepted
        BY <3>2 DEF IInv, ChildInv
      <3> QED
        BY <1>5, <2>1, <3>1, <3>3 DEF IInv, DropInv
    <2> QED
      BY <1>1, <2>1 DEF IInv, DropInv
  <1>18. CascadeInv' /\ CountInv'
    BY <1>1 DEF IInv, CascadeInv, CountInv, NoChild
  <1> QED
    BY <1>6, <1>7, <1>8, <1>9, <1>10, <1>11, <1>12, <1>13, <1>14, <1>15, <1>16, <1>17, <1>18 DEF
       IInv

\* The accept thread lets go of a connection that may be gone already.
LEMMA AcceptUnlockKeeps ==
    ASSUME IInv, fault = "none", AcceptUnlock
    PROVE  IInv'
  <1>1. /\ acc # 0 /\ acc' = 0
        /\ dangling' = IF acc \in live THEN dangling ELSE dangling \cup {acc}
        /\ fault' \in {"none", "use_after_free"}
        /\ UNCHANGED <<server, work_units, running, stopped, accepted, at, live, hosted, head,
                       registration_mutex, epc, stage, index, look, server_connections,
                       server_connection_count, table_mutex, children, parent, quiet, settled,
                       remover>>
    BY DEF AcceptUnlock, pool, conns, loop, table, ghosts, IInv, Follow
  <1>2. TypeOK'
    BY <1>1 DEF IInv, TypeOK
  <1>3. FreshInv'
    BY <1>1, Numbers DEF IInv, FreshInv
  <1>4. EofInv'
    BY <1>1 DEF IInv, EofInv
  <1>5. FindInv'
    BY <1>1 DEF IInv, FindInv, Removed
  <1>6. QuietInv'
    BY <1>1, ConnSets, Numbers DEF IInv, QuietInv, PoolInv, FreshInv, EofInv, SetupInv
  <1>7. CountInv'
    BY <1>1 DEF IInv, CountInv
  <1>8. PoolInv' /\ SetupInv' /\ AddrInv' /\ ListInv' /\ SettledInv' /\ ChildInv' /\ CascadeInv'
        /\ DropInv'
    BY <1>1 DEF IInv, PoolInv, SetupInv, AddrInv, ListInv, SettledInv, ChildInv, CascadeInv,
       DropInv, NoChild
  <1> QED
    BY <1>2, <1>3, <1>4, <1>5, <1>6, <1>7, <1>8 DEF IInv

\* The oldest unit moves to an idle worker: its connection is still set up once.
LEMMA TakeKeeps ==
    ASSUME IInv, fault = "none", NEW w \in Workers, Take(w)
    PROVE  IInv'
  <1>1. /\ Pool!Start(w)
        /\ UNCHANGED <<server, stopped, accepted, acc, at, live, hosted, head,
                       registration_mutex, epc, stage, index, look, server_connections,
                       server_connection_count, table_mutex, children, parent, fault, dangling,
                       quiet, settled, remover>>
    BY DEF Take, pool, conns, loop, table, ghosts, IInv, Pool!Start
  <1>2. /\ work_units' \in Seq(Units) /\ running[w] = Idle
        /\ 1 \in DOMAIN work_units /\ work_units[1] \in Units
        /\ running'[w] = work_units[1] /\ running' = [running EXCEPT ![w] = work_units[1]]
        /\ \A v \in Workers : v # w => running'[v] = running[v]
        /\ \A n \in DOMAIN work_units' :
             /\ n + 1 \in DOMAIN work_units /\ n + 1 # 1 /\ n \in Nat
             /\ work_units'[n] = work_units[n + 1]
    BY <1>1, StartFacts DEF IInv, TypeOK
  <1>3. TypeOK'
    BY <1>1, <1>2 DEF IInv, TypeOK
  <1>4. PoolInv'
    BY <1>1, <1>2 DEF IInv, PoolInv
  <1>5. SetupInv'
    <2>1. ASSUME NEW n \in DOMAIN work_units', work_units'[n].f = "setup"
          PROVE  /\ work_units'[n].c \in live \ head /\ epc[work_units'[n].c] = "none"
                 /\ \A o \in DOMAIN work_units' : work_units'[o] = work_units'[n] => o = n
                 /\ \A v \in Workers : running'[v].f \in {"setup", "thread"}
                                         => running'[v].c # work_units'[n].c
      <3>1. /\ n + 1 \in DOMAIN work_units /\ n + 1 # 1 /\ work_units'[n] = work_units[n + 1]
            /\ n \in Nat
        BY <1>2
      <3>2. \A o \in DOMAIN work_units : work_units[o] = work_units[n + 1] => o = n + 1
        BY <2>1, <3>1 DEF IInv, SetupInv
      <3>3. \A o \in DOMAIN work_units' : work_units'[o] = work_units'[n] => o = n
        BY <1>2, <3>1, <3>2
      <3>4. \A v \in Workers : running[v].f \in {"setup", "thread"}
                                 => running[v].c # work_units[n + 1].c
        BY <2>1, <3>1 DEF IInv, SetupInv
      <3>5. work_units[1].f \in {"setup", "thread"} => work_units[1].c # work_units[n + 1].c
        <4>1. work_units[1] # work_units[n + 1]
          BY <1>2, <3>1, <3>2
        <4>2. work_units[1] \in Units /\ work_units[n + 1] \in Units
                /\ work_units[1].f # "thread"
          <5>1. \A o \in DOMAIN work_units : work_units[o] \in Units
            BY DEF IInv, TypeOK
          <5> QED
            BY <1>2, <3>1, <5>1 DEF IInv, PoolInv
        <4> QED
          BY <2>1, <3>1, <4>1, <4>2 DEF Units
      <3> QED
        BY <1>2, <2>1, <3>1, <3>3, <3>4, <3>5 DEF IInv, SetupInv
    <2>2. work_units[1].f # "thread"
      BY <1>2 DEF IInv, PoolInv
    <2>3. work_units[1].f = "setup" =>
            /\ work_units[1].c \in live \ head /\ epc[work_units[1].c] = "none"
            /\ \A v \in Workers : running[v].f \in {"setup", "thread"}
                                    => running[v].c # work_units[1].c
      BY <1>2 DEF IInv, SetupInv
    <2>4. ASSUME NEW v \in Workers
          PROVE  /\ running'[v].f = "setup" => running'[v].c \in live \ head
                 /\ running'[v].f \in {"setup", "thread"} =>
                      /\ epc[running'[v].c] = "none"
                      /\ \A x \in Workers : running'[x].f \in {"setup", "thread"}
                                              /\ running'[x].c = running'[v].c => x = v
      <3>1. CASE v = w
        BY <1>2, <2>2, <2>3, <3>1
      <3>2. CASE v # w
        BY <1>2, <2>2, <2>3, <3>2 DEF IInv, SetupInv
      <3> QED
        BY <3>1, <3>2
    <2> QED
      BY <1>1, <2>1, <2>4 DEF SetupInv
  <1>6. FindInv'
    BY <1>1, <1>2 DEF IInv, FindInv, PoolInv, Removed, AddrInv, FreshInv, ListInv, SetupInv,
       EofInv, QuietInv
  <1>7. QuietInv'
    BY <1>1, <1>2 DEF IInv, QuietInv
  <1>8. SettledInv'
    BY <1>1, <1>2 DEF IInv, SettledInv, PoolInv, FreshInv, SetupInv
  <1>9. FreshInv' /\ AddrInv' /\ ListInv' /\ EofInv' /\ ChildInv' /\ CascadeInv' /\ DropInv'
        /\ CountInv'
    BY <1>1 DEF IInv, FreshInv, AddrInv, ListInv, EofInv, ChildInv, CascadeInv, DropInv,
       CountInv, NoChild
  <1> QED
    BY <1>3, <1>4, <1>5, <1>6, <1>7, <1>8, <1>9 DEF IInv

\* The connection is in the list before its event thread exists.
LEMMA SetupInsertKeeps ==
    ASSUME IInv, fault = "none", NEW w \in Workers, SetupInsert(w)
    PROVE  IInv'
  <1>1. /\ running[w].f = "setup" /\ registration_mutex = 0
        /\ head' = head \cup {running[w].c}
        /\ running[w] \in Units /\ running[w].c \in Conns
        /\ \A v \in Workers : v # w => running'[v] = running[v]
        /\ running'[w].f = "thread" /\ running'[w].c = running[w].c
        /\ running' \in [Workers -> Units \cup {Idle}]
        /\ UNCHANGED <<server, work_units, stopped, accepted, acc, at, live, hosted,
                       registration_mutex, epc, stage, index, look, server_connections,
                       server_connection_count, table_mutex, children, parent, fault, dangling,
                       quiet, settled, remover>>
    BY UnitFacts, BecomesFacts DEF SetupInsert, pool, conns, loop, table, ghosts, IInv, Runs,
       Unit
  <1>2. TypeOK'
    BY <1>1 DEF IInv, TypeOK
  <1>3. PoolInv'
    BY <1>1 DEF IInv, PoolInv
  <1>4. FreshInv'
    BY <1>1 DEF IInv, FreshInv, PoolInv
  <1>5. SetupInv'
    BY <1>1 DEF IInv, SetupInv
  <1>6. ListInv'
    BY <1>1 DEF IInv, ListInv, SetupInv, AddrInv, EofInv
  <1>7. FindInv'
    BY <1>1 DEF IInv, FindInv, Removed
  <1>8. QuietInv'
    BY <1>1 DEF IInv, QuietInv
  <1>9. SettledInv'
    BY <1>1 DEF IInv, SettledInv
  <1>10. AddrInv' /\ EofInv' /\ ChildInv' /\ CascadeInv' /\ DropInv' /\ CountInv'
    BY <1>1 DEF IInv, AddrInv, EofInv, ChildInv, CascadeInv, DropInv, CountInv, NoChild
  <1> QED
    BY <1>2, <1>3, <1>4, <1>5, <1>6, <1>7, <1>8, <1>9, <1>10 DEF IInv

\* The event thread of a connection starts where it is in the list, or where
\* somebody took it off.
LEMMA SetupThreadKeeps ==
    ASSUME IInv, fault = "none", NEW w \in Workers, SetupThread(w)
    PROVE  IInv'
  <1>1. /\ running[w].f = "thread" /\ running[w].c \in Conns
        /\ dangling' = IF running[w].c \in live THEN dangling ELSE dangling \cup {running[w].c}
        /\ fault' \in {"none", "use_after_free"}
        /\ \E p \in {"loop", "ended"} : epc' = [epc EXCEPT ![running[w].c] = p]
        /\ running' = [running EXCEPT ![w] = Idle]
        /\ UNCHANGED <<server, work_units, stopped, accepted, acc, at, live, hosted, head,
                       registration_mutex, stage, index, look, server_connections,
                       server_connection_count, table_mutex, children, parent, quiet, settled,
                       remover>>
    BY UnitFacts DEF SetupThread, pool, conns, loop, table, ghosts, IInv, Runs, Unit, Follow,
       Pool!End
  <1>2. /\ \A d \in Conns : d # running[w].c => epc'[d] = epc[d]
        /\ epc'[running[w].c] \in {"loop", "ended"}
        /\ \A v \in Workers : v # w => running'[v] = running[v]
        /\ running'[w] = Idle /\ Idle.f = "idle" /\ Idle.c = 0
    BY <1>1, UnitFacts DEF IInv, TypeOK
  <1>3. TypeOK'
    BY <1>1, <1>2 DEF IInv, TypeOK
  <1>4. PoolInv'
    BY <1>1, <1>2, Numbers DEF IInv, PoolInv
  <1>5. FreshInv'
    BY <1>1, <1>2, Numbers DEF IInv, FreshInv, PoolInv
  <1>6. SetupInv'
    BY <1>1, <1>2 DEF IInv, SetupInv
  <1>7. EofInv'
    BY <1>1, <1>2 DEF IInv, EofInv
  <1>8. FindInv'
    BY <1>1, <1>2 DEF IInv, FindInv, Removed
  <1>9. QuietInv'
    BY <1>1, <1>2, ConnSets, Numbers DEF IInv, QuietInv, PoolInv, FreshInv, EofInv, SetupInv
  <1>10. SettledInv'
    BY <1>1, <1>2 DEF IInv, SettledInv, PoolInv, FreshInv, SetupInv
  <1>11. CascadeInv'
    BY <1>1, <1>2 DEF IInv, CascadeInv, SettledInv, SetupInv, NoChild, ChildInv, EofInv,
       FreshInv
  <1>12. DropInv'
    BY <1>1, <1>2 DEF IInv, DropInv
  <1>13. CountInv'
    BY <1>1, <1>2 DEF IInv, CountInv
  <1>14. AddrInv' /\ ListInv' /\ ChildInv'
    BY <1>1 DEF IInv, AddrInv, ListInv, ChildInv
  <1> QED
    BY <1>3, <1>4, <1>5, <1>6, <1>7, <1>8, <1>9, <1>10, <1>11, <1>12, <1>13, <1>14 DEF IInv

\* A registration sets a host and dangles if its connection was freed.
LEMMA RegisterKeeps ==
    ASSUME IInv, fault = "none", NEW w \in Workers, Register(w)
    PROVE  IInv'
  <1>1. /\ running[w].f = "register" /\ running[w].c \in Conns
        /\ dangling' = IF running[w].c \in live THEN dangling ELSE dangling \cup {running[w].c}
        /\ fault' \in {"none", "use_after_free"}
        /\ hosted' = hosted \cup Target(running[w].c)
        /\ running' = [running EXCEPT ![w] = Idle]
        /\ UNCHANGED <<server, work_units, stopped, accepted, acc, at, live, head,
                       registration_mutex, epc, stage, index, look, server_connections,
                       server_connection_count, table_mutex, children, parent, quiet, settled,
                       remover>>
    BY UnitFacts DEF Register, pool, conns, loop, table, ghosts, IInv, Runs, Unit, Follow,
       Pool!End
  <1>2. /\ \A v \in Workers : v # w => running'[v] = running[v]
        /\ running'[w] = Idle /\ Idle.f = "idle" /\ Idle.c = 0
    BY <1>1, UnitFacts DEF IInv, TypeOK, Conns, Target
  <1>3. TypeOK'
    <2>1. running' \in [Workers -> Units \cup {Idle}]
      BY <1>1 DEF IInv, TypeOK
    <2>2. hosted' \subseteq Conns /\ dangling' \subseteq Conns
      BY <1>1 DEF IInv, TypeOK, Target
    <2> QED
      BY <1>1, <2>1, <2>2 DEF IInv, TypeOK
  <1>4. PoolInv'
    BY <1>1, <1>2, Numbers DEF IInv, PoolInv
  <1>5. FreshInv'
    BY <1>1, <1>2 DEF IInv, FreshInv, PoolInv
  <1>6. SetupInv'
    BY <1>1, <1>2 DEF IInv, SetupInv
  <1>7. EofInv'
    BY <1>1, <1>2 DEF IInv, EofInv
  <1>8. FindInv'
    BY <1>1, <1>2 DEF IInv, FindInv, Removed
  <1>9. QuietInv'
    BY <1>1, <1>2, ConnSets, Numbers DEF IInv, QuietInv, PoolInv, FreshInv, EofInv, SetupInv
  <1>10. SettledInv'
    BY <1>1, <1>2 DEF IInv, SettledInv
  <1>11. CountInv'
    BY <1>1, <1>2 DEF IInv, CountInv
  <1>12. AddrInv' /\ ListInv' /\ ChildInv' /\ CascadeInv' /\ DropInv'
    BY <1>1 DEF IInv, AddrInv, ListInv, ChildInv, CascadeInv, DropInv, NoChild
  <1> QED
    BY <1>3, <1>4, <1>5, <1>6, <1>7, <1>8, <1>9, <1>10, <1>11, <1>12 DEF IInv

\* A deregistration takes off the list the one allocated connection at its
\* address: its own, or a newer one and then its own was freed.
LEMMA DeregisterKeeps ==
    ASSUME IInv, fault = "none", NEW w \in Workers, Deregister(w)
    PROVE  IInv'
  <1>1. /\ running[w].f = "deregister" /\ running[w].c \in Conns
        /\ dangling' = IF running[w].c \in live THEN dangling ELSE dangling \cup {running[w].c}
        /\ fault' \in {"none", "use_after_free"}
        /\ registration_mutex = 0
        /\ head' = head \ Target(running[w].c)
        /\ remover' = [d \in Conns |-> IF d \in head \cap Target(running[w].c) THEN running[w].c
             ELSE remover[d]]
        /\ running' = [running EXCEPT ![w] = Idle]
        /\ UNCHANGED <<server, work_units, stopped, accepted, acc, at, live, hosted,
                       registration_mutex, epc, stage, index, look, server_connections,
                       server_connection_count, table_mutex, children, parent, quiet, settled>>
    BY UnitFacts DEF Deregister, pool, conns, loop, table, ghosts, IInv, Runs, Unit, Follow,
       Pool!End
  <1>2. /\ \A v \in Workers : v # w => running'[v] = running[v]
        /\ running'[w] = Idle /\ Idle.f = "idle" /\ Idle.c = 0
        /\ \A d \in Conns : remover'[d] = IF d \in head /\ d \in live
                              /\ at[d] = at[running[w].c] THEN running[w].c ELSE remover[d]
        /\ \A d \in head : d \notin head' <=> d \in live /\ at[d] = at[running[w].c]
        /\ head' \subseteq head
    BY <1>1, UnitFacts DEF IInv, TypeOK, Target
  <1>3. TypeOK'
    BY <1>1, <1>2 DEF IInv, TypeOK
  <1>4. PoolInv'
    BY <1>1, <1>2, Numbers DEF IInv, PoolInv
  <1>5. FreshInv'
    BY <1>1, <1>2 DEF IInv, FreshInv, PoolInv
  <1>6. SetupInv'
    BY <1>1, <1>2 DEF IInv, SetupInv
  <1>7. ListInv'
    BY <1>1, <1>2 DEF IInv, ListInv
  <1>8. EofInv'
    BY <1>1, <1>2 DEF IInv, EofInv
  <1>9. FindInv'
    BY <1>1, <1>2, ConnSets DEF IInv, FindInv, PoolInv, Removed, AddrInv, FreshInv, ListInv,
       SetupInv, EofInv, QuietInv
  <1>10. QuietInv'
    BY <1>1, <1>2, ConnSets, Numbers DEF IInv, QuietInv, PoolInv, FreshInv, EofInv, SetupInv
  <1>11. SettledInv'
    BY <1>1, <1>2 DEF IInv, SettledInv
  <1>12. CountInv'
    BY <1>1, <1>2 DEF IInv, CountInv
  <1>13. AddrInv' /\ ChildInv' /\ CascadeInv' /\ DropInv'
    BY <1>1 DEF IInv, AddrInv, ChildInv, CascadeInv, DropInv, NoChild
  <1> QED
    BY <1>3, <1>4, <1>5, <1>6, <1>7, <1>8, <1>9, <1>10, <1>11, <1>12, <1>13 DEF IInv

\* A handler that uses its connection is none of a quietly freed one.
LEMMA HandlerUsesKeeps ==
    ASSUME IInv, fault = "none", NEW w \in Workers, HandlerUses(w)
    PROVE  IInv'
  <1>1. /\ running[w].f = "app" /\ running[w].c \in Conns
        /\ dangling' = IF running[w].c \in live THEN dangling ELSE dangling \cup {running[w].c}
        /\ fault' \in {"none", "use_after_free"}
        /\ UNCHANGED <<server, work_units, running, stopped, accepted, acc, at, live, hosted,
                       head, registration_mutex, epc, stage, index, look, server_connections,
                       server_connection_count, table_mutex, children, parent, quiet, settled,
                       remover>>
    BY UnitFacts DEF HandlerUses, pool, conns, loop, table, ghosts, IInv, Runs, Unit, Follow
  <1>2. TypeOK'
    BY <1>1 DEF IInv, TypeOK
  <1>3. FreshInv'
    BY <1>1 DEF IInv, FreshInv, PoolInv
  <1>4. EofInv'
    BY <1>1 DEF IInv, EofInv
  <1>5. FindInv'
    BY <1>1 DEF IInv, FindInv, Removed
  <1>6. QuietInv'
    BY <1>1 DEF IInv, QuietInv
  <1>7. CountInv'
    BY <1>1 DEF IInv, CountInv
  <1>8. PoolInv' /\ SetupInv' /\ AddrInv' /\ ListInv' /\ SettledInv' /\ ChildInv' /\ CascadeInv'
        /\ DropInv'
    BY <1>1 DEF IInv, PoolInv, SetupInv, AddrInv, ListInv, SettledInv, ChildInv, CascadeInv,
       DropInv, NoChild
  <1> QED
    BY <1>2, <1>3, <1>4, <1>5, <1>6, <1>7, <1>8 DEF IInv

\* A new child's parent has a handler outstanding, so it is not settled.
LEMMA HandlerConnectsKeeps ==
    ASSUME IInv, fault = "none", NEW w \in Workers, HandlerConnects(w)
    PROVE  IInv'
  <1>1. /\ running[w].f = "app"
        /\ children < NChildren /\ children' = children + 1
        /\ parent' = [parent EXCEPT ![children + 1] = running[w].c]
        /\ server_connection_count' = server_connection_count + 1
        /\ \E e \in Indexes : server_connections[e] = NULL
                                /\ server_connections' = [server_connections EXCEPT ![e] = children + 1]
        /\ table_mutex' = w
        /\ running[w] \in Units /\ running[w].c \in Conns
        /\ \A v \in Workers : v # w => running'[v] = running[v]
        /\ running'[w].f = "connect" /\ running'[w].c = running[w].c
        /\ running' \in [Workers -> Units \cup {Idle}]
        /\ UNCHANGED <<server, work_units, stopped, accepted, acc, at, live, hosted, head,
                       registration_mutex, epc, stage, index, look, fault, dangling, quiet,
                       settled, remover>>
    BY UnitFacts, BecomesFacts DEF HandlerConnects, pool, conns, loop, table, ghosts, IInv,
       Runs, Unit, FreeIndexes
  <1>2. /\ children + 1 \in Children
        /\ parent'[children + 1] = running[w].c /\ \A k \in Children : k # children + 1
             => parent'[k] = parent[k]
        /\ \A n \in Indexes : server_connections'[n] = server_connections[n]
                                \/ (server_connections[n] = NULL
                                     /\ server_connections'[n] = children + 1)
    BY <1>1, Numbers DEF IInv, TypeOK, Children
  <1>3. TypeOK'
    <2>1. children' \in 0..NChildren
      BY <1>1, ServerAssumption DEF IInv, TypeOK
    <2>2. server_connection_count' \in (-1)..NChildren
      BY <1>1, ServerAssumption DEF IInv, TypeOK, CountInv
    <2>3. parent' \in [Children -> Conns \cup {0}]
      BY <1>1, <1>2 DEF IInv, TypeOK
    <2>4. server_connections' \in [Indexes -> Children \cup {NULL}]
      BY <1>1, <1>2 DEF IInv, TypeOK
    <2> QED
      BY <1>1, <2>1, <2>2, <2>3, <2>4 DEF IInv, TypeOK
  <1>4. PoolInv'
    BY <1>1, <1>2 DEF IInv, PoolInv
  <1>5. SetupInv'
    BY <1>1, <1>2 DEF IInv, SetupInv
  <1>6. FindInv'
    BY <1>1, <1>2 DEF IInv, FindInv, Removed
  <1>7. QuietInv'
    BY <1>1, <1>2 DEF IInv, QuietInv
  <1>8. SettledInv'
    BY <1>1, <1>2 DEF IInv, SettledInv
  <1>9. ChildInv'
    BY <1>1, <1>2, Numbers DEF IInv, ChildInv, PoolInv, FreshInv
  <1>10. CascadeInv'
    BY <1>1, <1>2 DEF IInv, CascadeInv, SettledInv, SetupInv, NoChild, ChildInv, EofInv,
       FreshInv
  <1>11. DropInv'
    BY <1>1, <1>2, Numbers DEF IInv, DropInv, ChildInv, EofInv, SetupInv
  <1>12. CountInv'
    BY <1>1, <1>2, Numbers DEF IInv, CountInv
  <1>13. FreshInv' /\ AddrInv' /\ ListInv' /\ EofInv'
    BY <1>1 DEF IInv, FreshInv, AddrInv, ListInv, EofInv
  <1> QED
    BY <1>3, <1>4, <1>5, <1>6, <1>7, <1>8, <1>9, <1>10, <1>11, <1>12, <1>13 DEF IInv

\* The call returns into the handler.
LEMMA HandlerConnectedKeeps ==
    ASSUME IInv, fault = "none", NEW w \in Workers, HandlerConnected(w)
    PROVE  IInv'
  <1>1. /\ running[w].f = "connect"
        /\ table_mutex' = 0
        /\ running[w] \in Units /\ running[w].c \in Conns
        /\ \A v \in Workers : v # w => running'[v] = running[v]
        /\ running'[w].f = "app" /\ running'[w].c = running[w].c
        /\ running' \in [Workers -> Units \cup {Idle}]
        /\ UNCHANGED <<server, work_units, stopped, accepted, acc, at, live, hosted, head,
                       registration_mutex, epc, stage, index, look, server_connections,
                       server_connection_count, children, parent, fault, dangling, quiet,
                       settled, remover>>
    BY UnitFacts, BecomesFacts DEF HandlerConnected, pool, conns, loop, table, ghosts, IInv,
       Runs, Unit
  <1>2. TypeOK'
    BY <1>1 DEF IInv, TypeOK
  <1>3. PoolInv'
    BY <1>1 DEF IInv, PoolInv
  <1>4. SetupInv'
    BY <1>1 DEF IInv, SetupInv
  <1>5. FindInv'
    BY <1>1 DEF IInv, FindInv, Removed
  <1>6. QuietInv'
    BY <1>1 DEF IInv, QuietInv
  <1>7. SettledInv'
    BY <1>1 DEF IInv, SettledInv
  <1>8. FreshInv' /\ AddrInv' /\ ListInv' /\ EofInv' /\ ChildInv' /\ CascadeInv' /\ DropInv'
        /\ CountInv'
    BY <1>1 DEF IInv, FreshInv, AddrInv, ListInv, EofInv, ChildInv, CascadeInv, DropInv,
       CountInv, NoChild
  <1> QED
    BY <1>2, <1>3, <1>4, <1>5, <1>6, <1>7, <1>8 DEF IInv

\* The worker is idle again.
LEMMA HandlerReturnsKeeps ==
    ASSUME IInv, fault = "none", NEW w \in Workers, HandlerReturns(w)
    PROVE  IInv'
  <1>1. /\ running[w].f = "app" /\ running[w].c \in Conns
        /\ running' = [running EXCEPT ![w] = Idle]
        /\ UNCHANGED <<server, work_units, stopped, accepted, acc, at, live, hosted, head,
                       registration_mutex, epc, stage, index, look, server_connections,
                       server_connection_count, table_mutex, children, parent, fault, dangling,
                       quiet, settled, remover>>
    BY UnitFacts DEF HandlerReturns, pool, conns, loop, table, ghosts, IInv, Runs, Unit,
       Pool!End
  <1>2. /\ \A v \in Workers : v # w => running'[v] = running[v]
        /\ running'[w] = Idle /\ Idle.f = "idle" /\ Idle.c = 0
    BY <1>1, UnitFacts DEF IInv, TypeOK
  <1>3. TypeOK'
    BY <1>1, <1>2 DEF IInv, TypeOK
  <1>4. PoolInv'
    BY <1>1, <1>2, Numbers DEF IInv, PoolInv
  <1>5. SetupInv'
    BY <1>1, <1>2 DEF IInv, SetupInv
  <1>6. FindInv'
    BY <1>1, <1>2 DEF IInv, FindInv, Removed
  <1>7. QuietInv'
    BY <1>1, <1>2, ConnSets, Numbers DEF IInv, QuietInv, PoolInv, FreshInv, EofInv, SetupInv
  <1>8. SettledInv'
    BY <1>1, <1>2 DEF IInv, SettledInv
  <1>9. FreshInv' /\ AddrInv' /\ ListInv' /\ EofInv' /\ ChildInv' /\ CascadeInv' /\ DropInv'
        /\ CountInv'
    BY <1>1 DEF IInv, FreshInv, AddrInv, ListInv, EofInv, ChildInv, CascadeInv, DropInv,
       CountInv, NoChild
  <1> QED
    BY <1>3, <1>4, <1>5, <1>6, <1>7, <1>8, <1>9 DEF IInv

\* An entry is cleared under whoever looks at it.
LEMMA ChildLostKeeps ==
    ASSUME IInv, fault = "none", NEW e \in Indexes, ChildLost(e)
    PROVE  IInv'
  <1>1. /\ server_connections' = [server_connections EXCEPT ![e] = NULL]
        /\ server_connection_count' = server_connection_count - 1
        /\ fault' = IF server_connection_count - 1 >= 0 THEN fault ELSE "assert"
        /\ UNCHANGED <<server, work_units, running, stopped, accepted, acc, at, live, hosted,
                       head, registration_mutex, epc, stage, index, look, table_mutex, children,
                       parent, dangling, quiet, settled, remover>>
    BY DEF ChildLost, pool, conns, loop, table, ghosts, IInv, Disconnect
  <1>2. /\ \A n \in Indexes : server_connections'[n] = server_connections[n]
                                \/ server_connections'[n] = NULL
    BY <1>1 DEF IInv, TypeOK
  <1>3. TypeOK'
    BY <1>1, <1>2, Numbers DEF IInv, TypeOK, EofInv, ChildInv, CountInv
  <1>4. EofInv'
    BY <1>1, <1>2 DEF IInv, EofInv
  <1>5. ChildInv'
    BY <1>1, <1>2, Numbers DEF IInv, ChildInv
  <1>6. CascadeInv'
    BY <1>1, <1>2 DEF IInv, CascadeInv, NoChild
  <1>7. CountInv'
    BY <1>1, <1>2, Numbers DEF IInv, CountInv
  <1>8. PoolInv' /\ FreshInv' /\ SetupInv' /\ AddrInv' /\ ListInv' /\ FindInv' /\ QuietInv'
        /\ SettledInv' /\ DropInv'
    BY <1>1 DEF IInv, PoolInv, FreshInv, SetupInv, AddrInv, ListInv, FindInv, QuietInv,
       SettledInv, DropInv, Removed
  <1> QED
    BY <1>3, <1>4, <1>5, <1>6, <1>7, <1>8 DEF IInv

\* A message is queued only while its connection is allocated and in its loop.
LEMMA OnReadKeeps ==
    ASSUME IInv, fault = "none", NEW c \in Conns, NEW m \in {"register", "app", "deregister"},
           OnRead(c, m)
    PROVE  IInv'
  <1>1. /\ epc[c] = "loop" /\ c \in live
        /\ stage' = [stage EXCEPT ![c] = m]
        /\ Pool!Submit([f |-> m, c |-> c])
        /\ UNCHANGED <<server, running, stopped, accepted, acc, at, live, hosted, head,
                       registration_mutex, epc, index, look, server_connections,
                       server_connection_count, table_mutex, children, parent, fault, dangling,
                       quiet, settled, remover>>
    BY DEF OnRead, pool, conns, loop, table, ghosts, IInv, Pool!Submit
  <1> DEFINE u == [f |-> m, c |-> c]
  <1>2. u \in Units /\ u.f = m /\ u.c = c
    BY <1>1, ServerAssumption DEF Units, Conns, IInv, TypeOK
  <1>3. /\ work_units' \in Seq(Units)
        /\ \A n \in DOMAIN work_units : n \in DOMAIN work_units'
                                          /\ work_units'[n] = work_units[n]
        /\ \A n \in DOMAIN work_units' :
             n \in DOMAIN work_units \/ (n = Len(work_units) + 1 /\ work_units'[n] = u)
        /\ Len(work_units) + 1 \notin DOMAIN work_units
        /\ UNCHANGED <<running, stopped>>
    BY <1>1, <1>2, SubmitFacts DEF IInv
  <1> HIDE DEF u
  <1>4. TypeOK'
    BY <1>1, <1>2, <1>3 DEF IInv, TypeOK
  <1>5. PoolInv'
    BY <1>1, <1>2, <1>3 DEF IInv, PoolInv, FreshInv
  <1>6. SetupInv'
    BY <1>1, <1>2, <1>3 DEF IInv, SetupInv
  <1>7. QuietInv'
    BY <1>1, <1>2, <1>3 DEF IInv, QuietInv
  <1>8. SettledInv'
    BY <1>1, <1>2, <1>3 DEF IInv, SettledInv
  <1>9. FreshInv' /\ AddrInv' /\ ListInv' /\ EofInv' /\ FindInv' /\ ChildInv' /\ CascadeInv'
        /\ DropInv' /\ CountInv'
    BY <1>1 DEF IInv, FreshInv, AddrInv, ListInv, EofInv, FindInv, ChildInv, CascadeInv,
       DropInv, CountInv, Removed, NoChild
  <1> QED
    BY <1>4, <1>5, <1>6, <1>7, <1>8, <1>9 DEF IInv

\* The timer of a connection in its loop is none of a quietly freed one.
LEMMA TimerKeeps ==
    ASSUME IInv, fault = "none", NEW c \in Conns, Timer(c)
    PROVE  IInv'
  <1>1. /\ epc[c] = "loop" /\ c \notin live
        /\ registration_mutex = 0
        /\ dangling' = IF c \in live THEN dangling ELSE dangling \cup {c}
        /\ fault' \in {"none", "use_after_free"}
        /\ UNCHANGED <<server, work_units, running, stopped, accepted, acc, at, live, hosted,
                       head, registration_mutex, epc, stage, index, look, server_connections,
                       server_connection_count, table_mutex, children, parent, quiet, settled,
                       remover>>
    BY DEF Timer, pool, conns, loop, table, ghosts, IInv, Follow
  <1>2. TypeOK'
    BY <1>1 DEF IInv, TypeOK
  <1>3. FreshInv'
    BY <1>1, Numbers DEF IInv, FreshInv
  <1>4. EofInv'
    BY <1>1 DEF IInv, EofInv
  <1>5. FindInv'
    BY <1>1 DEF IInv, FindInv, Removed
  <1>6. QuietInv'
    BY <1>1 DEF IInv, QuietInv
  <1>7. CountInv'
    BY <1>1 DEF IInv, CountInv
  <1>8. PoolInv' /\ SetupInv' /\ AddrInv' /\ ListInv' /\ SettledInv' /\ ChildInv' /\ CascadeInv'
        /\ DropInv'
    BY <1>1 DEF IInv, PoolInv, SetupInv, AddrInv, ListInv, SettledInv, ChildInv, CascadeInv,
       DropInv, NoChild
  <1> QED
    BY <1>2, <1>3, <1>4, <1>5, <1>6, <1>7, <1>8 DEF IInv

\* The EOF callback starts from the loop.
LEMMA EofKeeps ==
    ASSUME IInv, fault = "none", NEW c \in Conns, Eof(c)
    PROVE  IInv'
  <1>1. /\ epc[c] = "loop" /\ c \in live
        /\ epc' = [epc EXCEPT ![c] = "eof"]
        /\ UNCHANGED <<server, work_units, running, stopped, accepted, acc, at, live, hosted,
                       head, registration_mutex, stage, index, look, server_connections,
                       server_connection_count, table_mutex, children, parent, fault, dangling,
                       quiet, settled, remover>>
    BY DEF Eof, pool, conns, loop, table, ghosts, IInv
  <1>2. /\ \A d \in Conns : d # c => epc'[d] = epc[d]
        /\ epc'[c] = "eof"
    BY <1>1 DEF IInv, TypeOK
  <1>3. TypeOK'
    BY <1>1, <1>2 DEF IInv, TypeOK
  <1>4. FreshInv'
    BY <1>1, <1>2 DEF IInv, FreshInv
  <1>5. SetupInv'
    BY <1>1, <1>2 DEF IInv, SetupInv
  <1>6. EofInv'
    BY <1>1, <1>2 DEF IInv, EofInv
  <1>7. FindInv'
    BY <1>1, <1>2 DEF IInv, FindInv, Removed
  <1>8. QuietInv'
    BY <1>1, <1>2 DEF IInv, QuietInv
  <1>9. SettledInv'
    BY <1>1, <1>2 DEF IInv, SettledInv
  <1>10. CascadeInv'
    BY <1>1, <1>2 DEF IInv, CascadeInv, NoChild
  <1>11. DropInv'
    BY <1>1, <1>2 DEF IInv, DropInv
  <1>12. PoolInv' /\ AddrInv' /\ ListInv' /\ ChildInv' /\ CountInv'
    BY <1>1 DEF IInv, PoolInv, AddrInv, ListInv, ChildInv, CountInv
  <1> QED
    BY <1>3, <1>4, <1>5, <1>6, <1>7, <1>8, <1>9, <1>10, <1>11, <1>12 DEF IInv

\* A cascade starts at index 0 on an allocated connection; it is settled when no
\* handler of it is outstanding.
LEMMA EofBeginKeeps ==
    ASSUME IInv, fault = "none", NEW c \in Conns, EofBegin(c)
    PROVE  IInv'
  <1>1. /\ epc[c] = "eof" /\ registration_mutex = 0 /\ registration_mutex' = c
        /\ dangling' = IF c \in live THEN dangling ELSE dangling \cup {c}
        /\ fault' = IF c \in live THEN "none" ELSE "use_after_free"
        /\ \/ epc' = [epc EXCEPT ![c] = "free"] /\ settled' = settled
           \/ /\ epc' = [epc EXCEPT ![c] = "test"]
              /\ settled' = settled \/ (settled' = settled \cup {c}
                   /\ \A u \in Held(c) : u.f \notin {"app", "connect"})
        /\ UNCHANGED <<server, work_units, running, stopped, accepted, acc, at, live, hosted,
                       head, stage, index, look, server_connections, server_connection_count,
                       table_mutex, children, parent, quiet, remover>>
    BY DEF EofBegin, pool, conns, loop, table, ghosts, IInv
  <1>2. /\ \A d \in Conns : d # c => epc'[d] = epc[d]
        /\ epc'[c] \in {"test", "free"}
        /\ epc'[c] = "free" => settled' = settled
        /\ settled' = settled \/ (settled' = settled \cup {c}
             /\ (\A n \in DOMAIN work_units : work_units[n].c = c => work_units[n].f # "app")
             /\ (\A w \in Workers : running[w].c = c => running[w].f \notin {"app", "connect"}))
    BY <1>1 DEF IInv, TypeOK, Held, Range
  <1>3. TypeOK'
    BY <1>1, <1>2 DEF IInv, TypeOK
  <1>4. FreshInv'
    BY <1>1, <1>2, Numbers DEF IInv, FreshInv
  <1>5. SetupInv'
    <2>1. \A d \in Conns : epc[d] = "none" => epc'[d] = "none"
      BY <1>1, <1>2
    <2>2. \A w \in Workers : running[w].f \in {"setup", "thread"} => running[w].c \in Conns
      BY UnitFacts DEF IInv
    <2> QED
      BY <1>1, <2>1, <2>2, ConnSets DEF IInv, SetupInv
  <1>6. EofInv'
    BY <1>1, <1>2, Numbers DEF IInv, EofInv
  <1>7. FindInv'
    BY <1>1, <1>2, ConnSets DEF IInv, FindInv, Removed
  <1>8. QuietInv'
    BY <1>1, <1>2, ConnSets DEF IInv, QuietInv
  <1>9. SettledInv'
    BY <1>1, <1>2, ConnSets DEF IInv, SettledInv
  <1>10. CascadeInv'
    BY <1>1, <1>2, ConnSets, Numbers DEF IInv, CascadeInv, SettledInv, SetupInv, NoChild,
       ChildInv, EofInv, FreshInv
  <1>11. DropInv'
    BY <1>1, <1>2 DEF IInv, DropInv
  <1>12. CountInv'
    BY <1>1, <1>2 DEF IInv, CountInv
  <1>13. PoolInv' /\ AddrInv' /\ ListInv' /\ ChildInv'
    BY <1>1 DEF IInv, PoolInv, AddrInv, ListInv, ChildInv
  <1> QED
    BY <1>3, <1>4, <1>5, <1>6, <1>7, <1>8, <1>9, <1>10, <1>11, <1>12, <1>13 DEF IInv

\* An empty entry is passed over, another one is remembered.
LEMMA CascadeTestKeeps ==
    ASSUME IInv, fault = "none", NEW c \in Conns, CascadeTest(c)
    PROVE  IInv'
  <1>1. /\ epc[c] = "test" /\ index < MAX_SERVER_CONNECTIONS
        /\ \/ /\ server_connections[index] = NULL /\ index' = index + 1
              /\ epc' = [epc EXCEPT ![c] = "test"] /\ look' = look
           \/ /\ server_connections[index] # NULL /\ look' = server_connections[index]
              /\ epc' = [epc EXCEPT ![c] = "deref"] /\ index' = index
        /\ UNCHANGED <<server, work_units, running, stopped, accepted, acc, at, live, hosted,
                       head, registration_mutex, stage, server_connections,
                       server_connection_count, table_mutex, children, parent, fault, dangling,
                       quiet, settled, remover>>
    BY DEF CascadeTest, pool, conns, loop, table, ghosts, IInv, MoreEntries, Advance
  <1>2. /\ \A d \in Conns : d # c => epc'[d] = epc[d]
        /\ epc'[c] \in {"test", "deref"}
        /\ epc'[c] = "test" => server_connections[index] = NULL /\ index' = index + 1
             /\ look' = look
        /\ epc'[c] = "deref" => server_connections[index] # NULL
             /\ look' = server_connections[index] /\ index' = index
    BY <1>1 DEF IInv, TypeOK
  <1>3. TypeOK'
    <2>1. index < MAX_SERVER_CONNECTIONS /\ index \in Indexes /\ index \in Nat
          /\ MAX_SERVER_CONNECTIONS \in Nat
      BY <1>1, Numbers DEF IInv
    <2>2. index' \in 0..MAX_SERVER_CONNECTIONS
      BY <1>1, <2>1
    <2>3. server_connections[index] \in Children \cup {NULL} /\ look \in Children \cup {NULL}
      BY <2>1 DEF IInv, TypeOK
    <2>4. look' \in Children \cup {NULL}
      BY <1>1, <2>3
    <2>5. epc' \in [Conns -> {"none", "loop", "eof", "test", "deref", "drop", "free",
                              "stale", "ended"}]
      BY <1>1 DEF IInv, TypeOK
    <2>6. fault' \in {"none", "use_after_free", "wild_host", "cascade", "assert"}
      BY <1>1 DEF IInv, TypeOK
    <2> QED
      BY <1>1, <2>2, <2>4, <2>5, <2>6 DEF IInv, TypeOK
  <1>4. FreshInv'
    BY <1>1, <1>2 DEF IInv, FreshInv
  <1>5. SetupInv'
    <2>1. \A d \in Conns : epc[d] = "none" => epc'[d] = "none"
      BY <1>1, <1>2
    <2>2. \A w \in Workers : running[w].f \in {"setup", "thread"} => running[w].c \in Conns
      BY UnitFacts DEF IInv
    <2> QED
      BY <1>1, <2>1, <2>2, ConnSets DEF IInv, SetupInv
  <1>6. EofInv'
    BY <1>1, <1>2, Numbers DEF IInv, EofInv
  <1>7. FindInv'
    BY <1>1, <1>2, ConnSets DEF IInv, FindInv, Removed
  <1>8. QuietInv'
    BY <1>1, <1>2, ConnSets DEF IInv, QuietInv
  <1>9. SettledInv'
    BY <1>1, <1>2, ConnSets DEF IInv, SettledInv
  <1>10. ChildInv'
    BY <1>1, <1>2, Numbers DEF IInv, ChildInv
  <1>11. CascadeInv'
    BY <1>1, <1>2, ConnSets, Numbers DEF IInv, CascadeInv, SettledInv, SetupInv, NoChild,
       ChildInv, EofInv, FreshInv
  <1>12. DropInv'
    BY <1>1, <1>2 DEF IInv, DropInv, ChildInv, EofInv, SetupInv
  <1>13. PoolInv' /\ AddrInv' /\ ListInv' /\ CountInv'
    BY <1>1 DEF IInv, PoolInv, AddrInv, ListInv, CountInv
  <1> QED
    BY <1>3, <1>4, <1>5, <1>6, <1>7, <1>8, <1>9, <1>10, <1>11, <1>12, <1>13 DEF IInv

\* The entry is passed over when its parent is another connection.
LEMMA CascadeDerefKeeps ==
    ASSUME IInv, fault = "none", NEW c \in Conns, CascadeDeref(c)
    PROVE  IInv'
  <1>1. /\ epc[c] = "deref"
        /\ \/ /\ look' \in {look, server_connections[index]} \ {NULL} /\ fault' = fault
              /\ \/ /\ at[parent[look']] = at[c]
                    /\ epc' = [epc EXCEPT ![c] = "drop"] /\ index' = index
                 \/ /\ at[parent[look']] # at[c]
                    /\ epc' = [epc EXCEPT ![c] = "test"] /\ index' = index + 1
           \/ fault' = "cascade" /\ UNCHANGED <<epc, index, look>>
        /\ UNCHANGED <<server, work_units, running, stopped, accepted, acc, at, live, hosted,
                       head, registration_mutex, stage, server_connections,
                       server_connection_count, table_mutex, children, parent, dangling, quiet,
                       settled, remover>>
    BY DEF CascadeDeref, pool, conns, loop, table, ghosts, IInv, IsParent, Advance
  <1>2. /\ \A d \in Conns : d # c => epc'[d] = epc[d]
        /\ epc'[c] \in {"test", "drop", "deref"}
        /\ epc'[c] = "test" => look' \in {look, server_connections[index]} /\ look' # NULL
             /\ at[parent[look']] # at[c] /\ index' = index + 1
        /\ epc'[c] = "drop" => look' \in {look, server_connections[index]} /\ look' # NULL
             /\ at[parent[look']] = at[c] /\ index' = index
        /\ epc'[c] = "deref" => look' = look /\ index' = index /\ fault' # "none"
    BY <1>1 DEF IInv, TypeOK
  <1>3. TypeOK'
    <2>1. index < MAX_SERVER_CONNECTIONS /\ index \in Indexes /\ index \in Nat
          /\ MAX_SERVER_CONNECTIONS \in Nat
      BY <1>1, Numbers DEF IInv, EofInv
    <2>2. index' \in 0..MAX_SERVER_CONNECTIONS
      BY <1>1, <2>1
    <2>3. server_connections[index] \in Children \cup {NULL} /\ look \in Children \cup {NULL}
      BY <2>1 DEF IInv, TypeOK
    <2>4. look' \in Children \cup {NULL}
      BY <1>1, <2>3
    <2>5. epc' \in [Conns -> {"none", "loop", "eof", "test", "deref", "drop", "free",
                              "stale", "ended"}]
      BY <1>1 DEF IInv, TypeOK
    <2>6. fault' \in {"none", "use_after_free", "wild_host", "cascade", "assert"}
      BY <1>1 DEF IInv, TypeOK
    <2> QED
      BY <1>1, <2>2, <2>4, <2>5, <2>6 DEF IInv, TypeOK
  <1>4. FreshInv'
    BY <1>1, <1>2 DEF IInv, FreshInv
  <1>5. SetupInv'
    <2>1. \A d \in Conns : epc[d] = "none" => epc'[d] = "none"
      BY <1>1, <1>2
    <2>2. \A w \in Workers : running[w].f \in {"setup", "thread"} => running[w].c \in Conns
      BY UnitFacts DEF IInv
    <2> QED
      BY <1>1, <2>1, <2>2, ConnSets DEF IInv, SetupInv
  <1>6. EofInv'
    BY <1>1, <1>2, Numbers DEF IInv, EofInv
  <1>7. FindInv'
    BY <1>1, <1>2, ConnSets DEF IInv, FindInv, Removed
  <1>8. QuietInv'
    BY <1>1, <1>2, ConnSets DEF IInv, QuietInv
  <1>9. SettledInv'
    BY <1>1, <1>2, ConnSets DEF IInv, SettledInv
  <1>10. ChildInv'
    <2>1. index \in Indexes
      BY <1>1, Numbers DEF IInv, EofInv
    <2>2. look' \in {look, server_connections[index]}
      BY <1>1
    <2>3. look' <= children
      BY <2>1, <2>2 DEF IInv, ChildInv
    <2> QED
      BY <1>1, <2>3 DEF IInv, ChildInv
  <1>11. CascadeInv'
    BY <1>1, <1>2, ConnSets, Numbers DEF IInv, CascadeInv, SettledInv, SetupInv, NoChild,
       ChildInv, EofInv, FreshInv
  <1>12. DropInv'
    BY <1>1, <1>2 DEF IInv, DropInv, ChildInv, EofInv, SetupInv
  <1>13. CountInv'
    BY <1>1, <1>2 DEF IInv, CountInv
  <1>14. PoolInv' /\ AddrInv' /\ ListInv'
    BY <1>1 DEF IInv, PoolInv, AddrInv, ListInv
  <1> QED
    BY <1>3, <1>4, <1>5, <1>6, <1>7, <1>8, <1>9, <1>10, <1>11, <1>12, <1>13, <1>14 DEF IInv

\* The entry at index is empty when the loop goes on.
LEMMA CascadeDisconnectKeeps ==
    ASSUME IInv, fault = "none", NEW c \in Conns, CascadeDisconnect(c)
    PROVE  IInv'
  <1>1. /\ epc[c] = "drop"
        /\ server_connections' = [server_connections EXCEPT ![index] = NULL]
        /\ server_connection_count' = server_connection_count - 1
        /\ fault' = IF server_connection_count - 1 >= 0 THEN fault ELSE "assert"
        /\ index' = index + 1
        /\ epc' = [epc EXCEPT ![c] = "test"]
        /\ UNCHANGED <<server, work_units, running, stopped, accepted, acc, at, live, hosted,
                       head, registration_mutex, stage, look, table_mutex, children, parent,
                       dangling, quiet, settled, remover>>
    BY DEF CascadeDisconnect, pool, conns, loop, table, ghosts, IInv, Disconnect, Advance
  <1>2. /\ \A d \in Conns : d # c => epc'[d] = epc[d]
        /\ epc'[c] = "test"
        /\ server_connections'[index] = NULL /\ \A n \in Indexes : n # index
             => server_connections'[n] = server_connections[n]
    <2>1. index \in Indexes
      BY <1>1, Numbers DEF IInv, EofInv
    <2> QED
      BY <1>1, <2>1 DEF IInv, TypeOK
  <1>3. TypeOK'
    <2>1. index \in Nat /\ MAX_SERVER_CONNECTIONS \in Nat /\ index < MAX_SERVER_CONNECTIONS
      BY <1>1, Numbers DEF IInv, EofInv
    <2>2. index' \in 0..MAX_SERVER_CONNECTIONS
      BY <1>1, <2>1
    <2>3. server_connections' \in [Indexes -> Children \cup {NULL}]
      BY <1>1 DEF IInv, TypeOK
    <2>4. server_connection_count' \in (-1)..NChildren
      BY <1>1, ServerAssumption DEF IInv, TypeOK, CountInv
    <2>5. fault' \in {"none", "use_after_free", "wild_host", "cascade", "assert"}
      BY <1>1 DEF IInv, TypeOK
    <2>6. epc' \in [Conns -> {"none", "loop", "eof", "test", "deref", "drop", "free",
                              "stale", "ended"}]
      BY <1>1 DEF IInv, TypeOK
    <2> QED
      BY <1>1, <2>2, <2>3, <2>4, <2>5, <2>6 DEF IInv, TypeOK
  <1>4. FreshInv'
    BY <1>1, <1>2 DEF IInv, FreshInv
  <1>5. SetupInv'
    BY <1>1, <1>2 DEF IInv, SetupInv
  <1>6. EofInv'
    BY <1>1, <1>2, Numbers DEF IInv, EofInv
  <1>7. FindInv'
    BY <1>1, <1>2 DEF IInv, FindInv, Removed
  <1>8. QuietInv'
    BY <1>1, <1>2 DEF IInv, QuietInv
  <1>9. SettledInv'
    BY <1>1, <1>2 DEF IInv, SettledInv
  <1>10. ChildInv'
    BY <1>1, <1>2, Numbers DEF IInv, ChildInv
  <1>11. CascadeInv'
    BY <1>1, <1>2, ConnSets, Numbers DEF IInv, CascadeInv, SettledInv, SetupInv, NoChild,
       ChildInv, EofInv, FreshInv
  <1>12. DropInv'
    BY <1>1, <1>2 DEF IInv, DropInv
  <1>13. CountInv'
    BY <1>1, <1>2, Numbers DEF IInv, CountInv
  <1>14. PoolInv' /\ AddrInv' /\ ListInv'
    BY <1>1 DEF IInv, PoolInv, AddrInv, ListInv
  <1> QED
    BY <1>3, <1>4, <1>5, <1>6, <1>7, <1>8, <1>9, <1>10, <1>11, <1>12, <1>13, <1>14 DEF IInv

\* At the end of the loop every entry has been passed.
LEMMA CascadeEndsKeeps ==
    ASSUME IInv, fault = "none", NEW c \in Conns, CascadeEnds(c)
    PROVE  IInv'
  <1>1. /\ epc[c] = "test" /\ ~(index < MAX_SERVER_CONNECTIONS)
        /\ epc' = [epc EXCEPT ![c] = "free"]
        /\ UNCHANGED <<server, work_units, running, stopped, accepted, acc, at, live, hosted,
                       head, registration_mutex, stage, index, look, server_connections,
                       server_connection_count, table_mutex, children, parent, fault, dangling,
                       quiet, settled, remover>>
    BY DEF CascadeEnds, pool, conns, loop, table, ghosts, IInv, MoreEntries
  <1>2. /\ \A d \in Conns : d # c => epc'[d] = epc[d]
        /\ epc'[c] = "free"
    BY <1>1 DEF IInv, TypeOK
  <1>3. TypeOK'
    BY <1>1, <1>2 DEF IInv, TypeOK
  <1>4. FreshInv'
    BY <1>1, <1>2 DEF IInv, FreshInv
  <1>5. SetupInv'
    BY <1>1, <1>2 DEF IInv, SetupInv
  <1>6. EofInv'
    BY <1>1, <1>2 DEF IInv, EofInv
  <1>7. FindInv'
    BY <1>1, <1>2 DEF IInv, FindInv, Removed
  <1>8. QuietInv'
    BY <1>1, <1>2 DEF IInv, QuietInv
  <1>9. SettledInv'
    BY <1>1, <1>2 DEF IInv, SettledInv
  <1>10. CascadeInv'
    BY <1>1, <1>2, Numbers DEF IInv, CascadeInv, NoChild
  <1>11. DropInv'
    BY <1>1, <1>2 DEF IInv, DropInv
  <1>12. PoolInv' /\ AddrInv' /\ ListInv' /\ ChildInv' /\ CountInv'
    BY <1>1 DEF IInv, PoolInv, AddrInv, ListInv, ChildInv, CountInv
  <1> QED
    BY <1>3, <1>4, <1>5, <1>6, <1>7, <1>8, <1>9, <1>10, <1>11, <1>12 DEF IInv

\* The connection that is freed leaves the list, and with it nobody else: no two
\* allocated connections share an address.
LEMMA EofFreeKeeps ==
    ASSUME IInv, fault = "none", NEW c \in Conns, EofFree(c)
    PROVE  IInv'
  <1>1. /\ epc[c] = "free"
        /\ head' = {d \in head : at[d] # at[c]}
        /\ \E p \in {"ended", "stale"} : epc' = [epc EXCEPT ![c] = p]
        /\ fault' \in {"none", "wild_host"}
        /\ live' = live \ {c} /\ hosted' = hosted \ {c}
        /\ registration_mutex' = 0 /\ index' = 0 /\ look' = NULL
        /\ stage' = [stage EXCEPT ![c] = "none"]
        /\ quiet' = quiet \/ (quiet' = quiet \cup {c} /\ Held(c) = {} /\ acc # c
             /\ epc'[c] # "stale")
        /\ UNCHANGED <<server, work_units, running, stopped, accepted, acc, at,
                       server_connections, server_connection_count, table_mutex, children,
                       parent, dangling, settled, remover>>
    BY DEF EofFree, pool, conns, loop, table, ghosts, IInv, Unlink, ExitLoop, FreeHost
  <1>2. /\ \A d \in Conns : d # c => epc'[d] = epc[d]
        /\ epc'[c] \in {"ended", "stale"}
        /\ \A d \in head : d \notin head' <=> at[d] = at[c]
        /\ head' \subseteq head
        /\ quiet' = quiet \/ (quiet' = quiet \cup {c} /\ acc # c /\ epc'[c] = "ended"
             /\ (\A n \in DOMAIN work_units : work_units[n].c # c)
             /\ (\A w \in Workers : running[w].c # c))
    BY <1>1 DEF IInv, TypeOK, Held, Range
  <1>3. TypeOK'
    BY <1>1, <1>2, Numbers DEF IInv, TypeOK, EofInv, ChildInv, CountInv
  <1>4. FreshInv'
    BY <1>1, <1>2, Numbers DEF IInv, FreshInv
  <1>5. SetupInv'
    BY <1>1, <1>2 DEF IInv, SetupInv
  <1>6. AddrInv'
    BY <1>1, <1>2 DEF IInv, AddrInv
  <1>7. ListInv'
    BY <1>1, <1>2 DEF IInv, ListInv
  <1>8. EofInv'
    BY <1>1, <1>2 DEF IInv, EofInv
  <1>9. FindInv'
    BY <1>1, <1>2 DEF IInv, FindInv, PoolInv, Removed, AddrInv, FreshInv, ListInv, SetupInv,
       EofInv, QuietInv
  <1>10. QuietInv'
    BY <1>1, <1>2 DEF IInv, QuietInv, PoolInv, FreshInv, EofInv, SetupInv
  <1>11. SettledInv'
    BY <1>1, <1>2 DEF IInv, SettledInv
  <1>12. ChildInv'
    BY <1>1, <1>2, Numbers DEF IInv, ChildInv
  <1>13. CascadeInv'
    BY <1>1, <1>2, ConnSets DEF IInv, CascadeInv, SettledInv, SetupInv, NoChild, ChildInv,
       EofInv, FreshInv
  <1>14. DropInv'
    BY <1>1, <1>2 DEF IInv, DropInv, ChildInv, EofInv, SetupInv
  <1>15. CountInv'
    BY <1>1, <1>2 DEF IInv, CountInv
  <1>16. PoolInv'
    BY <1>1 DEF IInv, PoolInv
  <1> QED
    BY <1>3, <1>4, <1>5, <1>6, <1>7, <1>8, <1>9, <1>10, <1>11, <1>12, <1>13, <1>14, <1>15, <1>16
       DEF IInv

\* The timer that was due with the EOF dangles, and the loop ends.
LEMMA StaleTimerKeeps ==
    ASSUME IInv, fault = "none", NEW c \in Conns, StaleTimer(c)
    PROVE  IInv'
  <1>1. /\ epc[c] = "stale" /\ registration_mutex = 0
        /\ dangling' = IF c \in live THEN dangling ELSE dangling \cup {c}
        /\ fault' \in {"none", "use_after_free"}
        /\ epc' = [epc EXCEPT ![c] = "ended"]
        /\ UNCHANGED <<server, work_units, running, stopped, accepted, acc, at, live, hosted,
                       head, registration_mutex, stage, index, look, server_connections,
                       server_connection_count, table_mutex, children, parent, quiet, settled,
                       remover>>
    BY DEF StaleTimer, pool, conns, loop, table, ghosts, IInv, Follow
  <1>2. /\ \A d \in Conns : d # c => epc'[d] = epc[d]
        /\ epc'[c] = "ended"
    BY <1>1 DEF IInv, TypeOK
  <1>3. TypeOK'
    BY <1>1, <1>2 DEF IInv, TypeOK
  <1>4. FreshInv'
    BY <1>1, <1>2, Numbers DEF IInv, FreshInv
  <1>5. SetupInv'
    BY <1>1, <1>2 DEF IInv, SetupInv
  <1>6. EofInv'
    BY <1>1, <1>2 DEF IInv, EofInv
  <1>7. FindInv'
    BY <1>1, <1>2 DEF IInv, FindInv, Removed
  <1>8. QuietInv'
    BY <1>1, <1>2 DEF IInv, QuietInv
  <1>9. SettledInv'
    BY <1>1, <1>2 DEF IInv, SettledInv
  <1>10. CascadeInv'
    BY <1>1, <1>2 DEF IInv, CascadeInv, NoChild
  <1>11. DropInv'
    BY <1>1, <1>2 DEF IInv, DropInv
  <1>12. CountInv'
    BY <1>1, <1>2 DEF IInv, CountInv
  <1>13. PoolInv' /\ AddrInv' /\ ListInv' /\ ChildInv'
    BY <1>1 DEF IInv, PoolInv, AddrInv, ListInv, ChildInv
  <1> QED
    BY <1>3, <1>4, <1>5, <1>6, <1>7, <1>8, <1>9, <1>10, <1>11, <1>12, <1>13 DEF IInv

\* Every connection in the list is freed.
LEMMA ClearKeeps ==
    ASSUME IInv, fault = "none", Clear
    PROVE  IInv'
  <1>1. /\ registration_mutex = 0
        /\ live' = live \ head /\ hosted' = hosted \ head /\ head' = {}
        /\ fault' \in {"none", "wild_host", "use_after_free"}
        /\ UNCHANGED <<server, work_units, running, stopped, accepted, acc, at,
                       registration_mutex, epc, stage, index, look, server_connections,
                       server_connection_count, table_mutex, children, parent, dangling, quiet,
                       settled, remover>>
    BY DEF Clear, pool, conns, loop, table, ghosts, IInv, FreeHost
  <1>2. TypeOK'
    BY <1>1 DEF IInv, TypeOK
  <1>3. FreshInv'
    BY <1>1 DEF IInv, FreshInv
  <1>4. SetupInv'
    BY <1>1 DEF IInv, SetupInv
  <1>5. AddrInv'
    BY <1>1 DEF IInv, AddrInv
  <1>6. ListInv'
    BY <1>1 DEF IInv, ListInv
  <1>7. EofInv'
    BY <1>1, Numbers DEF IInv, EofInv
  <1>8. FindInv'
    BY <1>1 DEF IInv, FindInv, Removed
  <1>9. QuietInv'
    BY <1>1 DEF IInv, QuietInv
  <1>10. CountInv'
    BY <1>1 DEF IInv, CountInv
  <1>11. PoolInv' /\ SettledInv' /\ ChildInv' /\ CascadeInv' /\ DropInv'
    BY <1>1 DEF IInv, PoolInv, SettledInv, ChildInv, CascadeInv, DropInv, NoChild
  <1> QED
    BY <1>2, <1>3, <1>4, <1>5, <1>6, <1>7, <1>8, <1>9, <1>10, <1>11 DEF IInv

-----------------------------------------------------------------------------
(* The invariant *)

\* No connection, no unit and no entry at the start.
LEMMA InitInv ==
    ASSUME Init
    PROVE  IInv
  <1>1. /\ work_units = << >> /\ running = [w \in Workers |-> Idle]
    BY DEF Init, Pool!Init
  <1>2. \A w \in Workers : running[w] = Idle /\ Idle.f = "idle" /\ Idle.c = 0
    BY <1>1 DEF Idle
  <1>3. TypeOK
    <2>1. work_units \in Seq(Units) /\ running \in [Workers -> Units \cup {Idle}]
      BY <1>1
    <2>2. /\ server \in {"down", "up", "closed", "failed"}
          /\ acc \in Conns \cup {0} /\ registration_mutex \in Conns \cup {0}
          /\ look \in Children \cup {NULL} /\ table_mutex \in Workers \cup {0}
          /\ fault \in {"none", "use_after_free", "wild_host", "cascade", "assert"}
      BY DEF Init
    <2>3. /\ accepted \in 0..NConns /\ index \in 0..MAX_SERVER_CONNECTIONS
          /\ server_connection_count \in (-1)..NChildren /\ children \in 0..NChildren
      BY ServerAssumption DEF Init
    <2>4. /\ live \subseteq Conns /\ hosted \subseteq Conns /\ head \subseteq Conns
          /\ dangling \subseteq Conns /\ quiet \subseteq Conns /\ settled \subseteq Conns
      BY DEF Init
    <2>5. /\ at \in [Conns -> Addrs \cup {NULL}]
          /\ epc \in [Conns -> {"none", "loop", "eof", "test", "deref", "drop", "free",
                                "stale", "ended"}]
          /\ stage \in [Conns -> {"none", "register", "app", "deregister"}]
          /\ server_connections \in [Indexes -> Children \cup {NULL}]
          /\ parent \in [Children -> Conns \cup {0}]
          /\ remover \in [Conns -> Conns \cup {0}]
      BY DEF Init
    <2> QED
      BY <2>1, <2>2, <2>3, <2>4, <2>5 DEF TypeOK
  <1>4. PoolInv /\ SetupInv /\ SettledInv /\ QuietInv
    BY <1>1, <1>2 DEF Init, PoolInv, SetupInv, SettledInv, QuietInv
  <1>5. AddrInv
    <2>1. Range(at) \cup {NULL} = 0..0
      BY DEF Init, Range, NULL
    <2> QED
      BY <2>1 DEF Init, AddrInv
  <1>6. FreshInv /\ ListInv /\ FindInv /\ CascadeInv
    BY DEF Init, FreshInv, ListInv, FindInv, CascadeInv
  <1>7. EofInv /\ DropInv /\ CountInv
    BY DEF Init, EofInv, DropInv, CountInv
  <1>8. ChildInv
    BY Numbers, <1>3 DEF Init, ChildInv, NULL
  <1> QED
    BY <1>3, <1>4, <1>5, <1>6, <1>7, <1>8 DEF IInv

\* No step of any thread breaks it.
LEMMA StepInv ==
    ASSUME IInv, [Next]_vars
    PROVE  IInv'
  <1>1. CASE UNCHANGED vars
    BY <1>1 DEF vars, pool, conns, loop, table, ghosts, IInv, TypeOK, PoolInv, FreshInv,
                SetupInv, AddrInv, ListInv, EofInv, FindInv, Removed, QuietInv, SettledInv,
                ChildInv, CascadeInv, NoChild, DropInv, CountInv
  <1>2. CASE Next
    <2> fault = "none"
      BY <1>2 DEF Next
    <2>1. CASE ServerInit \/ ServerInitFails \/ ServerFinalize \/ AcceptUnlock \/ Clear
      BY <2>1, ServerInitKeeps, ServerInitFailsKeeps, ServerFinalizeKeeps, AcceptUnlockKeeps,
         ClearKeeps
    <2>2. ASSUME NEW a \in Addrs, Accept(a) PROVE IInv'
      BY <2>2, AcceptKeeps
    <2>3. ASSUME NEW w \in Workers, Worker(w) \/ HandlerUses(w)
            \/ HandlerConnects(w) PROVE IInv'
      BY <2>3, TakeKeeps, SetupInsertKeeps, SetupThreadKeeps, RegisterKeeps, DeregisterKeeps,
         HandlerUsesKeeps, HandlerConnectsKeeps, HandlerConnectedKeeps, HandlerReturnsKeeps
         DEF Worker
    <2>4. ASSUME NEW i \in Indexes, ChildLost(i) PROVE IInv'
      BY <2>4, ChildLostKeeps
    <2>5. ASSUME NEW c \in Conns, EventThread(c) PROVE IInv'
      <3>1. ASSUME NEW m \in {"register", "app", "deregister"}, OnRead(c, m) PROVE IInv'
        BY <3>1, OnReadKeeps
      <3>2. CASE Timer(c) \/ Eof(c) \/ StaleTimer(c)
        BY <3>2, TimerKeeps, EofKeeps, StaleTimerKeeps
      <3>3. CASE EofCallback(c)
        BY <3>3, EofBeginKeeps, CascadeTestKeeps, CascadeDerefKeeps, CascadeDisconnectKeeps,
           CascadeEndsKeeps, EofFreeKeeps DEF EofCallback
      <3> QED
        BY <2>5, <3>1, <3>2, <3>3 DEF EventThread
    <2> QED
      BY <1>2, <2>1, <2>2, <2>3, <2>4, <2>5 DEF Next
  <1> QED
    BY <1>1, <1>2

\* The inductive invariant holds in every reachable state.
THEOREM Invariance == Spec => []IInv
  <1>1. Init => IInv
    BY InitInv
  <1>2. IInv /\ [Next]_vars => IInv'
    BY StepInv
  <1> QED
    BY <1>1, <1>2, PTL DEF Spec

-----------------------------------------------------------------------------
(* The theorems *)

\* No thread of the server drives a variable out of its type, in particular the
\* count of child connections never falls below -1.
THEOREM TypeCorrect == Spec => []TypeOK
  <1>1. IInv => TypeOK
    BY DEF IInv
  <1> QED
    BY Invariance, <1>1, PTL

\* Whoever walks the list of server.c under registration_mutex meets allocated
\* connections only and no address twice, even though malloc reuses addresses
\* and DEREGISTER_CONNECTION, the EOF callback and dynpm_clear_client_connections
\* all take connections off by address.
THEOREM ListStaysLive == Spec => []ListIsLive
  <1>1. IInv => ListIsLive
    BY DEF IInv, ListInv, AddrInv, ListIsLive
  <1> QED
    BY Invariance, <1>1, PTL

\* _server_on_error misses its connection in the list only after a deregistration
\* by the connection itself, or by an earlier one at the same address whose unit
\* ran after it was freed.
THEOREM EofMissesAreExplained == Spec => []EofFinds
  <1>1. IInv => EofFinds
    BY DEF IInv, FindInv, Removed, EofFinds
  <1> QED
    BY Invariance, <1>1, PTL

\* A connection that was freed by its EOF callback while no unit, no due timer
\* and not the accept thread held its address is never followed again.
THEOREM QuietCloses == Spec => []QuietCloseIsSafe
  <1>1. IInv => QuietCloseIsSafe
    BY DEF IInv, QuietInv, QuietCloseIsSafe
  <1> QED
    BY Invariance, <1>1, PTL

\* The cascade of _server_on_error, although it reads the client table without
\* server_connections_mutex, leaves no child of a connection none of whose
\* handlers was outstanding when it began.
THEOREM CascadesAreComplete == Spec => []CascadeComplete
  <1>1. ASSUME IInv PROVE CascadeComplete
    <2>1. ASSUME NEW k \in Range(server_connections) \ {NULL},
                 parent[k] \in settled, epc[parent[k]] \in {"free", "stale", "ended"}
          PROVE  FALSE
      <3>1. PICK n \in Indexes : server_connections[n] = k
        BY <1>1, <2>1 DEF Range, IInv, TypeOK
      <3>2. NoChild(parent[k], n)
        BY <1>1, <2>1, <3>1 DEF IInv, CascadeInv
      <3> QED
        BY <2>1, <3>1, <3>2 DEF NoChild
    <2> QED
      BY <2>1 DEF CascadeComplete
  <1>2. IInv => CascadeComplete
    BY <1>1
  <1> QED
    BY Invariance, <1>2, PTL

\* Only the cascade's own disconnect leaves the point where it is due.
LEMMA DropStep ==
    ASSUME IInv, Next, NEW c \in Conns, epc[c] = "drop", epc'[c] = "test"
    PROVE  CascadeDisconnect(c)
  <1>0. epc \in [Conns -> {"none", "loop", "eof", "test", "deref", "drop", "free",
                          "stale", "ended"}]
    BY DEF IInv, TypeOK
  <1>1. \/ ServerInit \/ ServerInitFails \/ ServerFinalize \/ AcceptUnlock \/ Clear
        \/ (\E a \in Addrs : Accept(a))
        \/ \E i \in Indexes : ChildLost(i)
        => UNCHANGED epc
    BY DEF ServerInit, ServerInitFails, ServerFinalize, AcceptUnlock, Clear, Accept, ChildLost,
           loop
  <1>2. ASSUME NEW w \in Workers, Worker(w) \/ HandlerUses(w) \/ HandlerConnects(w)
        PROVE  UNCHANGED epc \/ epc'[c] # "test"
    <2>1. CASE SetupThread(w)
      <3>1. running[w].c \in Conns
        BY <2>1, UnitFacts DEF IInv, SetupThread, Runs
      <3>2. CASE running[w].c = c
        BY <1>0, <2>1, <3>2 DEF SetupThread, Unit
      <3>3. CASE running[w].c # c
        BY <1>0, <2>1, <3>1, <3>3 DEF SetupThread, Unit
      <3> QED
        BY <3>2, <3>3
    <2>2. CASE ~SetupThread(w)
      BY <1>2, <2>2 DEF Worker, Take, SetupInsert, Register, Deregister, HandlerConnected,
         HandlerReturns, HandlerUses, HandlerConnects, loop
    <2> QED
      BY <2>1, <2>2
  <1>3. ASSUME NEW d \in Conns, EventThread(d)
        PROVE  CascadeDisconnect(c) \/ epc'[c] # "test"
    <2>1. CASE d # c
      BY <1>0, <1>3, <2>1 DEF EventThread, EofCallback, OnRead, Timer, Eof, EofBegin,
         CascadeTest,
CascadeDeref, CascadeDisconnect, CascadeEnds, EofFree, ExitLoop, StaleTimer, Advance, loop
    <2>2. CASE d = c
      BY <1>0, <1>3, <2>2 DEF EventThread, EofCallback, OnRead, Timer, Eof, EofBegin,
         CascadeTest,
         CascadeDeref, CascadeEnds, EofFree, StaleTimer, loop
    <2> QED
      BY <2>1, <2>2
  <1> QED
    BY <1>1, <1>2, <1>3 DEF Next

\* dynpm_disconnect_from_server is called by the cascade of c only for an entry
\* whose parent is c, or an earlier connection at c's address that closed with a
\* handler outstanding, as long as the entry is the one that was compared.
THEOREM CascadesDropTheirOwn == Spec => CascadeOnlyOwn
  <1> DEFINE Own(c) ==
        epc[c] = "drop" /\ epc'[c] = "test" =>
          LET k == server_connections[index] IN
          k # NULL /\ k = look =>
              \/ parent[k] = c
              \/ at[parent[k]] = at[c] /\ parent[k] \notin settled
  <1>1. ASSUME IInv, [Next]_vars PROVE [\A c \in Conns : Own(c)]_vars
    <2>1. ASSUME Next, NEW c \in Conns, epc[c] = "drop", epc'[c] = "test",
                 look # NULL, server_connections[index] = look, parent[look] # c
          PROVE  at[parent[look]] = at[c] /\ parent[look] \notin settled
      <3> DEFINE d == parent[look]
      <3>1. at[d] = at[c] /\ registration_mutex = c /\ c \in live
        BY <1>1, <2>1 DEF IInv, DropInv, EofInv, Next
      <3>2. d \in Conns
        BY <1>1, <2>1 DEF IInv, ChildInv, TypeOK
      <3>3. d \notin live
        BY <1>1, <2>1, <3>1, <3>2 DEF IInv, AddrInv
      <3>4. ASSUME d \in settled PROVE FALSE
        <4>1. epc[d] \notin {"test", "deref", "drop", "free"}
          BY <1>1, <2>1, <3>1, <3>2 DEF IInv, EofInv
        <4>2. epc[d] \in {"stale", "ended"}
          BY <1>1, <3>2, <3>4, <4>1 DEF IInv, SettledInv, TypeOK
        <4>3. index \in Indexes
          BY <1>1, <2>1, Numbers DEF IInv, EofInv
        <4> QED
          BY <1>1, <2>1, <3>4, <4>2, <4>3 DEF IInv, CascadeInv, NoChild
      <3> QED
        BY <3>1, <3>4
    <2> QED
      BY <1>1, <2>1
  <1>2. IInv /\ [Next]_vars => [\A c \in Conns : Own(c)]_vars
    BY <1>1
  <1>3. []IInv /\ [][Next]_vars => [][\A c \in Conns : Own(c)]_vars
    BY <1>2, PTL
  <1> QED
    BY Invariance, <1>3, PTL DEF Spec, CascadeOnlyOwn
=============================================================================
