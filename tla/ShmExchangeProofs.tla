------------------------- MODULE ShmExchangeProofs -------------------------
(***************************************************************************)
(* Proofs about the payload exchange for every number of processes, every  *)
(* payload size and every width of the counters.                           *)
(***************************************************************************)
EXTENDS ShmExchange, TLAPS

\* The counters are a ring of at least two values.
LEMMA Ring ==
    ASSUME NEW n \in Counts
    PROVE  /\ Inc(n) \in Counts /\ Dec(n) \in Counts
           /\ Inc(Dec(n)) = n /\ Dec(Inc(n)) = n
           /\ Dec(n) # n /\ Inc(n) # n
  BY ShmAssumption DEF Counts, Inc, Dec

-----------------------------------------------------------------------------
(* The inductive invariant. *)

\* The manager: how far a poll has come, that a store has found every process
\* ready, and how far the published block is behind the private one.
ManagerInv ==
    /\ mpc # "idle" => msg \in Messages
    /\ mpc = "poll" => /\ poll.ready <= poll.i - 1
                       /\ poll.ready = poll.i - 1 =>
                            \A p \in Procs : p < poll.i => shm_proc[p] = mgr.write_count
    /\ mpc = "store" => \A p \in Procs : shm_proc[p] = mgr.write_count
    /\ mpc # "publish" => mtodo = {}
    /\ shm_mgr.write_count = IF "write_count" \in mtodo THEN Dec(mgr.write_count)
                                                        ELSE mgr.write_count
    /\ "write_count" \in mtodo => \A p \in Procs : shm_proc[p] # mgr.write_count
                                                  /\ ppc[p] \notin {"copy", "ack"}
    /\ "payload_bytes" \notin mtodo => shm_mgr.payload_bytes = mgr.payload_bytes

\* A process p: its acknowledged count is the manager's or one behind, the
\* payload area holds the message it is behind by, and the write_count it has
\* fetched is its own count or one that has really been published.
ProcessInv(p) ==
    /\ shm_proc[p] \in {mgr.write_count, Dec(mgr.write_count)}
    /\ unread[p] = IF shm_proc[p] = mgr.write_count THEN <<>> ELSE <<shm_payload>>
    /\ shm_proc[p] # mgr.write_count => shm_payload \in Messages
    /\ read_count[p] = IF ppc[p] = "ack" THEN Inc(shm_proc[p]) ELSE shm_proc[p]
    /\ ppc[p] \in {"copy", "ack"} => shm_proc[p] # mgr.write_count
    /\ ppc[p] = "ack" => buf[p].content = shm_payload
    /\ ppc[p] = "fetch" /\ "write_count" \notin ptodo[p] =>
         \/ pmgr[p].write_count = shm_proc[p]
         \/ pmgr[p].write_count = mgr.write_count /\ "write_count" \notin mtodo
    /\ ppc[p] # "missed"

\* The length a process p copies by: a fetch that overlaps no publication finds
\* the length of the message in the payload area, and the area keeps that
\* message until p has acknowledged it.
LengthInv(p) ==
    /\ shm_proc[p] # mgr.write_count => shm_payload = mgr.payload_bytes
    /\ ppc[p] = "fetch" /\ ~overlapped[p] => mpc # "publish"
    /\ ppc[p] = "fetch" /\ ~overlapped[p] /\ "payload_bytes" \notin ptodo[p] =>
         pmgr[p].payload_bytes = mgr.payload_bytes
    /\ ppc[p] = "copy" /\ ~overlapped[p] => pmgr[p].payload_bytes = mgr.payload_bytes
    /\ ppc[p] = "ack" => buf[p].torn \/ buf[p].bytes = shm_payload

IInv ==
    /\ TypeOK
    /\ ManagerInv
    /\ \A p \in Procs : ProcessInv(p)
    /\ \A p \in Procs : LengthInv(p)

-----------------------------------------------------------------------------
(* Copying a block one word at a time. *)

\* Overwriting one word of a block by the same word of another gives a block.
LEMMA CopyWord ==
    ASSUME NEW a \in Blocks, NEW b \in Blocks, NEW k \in Words
    PROVE  /\ [a EXCEPT ![k] = b[k]] \in Blocks
           /\ k = "payload_bytes" => [a EXCEPT ![k] = b[k]].payload_bytes = b.payload_bytes
           /\ k # "payload_bytes" => [a EXCEPT ![k] = b[k]].payload_bytes = a.payload_bytes
           /\ k = "write_count" => [a EXCEPT ![k] = b[k]].write_count = b.write_count
           /\ k # "write_count" => [a EXCEPT ![k] = b[k]].write_count = a.write_count
  <1>1. CASE k = "write_count"
    BY <1>1 DEF Blocks, Words
  <1>2. CASE k = "payload_bytes"
    BY <1>2 DEF Blocks, Words
  <1> QED
    BY <1>1, <1>2 DEF Words

\* A poll that counts every process ready has found every process ready.
LEMMA ReadyMeansRead ==
    ASSUME IInv, AllReady
    PROVE  \A p \in Procs : shm_proc[p] = mgr.write_count
  <1>1. poll.ready = ProcessCount /\ poll.i > ProcessCount /\ poll.i \in 1..(ProcessCount + 1)
    BY DEF AllReady, IInv, TypeOK
  <1>2. poll.ready = poll.i - 1 /\ \A p \in Procs : p < poll.i
    BY <1>1, ShmAssumption DEF Procs
  <1> QED
    BY <1>2 DEF AllReady, IInv, ManagerInv

-----------------------------------------------------------------------------
(* Every step preserves each part of it. *)

\* A step keeps every variable in its type.
LEMMA TypeStep ==
    IInv /\ [Next]_vars => TypeOK'
  <1> SUFFICES ASSUME IInv, [Next]_vars
               PROVE  TypeOK'
    OBVIOUS
  <1>0. TypeOK /\ ManagerInv
    BY DEF IInv
  <1> USE ShmAssumption DEF mvars, pvars
  <1>1. ASSUME NEW m \in Messages, WriteCall(m)
        PROVE  TypeOK'
    BY <1>0, <1>1 DEF WriteCall, TypeOK, PollStart
  <1>2. CASE PollProcess
    <2>1. poll' \in [i : 1..(ProcessCount + 1), ready : 0..ProcessCount]
      BY <1>0, <1>2 DEF PollProcess, TypeOK, ManagerInv
    <2> QED
      BY <1>0, <1>2, <2>1 DEF PollProcess, TypeOK
  <1>3. CASE NotReady
    BY <1>0, <1>3 DEF NotReady, TypeOK, PollStart
  <1>4. CASE AllReady
    BY <1>0, <1>4 DEF AllReady, TypeOK, PollStart
  <1>5. CASE StorePayload
    <2>1. msg \in Messages
      BY <1>0, <1>5 DEF StorePayload, ManagerInv
    <2>2. mgr' \in Blocks
      BY <1>0, <1>5, <2>1, Ring DEF StorePayload, TypeOK, Blocks
    <2>3. unread' \in [Procs -> Seq(Messages)]
      BY <1>0, <1>5, <2>1 DEF StorePayload, TypeOK
    <2> QED
      BY <1>0, <1>5, <2>1, <2>2, <2>3 DEF StorePayload, TypeOK
  <1>6. ASSUME NEW k \in Words, PublishWord(k)
        PROVE  TypeOK'
    <2>1. shm_mgr' \in Blocks
      BY <1>0, <1>6, CopyWord DEF PublishWord, TypeOK
    <2> QED
      BY <1>0, <1>6, <2>1 DEF PublishWord, TypeOK
  <1>7. ASSUME NEW p \in Procs, Process(p)
        PROVE  TypeOK'
    <2>1. CASE ReadCall(p)
      BY <1>0, <2>1 DEF ReadCall, TypeOK
    <2>2. ASSUME NEW k \in Words, FetchWord(p, k)
          PROVE  TypeOK'
      <3>1. [pmgr[p] EXCEPT ![k] = shm_mgr[k]] \in Blocks
        BY <1>0, CopyWord DEF TypeOK
      <3>2. pmgr' \in [Procs -> Blocks]
        BY <1>0, <2>2, <3>1 DEF FetchWord, TypeOK
      <3> QED
        BY <1>0, <2>2, <3>2 DEF FetchWord, TypeOK
    <2>3. CASE Decide(p)
      BY <1>0, <2>3 DEF Decide, TypeOK
    <2>4. CASE CopyPayload(p)
      <3>1. Inc(read_count[p]) \in Counts
        BY <1>0, Ring DEF TypeOK
      <3>2. [content |-> shm_payload, bytes |-> pmgr[p].payload_bytes,
             torn |-> overlapped[p]] \in Copies
        BY <1>0 DEF TypeOK, Blocks, Copies
      <3> QED
        BY <1>0, <2>4, <3>1, <3>2 DEF CopyPayload, TypeOK
    <2>5. CASE PublishAck(p)
      <3>1. Tail(unread[p]) \in Seq(Messages)
        <4>1. unread[p] \in Seq(Messages) /\ unread[p] # <<>>
          <5>1. unread[p] = <<shm_payload>>
            BY <2>5 DEF IInv, ProcessInv, PublishAck
          <5>2. unread[p] \in Seq(Messages)
            BY <1>0 DEF TypeOK
          <5>3. Len(<<shm_payload>>) = 1 /\ Len(<<>>) = 0
            OBVIOUS
          <5> QED
            BY <5>1, <5>2, <5>3
        <4> QED
          BY <4>1
      <3> QED
        BY <1>0, <2>5, <3>1 DEF PublishAck, TypeOK
    <2> QED
      BY <1>7, <2>1, <2>2, <2>3, <2>4, <2>5 DEF Process
  <1>8. CASE UNCHANGED vars
    BY <1>0, <1>8 DEF vars, TypeOK
  <1> QED
    BY <1>1, <1>2, <1>3, <1>4, <1>5, <1>6, <1>7, <1>8 DEF Next, Manager

\* A step keeps what is known about the manager.
LEMMA ManagerStep ==
    IInv /\ [Next]_vars => ManagerInv'
  <1> SUFFICES ASSUME IInv, [Next]_vars
               PROVE  ManagerInv'
    OBVIOUS
  <1>0. TypeOK /\ ManagerInv /\ \A p \in Procs : ProcessInv(p)
    BY DEF IInv
  <1>a. mgr.write_count \in Counts /\ shm_mgr.write_count \in Counts
    BY <1>0 DEF TypeOK, Blocks
  <1> USE ShmAssumption DEF mvars, pvars
  <1>1. ASSUME NEW m \in Messages, WriteCall(m)
        PROVE  ManagerInv'
    BY <1>0, <1>1 DEF WriteCall, TypeOK, ManagerInv, Procs, PollStart
  <1>2. CASE PollProcess
    <2>1. poll.i \in Procs /\ poll'.i = poll.i + 1
      BY <1>0, <1>2 DEF PollProcess, TypeOK, Procs
    <2>2. CASE shm_proc[poll.i] = mgr.write_count
      <3>1. poll'.ready = poll.ready + 1
        BY <1>2, <2>2 DEF PollProcess
      <3> QED
        BY <1>0, <1>2, <2>1, <2>2, <3>1 DEF PollProcess, TypeOK, ManagerInv, Procs
    <2>3. CASE shm_proc[poll.i] # mgr.write_count
      <3>1. poll'.ready = poll.ready
        BY <1>2, <2>3 DEF PollProcess
      <3> QED
        BY <1>0, <1>2, <2>1, <3>1 DEF PollProcess, TypeOK, ManagerInv, Procs
    <2> QED
      BY <2>2, <2>3
  <1>3. CASE NotReady
    BY <1>0, <1>3 DEF NotReady, ManagerInv
  <1>4. CASE AllReady
    <2>1. \A p \in Procs : shm_proc[p] = mgr.write_count
      BY <1>4, ReadyMeansRead
    <2> QED
      BY <1>0, <1>4, <2>1 DEF AllReady, ManagerInv
  <1>5. CASE StorePayload
    <2>1. /\ mgr'.write_count = Inc(mgr.write_count)
          /\ mtodo' = Words /\ mpc' = "publish"
          /\ UNCHANGED <<shm_mgr, msg, shm_proc, ppc>>
      BY <1>5 DEF StorePayload
    <2>2. /\ \A p \in Procs : shm_proc[p] = mgr.write_count
          /\ mtodo = {} /\ msg \in Messages
          /\ shm_mgr.write_count = mgr.write_count
      BY <1>0, <1>5 DEF StorePayload, ManagerInv
    <2>3. \A p \in Procs : ppc[p] \notin {"copy", "ack"}
      BY <1>0, <2>2 DEF ProcessInv
    <2>4. mgr'.write_count # mgr.write_count /\ Dec(mgr'.write_count) = mgr.write_count
      BY <1>a, <2>1, Ring
    <2> QED
      BY <2>1, <2>2, <2>3, <2>4 DEF ManagerInv, Words
  <1>6. ASSUME NEW k \in Words, PublishWord(k)
        PROVE  ManagerInv'
    <2>1. /\ shm_mgr'.write_count = IF k = "write_count" THEN mgr.write_count
                                                         ELSE shm_mgr.write_count
          /\ shm_mgr'.payload_bytes = IF k = "payload_bytes" THEN mgr.payload_bytes
                                                             ELSE shm_mgr.payload_bytes
      <3>1. shm_mgr \in Blocks /\ mgr \in Blocks
        BY <1>0 DEF TypeOK
      <3>2. shm_mgr' = [shm_mgr EXCEPT ![k] = mgr[k]]
        BY <1>6 DEF PublishWord
      <3> QED
        BY <3>1, <3>2, CopyWord
    <2>2. mpc = "publish" /\ mpc' \in {"idle", "publish"} /\ k \in mtodo
          /\ mtodo' = mtodo \ {k} /\ (mpc' = "idle" => mtodo' = {})
          /\ UNCHANGED <<mgr, msg, shm_proc, ppc>>
      BY <1>6 DEF PublishWord
    <2> QED
      BY <1>0, <2>1, <2>2 DEF ManagerInv
  <1>7. ASSUME NEW p \in Procs, Process(p)
        PROVE  ManagerInv'
    <2>1. CASE ReadCall(p)
      BY <1>0, <2>1 DEF ReadCall, TypeOK, ManagerInv
    <2>2. ASSUME NEW k \in Words, FetchWord(p, k)
          PROVE  ManagerInv'
      BY <1>0, <2>2 DEF FetchWord, ManagerInv
    <2>3. CASE Decide(p)
      <3>1. "write_count" \in mtodo => read_count[p] = pmgr[p].write_count
        BY <1>0, <2>3 DEF Decide, ProcessInv
      <3> QED
        BY <1>0, <2>3, <3>1 DEF Decide, TypeOK, ManagerInv
    <2>4. CASE CopyPayload(p)
      BY <1>0, <2>4 DEF CopyPayload, TypeOK, ManagerInv
    <2>5. CASE PublishAck(p)
      <3>1. shm_proc[p] # mgr.write_count /\ "write_count" \notin mtodo /\ mpc # "store"
        BY <1>0, <2>5 DEF PublishAck, ManagerInv, ProcessInv
      <3>2. read_count[p] = mgr.write_count
        BY <1>0, <1>a, <2>5, <3>1, Ring DEF PublishAck, ProcessInv
      <3>3. \A q \in Procs : shm_proc'[q] = IF q = p THEN mgr.write_count ELSE shm_proc[q]
        BY <1>0, <2>5, <3>2 DEF PublishAck, TypeOK
      <3> QED
        BY <1>0, <2>5, <3>1, <3>3 DEF PublishAck, ManagerInv
    <2> QED
      BY <1>7, <2>1, <2>2, <2>3, <2>4, <2>5 DEF Process
  <1>8. CASE UNCHANGED vars
    BY <1>0, <1>8 DEF vars, ManagerInv
  <1> QED
    BY <1>1, <1>2, <1>3, <1>4, <1>5, <1>6, <1>7, <1>8 DEF Next, Manager

\* A step keeps what is known about a process q, its own and other steps.
LEMMA ProcessStep ==
    ASSUME IInv, [Next]_vars, NEW q \in Procs
    PROVE  ProcessInv(q)'
  <1>0. TypeOK /\ ManagerInv /\ ProcessInv(q)
    BY DEF IInv
  <1>a. mgr.write_count \in Counts /\ shm_proc[q] \in Counts
    BY <1>0 DEF TypeOK, Blocks
  <1> USE DEF mvars, pvars
  <1>1. ASSUME NEW m \in Messages, WriteCall(m)
        PROVE  ProcessInv(q)'
    BY <1>0, <1>1 DEF WriteCall, ProcessInv
  <1>2. CASE PollProcess \/ NotReady
    BY <1>0, <1>2 DEF PollProcess, NotReady, ProcessInv
  <1>4. CASE AllReady
    <2>1. shm_proc[q] = mgr.write_count
      BY <1>4, ReadyMeansRead
    <2> QED
      BY <1>0, <1>4, <2>1 DEF AllReady, ProcessInv
  <1>5. CASE StorePayload
    <2>1. /\ mgr'.write_count = Inc(mgr.write_count)
          /\ shm_payload' = msg /\ msg \in Messages
          /\ unread' = [p \in Procs |-> Append(unread[p], msg)]
          /\ UNCHANGED <<shm_proc, ppc, read_count, pmgr, ptodo, buf>>
          /\ shm_proc[q] = mgr.write_count
      BY <1>0, <1>5 DEF StorePayload, ManagerInv
    <2>2. unread'[q] = <<msg>>
      <3>1. unread[q] = <<>>
        BY <1>0, <2>1 DEF ProcessInv
      <3>2. unread'[q] = Append(<<>>, msg)
        BY <2>1, <3>1
      <3> QED
        BY <3>2
    <2>3. mgr'.write_count # shm_proc[q] /\ Dec(mgr'.write_count) = shm_proc[q]
      BY <1>a, <2>1, Ring
    <2> QED
      BY <1>0, <2>1, <2>2, <2>3 DEF ProcessInv
  <1>6. ASSUME NEW k \in Words, PublishWord(k)
        PROVE  ProcessInv(q)'
    BY <1>0, <1>6 DEF PublishWord, ProcessInv
  <1>7. ASSUME NEW p \in Procs, Process(p)
        PROVE  ProcessInv(q)'
    <2>0. CASE p # q
      <3>1. /\ shm_proc'[q] = shm_proc[q] /\ ppc'[q] = ppc[q]
            /\ read_count'[q] = read_count[q] /\ pmgr'[q] = pmgr[q]
            /\ ptodo'[q] = ptodo[q] /\ buf'[q] = buf[q] /\ unread'[q] = unread[q]
            /\ UNCHANGED <<shm_payload, mgr, mtodo>>
        BY <1>0, <1>7, <2>0
        DEF Process, ReadCall, FetchWord, Decide, CopyPayload, PublishAck, TypeOK
      <3> QED
        BY <1>0, <3>1 DEF ProcessInv
    <2>1. CASE p = q /\ ReadCall(p)
      BY <1>0, <2>1 DEF ReadCall, TypeOK, ProcessInv, Words
    <2>2. ASSUME p = q, NEW k \in Words, FetchWord(p, k)
          PROVE  ProcessInv(q)'
      <3>1. /\ ppc[q] = "fetch"
            /\ pmgr'[q] = [pmgr[q] EXCEPT ![k] = shm_mgr[k]]
            /\ ptodo'[q] = ptodo[q] \ {k}
            /\ UNCHANGED <<shm_payload, mgr, mtodo, shm_proc, ppc, read_count, buf, unread>>
        BY <1>0, <2>2 DEF FetchWord, TypeOK
      <3>2. pmgr[q] \in Blocks /\ shm_mgr \in Blocks
        BY <1>0 DEF TypeOK
      <3>3. pmgr'[q].write_count = IF k = "write_count" THEN shm_mgr.write_count
                                                        ELSE pmgr[q].write_count
        BY <3>1, <3>2, CopyWord
      <3>4. \/ shm_mgr.write_count = shm_proc[q]
            \/ shm_mgr.write_count = mgr.write_count /\ "write_count" \notin mtodo
        BY <1>0 DEF ManagerInv, ProcessInv
      <3> QED
        BY <1>0, <3>1, <3>3, <3>4 DEF ProcessInv
    <2>3. CASE p = q /\ Decide(p)
      <3>1. /\ ppc[q] = "fetch" /\ ptodo[q] = {} /\ read_count[q] = shm_proc[q]
            /\ pmgr[q].write_count \in {shm_proc[q], mgr.write_count}
        BY <1>0, <2>3 DEF Decide, ProcessInv
      <3>2. \/ ppc'[q] = "idle"
            \/ ppc'[q] = "copy" /\ shm_proc[q] # mgr.write_count
        BY <1>0, <2>3, <3>1 DEF Decide, TypeOK, ProcessInv
      <3> QED
        BY <1>0, <2>3, <3>1, <3>2 DEF Decide, ProcessInv
    <2>4. CASE p = q /\ CopyPayload(p)
      BY <1>0, <2>4 DEF CopyPayload, TypeOK, ProcessInv
    <2>5. CASE p = q /\ PublishAck(p)
      <3>1. /\ shm_proc[q] = Dec(mgr.write_count)
            /\ shm_proc[q] # mgr.write_count
            /\ read_count[q] = Inc(shm_proc[q])
            /\ unread[q] = <<shm_payload>>
        BY <1>0, <2>5 DEF PublishAck, ProcessInv
      <3>2. read_count[q] = mgr.write_count
        BY <1>a, <3>1, Ring
      <3>3. /\ shm_proc'[q] = mgr.write_count /\ ppc'[q] = "idle"
            /\ unread'[q] = Tail(unread[q])
            /\ UNCHANGED <<shm_payload, mgr, mtodo, read_count, pmgr, ptodo, buf>>
        BY <1>0, <2>5, <3>2 DEF PublishAck, TypeOK
      <3>4. unread'[q] = <<>>
        BY <3>1, <3>3
      <3> QED
        BY <3>2, <3>3, <3>4 DEF ProcessInv
    <2> QED
      BY <1>7, <2>0, <2>1, <2>2, <2>3, <2>4, <2>5 DEF Process
  <1>8. CASE UNCHANGED vars
    BY <1>0, <1>8 DEF vars, ProcessInv
  <1> QED
    BY <1>1, <1>2, <1>4, <1>5, <1>6, <1>7, <1>8 DEF Next, Manager

\* A step keeps what is known about the length a process q copies by.
LEMMA LengthStep ==
    ASSUME IInv, [Next]_vars, NEW q \in Procs
    PROVE  LengthInv(q)'
  <1>0. TypeOK /\ ManagerInv /\ ProcessInv(q) /\ LengthInv(q)
    BY DEF IInv
  <1>b. overlapped[q] \in BOOLEAN
    BY <1>0 DEF TypeOK
  <1> USE DEF mvars, pvars
  <1>1. ASSUME NEW m \in Messages, WriteCall(m)
        PROVE  LengthInv(q)'
    BY <1>0, <1>1 DEF WriteCall, LengthInv
  <1>2. CASE PollProcess \/ NotReady
    BY <1>0, <1>2 DEF PollProcess, NotReady, LengthInv
  <1>4. CASE AllReady
    <2>1. shm_proc[q] = mgr.write_count
      BY <1>4, ReadyMeansRead
    <2>2. ppc[q] # "ack"
      BY <1>0, <2>1 DEF ProcessInv
    <2> QED
      BY <1>0, <1>4, <2>1, <2>2 DEF AllReady, LengthInv
  <1>5. CASE StorePayload
    <2>1. /\ mgr'.payload_bytes = msg /\ shm_payload' = msg /\ mpc' = "publish"
          /\ UNCHANGED <<shm_proc, ppc, pmgr, ptodo, buf>>
          /\ shm_proc[q] = mgr.write_count
          /\ ppc[q] = "fetch" => overlapped'[q]
      BY <1>0, <1>5 DEF StorePayload, ManagerInv
    <2>2. ppc[q] \notin {"copy", "ack"}
      BY <1>0, <2>1 DEF ProcessInv
    <2> QED
      BY <2>1, <2>2 DEF LengthInv
  <1>6. ASSUME NEW k \in Words, PublishWord(k)
        PROVE  LengthInv(q)'
    BY <1>0, <1>6 DEF PublishWord, LengthInv
  <1>7. ASSUME NEW p \in Procs, Process(p)
        PROVE  LengthInv(q)'
    <2>0. CASE p # q
      <3>1. /\ shm_proc'[q] = shm_proc[q] /\ ppc'[q] = ppc[q]
            /\ pmgr'[q] = pmgr[q] /\ ptodo'[q] = ptodo[q] /\ buf'[q] = buf[q]
            /\ overlapped'[q] = overlapped[q]
            /\ UNCHANGED <<shm_payload, mgr, mpc>>
        BY <1>0, <1>7, <2>0
        DEF Process, ReadCall, FetchWord, Decide, CopyPayload, PublishAck, TypeOK
      <3> QED
        BY <1>0, <3>1 DEF LengthInv
    <2>1. CASE p = q /\ ReadCall(p)
      <3>1. /\ ppc'[q] = "fetch" /\ ptodo'[q] = Words
            /\ overlapped'[q] = (mpc = "publish")
            /\ UNCHANGED <<shm_payload, mgr, mpc, shm_proc, pmgr, buf>>
        BY <1>0, <2>1 DEF ReadCall, TypeOK
      <3> QED
        BY <1>0, <3>1 DEF LengthInv, Words
    <2>2. ASSUME p = q, NEW k \in Words, FetchWord(p, k)
          PROVE  LengthInv(q)'
      <3>1. /\ ppc[q] = "fetch"
            /\ pmgr'[q] = [pmgr[q] EXCEPT ![k] = shm_mgr[k]]
            /\ ptodo'[q] = ptodo[q] \ {k}
            /\ UNCHANGED <<shm_payload, mgr, mpc, mtodo, shm_proc, ppc, buf, overlapped>>
        BY <1>0, <2>2 DEF FetchWord, TypeOK
      <3>2. pmgr[q] \in Blocks /\ shm_mgr \in Blocks
        BY <1>0 DEF TypeOK
      <3>3. pmgr'[q].payload_bytes = IF k = "payload_bytes" THEN shm_mgr.payload_bytes
                                                            ELSE pmgr[q].payload_bytes
        BY <3>1, <3>2, CopyWord
      <3>4. ~overlapped[q] => shm_mgr.payload_bytes = mgr.payload_bytes
        BY <1>0, <3>1 DEF ManagerInv, LengthInv
      <3> QED
        BY <1>0, <3>1, <3>3, <3>4 DEF LengthInv
    <2>3. CASE p = q /\ Decide(p)
      <3>1. /\ ppc[q] = "fetch" /\ ptodo[q] = {} /\ ppc'[q] \in {"idle", "copy", "missed"}
            /\ ppc'[q] = "copy" => overlapped'[q] = overlapped[q]
            /\ UNCHANGED <<shm_payload, mgr, mpc, shm_proc, pmgr, buf>>
        <4>1. /\ ppc[q] = "fetch" /\ ptodo[q] = {} /\ ppc'[q] \in {"idle", "copy", "missed"}
              /\ UNCHANGED <<shm_payload, mgr, mpc, shm_proc, pmgr, buf>>
          BY <1>0, <2>3 DEF Decide, TypeOK
        <4>2. overlapped'[q] = (overlapped[q] /\ ppc'[q] = "copy")
          BY <1>0, <2>3 DEF Decide, TypeOK
        <4> QED
          BY <1>b, <4>1, <4>2
      <3> QED
        BY <1>0, <3>1 DEF LengthInv
    <2>4. CASE p = q /\ CopyPayload(p)
      <3>1. /\ ppc[q] = "copy" /\ ppc'[q] = "ack"
            /\ buf'[q].torn = overlapped[q] /\ buf'[q].bytes = pmgr[q].payload_bytes
            /\ UNCHANGED <<shm_payload, mgr, mpc, shm_proc>>
        BY <1>0, <2>4 DEF CopyPayload, TypeOK
      <3>2. shm_proc[q] # mgr.write_count
        BY <1>0, <3>1 DEF ProcessInv
      <3>3. overlapped[q] \/ pmgr[q].payload_bytes = shm_payload
        BY <1>0, <3>1, <3>2 DEF LengthInv
      <3> QED
        BY <1>0, <3>1, <3>2, <3>3 DEF LengthInv
    <2>5. CASE p = q /\ PublishAck(p)
      <3>1. /\ shm_proc[q] # mgr.write_count /\ ppc'[q] = "idle"
            /\ UNCHANGED <<shm_payload, mgr>>
        BY <1>0, <2>5 DEF PublishAck, ProcessInv, TypeOK
      <3> QED
        BY <1>0, <3>1 DEF LengthInv
    <2> QED
      BY <1>7, <2>0, <2>1, <2>2, <2>3, <2>4, <2>5 DEF Process
  <1>8. CASE UNCHANGED vars
    BY <1>0, <1>8 DEF vars, LengthInv
  <1> QED
    BY <1>1, <1>2, <1>4, <1>5, <1>6, <1>7, <1>8 DEF Next, Manager

-----------------------------------------------------------------------------
(* The theorems. *)

\* IInv is an invariant of the exchange.
THEOREM Invariance == Spec => []IInv
  <1>1. Init => IInv
    <2> SUFFICES ASSUME Init PROVE IInv
      OBVIOUS
    <2> USE ShmAssumption DEF Init, Procs, Counts
    <2>1. 0 \in Counts /\ 1 \in 1..(ProcessCount + 1) /\ 0 \in 0..ProcessCount
      OBVIOUS
    <2>2. TypeOK
      BY <2>1 DEF TypeOK, Blocks, Copies, Torn, PollStart
    <2>3. ManagerInv
      BY DEF ManagerInv
    <2>4. \A p \in Procs : ProcessInv(p)
      BY DEF ProcessInv
    <2>5. \A p \in Procs : LengthInv(p)
      BY DEF LengthInv
    <2> QED
      BY <2>2, <2>3, <2>4, <2>5 DEF IInv
  <1>2. IInv /\ [Next]_vars => IInv'
    BY TypeStep, ManagerStep, ProcessStep, LengthStep DEF IInv, Procs
  <1> QED
    BY <1>1, <1>2, PTL DEF Spec

\* Every variable keeps its type, through every wrap-around of the counters.
THEOREM TypeCorrect == Spec => []TypeOK
  <1>1. IInv => TypeOK
    BY DEF IInv
  <1> QED
    BY <1>1, Invariance, PTL

\* The "missed message" branch of process_read is dead code.
THEOREM NothingMissed == Spec => []NeverMissed
  <1>1. IInv => NeverMissed
    BY DEF IInv, ProcessInv, NeverMissed
  <1> QED
    BY <1>1, Invariance, PTL

\* The manager stores a payload only when nobody needs the previous one.
THEOREM StoreIsExclusive == Spec => []NoOverwrite
  <1>1. IInv => NoOverwrite
    BY DEF IInv, ManagerInv, ProcessInv, NoOverwrite
  <1> QED
    BY <1>1, Invariance, PTL

\* Every process returns every message once and in order, and all of it unless
\* its fetch of the control block overlapped the publication.
THEOREM OrderedDelivery == Spec => []ReadsInOrder
  <1>1. IInv => ReadsInOrder
    <2> SUFFICES ASSUME IInv, NEW p \in Procs, ppc[p] = "ack"
                 PROVE  /\ unread[p] # <<>> /\ buf[p].content = Head(unread[p])
                        /\ buf[p].torn \/ buf[p].bytes = Head(unread[p])
      BY DEF ReadsInOrder
    <2>1. unread[p] = <<shm_payload>> /\ buf[p].content = shm_payload
      BY DEF IInv, ProcessInv
    <2>2. buf[p].torn \/ buf[p].bytes = shm_payload
      BY DEF IInv, LengthInv
    <2> QED
      BY <2>1, <2>2
  <1> QED
    BY <1>1, Invariance, PTL

\* The two counters account exactly for the messages still to be returned.
THEOREM CountersAreExact == Spec => []CountersAgree
  <1>1. IInv => CountersAgree
    <2> SUFFICES ASSUME IInv, NEW p \in Procs
                 PROVE  /\ Len(unread[p]) = IF shm_proc[p] = mgr.write_count THEN 0 ELSE 1
                        /\ shm_proc[p] \in {mgr.write_count, Dec(mgr.write_count)}
      BY DEF CountersAgree
    <2>1. /\ shm_proc[p] \in {mgr.write_count, Dec(mgr.write_count)}
          /\ unread[p] = IF shm_proc[p] = mgr.write_count THEN <<>> ELSE <<shm_payload>>
      BY DEF IInv, ProcessInv
    <2> QED
      BY <2>1
  <1> QED
    BY <1>1, Invariance, PTL

-----------------------------------------------------------------------------
(* The abstract slot. *)

\* What the mapping says a process has still to take.
SlotOf(p) ==
    IF shm_proc[p] = mgr.write_count \/ ppc[p] = "ack" THEN Torn ELSE shm_payload

\* The steps by which messages enter and leave the slot: the store of a payload
\* and the copy of a process.
LEMMA SlotSteps ==
    ASSUME IInv
    PROVE  /\ StorePayload => \E m \in Messages : Slot!Put(m)
           /\ \A p \in Procs : CopyPayload(p) => Slot!Get(p)
  <1>1. ASSUME StorePayload PROVE \E m \in Messages : Slot!Put(m)
    <2>1. \A p \in Procs : shm_proc[p] = mgr.write_count /\ ppc[p] # "ack"
      BY <1>1 DEF StorePayload, IInv, ManagerInv, ProcessInv
    <2>2. /\ shm_payload' = msg /\ mgr'.write_count = Inc(mgr.write_count)
          /\ UNCHANGED <<shm_proc, ppc, buf>>
      BY <1>1 DEF StorePayload, pvars
    <2>3. Inc(mgr.write_count) # mgr.write_count
      BY Ring DEF IInv, TypeOK, Blocks
    <2>4. msg \in Messages
      BY <1>1 DEF StorePayload, IInv, ManagerInv
    <2> QED
      BY <2>1, <2>2, <2>3, <2>4 DEF Slot!Put
  <1>2. ASSUME NEW p \in Procs, CopyPayload(p) PROVE Slot!Get(p)
    <2>1. shm_proc[p] # mgr.write_count /\ ppc[p] = "copy" /\ shm_payload \in Messages
      BY <1>2 DEF CopyPayload, IInv, ProcessInv
    <2>2. shm_payload # Torn
      BY <2>1 DEF Messages, Torn
    <2>3. DOMAIN ppc = Procs /\ DOMAIN buf = Procs
      BY DEF IInv, TypeOK
    <2>4. /\ ppc' = [ppc EXCEPT ![p] = "ack"] /\ UNCHANGED <<shm_payload, mgr, shm_proc>>
          /\ buf' = [buf EXCEPT ![p] = [content |-> shm_payload,
                                        bytes |-> pmgr[p].payload_bytes,
                                        torn |-> overlapped[p]]]
      BY <1>2 DEF CopyPayload, mvars
    <2>5. /\ pmgr[p].payload_bytes \in Messages \cup {Torn} /\ overlapped[p] \in BOOLEAN
          /\ overlapped[p] \/ pmgr[p].payload_bytes = shm_payload
      <3>1. pmgr[p].payload_bytes \in Messages \cup {Torn} /\ overlapped[p] \in BOOLEAN
        BY DEF IInv, TypeOK, Blocks, Torn
      <3>2. overlapped[p] \/ pmgr[p].payload_bytes = shm_payload
        BY <2>1 DEF IInv, LengthInv
      <3> QED
        BY <3>1, <3>2
    <2>6. SlotOf(p) = shm_payload /\ SlotOf(p)' = Torn
      BY <2>1, <2>3, <2>4 DEF SlotOf
    <2>7. \A q \in Procs : q # p => SlotOf(q)' = SlotOf(q)
      BY <2>3, <2>4 DEF SlotOf
    <2>8. \E n \in Messages \cup {Torn}, t \in BOOLEAN :
            /\ t \/ n = shm_payload
            /\ buf' = [buf EXCEPT ![p] = Slot!Took(shm_payload, n, t)]
      BY <2>4, <2>5 DEF Slot!Took
    <2> QED
      BY <2>2, <2>6, <2>7, <2>8 DEF Slot!Get, SlotOf
  <1> QED
    BY <1>1, <1>2

\* Polls, the words of a block and acknowledgements are invisible; so is the
\* moment from which the payload area is overwritten, because nobody has a
\* message left in it.
LEMMA SlotStutters ==
    ASSUME IInv,
           \/ UNCHANGED vars
           \/ \E m \in Messages : WriteCall(m)
           \/ PollProcess \/ NotReady \/ AllReady
           \/ \E k \in Words : PublishWord(k)
           \/ \E p \in Procs : \/ ReadCall(p) \/ Decide(p) \/ PublishAck(p)
                               \/ \E k \in Words : FetchWord(p, k)
    PROVE  UNCHANGED buf /\ \A p \in Procs : SlotOf(p)' = SlotOf(p)
  <1> USE DEF SlotOf
  <1>1. CASE UNCHANGED vars
    BY <1>1 DEF vars, mvars, pvars
  <1>2. CASE \/ \E m \in Messages : WriteCall(m)
             \/ PollProcess \/ NotReady
             \/ \E k \in Words : PublishWord(k)
    BY <1>2 DEF WriteCall, PollProcess, NotReady, PublishWord, pvars
  <1>3. CASE AllReady
    <2>1. \A p \in Procs : shm_proc[p] = mgr.write_count
      BY <1>3, ReadyMeansRead
    <2> QED
      BY <1>3, <2>1 DEF AllReady, pvars
  <1>4. ASSUME NEW p \in Procs,
               ReadCall(p) \/ Decide(p) \/ PublishAck(p) \/ \E k \in Words : FetchWord(p, k)
        PROVE  UNCHANGED buf /\ \A q \in Procs : SlotOf(q)' = SlotOf(q)
    <2>1. DOMAIN ppc = Procs /\ DOMAIN shm_proc = Procs
      BY DEF IInv, TypeOK
    <2>2. CASE ReadCall(p) \/ Decide(p)
      BY <2>1, <2>2 DEF ReadCall, Decide, mvars
    <2>3. CASE PublishAck(p)
      <3>1. read_count[p] = mgr.write_count /\ ppc[p] = "ack"
        BY <2>3, Ring DEF PublishAck, IInv, ProcessInv, TypeOK, Blocks
      <3> QED
        BY <2>1, <2>3, <3>1 DEF PublishAck, mvars
    <2>4. CASE \E k \in Words : FetchWord(p, k)
      BY <2>4 DEF FetchWord, mvars
    <2> QED
      BY <1>4, <2>2, <2>3, <2>4
  <1> QED
    BY <1>1, <1>2, <1>3, <1>4

\* Counters, polls and blocks copied word by word implement the abstract slot
\* of module ShmSlot, for every number of processes and every counter width.
THEOREM SlotIsImplemented == Spec => ImplementsSlot
  <1>1. Init => Slot!Init
    BY DEF Init, Slot!Init, Slot!Took, Torn
  <1>2. IInv /\ [Next]_vars =>
          [Slot!Next]_<<[p \in Procs |-> SlotOf(p)], buf>>
    <2> SUFFICES ASSUME IInv, [Next]_vars
                 PROVE  \/ Slot!Next
                        \/ UNCHANGED buf /\ \A p \in Procs : SlotOf(p)' = SlotOf(p)
      OBVIOUS
    <2>1. CASE StorePayload
      BY <2>1, SlotSteps DEF Slot!Next
    <2>2. CASE \E p \in Procs : CopyPayload(p)
      BY <2>2, SlotSteps DEF Slot!Next
    <2>3. \/ StorePayload \/ \E p \in Procs : CopyPayload(p)
          \/ UNCHANGED vars
          \/ \E m \in Messages : WriteCall(m)
          \/ PollProcess \/ NotReady \/ AllReady
          \/ \E k \in Words : PublishWord(k)
          \/ \E p \in Procs : \/ ReadCall(p) \/ Decide(p) \/ PublishAck(p)
                              \/ \E k \in Words : FetchWord(p, k)
      BY DEF Next, Manager, Process
    <2> QED
      BY <2>1, <2>2, <2>3, SlotStutters
  <1> QED
    BY <1>1, <1>2, Invariance, PTL DEF Spec, ImplementsSlot, Slot!Spec, SlotOf
=============================================================================
