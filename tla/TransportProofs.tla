-------------------------- MODULE TransportProofs --------------------------
(* Proofs about the way of a message over a connection: from the server's   *)
(* outgoing queue to the client's handler, for every number of senders and  *)
(* messages; from the clients to the server's handler, for every number of  *)
(* connections and every way TCP cuts the stream; both for every size of a  *)
(* message.  And about what a message says, from its serializer to its      *)
(* deserializer.                                                            *)
EXTENDS Channel, Framing, Protocol, WellFoundedInduction, TLAPS

-----------------------------------------------------------------------------
(* The outgoing queue and the reception by the client *)

\* The messages that were not linked behind one that was being removed
Kept == linked \ overtaken

\* Only the holder of messages_mutex is enqueueing; its message is not linked
\* yet, the message its walk has come to is.
SenderInv ==
    \A s \in Senders :
        /\ spc[s] # "idle" => messages_mutex = s /\ allocated >= 1 /\ allocated \notin linked
        /\ spc[s] = "walk" => tail \in linked

\* Next pointers lead to linked messages, and from linked messages only.
LinkInv ==
    /\ linked \subseteq 1..allocated
    /\ overtaken \subseteq linked
    /\ \A m \in Msgs : /\ next[m] # NULL => next[m] \in linked
                       /\ m \notin linked => next[m] = NULL

\* Kept messages are written in the order in which they were sent.
WrittenInv ==
    /\ \A n \in DOMAIN written : written[n] \in Kept
    /\ \A n, o \in DOMAIN written : n < o => written[n] < written[o]

\* messages_head divides the kept messages: those before it are written, those
\* behind it are not, and it is written while it is being removed.
HeadInv ==
    /\ messages_head = NULL => dpc = "idle" /\ \A m \in Kept : IsWritten(m)
    /\ messages_head # NULL =>
         /\ messages_head \in Kept
         /\ IsWritten(messages_head) <=> dpc \in {"advance", "store"}
         /\ \A m \in Kept : /\ m < messages_head => IsWritten(m)
                            /\ m > messages_head => ~IsWritten(m)

\* From messages_head on each kept message points to the next kept one; only the
\* last, while it is being removed, may point to an overtaken one.
ChainInv ==
    messages_head # NULL =>
        \A m \in Kept : m >= messages_head =>
            \/ /\ next[m] \in Kept /\ next[m] > m
               /\ \A k \in Kept : k <= m \/ k >= next[m]
            \/ /\ \A k \in Kept : k <= m
               /\ next[m] = NULL \/ (dpc = "store" /\ m = messages_head /\ dnext = NULL)

\* What the event thread has read of the head's next pointer is still there,
\* unless it was NULL.
StoreInv ==
    dpc = "store" =>
        \/ dnext = NULL /\ \A k \in Kept : k <= messages_head
        \/ dnext \in Kept /\ dnext = next[messages_head]

QueueInv ==
    /\ TypeOK
    /\ SenderInv
    /\ LinkInv
    /\ WrittenInv
    /\ HeadInv
    /\ ChainInv
    /\ StoreInv

\* The client has handled what was written, from the beginning on, and a
\* second message on its way means that the writer has not waited for it.
ClientInv ==
    /\ handled \in Seq(Msgs) /\ {exited, split, outrun} \subseteq BOOLEAN
    /\ Len(handled) <= Len(written)
    /\ \A n \in DOMAIN handled : handled[n] = written[n]
    /\ Len(written) - Len(handled) >= 2 => outrun
    /\ exited => split \/ outrun

-----------------------------------------------------------------------------
(* The queue's steps *)

\* A sender gets messages_mutex.
LEMMA SendBeginKeeps ==
    ASSUME QueueInv, NEW s \in Senders, SendBegin(s)
    PROVE  QueueInv'
  <1> USE QueueAssumption
  <1>1. TypeOK'
    BY DEF SendBegin, list, svars, dvars, QueueInv, TypeOK, HeadInv, StoreInv, Kept, SenderInv, LinkInv, Msgs, NULL
  <1>2. SenderInv'
    BY DEF SendBegin, list, svars, dvars, QueueInv, TypeOK, SenderInv, LinkInv
  <1>3. LinkInv'
    BY DEF SendBegin, list, svars, dvars, QueueInv, TypeOK, LinkInv, SenderInv, Kept, Msgs, NULL
  <1>4. WrittenInv'
    BY DEF SendBegin, list, svars, dvars, QueueInv, TypeOK, WrittenInv, LinkInv, SenderInv, Kept, Msgs
  <1>5. HeadInv'
    BY DEF SendBegin, list, svars, dvars, QueueInv, TypeOK, HeadInv, LinkInv, SenderInv, WrittenInv, StoreInv, Kept, IsWritten, Msgs, NULL
  <1>6. ChainInv'
    BY DEF SendBegin, list, svars, dvars, QueueInv, TypeOK, ChainInv, LinkInv, SenderInv, HeadInv, StoreInv, Kept, Msgs, NULL
  <1>7. StoreInv'
    BY DEF SendBegin, list, svars, dvars, QueueInv, TypeOK, StoreInv, ChainInv, LinkInv, SenderInv, HeadInv, Kept, Msgs, NULL
  <1> QED
    BY <1>1, <1>2, <1>3, <1>4, <1>5, <1>6, <1>7 DEF QueueInv

\* A sender keeps messages_mutex.
LEMMA SendRejectedKeeps ==
    ASSUME QueueInv, NEW s \in Senders, SendRejected(s)
    PROVE  QueueInv'
  <1> USE QueueAssumption
  <1>1. TypeOK'
    BY DEF SendRejected, list, svars, dvars, QueueInv, TypeOK, HeadInv, StoreInv, Kept, SenderInv, LinkInv, Msgs, NULL
  <1>2. SenderInv'
    BY DEF SendRejected, list, svars, dvars, QueueInv, TypeOK, SenderInv, LinkInv
  <1>3. LinkInv'
    BY DEF SendRejected, list, svars, dvars, QueueInv, TypeOK, LinkInv, SenderInv, Kept, Msgs, NULL
  <1>4. WrittenInv'
    BY DEF SendRejected, list, svars, dvars, QueueInv, TypeOK, WrittenInv, LinkInv, SenderInv, Kept, Msgs
  <1>5. HeadInv'
    BY DEF SendRejected, list, svars, dvars, QueueInv, TypeOK, HeadInv, LinkInv, SenderInv, WrittenInv, StoreInv, Kept, IsWritten, Msgs, NULL
  <1>6. ChainInv'
    BY DEF SendRejected, list, svars, dvars, QueueInv, TypeOK, ChainInv, LinkInv, SenderInv, HeadInv, StoreInv, Kept, Msgs, NULL
  <1>7. StoreInv'
    BY DEF SendRejected, list, svars, dvars, QueueInv, TypeOK, StoreInv, ChainInv, LinkInv, SenderInv, HeadInv, Kept, Msgs, NULL
  <1> QED
    BY <1>1, <1>2, <1>3, <1>4, <1>5, <1>6, <1>7 DEF QueueInv

\* A message becomes the head: all before it are written.
LEMMA EnqueueEmptyKeeps ==
    ASSUME QueueInv, NEW s \in Senders, EnqueueEmpty(s)
    PROVE  QueueInv'
  <1> USE QueueAssumption
  <1>1. TypeOK'
    BY DEF EnqueueEmpty, list, svars, dvars, QueueInv, TypeOK, HeadInv, StoreInv, Kept, SenderInv, LinkInv, Msgs, NULL
  <1>2. SenderInv'
    BY DEF EnqueueEmpty, list, svars, dvars, QueueInv, TypeOK, SenderInv, LinkInv
  <1>3. LinkInv'
    BY DEF EnqueueEmpty, list, svars, dvars, QueueInv, TypeOK, LinkInv, SenderInv, Kept, Msgs, NULL
  <1>4. WrittenInv'
    BY DEF EnqueueEmpty, list, svars, dvars, QueueInv, TypeOK, WrittenInv, LinkInv, SenderInv, Kept, Msgs
  <1>5. HeadInv'
    BY DEF EnqueueEmpty, list, svars, dvars, QueueInv, TypeOK, HeadInv, LinkInv, SenderInv, WrittenInv, StoreInv, Kept, IsWritten, Msgs, NULL
  <1>6. ChainInv'
    BY DEF EnqueueEmpty, list, svars, dvars, QueueInv, TypeOK, ChainInv, LinkInv, SenderInv, HeadInv, StoreInv, Kept, Msgs, NULL
  <1>7. StoreInv'
    BY DEF EnqueueEmpty, list, svars, dvars, QueueInv, TypeOK, StoreInv, ChainInv, LinkInv, SenderInv, HeadInv, Kept, Msgs, NULL
  <1> QED
    BY <1>1, <1>2, <1>3, <1>4, <1>5, <1>6, <1>7 DEF QueueInv

\* The walk begins at the head, which is linked.
LEMMA EnqueueBehindKeeps ==
    ASSUME QueueInv, NEW s \in Senders, EnqueueBehind(s)
    PROVE  QueueInv'
  <1> USE QueueAssumption
  <1>1. TypeOK'
    BY DEF EnqueueBehind, list, svars, dvars, QueueInv, TypeOK, HeadInv, StoreInv, Kept, SenderInv, LinkInv, Msgs, NULL
  <1>2. SenderInv'
    <2>1. messages_head \in linked /\ messages_mutex = s /\ tail' = messages_head
      BY DEF EnqueueBehind, QueueInv, HeadInv, Kept, SenderInv
    <2>2. \A r \in Senders : r # s => spc'[r] = "idle"
      BY <2>1 DEF EnqueueBehind, QueueInv, TypeOK, SenderInv
    <2>3. allocated >= 1 /\ allocated \notin linked
      BY DEF EnqueueBehind, QueueInv, SenderInv
    <2> QED
      BY <2>1, <2>2, <2>3 DEF EnqueueBehind, SenderInv
  <1>3. LinkInv'
    BY DEF EnqueueBehind, list, svars, dvars, QueueInv, TypeOK, LinkInv, SenderInv, Kept, Msgs, NULL
  <1>4. WrittenInv'
    BY DEF EnqueueBehind, list, svars, dvars, QueueInv, TypeOK, WrittenInv, LinkInv, SenderInv, Kept, Msgs
  <1>5. HeadInv'
    BY DEF EnqueueBehind, list, svars, dvars, QueueInv, TypeOK, HeadInv, LinkInv, SenderInv, WrittenInv, StoreInv, Kept, IsWritten, Msgs, NULL
  <1>6. ChainInv'
    BY DEF EnqueueBehind, list, svars, dvars, QueueInv, TypeOK, ChainInv, LinkInv, SenderInv, HeadInv, StoreInv, Kept, Msgs, NULL
  <1>7. StoreInv'
    BY DEF EnqueueBehind, list, svars, dvars, QueueInv, TypeOK, StoreInv, ChainInv, LinkInv, SenderInv, HeadInv, Kept, Msgs, NULL
  <1> QED
    BY <1>1, <1>2, <1>3, <1>4, <1>5, <1>6, <1>7 DEF QueueInv

\* The walk follows a next pointer, which leads to a linked message.
LEMMA WalkOnKeeps ==
    ASSUME QueueInv, NEW s \in Senders, WalkOn(s)
    PROVE  QueueInv'
  <1> USE QueueAssumption
  <1>1. TypeOK'
    BY DEF WalkOn, list, svars, dvars, QueueInv, TypeOK, HeadInv, StoreInv, Kept, SenderInv, LinkInv, Msgs, NULL
  <1>2. SenderInv'
    BY DEF WalkOn, list, svars, dvars, QueueInv, TypeOK, SenderInv, LinkInv
  <1>3. LinkInv'
    BY DEF WalkOn, list, svars, dvars, QueueInv, TypeOK, LinkInv, SenderInv, Kept, Msgs, NULL
  <1>4. WrittenInv'
    BY DEF WalkOn, list, svars, dvars, QueueInv, TypeOK, WrittenInv, LinkInv, SenderInv, Kept, Msgs
  <1>5. HeadInv'
    BY DEF WalkOn, list, svars, dvars, QueueInv, TypeOK, HeadInv, LinkInv, SenderInv, WrittenInv, StoreInv, Kept, IsWritten, Msgs, NULL
  <1>6. ChainInv'
    BY DEF WalkOn, list, svars, dvars, QueueInv, TypeOK, ChainInv, LinkInv, SenderInv, HeadInv, StoreInv, Kept, Msgs, NULL
  <1>7. StoreInv'
    BY DEF WalkOn, list, svars, dvars, QueueInv, TypeOK, StoreInv, ChainInv, LinkInv, SenderInv, HeadInv, Kept, Msgs, NULL
  <1> QED
    BY <1>1, <1>2, <1>3, <1>4, <1>5, <1>6, <1>7 DEF QueueInv

\* A message is linked: behind the last kept one, or overtaken.
LEMMA LinkKeeps ==
    ASSUME QueueInv, NEW s \in Senders, Link(s)
    PROVE  QueueInv'
  <1> USE QueueAssumption
  <1> DEFINE a == allocated
  <1>1. /\ tail \in linked /\ next[tail] = NULL /\ a \in Msgs /\ a \notin linked
        /\ next' = [next EXCEPT ![tail] = a]
        /\ linked' = linked \cup {a}
        /\ UNCHANGED <<messages_head, dpc, dnext, written>>
    BY DEF Link, dvars, QueueInv, SenderInv, TypeOK, Msgs
  <1>2. /\ Kept \subseteq Nat \ {0} /\ a \in Nat \ {0}
        /\ \A k \in Kept : k < a
    BY <1>1 DEF QueueInv, LinkInv, TypeOK, Kept, Msgs
  <1>3. ~IsWritten(a) /\ \A m : IsWritten(m)' <=> IsWritten(m)
    BY <1>1 DEF QueueInv, WrittenInv, TypeOK, Kept, IsWritten
  <1>4. a \notin overtaken /\ next[a] = NULL
    BY <1>1 DEF QueueInv, LinkInv
  <1>5. TypeOK'
    BY <1>1 DEF Link, dvars, QueueInv, TypeOK
  <1>6. SenderInv'
    BY DEF Link, QueueInv, TypeOK, SenderInv
  <1>7. LinkInv'
    BY DEF Link, QueueInv, TypeOK, LinkInv, SenderInv, Msgs, NULL
  <1>8. WrittenInv'
    BY DEF Link, dvars, QueueInv, LinkInv, WrittenInv, SenderInv, Kept
  <1> HIDE DEF a
  <1>9. CASE Leaving(tail)
    <2>1. Kept' = Kept
      BY <1>1, <1>9 DEF Link, Kept, a
    <2>2. HeadInv'
      BY <1>1, <1>3, <2>1 DEF QueueInv, HeadInv
    <2>3. ASSUME messages_head # NULL, tail \in Kept, tail >= messages_head
          PROVE  dpc = "store" /\ tail = messages_head /\ dnext = NULL /\ \A k \in Kept : k <= tail
      <3>1. messages_head \in Kept /\ (tail > messages_head => ~IsWritten(tail))
        BY <2>3 DEF QueueInv, HeadInv
      <3>2. dpc = "store" /\ tail = messages_head
        BY <1>2, <1>9, <2>3, <3>1 DEF Leaving, IsWritten, Kept
      <3> QED
        BY <1>1, <1>2, <3>1, <3>2 DEF QueueInv, StoreInv, NULL
    <2>4. ChainInv'
      <3> SUFFICES ASSUME messages_head # NULL, NEW m \in Kept, m >= messages_head
                   PROVE  \/ /\ next'[m] \in Kept /\ next'[m] > m
                             /\ \A k \in Kept : k <= m \/ k >= next'[m]
                          \/ /\ \A k \in Kept : k <= m
                             /\ next'[m] = NULL \/ (dpc = "store" /\ m = messages_head /\ dnext = NULL)
        BY <1>1, <2>1 DEF ChainInv
      <3>1. CASE m = tail
        BY <2>3, <3>1
      <3>2. CASE m # tail
        <4>1. next'[m] = next[m]
          BY <1>1, <3>2 DEF QueueInv, TypeOK, Kept
        <4> QED
          BY <4>1 DEF QueueInv, ChainInv
      <3> QED
        BY <3>1, <3>2
    <2>5. StoreInv'
      <3> SUFFICES ASSUME dpc = "store"
                   PROVE  \/ dnext = NULL /\ \A k \in Kept : k <= messages_head
                          \/ dnext \in Kept /\ dnext = next'[messages_head]
        BY <1>1, <2>1 DEF StoreInv
      <3>1. CASE dnext \in Kept /\ dnext = next[messages_head]
        <4>1. messages_head # tail
          BY <1>1, <1>2, <3>1 DEF NULL
        <4>2. messages_head \in Msgs
          BY DEF QueueInv, HeadInv, TypeOK
        <4> QED
          BY <1>1, <3>1, <4>1, <4>2 DEF QueueInv, TypeOK
      <3>2. CASE dnext = NULL /\ \A k \in Kept : k <= messages_head
        BY <3>2
      <3> QED
        BY <3>1, <3>2 DEF QueueInv, StoreInv
    <2> QED
      BY <1>5, <1>6, <1>7, <1>8, <2>2, <2>4, <2>5 DEF QueueInv
  <1>10. CASE ~Leaving(tail)
    <2>1. Kept' = Kept \cup {a}
      BY <1>1, <1>4, <1>10 DEF Link, Kept, a
    <2>2. /\ tail \in Kept
          /\ IsWritten(tail) => messages_head = tail
          /\ ~(dpc = "store" /\ messages_head = tail)
      BY <1>1, <1>10 DEF Leaving, IsWritten, Kept
    <2>3. messages_head # NULL /\ messages_head \in Kept /\ tail >= messages_head
      <3>1. messages_head # NULL
        BY <1>2, <2>2 DEF QueueInv, HeadInv, NULL
      <3> QED
        <4>1. messages_head \in Kept /\ (tail < messages_head => IsWritten(tail))
          BY <2>2, <3>1 DEF QueueInv, HeadInv
        <4>2. messages_head \in Nat /\ tail \in Nat
          BY <1>2, <2>2, <4>1
        <4> QED
          BY <2>2, <3>1, <4>1, <4>2
    <2>4. \A k \in Kept : k <= tail
      BY <1>1, <1>2, <2>2, <2>3 DEF QueueInv, ChainInv, NULL
    <2>5. HeadInv'
      BY <1>1, <1>2, <1>3, <2>1, <2>3 DEF QueueInv, HeadInv
    <2>6. \A m \in Msgs : next'[m] = IF m = tail THEN a ELSE next[m]
      BY <1>1 DEF QueueInv, TypeOK
    <2>7. ChainInv'
      <3> SUFFICES ASSUME NEW m \in Kept', m >= messages_head
                   PROVE  \/ /\ next'[m] \in Kept' /\ next'[m] > m
                             /\ \A k \in Kept' : k <= m \/ k >= next'[m]
                          \/ /\ \A k \in Kept' : k <= m
                             /\ next'[m] = NULL \/ (dpc = "store" /\ m = messages_head /\ dnext = NULL)
        BY <1>1 DEF ChainInv
      <3>0. Kept \subseteq Msgs
        BY DEF QueueInv, TypeOK, Kept
      <3>1. CASE m = tail
        BY <1>2, <2>1, <2>2, <2>4, <2>6, <3>0, <3>1
      <3>2. CASE m = a
        BY <1>1, <1>2, <1>4, <2>1, <2>2, <2>6, <3>2
      <3>3. CASE m \in Kept /\ m # tail
        <4>1. next'[m] = next[m] /\ m < tail
          BY <1>2, <2>2, <2>4, <2>6, <3>0, <3>3
        <4>2. /\ next[m] \in Kept /\ next[m] > m
              /\ \A k \in Kept : k <= m \/ k >= next[m]
          BY <1>2, <2>2, <2>3, <3>3, <4>1 DEF QueueInv, ChainInv
        <4>3. next[m] \in Nat /\ a >= next[m]
          <5>1. next[m] \in Kept /\ a \in Nat
            BY <1>2, <4>2
          <5>2. next[m] \in Nat /\ next[m] < a
            BY <1>2, <5>1
          <5> QED
            BY <5>1, <5>2
        <4>4. next'[m] \in Kept' /\ next'[m] > m /\ \A k \in Kept' : k <= m \/ k >= next'[m]
          BY <2>1, <4>1, <4>2, <4>3
        <4> QED
          BY <4>4
      <3> QED
        BY <2>1, <3>1, <3>2, <3>3
    <2>8. StoreInv'
      <3> SUFFICES ASSUME dpc = "store" PROVE dnext \in Kept' /\ dnext = next'[messages_head]
        BY <1>1 DEF StoreInv
      <3>1. messages_head # tail
        BY <2>2
      <3>2. dnext \in Kept /\ dnext = next[messages_head]
        BY <1>2, <2>2, <2>3, <3>1 DEF QueueInv, StoreInv
      <3>3. messages_head \in Msgs
        BY <2>3 DEF QueueInv, TypeOK, Kept
      <3> QED
        BY <2>1, <2>6, <3>1, <3>2, <3>3
    <2> QED
      BY <1>5, <1>6, <1>7, <1>8, <2>5, <2>7, <2>8 DEF QueueInv
  <1> QED
    BY <1>9, <1>10

\* The event thread finds a head.
LEMMA SendProgressKeeps ==
    ASSUME QueueInv, SendProgress
    PROVE  QueueInv'
  <1> USE QueueAssumption
  <1>1. TypeOK'
    BY DEF SendProgress, list, svars, dvars, QueueInv, TypeOK, HeadInv, StoreInv, Kept, SenderInv, LinkInv, Msgs, NULL
  <1>2. SenderInv'
    BY DEF SendProgress, list, svars, dvars, QueueInv, TypeOK, SenderInv, LinkInv
  <1>3. LinkInv'
    BY DEF SendProgress, list, svars, dvars, QueueInv, TypeOK, LinkInv, SenderInv, Kept, Msgs, NULL
  <1>4. WrittenInv'
    BY DEF SendProgress, list, svars, dvars, QueueInv, TypeOK, WrittenInv, LinkInv, SenderInv, Kept, Msgs
  <1>5. HeadInv'
    BY DEF SendProgress, list, svars, dvars, QueueInv, TypeOK, HeadInv, LinkInv, SenderInv, WrittenInv, StoreInv, Kept, IsWritten, Msgs, NULL
  <1>6. ChainInv'
    BY DEF SendProgress, list, svars, dvars, QueueInv, TypeOK, ChainInv, LinkInv, SenderInv, HeadInv, StoreInv, Kept, Msgs, NULL
  <1>7. StoreInv'
    BY DEF SendProgress, list, svars, dvars, QueueInv, TypeOK, StoreInv, ChainInv, LinkInv, SenderInv, HeadInv, Kept, Msgs, NULL
  <1> QED
    BY <1>1, <1>2, <1>3, <1>4, <1>5, <1>6, <1>7 DEF QueueInv

\* The output has drained.
LEMMA OnWriteKeeps ==
    ASSUME QueueInv, OnWrite
    PROVE  QueueInv'
  <1> USE QueueAssumption
  <1>1. TypeOK'
    BY DEF OnWrite, list, svars, dvars, QueueInv, TypeOK, HeadInv, StoreInv, Kept, SenderInv, LinkInv, Msgs, NULL
  <1>2. SenderInv'
    BY DEF OnWrite, list, svars, dvars, QueueInv, TypeOK, SenderInv, LinkInv
  <1>3. LinkInv'
    BY DEF OnWrite, list, svars, dvars, QueueInv, TypeOK, LinkInv, SenderInv, Kept, Msgs, NULL
  <1>4. WrittenInv'
    BY DEF OnWrite, list, svars, dvars, QueueInv, TypeOK, WrittenInv, LinkInv, SenderInv, Kept, Msgs
  <1>5. HeadInv'
    BY DEF OnWrite, list, svars, dvars, QueueInv, TypeOK, HeadInv, LinkInv, SenderInv, WrittenInv, StoreInv, Kept, IsWritten, Msgs, NULL
  <1>6. ChainInv'
    BY DEF OnWrite, list, svars, dvars, QueueInv, TypeOK, ChainInv, LinkInv, SenderInv, HeadInv, StoreInv, Kept, Msgs, NULL
  <1>7. StoreInv'
    BY DEF OnWrite, list, svars, dvars, QueueInv, TypeOK, StoreInv, ChainInv, LinkInv, SenderInv, HeadInv, Kept, Msgs, NULL
  <1> QED
    BY <1>1, <1>2, <1>3, <1>4, <1>5, <1>6, <1>7 DEF QueueInv

\* The head is written.
LEMMA WriteKeeps ==
    ASSUME QueueInv, Write
    PROVE  QueueInv'
  <1> USE QueueAssumption
  <1>1. TypeOK'
    BY DEF Write, list, svars, dvars, QueueInv, TypeOK, HeadInv, StoreInv, Kept, SenderInv, LinkInv, Msgs, NULL
  <1>2. SenderInv'
    BY DEF Write, list, svars, dvars, QueueInv, TypeOK, SenderInv, LinkInv
  <1>3. LinkInv'
    BY DEF Write, list, svars, dvars, QueueInv, TypeOK, LinkInv, SenderInv, Kept, Msgs, NULL
  <1>4. WrittenInv'
    <2>1. /\ messages_head \in Kept /\ ~IsWritten(messages_head)
          /\ written' = Append(written, messages_head) /\ Kept' = Kept
      BY DEF Write, QueueInv, HeadInv, Kept, svars
    <2>2. /\ written \in Seq(Msgs) /\ messages_head \in Msgs
          /\ Len(written) \in Nat /\ DOMAIN written = 1..Len(written)
      BY <2>1 DEF QueueInv, TypeOK, Kept
    <2>3. ASSUME NEW n \in DOMAIN written PROVE written[n] < messages_head
      <3>1. IsWritten(written[n]) /\ written[n] \in Kept
        BY <2>2 DEF IsWritten, QueueInv, WrittenInv
      <3>2. written[n] # messages_head /\ ~(written[n] > messages_head)
        BY <2>1, <3>1 DEF QueueInv, HeadInv
      <3>3. written[n] \in Nat /\ messages_head \in Nat
        BY <2>2 DEF Msgs
      <3> QED
        BY <3>2, <3>3
    <2>4. /\ DOMAIN written' = 1..(Len(written) + 1)
          /\ \A n \in 1..(Len(written) + 1) :
               written'[n] = IF n = Len(written) + 1 THEN messages_head ELSE written[n]
      BY <2>1, <2>2
    <2>5. ASSUME NEW n \in DOMAIN written', NEW o \in DOMAIN written', n < o
          PROVE  written'[n] < written'[o]
      <3>1. n \in DOMAIN written
        BY <2>2, <2>4, <2>5
      <3>2. CASE o = Len(written) + 1
        BY <2>2, <2>3, <2>4, <3>1, <3>2
      <3>3. CASE o # Len(written) + 1
        BY <2>2, <2>4, <2>5, <3>1, <3>3 DEF QueueInv, WrittenInv
      <3> QED
        BY <3>2, <3>3
    <2> QED
      BY <2>1, <2>2, <2>4, <2>5 DEF QueueInv, WrittenInv
  <1>5. HeadInv'
    BY DEF Write, list, svars, dvars, QueueInv, TypeOK, HeadInv, LinkInv, SenderInv, WrittenInv, StoreInv, Kept, IsWritten, Msgs, NULL
  <1>6. ChainInv'
    BY DEF Write, list, svars, dvars, QueueInv, TypeOK, ChainInv, LinkInv, SenderInv, HeadInv, StoreInv, Kept, Msgs, NULL
  <1>7. StoreInv'
    BY DEF Write, list, svars, dvars, QueueInv, TypeOK, StoreInv, ChainInv, LinkInv, SenderInv, HeadInv, Kept, Msgs, NULL
  <1> QED
    BY <1>1, <1>2, <1>3, <1>4, <1>5, <1>6, <1>7 DEF QueueInv

\* The head's next pointer is read.
LEMMA ReadNextKeeps ==
    ASSUME QueueInv, ReadNext
    PROVE  QueueInv'
  <1> USE QueueAssumption
  <1>1. TypeOK'
    BY DEF ReadNext, list, svars, dvars, QueueInv, TypeOK, HeadInv, StoreInv, Kept, SenderInv, LinkInv, Msgs, NULL
  <1>2. SenderInv'
    BY DEF ReadNext, list, svars, dvars, QueueInv, TypeOK, SenderInv, LinkInv
  <1>3. LinkInv'
    BY DEF ReadNext, list, svars, dvars, QueueInv, TypeOK, LinkInv, SenderInv, Kept, Msgs, NULL
  <1>4. WrittenInv'
    BY DEF ReadNext, list, svars, dvars, QueueInv, TypeOK, WrittenInv, LinkInv, SenderInv, Kept, Msgs
  <1>5. HeadInv'
    BY DEF ReadNext, list, svars, dvars, QueueInv, TypeOK, HeadInv, LinkInv, SenderInv, WrittenInv, StoreInv, Kept, IsWritten, Msgs, NULL
  <1>6. ChainInv'
    BY DEF ReadNext, list, svars, dvars, QueueInv, TypeOK, ChainInv, LinkInv, SenderInv, HeadInv, StoreInv, Kept, Msgs, NULL
  <1>7. StoreInv'
    BY DEF ReadNext, list, svars, dvars, QueueInv, TypeOK, StoreInv, ChainInv, LinkInv, SenderInv, HeadInv, Kept, Msgs, NULL
  <1> QED
    BY <1>1, <1>2, <1>3, <1>4, <1>5, <1>6, <1>7 DEF QueueInv

\* What was read becomes the head: the next kept message, or none is left.
LEMMA AdvanceKeeps ==
    ASSUME QueueInv, Advance
    PROVE  QueueInv'
  <1> USE QueueAssumption
  <1>1. TypeOK'
    BY DEF Advance, list, svars, dvars, QueueInv, TypeOK, HeadInv, StoreInv, Kept, SenderInv, LinkInv, Msgs, NULL
  <1>2. SenderInv'
    BY DEF Advance, list, svars, dvars, QueueInv, TypeOK, SenderInv, LinkInv
  <1>3. LinkInv'
    BY DEF Advance, list, svars, dvars, QueueInv, TypeOK, LinkInv, SenderInv, Kept, Msgs, NULL
  <1>4. WrittenInv'
    BY DEF Advance, list, svars, dvars, QueueInv, TypeOK, WrittenInv, LinkInv, SenderInv, Kept, Msgs
  <1>5. HeadInv'
    <2>1. /\ dpc = "store" /\ dpc' = "idle" /\ messages_head' = dnext
          /\ Kept' = Kept /\ \A m : IsWritten(m)' <=> IsWritten(m)
      BY DEF Advance, Kept, IsWritten, svars
    <2>2. /\ messages_head \in Kept /\ messages_head # NULL /\ IsWritten(messages_head)
          /\ \A m \in Kept : /\ m < messages_head => IsWritten(m)
                             /\ m > messages_head => ~IsWritten(m)
      BY <2>1 DEF QueueInv, HeadInv
    <2>3. Kept \subseteq Nat \ {0}
      BY DEF QueueInv, TypeOK, Kept, Msgs
    <2>4. CASE dnext = NULL /\ \A k \in Kept : k <= messages_head
      <3>1. \A m \in Kept : m < messages_head \/ m = messages_head
        BY <2>2, <2>3, <2>4
      <3> QED
        BY <2>1, <2>2, <2>4, <3>1 DEF HeadInv
    <2>5. CASE dnext \in Kept /\ dnext = next[messages_head]
      <3>1. dnext > messages_head /\ \A k \in Kept : k <= messages_head \/ k >= dnext
        BY <2>2, <2>3, <2>5 DEF QueueInv, ChainInv, NULL
      <3>2. ~IsWritten(dnext)
        BY <2>2, <2>5, <3>1
      <3>3. ASSUME NEW m \in Kept
            PROVE  (m < dnext => IsWritten(m)) /\ (m > dnext => ~IsWritten(m))
        <4>1. m < dnext => m < messages_head \/ m = messages_head
          BY <2>2, <2>3, <2>5, <3>1
        <4>2. m > dnext => m > messages_head
          BY <2>2, <2>3, <2>5, <3>1
        <4> QED
          BY <2>2, <4>1, <4>2
      <3> QED
        BY <2>1, <2>3, <2>5, <3>2, <3>3 DEF HeadInv, NULL
    <2> QED
      BY <2>1, <2>4, <2>5 DEF QueueInv, StoreInv
  <1>6. ChainInv'
    BY DEF Advance, list, svars, dvars, QueueInv, TypeOK, ChainInv, LinkInv, SenderInv, HeadInv, StoreInv, Kept, Msgs, NULL
  <1>7. StoreInv'
    BY DEF Advance, list, svars, dvars, QueueInv, TypeOK, StoreInv, ChainInv, LinkInv, SenderInv, HeadInv, Kept, Msgs, NULL
  <1> QED
    BY <1>1, <1>2, <1>3, <1>4, <1>5, <1>6, <1>7 DEF QueueInv

\* Every step of the queue keeps the invariant.
LEMMA QueueStep == QueueInv /\ [Next]_vars => QueueInv'
  <1> SUFFICES ASSUME QueueInv, [Next]_vars PROVE QueueInv'
    OBVIOUS
  <1>1. CASE UNCHANGED vars
    BY <1>1 DEF vars, list, svars, dvars, QueueInv, TypeOK, SenderInv, LinkInv, WrittenInv,
                HeadInv, ChainInv, StoreInv, Kept, IsWritten
  <1>2. ASSUME NEW s \in Senders, SendBegin(s) \/ SendRejected(s) \/ Enqueue(s) PROVE QueueInv'
    BY <1>2, SendBeginKeeps, SendRejectedKeeps, EnqueueEmptyKeeps, EnqueueBehindKeeps,
       WalkOnKeeps, LinkKeeps DEF Enqueue
  <1>3. CASE EventThread
    BY <1>3, SendProgressKeeps, OnWriteKeeps, WriteKeeps, ReadNextKeeps, AdvanceKeeps DEF EventThread
  <1> QED
    BY <1>1, <1>2, <1>3 DEF Next

\* A new connection's queue is empty.
LEMMA QueueInit == Init => QueueInv
  <1> SUFFICES ASSUME Init PROVE QueueInv
    OBVIOUS
  <1>1. TypeOK
    <2>1. NULL \in Msgs \cup {NULL} /\ 0 \in 0..MaxMsgs /\ NoOne \in Senders \cup {NoOne}
      BY QueueAssumption
    <2>2. next \in [Msgs -> Msgs \cup {NULL}] /\ spc \in [Senders -> {"idle", "head", "walk"}]
      BY <2>1 DEF Init
    <2>3. written \in Seq(Msgs)
      BY DEF Init
    <2> QED
      BY <2>1, <2>2, <2>3 DEF Init, TypeOK
  <1>2. SenderInv /\ LinkInv /\ ChainInv /\ StoreInv
    BY DEF Init, SenderInv, LinkInv, ChainInv, StoreInv, NULL
  <1>3. WrittenInv /\ HeadInv
    BY DEF Init, WrittenInv, HeadInv, Kept, NULL
  <1> QED
    BY <1>1, <1>2, <1>3 DEF QueueInv
-----------------------------------------------------------------------------
(* What is lost *)

\* Every nonempty set of natural numbers has a least element.
LEMMA LeastNumber ==
    ASSUME NEW U \in SUBSET Nat, U # {}
    PROVE  \E x \in U : \A y \in U : x <= y
  <1> DEFINE R == {ss \in Nat \X Nat : ss[1] < ss[2]}
  <1>1. IsWellFoundedOn(R, Nat)
    BY NatLessThanWellFounded DEF OpToRel
  <1>2. PICK x \in U : \A y \in U : ~(<<y, x>> \in R)
    BY <1>1, WFMin
  <1>3. ASSUME NEW y \in U PROVE x <= y
    <2>1. <<y, x>> \in Nat \X Nat /\ <<y, x>>[1] = y /\ <<y, x>>[2] = x
      OBVIOUS
    <2> QED
      BY <1>2, <2>1
  <1> QED
    BY <1>3

\* A bounded one has a greatest.
LEMMA GreatestNumber ==
    ASSUME NEW b \in Nat, NEW U \in SUBSET (0..b), U # {}
    PROVE  \E x \in U : \A y \in U : y <= x
  <1> DEFINE V == {b - x : x \in U}
  <1>1. V \in SUBSET Nat /\ V # {}
    <2>1. \A x \in U : x \in 0..b /\ b - x \in Nat
      OBVIOUS
    <2>2. PICK x : x \in U
      OBVIOUS
    <2>3. b - x \in V
      BY <2>2
    <2>4. V \in SUBSET Nat
      BY <2>1
    <2> QED
      BY <2>3, <2>4
  <1>2. PICK u \in V : \A w \in V : u <= w
    <2> HIDE DEF V
    <2> QED
      BY <1>1, LeastNumber
  <1>3. PICK x \in U : u = b - x
    BY <1>2
  <1>4. ASSUME NEW y \in U PROVE y <= x
    <2>1. b - y \in V
      OBVIOUS
    <2>2. b - x <= b - y
      BY <1>2, <1>3, <2>1
    <2>3. x \in Nat /\ y \in Nat
      OBVIOUS
    <2> QED
      BY <2>2, <2>3
  <1> QED
    BY <1>4

\* A path of n messages from messages_head to m; its numbers ascend, so that it
\* is no longer than the number of m.
Path(m, p, n) ==
    /\ p \in [1..MaxMsgs -> Msgs] /\ n \in 1..MaxMsgs /\ n <= m
    /\ p[1] = messages_head /\ p[n] = m
    /\ \A k \in 1..(n - 1) : next[p[k]] = p[k + 1]

\* The kept messages from messages_head on are on the list.
LEMMA KeptReachable ==
    ASSUME QueueInv, NEW m \in Kept, messages_head # NULL, m >= messages_head
    PROVE  \E p, n : Path(m, p, n)
  <1> DEFINE Bad == {k \in Kept : k >= messages_head /\ ~\E p, n : Path(k, p, n)}
  <1>1. /\ Kept \subseteq Nat \ {0} /\ Kept \subseteq Msgs /\ MaxMsgs \in Nat
        /\ messages_head \in Kept
    BY QueueAssumption DEF QueueInv, HeadInv, TypeOK, Kept, Msgs
  <1>2. ASSUME Bad # {} PROVE FALSE
    <2>1. PICK k \in Bad : \A l \in Bad : k <= l
      <3>1. Bad \in SUBSET Nat
        BY <1>1
      <3> HIDE DEF Bad
      <3> QED
        BY <1>2, <3>1, LeastNumber
    <2>2. k \in Kept /\ k >= messages_head /\ ~\E p, n : Path(k, p, n)
      BY <2>1
    <2>3. k # messages_head
      <3> SUFFICES ASSUME k = messages_head PROVE Path(k, [x \in 1..MaxMsgs |-> k], 1)
        BY <2>2
      <3>1. k \in Msgs /\ 1 \in 1..MaxMsgs /\ 1 <= k /\ 1..(1 - 1) = {}
        BY <1>1, <2>2 DEF Msgs
      <3> QED
        BY <3>1 DEF Path
    <2> DEFINE Before == {l \in Kept : l < k}
    <2>4. PICK l \in Before : \A o \in Before : o <= l
      <3>1. messages_head \in Before /\ k \in Nat
        BY <1>1, <2>2, <2>3
      <3>2. Before \in SUBSET (0..k)
        <4>1. ASSUME NEW x \in Before PROVE x \in 0..k
          <5>1. x \in Nat /\ x < k
            BY <1>1
          <5> QED
            BY <3>1, <5>1
        <4> QED
          BY <4>1
      <3> HIDE DEF Before
      <3> QED
        BY <3>1, <3>2, GreatestNumber
    <2>5. l \in Kept /\ l < k /\ l >= messages_head /\ \A o \in Kept : o < k => o <= l
      BY <1>1, <2>2, <2>3, <2>4
    <2>6. next[l] = k
      <3>1. next[l] \in Kept /\ next[l] > l /\ \A o \in Kept : o <= l \/ o >= next[l]
        BY <1>1, <2>2, <2>5 DEF QueueInv, ChainInv
      <3> QED
        <4>1. k \in Nat /\ l \in Nat /\ next[l] \in Nat
          BY <1>1, <2>2, <2>5, <3>1
        <4>2. k <= l \/ k >= next[l]
          BY <2>2, <3>1
        <4>3. next[l] < k => next[l] <= l
          BY <2>5, <3>1
        <4> QED
          BY <2>5, <3>1, <4>1, <4>2, <4>3
    <2>7. PICK p, n : Path(l, p, n)
      <3>1. l \notin Bad
        BY <1>1, <2>1, <2>2, <2>5
      <3> QED
        BY <2>5, <3>1
    <2> DEFINE q == [p EXCEPT ![n + 1] = k]
    <2>8. /\ n \in Nat /\ n + 1 \in 1..MaxMsgs /\ n + 1 <= k /\ k \in Msgs
          /\ n \in 1..MaxMsgs
      BY <1>1, <2>2, <2>5, <2>7 DEF Path, Msgs
    <2>9. /\ q \in [1..MaxMsgs -> Msgs] /\ q[n + 1] = k
          /\ \A x \in 1..n : q[x] = p[x]
      BY <2>7, <2>8 DEF Path
    <2>10. ASSUME NEW x \in 1..n PROVE next[q[x]] = q[x + 1]
      <3>1. CASE x = n
        BY <2>6, <2>7, <2>8, <2>9, <3>1 DEF Path
      <3>2. CASE x # n
        <4>1. x \in 1..(n - 1) /\ x + 1 \in 1..n
          BY <2>8, <3>2
        <4> QED
          BY <2>7, <2>9, <4>1 DEF Path
      <3> QED
        BY <3>1, <3>2
    <2>11. q[1] = messages_head /\ 1..((n + 1) - 1) = 1..n
      BY <2>7, <2>8, <2>9 DEF Path
    <2> HIDE DEF q
    <2>12. Path(k, q, n + 1)
      BY <2>8, <2>9, <2>10, <2>11 DEF Path
    <2> QED
      BY <2>2, <2>12
  <1> QED
    BY <1>2

\* The type invariant of the queue.
THEOREM TypeCorrect == Spec => []TypeOK
  <1>1. QueueInv => TypeOK
    BY DEF QueueInv
  <1> QED
    BY <1>1, QueueInit, QueueStep, PTL DEF Spec

\* Senders and event thread do not exclude each other, and yet a message is
\* lost only if it was linked behind one that was being removed: for every
\* number of senders and messages.
THEOREM NothingElseIsLost == Spec => []OnlyOvertakenLost
  <1>1. QueueInv => OnlyOvertakenLost
    <2> SUFFICES ASSUME QueueInv, NEW m \in linked, m \notin overtaken, ~IsWritten(m)
                 PROVE  Reachable(m)
      BY DEF OnlyOvertakenLost
    <2>1. m \in Kept /\ messages_head # NULL /\ messages_head \in Kept
      BY DEF Kept, QueueInv, HeadInv
    <2>2. m >= messages_head
      <3>1. m \in Nat /\ messages_head \in Nat
        BY <2>1 DEF QueueInv, TypeOK, Kept, Msgs
      <3>2. ~(m < messages_head)
        BY <2>1 DEF QueueInv, HeadInv
      <3> QED
        BY <3>1, <3>2
    <2>3. PICK p, n : Path(m, p, n)
      BY <2>1, <2>2, KeptReachable
    <2> QED
      BY <2>3 DEF Path, Reachable
  <1> QED
    BY <1>1, QueueInit, QueueStep, PTL DEF Spec

-----------------------------------------------------------------------------
(* The client's side *)

\* Seen from the queue, a step of the channel is a step of the queue or none.
LEMMA ChannelStep == [ChannelNext]_<<vars, cvars>> => [Next]_vars
  BY DEF ChannelNext, Sending, Receiving, ClientOnRead

\* Reading leaves the queue alone.
THEOREM ReadingLeavesQueueAlone == ChannelSpec => Spec
  <1>1. ChannelInit => Init
    BY DEF ChannelInit
  <1> QED
    BY <1>1, ChannelStep, PTL DEF ChannelSpec, Spec

\* A step of the queue writes at most one message, behind the others.
LEMMA WritesOne ==
    ASSUME QueueInv, [Next]_vars
    PROVE  /\ Len(written') \in {Len(written), Len(written) + 1}
           /\ \A n \in DOMAIN written : n \in DOMAIN written' /\ written'[n] = written[n]
  <1>1. CASE Write
    <2>1. written \in Seq(Msgs) /\ messages_head \in Msgs /\ written' = Append(written, messages_head)
      BY <1>1 DEF Write, QueueInv, HeadInv, TypeOK, NULL
    <2> QED
      BY <2>1
  <1>2. CASE ~Write
    <2>1. written' = written
      BY <1>2 DEF Next, SendBegin, SendRejected, Enqueue, EnqueueEmpty, EnqueueBehind, WalkOn,
                  Link, EventThread, SendProgress, OnWrite, ReadNext, Advance, vars, dvars
    <2> QED
      BY <2>1
  <1> QED
    BY <1>1, <1>2

\* Every step of both sides keeps what ties the client to the queue.
LEMMA ClientStep ==
    QueueInv /\ ClientInv /\ [ChannelNext]_<<vars, cvars>> => ClientInv'
  <1> SUFFICES ASSUME QueueInv, ClientInv, [ChannelNext]_<<vars, cvars>> PROVE ClientInv'
    OBVIOUS
  <1>1. /\ handled \in Seq(Msgs) /\ written \in Seq(Msgs)
        /\ Len(handled) \in Nat /\ Len(written) \in Nat
        /\ DOMAIN handled = 1..Len(handled) /\ DOMAIN written = 1..Len(written)
    BY DEF QueueInv, TypeOK, ClientInv
  <1>2. CASE Sending
    <2>1. /\ [Next]_vars /\ UNCHANGED <<handled, exited, split>>
          /\ outrun' = (outrun \/ (Len(written') > Len(written) /\ InTransit > 0))
      BY <1>2 DEF Sending
    <2>2. /\ Len(written') \in {Len(written), Len(written) + 1}
          /\ \A n \in DOMAIN written : n \in DOMAIN written' /\ written'[n] = written[n]
      BY <2>1, WritesOne
    <2>3. Len(written) - Len(handled) = 1 => InTransit > 0
      BY SizeAssumption DEF InTransit
    <2>4. ASSUME Len(written') - Len(handled) >= 2 PROVE outrun'
      <3>1. CASE Len(written) - Len(handled) >= 2
        BY <2>1, <3>1 DEF ClientInv
      <3>2. CASE ~(Len(written) - Len(handled) >= 2)
        <4>1. Len(written) - Len(handled) = 1 /\ Len(written') > Len(written)
          <5>1. Len(written') = Len(written) \/ Len(written') = Len(written) + 1
            BY <2>2
          <5> DEFINE w == Len(written)
                     h == Len(handled)
                     x == Len(written')
          <5>2. w \in Nat /\ h \in Nat /\ (x = w \/ x = w + 1) /\ x - h >= 2 /\ ~(w - h >= 2)
            BY <1>1, <2>4, <3>2, <5>1
          <5> HIDE DEF w, h, x
          <5>3. w - h = 1 /\ x > w
            BY <5>2
          <5> QED
            BY <5>3 DEF w, h, x
        <4> QED
          BY <2>1, <2>3, <4>1
      <3> QED
        BY <3>1, <3>2
    <2>5. Len(handled) <= Len(written') /\ \A n \in DOMAIN handled : handled[n] = written'[n]
      BY <1>1, <2>2 DEF ClientInv
    <2>6. outrun' \in BOOLEAN /\ (outrun => outrun')
      BY <2>1 DEF ClientInv
    <2> QED
      BY <2>1, <2>4, <2>5, <2>6 DEF ClientInv
  <1>3. ASSUME NEW b \in 1..(Size * MaxMsgs), ClientOnRead(b) PROVE ClientInv'
    <2>1. /\ b <= Size * (Len(written) - Len(handled)) /\ b \in Nat \ {0} /\ Size \in Nat \ {0}
          /\ split' = (split \/ b % Size # 0) /\ outrun' = outrun /\ written' = written
      <3>1. Size * MaxMsgs \in Nat /\ Size \in Nat \ {0}
        BY QueueAssumption, SizeAssumption
      <3> QED
        BY <1>3, <3>1 DEF ClientOnRead, InTransit, vars, dvars
    <2>2. CASE b = Size
      <3>1. Len(handled) < Len(written) /\ b \div Size = 1
        BY <1>1, <2>1, <2>2, Z3
      <3>2. handled' = Append(handled, written[Len(handled) + 1]) /\ exited' = exited
        BY <1>3, <2>2, <3>1 DEF ClientOnRead, IsOneMessage
      <3>3. written[Len(handled) + 1] \in Msgs
        BY <1>1, <3>1
      <3>4. /\ handled' \in Seq(Msgs) /\ Len(handled') = Len(handled) + 1
            /\ \A n \in 1..(Len(handled) + 1) : handled'[n] = written[n]
        BY <1>1, <3>2, <3>3 DEF ClientInv
      <3>5. Len(handled') <= Len(written') /\ (Len(written') - Len(handled') >= 2 => outrun')
        BY <1>1, <2>1, <3>1, <3>4 DEF ClientInv
      <3>6. split' \in BOOLEAN /\ (split => split')
        BY <2>1 DEF ClientInv
      <3>7. DOMAIN handled' = 1..(Len(handled) + 1)
        BY <3>4
      <3> QED
        BY <2>1, <3>2, <3>4, <3>5, <3>6, <3>7 DEF ClientInv
    <2>3. CASE b # Size
      <3>1. exited' = TRUE /\ handled' = handled
        BY <1>3, <2>3 DEF ClientOnRead, IsOneMessage
      <3>2. b % Size = 0 => Len(written) - Len(handled) >= 2
        <4> DEFINE d == Len(written) - Len(handled)
        <4>1. d \in Int /\ b <= Size * d
          BY <1>1, <2>1
        <4> HIDE DEF d
        <4>2. ASSUME b % Size = 0, d <= 1 PROVE FALSE
          <5>1. Size * d <= Size
            BY <2>1, <4>1, <4>2, Z3
          <5>2. b < Size /\ b > 0
            <6>1. Size * d \in Int
              BY <2>1, <4>1
            <6> QED
              BY <2>1, <2>3, <4>1, <5>1, <6>1
          <5>3. b % Size = b
            BY <2>1, <5>2, Z3
          <5> QED
            BY <4>2, <5>2, <5>3
        <4>3. b % Size = 0 => d >= 2
          BY <4>1, <4>2
        <4> QED
          BY <4>3 DEF d
      <3>3. split' \/ outrun'
        BY <2>1, <3>2 DEF ClientInv
      <3>4. split' \in BOOLEAN
        BY <2>1 DEF ClientInv
      <3> QED
        BY <2>1, <3>1, <3>3, <3>4 DEF ClientInv
    <2> QED
      BY <2>2, <2>3
  <1>4. CASE UNCHANGED <<vars, cvars>>
    BY <1>4 DEF vars, dvars, cvars, ClientInv
  <1> QED
    BY <1>2, <1>3, <1>4 DEF ChannelNext, Receiving

\* The invariant of the whole channel.
LEMMA ChannelInvariant == ChannelSpec => [](QueueInv /\ ClientInv)
  <1>1. ChannelInit => QueueInv /\ ClientInv
    <2> SUFFICES ASSUME ChannelInit PROVE QueueInv /\ ClientInv
      OBVIOUS
    <2>1. QueueInv
      BY QueueInit DEF ChannelInit
    <2>2. handled = << >> /\ written = << >> /\ handled \in Seq(Msgs)
      BY DEF ChannelInit, Init
    <2>3. ClientInv
      <3>1. Len(handled) = 0 /\ Len(written) = 0 /\ DOMAIN handled = {}
        BY <2>2
      <3>2. {exited, split, outrun} \subseteq BOOLEAN /\ ~exited
        BY DEF ChannelInit
      <3>3. Len(handled) <= Len(written) /\ ~(Len(written) - Len(handled) >= 2)
        BY <3>1
      <3> QED
        BY <2>2, <3>1, <3>2, <3>3 DEF ClientInv
    <2> QED
      BY <2>1, <2>3
  <1> QED
    BY <1>1, ChannelStep, QueueStep, ClientStep, PTL DEF ChannelSpec

\* For every number of senders and messages and every size, the handler gets
\* each message at most once, in the order of the sends, and misses only what
\* was lost in the sender's queue.
THEOREM HandlerSeesOrder == ChannelSpec => []HandledInOrder
  <1>1. QueueInv /\ ClientInv => HandledInOrder
    <2> SUFFICES ASSUME QueueInv, ClientInv, NEW i \in DOMAIN handled, NEW m \in linked
                 PROVE  /\ m < handled[i] => m \in overtaken \/ \E j \in 1..(i - 1) : handled[j] = m
                        /\ \A j \in 1..(i - 1) : handled[j] # handled[i]
      BY DEF HandledInOrder
    <2>1. /\ DOMAIN handled = 1..Len(handled) /\ DOMAIN written = 1..Len(written)
          /\ Len(handled) \in Nat /\ Len(written) \in Nat /\ Len(handled) <= Len(written)
      BY DEF QueueInv, TypeOK, ClientInv
    <2>2. /\ i \in DOMAIN written /\ i \in Nat /\ handled[i] = written[i]
          /\ \A j \in 1..(i - 1) : j \in DOMAIN written /\ j < i /\ handled[j] = written[j]
      BY <2>1 DEF ClientInv
    <2>3. \A j \in DOMAIN written : written[j] \in Nat /\ written[j] \in Kept /\ j \in Nat
      <3>1. \A k \in Kept : k \in Nat
        BY QueueAssumption DEF QueueInv, TypeOK, Kept, Msgs
      <3> QED
        BY <2>1, <3>1 DEF QueueInv, WrittenInv
    <2>4. ASSUME NEW j \in 1..(i - 1) PROVE handled[j] # handled[i]
      <3>1. written[j] < written[i]
        BY <2>2 DEF QueueInv, WrittenInv
      <3> QED
        BY <2>2, <2>3, <3>1
    <2>5. ASSUME m < handled[i], m \notin overtaken
          PROVE  \E j \in 1..(i - 1) : handled[j] = m
      <3>1. m \in Kept /\ m \in Nat
        BY <2>5 DEF Kept, QueueInv, TypeOK, Msgs
      <3>2. IsWritten(m)
        <4>1. IsWritten(written[i])
          BY <2>1, <2>2 DEF IsWritten
        <4>2. CASE messages_head = NULL
          BY <3>1, <4>2 DEF QueueInv, HeadInv
        <4>3. CASE messages_head # NULL
          <5>1. ~(written[i] > messages_head) /\ messages_head \in Nat
            BY <2>2, <2>3, <4>1, <4>3 DEF QueueInv, HeadInv, TypeOK, Kept, Msgs
          <5>2. m < messages_head
            BY <2>2, <2>3, <2>5, <3>1, <5>1
          <5> QED
            BY <3>1, <4>3, <5>2 DEF QueueInv, HeadInv
        <4> QED
          BY <4>2, <4>3
      <3>3. PICK j \in DOMAIN written : written[j] = m
        BY <2>1, <3>2 DEF IsWritten
      <3>4. ~(i < j) /\ i # j
        <4>1. i < j => written[i] < written[j]
          BY <2>2 DEF QueueInv, WrittenInv
        <4> QED
          BY <2>2, <2>3, <2>5, <3>3, <4>1
      <3>5. j \in 1..(i - 1)
        BY <2>1, <2>2, <3>4
      <3> QED
        BY <2>2, <3>3, <3>5
    <2> QED
      BY <2>4, <2>5
  <1> QED
    BY <1>1, ChannelInvariant, PTL

\* For every size and every way of cutting the stream, _client_on_read calls
\* exit(-1) only after a cut message or a writer that was ahead of the client.
THEOREM ExitsAreExplained == ChannelSpec => []ExitNeedsCrowding
  <1>1. ClientInv => ExitNeedsCrowding
    BY DEF ClientInv, ExitNeedsCrowding
  <1> QED
    BY <1>1, ChannelInvariant, PTL

-----------------------------------------------------------------------------
(* Reception by the server *)

\* A connection with a callback at work, or in the middle of a message
Active(c) == pc[c] # "idle" \/ consumed[c] % Size # 0

\* Bytes of the stream that were taken before the callback at work, until that
\* callback has counted its own.
Begun(c) == IF pc[c] \in {"load", "store"} THEN consumed[c] - current_bytes_read[c]
                                           ELSE consumed[c]

\* Their end, as a position in a message
Offset(c) == Begun(c) % Size

\* A callback has at least one byte, and no two units without one between them.
PieceInv ==
    \A c \in Conns :
        /\ pc[c] \in {"load", "store"} => /\ current_bytes_read[c] \in 1..Size
                                          /\ current_bytes_read[c] <= consumed[c]
                                          /\ units[c] < consumed[c]
        /\ units[c] <= consumed[c]

\* Until connections mix, one at a time is active.
SoloInv == ~mixed => \A c, d \in Conns : Active(c) /\ Active(d) => c = d

\* The bytes of the callback at work, and where they lie in the buffer.
BufferInv(c) ==
    pc[c] \in {"load", "store"} =>
        /\ Offset(c) + current_bytes_read[c] <= Size
        /\ pc[c] = "store" => count[c] = Offset(c) + current_bytes_read[c]
        /\ \A j \in Slots :
             buffer[c][j] = IF j >= Offset(c) /\ j < Offset(c) + current_bytes_read[c]
                            THEN units[c] * Size + j ELSE Unset

\* The message in the last unit is damaged at most at its beginning.
UnitInv(c) ==
    units[c] > 0 =>
        /\ \A j \in Slots : unit[c][j] \in {Unset, (units[c] - 1) * Size + j}
        /\ unit[c][Size - 1] = (units[c] - 1) * Size + (Size - 1)

\* Until connections mix or a callback gets bytes of two messages, the static
\* count is the position of the active connection within its message.
AlignInv ==
    ~mixed /\ ~crossed =>
        /\ ~spill
        /\ (\A c \in Conns : ~Active(c)) => message_bytes_read = 0
        /\ \A c \in Conns :
             /\ Active(c) /\ pc[c] # "reset" => message_bytes_read = Offset(c)
             /\ pc[c] = "reset" => consumed[c] % Size = 0
             /\ units[c] = Begun(c) \div Size
             /\ BufferInv(c)
             /\ UnitInv(c)

\* Until a callback gets less than a message each of them gets a whole one.
WholeInv ==
    ~cut =>
        /\ ~crossed
        /\ \A c \in Conns :
             /\ consumed[c] % Size = 0
             /\ pc[c] \in {"load", "store"} => current_bytes_read[c] = Size
             /\ ~mixed /\ units[c] > 0 => unit[c] = Message(units[c])

FramingInv == FramingTypeOK /\ PieceInv /\ SoloInv /\ AlignInv /\ WholeInv

\* A number of bytes is a number of messages and a position in the next one.
LEMMA Position ==
    ASSUME NEW a \in Nat
    PROVE  /\ a \div Size \in Nat /\ a % Size \in 0..(Size - 1) /\ a % Size \in Nat
           /\ (a \div Size) * Size \in Nat
           /\ a = (a \div Size) * Size + (a % Size)
  BY SizeAssumption, Z3

\* ... and tells both.
LEMMA PositionUnique ==
    ASSUME NEW q \in Nat, NEW r \in 0..(Size - 1)
    PROVE  (q * Size + r) \div Size = q /\ (q * Size + r) % Size = r
  <1>1. q * Size \in Nat
    BY SizeAssumption
  <1> QED
    BY <1>1, SizeAssumption, Z3

\* n bytes more, up to the end of the message at most.
LEMMA Forward ==
    ASSUME NEW a \in Nat, NEW n \in 1..Size, (a % Size) + n <= Size
    PROVE  /\ (a % Size) + n < Size => /\ (a + n) % Size = (a % Size) + n
                                       /\ (a + n) \div Size = a \div Size
           /\ (a % Size) + n = Size => /\ (a + n) % Size = 0
                                       /\ (a + n) \div Size = (a \div Size) + 1
  <1> DEFINE q == a \div Size
             r == a % Size
  <1>1. q \in Nat /\ r \in Nat /\ q * Size \in Nat /\ a = q * Size + r /\ n \in Nat
    BY Position
  <1> HIDE DEF q, r
  <1>2. ASSUME r + n < Size PROVE (a + n) % Size = r + n /\ (a + n) \div Size = q
    <2>1. a + n = q * Size + (r + n) /\ r + n \in 0..(Size - 1)
      BY <1>1, <1>2, SizeAssumption
    <2> QED
      BY <1>1, <2>1, PositionUnique
  <1>3. ASSUME r + n = Size PROVE (a + n) % Size = 0 /\ (a + n) \div Size = q + 1
    <2>1. (q + 1) * Size = q * Size + Size
      BY <1>1, SizeAssumption
    <2>2. a + n = (q + 1) * Size + 0 /\ q + 1 \in Nat /\ 0 \in 0..(Size - 1)
      BY <1>1, <1>3, <2>1, SizeAssumption
    <2> QED
      BY <2>2, PositionUnique
  <1> QED
    BY <1>2, <1>3 DEF q, r

\* The types of a connection's fields, and where its callback at work began.
LEMMA ConnFields ==
    ASSUME FramingTypeOK, PieceInv, NEW c \in Conns
    PROVE  /\ consumed[c] \in Nat /\ consumed[c] <= Length /\ Length \in Nat
           /\ current_bytes_read[c] \in Nat /\ count[c] \in Nat /\ units[c] \in Nat
           /\ message_bytes_read \in Nat
           /\ Begun(c) \in Nat /\ Offset(c) \in Nat /\ Offset(c) \in 0..(Size - 1)
           /\ buffer[c] \in Buffers /\ unit[c] \in Buffers
           /\ pc[c] \in {"load", "store"} => consumed[c] = Begun(c) + current_bytes_read[c]
           /\ pc[c] \notin {"load", "store"} => Begun(c) = consumed[c]
  <1>1. /\ consumed[c] \in Nat /\ consumed[c] <= Length /\ Length \in Nat
        /\ current_bytes_read[c] \in Nat /\ count[c] \in Nat /\ units[c] \in Nat
        /\ message_bytes_read \in Nat
        /\ buffer[c] \in Buffers /\ unit[c] \in Buffers
    BY FramingAssumption, SizeAssumption DEF FramingTypeOK
  <1>2. /\ Begun(c) \in Nat
        /\ pc[c] \in {"load", "store"} => consumed[c] = Begun(c) + current_bytes_read[c]
        /\ pc[c] \notin {"load", "store"} => Begun(c) = consumed[c]
    BY <1>1 DEF Begun, PieceInv
  <1> QED
    BY <1>1, <1>2, Position DEF Offset

\* A connection none of whose fields change
Same(d) ==
    /\ pc'[d] = pc[d] /\ consumed'[d] = consumed[d] /\ buffer'[d] = buffer[d]
    /\ current_bytes_read'[d] = current_bytes_read[d] /\ count'[d] = count[d]
    /\ units'[d] = units[d] /\ unit'[d] = unit[d]

\* A connection whose fields do not change keeps what the invariant says of it.
LEMMA SameKeeps ==
    ASSUME NEW d \in Conns, Same(d)
    PROVE  /\ Active(d)' <=> Active(d)
           /\ Begun(d)' = Begun(d) /\ Offset(d)' = Offset(d)
           /\ BufferInv(d)' <=> BufferInv(d)
           /\ UnitInv(d)' <=> UnitInv(d)
  BY DEF Same, Active, Begun, Offset, BufferInv, UnitInv

-----------------------------------------------------------------------------
(* A callback begins *)

\* n bytes have arrived on connection c.
LEMMA OnReadKeeps ==
    ASSUME FramingInv, NEW c \in Conns, NEW n \in 1..Size, OnRead(c, n)
    PROVE  FramingInv'
  <1> USE DEF FramingInv
  <1>1. /\ pc[c] = "idle" /\ consumed[c] + n <= Length
        /\ consumed' = [consumed EXCEPT ![c] = @ + n]
        /\ buffer' = [buffer EXCEPT ![c] = Fill(c, n)]
        /\ current_bytes_read' = [current_bytes_read EXCEPT ![c] = n]
        /\ pc' = [pc EXCEPT ![c] = "load"]
        /\ cut' = (cut \/ n < Size)
        /\ crossed' = (crossed \/ (consumed[c] % Size) + n > Size)
        /\ mixed' = (mixed \/ \E d \in Conns \ {c} : Active(d))
        /\ spill' = (spill \/ message_bytes_read + n > Size)
        /\ UNCHANGED <<message_bytes_read, count, units, unit>>
    BY DEF OnRead, Active
  <1>0. /\ ~mixed' => ~mixed /\ \A d \in Conns : d # c => ~Active(d)
        /\ ~crossed' => ~crossed /\ ~((consumed[c] % Size) + n > Size)
        /\ ~cut' => ~cut /\ ~(n < Size)
        /\ ~crossed /\ ~((consumed[c] % Size) + n > Size) => ~crossed'
    BY <1>1, Zenon
  <1>2. /\ n \in Nat /\ n \in 0..Size /\ n <= Size /\ n > 0 /\ Size \in Nat
        /\ consumed[c] \in Nat /\ message_bytes_read \in Nat /\ units[c] \in Nat
        /\ Begun(c) = consumed[c] /\ Offset(c) = consumed[c] % Size
        /\ Offset(c) \in 0..(Size - 1)
    BY <1>1, ConnFields, SizeAssumption DEF Offset
  <1>3. /\ pc'[c] = "load" /\ consumed'[c] = consumed[c] + n /\ current_bytes_read'[c] = n
        /\ buffer'[c] = Fill(c, n)
        /\ \A d \in Conns : d # c => Same(d)
    BY <1>1 DEF FramingTypeOK, Same
  <1>4. Begun(c)' = consumed[c] /\ Offset(c)' = Offset(c)
    <2>1. Begun(c)' = (consumed[c] + n) - n
      BY <1>3 DEF Begun
    <2> QED
      BY <1>2, <2>1 DEF Offset
  <1>5. FramingTypeOK'
    <2>1. Fill(c, n) \in Buffers
      <3>1. ASSUME NEW j \in Slots, j >= message_bytes_read, j < message_bytes_read + n
            PROVE  consumed[c] + (j - message_bytes_read) \in 0..(Length - 1)
        BY <1>1, <1>2, <3>1, FramingAssumption DEF Slots
      <3> QED
        BY <3>1 DEF Fill, Buffers, Unset
    <2>2. consumed[c] + n \in 0..Length
      BY <1>1, <1>2, FramingAssumption
    <2> QED
      BY <1>1, <1>2, <2>1, <2>2 DEF FramingTypeOK
  <1>6. PieceInv'
    <2>1. units[c] <= consumed[c]
      BY DEF PieceInv
    <2> QED
      BY <1>1, <1>2, <1>3, <2>1 DEF PieceInv, Same
  <1>7. SoloInv'
    BY <1>1, <1>3, SameKeeps DEF SoloInv
  <1>8. AlignInv'
    <2> SUFFICES ASSUME ~mixed', ~crossed'
                 PROVE  /\ ~spill'
                        /\ \E d \in Conns : Active(d)'
                        /\ \A d \in Conns :
                             /\ Active(d)' /\ pc'[d] # "reset" => message_bytes_read' = Offset(d)'
                             /\ pc'[d] = "reset" => consumed'[d] % Size = 0
                             /\ units'[d] = Begun(d)' \div Size
                             /\ BufferInv(d)'
                             /\ UnitInv(d)'
      BY DEF AlignInv
    <2>1. ~mixed /\ ~crossed /\ Offset(c) + n <= Size /\ \A d \in Conns : d # c => ~Active(d)
      BY <1>0, <1>2
    <2>2. /\ ~spill
          /\ (\A d \in Conns : ~Active(d)) => message_bytes_read = 0
          /\ \A d \in Conns : /\ units[d] = Begun(d) \div Size
                              /\ pc[d] = "reset" => consumed[d] % Size = 0
                              /\ BufferInv(d) /\ UnitInv(d)
          /\ Active(c) => message_bytes_read = Offset(c)
      BY <1>1, <2>1 DEF AlignInv
    <2>3. message_bytes_read = Offset(c)
      BY <1>1, <1>2, <2>1, <2>2 DEF Active
    <2>4. ~spill'
      BY <1>1, <1>2, <2>1, <2>2, <2>3
    <2>5. Active(c)' /\ units'[c] = Begun(c)' \div Size
      BY <1>1, <1>2, <1>3, <1>4, <2>2 DEF Active
    <2>6. BufferInv(c)'
      <3>1. consumed[c] = units[c] * Size + Offset(c) /\ units[c] * Size \in Nat
        BY <1>2, <2>2, Position
      <3>2. ASSUME NEW j \in Slots
            PROVE  Fill(c, n)[j] = IF j >= Offset(c) /\ j < Offset(c) + n
                                   THEN units[c] * Size + j ELSE Unset
        <4>1. consumed[c] + (j - Offset(c)) = units[c] * Size + j
          BY <1>2, <3>1 DEF Slots
        <4> QED
          BY <2>3, <4>1 DEF Fill
      <3> QED
        BY <1>1, <1>3, <1>4, <2>1, <3>2 DEF BufferInv
    <2>7. UnitInv(c)'
      BY <1>1, <2>2 DEF UnitInv
    <2>8. ASSUME NEW d \in Conns, d # c
          PROVE  /\ ~Active(d)'
                 /\ pc'[d] = "reset" => consumed'[d] % Size = 0
                 /\ units'[d] = Begun(d)' \div Size
                 /\ BufferInv(d)' /\ UnitInv(d)'
      <3>1. Same(d)
        BY <1>3, <2>8
      <3> QED
        BY <2>1, <2>2, <2>8, <3>1, SameKeeps DEF Same
    <2> QED
      BY <1>1, <1>3, <1>4, <2>3, <2>4, <2>5, <2>6, <2>7, <2>8
  <1>9. WholeInv'
    <2> SUFFICES ASSUME ~cut'
                 PROVE  /\ ~crossed'
                        /\ \A d \in Conns :
                             /\ consumed'[d] % Size = 0
                             /\ pc'[d] \in {"load", "store"} => current_bytes_read'[d] = Size
                             /\ ~mixed' /\ units'[d] > 0 => unit'[d] = Message(units'[d])
      BY DEF WholeInv, Message
    <2>1. /\ ~cut /\ n = Size
          /\ ~crossed /\ \A d \in Conns :
               /\ consumed[d] % Size = 0
               /\ pc[d] \in {"load", "store"} => current_bytes_read[d] = Size
               /\ ~mixed /\ units[d] > 0 => unit[d] = Message(units[d])
      BY <1>0, <1>2 DEF WholeInv
    <2>2. (consumed[c] % Size) + n = Size
      BY <1>2, <2>1
    <2>3. (consumed[c] + n) % Size = 0 /\ ~((consumed[c] % Size) + n > Size)
      <3>1. (consumed[c] % Size) + n <= Size /\ ~((consumed[c] % Size) + n > Size)
        BY <1>2, <2>2
      <3>2. consumed[c] \in Nat
        BY <1>2
      <3> QED
        BY <2>2, <3>1, <3>2, Forward
    <2>4. ~mixed' => ~mixed
      BY <1>0
    <2> QED
      BY <1>0, <1>1, <1>3, <2>1, <2>3, <2>4 DEF Same
  <1> QED
    BY <1>5, <1>6, <1>7, <1>8, <1>9

-----------------------------------------------------------------------------
(* A callback goes on *)

\* The other connections while the callback of c goes on: until connections
\* mix they are not active.
LEMMA OthersAlign ==
    ASSUME FramingInv, NEW c \in Conns, Active(c), ~mixed, ~crossed,
           \A d \in Conns : d # c => Same(d)
    PROVE  \A d \in Conns : d # c =>
             /\ ~Active(d)'
             /\ pc'[d] # "reset"
             /\ units'[d] = Begun(d)' \div Size
             /\ BufferInv(d)' /\ UnitInv(d)'
  <1> SUFFICES ASSUME NEW d \in Conns, d # c
               PROVE  /\ ~Active(d)'
                      /\ pc'[d] # "reset"
                      /\ units'[d] = Begun(d)' \div Size
                      /\ BufferInv(d)' /\ UnitInv(d)'
    OBVIOUS
  <1>1. ~Active(d) /\ Same(d)
    BY DEF FramingInv, SoloInv
  <1>2. units[d] = Begun(d) \div Size /\ BufferInv(d) /\ UnitInv(d)
    BY DEF FramingInv, AlignInv
  <1> QED
    BY <1>1, <1>2, SameKeeps DEF Same, Active

\* The aligned state after a step of the callback of c.
LEMMA AlignStep ==
    ASSUME FramingInv, NEW c \in Conns, pc[c] # "idle",
           \A d \in Conns : d # c => Same(d), UNCHANGED history,
           ~mixed /\ ~crossed =>
             /\ ~Active(c)' => message_bytes_read' = 0
             /\ Active(c)' /\ pc'[c] # "reset" => message_bytes_read' = Offset(c)'
             /\ pc'[c] = "reset" => consumed'[c] % Size = 0
             /\ units'[c] = Begun(c)' \div Size
             /\ BufferInv(c)' /\ UnitInv(c)'
    PROVE  AlignInv'
  <1> SUFFICES ASSUME ~mixed, ~crossed
               PROVE  /\ ~spill
                      /\ (\A d \in Conns : ~Active(d)') => message_bytes_read' = 0
                      /\ \A d \in Conns :
                           /\ Active(d)' /\ pc'[d] # "reset" => message_bytes_read' = Offset(d)'
                           /\ pc'[d] = "reset" => consumed'[d] % Size = 0
                           /\ units'[d] = Begun(d)' \div Size
                           /\ BufferInv(d)'
                           /\ UnitInv(d)'
    BY DEF AlignInv, history
  <1>1. ~spill /\ Active(c)
    BY DEF FramingInv, AlignInv, Active
  <1> QED
    BY <1>1, OthersAlign

\* Activity only ends while a callback goes on.
LEMMA SoloStep ==
    ASSUME FramingInv, NEW c \in Conns, pc[c] # "idle",
           \A d \in Conns : d # c => Same(d), UNCHANGED history
    PROVE  SoloInv'
  <1>1. Active(c) /\ \A d \in Conns : d # c => (Active(d)' <=> Active(d))
    BY SameKeeps DEF Active
  <1> QED
    BY <1>1 DEF FramingInv, SoloInv, history

\* What the callback of c finds out about itself in an aligned state.
LEMMA Aligned ==
    ASSUME FramingInv, NEW c \in Conns, pc[c] # "idle", ~mixed, ~crossed
    PROVE  /\ pc[c] # "reset" => message_bytes_read = Offset(c)
           /\ pc[c] = "reset" => consumed[c] % Size = 0
           /\ units[c] = Begun(c) \div Size
           /\ BufferInv(c) /\ UnitInv(c)
  BY DEF FramingInv, AlignInv, Active

\* A callback adds its bytes to the static count it reads.
LEMMA LoadKeeps ==
    ASSUME FramingInv, NEW c \in Conns, Load(c)
    PROVE  FramingInv'
  <1>1. /\ pc[c] = "load" /\ pc' = [pc EXCEPT ![c] = "store"]
        /\ count' = [count EXCEPT ![c] = message_bytes_read + current_bytes_read[c]]
        /\ UNCHANGED <<message_bytes_read, consumed, buffer, current_bytes_read, units,
                       unit, history>>
    BY DEF Load
  <1>2. /\ pc'[c] = "store" /\ count'[c] = message_bytes_read + current_bytes_read[c]
        /\ \A d \in Conns : d # c => Same(d)
    BY <1>1 DEF FramingInv, FramingTypeOK, Same
  <1>3. Begun(c)' = Begun(c) /\ Offset(c)' = Offset(c)
    BY <1>1, <1>2 DEF Begun, Offset
  <1>4. FramingTypeOK'
    <2>1. message_bytes_read + current_bytes_read[c] \in Nat
      BY ConnFields DEF FramingInv
    <2> QED
      BY <1>1, <2>1 DEF FramingInv, FramingTypeOK, history
  <1>5. PieceInv'
    BY <1>1, <1>2 DEF FramingInv, PieceInv, Same
  <1>6. SoloInv'
    BY <1>1, <1>2, SoloStep
  <1>7. AlignInv'
    <2> SUFFICES ASSUME ~mixed, ~crossed
                 PROVE  /\ Active(c)' /\ message_bytes_read' = Offset(c)'
                        /\ units'[c] = Begun(c)' \div Size
                        /\ BufferInv(c)' /\ UnitInv(c)'
      BY <1>1, <1>2, AlignStep
    <2>1. /\ message_bytes_read = Offset(c) /\ units[c] = Begun(c) \div Size
          /\ BufferInv(c) /\ UnitInv(c)
      BY <1>1, Aligned
    <2> QED
      BY <1>1, <1>2, <1>3, <2>1 DEF Active, BufferInv, UnitInv
  <1>8. WholeInv'
    BY <1>1, <1>2 DEF FramingInv, WholeInv, history, Message, Same
  <1> QED
    BY <1>4, <1>5, <1>6, <1>7, <1>8 DEF FramingInv

\* A callback stores the count, and hands a unit over when a message is complete.
LEMMA StoreKeeps ==
    ASSUME FramingInv, NEW c \in Conns, Store(c)
    PROVE  FramingInv'
  <1> DEFINE n == current_bytes_read[c]
  <1>1. /\ pc[c] = "store" /\ message_bytes_read' = count[c]
        /\ UNCHANGED <<consumed, buffer, current_bytes_read, count, history>>
    BY DEF Store
  <1>2. CASE IsMessage(count[c])
    <2>1. /\ units' = [units EXCEPT ![c] = @ + 1] /\ unit' = [unit EXCEPT ![c] = buffer[c]]
          /\ pc' = [pc EXCEPT ![c] = "reset"]
      BY <1>2 DEF Store
    <2>2. /\ pc'[c] = "reset" /\ units'[c] = units[c] + 1 /\ unit'[c] = buffer[c]
          /\ \A d \in Conns : d # c => Same(d)
      BY <1>1, <2>1 DEF FramingInv, FramingTypeOK, Same
    <2>3. /\ units[c] \in Nat /\ count[c] \in Nat /\ consumed[c] \in Nat /\ n \in 1..Size
          /\ units[c] < consumed[c] /\ consumed[c] <= Length /\ Length \in Nat
          /\ Begun(c) \in Nat /\ consumed[c] = Begun(c) + n /\ Offset(c) \in Nat
          /\ buffer[c] \in Buffers
      BY <1>1, ConnFields DEF FramingInv, PieceInv
    <2>4. Begun(c)' = consumed[c] /\ Offset(c)' = consumed[c] % Size
      BY <1>1, <2>2 DEF Begun, Offset
    <2>5. FramingTypeOK'
      <3>1. units[c] + 1 \in 0..Length
        BY <2>3
      <3> QED
        BY <1>1, <2>1, <2>3, <3>1 DEF FramingInv, FramingTypeOK, history
    <2>6. PieceInv'
      <3>1. units[c] + 1 <= consumed[c]
        BY <2>3
      <3> QED
        BY <1>1, <2>2, <3>1 DEF FramingInv, PieceInv, Same
    <2>7. SoloInv'
      BY <1>1, <2>2, SoloStep
    <2>8. ASSUME ~mixed, ~crossed
          PROVE  /\ consumed[c] % Size = 0 /\ consumed[c] \div Size = units[c] + 1
                 /\ Offset(c) + n = Size
                 /\ \A j \in Slots : buffer[c][j] = IF j >= Offset(c) THEN units[c] * Size + j
                                                                     ELSE Unset
      <3>1. units[c] = Begun(c) \div Size /\ BufferInv(c)
        BY <1>1, <2>8, Aligned
      <3>2. Offset(c) + n = Size
        BY <1>1, <1>2, <2>3, <3>1, SizeAssumption DEF BufferInv, IsMessage
      <3>3. (Begun(c) % Size) + n = Size
        BY <3>2 DEF Offset
      <3>4. (Begun(c) + n) % Size = 0 /\ (Begun(c) + n) \div Size = (Begun(c) \div Size) + 1
        <4>1. (Begun(c) % Size) + n <= Size
          BY <3>3, SizeAssumption
        <4> QED
          BY <2>3, <3>3, <4>1, Forward
      <3>5. \A j \in Slots : j < Size
        BY SizeAssumption DEF Slots
      <3> QED
        BY <1>1, <2>3, <3>1, <3>2, <3>4, <3>5 DEF BufferInv
    <2>9. AlignInv'
      <3> SUFFICES ASSUME ~mixed, ~crossed
                   PROVE  /\ consumed'[c] % Size = 0
                          /\ units'[c] = Begun(c)' \div Size
                          /\ Active(c)' /\ BufferInv(c)' /\ UnitInv(c)'
        BY <1>1, <2>2, AlignStep
      <3>1. consumed'[c] % Size = 0 /\ units'[c] = Begun(c)' \div Size
        BY <1>1, <2>2, <2>4, <2>8
      <3>2. Active(c)' /\ BufferInv(c)'
        BY <2>2 DEF Active, BufferInv
      <3>3. UnitInv(c)'
        <4>1. (units[c] + 1) - 1 = units[c]
          BY <2>3
        <4>2. Size - 1 \in Slots /\ Size - 1 >= Offset(c)
          BY <2>3, ConnFields, SizeAssumption DEF Slots, FramingInv
        <4>3. /\ \A j \in Slots : buffer[c][j] \in {Unset, units[c] * Size + j}
              /\ buffer[c][Size - 1] = units[c] * Size + (Size - 1)
          BY <2>8, <4>2
        <4> QED
          BY <2>2, <4>1, <4>3 DEF UnitInv
      <3> QED
        BY <3>1, <3>2, <3>3
    <2>10. WholeInv'
      <3> SUFFICES ASSUME ~cut
                   PROVE  /\ ~crossed
                          /\ \A d \in Conns :
                               /\ consumed'[d] % Size = 0
                               /\ pc'[d] \in {"load", "store"} => current_bytes_read'[d] = Size
                               /\ ~mixed /\ units'[d] > 0 => unit'[d] = Message(units'[d])
        BY <1>1 DEF WholeInv, Message, history
      <3>1. /\ ~crossed /\ n = Size /\ consumed[c] % Size = 0
            /\ \A d \in Conns :
                 /\ consumed[d] % Size = 0
                 /\ pc[d] \in {"load", "store"} => current_bytes_read[d] = Size
                 /\ ~mixed /\ units[d] > 0 => unit[d] = Message(units[d])
        BY <1>1 DEF FramingInv, WholeInv
      <3>2. ASSUME ~mixed PROVE buffer[c] = Message(units[c] + 1)
        <4>1. Offset(c) = 0
          BY <2>3, <2>8, <3>1, <3>2, SizeAssumption
        <4>2. \A j \in Slots : buffer[c][j] = ((units[c] + 1) - 1) * Size + j
          <5>1. (units[c] + 1) - 1 = units[c] /\ \A j \in Slots : j >= 0
            BY <2>3 DEF Slots
          <5> QED
            BY <2>8, <3>1, <3>2, <4>1, <5>1
        <4> QED
          BY <2>3, <4>2 DEF Message, Buffers
      <3> QED
        BY <1>1, <2>2, <3>1, <3>2 DEF Same
    <2> QED
      BY <2>5, <2>6, <2>7, <2>9, <2>10 DEF FramingInv
  <1>3. CASE ~IsMessage(count[c])
    <2>1. pc' = [pc EXCEPT ![c] = "end"] /\ UNCHANGED <<units, unit>>
      BY <1>3 DEF Store
    <2>2. pc'[c] = "end" /\ \A d \in Conns : d # c => Same(d)
      BY <1>1, <2>1 DEF FramingInv, FramingTypeOK, Same
    <2>3. /\ count[c] \in Nat /\ consumed[c] \in Nat /\ n \in 1..Size
          /\ Begun(c) \in Nat /\ consumed[c] = Begun(c) + n /\ Offset(c) \in Nat
      BY <1>1, ConnFields DEF FramingInv, PieceInv
    <2>4. Begun(c)' = consumed[c] /\ Offset(c)' = consumed[c] % Size
      BY <1>1, <2>2 DEF Begun, Offset
    <2>5. FramingTypeOK'
      BY <1>1, <2>1, <2>3 DEF FramingInv, FramingTypeOK, history
    <2>6. PieceInv'
      BY <1>1, <2>1, <2>2 DEF FramingInv, PieceInv, Same
    <2>7. SoloInv'
      BY <1>1, <2>2, SoloStep
    <2>8. AlignInv'
      <3> SUFFICES ASSUME ~mixed, ~crossed
                   PROVE  /\ Active(c)' /\ message_bytes_read' = Offset(c)'
                          /\ units'[c] = Begun(c)' \div Size
                          /\ BufferInv(c)' /\ UnitInv(c)'
        BY <1>1, <2>2, AlignStep
      <3>1. units[c] = Begun(c) \div Size /\ BufferInv(c) /\ UnitInv(c)
        BY <1>1, Aligned
      <3>2. count[c] = (Begun(c) % Size) + n /\ count[c] < Size
        BY <1>1, <1>3, <2>3, <3>1, SizeAssumption DEF BufferInv, IsMessage, Offset
      <3>3. (Begun(c) + n) % Size = count[c] /\ (Begun(c) + n) \div Size = Begun(c) \div Size
        <4>1. (Begun(c) % Size) + n <= Size
          BY <2>3, <3>2, SizeAssumption
        <4> QED
          BY <2>3, <3>2, <4>1, Forward
      <3> QED
        BY <1>1, <2>1, <2>2, <2>3, <2>4, <3>1, <3>3 DEF Active, BufferInv, UnitInv
    <2>9. WholeInv'
      BY <1>1, <2>1, <2>2 DEF FramingInv, WholeInv, history, Message, Same
    <2> QED
      BY <2>5, <2>6, <2>7, <2>8, <2>9 DEF FramingInv
  <1> QED
    BY <1>2, <1>3

\* The static count goes back to 0 behind a whole message.
LEMMA ResetKeeps ==
    ASSUME FramingInv, NEW c \in Conns, Reset(c)
    PROVE  FramingInv'
  <1>1. /\ pc[c] = "reset" /\ pc' = [pc EXCEPT ![c] = "end"] /\ message_bytes_read' = 0
        /\ UNCHANGED <<consumed, buffer, current_bytes_read, count, units, unit, history>>
    BY DEF Reset
  <1>2. pc'[c] = "end" /\ \A d \in Conns : d # c => Same(d)
    BY <1>1 DEF FramingInv, FramingTypeOK, Same
  <1>3. Begun(c)' = consumed[c] /\ Begun(c) = consumed[c] /\ Offset(c)' = consumed[c] % Size
    BY <1>1, <1>2 DEF Begun, Offset
  <1>4. FramingTypeOK'
    BY <1>1 DEF FramingInv, FramingTypeOK, history
  <1>5. PieceInv'
    BY <1>1, <1>2 DEF FramingInv, PieceInv, Same
  <1>6. SoloInv'
    BY <1>1, <1>2, SoloStep
  <1>7. AlignInv'
    <2> SUFFICES ASSUME ~mixed, ~crossed
                 PROVE  /\ Active(c)' /\ message_bytes_read' = Offset(c)'
                        /\ units'[c] = Begun(c)' \div Size
                        /\ BufferInv(c)' /\ UnitInv(c)'
      BY <1>1, <1>2, AlignStep
    <2>1. consumed[c] % Size = 0 /\ units[c] = Begun(c) \div Size /\ UnitInv(c)
      BY <1>1, Aligned
    <2> QED
      BY <1>1, <1>2, <1>3, <2>1 DEF Active, BufferInv, UnitInv
  <1>8. WholeInv'
    BY <1>1, <1>2 DEF FramingInv, WholeInv, history, Message, Same
  <1> QED
    BY <1>4, <1>5, <1>6, <1>7, <1>8 DEF FramingInv

\* A callback frees its buffer and returns.
LEMMA ReturnKeeps ==
    ASSUME FramingInv, NEW c \in Conns, Return(c)
    PROVE  FramingInv'
  <1>1. /\ pc[c] = "end" /\ pc' = [pc EXCEPT ![c] = "idle"]
        /\ buffer' = [buffer EXCEPT ![c] = Empty] /\ count' = [count EXCEPT ![c] = 0]
        /\ current_bytes_read' = [current_bytes_read EXCEPT ![c] = 0]
        /\ UNCHANGED <<message_bytes_read, consumed, units, unit, history>>
    BY DEF Return
  <1>2. pc'[c] = "idle" /\ \A d \in Conns : d # c => Same(d)
    BY <1>1 DEF FramingInv, FramingTypeOK, Same
  <1>3. /\ Begun(c)' = consumed[c] /\ Begun(c) = consumed[c]
        /\ Offset(c)' = consumed[c] % Size /\ Offset(c) = consumed[c] % Size
    BY <1>1, <1>2 DEF Begun, Offset
  <1>4. FramingTypeOK'
    <2>1. Empty \in Buffers /\ 0 \in 0..Size
      BY SizeAssumption DEF Empty, Buffers
    <2> QED
      BY <1>1, <2>1 DEF FramingInv, FramingTypeOK, history
  <1>5. PieceInv'
    BY <1>1, <1>2 DEF FramingInv, PieceInv, Same
  <1>6. SoloInv'
    BY <1>1, <1>2, SoloStep
  <1>7. AlignInv'
    <2> SUFFICES ASSUME ~mixed, ~crossed
                 PROVE  /\ ~Active(c)' => message_bytes_read' = 0
                        /\ message_bytes_read' = Offset(c)'
                        /\ units'[c] = Begun(c)' \div Size
                        /\ BufferInv(c)' /\ UnitInv(c)'
      BY <1>1, <1>2, AlignStep
    <2>1. message_bytes_read = Offset(c) /\ units[c] = Begun(c) \div Size /\ UnitInv(c)
      BY <1>1, Aligned
    <2> QED
      BY <1>1, <1>2, <1>3, <2>1 DEF Active, BufferInv, UnitInv
  <1>8. WholeInv'
    BY <1>1, <1>2 DEF FramingInv, WholeInv, history, Message, Same
  <1> QED
    BY <1>4, <1>5, <1>6, <1>7, <1>8 DEF FramingInv

-----------------------------------------------------------------------------
(* Theorems about the reception *)

\* The inductive invariant of the reception holds in every reachable state, for
\* every number of connections, every size and every length of the streams.
THEOREM FramingInvariance == FramingSpec => []FramingInv
  <1>1. FramingInit => FramingInv
    <2> SUFFICES ASSUME FramingInit PROVE FramingInv
      OBVIOUS
    <2>1. /\ message_bytes_read = 0 /\ ~cut /\ ~crossed /\ ~mixed /\ ~spill
          /\ \A c \in Conns : /\ pc[c] = "idle" /\ consumed[c] = 0 /\ buffer[c] = Empty
                              /\ current_bytes_read[c] = 0 /\ count[c] = 0
                              /\ units[c] = 0 /\ unit[c] = Empty
      BY DEF FramingInit
    <2>2. Empty \in Buffers /\ 0 \in 0..Size /\ 0 \in 0..Length
      BY FramingAssumption, SizeAssumption DEF Empty, Buffers
    <2>3. 0 % Size = 0 /\ 0 \div Size = 0
      BY SizeAssumption, Z3
    <2>4. FramingTypeOK
      BY <2>2 DEF FramingInit, FramingTypeOK
    <2>5. PieceInv
      BY <2>1 DEF PieceInv
    <2>6. \A c \in Conns : ~Active(c) /\ Begun(c) = 0
      BY <2>1, <2>3 DEF Active, Begun
    <2>7. SoloInv
      BY <2>6 DEF SoloInv
    <2>8. AlignInv
      BY <2>1, <2>3, <2>6 DEF AlignInv, BufferInv, UnitInv
    <2>9. WholeInv
      BY <2>1, <2>3 DEF WholeInv
    <2> QED
      BY <2>4, <2>5, <2>7, <2>8, <2>9 DEF FramingInv
  <1>2. FramingInv /\ [FramingNext]_fvars => FramingInv'
    <2> SUFFICES ASSUME FramingInv, [FramingNext]_fvars PROVE FramingInv'
      OBVIOUS
    <2>1. CASE FramingNext
      BY <2>1, OnReadKeeps, LoadKeeps, StoreKeeps, ResetKeeps, ReturnKeeps
         DEF FramingNext, Callback
    <2>2. CASE UNCHANGED fvars
      BY <2>2 DEF fvars, history, FramingInv, FramingTypeOK, PieceInv, SoloInv, AlignInv,
                  WholeInv, Active, Begun, Offset, BufferInv, UnitInv, Message
    <2> QED
      BY <2>1, <2>2
  <1> QED
    BY <1>1, <1>2, PTL DEF FramingSpec

\* _server_on_read keeps the types of its variables, although the event threads
\* of all connections share message_bytes_read.
THEOREM FramingTypeCorrect == FramingSpec => []FramingTypeOK
  <1>1. FramingInv => FramingTypeOK
    BY DEF FramingInv
  <1> QED
    BY <1>1, FramingInvariance, PTL

\* For every size and every number of connections: while messages arrive whole
\* and callbacks do not overlap, the units that _server_on_read queues for a
\* connection are its messages, complete, in order and none left out, and no
\* buffer is overrun.
THEOREM WholeMessagesAreFramed == FramingSpec => []WholeUntilHarm
  <1>1. FramingInv => WholeUntilHarm
    <2> SUFFICES ASSUME FramingInv, ~cut, ~mixed
                 PROVE  /\ ~spill
                        /\ \A c \in Conns :
                             /\ units[c] > 0 => unit[c] = Message(units[c])
                             /\ pc[c] \in {"idle", "reset", "end"} =>
                                  units[c] = consumed[c] \div Size
      BY DEF WholeUntilHarm
    <2>1. ~crossed
      BY DEF FramingInv, WholeInv
    <2> QED
      BY <2>1 DEF FramingInv, WholeInv, AlignInv, Begun
  <1> QED
    BY <1>1, FramingInvariance, PTL

\* For every size, every number of connections and every way of cutting the
\* streams: a message that arrives in pieces is damaged but does no harm to the
\* ones after it, as long as no callback gets bytes of two messages and
\* connections do not mix.
THEOREM SplitsAreOutlived == FramingSpec => []SplitRealigns
  <1>1. FramingInv => SplitRealigns
    <2> SUFFICES ASSUME FramingInv, ~mixed, ~crossed
                 PROVE  /\ ~spill
                        /\ AtRest => {consumed[c] % Size : c \in Conns} \ {0}
                                       = {message_bytes_read} \ {0}
                        /\ \A c \in Conns : units[c] > 0 =>
                             /\ \A j \in Slots : unit[c][j] \in {Unset, Message(units[c])[j]}
                             /\ unit[c][Size - 1] = Message(units[c])[Size - 1]
      BY DEF SplitRealigns
    <2>1. ~spill /\ \A c \in Conns : UnitInv(c)
      BY DEF FramingInv, AlignInv
    <2>2. ASSUME AtRest
          PROVE  {consumed[c] % Size : c \in Conns} \ {0} = {message_bytes_read} \ {0}
      <3>1. /\ (\A c \in Conns : consumed[c] % Size = 0) => message_bytes_read = 0
            /\ \A c \in Conns : consumed[c] % Size # 0 => message_bytes_read = consumed[c] % Size
        BY <2>2 DEF AtRest, FramingInv, AlignInv, Active, Offset, Begun
      <3> QED
        BY <3>1
    <2>3. Size - 1 \in Slots
      BY SizeAssumption DEF Slots
    <2> QED
      BY <2>1, <2>2, <2>3 DEF UnitInv, Message
  <1> QED
    BY <1>1, FramingInvariance, PTL

-----------------------------------------------------------------------------
(* The message protocol: a text and its conversions *)

\* Numbers and words
Tokens == {"d", "w"} \X Int

\* The conversions of a format are of fields that differ.
IsFormat(format) ==
    /\ Len(format) \in Nat
    /\ \A k \in 1..Len(format) : format[k].conv \in {"d", "s", "t"}
    /\ \A j, k \in 1..Len(format) : format[j].field = format[k].field => j = k

\* A value of the type that a conversion is for
Fits(c, v) ==
    /\ c.conv = "d" => v \in 0..(Modulus - 1)
    /\ c.conv = "t" => v \in (0..(Modulus - 1)) \X (0..(Modulus - 1))
    /\ c.conv = "s" => v \in Seq(Tokens)

IsMessageOf(format, m) == \A k \in 1..Len(format) : Fits(format[k], m[format[k].field])

\* What the k-th conversion writes
Piece(format, m, k) == Written(format[k].conv, m[format[k].field])

\* A number of either half of the range is read as it was written.
LEMMA NumbersReturn ==
    ASSUME NEW v \in 0..(Modulus - 1)
    PROVE  Signed(v) \in Int /\ Unsigned(Signed(v)) = v
  BY ProtocolAssumption DEF Signed, Unsigned

\* A conversion of a number writes one token, its signed value.
LEMMA PieceOfOne ==
    ASSUME NEW format, IsFormat(format), NEW m, IsMessageOf(format, m), NEW k \in 1..Len(format)
    PROVE  /\ Piece(format, m, k) \in Seq(Tokens)
           /\ format[k].conv # "s" =>
                 /\ Len(Piece(format, m, k)) = 1
                 /\ Piece(format, m, k)[1][1] = "d"
                 /\ Piece(format, m, k)[1][2] =
                       Signed(IF format[k].conv = "d" THEN m[format[k].field]
                                                      ELSE m[format[k].field][2])
           /\ format[k].conv = "s" => Piece(format, m, k) = m[format[k].field]
  <1> DEFINE c == format[k].conv
             v == m[format[k].field]
  <1>1. c \in {"d", "s", "t"} /\ Fits(format[k], v)
    BY DEF IsFormat, IsMessageOf
  <1>2. CASE c = "d"
    <2>1. Piece(format, m, k) = <<<<"d", Signed(v)>>>> /\ Signed(v) \in Int
      BY <1>1, <1>2, NumbersReturn DEF Piece, Written, Fits
    <2> QED
      BY <1>2, <2>1 DEF Tokens
  <1>3. CASE c = "t"
    <2>1. Piece(format, m, k) = <<<<"d", Signed(v[2])>>>> /\ Signed(v[2]) \in Int
      BY <1>1, <1>3, NumbersReturn DEF Piece, Written, Fits
    <2> QED
      BY <1>3, <2>1 DEF Tokens
  <1>4. CASE c = "s"
    BY <1>1, <1>4 DEF Piece, Written, Fits
  <1> QED
    BY <1>1, <1>2, <1>3, <1>4

\* The text up to each conversion, one after the other
LEMMA SprintfDefined ==
    ASSUME NEW format, IsFormat(format), NEW m, IsMessageOf(format, m)
    PROVE  \E g \in [0..Len(format) -> Seq(Tokens)] :
              /\ g[0] = << >>
              /\ \A k \in 1..Len(format) : g[k] = g[k - 1] \o Piece(format, m, k)
  <1> DEFINE N == Len(format)
             W(k) == Piece(format, m, k)
             P(n) == \E g \in [0..n -> Seq(Tokens)] :
                        g[0] = << >> /\ \A k \in 1..n : g[k] = g[k - 1] \o W(k)
             Bad == {n \in 0..N : ~P(n)}
  <1>1. N \in Nat /\ \A k \in 1..N : W(k) \in Seq(Tokens)
    BY PieceOfOne DEF IsFormat
  <1> HIDE DEF N, W
  <1>2. P(0)
    <2> DEFINE g == [i \in 0..0 |-> << >>]
    <2>1. g \in [0..0 -> Seq(Tokens)] /\ g[0] = << >> /\ 1..0 = {}
      OBVIOUS
    <2> HIDE DEF g
    <2> QED
      BY <2>1
  <1>3. ASSUME NEW n \in 1..N, P(n - 1) PROVE P(n)
    <2>1. PICK g \in [0..(n - 1) -> Seq(Tokens)] :
             g[0] = << >> /\ \A k \in 1..(n - 1) : g[k] = g[k - 1] \o W(k)
      BY <1>3
    <2> DEFINE h == [i \in 0..n |-> IF i < n THEN g[i] ELSE g[n - 1] \o W(n)]
    <2>2. n \in Nat \ {0} /\ n - 1 \in 0..(n - 1) /\ g[n - 1] \o W(n) \in Seq(Tokens)
      BY <1>1
    <2>3. h \in [0..n -> Seq(Tokens)]
      BY <2>2
    <2>4. h[0] = << >>
      BY <2>1, <2>2
    <2>5. ASSUME NEW k \in 1..n PROVE h[k] = h[k - 1] \o W(k)
      <3>1. k \in 0..n /\ k - 1 \in 0..n /\ k - 1 < n
        BY <2>2
      <3>2. CASE k < n
        <4>1. h[k] = g[k] /\ h[k - 1] = g[k - 1] /\ k \in 1..(n - 1)
          BY <2>2, <3>1, <3>2
        <4> QED
          BY <2>1, <4>1
      <3>3. CASE k = n
        BY <2>2, <3>1, <3>3
      <3>4. k < n \/ k = n
        BY <2>2
      <3> QED
        BY <3>2, <3>3, <3>4
    <2> HIDE DEF h
    <2> QED
      BY <2>3, <2>4, <2>5
  <1> HIDE DEF P
  <1>4. Bad = {}
    <2>1. SUFFICES ASSUME Bad # {} PROVE FALSE
      OBVIOUS
    <2>2. PICK n \in Bad : \A y \in Bad : n <= y
      <3>1. Bad \in SUBSET Nat
        BY <1>1
      <3> HIDE DEF Bad
      <3> QED
        BY <2>1, <3>1, LeastNumber
    <2>3. n \in 1..N /\ n - 1 \in 0..N /\ n - 1 \notin Bad
      BY <1>1, <1>2, <2>2
    <2> QED
      BY <1>3, <2>2, <2>3
  <1>5. P(N)
    BY <1>1, <1>4
  <1> QED
    BY <1>5 DEF P, W, N

\* Behind well-formed fields only, the token at a place is the field's own.
LEMMA SprintfPrefix ==
    ASSUME NEW format, IsFormat(format), NEW m, IsMessageOf(format, m), NEW k \in 1..Len(format),
           \A j \in 1..k : WellFormed(format[j], m)
    PROVE  LET tokens == Sprintf(format, m) IN
           /\ tokens \in Seq(Tokens) /\ k <= Len(tokens)
           /\ \A j \in 1..k : tokens[j] = Piece(format, m, j)[1]
  <1> DEFINE N == Len(format)
             W(i) == Piece(format, m, i)
             Body(g, i) == IF i = 0 THEN << >> ELSE g[i - 1] \o W(i)
             upto == CHOOSE g : g = [i \in 0..N |-> Body(g, i)]
             Good(i) == /\ upto[i] \in Seq(Tokens)
                        /\ i <= k => Len(upto[i]) = i
                        /\ i > k => Len(upto[i]) >= k
                        /\ \A j \in 1..k : j <= i => upto[i][j] = W(j)[1]
             Bad == {i \in 0..N : ~Good(i)}
  <1>1. /\ N \in Nat /\ k \in Nat /\ k >= 1 /\ k <= N
        /\ \A i \in 1..N : W(i) \in Seq(Tokens)
        /\ \A i \in 1..k : Len(W(i)) = 1
    <2>1. N \in Nat /\ k \in Nat /\ k >= 1 /\ k <= N
      BY DEF IsFormat
    <2>2. ASSUME NEW i \in 1..k PROVE Len(W(i)) = 1
      BY <2>1, PieceOfOne DEF WellFormed
    <2> QED
      BY <2>1, <2>2, PieceOfOne
  <1>2. Sprintf(format, m) = upto[N]
    BY DEF Sprintf, Piece
  <1>3. upto = [i \in 0..N |-> Body(upto, i)]
    <2>1. PICK g \in [0..N -> Seq(Tokens)] :
             g[0] = << >> /\ \A i \in 1..N : g[i] = g[i - 1] \o W(i)
      BY SprintfDefined
    <2> HIDE DEF N, W
    <2>2. ASSUME NEW i \in 0..N PROVE g[i] = Body(g, i)
      <3>1. i = 0 \/ i \in 1..N
        BY <1>1
      <3> QED
        BY <2>1, <3>1
    <2> HIDE DEF Body
    <2>3. g = [i \in 0..N |-> Body(g, i)]
      BY <2>2
    <2> QED
      BY <2>3
  <1> HIDE DEF N, W, upto
  <1>4. upto[0] = << >> /\ \A i \in 1..N : upto[i] = upto[i - 1] \o W(i)
    <2>1. ASSUME NEW i \in 0..N PROVE upto[i] = Body(upto, i)
      <3> HIDE DEF Body
      <3> QED
        BY <1>3
    <2>2. upto[0] = << >>
      BY <1>1, <2>1
    <2>3. ASSUME NEW i \in 1..N PROVE upto[i] = upto[i - 1] \o W(i)
      <3>1. i \in 0..N /\ i # 0
        BY <1>1
      <3>2. upto[i] = Body(upto, i)
        BY <2>1, <3>1
      <3> QED
        BY <3>1, <3>2
    <2> QED
      BY <2>2, <2>3
  <1>5. Good(0)
    BY <1>1, <1>4
  <1>6. ASSUME NEW i \in 1..N, Good(i - 1) PROVE Good(i)
    <2>1. /\ i \in Nat /\ i - 1 \in Nat /\ upto[i - 1] \in Seq(Tokens) /\ W(i) \in Seq(Tokens)
          /\ upto[i] = upto[i - 1] \o W(i)
      <3>1. i \in Nat /\ i - 1 \in Nat
        BY <1>1
      <3>2. upto[i - 1] \in Seq(Tokens)
        BY <1>6
      <3>3. W(i) \in Seq(Tokens) /\ upto[i] = upto[i - 1] \o W(i)
        BY <1>1, <1>4
      <3> QED
        BY <3>1, <3>2, <3>3
    <2>2. /\ upto[i] \in Seq(Tokens) /\ Len(upto[i]) = Len(upto[i - 1]) + Len(W(i))
          /\ Len(W(i)) \in Nat /\ Len(upto[i - 1]) \in Nat
      BY <2>1
    <2>3. \A j \in 1..Len(upto[i - 1]) : upto[i][j] = upto[i - 1][j]
      BY <2>1
    <2>4. CASE i <= k
      <3>1. Len(W(i)) = 1 /\ Len(upto[i - 1]) = i - 1
        BY <1>1, <1>6, <2>1, <2>4
      <3>2. upto[i][i] = W(i)[1]
        BY <2>1, <2>2, <3>1
      <3>3. ASSUME NEW j \in 1..k, j <= i PROVE upto[i][j] = W(j)[1]
        <4>1. CASE j = i
          BY <3>2, <4>1
        <4>2. CASE j # i
          BY <1>1, <1>6, <2>1, <2>3, <3>1, <3>3, <4>2
        <4> QED
          BY <4>1, <4>2
      <3> QED
        BY <1>1, <2>1, <2>2, <2>4, <3>1, <3>3
    <2>5. CASE i > k
      <3>1. Len(upto[i - 1]) >= k
        BY <1>1, <1>6, <2>1, <2>5
      <3>2. ASSUME NEW j \in 1..k PROVE upto[i][j] = W(j)[1]
        <4>1. j \in 1..Len(upto[i - 1]) /\ j <= i - 1
          BY <1>1, <2>1, <2>2, <2>5, <3>1
        <4> QED
          BY <1>6, <2>3, <4>1
      <3> QED
        BY <1>1, <2>1, <2>2, <2>5, <3>1, <3>2
    <2> QED
      BY <1>1, <2>1, <2>4, <2>5
  <1> HIDE DEF Good
  <1>7. Bad = {}
    <2>1. SUFFICES ASSUME Bad # {} PROVE FALSE
      OBVIOUS
    <2>2. PICK i \in Bad : \A y \in Bad : i <= y
      <3>1. Bad \in SUBSET Nat
        BY <1>1
      <3> HIDE DEF Bad
      <3> QED
        BY <2>1, <3>1, LeastNumber
    <2>3. i \in 1..N /\ i - 1 \in 0..N /\ i - 1 \notin Bad
      BY <1>1, <1>5, <2>2
    <2> QED
      BY <1>6, <2>2, <2>3
  <1>8. Good(N)
    BY <1>1, <1>7
  <1>9. /\ upto[N] \in Seq(Tokens) /\ Len(upto[N]) >= k
        /\ \A j \in 1..k : upto[N][j] = W(j)[1]
    BY <1>1, <1>8 DEF Good
  <1> QED
    BY <1>1, <1>2, <1>9 DEF W

\* ... and the conversion reads it as it was written.
LEMMA FieldReturns ==
    ASSUME NEW format, IsFormat(format), NEW m, IsMessageOf(format, m), NEW k \in 1..Len(format),
           \A j \in 1..k : WellFormed(format[j], m)
    PROVE  SameValue(format[k], m, Sscanf(format, Sprintf(format, m)))
  <1> DEFINE tokens == Sprintf(format, m)
             f == format[k].field
             c == format[k].conv
             got_f == Sscanf(format, tokens)[f]
  <1>1. /\ tokens \in Seq(Tokens) /\ k <= Len(tokens)
        /\ \A j \in 1..k : tokens[j] = Piece(format, m, j)[1]
    BY SprintfPrefix
  <1>2. Len(format) \in Nat /\ k \in Nat /\ 1..k \subseteq 1..Len(format) /\ k \in 1..k
    BY DEF IsFormat
  <1> HIDE DEF tokens
  <1>3. Place(format, f) = k /\ f \in FieldsOf(format)
    BY DEF Place, FieldsOf, IsFormat
  <1>4. Reaches(format, tokens, k)
    <2>1. ASSUME NEW j \in 1..k PROVE j <= Len(tokens) /\ Takes(format[j].conv, tokens[j])
      <3>1. j \in 1..Len(format) /\ j <= Len(tokens) /\ tokens[j] = Piece(format, m, j)[1]
        BY <1>1, <1>2
      <3> QED
        BY <3>1, PieceOfOne DEF Takes
    <2> QED
      BY <2>1 DEF Reaches
  <1>5. got_f = Converted(c, tokens[k])
    BY <1>3, <1>4 DEF Sscanf
  <1>6. /\ tokens[k] = Piece(format, m, k)[1] /\ WellFormed(format[k], m)
        /\ c \in {"d", "s", "t"} /\ Fits(format[k], m[f])
    BY <1>1, <1>2 DEF IsFormat, IsMessageOf
  <1> HIDE DEF got_f
  <1>7. CASE c = "d"
    <2>1. tokens[k][2] = Signed(m[f]) /\ got_f = Unsigned(tokens[k][2]) /\ m[f] \in 0..(Modulus - 1)
      BY <1>5, <1>6, <1>7, PieceOfOne DEF Converted, Fits
    <2>2. got_f = m[f]
      BY <2>1, NumbersReturn
    <2> QED
      BY <1>7, <2>2 DEF SameValue, got_f, tokens
  <1>8. CASE c = "t"
    <2>1. /\ tokens[k][2] = Signed(m[f][2]) /\ got_f = <<Junk, Unsigned(tokens[k][2])>>
          /\ m[f][2] \in 0..(Modulus - 1)
      BY <1>5, <1>6, <1>8, PieceOfOne DEF Converted, Fits
    <2>2. got_f[2] = m[f][2]
      BY <2>1, NumbersReturn
    <2> QED
      BY <1>8, <2>2 DEF SameValue, got_f, tokens
  <1>9. CASE c = "s"
    <2>1. m[f] \in Seq(Tokens) /\ Len(m[f]) = 1 /\ tokens[k] = m[f][1] /\ got_f = <<tokens[k]>>
      BY <1>5, <1>6, <1>9, PieceOfOne DEF Converted, Fits, WellFormed
    <2>2. got_f = m[f]
      BY <2>1
    <2> QED
      BY <1>9, <2>2 DEF SameValue, got_f, tokens
  <1> QED
    BY <1>6, <1>7, <1>8, <1>9

\* So do all of a line.
LEMMA LineReturns ==
    ASSUME NEW format, IsFormat(format), NEW m, IsMessageOf(format, m)
    PROVE  IntactUntilMalformed(format, m, Sscanf(format, Sprintf(format, m)))
  BY FieldReturns DEF IntactUntilMalformed

-----------------------------------------------------------------------------
(* The layouts *)

\* Serializer and deserializer of a message agree on its layout.
Agrees(layout) == IsFormat(layout.out) /\ layout.in = layout.out

\* They do on the line of an application ...
LEMMA ApplicationAgrees == Agrees(Application)
  BY DEF Agrees, IsFormat, Application, D, S, T

\* ... and on every type of message.
LEMMA LayoutsAgree ==
    ASSUME NEW ty \in DOMAIN Layouts
    PROVE  Agrees(Layouts[ty])
  <1> USE DEF Agrees, IsFormat, Header, D, S, T
  <1>1. Agrees(HeaderOnly)
    BY DEF HeaderOnly
  <1>2. Agrees(RegisterConnection)
    BY DEF RegisterConnection
  <1>3. Agrees(DeregisterConnection)
    BY DEF DeregisterConnection
  <1>4. Agrees(ResourceOffer)
    BY DEF ResourceOffer
  <1>5. Agrees(CreateTbon)
    BY DEF CreateTbon
  <1>6. Agrees(Ready)
    BY DEF Ready
  <1>7. Agrees(RegisterProcessManager)
    BY DEF RegisterProcessManager
  <1>8. Agrees(DeregisterProcessManager)
    BY DEF DeregisterProcessManager
  <1>9. Agrees(AllocationRequest)
    BY DEF AllocationRequest
  <1>10. Agrees(ReallocationStart)
    BY DEF ReallocationStart
  <1>11. Agrees(ReallocationComplete)
    BY DEF ReallocationComplete
  <1>12. Agrees(DynamicPmLaunch)
    BY DEF DynamicPmLaunch
  <1>13. Agrees(DynamicIoOut)
    BY DEF DynamicIoOut
  <1>14. Agrees(ReportProcessData)
    BY DEF ReportProcessData
  <1> HIDE DEF Agrees, IsFormat, Header, D, S, T
  <1> QED
    BY <1>1, <1>2, <1>3, <1>4, <1>5, <1>6, <1>7, <1>8, <1>9, <1>10, <1>11, <1>12, <1>13, <1>14
    DEF Layouts

\* The fields of the layouts that the registration of a process manager turns on
LEMMA RegistrationFields ==
    /\ Layouts["REGISTER_PROCESS_MANAGER"] = RegisterProcessManager
    /\ Len(RegisterProcessManager.out) = 6
    /\ \A k \in 1..6 : /\ RegisterProcessManager.out[k].conv = "s" <=> k = 4
                       /\ RegisterProcessManager.out[k].field = "application_count" <=> k = 6
    /\ RegisterProcessManager.out[4].field = "hostname"
    /\ RegisterProcessManager.out[6] = D("application_count")
    /\ Len(Application.out) = 4
    /\ Application.out[1] = D("application_index")
  <1>1. Layouts["REGISTER_PROCESS_MANAGER"] = RegisterProcessManager
    BY DEF Layouts
  <1>2. Len(Application.out) = 4 /\ Application.out[1] = D("application_index")
    BY DEF Application
  <1> QED
    BY <1>1, <1>2 DEF RegisterProcessManager, Header, D, S, T

\* A message has values of the types its layout says.
LEMMA ContentsFit ==
    ASSUME NEW format, IsFormat(format), NEW m \in Contents(format)
    PROVE  IsMessageOf(format, m) /\ DOMAIN m = FieldsOf(format) /\ m = [f \in FieldsOf(format) |-> m[f]]
  <1>1. PICK n \in [OfConv(format, "d") -> Numbers], s \in [OfConv(format, "s") -> Strings],
             t \in [OfConv(format, "t") -> Numbers \X Numbers] :
           m = Filled(format, n, s, t)
    BY DEF Contents
  <1>2. ASSUME NEW k \in 1..Len(format) PROVE Fits(format[k], m[format[k].field])
    <2> DEFINE f == format[k].field
               c == format[k].conv
    <2>1. c \in {"d", "s", "t"} /\ f \in FieldsOf(format)
      BY DEF IsFormat, FieldsOf
    <2>2. \A v \in {"d", "s", "t"} : f \in OfConv(format, v) <=> v = c
      BY <2>1 DEF IsFormat, OfConv
    <2>3. CASE c = "d"
      <3>1. m[f] = n[f] /\ n[f] \in Numbers
        BY <1>1, <2>1, <2>2, <2>3 DEF Filled
      <3> QED
        BY <2>3, <3>1, ProtocolAssumption DEF Fits
    <2>4. CASE c = "s"
      <3>1. m[f] = s[f] /\ s[f] \in Strings
        BY <1>1, <2>1, <2>2, <2>4 DEF Filled
      <3> QED
        BY <2>4, <3>1, ProtocolAssumption DEF Fits, Tokens
    <2>5. CASE c = "t"
      <3>1. m[f] = t[f] /\ t[f] \in Numbers \X Numbers
        BY <1>1, <2>1, <2>2, <2>5 DEF Filled
      <3> QED
        BY <2>5, <3>1, ProtocolAssumption DEF Fits
    <2> QED
      BY <2>1, <2>3, <2>4, <2>5
  <1>3. DOMAIN m = FieldsOf(format)
    BY <1>1 DEF Filled
  <1>4. m = [f \in FieldsOf(format) |-> m[f]]
    <2> DEFINE V(f) == CASE f \in OfConv(format, "d") -> n[f]
                         [] f \in OfConv(format, "s") -> s[f]
                         [] f \in OfConv(format, "t") -> t[f]
    <2>1. m = [f \in FieldsOf(format) |-> V(f)]
      BY <1>1 DEF Filled
    <2> HIDE DEF V
    <2> QED
      BY <2>1
  <1> QED
    BY <1>2, <1>3, <1>4 DEF IsMessageOf

-----------------------------------------------------------------------------
(* A message on its way *)

\* A message has values for the fields of its layout, and a registration counts
\* its applications.
MessageInv ==
    /\ phase \in {"new", "sent", "lines", "received", "crashed"}
    /\ type \in DOMAIN Layouts
    /\ IsMessageOf(Layouts[type].out, msg)
    /\ Len(applications) \in 0..MaxApplications
    /\ DOMAIN applications = 1..Len(applications)
    /\ \A k \in 1..Len(applications) : IsMessageOf(Application.out, applications[k])
    /\ IsRegistration => msg.application_count = Len(applications)
    /\ ~IsRegistration => Len(applications) = 0

IsSequence(s) == \E X : s \in Seq(X)

\* The text has the message's line and those of its last applications.
TextInv ==
    phase \in {"sent", "lines", "received"} =>
        /\ IsSequence(text)
        /\ \E first \in 0..Len(applications) :
            /\ Len(text) = 1 + Len(applications) - first
            /\ text[1] = Sprintf(Layouts[type].out, msg)
            /\ \A k \in 1..(Len(applications) - first) :
                   text[k + 1] = Sprintf(Application.out, applications[first + k])

\* What was read of a registration: as many lines as the first one says once the
\* list has ended, and this text's own lines one after the other while no other
\* worker has moved strtok's position.
LinesInv ==
    /\ got.application_count # Junk => expected = got.application_count
    /\ expected \in 0..(Modulus - 1) /\ Len(got_applications) \in 0..expected
    /\ IsSequence(got_applications) /\ IsSequence(saved)
    /\ phase = "received" => Len(got_applications) = expected
    /\ ~overlapped =>
         /\ Len(got_applications) + Len(saved) = Len(text) - 1
         /\ \A k \in 1..Len(saved) : saved[k] = text[1 + Len(got_applications) + k]
         /\ \A k \in 1..Len(got_applications) :
                got_applications[k] = Sscanf(Application.in, text[k + 1])

\* What was received is what sscanf makes of the lines.
ReceivedInv ==
    /\ phase \in {"lines", "received"} => got = Sscanf(Layouts[type].in, text[1])
    /\ phase \in {"lines", "received"} /\ IsRegistration => LinesInv
    /\ phase = "lines" => IsRegistration
    /\ phase \in {"new", "sent"} \/ ~IsRegistration => got_applications = << >>

ProtocolInv == MessageInv /\ TextInv /\ ReceivedInv

\* A message that was not sent
LEMMA ProtocolStarts == ProtocolInit => ProtocolInv
  <1> SUFFICES ASSUME ProtocolInit PROVE ProtocolInv
    OBVIOUS
  <1>1. Agrees(Layouts[type]) /\ type \in DOMAIN Layouts /\ phase = "new" /\ got_applications = << >>
    BY LayoutsAgree DEF ProtocolInit
  <1>2. PICK m \in Contents(Layouts[type].out) :
           msg = IF IsRegistration THEN [m EXCEPT !.application_count = Len(applications)] ELSE m
    BY DEF ProtocolInit
  <1>3. IsMessageOf(Layouts[type].out, m) /\ DOMAIN m = FieldsOf(Layouts[type].out)
        /\ m = [f \in FieldsOf(Layouts[type].out) |-> m[f]]
    BY <1>1, ContentsFit DEF Agrees
  <1>4. CASE ~IsRegistration
    <2>1. applications = << >> /\ msg = m
      BY <1>2, <1>4 DEF ProtocolInit
    <2> QED
      BY <1>1, <1>3, <1>4, <2>1, ProtocolAssumption DEF ProtocolInv, MessageInv, TextInv, ReceivedInv
  <1>5. CASE IsRegistration
    <2>1. PICK n \in 0..MaxApplications : applications \in [1..n -> Contents(Application.out)]
      BY <1>5 DEF ProtocolInit
    <2>2. n \in Nat /\ n \in 0..(Modulus - 1) /\ Len(applications) = n /\ DOMAIN applications = 1..n
      BY <2>1, ProtocolAssumption
    <2>3. ASSUME NEW k \in 1..n PROVE IsMessageOf(Application.out, applications[k])
      BY <2>1, <2>2, ContentsFit, ApplicationAgrees DEF Agrees
    <2> DEFINE format == RegisterProcessManager.out
    <2>4. Layouts[type].out = format /\ Len(format) = 6
      BY <1>5, RegistrationFields DEF IsRegistration
    <2>5. /\ format[6].field = "application_count" /\ format[6].conv = "d"
          /\ \A k \in 1..6 : format[k].field = "application_count" <=> k = 6
      BY RegistrationFields DEF D
    <2>6. "application_count" \in FieldsOf(format)
      BY <2>4, <2>5 DEF FieldsOf
    <2> HIDE DEF format
    <2>7. msg = [m EXCEPT !.application_count = n]
      BY <1>2, <1>5, <2>2
    <2>8. msg.application_count = n
      BY <1>3, <2>4, <2>6, <2>7
    <2>9. ASSUME NEW k \in 1..6 PROVE Fits(format[k], msg[format[k].field])
      <3>1. CASE k = 6
        BY <2>2, <2>5, <2>8, <3>1 DEF Fits
      <3>2. CASE k # 6
        <4>1. format[k].field # "application_count" /\ format[k].field \in FieldsOf(format)
          BY <2>4, <2>5, <3>2 DEF FieldsOf
        <4>2. msg[format[k].field] = m[format[k].field]
          BY <1>3, <2>4, <2>7, <4>1
        <4> QED
          BY <1>3, <2>4, <4>2 DEF IsMessageOf
      <3> QED
        BY <3>1, <3>2
    <2> QED
      BY <1>1, <1>5, <2>1, <2>2, <2>3, <2>4, <2>8, <2>9
      DEF ProtocolInv, MessageInv, TextInv, ReceivedInv, IsMessageOf
  <1> QED
    BY <1>4, <1>5

\* A line for the message and one for each application from the first on
LEMMA SerializeKeeps ==
    ASSUME ProtocolInv, NEW first \in 0..Len(applications), Serialize(first)
    PROVE  ProtocolInv'
  <1> DEFINE n == Len(applications) - first
             line == Sprintf(Layouts[type].out, msg)
             L(k) == Sprintf(Application.out, applications[first + k])
             lines == [k \in 1..n |-> L(k)]
             X == {line} \cup {L(k) : k \in 1..n}
  <1>1. /\ phase = "new" /\ phase' = "sent" /\ text' = <<line>> \o lines
        /\ UNCHANGED <<type, msg, applications, got, got_applications, expected, saved, overlapped>>
    BY DEF Serialize
  <1>2. Len(applications) \in Nat /\ n \in Nat /\ first \in Nat
    BY ProtocolAssumption DEF ProtocolInv, MessageInv
  <1>3. lines \in Seq(X) /\ Len(lines) = n /\ (\A k \in 1..n : lines[k] = L(k)) /\ <<line>> \in Seq(X)
    <2> HIDE DEF n, line, L
    <2>1. lines \in [1..n -> X] /\ line \in X
      OBVIOUS
    <2> HIDE DEF X
    <2>2. \A k \in 1..n : lines[k] = L(k)
      OBVIOUS
    <2> HIDE DEF lines
    <2> QED
      BY <1>2, <2>1, <2>2
  <1> HIDE DEF X, line, L, lines
  <1>4. /\ Len(text') = 1 + n /\ text'[1] = line
        /\ \A k \in 1..n : text'[k + 1] = L(k)
    BY <1>1, <1>2, <1>3
  <1>5. TextInv'
    <2>1. Len(text') = 1 + Len(applications) - first
      BY <1>2, <1>4
    <2>2. IsSequence(text')
      BY <1>1, <1>3 DEF IsSequence
    <2> QED
      BY <1>1, <1>4, <2>1, <2>2 DEF TextInv, line, L
  <1>6. MessageInv' /\ ReceivedInv'
    BY <1>1 DEF ProtocolInv, MessageInv, ReceivedInv, IsRegistration
  <1> QED
    BY <1>5, <1>6 DEF ProtocolInv

\* A message of one line is read.
LEMMA DeserializeKeeps ==
    ASSUME ProtocolInv, Deserialize
    PROVE  ProtocolInv'
  <1>1. /\ phase = "sent" /\ ~IsRegistration /\ got' = Sscanf(Layouts[type].in, text[1])
        /\ phase' = "received" /\ UNCHANGED <<type, msg, applications, text, got_applications>>
    BY DEF Deserialize
  <1> QED
    BY <1>1 DEF ProtocolInv, MessageInv, TextInv, ReceivedInv, IsRegistration

\* strtok is at the second line.
LEMMA ReadFirstLineKeeps ==
    ASSUME ProtocolInv, NEW total \in 0..(Modulus - 1), ReadFirstLine(total)
    PROVE  ProtocolInv'
  <1>1. /\ phase = "sent" /\ IsRegistration /\ got' = Sscanf(Layouts[type].in, text[1])
        /\ got'.application_count # Junk => total = got'.application_count
        /\ expected' = total /\ saved' = Tail(text) /\ phase' = "lines"
        /\ UNCHANGED <<type, msg, applications, text, got_applications, overlapped>>
    BY DEF ReadFirstLine
  <1>2. got_applications = << >> /\ Len(applications) \in Nat /\ Modulus \in Nat
    BY <1>1, ProtocolAssumption DEF ProtocolInv, MessageInv, ReceivedInv
  <1>3. PICK X : text \in Seq(X)
    BY <1>1 DEF ProtocolInv, TextInv, IsSequence
  <1>4. Len(text) >= 1
    BY <1>1, <1>2 DEF ProtocolInv, TextInv
  <1>5. /\ saved' \in Seq(X) /\ Len(saved') = Len(text) - 1
        /\ \A k \in 1..Len(saved') : saved'[k] = text[1 + k]
    BY <1>1, <1>3, <1>4
  <1>6. Len(got_applications') = 0 /\ got_applications' \in Seq(X)
    BY <1>1, <1>2
  <1>7. LinesInv'
    BY <1>1, <1>2, <1>5, <1>6 DEF LinesInv, IsSequence
  <1> QED
    BY <1>1, <1>7 DEF ProtocolInv, MessageInv, TextInv, ReceivedInv, IsRegistration

\* The next line, or the end of the process
LEMMA ReadLineKeeps ==
    ASSUME ProtocolInv, ReadLine
    PROVE  ProtocolInv'
  <1>1. /\ phase = "lines" /\ Len(got_applications) < expected
        /\ UNCHANGED <<type, msg, applications, text, got, expected, overlapped>>
    BY DEF ReadLine
  <1>2. LinesInv /\ IsRegistration
    BY <1>1 DEF ProtocolInv, ReceivedInv
  <1>3. CASE saved = << >>
    <2>1. phase' = "crashed"
      BY <1>3 DEF ReadLine
    <2> QED
      BY <1>1, <1>2, <2>1 DEF ProtocolInv, MessageInv, TextInv, ReceivedInv, IsRegistration
  <1>4. CASE saved # << >>
    <2> DEFINE e == Sscanf(Application.in, Head(saved))
    <2>1. got_applications' = Append(got_applications, e) /\ saved' = Tail(saved) /\ phase' = phase
      BY <1>4 DEF ReadLine
    <2>2. PICK X, Y : got_applications \in Seq(X) /\ saved \in Seq(Y)
      BY <1>2 DEF LinesInv, IsSequence
    <2>3. /\ Len(saved) \in Nat /\ Len(saved) >= 1 /\ Len(saved') = Len(saved) - 1
          /\ Head(saved) = saved[1] /\ saved' \in Seq(Y)
          /\ \A k \in 1..Len(saved') : saved'[k] = saved[k + 1]
      BY <1>4, <2>1, <2>2
    <2>4. e = Sscanf(Application.in, saved[1])
      BY <2>3
    <2> HIDE DEF e
    <2>5. got_applications \in Seq(X \cup {e})
      BY <2>2
    <2>6. /\ got_applications' \in Seq(X \cup {e})
          /\ Len(got_applications) \in Nat /\ Len(got_applications') = Len(got_applications) + 1
          /\ \A k \in 1..Len(got_applications) : got_applications'[k] = got_applications[k]
          /\ got_applications'[Len(got_applications) + 1] = e
      BY <2>1, <2>5
    <2>7. LinesInv'
      <3>1. /\ got'.application_count # Junk => expected' = got'.application_count
            /\ expected' \in 0..(Modulus - 1) /\ Len(got_applications') \in 0..expected'
            /\ IsSequence(got_applications)' /\ IsSequence(saved)'
            /\ phase' # "received"
        BY <1>1, <1>2, <2>1, <2>3, <2>6, ProtocolAssumption DEF LinesInv, IsSequence
      <3>2. ASSUME ~overlapped'
            PROVE  /\ Len(got_applications') + Len(saved') = Len(text') - 1
                   /\ \A k \in 1..Len(saved') : saved'[k] = text'[1 + Len(got_applications') + k]
                   /\ \A k \in 1..Len(got_applications') :
                          got_applications'[k] = Sscanf(Application.in, text'[k + 1])
        <4>1. /\ Len(got_applications) + Len(saved) = Len(text) - 1
              /\ \A k \in 1..Len(saved) : saved[k] = text[1 + Len(got_applications) + k]
              /\ \A k \in 1..Len(got_applications) :
                     got_applications[k] = Sscanf(Application.in, text[k + 1])
          BY <1>1, <1>2, <3>2 DEF LinesInv
        <4>2. Len(text) \in Int
          BY <1>1, <1>2, <2>3, <2>6 DEF ProtocolInv, TextInv, IsSequence
        <4>3. Len(got_applications') + Len(saved') = Len(text') - 1
          BY <1>1, <2>3, <2>6, <4>1, <4>2
        <4>4. ASSUME NEW k \in 1..Len(saved')
              PROVE  saved'[k] = text'[1 + Len(got_applications') + k]
          <5>1. k + 1 \in 1..Len(saved) /\ saved'[k] = saved[k + 1]
            BY <2>3
          <5>2. saved[k + 1] = text[1 + Len(got_applications) + (k + 1)]
            BY <4>1, <5>1
          <5>3. 1 + Len(got_applications) + (k + 1) = 1 + Len(got_applications') + k
            BY <2>3, <2>6
          <5> QED
            BY <1>1, <5>1, <5>2, <5>3
        <4>5. ASSUME NEW k \in 1..Len(got_applications')
              PROVE  got_applications'[k] = Sscanf(Application.in, text'[k + 1])
          <5>1. CASE k = Len(got_applications) + 1
            <6>1. saved[1] = text[k + 1]
              <7>1. saved[1] = text[1 + Len(got_applications) + 1]
                BY <2>3, <4>1
              <7>2. 1 + Len(got_applications) + 1 = k + 1
                BY <2>6, <5>1
              <7> QED
                BY <7>1, <7>2
            <6> QED
              BY <1>1, <2>4, <2>6, <5>1, <6>1
          <5>2. CASE k # Len(got_applications) + 1
            <6>1. k \in 1..Len(got_applications)
              BY <2>6, <5>2
            <6> QED
              BY <1>1, <2>6, <4>1, <6>1
          <5> QED
            BY <5>1, <5>2
        <4> QED
          BY <4>3, <4>4, <4>5
      <3> QED
        BY <3>1, <3>2 DEF LinesInv
    <2> QED
      BY <1>1, <1>2, <2>1, <2>7 DEF ProtocolInv, MessageInv, TextInv, ReceivedInv, IsRegistration
  <1> QED
    BY <1>3, <1>4

\* The list is complete.
LEMMA EndOfLinesKeeps ==
    ASSUME ProtocolInv, EndOfLines
    PROVE  ProtocolInv'
  <1>1. /\ phase = "lines" /\ Len(got_applications) = expected /\ phase' = "received"
        /\ UNCHANGED <<type, msg, applications, text, got, got_applications, expected, saved, overlapped>>
    BY DEF EndOfLines
  <1>2. LinesInv'
    BY <1>1 DEF ProtocolInv, ReceivedInv, LinesInv, IsSequence
  <1> QED
    BY <1>1, <1>2 DEF ProtocolInv, MessageInv, TextInv, ReceivedInv, IsRegistration

\* Another worker moves strtok's position, which leaves what was read alone.
LEMMA OtherWorkerKeeps ==
    ASSUME ProtocolInv, OtherWorker
    PROVE  ProtocolInv'
  <1>1. /\ phase = "lines" /\ overlapped' = TRUE
        /\ UNCHANGED <<type, msg, applications, text, got, got_applications, expected>>
    BY DEF OtherWorker
  <1>2. LinesInv /\ IsRegistration
    BY <1>1 DEF ProtocolInv, ReceivedInv
  <1>3. CASE phase' = "crashed"
    BY <1>1, <1>2, <1>3 DEF ProtocolInv, MessageInv, TextInv, ReceivedInv, IsRegistration
  <1>4. CASE phase' = phase /\ \E t \in Others \cup {text} : saved' \in Positions(t)
    <2>1. PICK t \in Others \cup {text} : saved' \in Positions(t)
      BY <1>4
    <2>2. PICK X : t \in Seq(X)
      BY <1>1, ProtocolAssumption DEF ProtocolInv, TextInv, IsSequence
    <2>3. PICK k \in 2..(Len(t) + 1) : saved' = SubSeq(t, k, Len(t))
      BY <2>1 DEF Positions
    <2>4. saved' \in Seq(X)
      BY <2>2, <2>3
    <2>5. LinesInv'
      BY <1>1, <1>2, <1>4, <2>4 DEF LinesInv, IsSequence
    <2> QED
      BY <1>1, <1>2, <1>4, <2>5 DEF ProtocolInv, MessageInv, TextInv, ReceivedInv, IsRegistration
  <1> QED
    BY <1>3, <1>4 DEF OtherWorker

\* The invariant of the way of a message from its serializer to its deserializer
THEOREM ProtocolInvariance == ProtocolSpec => []ProtocolInv
  <1>1. ASSUME ProtocolInv, [ProtocolNext]_pvars PROVE ProtocolInv'
    <2>1. CASE ProtocolNext
      BY <1>1, <2>1, SerializeKeeps, DeserializeKeeps, ReadFirstLineKeeps, ReadLineKeeps,
         EndOfLinesKeeps, OtherWorkerKeeps DEF ProtocolNext
    <2>2. CASE UNCHANGED pvars
      BY <1>1, <2>2
      DEF pvars, ProtocolInv, MessageInv, TextInv, ReceivedInv, LinesInv, IsRegistration, IsSequence
    <2> QED
      BY <1>1, <2>1, <2>2
  <1> QED
    BY <1>1, ProtocolStarts, PTL DEF ProtocolSpec

\* A registration whose host name is a word says how many applications it has,
\* and as many are there once it is received, from wherever.
LEMMA AllAreThere ==
    ASSUME ProtocolInv, phase = "received", IsRegistration, Len(msg.hostname) = 1
    PROVE  /\ Len(got_applications) = Len(applications) /\ Len(applications) \in Nat
           /\ IsSequence(got_applications)
  <1> DEFINE format == RegisterProcessManager.out
  <1>1. /\ Len(applications) \in Nat /\ Len(applications) \in 0..(Modulus - 1)
        /\ IsMessageOf(format, msg) /\ Layouts[type] = RegisterProcessManager
        /\ msg.application_count = Len(applications)
    BY ProtocolAssumption, RegistrationFields DEF ProtocolInv, MessageInv, IsRegistration
  <1>2. IsFormat(format) /\ RegisterProcessManager.in = format
    BY <1>1, LayoutsAgree DEF ProtocolInv, MessageInv, Agrees
  <1>3. got = Sscanf(format, Sprintf(format, msg))
    BY <1>1, <1>2 DEF ProtocolInv, TextInv, ReceivedInv
  <1>4. got.application_count = Len(applications)
    <2>1. /\ Len(format) = 6 /\ format[6].field = "application_count" /\ format[6].conv = "d"
          /\ \A j \in 1..6 : WellFormed(format[j], msg)
      BY RegistrationFields DEF D, WellFormed
    <2>2. SameValue(format[6], msg, got)
      <3> HIDE DEF format
      <3>1. 6 \in 1..Len(format) /\ \A j \in 1..6 : WellFormed(format[j], msg)
        BY <2>1
      <3>2. SameValue(format[6], msg, Sscanf(format, Sprintf(format, msg)))
        BY <1>1, <1>2, <3>1, FieldReturns
      <3> QED
        BY <1>3, <3>2
    <2> QED
      BY <1>1, <2>1, <2>2 DEF SameValue
  <1>5. /\ got.application_count # Junk => expected = got.application_count
        /\ Len(got_applications) = expected /\ IsSequence(got_applications)
    BY DEF ProtocolInv, ReceivedInv, LinesInv
  <1> QED
    BY <1>1, <1>4, <1>5 DEF Junk

\* They are read from the lines written for them when no other worker called
\* strtok meanwhile.
LEMMA AllLinesAreThere ==
    ASSUME ProtocolInv, phase = "received", IsRegistration, Len(msg.hostname) = 1, ~overlapped
    PROVE  \A k \in 1..Len(applications) :
              got_applications[k] = Sscanf(Application.out, Sprintf(Application.out, applications[k]))
  <1>1. Len(got_applications) = Len(applications) /\ Len(applications) \in Nat
    BY AllAreThere
  <1>2. /\ Len(got_applications) + Len(saved) = Len(text) - 1
        /\ \A k \in 1..Len(got_applications) :
               got_applications[k] = Sscanf(Application.in, text[k + 1])
        /\ Len(saved) \in Nat
    BY DEF ProtocolInv, ReceivedInv, LinesInv, IsSequence
  <1>3. PICK first \in 0..Len(applications) :
           /\ Len(text) = 1 + Len(applications) - first
           /\ \A k \in 1..(Len(applications) - first) :
                  text[k + 1] = Sprintf(Application.out, applications[first + k])
    BY DEF ProtocolInv, TextInv
  <1>4. first = 0
    BY <1>1, <1>2, <1>3
  <1>5. ASSUME NEW k \in 1..Len(applications)
        PROVE  text[k + 1] = Sprintf(Application.out, applications[k])
    <2>1. k \in 1..(Len(applications) - first) /\ first + k = k
      BY <1>1, <1>4
    <2> QED
      BY <1>3, <2>1
  <1>6. Application.in = Application.out
    BY ApplicationAgrees DEF Agrees
  <1> QED
    BY <1>1, <1>2, <1>5, <1>6

\* FieldsIntact, for every type of message, every width of a number and all
\* numbers, strings and applications: serializers and deserializers lose no
\* field before the first empty string or string with a blank.  Of the lines of
\* a registration's applications this holds when no other worker cut a text with
\* strtok between them.
THEOREM FieldsAreIntact == ProtocolSpec => []FieldsIntact
  <1>1. ASSUME ProtocolInv PROVE FieldsIntact
    <2> SUFFICES ASSUME phase = "received" PROVE
            /\ IntactUntilMalformed(Layouts[type].out, msg, got)
            /\ ~overlapped => \A k \in DOMAIN got_applications :
               (\A j \in 1..Len(Layouts[type].out) : WellFormed(Layouts[type].out[j], msg)) =>
                   IntactUntilMalformed(Application.out, applications[k], got_applications[k])
      BY DEF FieldsIntact
    <2>1. /\ IsFormat(Layouts[type].out) /\ Layouts[type].in = Layouts[type].out
          /\ IsMessageOf(Layouts[type].out, msg)
      BY <1>1, LayoutsAgree DEF ProtocolInv, MessageInv, Agrees
    <2>2. got = Sscanf(Layouts[type].out, Sprintf(Layouts[type].out, msg))
      BY <1>1, <2>1 DEF ProtocolInv, TextInv, ReceivedInv
    <2>3. IntactUntilMalformed(Layouts[type].out, msg, got)
      BY <2>1, <2>2, LineReturns
    <2>4. ASSUME ~overlapped, NEW k \in DOMAIN got_applications,
                 \A j \in 1..Len(Layouts[type].out) : WellFormed(Layouts[type].out[j], msg)
          PROVE  IntactUntilMalformed(Application.out, applications[k], got_applications[k])
      <3>1. IsRegistration
        BY <1>1, <2>4 DEF ProtocolInv, ReceivedInv
      <3>2. Len(msg.hostname) = 1
        BY <2>4, <3>1, RegistrationFields DEF IsRegistration, WellFormed
      <3>3. k \in 1..Len(applications)
        BY <1>1, <3>1, <3>2, AllAreThere DEF IsSequence
      <3>4. got_applications[k] = Sscanf(Application.out, Sprintf(Application.out, applications[k]))
        BY <1>1, <2>4, <3>1, <3>2, <3>3, AllLinesAreThere
      <3>5. IsFormat(Application.out) /\ IsMessageOf(Application.out, applications[k])
        BY <1>1, <3>3, ApplicationAgrees DEF Agrees, ProtocolInv, MessageInv
      <3> QED
        BY <3>4, <3>5, LineReturns
    <2> QED
      BY <2>3, <2>4
  <1> QED
    BY <1>1, ProtocolInvariance, PTL

\* WholeOrCrash, whatever value the uninitialized loop variable of the serializer
\* starts from and whatever texts other workers cut meanwhile: a process manager
\* that the server registers has as many applications as it said, and they are
\* its own when no other worker called strtok between its lines.
THEOREM RegistrationsAreWhole == ProtocolSpec => []WholeOrCrash
  <1>1. ASSUME ProtocolInv PROVE WholeOrCrash
    <2> SUFFICES ASSUME phase = "received", IsRegistration, Len(msg.hostname) = 1
                 PROVE  /\ Len(got_applications) = Len(applications)
                        /\ ~overlapped => \A k \in DOMAIN applications :
                              got_applications[k].application_index =
                                  applications[k].application_index
      BY DEF WholeOrCrash
    <2>1. Len(got_applications) = Len(applications)
      BY <1>1, AllAreThere
    <2>2. ASSUME ~overlapped, NEW k \in DOMAIN applications
          PROVE  got_applications[k].application_index = applications[k].application_index
      <3>1. k \in 1..Len(applications)
        BY <1>1 DEF ProtocolInv, MessageInv
      <3>2. got_applications[k] = Sscanf(Application.out, Sprintf(Application.out, applications[k]))
        BY <1>1, <2>2, <3>1, AllLinesAreThere
      <3>3. IsFormat(Application.out) /\ IsMessageOf(Application.out, applications[k])
        BY <1>1, <3>1, ApplicationAgrees DEF Agrees, ProtocolInv, MessageInv
      <3>4. /\ Len(Application.out) = 4 /\ Application.out[1].conv = "d"
            /\ Application.out[1].field = "application_index"
        BY RegistrationFields DEF D
      <3>5. SameValue(Application.out[1], applications[k], got_applications[k])
        BY <3>2, <3>3, <3>4, FieldReturns DEF WellFormed
      <3> QED
        BY <3>4, <3>5 DEF SameValue
    <2> QED
      BY <2>1, <2>2
  <1> QED
    BY <1>1, ProtocolInvariance, PTL
=============================================================================
