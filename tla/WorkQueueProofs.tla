-------------------------- MODULE WorkQueueProofs --------------------------
(***************************************************************************)
(* Proofs about the thread pool for every number of workers and of units.  *)
(***************************************************************************)
EXTENDS WorkQueue, TLAPS

-----------------------------------------------------------------------------
(* Sequences as lists: what Append and Tail do to the set of elements. *)

\* Appending adds one element to the range (dynpm_work_queue_add).
LEMMA RangeAppend ==
    ASSUME NEW S, NEW s \in Seq(S), NEW e \in S
    PROVE  Range(Append(s, e)) = Range(s) \cup {e}
  <1>1. /\ Len(Append(s, e)) = Len(s) + 1
        /\ Len(s) \in Nat
        /\ DOMAIN s = 1..Len(s)
        /\ DOMAIN Append(s, e) = 1..(Len(s) + 1)
        /\ \A i \in 1..Len(s) : Append(s, e)[i] = s[i]
        /\ Append(s, e)[Len(s) + 1] = e
    OBVIOUS
  <1>2. 1..(Len(s) + 1) = 1..Len(s) \cup {Len(s) + 1}
    BY <1>1
  <1> QED
    BY <1>1, <1>2, Zenon DEF Range

\* The elements of a list are elements.
LEMMA RangeIn ==
    ASSUME NEW S, NEW s \in Seq(S)
    PROVE  Range(s) \subseteq S
  <1>1. DOMAIN s = 1..Len(s) /\ \A i \in 1..Len(s) : s[i] \in S
    OBVIOUS
  <1> QED
    BY <1>1, Zenon DEF Range

\* Unlinking the head removes it from the list (queue_thread).
LEMMA RangeTail ==
    ASSUME NEW S, NEW s \in Seq(S), s # <<>>
    PROVE  /\ Tail(s) \in Seq(S)
           /\ Head(s) \in S
           /\ Head(s) = s[1]
           /\ Len(s) \in Nat /\ Len(s) >= 1
           /\ Len(Tail(s)) = Len(s) - 1
           /\ \A i \in 1..(Len(s) - 1) : Tail(s)[i] = s[i + 1]
           /\ Range(s) = {Head(s)} \cup Range(Tail(s))
  <1>1. /\ Tail(s) \in Seq(S)
        /\ Head(s) \in S
        /\ Head(s) = s[1]
        /\ Len(s) \in Nat /\ Len(s) >= 1
        /\ Len(Tail(s)) = Len(s) - 1
        /\ DOMAIN s = 1..Len(s)
        /\ DOMAIN Tail(s) = 1..(Len(s) - 1)
        /\ \A i \in 1..(Len(s) - 1) : Tail(s)[i] = s[i + 1]
    OBVIOUS
  <1>2. ASSUME NEW x \in Range(s)
        PROVE  x = Head(s) \/ x \in Range(Tail(s))
    <2>1. PICK i \in 1..Len(s) : x = s[i]
      BY <1>1, Zenon DEF Range
    <2>2. CASE i = 1
      BY <2>1, <2>2, <1>1
    <2>3. CASE i # 1
      <3>1. i - 1 \in 1..(Len(s) - 1) /\ (i - 1) + 1 = i
        BY <2>3, <1>1
      <3>2. Tail(s)[i - 1] = x
        BY <3>1, <1>1, <2>1
      <3> QED
        BY <3>1, <3>2, <1>1, Zenon DEF Range
    <2> QED
      BY <2>2, <2>3
  <1>3. Head(s) \in Range(s)
    <2>1. 1 \in 1..Len(s)
      BY <1>1
    <2> QED
      BY <2>1, <1>1, Zenon DEF Range
  <1>4. ASSUME NEW x \in Range(Tail(s))
        PROVE  x \in Range(s)
    <2>1. PICK i \in 1..(Len(s) - 1) : x = Tail(s)[i]
      BY <1>1, Zenon DEF Range
    <2>2. i + 1 \in 1..Len(s) /\ x = s[i + 1]
      BY <2>1, <1>1
    <2> QED
      BY <2>2, <1>1, Zenon DEF Range
  <1> QED
    BY <1>1, <1>2, <1>3, <1>4, Zenon

-----------------------------------------------------------------------------
(* The inductive invariant. *)

\* What the control state says: which workers exist, which of them finalize
\* can reach, and that a worker ends only when finalize told it to.
PoolInv ==
    /\ init_pc = "link" => created >= 1
    /\ init_pc = "ok" => created = ThreadCount /\ ThreadCount >= 1
    /\ \A w \in Workers : pc[w] = "none" <=> w > created
    /\ ~finalized => thread_data = IF init_pc = "link" THEN 1..(created - 1)
                                                       ELSE 1..created
    /\ finalized => init_pc \in {"ok", "error"} /\ thread_data = {}
    /\ \A w \in Workers : terminate[w] <=> (finalized /\ w <= created)
    /\ \A w \in Workers : pc[w] \in {"exit", "freed"} => terminate[w]

\* The list is increasing and beyond everything that has left it.
QueueInv ==
    /\ \A i \in 1..Len(work_units) : work_units[i] <= added
    /\ \A i, j \in 1..Len(work_units) : i < j => work_units[i] < work_units[j]
    /\ \A u \in started \cup dropped, i \in 1..Len(work_units) : u < work_units[i]
    /\ 1..added = Range(work_units) \cup started \cup dropped
    /\ started \cap dropped = {}
    /\ \A w \in Workers : unit[w] # 0 => unit[w] \in started
    /\ \A v, w \in Workers : unit[v] = unit[w] /\ unit[v] # 0 => v = w

IInv == TypeOK /\ PoolInv /\ QueueInv /\ NoLostWakeup

-----------------------------------------------------------------------------
(* Every step preserves each part of it. *)

\* A step keeps every variable in its type.
LEMMA TypeStep ==
    TypeOK /\ PoolInv /\ [Next]_vars => TypeOK'
  <1> SUFFICES ASSUME TypeOK, PoolInv, [Next]_vars
               PROVE  TypeOK'
    OBVIOUS
  <1> USE PoolAssumption DEF Workers, Units
  <1>1. CASE CreateThread
    BY <1>1 DEF CreateThread, MoreThreads, TypeOK
  <1>2. CASE LinkThread
    BY <1>2 DEF LinkThread, MoreThreads, TypeOK, PoolInv
  <1>3. CASE InitFails
    BY <1>3 DEF InitFails, TypeOK
  <1>4. ASSUME NEW w \in Workers, Worker(w) \/ SpuriousWakeup(w)
        PROVE  TypeOK'
    <2>1. CASE Wait(w)
      BY <2>1 DEF Wait, TypeOK
    <2>2. CASE Take(w)
      <3>1. Tail(work_units) \in Seq(Units) /\ Head(work_units) \in Units
        BY <2>2, RangeTail DEF Take, TypeOK
      <3> QED
        BY <2>2, <3>1 DEF Take, TypeOK
    <2>3. CASE Finish(w)
      BY <2>3 DEF Finish, TypeOK
    <2>4. CASE Leave(w)
      BY <2>4 DEF Leave, TypeOK
    <2>5. CASE Free(w)
      BY <2>5 DEF Free, TypeOK
    <2>6. CASE SpuriousWakeup(w)
      BY <2>6 DEF SpuriousWakeup, TypeOK
    <2> QED
      BY <1>4, <2>1, <2>2, <2>3, <2>4, <2>5, <2>6 DEF Worker
  <1>5. CASE Add
    <2>1. added + 1 \in Units /\ added' = added + 1
      BY <1>5 DEF Add, TypeOK
    <2>2. work_units' \in Seq(Units)
      BY <1>5, <2>1 DEF Add, TypeOK
    <2>3. pc' \in [Workers -> {"none", "lock", "wait", "run", "exit", "freed"}]
      BY <1>5 DEF Add, Signal, Waiting, TypeOK
    <2> QED
      BY <1>5, <2>1, <2>2, <2>3 DEF Add, TypeOK
  <1>6. CASE Finalize
    <2>1. dropped' \subseteq Units
      <3>1. Range(work_units) \subseteq Units
        BY RangeIn DEF TypeOK
      <3> QED
        BY <1>6, <3>1 DEF Finalize, TypeOK
    <2>2. terminate' \in [Workers -> BOOLEAN]
      BY <1>6, Zenon DEF Finalize, TypeOK
    <2>3. pc' \in [Workers -> {"none", "lock", "wait", "run", "exit", "freed"}]
      BY <1>6 DEF Finalize, TypeOK
    <2> QED
      BY <1>6, <2>1, <2>2, <2>3 DEF Finalize, TypeOK
  <1>7. CASE UNCHANGED vars
    BY <1>7 DEF vars, TypeOK
  <1> QED
    BY <1>1, <1>2, <1>3, <1>4, <1>5, <1>6, <1>7 DEF Next

\* A step keeps the accounts of workers, thread_data and terminate.
LEMMA PoolStep ==
    TypeOK /\ PoolInv /\ [Next]_vars => PoolInv'
  <1> SUFFICES ASSUME TypeOK, PoolInv, [Next]_vars
               PROVE  PoolInv'
    OBVIOUS
  <1> USE PoolAssumption DEF Workers
  <1>1. CASE CreateThread
    BY <1>1 DEF CreateThread, MoreThreads, TypeOK, PoolInv
  <1>2. CASE LinkThread
    BY <1>2 DEF LinkThread, MoreThreads, TypeOK, PoolInv
  <1>3. CASE InitFails
    BY <1>3 DEF InitFails, TypeOK, PoolInv
  <1>4. ASSUME NEW w \in Workers, Worker(w) \/ SpuriousWakeup(w)
        PROVE  PoolInv'
    <2>1. CASE Wait(w)
      BY <2>1 DEF Wait, TypeOK, PoolInv
    <2>2. CASE Take(w)
      BY <2>2 DEF Take, TypeOK, PoolInv
    <2>3. CASE Finish(w)
      BY <2>3 DEF Finish, TypeOK, PoolInv
    <2>4. CASE Leave(w)
      BY <2>4 DEF Leave, TypeOK, PoolInv
    <2>5. CASE Free(w)
      BY <2>5 DEF Free, TypeOK, PoolInv
    <2>6. CASE SpuriousWakeup(w)
      BY <2>6 DEF SpuriousWakeup, TypeOK, PoolInv
    <2> QED
      BY <1>4, <2>1, <2>2, <2>3, <2>4, <2>5, <2>6 DEF Worker
  <1>5. CASE Add
    <2>1. \A w \in Workers : \/ pc'[w] = pc[w]
                             \/ pc[w] = "wait" /\ pc'[w] = "lock"
      BY <1>5 DEF Add, Signal, Waiting, TypeOK
    <2> QED
      BY <1>5, <2>1 DEF Add, TypeOK, PoolInv
  <1>6. CASE Finalize
    <2>1. \A w \in Workers : terminate'[w] <=> (terminate[w] \/ w \in thread_data)
      BY <1>6, Zenon DEF Finalize
    <2>2. \A w \in Workers : w <= created => terminate'[w]
      <3>1. CASE finalized
        BY <2>1, <3>1 DEF PoolInv
      <3>2. CASE ~finalized
        <4>1. \A w \in Workers : w <= created => w \in thread_data
          BY <1>6, <3>2 DEF Finalize, TypeOK, PoolInv
        <4> QED
          BY <2>1, <4>1
      <3> QED
        BY <3>1, <3>2
    <2>3. \A w \in Workers : terminate'[w] => w <= created
      <3>1. \A w \in Workers : w \in thread_data => w <= created
        BY <1>6 DEF Finalize, TypeOK, PoolInv
      <3> QED
        BY <2>1, <3>1 DEF PoolInv
    <2>4. \A w \in Workers : pc'[w] = IF pc[w] = "wait" THEN "lock" ELSE pc[w]
      BY <1>6 DEF Finalize
    <2>5. /\ finalized' = TRUE /\ thread_data' = {}
          /\ init_pc' = init_pc /\ created' = created
          /\ init_pc \in {"ok", "error"}
      BY <1>6 DEF Finalize
    <2>6. \A w \in Workers : pc'[w] \in {"exit", "freed"} => terminate'[w]
      BY <2>1, <2>4 DEF PoolInv
    <2>7. \A w \in Workers : pc'[w] = "none" <=> w > created
      BY <2>4 DEF PoolInv
    <2>8. \A w \in Workers : terminate'[w] <=> w <= created
      BY <2>2, <2>3
    <2> QED
      BY <2>5, <2>6, <2>7, <2>8 DEF PoolInv
  <1>7. CASE UNCHANGED vars
    BY <1>7 DEF vars, PoolInv
  <1> QED
    BY <1>1, <1>2, <1>3, <1>4, <1>5, <1>6, <1>7 DEF Next

\* A step keeps the list increasing and the units accounted for.
LEMMA QueueStep ==
    TypeOK /\ QueueInv /\ [Next]_vars => QueueInv'
  <1> SUFFICES ASSUME TypeOK, QueueInv, [Next]_vars
               PROVE  QueueInv'
    OBVIOUS
  <1> USE PoolAssumption DEF Workers, Units
  <1>1. CASE UNCHANGED <<work_units, unit, added, started, dropped>>
    BY <1>1 DEF QueueInv
  <1>2. ASSUME NEW w \in Workers, Finish(w)
        PROVE  QueueInv'
    <2>1. /\ unit' = [unit EXCEPT ![w] = 0]
          /\ UNCHANGED <<work_units, added, started, dropped>>
      BY <1>2 DEF Finish
    <2>2. /\ \A v \in Workers : unit'[v] # 0 => unit'[v] = unit[v]
      BY <2>1 DEF TypeOK
    <2>3. /\ \A v \in Workers : unit'[v] # 0 => unit'[v] \in started
          /\ \A u, v \in Workers : unit'[u] = unit'[v] /\ unit'[u] # 0 => u = v
      BY <2>2 DEF QueueInv
    <2> QED
      BY <2>1, <2>3 DEF QueueInv
  <1>3. ASSUME NEW w \in Workers, Take(w)
        PROVE  QueueInv'
    <2> DEFINE h == Head(work_units)
               n == Len(work_units)
    <2>1. /\ work_units # <<>>
          /\ work_units \in Seq(Units)
          /\ work_units' = Tail(work_units)
          /\ unit' = [unit EXCEPT ![w] = h]
          /\ started' = started \cup {h}
          /\ UNCHANGED <<added, dropped>>
      BY <1>3 DEF Take, TypeOK
    <2>2. /\ h \in Units
          /\ h = work_units[1]
          /\ n \in Nat /\ n >= 1
          /\ Len(work_units') = n - 1
          /\ \A i \in 1..(n - 1) : work_units'[i] = work_units[i + 1]
          /\ Range(work_units) = {h} \cup Range(work_units')
      BY <2>1, RangeTail
    <2>3. /\ \A i \in 1..n : work_units[i] \in Units /\ work_units[i] <= added
          /\ \A i, j \in 1..n : i < j => work_units[i] < work_units[j]
          /\ \A u \in started \cup dropped, i \in 1..n : u < work_units[i]
      BY <2>1, <2>2 DEF QueueInv
    <2>4. \A i \in 1..(n - 1) : i + 1 \in 1..n /\ 1 \in 1..n /\ 1 < i + 1
      BY <2>2
    <2>5. \A i \in 1..(n - 1) : work_units'[i] <= added
      BY <2>2, <2>3, <2>4
    <2>6. \A i, j \in 1..(n - 1) : i < j => work_units'[i] < work_units'[j]
      <3> SUFFICES ASSUME NEW i \in 1..(n - 1), NEW j \in 1..(n - 1), i < j
                   PROVE  work_units'[i] < work_units'[j]
        OBVIOUS
      <3>1. i + 1 < j + 1 /\ i + 1 \in 1..n /\ j + 1 \in 1..n
        BY <2>2
      <3> QED
        BY <3>1, <2>2, <2>3
    <2>7. \A u \in started' \cup dropped', i \in 1..(n - 1) : u < work_units'[i]
      <3> SUFFICES ASSUME NEW u \in started' \cup dropped', NEW i \in 1..(n - 1)
                   PROVE  u < work_units[i + 1]
        BY <2>2
      <3>1. CASE u = h
        BY <3>1, <2>2, <2>3, <2>4
      <3>2. CASE u # h
        BY <3>2, <2>1, <2>3, <2>4
      <3> QED
        BY <3>1, <3>2
    <2>8. 1..added = Range(work_units') \cup started' \cup dropped'
      BY <2>1, <2>2, Zenon DEF QueueInv
    <2>9. h \notin started \cup dropped
      BY <2>2, <2>3
    <2>10. started' \cap dropped' = {}
      BY <2>1, <2>9 DEF QueueInv
    <2>11. \A v \in Workers : unit'[v] = IF v = w THEN h ELSE unit[v]
      BY <2>1 DEF TypeOK
    <2>12. /\ \A v \in Workers : unit'[v] # 0 => unit'[v] \in started'
           /\ \A u, v \in Workers : unit'[u] = unit'[v] /\ unit'[u] # 0 => u = v
      BY <2>1, <2>9, <2>11 DEF QueueInv
    <2> QED
      BY <2>1, <2>2, <2>5, <2>6, <2>7, <2>8, <2>10, <2>12 DEF QueueInv
  <1>4. CASE Add
    <2> DEFINE n == Len(work_units)
    <2>1. /\ added' = added + 1
          /\ added + 1 \in Units
          /\ added \in Nat
          /\ work_units \in Seq(Units)
          /\ work_units' = Append(work_units, added + 1)
          /\ UNCHANGED <<unit, started, dropped>>
      BY <1>4 DEF Add, TypeOK
    <2>2. /\ n \in Nat
          /\ Len(work_units') = n + 1
          /\ \A i \in 1..n : work_units'[i] = work_units[i]
          /\ work_units'[n + 1] = added + 1
          /\ \A i \in 1..n : work_units[i] \in Units
      BY <2>1
    <2>3. Range(work_units') = Range(work_units) \cup {added + 1}
      BY <2>1, RangeAppend
    <2>4. 1..(added + 1) = 1..added \cup {added + 1}
      BY <2>1
    <2>5. 1..added' = Range(work_units') \cup started' \cup dropped'
      BY <2>1, <2>3, <2>4, Zenon DEF QueueInv
    <2>6. \A i \in 1..(n + 1) : work_units'[i] <= added + 1
      BY <2>1, <2>2 DEF QueueInv
    <2>7. \A i, j \in 1..(n + 1) : i < j => work_units'[i] < work_units'[j]
      BY <2>1, <2>2 DEF QueueInv
    <2>8. \A u \in started \cup dropped : u \in 1..added
      BY Zenon DEF QueueInv
    <2>9. \A u \in started \cup dropped, i \in 1..(n + 1) : u < work_units'[i]
      BY <2>1, <2>2, <2>8 DEF QueueInv
    <2> QED
      BY <2>1, <2>2, <2>5, <2>6, <2>7, <2>9 DEF QueueInv
  <1>5. CASE Finalize
    <2>1. /\ work_units' = <<>>
          /\ dropped' = dropped \cup Range(work_units)
          /\ UNCHANGED <<unit, added, started>>
      BY <1>5 DEF Finalize
    <2>2. Len(work_units') = 0 /\ 1..Len(work_units') = {} /\ DOMAIN work_units' = {}
      BY <2>1
    <2>3. Range(work_units') = {}
      BY <2>2, Zenon DEF Range
    <2>4. \A u \in started : u \notin Range(work_units)
      <3> SUFFICES ASSUME NEW u \in started, u \in Range(work_units)
                   PROVE  FALSE
        OBVIOUS
      <3>1. DOMAIN work_units = 1..Len(work_units)
        BY DEF TypeOK
      <3>2. PICK i \in 1..Len(work_units) : u = work_units[i]
        BY <3>1, Zenon DEF Range
      <3>3. u < work_units[i] /\ u \in Nat
        BY DEF QueueInv, TypeOK
      <3> QED
        BY <3>2, <3>3
    <2>5. 1..added' = Range(work_units') \cup started' \cup dropped'
      BY <2>1, <2>3, Zenon DEF QueueInv
    <2>6. started' \cap dropped' = {}
      BY <2>1, <2>4, Zenon DEF QueueInv
    <2> QED
      BY <2>1, <2>2, <2>5, <2>6 DEF QueueInv
  <1> QED
    BY <1>1, <1>2, <1>3, <1>4, <1>5
    DEF Next, Worker, CreateThread, LinkThread, InitFails, Wait, Leave, Free,
        SpuriousWakeup, vars

\* A step leaves a worker awake while there is work: the one interesting case
\* is Add, whose signal finds a waiter unless every worker is awake already.
LEMMA WakeStep ==
    TypeOK /\ PoolInv /\ NoLostWakeup /\ [Next]_vars => NoLostWakeup'
  <1> SUFFICES ASSUME TypeOK, PoolInv, NoLostWakeup, [Next]_vars,
                      work_units' # <<>>, ~finalized'
               PROVE  \E w \in Workers : pc'[w] \in {"lock", "run"}
    BY DEF NoLostWakeup
  <1> USE PoolAssumption DEF Workers
  <1>1. CASE CreateThread
    BY <1>1 DEF CreateThread, MoreThreads, TypeOK
  <1>2. CASE LinkThread \/ InitFails \/ UNCHANGED vars
    BY <1>2 DEF LinkThread, InitFails, vars, NoLostWakeup
  <1>3. ASSUME NEW w \in Workers, Worker(w) \/ SpuriousWakeup(w)
        PROVE  \E v \in Workers : pc'[v] \in {"lock", "run"}
    <2>1. CASE Wait(w)
      BY <2>1 DEF Wait
    <2>2. CASE Take(w) \/ Finish(w) \/ SpuriousWakeup(w)
      BY <2>2 DEF Take, Finish, SpuriousWakeup, TypeOK
    <2>3. CASE Leave(w) \/ Free(w)
      BY <2>3 DEF Leave, Free, PoolInv
    <2> QED
      BY <1>3, <2>1, <2>2, <2>3 DEF Worker
  <1>4. CASE Add
    <2>1. Signal /\ ~finalized /\ init_pc = "ok"
      BY <1>4 DEF Add
    <2>2. CASE Waiting = {} /\ UNCHANGED pc
      <3>1. 1 \in Workers /\ pc[1] # "none" /\ pc[1] # "wait"
        BY <2>1, <2>2 DEF PoolInv, Waiting
      <3>2. pc[1] \notin {"exit", "freed"}
        BY <3>1, <2>1 DEF PoolInv
      <3> QED
        BY <2>2, <3>1, <3>2 DEF TypeOK
    <2>3. ASSUME NEW w \in Waiting, pc' = [pc EXCEPT ![w] = "lock"]
          PROVE  \E v \in Workers : pc'[v] \in {"lock", "run"}
      BY <2>3 DEF Waiting, TypeOK
    <2> QED
      BY <2>1, <2>2, <2>3 DEF Signal
  <1>5. CASE Finalize
    BY <1>5 DEF Finalize
  <1> QED
    BY <1>1, <1>2, <1>3, <1>4, <1>5 DEF Next

-----------------------------------------------------------------------------
(* The theorems. *)

\* IInv is an invariant of the pool.
THEOREM Invariance == Spec => []IInv
  <1>1. Init => IInv
    <2> SUFFICES ASSUME Init PROVE IInv
      OBVIOUS
    <2> USE PoolAssumption DEF Init, Workers, Units
    <2>1. TypeOK
      <3>1. terminate \in [Workers -> BOOLEAN] /\ finalized \in BOOLEAN
        BY Zenon
      <3>2. work_units \in Seq(Units) /\ added \in 0..MaxUnits /\ created \in 0..ThreadCount
        OBVIOUS
      <3> QED
        BY <3>1, <3>2 DEF TypeOK
    <2>2. PoolInv
      BY DEF PoolInv
    <2>3. Len(work_units) = 0 /\ DOMAIN work_units = {} /\ 1..0 = {}
      OBVIOUS
    <2>4. Range(work_units) = {}
      BY <2>3, Zenon DEF Range
    <2>5. QueueInv
      BY <2>3, <2>4 DEF QueueInv
    <2> QED
      BY <2>1, <2>2, <2>5 DEF IInv, NoLostWakeup
  <1>2. IInv /\ [Next]_vars => IInv'
    BY TypeStep, PoolStep, QueueStep, WakeStep DEF IInv
  <1> QED
    BY <1>1, <1>2, PTL DEF Spec

\* Every variable keeps its type in every pool.
THEOREM TypeCorrect == Spec => []TypeOK
  <1>1. IInv => TypeOK
    BY DEF IInv
  <1> QED
    BY <1>1, Invariance, PTL

\* Units are taken in the order in which they were added, by however many
\* workers: what is queued is beyond everything taken.
THEOREM OrderedStart == Spec => []StartOrder
  <1>1. IInv => StartOrder
    <2> SUFFICES ASSUME IInv, NEW u \in started, NEW v \in 1..added, v < u,
                        v \notin started \cup dropped
                 PROVE  FALSE
      BY DEF StartOrder
    <2>1. v \in Range(work_units)
      BY Zenon DEF IInv, QueueInv
    <2>2. DOMAIN work_units = 1..Len(work_units)
      BY DEF IInv, TypeOK
    <2>3. PICK i \in 1..Len(work_units) : v = work_units[i]
      BY <2>1, <2>2, Zenon DEF Range
    <2>4. u < work_units[i]
      BY DEF IInv, QueueInv
    <2> QED
      BY <2>3, <2>4 DEF IInv, TypeOK, Units
  <1> QED
    BY <1>1, Invariance, PTL

\* A unit is in the list once, taken once or discarded: never lost, never
\* run twice.
THEOREM ExactlyOneOutcome == Spec => []OneOutcome
  <1>1. IInv => OneOutcome
    <2> SUFFICES ASSUME IInv PROVE OneOutcome
      OBVIOUS
    <2>1. /\ DOMAIN work_units = 1..Len(work_units)
          /\ Len(work_units) \in Nat
          /\ \A i \in 1..Len(work_units) : work_units[i] \in Nat
          /\ started \subseteq Nat /\ dropped \subseteq Nat
      BY PoolAssumption DEF IInv, TypeOK, Units
    <2>2. \A i, j \in DOMAIN work_units : work_units[i] = work_units[j] => i = j
      BY <2>1 DEF IInv, QueueInv
    <2>3. ASSUME NEW u \in Range(work_units), u \in started \cup dropped
          PROVE  FALSE
      <3>1. PICK i \in 1..Len(work_units) : u = work_units[i]
        BY <2>1, Zenon DEF Range
      <3>2. u < work_units[i]
        BY <2>3 DEF IInv, QueueInv
      <3> QED
        BY <2>1, <3>1, <3>2
    <2>4. Range(work_units) \cap (started \cup dropped) = {}
      BY <2>3, Zenon
    <2>5. /\ 1..added = Range(work_units) \cup started \cup dropped
          /\ started \cap dropped = {}
          /\ \A v, w \in Workers : unit[v] = unit[w] /\ unit[v] # 0 => v = w
      BY DEF IInv, QueueInv
    <2> QED
      BY <2>2, <2>4, <2>5, Zenon DEF OneOutcome
  <1> QED
    BY <1>1, Invariance, PTL

\* One signal per added unit never leaves work behind sleeping workers.
THEOREM WakeupsSuffice == Spec => []NoLostWakeup
  <1>1. IInv => NoLostWakeup
    BY DEF IInv
  <1> QED
    BY <1>1, Invariance, PTL

\* finalize walks only thread data that its worker has not freed.
THEOREM FinalizeIsSafe == Spec => []LinkedNotFreed
  <1>1. IInv => LinkedNotFreed
    BY DEF IInv, TypeOK, PoolInv, LinkedNotFreed
  <1> QED
    BY <1>1, Invariance, PTL

\* After a finalize no worker takes another unit.
THEOREM FinalizeStopsWork == Spec => NoStartAfterFinalize
  <1>1. IInv /\ [Next]_vars => [finalized => started' = started]_vars
    <2> SUFFICES ASSUME IInv, Next, finalized
                 PROVE  started' = started
      OBVIOUS
    <2>1. ASSUME NEW w \in Workers, Take(w)
          PROVE  FALSE
      BY <2>1, PoolAssumption DEF Take, IInv, TypeOK, PoolInv, Workers
    <2> QED
      BY <2>1 DEF Next, Worker, CreateThread, LinkThread, InitFails, Wait, Finish,
                  Leave, Free, SpuriousWakeup, Add, Finalize
  <1> QED
    BY <1>1, Invariance, PTL DEF Spec, NoStartAfterFinalize

\* A worker has a unit exactly while it runs one.
BusyInv == \A w \in Workers : unit[w] # 0 <=> pc[w] = "run"

\* queue_thread takes a unit, runs it and forgets it before it looks again.
LEMMA BusyStep == IInv /\ BusyInv /\ [Next]_vars => BusyInv'
  <1> SUFFICES ASSUME TypeOK, PoolInv, BusyInv, [Next]_vars
               PROVE  BusyInv'
    BY DEF IInv
  <1> USE PoolAssumption DEF TypeOK, BusyInv, Workers
  <1>1. CASE UNCHANGED vars \/ LinkThread \/ InitFails
    BY <1>1 DEF vars, LinkThread, InitFails
  <1>2. CASE CreateThread
    <2>1. created' \in Workers /\ pc[created'] = "none"
      BY <1>2 DEF CreateThread, MoreThreads, PoolInv
    <2> QED
      BY <1>2, <2>1 DEF CreateThread
  <1>3. ASSUME NEW w \in Workers, Worker(w) \/ SpuriousWakeup(w)
        PROVE  BusyInv'
    <2>1. CASE Wait(w) \/ Leave(w) \/ Free(w) \/ SpuriousWakeup(w)
      BY <2>1 DEF Wait, Leave, Free, SpuriousWakeup
    <2>2. CASE Take(w)
      <3>1. Head(work_units) # 0
        BY <2>2 DEF Take, Units
      <3> QED
        BY <2>2, <3>1 DEF Take
    <2>3. CASE Finish(w)
      BY <2>3 DEF Finish
    <2> QED
      BY <1>3, <2>1, <2>2, <2>3 DEF Worker
  <1>4. CASE Add
    BY <1>4 DEF Add, Signal, Waiting
  <1>5. CASE Finalize
    BY <1>5 DEF Finalize
  <1> QED
    BY <1>1, <1>2, <1>3, <1>4, <1>5 DEF Next

\* The thread pool implements the abstract pool of module WorkPool: every
\* critical section of queue.c is one step of it or leaves it unchanged.
THEOREM PoolIsImplemented == Spec => ImplementsPool
  <1>1. Init => Pool!Init
    BY DEF Init, Pool!Init
  <1>2. IInv /\ BusyInv /\ [Next]_vars => [Pool!Next]_(Pool!pool)
    <2> SUFFICES ASSUME IInv, BusyInv, [Next]_vars
                 PROVE  [Pool!Next]_(Pool!pool)
      OBVIOUS
    <2>1. ASSUME NEW w \in Workers, Take(w)
          PROVE  Pool!Start(w)
      <3>1. ~finalized /\ unit[w] = 0
        BY <2>1, PoolAssumption DEF Take, IInv, TypeOK, PoolInv, BusyInv, Workers
      <3> QED
        BY <2>1, <3>1 DEF Take, Pool!Start
    <2>2. ASSUME NEW w \in Workers, Finish(w)
          PROVE  Pool!End(w)
      <3>1. unit[w] # 0
        BY <2>2 DEF Finish, BusyInv
      <3> QED
        BY <2>2, <3>1 DEF Finish, Pool!End
    <2>3. ASSUME Add
          PROVE  \E u \in Units : Pool!Submit(u)
      <3>1. added' \in Units
        BY <2>3, PoolAssumption DEF Add, IInv, TypeOK, Units
      <3> QED
        BY <2>3, <3>1 DEF Add, Pool!Submit
    <2>4. ASSUME Finalize
          PROVE  Pool!Stop
      BY <2>4 DEF Finalize, Pool!Stop
    <2>5. ASSUME \/ UNCHANGED vars
                 \/ CreateThread \/ LinkThread \/ InitFails
                 \/ \E w \in Workers : Wait(w) \/ Leave(w) \/ Free(w) \/ SpuriousWakeup(w)
          PROVE  UNCHANGED Pool!pool
      BY <2>5 DEF vars, CreateThread, LinkThread, InitFails, Wait, Leave, Free,
                  SpuriousWakeup, Pool!pool
    <2> QED
      BY <2>1, <2>2, <2>3, <2>4, <2>5 DEF Next, Worker, Pool!Next
  <1>3. Init => BusyInv
    BY DEF Init, BusyInv
  <1> QED
    BY <1>1, <1>2, <1>3, BusyStep, Invariance, PTL DEF Spec, ImplementsPool, Pool!Spec
=============================================================================
