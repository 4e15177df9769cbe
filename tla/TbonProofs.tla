----------------------------- MODULE TbonProofs -----------------------------
(* Proofs about the tree for every degree, number of nodes and deadline. *)
EXTENDS TbonWaits, FiniteSetTheorems, WellFoundedInduction, TLAPS

\* Division by the degree undoes the numbering of the children.
LEMMA ChildDiv ==
    ASSUME NEW d \in Nat \ {0}, NEW v \in Nat, NEW i \in 0..(d - 1)
    PROVE  (d * v + i) \div d = v
  <1>1. d * v \in Nat
    OBVIOUS
  <1> QED
    BY <1>1, Z3

\* Every number has a quotient and a remainder.
LEMMA DivMod ==
    ASSUME NEW d \in Nat \ {0}, NEW n \in Nat
    PROVE  /\ n \div d \in Nat
           /\ d * (n \div d) <= n
           /\ n - d * (n \div d) \in 0..(d - 1)
  BY Z3

\* A child's number, whatever the vertex and the slot, without the cut at total.
LEMMA ChildNumber ==
    ASSUME NEW v \in Nodes, NEW i \in Slots
    PROVE  /\ Degree * v + i + 1 \in Nat
           /\ v < Degree * v + i + 1
           /\ Degree * v + i + 1 < Total => ChildId(v, i) = Degree * v + i + 1
           /\ Degree * v + i + 1 >= Total => ChildId(v, i) = -1
           /\ ((Degree * v + i + 1) - 1) \div Degree = v
  <1>1. Degree \in Nat \ {0} /\ v \in Nat /\ i \in 0..(Degree - 1) /\ i \in Nat
    BY TbonAssumption DEF Nodes, Slots
  <1>2. Degree * v \in Nat /\ v <= Degree * v
    BY <1>1, Z3
  <1>3. (Degree * v + i + 1) - 1 = Degree * v + i
    BY <1>1, <1>2
  <1>4. (Degree * v + i) \div Degree = v
    BY <1>1, ChildDiv
  <1> QED
    BY <1>1, <1>2, <1>3, <1>4, TbonAssumption DEF ChildId

\* A slot holds a child exactly when that child's formula gives the vertex.
LEMMA ChildIffParent ==
    ASSUME NEW v \in Nodes, NEW c \in Nodes
    PROVE  (\E i \in Slots : ChildId(v, i) = c) <=> ParentId(c) = v
  <1>1. ASSUME NEW i \in Slots, ChildId(v, i) = c
        PROVE  ParentId(c) = v
    <2>1. c \in Nat /\ v \in Nat
      BY TbonAssumption DEF Nodes
    <2>2. c = Degree * v + i + 1
      BY <1>1, <2>1, ChildNumber, TbonAssumption
    <2>3. c # 0 /\ (c - 1) \div Degree = v
      BY <2>1, <2>2, ChildNumber
    <2> QED
      BY <2>3 DEF ParentId
  <1>2. ASSUME ParentId(c) = v
        PROVE  \E i \in Slots : ChildId(v, i) = c
    <2> DEFINE i == (c - 1) - Degree * v
    <2>1. c # 0
      BY <1>2, TbonAssumption DEF ParentId, Nodes
    <2>2. c - 1 \in Nat /\ c < Total /\ v \in Nat /\ c \in Nat
      BY <2>1, TbonAssumption DEF Nodes
    <2>3. v = (c - 1) \div Degree
      BY <1>2, <2>1 DEF ParentId
    <2>4. i \in Slots
      BY <2>2, <2>3, DivMod, TbonAssumption DEF Slots
    <2>5. Degree * v + i + 1 = c
      <3>1. Degree * v \in Nat
        BY <2>2, TbonAssumption
      <3> QED
        BY <2>2, <3>1
    <2>6. ChildId(v, i) = c
      <3> HIDE DEF i
      <3> QED
        BY <2>2, <2>4, <2>5, ChildNumber
    <2> QED
      BY <2>4, <2>6
  <1> QED
    BY <1>1, <1>2

\* The children of a vertex are numbered upwards and sit in different slots.
LEMMA ChildSlots ==
    ASSUME NEW v \in Nodes, NEW i \in Slots, NEW j \in Slots, ChildId(v, i) # -1
    PROVE  /\ v < ChildId(v, i)
           /\ ChildId(v, j) = ChildId(v, i) => j = i
  <1>1. /\ v \in Nat /\ i \in Nat /\ j \in Nat /\ Total \in Nat /\ Degree * v \in Nat
    BY TbonAssumption DEF Nodes, Slots
  <1>2. ChildId(v, i) = Degree * v + i + 1 /\ v < Degree * v + i + 1
    BY <1>1, ChildNumber
  <1>3. ChildId(v, j) = Degree * v + j + 1 \/ ChildId(v, j) = -1
    BY <1>1, ChildNumber
  <1> QED
    BY <1>1, <1>2, <1>3

-----------------------------------------------------------------------------
\* What dynpm_initialize_tbon_vertex has stored in the vertices it has
\* initialized, and that nothing changes it afterwards.
EdgesInv ==
    /\ created \subseteq Nodes
    /\ DOMAIN parent_id = Nodes
    /\ DOMAIN children_ids = Nodes
    /\ \A v \in created :
         /\ parent_id[v] = ParentId(v)
         /\ children_ids[v] = [i \in Slots |-> ChildId(v, i)]

\* Every step keeps the fields of the initialized vertices.
LEMMA EdgesStep == EdgesInv /\ [Next]_vars => EdgesInv'
  <1> SUFFICES ASSUME EdgesInv, [Next]_vars PROVE EdgesInv'
    OBVIOUS
  <1>1. ASSUME NEW v \in Nodes, Initialize(v) PROVE EdgesInv'
    <2>1. /\ created' = created \cup {v}
          /\ parent_id' = [parent_id EXCEPT ![v] = ParentId(v)]
          /\ children_ids' = [children_ids EXCEPT ![v] = [i \in Slots |-> ChildId(v, i)]]
      BY <1>1 DEF Initialize
    <2> QED
      BY <2>1 DEF EdgesInv
  <1>2. ASSUME NEW v \in Nodes,
               \/ Receive(v) \/ SendToChild(v) \/ SendFails(v) \/ SendReturns(v)
               \/ Disconnect(v) \/ Overtaken(v)
        PROVE  EdgesInv'
    BY <1>2 DEF Receive, SendToChild, SendFails, SendReturns, Disconnect, Overtaken, edges, EdgesInv
  <1>3. CASE UNCHANGED vars
    BY <1>3 DEF vars, edges, EdgesInv
  <1> QED
    BY <1>1, <1>2, <1>3 DEF Next, Vertex

\* The edges that the vertices compute independently when they are
\* initialized, in any order, form one tree, for every degree and every
\* number of nodes.
THEOREM EdgesFormTree == Spec => []EdgesAgree
  <1>1. Init => EdgesInv
    BY DEF Init, EdgesInv
  <1>2. EdgesInv => EdgesAgree
    <2> SUFFICES ASSUME EdgesInv, NEW v \in created PROVE
          /\ \A c \in created :
               (\E i \in Slots : children_ids[v][i] = c) <=> parent_id[c] = v
          /\ \A i, j \in Slots : children_ids[v][i] # -1 =>
               /\ v < children_ids[v][i]
               /\ children_ids[v][j] = children_ids[v][i] => j = i
      BY DEF EdgesAgree
    <2>1. v \in Nodes /\ \A i \in Slots : children_ids[v][i] = ChildId(v, i)
      BY DEF EdgesInv
    <2>2. \A c \in created : c \in Nodes /\ parent_id[c] = ParentId(c)
      BY DEF EdgesInv
    <2>3. ASSUME NEW c \in created
          PROVE  (\E i \in Slots : children_ids[v][i] = c) <=> parent_id[c] = v
      BY <2>1, <2>2, ChildIffParent
    <2>4. ASSUME NEW i \in Slots, NEW j \in Slots, children_ids[v][i] # -1
          PROVE  /\ v < children_ids[v][i]
                 /\ children_ids[v][j] = children_ids[v][i] => j = i
      BY <2>1, <2>4, ChildSlots
    <2> QED
      BY <2>3, <2>4
  <1> QED
    BY <1>1, <1>2, EdgesStep, PTL DEF Spec

-----------------------------------------------------------------------------
(* The way down *)

\* The slots of a vertex are filled from the left, with ascending numbers.
LEMMA ChildOrder ==
    ASSUME NEW v \in Nodes, NEW i \in Slots, NEW j \in Slots, i < j
    PROVE  /\ ChildId(v, i) = -1 => ChildId(v, j) = -1
           /\ ChildId(v, j) # -1 => ChildId(v, i) < ChildId(v, j)
  <1>1. /\ v \in Nat /\ i \in Nat /\ j \in Nat /\ Total \in Nat /\ Degree * v \in Nat
    BY TbonAssumption DEF Nodes, Slots
  <1>2. ChildId(v, i) = IF Degree * v + i + 1 >= Total THEN -1 ELSE Degree * v + i + 1
    BY DEF ChildId
  <1>3. ChildId(v, j) = IF Degree * v + j + 1 >= Total THEN -1 ELSE Degree * v + j + 1
    BY DEF ChildId
  <1> QED
    BY <1>1, <1>2, <1>3

\* A child is a node other than the root, in one slot of one vertex.
LEMMA ChildUnique ==
    ASSUME NEW v \in Nodes, NEW i \in Slots, ChildId(v, i) # -1
    PROVE  /\ ChildId(v, i) \in Nodes /\ ChildId(v, i) # 0
           /\ ParentId(ChildId(v, i)) = v
           /\ \A w \in Nodes, j \in Slots : ChildId(w, j) = ChildId(v, i) => w = v /\ j = i
  <1>1. /\ v \in Nat /\ i \in Nat /\ Total \in Nat /\ Degree * v \in Nat
    BY TbonAssumption DEF Nodes, Slots
  <1>2. ChildId(v, i) \in Nodes /\ ChildId(v, i) # 0
    BY <1>1 DEF ChildId, Nodes
  <1>3. ParentId(ChildId(v, i)) = v
    BY <1>2, ChildIffParent
  <1>4. ASSUME NEW w \in Nodes, NEW j \in Slots, ChildId(w, j) = ChildId(v, i)
        PROVE  w = v /\ j = i
    <2>1. ParentId(ChildId(v, i)) = w
      BY <1>2, <1>4, ChildIffParent
    <2> QED
      BY <1>3, <1>4, <2>1, ChildSlots
  <1> QED
    BY <1>2, <1>3, <1>4

\* The parent of every vertex but the root is a vertex, and has it in a slot.
LEMMA ParentIsNode ==
    ASSUME NEW c \in Nodes, c # 0
    PROVE  /\ ParentId(c) \in Nodes /\ ParentId(c) < c
           /\ \E i \in Slots : ChildId(ParentId(c), i) = c
  <1> DEFINE q == (c - 1) \div Degree
  <1>1. c \in Nat /\ c - 1 \in Nat /\ c < Total /\ Degree \in Nat \ {0}
    BY TbonAssumption DEF Nodes
  <1>2. q \in Nat /\ Degree * q <= c - 1
    BY <1>1, DivMod
  <1>3. ParentId(c) = q
    BY DEF ParentId
  <1> HIDE DEF q
  <1>4. q <= Degree * q
    BY <1>1, <1>2, Z3
  <1>5. q \in Nodes /\ q < c
    <2>1. Degree * q \in Nat
      BY <1>1, <1>2
    <2> QED
      BY <1>1, <1>2, <1>4, <2>1, TbonAssumption DEF Nodes
  <1> QED
    BY <1>3, <1>5, ChildIffParent

\* Copies of the message a vertex has received or will receive
Got(v) == copies[v] + inbox[v]

SendType ==
    /\ up \subseteq Nodes
    /\ inbox \in [Nodes -> Nat]
    /\ copies \in [Nodes -> Nat]
    /\ slot \in [Nodes -> 0..Degree]
    /\ spc \in [Nodes -> {"idle", "loop", "sent", "error"}]

\* What the place of a vertex's loop says about the vertex ...
LoopInv(v) ==
    /\ copies[v] = 0 <=> spc[v] = "idle"
    /\ spc[v] = "idle" => slot[v] = 0
    /\ spc[v] # "idle" => v \in created
    /\ spc[v] = "sent" => slot[v] = Degree \/ ChildId(v, slot[v]) = -1
    /\ spc[v] = "error" => /\ slot[v] < Degree
                           /\ ChildId(v, slot[v]) # -1
                           /\ ChildId(v, slot[v]) \notin up

\* ... and about the child in slot i: those before the loop's slot were sent the
\* message, the others were not.
SlotInv(v, i) ==
    LET c == ChildId(v, i) IN
    c # -1 => /\ i < slot[v] => Got(c) = 1 \/ c \notin up \/ c \in overtaken
              /\ i >= slot[v] => Got(c) = 0

SendInv ==
    /\ SendType
    /\ \A v \in Nodes : Got(v) <= 1 /\ LoopInv(v)
    /\ \A v \in Nodes, i \in Slots : SlotInv(v, i)

\* Every step of a vertex, and the loss of a connection or of a message, keeps it.
LEMMA SendStep == EdgesInv /\ SendInv /\ [Next]_vars => SendInv'
  <1> SUFFICES ASSUME EdgesInv, SendInv, [Next]_vars PROVE SendInv'
    OBVIOUS
  <1> USE TbonAssumption
  <1>0. \A v \in created : v \in Nodes /\ \A i \in Slots : children_ids[v][i] = ChildId(v, i)
    BY DEF EdgesInv
  <1>1. ASSUME NEW v \in Nodes, Initialize(v) PROVE SendInv'
    BY <1>1 DEF Initialize, SendInv, SendType, LoopInv, SlotInv, Got
  <1>2. ASSUME NEW v \in Nodes, Receive(v) PROVE SendInv'
    <2>1. copies[v] = 0 /\ inbox[v] = 1 /\ spc[v] = "idle" /\ slot[v] = 0
      <3>1. copies[v] \in Nat /\ inbox[v] \in Nat /\ inbox[v] > 0
        BY <1>2 DEF Receive, SendInv, SendType
      <3>2. copies[v] + inbox[v] <= 1
        BY DEF SendInv, Got
      <3> QED
        BY <3>1, <3>2 DEF SendInv, LoopInv
    <2>2. /\ inbox' = [inbox EXCEPT ![v] = 0]
          /\ copies' = [copies EXCEPT ![v] = 1]
          /\ spc' = [spc EXCEPT ![v] = "loop"]
          /\ slot' = slot /\ up' = up /\ created' = created /\ v \in created
          /\ overtaken' = overtaken
      BY <1>2, <2>1 DEF Receive, SendInv, SendType, edges
    <2>3. SendType'
      BY <2>2 DEF SendInv, SendType
    <2>4. \A w \in Nodes : Got(w)' = Got(w)
      BY <2>1, <2>2 DEF SendInv, SendType, Got
    <2>5. \A w \in Nodes : LoopInv(w)'
      BY <2>1, <2>2 DEF SendInv, SendType, LoopInv
    <2>6. ASSUME NEW w \in Nodes, NEW i \in Slots PROVE SlotInv(w, i)'
      <3>1. ChildId(w, i) # -1 => ChildId(w, i) \in Nodes
        BY ChildUnique
      <3> QED
        BY <2>2, <2>4, <3>1 DEF SendInv, SlotInv
    <2> QED
      BY <2>3, <2>4, <2>5, <2>6 DEF SendInv
  <1>3. ASSUME NEW v \in Nodes, SendToChild(v) PROVE SendInv'
    <2> DEFINE k == slot[v]
               c == ChildId(v, k)
    <2>1. v \in created /\ k \in Slots /\ children_ids[v][k] = c /\ c # -1 /\ c \in up
      <3>1. v \in created
        BY <1>3 DEF SendToChild, SendInv, LoopInv
      <3>2. k \in Slots
        BY <1>3 DEF SendToChild, HasChild, SendInv, SendType, Slots
      <3> QED
        BY <1>0, <1>3, <3>1, <3>2 DEF SendToChild, HasChild
    <2>2. c \in Nodes /\ c # 0 /\ \A w \in Nodes, j \in Slots : ChildId(w, j) = c => w = v /\ j = k
      BY <2>1, ChildUnique
    <2>3. /\ inbox' = [inbox EXCEPT ![c] = @ + 1]
          /\ slot' = [slot EXCEPT ![v] = k + 1]
          /\ UNCHANGED <<copies, spc, up, created, overtaken>>
      BY <1>3, <2>1 DEF SendToChild, edges
    <2>4. Got(c) = 0 /\ k \in 0..(Degree - 1) /\ spc[v] = "loop"
      BY <1>3, <2>1 DEF SendInv, SlotInv, SendType, Slots, SendToChild
    <2> HIDE DEF c, k
    <2>5. SendType'
      BY <2>2, <2>3, <2>4 DEF SendInv, SendType
    <2>6. \A w \in Nodes : Got(w)' = IF w = c THEN 1 ELSE Got(w)
      BY <2>2, <2>3, <2>4 DEF SendInv, SendType, Got
    <2>7. \A w \in Nodes : LoopInv(w)'
      BY <2>3, <2>4 DEF SendInv, SendType, LoopInv
    <2>8. ASSUME NEW w \in Nodes, NEW i \in Slots PROVE SlotInv(w, i)'
      <3>1. ChildId(w, i) # -1 => ChildId(w, i) \in Nodes
        BY ChildUnique
      <3>2. SlotInv(w, i) /\ slot[w] \in Int /\ i \in Int
        BY DEF SendInv, SendType, Slots
      <3>3. CASE w = v /\ i = k
        <4>1. ChildId(w, i) = c
          BY <3>3 DEF c
        <4>2. i < slot'[w] /\ ~(i >= slot'[w])
          BY <2>3, <2>4, <3>3 DEF SendInv, SendType
        <4> QED
          BY <2>2, <2>6, <4>1, <4>2 DEF SlotInv
      <3>4. CASE ~(w = v /\ i = k)
        <4>1. ChildId(w, i) # c
          BY <2>2, <3>4
        <4>2. (i < slot'[w] <=> i < slot[w]) /\ (i >= slot'[w] <=> i >= slot[w])
          BY <2>3, <2>4, <3>2, <3>4 DEF SendInv, SendType, k
        <4> QED
          BY <2>3, <2>6, <3>1, <3>2, <4>1, <4>2 DEF SlotInv
      <3> QED
        BY <3>3, <3>4
    <2> QED
      BY <2>5, <2>6, <2>7, <2>8 DEF SendInv
  <1>4. ASSUME NEW v \in Nodes, SendFails(v) PROVE SendInv'
    <2>1. v \in created /\ slot[v] \in Slots /\ slot[v] < Degree
      BY <1>4 DEF SendFails, HasChild, SendInv, LoopInv, SendType, Slots
    <2>2. children_ids[v][slot[v]] = ChildId(v, slot[v])
      BY <1>0, <2>1
    <2> QED
      BY <1>4, <2>1, <2>2 DEF SendFails, HasChild, SendInv, SendType, LoopInv, SlotInv, Got, edges
  <1>5. ASSUME NEW v \in Nodes, SendReturns(v) PROVE SendInv'
    <2>1. v \in created
      BY <1>5 DEF SendReturns, SendInv, LoopInv
    <2>2. slot[v] = Degree \/ ChildId(v, slot[v]) = -1
      BY <1>0, <1>5, <2>1 DEF SendReturns, HasChild, SendInv, SendType, Slots
    <2> QED
      BY <1>5, <2>1, <2>2 DEF SendReturns, SendInv, SendType, LoopInv, SlotInv, Got, edges
  <1>6. ASSUME NEW v \in Nodes, Disconnect(v) PROVE SendInv'
    <2>1. /\ up' = up \ {v} /\ inbox' = [inbox EXCEPT ![v] = 0]
          /\ UNCHANGED <<copies, slot, spc, created, overtaken>>
      BY <1>6 DEF Disconnect, edges
    <2>2. SendType'
      BY <2>1 DEF SendInv, SendType
    <2>3. \A w \in Nodes : Got(w) \in Nat /\ Got(w)' \in Nat /\ Got(w)' <= Got(w) /\ (w # v => Got(w)' = Got(w))
      BY <2>1 DEF SendInv, SendType, Got
    <2>4. \A w \in Nodes : LoopInv(w)'
      BY <2>1 DEF SendInv, LoopInv
    <2>5. ASSUME NEW w \in Nodes, NEW i \in Slots PROVE SlotInv(w, i)'
      <3>1. ChildId(w, i) # -1 => ChildId(w, i) \in Nodes
        BY ChildUnique
      <3> QED
        BY <2>1, <2>3, <3>1 DEF SendInv, SlotInv
    <2> QED
      BY <2>2, <2>3, <2>4, <2>5 DEF SendInv
  <1>7. ASSUME NEW v \in Nodes, Overtaken(v) PROVE SendInv'
    <2>1. /\ overtaken' = overtaken \cup {v} /\ inbox' = [inbox EXCEPT ![v] = 0]
          /\ UNCHANGED <<copies, slot, spc, created, up>>
      BY <1>7 DEF Overtaken, edges
    <2>2. SendType'
      BY <2>1 DEF SendInv, SendType
    <2>3. \A w \in Nodes : Got(w) \in Nat /\ Got(w)' \in Nat /\ Got(w)' <= Got(w) /\ (w # v => Got(w)' = Got(w))
      BY <2>1 DEF SendInv, SendType, Got
    <2>4. \A w \in Nodes : LoopInv(w)'
      BY <2>1 DEF SendInv, LoopInv
    <2>5. ASSUME NEW w \in Nodes, NEW i \in Slots PROVE SlotInv(w, i)'
      <3>1. ChildId(w, i) # -1 => ChildId(w, i) \in Nodes
        BY ChildUnique
      <3> QED
        BY <2>1, <2>3, <3>1 DEF SendInv, SlotInv
    <2> QED
      BY <2>2, <2>3, <2>4, <2>5 DEF SendInv
  <1>8. CASE UNCHANGED vars
    BY <1>8 DEF vars, edges, SendInv, SendType, LoopInv, SlotInv, Got
  <1> QED
    BY <1>1, <1>2, <1>3, <1>4, <1>5, <1>6, <1>7, <1>8 DEF Next, Vertex

\* Before the message is sent to the root.
LEMMA SendInit == Init => SendInv
  <1> SUFFICES ASSUME Init PROVE SendInv
    OBVIOUS
  <1>1. SendType
    BY TbonAssumption DEF Init, SendType
  <1>2. \A v \in Nodes : Got(v) = (IF v = 0 THEN 1 ELSE 0) /\ LoopInv(v)
    BY DEF Init, Got, LoopInv
  <1>3. ASSUME NEW v \in Nodes, NEW i \in Slots PROVE SlotInv(v, i)
    <2>1. ChildId(v, i) # -1 => ChildId(v, i) \in Nodes /\ ChildId(v, i) # 0
      BY ChildUnique
    <2>2. ~(i < slot[v])
      BY TbonAssumption DEF Init, Slots
    <2> QED
      BY <1>2, <2>1, <2>2 DEF SlotInv
  <1> QED
    BY <1>1, <1>2, <1>3 DEF SendInv

\* For every degree and number of nodes no vertex gets the message twice, and
\* none before its parent.
THEOREM DeliveredOnceTopDown == Spec => []OnceAndTopDown
  <1>1. SendInv => OnceAndTopDown
    <2> SUFFICES ASSUME SendInv, NEW v \in Nodes
                 PROVE  /\ Got(v) <= 1
                        /\ Got(v) = 1 /\ v # 0 => copies[ParentId(v)] = 1
      BY DEF OnceAndTopDown, Got
    <2>1. ASSUME Got(v) = 1, v # 0 PROVE copies[ParentId(v)] = 1
      <3> DEFINE p == ParentId(v)
      <3>1. PICK i \in Slots : ChildId(p, i) = v
        BY <2>1, ParentIsNode
      <3>2. p \in Nodes
        BY <2>1, ParentIsNode
      <3> HIDE DEF p
      <3>3. v # -1 /\ i \in Nat /\ slot[p] \in Nat
        BY <3>2, TbonAssumption DEF SendInv, SendType, Nodes, Slots
      <3>4. i < slot[p]
        BY <2>1, <3>1, <3>2, <3>3 DEF SendInv, SlotInv
      <3>5. copies[p] # 0 /\ Got(p) <= 1
        BY <3>2, <3>3, <3>4 DEF SendInv, LoopInv
      <3>6. copies[p] \in Nat /\ inbox[p] \in Nat
        BY <3>2 DEF SendInv, SendType
      <3>7. copies[p] = 1
        BY <3>5, <3>6 DEF Got
      <3> QED
        BY <3>7 DEF p
    <2> QED
      BY <2>1 DEF SendInv
  <1>2. Init => EdgesInv
    BY DEF Init, EdgesInv
  <1> QED
    BY <1>1, <1>2, SendInit, SendStep, EdgesStep, PTL DEF Spec

\* For every degree and number of nodes the return code of
\* dynpm_send_message_to_tbon_children tells exactly which children the message
\* was linked for.
THEOREM ReturnCodesAreTrue == Spec => []ReturnCodeTrue
  <1>1. SendInv /\ EdgesInv => ReturnCodeTrue
    <2> SUFFICES ASSUME SendInv, EdgesInv, NEW v \in Nodes
                 PROVE  /\ spc[v] = "sent" =>
                             \A c \in Children(v) : Accounted(c)
                        /\ spc[v] = "error" =>
                             LET gone == children_ids[v][slot[v]] IN
                             /\ gone \notin up
                             /\ \A c \in Children(v) :
                                  IF c < gone THEN Accounted(c) ELSE Got(c) = 0
      BY DEF ReturnCodeTrue, Got
    <2>1. \A c \in Children(v) : c \in Nodes /\ c # -1 /\ \E i \in Slots : ChildId(v, i) = c
      BY ChildIffParent, TbonAssumption DEF Children, Nodes
    <2>2. slot[v] \in 0..Degree /\ Degree \in Nat /\ \A i \in Slots : i \in 0..(Degree - 1)
      BY TbonAssumption DEF SendInv, SendType, Slots
    <2>3. ASSUME spc[v] = "sent", NEW c \in Children(v) PROVE Accounted(c)
      <3>1. PICK i \in Slots : ChildId(v, i) = c
        BY <2>1
      <3>2. slot[v] = Degree \/ ChildId(v, slot[v]) = -1
        BY <2>3 DEF SendInv, LoopInv
      <3>3. i < slot[v]
        <4> SUFFICES ASSUME slot[v] <= i PROVE FALSE
          BY <2>2
        <4>1. slot[v] \in Slots /\ ChildId(v, slot[v]) = -1
          BY <2>2, <3>2 DEF Slots
        <4>2. slot[v] = i \/ slot[v] < i
          BY <2>2
        <4> QED
          BY <2>1, <3>1, <4>1, <4>2, ChildOrder
      <3> QED
        BY <2>1, <3>1, <3>3 DEF SendInv, SlotInv, Accounted, Got
    <2>4. ASSUME spc[v] = "error"
          PROVE  LET gone == children_ids[v][slot[v]] IN
                   /\ gone \notin up
                   /\ \A c \in Children(v) :
                        IF c < gone THEN Accounted(c) ELSE Got(c) = 0
      <3> DEFINE gone == ChildId(v, slot[v])
      <3>1. v \in created /\ slot[v] \in Slots /\ gone # -1 /\ gone \notin up
        BY <2>2, <2>4 DEF SendInv, LoopInv, Slots
      <3>2. children_ids[v][slot[v]] = gone
        BY <3>1 DEF EdgesInv
      <3>3. ASSUME NEW c \in Children(v)
            PROVE  IF c < gone THEN Accounted(c) ELSE Got(c) = 0
        <4>1. PICK i \in Slots : ChildId(v, i) = c
          BY <2>1
        <4>2. c \in Int /\ gone \in Int
          BY <2>1, <3>1, ChildUnique, TbonAssumption DEF Nodes
        <4>3. c < gone <=> i < slot[v]
          <5>1. CASE i < slot[v]
            BY <3>1, <4>1, <5>1, ChildOrder
          <5>2. CASE i = slot[v]
            BY <4>1, <4>2, <5>2, <2>2
          <5>3. CASE slot[v] < i
            <6>1. gone < c
              BY <2>1, <3>1, <4>1, <5>3, ChildOrder
            <6> QED
              BY <2>2, <4>2, <5>3, <6>1
          <5> QED
            BY <2>2, <5>1, <5>2, <5>3
        <4> QED
          BY <2>1, <2>2, <4>1, <4>3 DEF SendInv, SlotInv, Accounted, Got
      <3> QED
        BY <3>1, <3>2, <3>3
    <2> QED
      BY <2>3, <2>4
  <1>2. Init => EdgesInv
    BY DEF Init, EdgesInv
  <1> QED
    BY <1>1, <1>2, SendInit, SendStep, EdgesStep, PTL DEF Spec

-----------------------------------------------------------------------------
(* The way back up *)

\* Seen from the tree, a step of the waits is a step of Tbon or none.
LEMMA WaitsStep == [WaitsNext]_<<vars, wvars>> => [Next]_vars
  <1>1. ASSUME NEW v \in Nodes, Down(v) \/ Lost(v) PROVE Next
    BY <1>1 DEF Down, Lost, Next
  <1>2. ASSUME NEW v \in Nodes, Waiting(v) PROVE UNCHANGED vars
    BY <1>2 DEF Waiting, WaitBegin, Timeout, Report
  <1> QED
    BY <1>1, <1>2 DEF WaitsNext

\* However the waits interleave with the message on its way down, they leave
\* it alone: every behaviour of the composition is one of Tbon.
THEOREM WaitsLeaveTreeAlone == WaitsSpec => Spec
  <1>1. WaitsInit => Init
    BY DEF WaitsInit
  <1> QED
    BY <1>1, WaitsStep, PTL DEF WaitsSpec, Spec

\* What holds of the tree and of the message on its way down also holds while
\* vertices wait and report.
THEOREM TreeSafeWhileWaiting ==
    WaitsSpec => [](EdgesAgree /\ OnceAndTopDown /\ ReturnCodeTrue)
  BY WaitsLeaveTreeAlone, EdgesFormTree, DeliveredOnceTopDown, ReturnCodesAreTrue, PTL

\* What NoLostReport rests on: counts and fields have their types, and a vertex
\* waits only when it has been initialized, after which the number of its
\* children does not change.
WaitInv ==
    /\ DOMAIN total_children = Nodes
    /\ DOMAIN parent_id = Nodes
    /\ children_done \in [Nodes -> Nat]
    /\ DOMAIN wpc = Nodes
    /\ DOMAIN spc = Nodes
    /\ \A v \in Nodes : spc[v] # "idle" => v \in created
    /\ \A v \in Nodes : wpc[v] # "before" => v \in created
    /\ NoLostReport

\* Every step of the tree, the waits and the reports keeps it.
LEMMA WaitStep == WaitInv /\ [WaitsNext]_<<vars, wvars>> => WaitInv'
  <1> SUFFICES ASSUME WaitInv, [WaitsNext]_<<vars, wvars>> PROVE WaitInv'
    OBVIOUS
  <1> USE DEF WaitInv, NoLostReport
  <1>1. ASSUME NEW v \in Nodes, Down(v) PROVE WaitInv'
    <2>1. UNCHANGED wvars
      BY <1>1 DEF Down
    <2>2. ASSUME Initialize(v) PROVE WaitInv'
      <3>1. /\ v \notin created
            /\ created' = created \cup {v}
            /\ DOMAIN parent_id' = Nodes
            /\ \E n : total_children' = [total_children EXCEPT ![v] = n]
            /\ spc' = spc
        BY <2>2 DEF Initialize
      <3>2. \A w \in Nodes : w # v => total_children'[w] = total_children[w]
        BY <3>1
      <3>3. wpc[v] = "before"
        BY <3>1
      <3> QED
        BY <2>1, <3>1, <3>2, <3>3 DEF wvars
    <2>3. ASSUME Receive(v) PROVE WaitInv'
      BY <2>1, <2>3 DEF Receive, edges, wvars
    <2>4. ASSUME SendToChild(v) \/ SendFails(v) \/ SendReturns(v) PROVE WaitInv'
      BY <2>1, <2>4 DEF SendToChild, SendFails, SendReturns, edges, wvars
    <2> QED
      BY <1>1, <2>2, <2>3, <2>4 DEF Down, Vertex
  <1>2. ASSUME NEW v \in Nodes, Lost(v) PROVE WaitInv'
    BY <1>2 DEF Lost, Disconnect, Overtaken, edges
  <1>3. ASSUME NEW v \in Nodes, NEW usec, WaitBegin(v, usec) PROVE WaitInv'
    <2>1. UNCHANGED <<vars, children_done>> /\ spc[v] # "idle"
      BY <1>3 DEF WaitBegin
    <2>2. PICK new \in {"after", "waiting"} : wpc' = [wpc EXCEPT ![v] = new]
      BY <1>3 DEF WaitBegin
    <2>3. wpc'[v] = "waiting" => ~Complete(v)
      BY <1>3 DEF WaitBegin
    <2> QED
      BY <2>1, <2>2, <2>3 DEF vars, edges, Complete
  <1>4. ASSUME NEW v \in Nodes, Timeout(v) PROVE WaitInv'
    BY <1>4 DEF Timeout, vars, edges
  <1>5. ASSUME NEW v \in Nodes, NEW signal \in BOOLEAN, Report(v, signal) PROVE WaitInv'
    <2> DEFINE p == parent_id[v]
    <2>1. /\ UNCHANGED vars
          /\ children_done' = [children_done EXCEPT ![p] = @ + 1]
      BY <1>5 DEF Report
    <2>2. \/ /\ wpc' = [wpc EXCEPT ![p] = "after"]
             /\ wpc[p] = "waiting"
          \/ /\ wpc' = wpc
             /\ wpc[p] = "waiting" => children_done[p] + 1 < total_children[p]
      <3>1. CASE signal /\ wpc[p] = "waiting"
        BY <1>5, <3>1 DEF Report
      <3>2. CASE ~(signal /\ wpc[p] = "waiting")
        BY <1>5, <3>2 DEF Report
      <3> QED
        BY <3>1, <3>2
    <2> HIDE DEF p
    <2>3. \A w \in Nodes : wpc'[w] # wpc[w] => w = p /\ wpc'[w] = "after" /\ wpc[w] = "waiting"
      BY <2>2
    <2>4. children_done' \in [Nodes -> Nat] /\ DOMAIN wpc' = Nodes
      <3>1. CASE p \in Nodes
        <4>1. children_done[p] + 1 \in Nat
          BY <3>1
        <4> QED
          BY <2>1, <2>2, <4>1
      <3>2. CASE p \notin Nodes
        BY <2>1, <2>2, <3>2
      <3> QED
        BY <3>1, <3>2
    <2>5. NoLostReport'
      BY <2>1, <2>2, <2>4 DEF vars, edges
    <2> QED
      BY <2>1, <2>3, <2>4, <2>5 DEF vars, edges
  <1>6. CASE UNCHANGED <<vars, wvars>>
    BY <1>6 DEF vars, edges, wvars
  <1> QED
    BY <1>1, <1>2, <1>3, <1>4, <1>5, <1>6 DEF WaitsNext, Waiting

\* No vertex waits for reports that have all come in already, for every tree
\* and every order of reports, waits, timeouts and lost connections.
THEOREM ReportsAreNotLost == WaitsSpec => []NoLostReport
  <1>1. WaitsInit => WaitInv
    BY DEF WaitsInit, Init, WaitInv, NoLostReport
  <1>2. WaitInv => NoLostReport
    BY DEF WaitInv
  <1> QED
    BY <1>1, <1>2, WaitStep, PTL DEF WaitsSpec

-----------------------------------------------------------------------------
(* What a vertex knows after its wait *)

\* Every nonempty set of natural numbers has a least element.
LEMMA LeastNumber ==
    ASSUME NEW T \in SUBSET Nat, T # {}
    PROVE  \E x \in T : \A y \in T : x <= y
  <1> DEFINE R == {ss \in Nat \X Nat : ss[1] < ss[2]}
  <1>1. IsWellFoundedOn(R, Nat)
    BY NatLessThanWellFounded DEF OpToRel
  <1>2. PICK x \in T : \A y \in T : ~(<<y, x>> \in R)
    BY <1>1, WFMin
  <1>3. ASSUME NEW y \in T PROVE x <= y
    <2>1. x \in Nat /\ y \in Nat
      OBVIOUS
    <2>2. <<y, x>> \in Nat \X Nat /\ <<y, x>>[1] = y /\ <<y, x>>[2] = x
      BY <2>1
    <2>3. ~(y < x)
      BY <1>2, <2>2
    <2> QED
      BY <2>1, <2>3
  <1> QED
    BY <1>3

\* The scan of dynpm_initialize_tbon_vertex counts the children of the vertex.
LEMMA ScanCounts ==
    ASSUME NEW v \in Nodes
    PROVE  Scan([i \in Slots |-> ChildId(v, i)]) = Cardinality(Children(v))
  <1> DEFINE ids == [i \in Slots |-> ChildId(v, i)]
             a == Degree * v + 1
             Body(f, n) == IF n = 0 THEN 0
                           ELSE LET k == f[n - 1] IN
                                IF k < Degree /\ ids[k] = n - 1 THEN k + 1 ELSE k
             f == CHOOSE f : f = [n \in 0..Total |-> Body(f, n)]
             count == [n \in 0..Total |-> IF n <= a THEN 0 ELSE IF n - a <= Degree THEN n - a ELSE Degree]
  <1>1. a \in Nat \ {0} /\ v \in Nat /\ Degree \in Nat \ {0} /\ Total \in Nat \ {0}
    BY TbonAssumption DEF Nodes
  <1>2. \A k \in Slots : k \in Nat /\ ids[k] = IF a + k >= Total THEN -1 ELSE a + k
    <2>1. \A k \in Slots : k \in Nat /\ Degree * v + k + 1 = a + k
      BY <1>1, TbonAssumption DEF Slots, Nodes
    <2> QED
      BY <2>1 DEF ChildId
  <1>3. ASSUME NEW n \in 0..Total PROVE count[n] = Body(count, n)
    <2> HIDE DEF ids, a
    <2>1. CASE n = 0
      BY <1>1, <2>1
    <2>2. CASE n # 0
      <3> DEFINE k == count[n - 1]
      <3>1. n \in Nat \ {0} /\ n - 1 \in 0..Total /\ n - 1 < Total
        BY <1>1, <2>2
      <3>2. k = IF n - 1 <= a THEN 0 ELSE IF n - 1 - a <= Degree THEN n - 1 - a ELSE Degree
        BY <3>1
      <3>3. k \in 0..Degree /\ (k < Degree => k \in Slots)
        BY <1>1, <3>1, <3>2 DEF Slots
      <3>4. count[n] = IF n <= a THEN 0 ELSE IF n - a <= Degree THEN n - a ELSE Degree
        OBVIOUS
      <3>5. Body(count, n) = IF k < Degree /\ ids[k] = n - 1 THEN k + 1 ELSE k
        BY <2>2
      <3> HIDE DEF k, count, Body
      <3>6. CASE k < Degree
        BY <1>1, <1>2, <3>1, <3>2, <3>3, <3>4, <3>5, <3>6
      <3>7. CASE ~(k < Degree)
        BY <1>1, <3>1, <3>2, <3>3, <3>4, <3>5, <3>7
      <3> QED
        BY <3>6, <3>7
    <2> QED
      BY <2>1, <2>2
  <1>4. f = [n \in 0..Total |-> Body(f, n)]
    <2>1. count = [n \in 0..Total |-> Body(count, n)]
      <3>1. count = [n \in 0..Total |-> count[n]]
        OBVIOUS
      <3> HIDE DEF count, Body
      <3> QED
        BY <1>3, <3>1
    <2> HIDE DEF count, Body
    <2> QED
      BY <2>1
  <1>5. Scan(ids) = f[Total]
    BY DEF Scan
  <1>6. f = count
    <2> DEFINE Bad == {n \in 0..Total : f[n] # count[n]}
    <2>1. CASE Bad # {}
      <3>1. PICK n \in Bad : \A m \in Bad : n <= m
        <4>1. Bad \subseteq Nat
          OBVIOUS
        <4> HIDE DEF Bad
        <4> QED
          BY <2>1, <4>1, LeastNumber
      <3>2. n \in 0..Total /\ f[n] # count[n]
        BY <3>1
      <3>3. f[n] = Body(f, n)
        <4> HIDE DEF Body, f, count
        <4> QED
          BY <1>4, <3>2
      <3>4. CASE n = 0
        <4>1. Body(f, n) = 0 /\ Body(count, n) = 0
          BY <3>4
        <4> HIDE DEF Body, f, count
        <4> QED
          BY <1>3, <3>2, <3>3, <4>1
      <3>5. CASE n # 0
        <4>1. n - 1 \in 0..Total /\ ~(n <= n - 1)
          BY <1>1, <3>2, <3>5
        <4>2. f[n - 1] = count[n - 1]
          <5> HIDE DEF f, count, Body
          <5> QED
            BY <3>1, <4>1
        <4>3. Body(f, n) = Body(count, n)
          <5> HIDE DEF f, count, ids
          <5> QED
            BY <4>2
        <4> HIDE DEF f, count, Body
        <4> QED
          BY <1>3, <3>2, <3>3, <4>3
      <3> QED
        BY <3>4, <3>5
    <2>2. CASE Bad = {}
      <3>1. DOMAIN count = 0..Total /\ count = [n \in 0..Total |-> count[n]]
        OBVIOUS
      <3> HIDE DEF f, count, Body
      <3>2. f = [n \in 0..Total |-> f[n]]
        BY <1>4
      <3>3. \A n \in 0..Total : f[n] = count[n]
        BY <2>2
      <3> QED
        BY <3>1, <3>2, <3>3
    <2> QED
      BY <2>1, <2>2
  <1>7. Scan(ids) = IF Total <= a THEN 0 ELSE IF Total - a <= Degree THEN Total - a ELSE Degree
    <2>1. count[Total] = IF Total <= a THEN 0 ELSE IF Total - a <= Degree THEN Total - a ELSE Degree
      BY <1>1
    <2> HIDE DEF f, count, ids
    <2> QED
      BY <1>5, <1>6, <2>1
  <1> DEFINE b == IF Total <= a + Degree THEN Total - 1 ELSE a + Degree - 1
  <1>8. Children(v) = a..b
    <2> HIDE DEF f, count
    <2>1. \A c \in Nodes : ParentId(c) = v <=> \E i \in Slots : ids[i] = c
      BY ChildIffParent
    <2>2. Nodes = 0..(Total - 1) /\ Slots = 0..(Degree - 1)
      BY DEF Nodes, Slots
    <2> HIDE DEF ids, a
    <2>3. ASSUME NEW c \in Nodes, NEW i \in Slots, ids[i] = c PROVE c \in a..b
      BY <1>1, <1>2, <2>2, <2>3
    <2>4. ASSUME NEW c \in a..b PROVE c \in Nodes /\ \E i \in Slots : ids[i] = c
      <3>1. c \in Nat /\ c - a \in Slots /\ c < Total
        BY <1>1, <2>2, <2>4
      <3>2. ids[c - a] = c
        BY <1>1, <1>2, <3>1
      <3> QED
        BY <1>1, <2>2, <3>1, <3>2
    <2> QED
      BY <2>1, <2>3, <2>4 DEF Children
  <1>9. Cardinality(a..b) = IF a > b THEN 0 ELSE b - a + 1
    <2>1. a \in Int /\ b \in Int
      BY <1>1
    <2> HIDE DEF a, b
    <2> QED
      BY <2>1, FS_Interval
  <1> HIDE DEF a, f, count, ids
  <1>10. Scan(ids) = Cardinality(Children(v))
    BY <1>1, <1>7, <1>8, <1>9
  <1> QED
    BY <1>10 DEF ids

\* The definition of Subtree is sound: a vertex is in it when it is v or its
\* parent is.
LEMMA SubtreeParent ==
    ASSUME NEW v \in Nodes, NEW c \in Subtree(v)
    PROVE  c \in Nodes /\ (c = v \/ (c # 0 /\ ParentId(c) \in Subtree(v)))
  <1> DEFINE Closed(A) == v \in A /\ \A x \in Nodes : x # 0 /\ ParentId(x) \in A => x \in A
             Least == {x \in Nodes : \A A \in SUBSET Nodes : Closed(A) => x \in A}
             Rule(f) == [x \in Nodes |-> x = v \/ (x # 0 /\ f[ParentId(x)])]
             below == CHOOSE f : f = Rule(f)
             g == [x \in Nodes |-> x \in Least]
  <1>1. Closed(Least)
    OBVIOUS
  <1>2. ASSUME NEW x \in Least PROVE x = v \/ (x # 0 /\ ParentId(x) \in Least)
    <2> SUFFICES ASSUME x # v, ~(x # 0 /\ ParentId(x) \in Least) PROVE FALSE
      OBVIOUS
    <2>1. Closed(Least \ {x})
      <3> HIDE DEF Least
      <3> QED
        BY <1>1
    <2>2. Least \ {x} \in SUBSET Nodes
      OBVIOUS
    <2> QED
      BY <2>1, <2>2
  <1>3. g = Rule(g)
    <2>1. \A x \in Nodes : x # 0 => ParentId(x) \in Nodes
      BY ParentIsNode
    <2>2. ASSUME NEW x \in Nodes
          PROVE  (x \in Least) = (x = v \/ (x # 0 /\ g[ParentId(x)]))
      <3>1. CASE x = 0
        <4> HIDE DEF Least
        <4> QED
          BY <1>1, <1>2, <3>1
      <3>2. CASE x # 0
        <4>1. g[ParentId(x)] = (ParentId(x) \in Least)
          BY <2>1, <3>2
        <4> HIDE DEF Least, g
        <4> QED
          <5>1. x \in Least <=> (x = v \/ ParentId(x) \in Least)
            BY <1>1, <1>2, <3>2
          <5>2. (x \in Least) = (x = v \/ ParentId(x) \in Least)
            BY <5>1
          <5> QED
            BY <3>2, <4>1, <5>2
      <3> QED
        BY <3>1, <3>2
    <2> HIDE DEF Least
    <2> QED
      BY <2>2
  <1>4. below = Rule(below)
    <2> HIDE DEF g, Rule
    <2> QED
      BY <1>3
  <1>5. Subtree(v) = {x \in Nodes : below[x]}
    BY DEF Subtree
  <1>6. ASSUME NEW x \in Nodes, below[x] PROVE x = v \/ (x # 0 /\ below[ParentId(x)])
    <2> HIDE DEF below
    <2>1. below[x] = (x = v \/ (x # 0 /\ below[ParentId(x)]))
      BY <1>4
    <2> QED
      BY <1>6, <2>1
  <1> HIDE DEF below
  <1>7. \A x \in Nodes : x # 0 => ParentId(x) \in Nodes
    BY ParentIsNode
  <1> QED
    BY <1>5, <1>6, <1>7

\* Sets of nodes are finite.
LEMMA NodesFinite ==
    ASSUME NEW S \in SUBSET Nodes
    PROVE  IsFiniteSet(S) /\ Cardinality(S) \in Nat
  <1>1. IsFiniteSet(Nodes)
    <2>1. 0 \in Int /\ Total - 1 \in Int
      BY TbonAssumption
    <2> QED
      BY <2>1, FS_Interval DEF Nodes
  <1>2. IsFiniteSet(S)
    BY <1>1, FS_Subset
  <1> QED
    BY <1>2, FS_CardinalityType

\* The children of v that have reported
Reports(v) == reported \cap Children(v)

\* What SubtreeDone rests on: the number of children that the scan found is the
\* number there are, the reports counted are those of different children, each
\* of which has come back from its wait, and without a fault a vertex comes
\* back when all have reported.
ReportInv ==
    /\ \A v \in created : total_children[v] = Cardinality(Children(v))
    /\ reported \subseteq Nodes
    /\ \A c \in reported : wpc[c] = "after"
    /\ \A v \in Nodes :
         /\ children_done[v] = Cardinality(Reports(v))
         /\ wpc[v] # "before" => spc[v] \in {"sent", "error"}
         /\ ~faults /\ wpc[v] = "after" => children_done[v] >= total_children[v]

\* The message on its way down, waits, timeouts, reports and lost connections
\* keep it.
LEMMA ReportStep ==
    EdgesInv /\ SendInv /\ WaitInv /\ ReportInv /\ [WaitsNext]_<<vars, wvars>> => ReportInv'
  <1> SUFFICES ASSUME EdgesInv, SendInv, WaitInv, ReportInv, [WaitsNext]_<<vars, wvars>>
               PROVE  ReportInv'
    OBVIOUS
  <1>1. ASSUME NEW v \in Nodes, Down(v) PROVE ReportInv'
    <2>1. UNCHANGED wvars
      BY <1>1 DEF Down
    <2>2. ASSUME Initialize(v) PROVE ReportInv'
      <3>1. /\ v \notin created
            /\ created' = created \cup {v}
            /\ children_ids'[v] = [i \in Slots |-> ChildId(v, i)]
            /\ total_children' = [total_children EXCEPT ![v] = Scan(children_ids'[v])]
            /\ spc' = spc
        BY <2>2 DEF Initialize, EdgesInv
      <3>2. total_children' = [total_children EXCEPT ![v] = Cardinality(Children(v))]
        BY <3>1, ScanCounts
      <3>3. wpc[v] = "before"
        BY <3>1 DEF WaitInv
      <3>4. \A w \in Nodes : Reports(w)' = Reports(w)
        BY <2>1 DEF Reports, Children, wvars
      <3>5. \A w \in created' : total_children'[w] = Cardinality(Children(w))
        BY <3>1, <3>2 DEF ReportInv, WaitInv, EdgesInv
      <3>6. \A w \in Nodes : wpc[w] = "after" => total_children'[w] = total_children[w]
        BY <3>2, <3>3 DEF WaitInv
      <3>7. \A w : Children(w)' = Children(w)
        BY DEF Children
      <3> QED
        BY <2>1, <3>1, <3>4, <3>5, <3>6, <3>7 DEF ReportInv, wvars
    <2>3. ASSUME Receive(v) PROVE ReportInv'
      <3>1. copies[v] \in Nat /\ inbox[v] \in Nat /\ inbox[v] > 0
        BY <2>3 DEF Receive, SendInv, SendType
      <3>2. copies[v] + inbox[v] <= 1 /\ (copies[v] = 0 <=> spc[v] = "idle")
        BY DEF SendInv, Got, LoopInv
      <3>3. spc[v] = "idle"
        BY <3>1, <3>2
      <3>4. wpc[v] = "before"
        BY <3>3 DEF ReportInv
      <3> QED
        BY <2>1, <2>3, <3>4 DEF Receive, ReportInv, Reports, Children, wvars, edges
    <2>4. ASSUME SendToChild(v) \/ SendFails(v) \/ SendReturns(v) PROVE ReportInv'
      <3>1. spc[v] = "loop"
        BY <2>4 DEF SendToChild, SendFails, SendReturns
      <3>2. wpc[v] = "before"
        BY <3>1 DEF ReportInv
      <3> QED
        BY <2>1, <2>4, <3>2 DEF SendToChild, SendFails, SendReturns, ReportInv, WaitInv, Reports, Children, wvars, edges
    <2> QED
      BY <1>1, <2>2, <2>3, <2>4 DEF Down, Vertex
  <1>2. ASSUME NEW v \in Nodes, Lost(v) PROVE ReportInv'
    BY <1>2 DEF Lost, Disconnect, Overtaken, edges, ReportInv, Reports, Children
  <1>3. ASSUME NEW v \in Nodes, NEW usec, WaitBegin(v, usec) PROVE ReportInv'
    <2>1. UNCHANGED <<vars, children_done, reported>> /\ spc[v] \in {"sent", "error"} /\ wpc[v] = "before"
      BY <1>3 DEF WaitBegin
    <2>2. PICK new \in {"after", "waiting"} : wpc' = [wpc EXCEPT ![v] = new]
      BY <1>3 DEF WaitBegin
    <2>3. ~faults' /\ wpc'[v] = "after" => ~faults /\ (total_children[v] = 0 \/ Complete(v))
      BY <1>3 DEF WaitBegin, WaitInv
    <2>4. ~faults' /\ wpc'[v] = "after" => ~faults /\ children_done[v] >= total_children[v]
      <3>1. v \in created /\ children_done[v] \in Nat
        BY <2>1 DEF WaitInv
      <3>2. total_children[v] \in Nat
        <4>1. total_children[v] = Cardinality(Children(v)) /\ Children(v) \subseteq Nodes
          BY <3>1 DEF ReportInv, Children
        <4> QED
          BY <4>1, NodesFinite
      <3> QED
        BY <2>3, <3>1, <3>2 DEF Complete
    <2>5. ~faults' => ~faults
      BY <1>3 DEF WaitBegin
    <2> QED
      BY <2>1, <2>2, <2>4, <2>5 DEF vars, edges, ReportInv, Reports, Children, WaitInv
  <1>4. ASSUME NEW v \in Nodes, Timeout(v) PROVE ReportInv'
    BY <1>4 DEF Timeout, vars, edges, ReportInv, Reports, Children, WaitInv
  <1>5. ASSUME NEW v \in Nodes, NEW signal \in BOOLEAN, Report(v, signal) PROVE ReportInv'
    <2> DEFINE p == parent_id[v]
    <2>1. /\ UNCHANGED vars
          /\ children_done' = [children_done EXCEPT ![p] = @ + 1]
          /\ reported' = reported \cup {v}
          /\ v \notin reported /\ v # 0 /\ p \in created /\ v \in created
          /\ wpc[v] = "after"
      BY <1>5 DEF Report, MayReport
    <2>2. p = ParentId(v) /\ p \in Nodes
      BY <2>1 DEF EdgesInv
    <2>3. \/ /\ wpc' = [wpc EXCEPT ![p] = "after"]
             /\ wpc[p] = "waiting"
             /\ ~faults' => ~(children_done[p] + 1 < total_children[p])
          \/ wpc' = wpc
      <3>1. CASE signal /\ wpc[p] = "waiting"
        BY <1>5, <3>1 DEF Report
      <3>2. CASE ~(signal /\ wpc[p] = "waiting")
        BY <1>5, <3>2 DEF Report
      <3> QED
        BY <3>1, <3>2
    <2>4. ~faults' => ~faults
      BY <1>5 DEF Report
    <2> HIDE DEF p
    <2>5. ASSUME NEW w \in Nodes PROVE children_done'[w] = Cardinality(Reports(w)')
      <3>1. Reports(w)' = IF w = p THEN Reports(w) \cup {v} ELSE Reports(w)
        BY <2>1, <2>2 DEF Reports, Children, vars, edges
      <3>2. IsFiniteSet(Reports(w))
        <4>1. Reports(w) \in SUBSET Nodes
          BY DEF Reports, Children
        <4> QED
          BY <4>1, NodesFinite
      <3>3. v \notin Reports(w)
        BY <2>1 DEF Reports
      <3>4. Cardinality(Reports(w)') = IF w = p THEN Cardinality(Reports(w)) + 1 ELSE Cardinality(Reports(w))
        BY <3>1, <3>2, <3>3, FS_AddElement
      <3> QED
        BY <2>1, <2>2, <3>4 DEF ReportInv, WaitInv
    <2>6. ASSUME NEW w \in Nodes, ~faults', wpc'[w] = "after"
          PROVE  children_done'[w] >= total_children'[w]
      <3>0. w \in created
        <4>1. wpc[w] # "before"
          BY <2>3, <2>6 DEF WaitInv
        <4> QED
          BY <4>1 DEF WaitInv
      <3>1. total_children' = total_children /\ children_done[w] \in Nat
        BY <2>1 DEF vars, edges, WaitInv
      <3>2. total_children[w] \in Nat
        <4>1. total_children[w] = Cardinality(Children(w)) /\ Children(w) \subseteq Nodes
          BY <3>0 DEF ReportInv, Children
        <4> QED
          BY <4>1, NodesFinite
      <3>3. children_done'[w] = IF w = p THEN children_done[w] + 1 ELSE children_done[w]
        BY <2>1 DEF WaitInv
      <3>4. CASE wpc[w] = "after"
        <4>1. children_done[w] >= total_children[w]
          BY <2>4, <2>6, <3>4 DEF ReportInv
        <4> QED
          BY <3>1, <3>2, <3>3, <4>1
      <3>5. CASE wpc[w] # "after"
        <4>1. w = p /\ ~(children_done[p] + 1 < total_children[p])
          BY <2>3, <2>6, <3>5 DEF WaitInv
        <4> QED
          BY <3>1, <3>2, <3>3, <4>1
      <3> QED
        BY <3>4, <3>5
    <2>7. \A c \in reported' : wpc'[c] = "after"
      BY <2>1, <2>3 DEF ReportInv, WaitInv
    <2>8. \A w \in Nodes : wpc'[w] # "before" => spc'[w] \in {"sent", "error"}
      BY <2>1, <2>3 DEF ReportInv, WaitInv, vars
    <2> QED
      BY <2>1, <2>5, <2>6, <2>7, <2>8 DEF ReportInv, vars, edges
  <1>6. CASE UNCHANGED <<vars, wvars>>
    BY <1>6 DEF vars, edges, wvars, ReportInv, Reports, Children
  <1> QED
    BY <1>1, <1>2, <1>3, <1>4, <1>5, <1>6 DEF WaitsNext, Waiting

\* For every tree: as long as no wait ended early, no send failed and no
\* connection or message was lost, a vertex that comes back from
\* dynpm_tbon_children_done_wait_timeout has its whole subtree behind it.
THEOREM WaitCoversSubtree == WaitsSpec => []SubtreeDone
  <1>1. WaitsInit => EdgesInv /\ SendInv /\ WaitInv /\ ReportInv
    <2> SUFFICES ASSUME WaitsInit PROVE EdgesInv /\ SendInv /\ WaitInv /\ ReportInv
      OBVIOUS
    <2>1. EdgesInv
      BY DEF WaitsInit, Init, EdgesInv
    <2>2. SendInv
      BY SendInit DEF WaitsInit
    <2>3. WaitInv
      BY DEF WaitsInit, Init, WaitInv, NoLostReport
    <2>4. \A v \in Nodes : Reports(v) = {}
      BY DEF WaitsInit, Reports
    <2>5. ReportInv
      BY <2>4, FS_EmptySet DEF WaitsInit, Init, ReportInv
    <2> QED
      BY <2>1, <2>2, <2>3, <2>5
  <1>2. EdgesInv /\ SendInv /\ WaitInv /\ ReportInv /\ [WaitsNext]_<<vars, wvars>>
        => (EdgesInv /\ SendInv /\ WaitInv /\ ReportInv)'
    BY WaitsStep, EdgesStep, SendStep, WaitStep, ReportStep
  <1>3. EdgesInv /\ SendInv /\ WaitInv /\ ReportInv => SubtreeDone
    <2> SUFFICES ASSUME EdgesInv, SendInv, WaitInv, ReportInv, ~faults,
                        NEW v \in Nodes, wpc[v] = "after"
                 PROVE  \A c \in Subtree(v) : copies[c] = 1 /\ wpc[c] = "after"
      BY DEF SubtreeDone
    <2> DEFINE Bad == {c \in Subtree(v) : wpc[c] # "after"}
    <2>1. Bad \subseteq Nat
      BY SubtreeParent, TbonAssumption DEF Nodes
    <2>2. ASSUME Bad # {} PROVE FALSE
      <3>1. PICK c \in Bad : \A d \in Bad : c <= d
        <4> HIDE DEF Bad
        <4> QED
          BY <2>1, <2>2, LeastNumber
      <3> DEFINE p == ParentId(c)
      <3>2. c \in Nodes /\ c # 0 /\ p \in Subtree(v) /\ c \in Subtree(v)
        BY <3>1, SubtreeParent
      <3>3. p \in Nodes /\ p < c /\ c \in Nat /\ p \in Nat
        BY <3>2, ParentIsNode, TbonAssumption DEF Nodes
      <3>4. wpc[p] = "after"
        <4> HIDE DEF p
        <4>1. ~(c <= p)
          BY <3>3
        <4> QED
          BY <3>1, <3>2, <4>1
      <3>5. children_done[p] >= total_children[p] /\ p \in created
        BY <3>3, <3>4 DEF ReportInv, WaitInv
      <3>6. /\ children_done[p] = Cardinality(Reports(p))
            /\ total_children[p] = Cardinality(Children(p))
        BY <3>3, <3>5 DEF ReportInv
      <3>7. IsFiniteSet(Children(p)) /\ Reports(p) \in SUBSET Children(p)
        <4>1. Children(p) \in SUBSET Nodes
          BY DEF Children
        <4> QED
          BY <4>1, NodesFinite DEF Reports
      <3>8. Children(p) = Reports(p)
        <4> HIDE DEF p
        <4>1. /\ IsFiniteSet(Reports(p))
              /\ Cardinality(Reports(p)) <= Cardinality(Children(p))
              /\ Cardinality(Children(p)) = Cardinality(Reports(p)) => Children(p) = Reports(p)
          BY <3>7, FS_Subset
        <4>2. Cardinality(Children(p)) \in Nat /\ Cardinality(Reports(p)) \in Nat
          BY <3>7, <4>1, FS_CardinalityType
        <4> QED
          BY <3>5, <3>6, <4>1, <4>2
      <3>9. c \in Reports(p)
        BY <3>2, <3>8 DEF Children
      <3> QED
        BY <3>1, <3>9 DEF Reports, ReportInv
    <2>3. ASSUME NEW c \in Subtree(v) PROVE copies[c] = 1 /\ wpc[c] = "after"
      <3>1. c \in Nodes /\ wpc[c] = "after"
        BY <2>2, SubtreeParent
      <3>2. copies[c] # 0 /\ copies[c] \in Nat /\ inbox[c] \in Nat /\ copies[c] + inbox[c] <= 1
        BY <3>1 DEF ReportInv, SendInv, LoopInv, SendType, Got
      <3> QED
        BY <3>1, <3>2
    <2> QED
      BY <2>3
  <1> QED
    BY <1>1, <1>2, <1>3, PTL DEF WaitsSpec

-----------------------------------------------------------------------------
(* The deadline *)

\* _create_time_offset adds microseconds where nanoseconds belong: a wait never
\* lasts longer than it was asked to, and falls short of it by less than a
\* second.
THEOREM DeadlineIsNear ==
    ASSUME NEW usec \in 0..(Micros - 1)
    PROVE  /\ TimeLeft(usec) <= Requested
           /\ Requested - TimeLeft(usec) < NanosPerSecond
  <1>1. Micros \in Nat \ {0} /\ Nanos \in Nat \ {0} /\ Seconds \in Nat /\ Nanoseconds \in Nat
    BY WaitAssumption
  <1>2. usec \in Nat /\ usec + 1 <= Micros
    BY <1>1
  <1>3. usec * Nanos \in Nat /\ usec <= usec * Nanos
    BY <1>1, <1>2, Z3
  <1>4. usec * Nanos + Nanos <= Micros * Nanos
    BY <1>1, <1>2, Z3
  <1>5. Seconds * (Micros * Nanos) \in Nat /\ Micros * Nanos \in Nat
    BY <1>1, Z3
  <1>6. Requested - TimeLeft(usec) = usec * Nanos - usec
    BY <1>1, <1>2, <1>3, <1>5 DEF Requested, TimeLeft, DeadlineNsec, NanosPerSecond
  <1>7. Requested \in Int /\ TimeLeft(usec) \in Int
    BY <1>1, <1>2, <1>3, <1>5 DEF Requested, TimeLeft, DeadlineNsec, NanosPerSecond
  <1>8. NanosPerSecond = Micros * Nanos
    BY DEF NanosPerSecond
  <1> QED
    BY <1>1, <1>2, <1>3, <1>4, <1>5, <1>6, <1>7, <1>8
=============================================================================
