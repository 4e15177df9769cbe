------------------------- MODULE ShmLifecycleProofs -------------------------
(* Proofs about the life of the segments for every number of processes,     *)
(* inits, messages and replaced programs.                                   *)
EXTENDS ShmLifecycle, TLAPS

Numbers == 1..MaxInits

\* The manager of this session has opened segment s: it is at work on it, or has
\* gone past it and nothing has failed so far; it has published it.
Opened(s) ==
    \/ mgr.pc \in {"truncate", "publish"} /\ s = mgr.i
    \/ mgr.pc # "out" /\ ~mgr.error_code /\ (s < mgr.i \/ (s = mgr.i /\ mgr.pc # "open"))
Published(s) == mgr.pc # "out" /\ ~mgr.error_code /\ (s < mgr.i \/ mgr.pc = "up")

\* Process p began to attach after the init of this session had returned.
Current(p) == proc[p].since # 0 /\ proc[p].since = mgr.inits

\* dynpm_shm_manager_init takes the segments in order and returns 0 only when
\* none has failed.
ManagerInv ==
    /\ mgr.pc # "out" => mgr.inits # 0
    /\ mgr.pc \in {"up", "failed"} => mgr.i = ProcessCount
    /\ mgr.pc = "up" => ~mgr.error_code
    /\ mgr.pc \notin {"out", "up"} => mgr.write_count = 0

\* The name of a process segment stays once it is there; the manager's name is
\* that of the file the manager of this session mapped, until someone removes it.
NameInv ==
    /\ \A p \in Procs : Opened(p) => name[p] # 0
    /\ Opened(0) => mgr.seg # 0 /\ name[0] \in {0, mgr.seg} /\ (~detached => name[0] = mgr.seg)
    /\ \A p \in Procs : proc[p].pp # 0 => proc[p].pp = name[p]

\* The number of an init is not used before it starts: a file that it creates
\* is mapped by nobody yet.
NumberInv ==
    /\ \A s \in Segments : name[s] <= mgr.inits
    /\ mgr.seg <= mgr.inits
    /\ \A p \in Procs : proc[p].pm <= mgr.inits /\ proc[p].since <= mgr.inits
    /\ mgr.pc = "open" /\ mgr.i = 0 =>
         name[0] < mgr.inits /\ \A p \in Procs : proc[p].pm < mgr.inits
    /\ \A p \in Procs : Current(p) => mgr.pc \in {"up", "out"}

\* What the manager of this session has published is still there, with its
\* counter, and nobody wrote to the segment of a process that has not mapped it.
PublishedInv ==
    /\ Published(0) => /\ block[<<0, mgr.seg>>].state = "set"
                       /\ block[<<0, mgr.seg>>].count = mgr.write_count
    /\ \A p \in Procs : Published(p) =>
         /\ block[<<p, name[p]>>].state = "set"
         /\ ~proc[p].process_control =>
              block[<<p, name[p]>>].count = 0 /\ mgr.write_count \in {0, 1}

\* Where an attach is, and what it holds there.
AttachInv ==
    \A p \in Procs :
        /\ proc[p].maps <= 1
        /\ ~proc[p].process_control => proc[p].maps = 0 /\ proc[p].pp = 0
        /\ proc[p].pc = "own" => ~proc[p].process_control
        /\ proc[p].pc \in {"fetch_own", "attached"} => proc[p].process_control /\ proc[p].pp # 0
        /\ proc[p].pc \in {"fetch", "own", "fetch_own", "attached"} => proc[p].pm # 0

\* An attach that began after an init had returned meets a published block.
SinceInv ==
    \A p \in Procs : proc[p].since # 0 =>
        /\ proc[p].pc = "fetch" => block[<<0, proc[p].pm>>].state = "set"
        /\ proc[p].pc \in {"own", "fetch_own", "attached"} => proc[p].job
        /\ proc[p].since = mgr.inits /\ mgr.pc = "up"
             /\ proc[p].pc \in {"fetch", "own", "fetch_own", "attached"} => proc[p].pm = mgr.seg

\* The first attach of a program, begun while the manager's name was there.
InvitedInv ==
    \A p \in Procs : proc[p].invited =>
        /\ proc[p].since # 0
        /\ proc[p].pc \in {"fetch", "own", "fetch_own", "attached"}
        /\ proc[p].pc \in {"fetch", "own"} =>
             ~proc[p].process_control /\ name[p] # 0 /\ block[<<p, name[p]>>].state = "set"
        /\ proc[p].pc = "fetch_own" => block[<<p, proc[p].pp>>].state = "set"

\* The counters of a process that attached in this session.
LagInv ==
    \A p \in Procs : mgr.pc = "up" /\ Current(p) =>
        /\ proc[p].pc = "fetch_own" =>
             block[<<p, name[p]>>].count = 0 /\ mgr.write_count \in {0, 1}
        /\ proc[p].pc = "attached" =>
             /\ block[<<p, name[p]>>].count = proc[p].read_count
             /\ mgr.write_count \in {proc[p].read_count, proc[p].read_count + 1}

IInv ==
    /\ TypeOK /\ ManagerInv /\ NameInv /\ NumberInv /\ PublishedInv
    /\ AttachInv /\ SinceInv /\ InvitedInv /\ LagInv

-----------------------------------------------------------------------------
(* Types *)

\* Segments, processes and numbers of inits.
LEMMA Sets ==
    /\ 0 \in Segments /\ 0 \notin Procs /\ ProcessCount \in Nat /\ ProcessCount \in Segments
    /\ MaxInits \in Nat /\ MaxWrites \in Nat /\ MaxReplaced \in Nat /\ ProcessCount # 0
    /\ \A p \in Procs : p \in Segments /\ p \in Nat /\ p # 0
    /\ \A s \in Segments : s \in Nat /\ s <= ProcessCount /\ (s = 0 \/ s \in Procs)
    /\ \A s \in Segments : s < ProcessCount => s + 1 \in Procs
    /\ \A n \in 0..MaxInits : n \in Nat /\ (n # 0 => n \in Numbers)
    /\ \A n \in Numbers : n \in 0..MaxInits /\ n # 0
    /\ 0 \in 0..MaxInits /\ 0 \in 0..MaxWrites /\ \A n \in 0..MaxWrites : n \in Nat
  BY LifecycleAssumption DEF Segments, Procs, Numbers

\* The fields of the records have their types.
LEMMA Fields ==
    ASSUME TypeOK
    PROVE  /\ mgr.pc \in {"out", "open", "truncate", "publish", "up", "failed"}
           /\ mgr.i \in Segments /\ mgr.error_code \in BOOLEAN /\ mgr.i \in Nat
           /\ mgr.seg \in 0..MaxInits /\ mgr.seg \in Nat /\ mgr.write_count \in 0..MaxWrites
           /\ mgr.write_count \in Nat /\ mgr.inits \in 0..MaxInits /\ mgr.inits \in Nat
           /\ \A p \in Procs :
                /\ proc[p] \in Programs
                /\ proc[p].pc \in {"out", "fetch", "own", "fetch_own", "attached", "killed",
                                   "aborted"}
                /\ {proc[p].manager_control, proc[p].process_control, proc[p].job,
                    proc[p].invited} \subseteq BOOLEAN
                /\ proc[p].pm \in 0..MaxInits /\ proc[p].pm \in Nat
                /\ proc[p].pp \in 0..MaxInits /\ proc[p].pp \in Nat
                /\ proc[p].since \in 0..MaxInits /\ proc[p].since \in Nat
                /\ proc[p].maps \in Nat
                /\ proc[p].read_count \in 0..MaxWrites /\ proc[p].read_count \in Nat
           /\ \A s \in Segments : name[s] \in 0..MaxInits /\ name[s] \in Nat
           /\ \A s \in Segments, n \in Numbers :
                /\ <<s, n>> \in Files /\ block[<<s, n>>] \in Blocks
                /\ block[<<s, n>>].state \in {"none", "empty", "zero", "set"}
                /\ block[<<s, n>>].count \in 0..MaxWrites /\ block[<<s, n>>].count \in Nat
  <1>1. /\ mgr.pc \in {"out", "open", "truncate", "publish", "up", "failed"}
        /\ mgr.i \in Segments /\ mgr.error_code \in BOOLEAN
        /\ mgr.seg \in 0..MaxInits /\ mgr.write_count \in 0..MaxWrites
        /\ mgr.inits \in 0..MaxInits
    BY DEF TypeOK, Managers
  <1>2. mgr.i \in Nat /\ mgr.seg \in Nat /\ mgr.write_count \in Nat /\ mgr.inits \in Nat
    BY <1>1, Sets
  <1>3. ASSUME NEW p \in Procs
        PROVE  /\ proc[p] \in Programs
               /\ proc[p].pc \in {"out", "fetch", "own", "fetch_own", "attached", "killed",
                                  "aborted"}
               /\ {proc[p].manager_control, proc[p].process_control, proc[p].job,
                   proc[p].invited} \subseteq BOOLEAN
               /\ proc[p].pm \in 0..MaxInits /\ proc[p].pm \in Nat
               /\ proc[p].pp \in 0..MaxInits /\ proc[p].pp \in Nat
               /\ proc[p].since \in 0..MaxInits /\ proc[p].since \in Nat
               /\ proc[p].maps \in Nat
               /\ proc[p].read_count \in 0..MaxWrites /\ proc[p].read_count \in Nat
    <2>1. proc[p] \in Programs
      BY DEF TypeOK
    <2>2.
               /\ proc[p].pc \in {"out", "fetch", "own", "fetch_own", "attached", "killed", "aborted"}
          /\ {proc[p].manager_control, proc[p].process_control, proc[p].job,
              proc[p].invited} \subseteq BOOLEAN
          /\ proc[p].pm \in 0..MaxInits /\ proc[p].pp \in 0..MaxInits
          /\ proc[p].since \in 0..MaxInits /\ proc[p].maps \in Nat
          /\ proc[p].read_count \in 0..MaxWrites
      BY <2>1 DEF Programs
    <2> QED
      BY <2>1, <2>2, Sets
  <1>4. \A s \in Segments : name[s] \in 0..MaxInits /\ name[s] \in Nat
    BY Sets DEF TypeOK
  <1>5. ASSUME NEW s \in Segments, NEW n \in Numbers
        PROVE  /\ <<s, n>> \in Files /\ block[<<s, n>>] \in Blocks
               /\ block[<<s, n>>].state \in {"none", "empty", "zero", "set"}
               /\ block[<<s, n>>].count \in 0..MaxWrites /\ block[<<s, n>>].count \in Nat
    <2>1. <<s, n>> \in Files
      BY DEF Files, Numbers
    <2>2. block[<<s, n>>] \in Blocks
      BY <2>1 DEF TypeOK
    <2> QED
      BY <2>1, <2>2, Sets DEF Blocks
  <1> QED
    BY <1>1, <1>2, <1>3, <1>4, <1>5

\* What happens to the first bytes of one file.
States == {"none", "empty", "zero", "set"}
PutBlock(b, s, n, k) == [b EXCEPT ![<<s, n>>] = [state |-> "set", count |-> k]]
PutState(b, s, n, x) == [b EXCEPT ![<<s, n>>].state = x]
PutCount(b, s, n, k) == [b EXCEPT ![<<s, n>>].count = k]

\* An assignment to the block of one file leaves the others alone.
LEMMA OneBlock ==
    ASSUME NEW b \in [Files -> Blocks], NEW s \in Segments, NEW n \in Numbers,
           NEW k \in 0..MaxWrites
    PROVE  /\ PutBlock(b, s, n, k) \in [Files -> Blocks]
           /\ PutBlock(b, s, n, k)[<<s, n>>].state = "set"
           /\ PutBlock(b, s, n, k)[<<s, n>>].count = k
           /\ \A t \in Segments, m \in Numbers :
                t # s \/ m # n => PutBlock(b, s, n, k)[<<t, m>>] = b[<<t, m>>]
  <1>1. <<s, n>> \in Files /\ b[<<s, n>>] \in Blocks
    BY DEF Files, Numbers
  <1>2. \A t \in Segments, m \in Numbers : <<t, m>> \in Files
    BY DEF Files, Numbers
  <1>3. \A t \in Segments, m \in Numbers : t # s \/ m # n => <<t, m>> # <<s, n>>
    OBVIOUS
  <1>4. PutBlock(b, s, n, k) \in [Files -> Blocks]
    BY <1>1 DEF PutBlock, Blocks
  <1>5. /\ PutBlock(b, s, n, k)[<<s, n>>].state = "set"
        /\ PutBlock(b, s, n, k)[<<s, n>>].count = k
    BY <1>1 DEF PutBlock, Blocks
  <1> QED
    BY <1>1, <1>2, <1>3, <1>4, <1>5 DEF PutBlock

\* So does one to its state,
LEMMA OneState ==
    ASSUME NEW b \in [Files -> Blocks], NEW s \in Segments, NEW n \in Numbers,
           NEW x \in States
    PROVE  /\ PutState(b, s, n, x) \in [Files -> Blocks]
           /\ PutState(b, s, n, x)[<<s, n>>].state = x
           /\ PutState(b, s, n, x)[<<s, n>>].count = b[<<s, n>>].count
           /\ \A t \in Segments, m \in Numbers :
                t # s \/ m # n => PutState(b, s, n, x)[<<t, m>>] = b[<<t, m>>]
  <1>1. <<s, n>> \in Files /\ b[<<s, n>>] \in Blocks
    BY DEF Files, Numbers
  <1>2. \A t \in Segments, m \in Numbers : <<t, m>> \in Files
    BY DEF Files, Numbers
  <1>3. \A t \in Segments, m \in Numbers : t # s \/ m # n => <<t, m>> # <<s, n>>
    OBVIOUS
  <1>4. PutState(b, s, n, x) \in [Files -> Blocks]
    BY <1>1 DEF PutState, Blocks, States
  <1>5. /\ PutState(b, s, n, x)[<<s, n>>].state = x
        /\ PutState(b, s, n, x)[<<s, n>>].count = b[<<s, n>>].count
    BY <1>1 DEF PutState, Blocks, States
  <1> QED
    BY <1>1, <1>2, <1>3, <1>4, <1>5 DEF PutState

\* and one to its counter.
LEMMA OneCount ==
    ASSUME NEW b \in [Files -> Blocks], NEW s \in Segments, NEW n \in Numbers,
           NEW k \in 0..MaxWrites
    PROVE  /\ PutCount(b, s, n, k) \in [Files -> Blocks]
           /\ PutCount(b, s, n, k)[<<s, n>>].state = b[<<s, n>>].state
           /\ PutCount(b, s, n, k)[<<s, n>>].count = k
           /\ \A t \in Segments, m \in Numbers :
                t # s \/ m # n => PutCount(b, s, n, k)[<<t, m>>] = b[<<t, m>>]
  <1>1. <<s, n>> \in Files /\ b[<<s, n>>] \in Blocks
    BY DEF Files, Numbers
  <1>2. \A t \in Segments, m \in Numbers : <<t, m>> \in Files
    BY DEF Files, Numbers
  <1>3. \A t \in Segments, m \in Numbers : t # s \/ m # n => <<t, m>> # <<s, n>>
    OBVIOUS
  <1>4. PutCount(b, s, n, k) \in [Files -> Blocks]
    BY <1>1 DEF PutCount, Blocks
  <1>5. /\ PutCount(b, s, n, k)[<<s, n>>].state = b[<<s, n>>].state
        /\ PutCount(b, s, n, k)[<<s, n>>].count = k
    BY <1>1 DEF PutCount, Blocks
  <1> QED
    BY <1>1, <1>2, <1>3, <1>4, <1>5 DEF PutCount

\* After a segment, init goes on to the next one or returns.
LEMMA NextFacts ==
    ASSUME TypeOK, NEW failed \in BOOLEAN, NextSegment(failed)
    PROVE  /\ mgr'.seg = mgr.seg /\ mgr'.write_count = mgr.write_count /\ mgr'.inits = mgr.inits
           /\ mgr'.i \in Segments /\ mgr' \in Managers /\ mgr'.pc \in {"open", "up", "failed"}
           /\ mgr'.pc = "open" => mgr'.i = mgr.i + 1 /\ mgr.i < ProcessCount
           /\ mgr'.pc \in {"up", "failed"} => mgr'.i = mgr.i /\ mgr.i = ProcessCount
           /\ mgr'.error_code = (mgr.error_code \/ failed)
           /\ mgr'.pc = "up" => ~mgr'.error_code
  <1> DEFINE e == mgr.error_code \/ failed
  <1>1. e \in BOOLEAN
    BY Fields
  <1>2. CASE mgr.i < ProcessCount
    <2>1. mgr' = [mgr EXCEPT !.pc = "open", !.i = mgr.i + 1, !.error_code = e]
      BY <1>2 DEF NextSegment
    <2>2. mgr.i + 1 \in Segments
      BY <1>2, Fields, Sets
    <2> HIDE DEF e
    <2>3. mgr'.pc = "open" /\ mgr'.i = mgr.i + 1 /\ mgr'.error_code = e /\ mgr' \in Managers
          /\ mgr'.seg = mgr.seg /\ mgr'.write_count = mgr.write_count /\ mgr'.inits = mgr.inits
      BY <1>1, <2>1, <2>2 DEF TypeOK, Managers
    <2> QED
      BY <1>2, <2>2, <2>3 DEF e
  <1>3. CASE ~(mgr.i < ProcessCount)
    <2>1. mgr' = [mgr EXCEPT !.pc = IF e THEN "failed" ELSE "up", !.error_code = e]
      BY <1>3 DEF NextSegment
    <2>2. mgr.i = ProcessCount
      BY <1>3, Fields, Sets
    <2> HIDE DEF e
    <2>3. mgr'.pc = (IF e THEN "failed" ELSE "up") /\ mgr'.i = mgr.i /\ mgr'.error_code = e
          /\ mgr' \in Managers
          /\ mgr'.seg = mgr.seg /\ mgr'.write_count = mgr.write_count /\ mgr'.inits = mgr.inits
      BY <1>1, <2>1 DEF TypeOK, Managers
    <2> QED
      BY <2>2, <2>3, Fields DEF e
  <1> QED
    BY <1>2, <1>3

\* What holds while the manager is up: every segment is there and published.
LEMMA UpFacts ==
    ASSUME IInv, mgr.pc = "up"
    PROVE  /\ mgr.seg \in Numbers /\ mgr.seg # 0 /\ mgr.inits # 0
           /\ name[0] \in {0, mgr.seg} /\ (~detached => name[0] = mgr.seg)
           /\ block[<<0, mgr.seg>>].state = "set"
                /\ block[<<0, mgr.seg>>].count = mgr.write_count
           /\ \A p \in Procs :
                /\ name[p] \in Numbers /\ name[p] # 0 /\ block[<<p, name[p]>>].state = "set"
                /\ ~proc[p].process_control =>
                     block[<<p, name[p]>>].count = 0 /\ mgr.write_count \in {0, 1}
  <1>1. mgr.i = ProcessCount /\ \A s \in Segments : s < ProcessCount \/ s = ProcessCount
    BY Sets DEF IInv, ManagerInv
  <1>2. \A s \in Segments : Opened(s) /\ Published(s)
    BY <1>1 DEF Opened, Published, IInv, ManagerInv
  <1>3. mgr.inits # 0
    BY DEF IInv, ManagerInv
  <1>4. mgr.seg # 0 /\ name[0] \in {0, mgr.seg} /\ (~detached => name[0] = mgr.seg)
    BY <1>2, Sets DEF IInv, NameInv
  <1>5. \A p \in Procs : name[p] # 0
    BY <1>2, Sets DEF IInv, NameInv
  <1>6. /\ block[<<0, mgr.seg>>].state = "set" /\ block[<<0, mgr.seg>>].count = mgr.write_count
        /\ \A p \in Procs :
             /\ block[<<p, name[p]>>].state = "set"
             /\ ~proc[p].process_control =>
                  block[<<p, name[p]>>].count = 0 /\ mgr.write_count \in {0, 1}
    BY <1>2, Sets DEF IInv, PublishedInv
  <1> QED
    BY <1>3, <1>4, <1>5, <1>6, Fields, Sets DEF IInv

-----------------------------------------------------------------------------
(* One lemma per action: what it changes, then each part it can disturb *)

\* A new session starts with a number nobody has used.
LEMMA ManagerInitKeeps ==
    ASSUME IInv, ManagerInit
    PROVE  IInv'
  <1>1. /\ mgr.pc = "out" /\ mgr.inits < MaxInits
        /\ detached' = FALSE
        /\ UNCHANGED <<name, block, foreign, proc, replaced>>
    BY DEF ManagerInit
  <1>2. /\ mgr'.pc = "open"
        /\ mgr'.i = 0
        /\ mgr'.error_code = FALSE
        /\ mgr'.seg = 0
        /\ mgr'.write_count = 0
        /\ mgr'.inits = mgr.inits + 1
    BY DEF ManagerInit
  <1>3. mgr.inits \in Nat /\ mgr.inits + 1 \in 0..MaxInits
    BY <1>1, Fields, Sets DEF IInv
  <1>4. TypeOK'
    <2>1. mgr' \in Managers
      BY <1>1, <1>3, Sets DEF ManagerInit, Managers
    <2> QED
      BY <1>1, <2>1 DEF IInv, TypeOK
  <1>5. ManagerInv'
    BY <1>1, <1>2, <1>3 DEF IInv, ManagerInv
  <1>6. NameInv'
    BY <1>1, <1>2, <1>3, Fields, Sets DEF IInv, NameInv, Opened
  <1>7. NumberInv'
    BY <1>1, <1>2, <1>3, Fields, Sets DEF IInv, NumberInv, Current
  <1>8. PublishedInv'
    BY <1>1, <1>2, <1>3, Fields, Sets DEF IInv, PublishedInv, Published
  <1>9. SinceInv'
    BY <1>1, <1>2, <1>3 DEF IInv, SinceInv
  <1>10. LagInv'
    BY <1>1, <1>2, <1>3 DEF IInv, LagInv, Current
  <1>11. AttachInv' /\ InvitedInv'
    BY <1>1 DEF IInv, AttachInv, InvitedInv
  <1> QED
    BY <1>4, <1>5, <1>6, <1>7, <1>8, <1>9, <1>10, <1>11 DEF IInv

\* The file is the one that has the name, or a new one nobody has mapped.
LEMMA OpenKeeps ==
    ASSUME IInv, Open
    PROVE  IInv'
  <1>1. /\ mgr.pc = "open" /\ mgr.i \in Segments
        /\ mgr.inits \in Numbers
        /\ UNCHANGED <<foreign, proc, replaced, detached>>
    BY Fields, Sets DEF Open, IInv, ManagerInv
  <1>2. /\ mgr'.pc = "truncate"
        /\ mgr'.seg = IF mgr.i = 0 THEN name'[0] ELSE mgr.seg
        /\ mgr'.i = mgr.i /\ mgr'.error_code = mgr.error_code
             /\ mgr'.write_count = mgr.write_count /\ mgr'.inits = mgr.inits
    BY DEF Open, IInv, TypeOK, Managers
  <1>3. /\ name' \in [Segments -> 0..MaxInits] /\ name'[mgr.i] # 0
        /\ name'[mgr.i] = IF name[mgr.i] = 0 THEN mgr.inits ELSE name[mgr.i]
        /\ \A s \in Segments : s # mgr.i => name'[s] = name[s]
    BY <1>1, Sets DEF Open, IInv, TypeOK
  <1>4. /\ block' \in [Files -> Blocks]
        /\ \A s \in Segments, n \in Numbers : block'[<<s, n>>].count = block[<<s, n>>].count
        /\ \A s \in Segments, n \in Numbers :
             s # mgr.i \/ n # mgr.inits \/ name[mgr.i] # 0 => block'[<<s, n>>] = block[<<s, n>>]
    <2>1. CASE name[mgr.i] # 0
      BY <2>1 DEF Open, IInv, TypeOK
    <2>2. CASE name[mgr.i] = 0
      <3>1. block \in [Files -> Blocks]
        BY DEF IInv, TypeOK
      <3>2. block' = PutState(block, mgr.i, mgr.inits, "empty")
        BY <2>2 DEF Open, PutState
      <3>3. /\ block' \in [Files -> Blocks]
            /\ block'[<<mgr.i, mgr.inits>>].count = block[<<mgr.i, mgr.inits>>].count
            /\ \A s \in Segments, n \in Numbers :
                 s # mgr.i \/ n # mgr.inits => block'[<<s, n>>] = block[<<s, n>>]
        <4> DEFINE i == mgr.i
                   m == mgr.inits
        <4>1. i \in Segments /\ m \in Numbers /\ block' = PutState(block, i, m, "empty")
              /\ "empty" \in States
          BY <1>1, <3>2 DEF States
        <4> HIDE DEF i, m
        <4>2. /\ block' \in [Files -> Blocks] /\ block'[<<i, m>>].count = block[<<i, m>>].count
              /\ \A s \in Segments, n \in Numbers :
                   s # i \/ n # m => block'[<<s, n>>] = block[<<s, n>>]
          BY <3>1, <4>1, OneState
        <4> QED
          BY <4>2 DEF i, m
      <3> QED
        BY <3>3, <2>2
    <2> QED
      BY <2>1, <2>2
  <1>5. TypeOK'
    <2>1. mgr' \in Managers
      <3>1. name'[0] \in 0..MaxInits
        BY <1>3, Sets
      <3> QED
        BY <1>1, <3>1 DEF Open, IInv, TypeOK, Managers
    <2> QED
      BY <1>1, <1>3, <1>4, <2>1 DEF IInv, TypeOK
  <1>6. ManagerInv'
    BY <1>1, <1>2, <1>3, <1>4 DEF IInv, ManagerInv
  <1>7. NameInv'
    BY <1>1, <1>2, <1>3, <1>4, Fields, Sets DEF IInv, NameInv, Opened
  <1>8. NumberInv'
    BY <1>1, <1>2, <1>3, <1>4 DEF IInv, NumberInv, Current
  <1>9. PublishedInv'
    BY <1>1, <1>2, <1>3, <1>4, Fields, Sets DEF IInv, AttachInv, Current, ManagerInv, NameInv,
       NumberInv, Opened, Published, PublishedInv
  <1>10. SinceInv'
    BY <1>1, <1>2, <1>3, <1>4, Fields, Sets DEF IInv, AttachInv, Current, NameInv, NumberInv,
       Opened, Published, PublishedInv, SinceInv
  <1>11. InvitedInv'
    BY <1>1, <1>2, <1>3, <1>4, Fields, Sets DEF IInv, AttachInv, Current, InvitedInv, NameInv,
       NumberInv, Opened, Published, PublishedInv, SinceInv
  <1>12. LagInv'
    BY <1>1, <1>2, <1>3, <1>4 DEF IInv, LagInv, Current
  <1>13. AttachInv'
    BY <1>1 DEF IInv, AttachInv
  <1> QED
    BY <1>5, <1>6, <1>7, <1>8, <1>9, <1>10, <1>11, <1>12, <1>13 DEF IInv

\* Only a file without bytes changes.
LEMMA TruncateKeeps ==
    ASSUME IInv, Truncate
    PROVE  IInv'
  <1>1. /\ mgr.pc = "truncate"
        /\ UNCHANGED <<name, foreign, proc, replaced, detached>>
    BY DEF Truncate
  <1>2. /\ mgr.i \in Segments /\ (~mgr.error_code => mgr.seg \in Numbers)
        /\ (IF mgr.i = 0 THEN mgr.seg ELSE name[mgr.i]) \in Numbers
    <2>1. Opened(mgr.i) /\ (~mgr.error_code => Opened(0))
      BY <1>1, Fields, Sets DEF IInv, Opened
    <2> QED
      BY <2>1, Fields, Sets DEF IInv, NameInv
  <1>3. /\ mgr'.pc = "publish"
        /\ mgr'.i = mgr.i /\ mgr'.error_code = mgr.error_code /\ mgr'.seg = mgr.seg
             /\ mgr'.write_count = mgr.write_count /\ mgr'.inits = mgr.inits
    BY DEF Truncate, IInv, TypeOK, Managers
  <1>4. /\ block' \in [Files -> Blocks]
        /\ \A s \in Segments, n \in Numbers :
             /\ block'[<<s, n>>].count = block[<<s, n>>].count
             /\ block[<<s, n>>].state = "set" => block'[<<s, n>>].state = "set"
    <2> DEFINE n0 == IF mgr.i = 0 THEN mgr.seg ELSE name[mgr.i]
               x == IF block[<<mgr.i, n0>>].state = "empty" THEN "zero"
                 ELSE block[<<mgr.i, n0>>].state
    <2>1. block \in [Files -> Blocks]
      BY DEF IInv, TypeOK
    <2>2. n0 \in Numbers /\ mgr.i \in Segments
      BY <1>2
    <2>3. block' = PutState(block, mgr.i, n0, x)
      BY DEF Truncate, File, PutState
    <2>4. x \in States /\ (block[<<mgr.i, n0>>].state = "set" => x = "set")
      BY <2>2, Fields DEF IInv, States
    <2> HIDE DEF n0, x
    <2>7. /\ block' \in [Files -> Blocks]
          /\ block'[<<mgr.i, n0>>].state = x
          /\ block'[<<mgr.i, n0>>].count = block[<<mgr.i, n0>>].count
          /\ \A s \in Segments, n \in Numbers :
               s # mgr.i \/ n # n0 => block'[<<s, n>>] = block[<<s, n>>]
      <3> DEFINE i == mgr.i
      <3>1. i \in Segments /\ block' = PutState(block, i, n0, x)
        BY <2>2, <2>3
      <3> HIDE DEF i
      <3>2. /\ block' \in [Files -> Blocks]
            /\ block'[<<i, n0>>].state = x /\ block'[<<i, n0>>].count = block[<<i, n0>>].count
            /\ \A s \in Segments, n \in Numbers :
                 s # i \/ n # n0 => block'[<<s, n>>] = block[<<s, n>>]
        BY <2>1, <2>2, <2>4, <3>1, OneState
      <3> QED
        BY <3>2 DEF i
    <2> QED
      BY <2>4, <2>7
  <1>5. TypeOK'
    <2>1. mgr' \in Managers
      BY DEF Truncate, IInv, TypeOK, Managers
    <2> QED
      BY <1>1, <1>4, <2>1 DEF IInv, TypeOK
  <1>6. ManagerInv'
    BY <1>1, <1>2, <1>3, <1>4 DEF IInv, ManagerInv
  <1>7. NameInv'
    BY <1>1, <1>2, <1>3, <1>4 DEF IInv, NameInv, Opened
  <1>8. NumberInv'
    BY <1>1, <1>2, <1>3, <1>4 DEF IInv, NumberInv, Current
  <1>9. PublishedInv'
    BY <1>1, <1>2, <1>3, <1>4, Fields, Sets DEF IInv, AttachInv, Current, ManagerInv, NameInv,
       NumberInv, Opened, Published, PublishedInv
  <1>10. SinceInv'
    BY <1>1, <1>2, <1>3, <1>4, Fields, Sets DEF IInv, AttachInv, Current, NameInv, NumberInv,
       Opened, Published, PublishedInv, SinceInv
  <1>11. InvitedInv'
    BY <1>1, <1>2, <1>3, <1>4, Fields, Sets DEF IInv, AttachInv, Current, InvitedInv, NameInv,
       NumberInv, Opened, Published, PublishedInv, SinceInv
  <1>12. LagInv'
    BY <1>1, <1>2, <1>3, <1>4 DEF IInv, LagInv, Current
  <1>13. AttachInv'
    BY <1>1 DEF IInv, AttachInv
  <1> QED
    BY <1>5, <1>6, <1>7, <1>8, <1>9, <1>10, <1>11, <1>12, <1>13 DEF IInv

\* The block of the segment is set, with a counter of 0, and init goes on.
LEMMA PublishKeeps ==
    ASSUME IInv, Publish
    PROVE  IInv'
  <1>1. /\ mgr.pc = "publish"
        /\ UNCHANGED <<name, foreign, proc, replaced, detached>>
    BY DEF Publish, NextSegment
  <1>2. /\ mgr.i \in Segments /\ (~mgr.error_code => mgr.seg \in Numbers)
        /\ (IF mgr.i = 0 THEN mgr.seg ELSE name[mgr.i]) \in Numbers
    <2>1. Opened(mgr.i) /\ (~mgr.error_code => Opened(0))
      BY <1>1, Fields, Sets DEF IInv, Opened
    <2> QED
      BY <2>1, Fields, Sets DEF IInv, NameInv
  <1>3. /\ mgr'.seg = mgr.seg /\ mgr'.write_count = mgr.write_count /\ mgr'.inits = mgr.inits
        /\ mgr'.i \in Segments /\ mgr' \in Managers /\ mgr'.pc \in {"open", "up", "failed"}
        /\ mgr'.pc = "open" => mgr'.i = mgr.i + 1 /\ mgr.i < ProcessCount
        /\ mgr'.pc \in {"up", "failed"} => mgr'.i = mgr.i /\ mgr.i = ProcessCount
        /\ mgr'.error_code = (mgr.error_code \/ FALSE)
        /\ mgr'.pc = "up" => ~mgr'.error_code
    BY <1>1, NextFacts DEF IInv, Publish
  <1> DEFINE n0 == IF mgr.i = 0 THEN mgr.seg ELSE name[mgr.i]
  <1>4. n0 \in Numbers /\ (mgr.i = 0 => n0 = mgr.seg) /\ (mgr.i # 0 => n0 = name[mgr.i])
    BY <1>2
  <1>5. /\ block' \in [Files -> Blocks]
        /\ block'[<<mgr.i, n0>>].state = "set" /\ block'[<<mgr.i, n0>>].count = 0
        /\ \A s \in Segments, n \in Numbers :
             s # mgr.i \/ n # n0 => block'[<<s, n>>] = block[<<s, n>>]
        /\ \A s \in Segments, n \in Numbers :
             block[<<s, n>>].state = "set" => block'[<<s, n>>].state = "set"
    <2>1. block \in [Files -> Blocks]
      BY DEF IInv, TypeOK
    <2>3. block' = PutBlock(block, mgr.i, n0, 0)
      BY DEF Publish, File, PutBlock
    <2> HIDE DEF n0
    <2>4. /\ block' \in [Files -> Blocks]
          /\ block'[<<mgr.i, n0>>].state = "set" /\ block'[<<mgr.i, n0>>].count = 0
          /\ \A s \in Segments, n \in Numbers :
               s # mgr.i \/ n # n0 => block'[<<s, n>>] = block[<<s, n>>]
      <3> DEFINE i == mgr.i
      <3>1. i \in Segments /\ block' = PutBlock(block, i, n0, 0) /\ 0 \in 0..MaxWrites
        BY <1>2, <2>3, Sets
      <3> HIDE DEF i
      <3>2. /\ block' \in [Files -> Blocks]
            /\ block'[<<i, n0>>].state = "set" /\ block'[<<i, n0>>].count = 0
            /\ \A s \in Segments, n \in Numbers :
                 s # i \/ n # n0 => block'[<<s, n>>] = block[<<s, n>>]
        BY <1>4, <2>1, <3>1, OneBlock
      <3> QED
        BY <3>2 DEF i
    <2> QED
      BY <2>4
  <1> HIDE DEF n0
  <1>6. TypeOK'
    BY <1>1, <1>3, <1>5 DEF IInv, TypeOK
  <1>7. ManagerInv'
    BY <1>1, <1>2, <1>3, <1>4, <1>5 DEF IInv, ManagerInv
  <1>8. NameInv'
    <2>1. mgr'.error_code <=> mgr.error_code
      BY <1>3, Fields DEF IInv
    <2>2. \A s \in Segments : Opened(s)' => Opened(s)
      BY <1>1, <1>3, <2>1, Fields, Sets DEF IInv, Opened
    <2> QED
      BY <1>1, <1>3, <2>2, Sets DEF IInv, NameInv
  <1>9. NumberInv'
    BY <1>1, <1>2, <1>3, <1>4, <1>5, Fields DEF IInv, NumberInv, Current
  <1>10. PublishedInv'
    <2>1. \A s \in Segments : Published(s)' => Published(s) \/ s = mgr.i
      BY <1>1, <1>3, Fields, Sets DEF IInv, Published
    <2>2. mgr.write_count = 0
      BY <1>1 DEF IInv, ManagerInv
    <2>3. \A p \in Procs : Published(p) => name[p] \in Numbers
      BY <1>1, Fields, Sets DEF IInv, Published, NameInv, Opened
    <2>4. ASSUME Published(0)'
          PROVE  /\ block'[<<0, mgr.seg>>].state = "set"
                 /\ block'[<<0, mgr.seg>>].count = mgr.write_count
      <3>1. CASE mgr.i = 0
        BY <1>4, <1>5, <2>2, <3>1
      <3>2. CASE mgr.i # 0
        <4>1. Published(0)
          BY <2>1, <2>4, <3>2, Sets
        <4>2. mgr.seg \in Numbers
          BY <1>2, <4>1 DEF Published
        <4> QED
          BY <1>5, <3>2, <4>1, <4>2, Sets DEF IInv, PublishedInv
      <3> QED
        BY <3>1, <3>2
    <2>5. ASSUME NEW p \in Procs, Published(p)'
          PROVE  /\ block'[<<p, name[p]>>].state = "set"
                 /\ ~proc[p].process_control => block'[<<p, name[p]>>].count = 0
      <3>1. CASE mgr.i = p
        BY <1>4, <1>5, <3>1, Sets
      <3>2. CASE mgr.i # p
        BY <1>5, <2>1, <2>3, <2>5, <3>2, Sets DEF IInv, PublishedInv
      <3> QED
        BY <3>1, <3>2
    <2> QED
      BY <1>1, <1>3, <2>2, <2>4, <2>5 DEF PublishedInv
  <1>11. SinceInv'
    BY <1>1, <1>2, <1>3, <1>4, <1>5, Fields, Sets DEF IInv, AttachInv, Current, NameInv,
       NumberInv, Opened, Published, PublishedInv, SinceInv
  <1>12. InvitedInv'
    BY <1>1, <1>2, <1>3, <1>4, <1>5, Fields, Sets DEF IInv, AttachInv, Current, InvitedInv,
       NameInv, NumberInv, Opened, Published, PublishedInv, SinceInv
  <1>13. LagInv'
    BY <1>1, <1>2, <1>3, <1>4, <1>5 DEF IInv, AttachInv, Current, LagInv, ManagerInv, NameInv,
       NumberInv, Opened, Published, PublishedInv, SinceInv
  <1>14. AttachInv'
    BY <1>1 DEF IInv, AttachInv
  <1> QED
    BY <1>6, <1>7, <1>8, <1>9, <1>10, <1>11, <1>12, <1>13, <1>14 DEF IInv

\* The error is remembered, and init goes on.
LEMMA SegmentFailsKeeps ==
    ASSUME IInv, SegmentFails
    PROVE  IInv'
  <1>1. /\ mgr.pc \in {"open", "truncate", "publish"}
        /\ UNCHANGED <<name, block, foreign, proc, replaced, detached>>
    BY DEF SegmentFails, NextSegment
  <1>2. /\ mgr'.seg = mgr.seg /\ mgr'.write_count = mgr.write_count /\ mgr'.inits = mgr.inits
        /\ mgr'.i \in Segments /\ mgr' \in Managers /\ mgr'.pc \in {"open", "up", "failed"}
        /\ mgr'.pc = "open" => mgr'.i = mgr.i + 1 /\ mgr.i < ProcessCount
        /\ mgr'.pc \in {"up", "failed"} => mgr'.i = mgr.i /\ mgr.i = ProcessCount
        /\ mgr'.error_code = (mgr.error_code \/ TRUE)
        /\ mgr'.pc = "up" => ~mgr'.error_code
    BY <1>1, NextFacts DEF IInv, SegmentFails
  <1>3. TypeOK'
    BY <1>1, <1>2 DEF IInv, TypeOK
  <1>4. ManagerInv'
    BY <1>1, <1>2 DEF IInv, ManagerInv
  <1>5. NameInv'
    <2>1. \A s \in Segments : ~Opened(s)'
      BY <1>1, <1>2, Fields, Sets DEF IInv, Opened
    <2> QED
      BY <1>1, <1>2, <2>1, Sets DEF IInv, NameInv
  <1>6. NumberInv'
    BY <1>1, <1>2, Fields DEF IInv, NumberInv, Current
  <1>7. PublishedInv'
    BY <1>1, <1>2 DEF IInv, PublishedInv, Published
  <1>8. SinceInv'
    BY <1>1, <1>2 DEF IInv, SinceInv
  <1>9. LagInv'
    BY <1>1, <1>2 DEF IInv, LagInv, Current
  <1>10. AttachInv' /\ InvitedInv'
    BY <1>1 DEF IInv, AttachInv, InvitedInv
  <1> QED
    BY <1>3, <1>4, <1>5, <1>6, <1>7, <1>8, <1>9, <1>10 DEF IInv

\* The manager's name goes, and the session with it.
LEMMA ManagerFinalizeKeeps ==
    ASSUME IInv, ManagerFinalize
    PROVE  IInv'
  <1>1. /\ mgr.pc \in {"up", "failed"}
        /\ name' \in [Segments -> 0..MaxInits] /\ name'[0] = 0
        /\ \A p \in Procs : name'[p] = name[p]
        /\ UNCHANGED <<block, foreign, proc, replaced, detached>>
    BY Sets DEF ManagerFinalize, ManagerLeaves, IInv, TypeOK
  <1>2. /\ mgr'.pc = "out"
        /\ mgr'.i = 0
        /\ mgr'.seg = 0
        /\ mgr'.error_code = mgr.error_code /\ mgr'.write_count = mgr.write_count
             /\ mgr'.inits = mgr.inits
        /\ mgr' \in Managers
    BY Sets DEF ManagerFinalize, ManagerLeaves, IInv, TypeOK, Managers
  <1>3. TypeOK'
    BY <1>1, <1>2 DEF IInv, TypeOK
  <1>4. ManagerInv'
    BY <1>1, <1>2 DEF IInv, ManagerInv
  <1>5. NameInv'
    BY <1>1, <1>2 DEF IInv, NameInv, Opened
  <1>6. NumberInv'
    BY <1>1, <1>2, Fields, Sets DEF IInv, NumberInv, Current
  <1>7. PublishedInv'
    BY <1>1, <1>2 DEF IInv, PublishedInv, Published
  <1>8. SinceInv'
    BY <1>1, <1>2 DEF IInv, SinceInv
  <1>9. InvitedInv'
    BY <1>1, <1>2 DEF IInv, InvitedInv
  <1>10. LagInv'
    BY <1>1, <1>2 DEF IInv, LagInv, Current
  <1>11. AttachInv'
    BY <1>1 DEF IInv, AttachInv
  <1> QED
    BY <1>3, <1>4, <1>5, <1>6, <1>7, <1>8, <1>9, <1>10, <1>11 DEF IInv

\* Names and files outlive the manager.
LEMMA ManagerCrashKeeps ==
    ASSUME IInv, ManagerCrash
    PROVE  IInv'
  <1>1. /\ mgr.pc # "out"
        /\ UNCHANGED <<name, block, foreign, proc, replaced, detached>>
    BY DEF ManagerCrash, ManagerLeaves
  <1>2. /\ mgr'.pc = "out"
        /\ mgr'.i = 0
        /\ mgr'.seg = 0
        /\ mgr'.error_code = mgr.error_code /\ mgr'.write_count = mgr.write_count
             /\ mgr'.inits = mgr.inits
        /\ mgr' \in Managers
    BY Sets DEF ManagerCrash, ManagerLeaves, IInv, TypeOK, Managers
  <1>3. TypeOK'
    BY <1>1, <1>2 DEF IInv, TypeOK
  <1>4. ManagerInv'
    BY <1>1, <1>2 DEF IInv, ManagerInv
  <1>5. NameInv'
    BY <1>1, <1>2 DEF IInv, NameInv, Opened
  <1>6. NumberInv'
    BY <1>1, <1>2, Fields DEF IInv, NumberInv, Current
  <1>7. PublishedInv'
    BY <1>1, <1>2 DEF IInv, PublishedInv, Published
  <1>8. SinceInv'
    BY <1>1, <1>2 DEF IInv, SinceInv
  <1>9. LagInv'
    BY <1>1, <1>2 DEF IInv, LagInv, Current
  <1>10. AttachInv' /\ InvitedInv'
    BY <1>1 DEF IInv, AttachInv, InvitedInv
  <1> QED
    BY <1>3, <1>4, <1>5, <1>6, <1>7, <1>8, <1>9, <1>10 DEF IInv

\* A message is written when every process has read the last one.
LEMMA ManagerWriteKeeps ==
    ASSUME IInv, ManagerWrite
    PROVE  IInv'
  <1>1. /\ mgr.pc = "up" /\ mgr.write_count < MaxWrites
        /\ \A p \in Procs : block[<<p, name[p]>>].count = mgr.write_count
        /\ UNCHANGED <<name, foreign, proc, replaced, detached>>
    BY DEF ManagerWrite
  <1>2. mgr.seg \in Numbers /\ mgr.write_count \in Nat /\ mgr.write_count + 1 \in 0..MaxWrites
        /\ \A p \in Procs : name[p] \in Numbers
    <2>1. mgr.write_count \in Nat /\ mgr.write_count + 1 \in 0..MaxWrites
      BY <1>1, Fields, Sets DEF IInv
    <2>2. mgr.seg \in Numbers /\ \A p \in Procs : name[p] \in Numbers
      BY <1>1, UpFacts
    <2> QED
      BY <2>1, <2>2
  <1>3. /\ mgr'.write_count = mgr.write_count + 1
        /\ mgr'.pc = mgr.pc /\ mgr'.i = mgr.i /\ mgr'.error_code = mgr.error_code
             /\ mgr'.seg = mgr.seg /\ mgr'.inits = mgr.inits
        /\ mgr' \in Managers
    BY <1>2 DEF ManagerWrite, IInv, TypeOK, Managers
  <1>4. /\ block' \in [Files -> Blocks]
        /\ block'[<<0, mgr.seg>>].count = mgr.write_count + 1
        /\ \A s \in Segments, n \in Numbers : block'[<<s, n>>].state = block[<<s, n>>].state
        /\ \A p \in Procs, n \in Numbers : block'[<<p, n>>] = block[<<p, n>>]
    <2>1. block \in [Files -> Blocks]
      BY DEF IInv, TypeOK
    <2>2. block' = PutCount(block, 0, mgr.seg, mgr.write_count + 1)
      BY DEF ManagerWrite, PutCount
    <2>4. /\ block' \in [Files -> Blocks]
          /\ block'[<<0, mgr.seg>>].state = block[<<0, mgr.seg>>].state
          /\ block'[<<0, mgr.seg>>].count = mgr.write_count + 1
          /\ \A s \in Segments, n \in Numbers :
               s # 0 \/ n # mgr.seg => block'[<<s, n>>] = block[<<s, n>>]
      BY <1>2, <2>1, <2>2, OneCount, Sets
    <2> QED
      BY <2>4, Sets
  <1>5. TypeOK'
    BY <1>1, <1>3, <1>4 DEF IInv, TypeOK
  <1>6. ManagerInv'
    BY <1>1, <1>2, <1>3, <1>4 DEF IInv, ManagerInv
  <1>7. NameInv'
    BY <1>1, <1>2, <1>3, <1>4 DEF IInv, NameInv, Opened
  <1>8. NumberInv'
    BY <1>1, <1>2, <1>3, <1>4 DEF IInv, NumberInv, Current
  <1>9. PublishedInv'
    BY <1>1, <1>2, <1>3, <1>4, Fields, Sets DEF IInv, PublishedInv, Published
  <1>10. SinceInv'
    BY <1>1, <1>2, <1>3, <1>4, Fields, Sets DEF IInv, AttachInv, Current, NameInv, NumberInv,
       Opened, Published, PublishedInv, SinceInv
  <1>11. InvitedInv'
    BY <1>1, <1>2, <1>3, <1>4 DEF IInv, AttachInv, Current, InvitedInv, NameInv, NumberInv,
       Opened, Published, PublishedInv, SinceInv
  <1>12. LagInv'
    BY <1>1, <1>2, <1>3, <1>4 DEF IInv, LagInv, Current
  <1>13. AttachInv'
    BY <1>1 DEF IInv, AttachInv
  <1> QED
    BY <1>5, <1>6, <1>7, <1>8, <1>9, <1>10, <1>11, <1>12, <1>13 DEF IInv

\* The attach begins: what it maps is the manager's file of this session, if any.
LEMMA AttachOpenKeeps ==
    ASSUME IInv, NEW p \in Procs, AttachOpen(p)
    PROVE  IInv'
  <1>1. /\ proc[p].pc = "out" /\ ~proc[p].manager_control
        /\ UNCHANGED <<name, block, foreign, mgr, replaced, detached>>
    BY DEF AttachOpen, OthersUnchanged
  <1>2. /\ \A q \in Procs : q # p => proc'[q] = proc[q]
        /\ proc'[p].pc = IF name[0] = 0 THEN "out" ELSE "fetch"
        /\ proc'[p].manager_control = TRUE
        /\ proc'[p].pm = name[0]
        /\ proc'[p].since = IF mgr.pc = "up" THEN mgr.inits ELSE 0
        /\ proc'[p].invited = (mgr.pc = "up" /\ ~detached /\ ~proc[p].process_control)
        /\ proc'[p].process_control = proc[p].process_control /\ proc'[p].pp = proc[p].pp
        /\ proc'[p].job = proc[p].job /\ proc'[p].read_count = proc[p].read_count
        /\ proc'[p].maps = proc[p].maps
    BY DEF AttachOpen, IInv, TypeOK, Programs
  <1>3. TypeOK'
    <2> DEFINE iv == mgr.pc = "up" /\ ~detached /\ ~proc[p].process_control
               sn == IF mgr.pc = "up" THEN mgr.inits ELSE 0
               at == IF name[0] = 0 THEN "out" ELSE "fetch"
    <2>1. /\ iv \in BOOLEAN /\ sn \in 0..MaxInits /\ at \in {"out", "fetch"}
          /\ name[0] \in 0..MaxInits
      BY Fields, Sets DEF IInv
    <2>2. proc' = [proc EXCEPT ![p].manager_control = TRUE, ![p].pc = at, ![p].pm = name[0],
                               ![p].since = sn, ![p].invited = iv]
      BY DEF AttachOpen
    <2> HIDE DEF iv, sn, at
    <2>3. proc'[p] = [proc[p] EXCEPT !.manager_control = TRUE, !.pc = at, !.pm = name[0],
                                     !.since = sn, !.invited = iv]
      BY <2>2 DEF IInv, TypeOK
    <2>4. proc'[p] \in Programs
      BY <2>1, <2>3, Fields DEF IInv, Programs
    <2>5. proc' \in [Procs -> Programs]
      BY <2>2, <2>4 DEF IInv, TypeOK
    <2> QED
      BY <1>1, <2>5 DEF IInv, TypeOK
  <1>4. NameInv'
    BY <1>1, <1>2 DEF IInv, NameInv, Opened
  <1>5. NumberInv'
    <2>1. name[0] <= mgr.inits /\ (mgr.pc = "open" /\ mgr.i = 0 => name[0] < mgr.inits)
      BY Sets DEF IInv, NumberInv
    <2>2. proc'[p].since <= mgr.inits /\ (mgr.pc # "up" => proc'[p].since = 0)
      BY <1>2, Fields DEF IInv
    <2> QED
      BY <1>1, <1>2, <2>1, <2>2 DEF IInv, NumberInv, Current
  <1>6. PublishedInv'
    BY <1>1, <1>2 DEF IInv, PublishedInv, Published
  <1>7. AttachInv'
    BY <1>1, <1>2 DEF IInv, AttachInv
  <1>8. SinceInv'
    <2>1. CASE mgr.pc = "up"
      <3>1. proc'[p].pc = "fetch" => proc'[p].pm = mgr.seg
              /\ block[<<0, mgr.seg>>].state = "set"
        BY <1>2, <2>1, UpFacts
      <3> QED
        BY <1>1, <1>2, <3>1 DEF IInv, SinceInv
    <2>2. CASE mgr.pc # "up"
      BY <1>1, <1>2, <2>2 DEF IInv, SinceInv
    <2> QED
      BY <2>1, <2>2
  <1>9. InvitedInv'
    <2>1. ASSUME proc'[p].invited
          PROVE  /\ proc'[p].since # 0 /\ proc'[p].pc = "fetch" /\ ~proc[p].process_control
                 /\ name[p] # 0 /\ block[<<p, name[p]>>].state = "set"
      <3>1. mgr.pc = "up" /\ ~detached /\ ~proc[p].process_control
        BY <1>2, <2>1
      <3> QED
        BY <1>2, <3>1, UpFacts
    <2> QED
      BY <1>1, <1>2, <2>1 DEF IInv, InvitedInv
  <1>10. LagInv'
    BY <1>1, <1>2 DEF IInv, LagInv, Current
  <1>11. ManagerInv'
    BY <1>1 DEF IInv, ManagerInv
  <1> QED
    BY <1>3, <1>4, <1>5, <1>6, <1>7, <1>8, <1>9, <1>10, <1>11 DEF IInv

\* The assertion ends the program.
LEMMA AttachAgainKeeps ==
    ASSUME IInv, NEW p \in Procs, AttachAgain(p)
    PROVE  IInv'
  <1>1. /\ proc[p].pc = "out"
        /\ UNCHANGED <<name, block, foreign, mgr, replaced, detached>>
    BY DEF AttachAgain, OthersUnchanged
  <1>2. /\ \A q \in Procs : q # p => proc'[q] = proc[q]
        /\ proc'[p].pc = "aborted"
        /\ proc'[p].invited = FALSE
        /\ proc'[p].manager_control = proc[p].manager_control
             /\ proc'[p].process_control = proc[p].process_control
        /\ proc'[p].pm = proc[p].pm /\ proc'[p].pp = proc[p].pp
        /\ proc'[p].job = proc[p].job /\ proc'[p].read_count = proc[p].read_count
        /\ proc'[p].maps = proc[p].maps /\ proc'[p].since = proc[p].since
    BY DEF AttachAgain, IInv, TypeOK, Programs
  <1>3. TypeOK'
    <2>1. proc'[p] = [proc[p] EXCEPT !.pc = "aborted", !.invited = FALSE]
      BY DEF IInv, TypeOK, AttachAgain
    <2>2. proc'[p] \in Programs
      BY <2>1, Fields DEF IInv, Programs
    <2>3. proc' \in [Procs -> Programs]
      BY <2>2 DEF IInv, TypeOK, AttachAgain
    <2> QED
      BY <1>1, <2>3 DEF IInv, TypeOK
  <1>4. NameInv'
    BY <1>1, <1>2 DEF IInv, NameInv, Opened
  <1>5. NumberInv'
    BY <1>1, <1>2 DEF IInv, NumberInv, Current
  <1>6. PublishedInv'
    BY <1>1, <1>2 DEF IInv, PublishedInv, Published
  <1>7. AttachInv'
    BY <1>1, <1>2 DEF IInv, AttachInv
  <1>8. SinceInv'
    BY <1>1, <1>2 DEF IInv, SinceInv
  <1>9. InvitedInv'
    BY <1>1, <1>2 DEF IInv, InvitedInv
  <1>10. LagInv'
    BY <1>1, <1>2 DEF IInv, LagInv, Current
  <1>11. ManagerInv'
    BY <1>1 DEF IInv, ManagerInv
  <1> QED
    BY <1>3, <1>4, <1>5, <1>6, <1>7, <1>8, <1>9, <1>10, <1>11 DEF IInv

\* The manager's block is fetched; the own segment is next if none is mapped.
LEMMA AttachFetchKeeps ==
    ASSUME IInv, NEW p \in Procs, AttachFetch(p)
    PROVE  IInv'
  <1>1. /\ proc[p].pc = "fetch"
        /\ UNCHANGED <<name, block, foreign, mgr, replaced, detached>>
    BY DEF AttachFetch, OthersUnchanged, MayAllocate
  <1>2. /\ \A q \in Procs : q # p => proc'[q] = proc[q]
        /\ proc'[p].pc = IF block[<<0, proc[p].pm>>].state = "empty" THEN "killed"
                        ELSE IF ~proc[p].process_control THEN "own" ELSE "aborted"
        /\ proc'[p].job = (block[<<0, proc[p].pm>>].state = "set")
        /\ proc'[p].manager_control = proc[p].manager_control
             /\ proc'[p].process_control = proc[p].process_control
        /\ proc'[p].pm = proc[p].pm /\ proc'[p].pp = proc[p].pp
        /\ proc'[p].read_count = proc[p].read_count /\ proc'[p].maps = proc[p].maps
        /\ proc'[p].since = proc[p].since /\ proc'[p].invited = proc[p].invited
    BY DEF AttachFetch, IInv, TypeOK, Programs, MayAllocate
  <1>3. TypeOK'
    <2>1. proc'[p] \in Programs
      BY <1>1, <1>2, Fields, Sets DEF IInv, TypeOK, Programs, AttachFetch, MayAllocate
    <2>2. proc' \in [Procs -> Programs]
      BY <2>1 DEF IInv, TypeOK, AttachFetch, MayAllocate
    <2> QED
      BY <1>1, <2>2 DEF IInv, TypeOK
  <1>4. NameInv'
    BY <1>1, <1>2 DEF IInv, NameInv, Opened
  <1>5. NumberInv'
    BY <1>1, <1>2 DEF IInv, NumberInv, Current
  <1>6. PublishedInv'
    BY <1>1, <1>2 DEF IInv, PublishedInv, Published
  <1>7. AttachInv'
    BY <1>1, <1>2 DEF IInv, AttachInv
  <1>8. SinceInv'
    BY <1>1, <1>2 DEF IInv, SinceInv
  <1>9. InvitedInv'
    BY <1>1, <1>2 DEF IInv, AttachInv, Current, InvitedInv, NameInv, NumberInv, Opened,
       Published, PublishedInv, SinceInv
  <1>10. LagInv'
    BY <1>1, <1>2 DEF IInv, LagInv, Current
  <1>11. ManagerInv'
    BY <1>1 DEF IInv, ManagerInv
  <1> QED
    BY <1>3, <1>4, <1>5, <1>6, <1>7, <1>8, <1>9, <1>10, <1>11 DEF IInv

\* The own segment is mapped if it has a name.
LEMMA AttachOwnKeeps ==
    ASSUME IInv, NEW p \in Procs, AttachOwn(p)
    PROVE  IInv'
  <1>1. /\ proc[p].pc = "own"
        /\ UNCHANGED <<name, block, foreign, mgr, replaced, detached>>
    BY DEF AttachOwn, OthersUnchanged
  <1>2. /\ \A q \in Procs : q # p => proc'[q] = proc[q]
        /\ proc'[p].pc = IF name[p] = 0 THEN "out" ELSE "fetch_own"
        /\ proc'[p].process_control = TRUE
        /\ proc'[p].pp = name[p]
        /\ proc'[p].maps = IF name[p] = 0 THEN proc[p].maps ELSE proc[p].maps + 1
        /\ proc'[p].manager_control = proc[p].manager_control /\ proc'[p].pm = proc[p].pm
        /\ proc'[p].job = proc[p].job /\ proc'[p].read_count = proc[p].read_count
        /\ proc'[p].since = proc[p].since /\ proc'[p].invited = proc[p].invited
    BY DEF AttachOwn, IInv, TypeOK, Programs
  <1>3. TypeOK'
    <2>1. proc'[p] \in Programs
      BY <1>1, <1>2, Fields, Sets DEF IInv, TypeOK, Programs, AttachOwn
    <2>2. proc' \in [Procs -> Programs]
      BY <2>1 DEF IInv, TypeOK, AttachOwn
    <2> QED
      BY <1>1, <2>2 DEF IInv, TypeOK
  <1>4. NameInv'
    BY <1>1, <1>2 DEF IInv, NameInv, Opened
  <1>5. NumberInv'
    BY <1>1, <1>2 DEF IInv, NumberInv, Current
  <1>6. PublishedInv'
    BY <1>1, <1>2 DEF IInv, PublishedInv, Published
  <1>7. AttachInv'
    BY <1>1, <1>2 DEF IInv, AttachInv
  <1>8. SinceInv'
    BY <1>1, <1>2 DEF IInv, SinceInv
  <1>9. InvitedInv'
    <2>1. proc[p].invited =>
            proc[p].since # 0 /\ name[p] # 0 /\ block[<<p, name[p]>>].state = "set"
      BY <1>1 DEF IInv, InvitedInv
    <2>2. proc[p].invited => proc'[p].pc = "fetch_own"
      BY <1>2, <2>1
    <2> QED
      BY <1>1, <1>2, <2>1, <2>2 DEF IInv, InvitedInv
  <1>10. LagInv'
    BY <1>1, <1>2 DEF IInv, AttachInv, Current, LagInv, ManagerInv, NameInv, NumberInv, Opened,
       Published, PublishedInv, SinceInv
  <1>11. ManagerInv'
    BY <1>1 DEF IInv, ManagerInv
  <1> QED
    BY <1>3, <1>4, <1>5, <1>6, <1>7, <1>8, <1>9, <1>10, <1>11 DEF IInv

\* The attach ends with the pointers set that it has got to.
LEMMA AttachFailsKeeps ==
    ASSUME IInv, NEW p \in Procs, AttachFails(p)
    PROVE  IInv'
  <1>1. /\ proc[p].pc \in {"out", "own"}
        /\ UNCHANGED <<name, block, foreign, mgr, replaced, detached>>
    BY DEF AttachFails, OthersUnchanged
  <1>2. /\ \A q \in Procs : q # p => proc'[q] = proc[q]
        /\ proc'[p].pc = "out" /\ proc'[p].invited = FALSE
        /\ proc'[p].pp = proc[p].pp /\ proc'[p].job = proc[p].job
        /\ proc'[p].read_count = proc[p].read_count /\ proc'[p].maps = proc[p].maps
        /\ proc'[p].manager_control \in {proc[p].manager_control, TRUE}
        /\ proc'[p].process_control \in {proc[p].process_control, TRUE}
        /\ proc'[p].pm \in {proc[p].pm, 0} /\ proc'[p].since \in {proc[p].since, 0}
    <2>1. CASE proc[p].pc = "out"
      <3>1. proc' = [proc EXCEPT ![p].manager_control = TRUE, ![p].pm = 0,
                                 ![p].since = 0, ![p].invited = FALSE]
        BY <2>1 DEF AttachFails
      <3> QED
        BY <2>1, <3>1 DEF IInv, TypeOK, Programs
    <2>2. CASE proc[p].pc = "own"
      <3>1. proc' = [proc EXCEPT ![p].process_control = TRUE, ![p].pc = "out",
                                 ![p].invited = FALSE]
        BY <2>2 DEF AttachFails
      <3> QED
        BY <2>2, <3>1 DEF IInv, TypeOK, Programs
    <2> QED
      BY <1>1, <2>1, <2>2
  <1>3. TypeOK'
    <2>0. p \in DOMAIN proc /\ 0 \in 0..MaxInits /\ FALSE \in BOOLEAN /\ TRUE \in BOOLEAN
          /\ proc[p] \in Programs
      BY Sets DEF IInv, TypeOK
    <2>1. proc'[p] \in Programs /\ proc' = [proc EXCEPT ![p] = proc'[p]]
      <3>1. CASE proc[p].pc = "out"
        <4>1. proc' = [proc EXCEPT ![p].manager_control = TRUE, ![p].pm = 0,
                                   ![p].since = 0, ![p].invited = FALSE]
          BY <3>1 DEF AttachFails
        <4>2. proc'[p] = [proc[p] EXCEPT !.manager_control = TRUE, !.pm = 0,
                                         !.since = 0, !.invited = FALSE]
          BY <2>0, <4>1
        <4> QED
          BY <2>0, <4>1, <4>2 DEF Programs
      <3>2. CASE proc[p].pc = "own"
        <4>1. proc' = [proc EXCEPT ![p].process_control = TRUE, ![p].pc = "out",
                                   ![p].invited = FALSE]
          BY <3>2 DEF AttachFails
        <4>2. proc'[p] = [proc[p] EXCEPT !.process_control = TRUE, !.pc = "out",
                                         !.invited = FALSE]
          BY <2>0, <4>1
        <4> QED
          BY <2>0, <4>1, <4>2 DEF Programs
      <3> QED
        BY <1>1, <3>1, <3>2
    <2>3. proc' \in [Procs -> Programs]
      BY <2>1 DEF IInv, TypeOK
    <2> QED
      BY <1>1, <2>3 DEF IInv, TypeOK
  <1>4. NameInv'
    BY <1>1, <1>2 DEF IInv, NameInv, Opened
  <1>5. NumberInv'
    <2>1. 0 <= mgr.inits /\ (mgr.pc = "open" => 0 < mgr.inits)
      BY Fields DEF IInv, ManagerInv
    <2> QED
      BY <1>1, <1>2, <2>1 DEF IInv, NumberInv, Current
  <1>6. PublishedInv'
    BY <1>1, <1>2 DEF IInv, PublishedInv, Published
  <1>7. AttachInv'
    BY <1>1, <1>2 DEF IInv, AttachInv
  <1>8. SinceInv'
    BY <1>1, <1>2 DEF IInv, SinceInv
  <1>9. InvitedInv'
    BY <1>1, <1>2 DEF IInv, InvitedInv
  <1>10. LagInv'
    BY <1>1, <1>2 DEF IInv, LagInv, Current
  <1>11. ManagerInv'
    BY <1>1 DEF IInv, ManagerInv
  <1> QED
    BY <1>3, <1>4, <1>5, <1>6, <1>7, <1>8, <1>9, <1>10, <1>11 DEF IInv

\* The own block is fetched with its counter.
LEMMA AttachFetchOwnKeeps ==
    ASSUME IInv, NEW p \in Procs, AttachFetchOwn(p)
    PROVE  IInv'
  <1>1. /\ proc[p].pc = "fetch_own"
        /\ block[<<p, proc[p].pp>>].count \in 0..MaxWrites
        /\ UNCHANGED <<name, block, foreign, mgr, replaced, detached>>
    BY Fields, Sets DEF AttachFetchOwn, OthersUnchanged, IInv, AttachInv
  <1>2. /\ \A q \in Procs : q # p => proc'[q] = proc[q]
        /\ proc'[p].pc = IF block[<<p, proc[p].pp>>].state = "empty" THEN "killed"
             ELSE "attached"
        /\ proc'[p].read_count = block[<<p, proc[p].pp>>].count
        /\ proc'[p].manager_control = proc[p].manager_control
             /\ proc'[p].process_control = proc[p].process_control
        /\ proc'[p].pm = proc[p].pm /\ proc'[p].pp = proc[p].pp
        /\ proc'[p].job = proc[p].job /\ proc'[p].maps = proc[p].maps
        /\ proc'[p].since = proc[p].since /\ proc'[p].invited = proc[p].invited
    BY DEF AttachFetchOwn, IInv, TypeOK, Programs
  <1>3. TypeOK'
    <2>1. proc'[p] \in Programs
      BY <1>1, <1>2, Fields, Sets DEF IInv, TypeOK, Programs, AttachFetchOwn
    <2>2. proc' \in [Procs -> Programs]
      BY <2>1 DEF IInv, TypeOK, AttachFetchOwn
    <2> QED
      BY <1>1, <2>2 DEF IInv, TypeOK
  <1>4. NameInv'
    BY <1>1, <1>2 DEF IInv, NameInv, Opened
  <1>5. NumberInv'
    BY <1>1, <1>2 DEF IInv, NumberInv, Current
  <1>6. PublishedInv'
    BY <1>1, <1>2 DEF IInv, PublishedInv, Published
  <1>7. AttachInv'
    BY <1>1, <1>2 DEF IInv, AttachInv
  <1>8. SinceInv'
    BY <1>1, <1>2 DEF IInv, SinceInv
  <1>9. InvitedInv'
    BY <1>1, <1>2 DEF IInv, InvitedInv
  <1>10. LagInv'
    BY <1>1, <1>2 DEF IInv, AttachInv, Current, LagInv, ManagerInv, NameInv, NumberInv, Opened,
       Published, PublishedInv, SinceInv
  <1>11. ManagerInv'
    BY <1>1 DEF IInv, ManagerInv
  <1> QED
    BY <1>3, <1>4, <1>5, <1>6, <1>7, <1>8, <1>9, <1>10, <1>11 DEF IInv

\* The process leaves, and the manager's name may go with it.
LEMMA DetachKeeps ==
    ASSUME IInv, NEW p \in Procs, Detach(p)
    PROVE  IInv'
  <1>1. /\ proc[p].pc = "attached" /\ detached' = TRUE
        /\ name' \in [Segments -> 0..MaxInits] /\ name'[0] \in {0, name[0]}
        /\ \A q \in Procs : name'[q] = name[q]
        /\ foreign' \in BOOLEAN
        /\ UNCHANGED <<block, mgr, replaced>>
    BY Sets DEF Detach, IInv, TypeOK
  <1>2. /\ \A q \in Procs : q # p => proc'[q] = proc[q]
        /\ proc'[p].pc = "out"
        /\ proc'[p].manager_control = FALSE
        /\ proc'[p].pm = 0
        /\ proc'[p].invited = FALSE
        /\ proc'[p].process_control = proc[p].process_control /\ proc'[p].pp = proc[p].pp
        /\ proc'[p].job = proc[p].job /\ proc'[p].read_count = proc[p].read_count
        /\ proc'[p].maps = proc[p].maps /\ proc'[p].since = proc[p].since
    BY DEF Detach, IInv, TypeOK, Programs
  <1>3. TypeOK'
    <2>1. proc'[p] \in Programs
      BY <1>1, <1>2, Fields, Sets DEF IInv, TypeOK, Programs, Detach
    <2>2. proc' \in [Procs -> Programs]
      BY <2>1 DEF IInv, TypeOK, Detach
    <2> QED
      BY <1>1, <2>2 DEF IInv, TypeOK
  <1>4. NameInv'
    BY <1>1, <1>2 DEF IInv, NameInv, Opened
  <1>5. NumberInv'
    BY <1>1, <1>2, Fields, Sets DEF IInv, NumberInv, Current
  <1>6. PublishedInv'
    BY <1>1, <1>2 DEF IInv, PublishedInv, Published
  <1>7. AttachInv'
    BY <1>1, <1>2 DEF IInv, AttachInv
  <1>8. SinceInv'
    BY <1>1, <1>2 DEF IInv, SinceInv
  <1>9. InvitedInv'
    BY <1>1, <1>2 DEF IInv, InvitedInv
  <1>10. LagInv'
    BY <1>1, <1>2 DEF IInv, LagInv, Current
  <1>11. ManagerInv'
    BY <1>1 DEF IInv, ManagerInv
  <1> QED
    BY <1>3, <1>4, <1>5, <1>6, <1>7, <1>8, <1>9, <1>10, <1>11 DEF IInv

\* The counter of a process moves only to the manager's.
LEMMA PublishOwnKeeps ==
    ASSUME IInv, NEW p \in Procs, NEW n \in 0..MaxWrites, PublishOwn(p, n),
           \/ n = proc[p].read_count
           \/ n = proc[p].read_count + 1 /\ n = block[<<0, proc[p].pm>>].count
    PROVE  IInv'
  <1>1. /\ proc[p].pc = "attached"
        /\ n \in 0..MaxWrites
        /\ n \in Nat
        /\ UNCHANGED <<name, foreign, mgr, replaced, detached>>
    BY Sets DEF PublishOwn
  <1>2. /\ \A q \in Procs : q # p => proc'[q] = proc[q]
        /\ proc'[p].read_count = n
        /\ proc'[p].pc = proc[p].pc /\ proc'[p].manager_control = proc[p].manager_control
        /\ proc'[p].process_control = proc[p].process_control /\ proc'[p].pm = proc[p].pm
        /\ proc'[p].pp = proc[p].pp /\ proc'[p].job = proc[p].job
        /\ proc'[p].maps = proc[p].maps /\ proc'[p].since = proc[p].since
        /\ proc'[p].invited = proc[p].invited
    BY DEF PublishOwn, IInv, TypeOK, Programs
  <1>3. /\ block' \in [Files -> Blocks] /\ name[p] \in Numbers /\ proc[p].pp = name[p]
        /\ block'[<<p, name[p]>>].state = "set" /\ block'[<<p, name[p]>>].count = n
        /\ \A s \in Segments, m \in Numbers :
             s # p \/ m # name[p] => block'[<<s, m>>] = block[<<s, m>>]
    <2>1. block \in [Files -> Blocks]
      BY DEF IInv, TypeOK
    <2>3. proc[p].pp = name[p] /\ name[p] \in Numbers
      BY <1>1, Fields, Sets DEF IInv, AttachInv, NameInv
    <2>4. block' = PutBlock(block, p, name[p], n)
      BY <2>3 DEF PublishOwn, PutBlock
    <2>5. /\ block' \in [Files -> Blocks]
          /\ block'[<<p, name[p]>>].state = "set" /\ block'[<<p, name[p]>>].count = n
          /\ \A s \in Segments, m \in Numbers :
               s # p \/ m # name[p] => block'[<<s, m>>] = block[<<s, m>>]
      BY <1>1, <2>1, <2>3, <2>4, OneBlock, Sets
    <2> QED
      BY <2>3, <2>5
  <1>4. TypeOK'
    <2>1. proc' \in [Procs -> Programs]
      BY <1>1 DEF PublishOwn, IInv, TypeOK, Programs
    <2> QED
      BY <1>1, <1>3, <2>1 DEF IInv, TypeOK
  <1>5. NameInv'
    BY <1>1, <1>2, <1>3 DEF IInv, NameInv, Opened
  <1>6. NumberInv'
    BY <1>1, <1>2, <1>3 DEF IInv, NumberInv, Current
  <1>7. PublishedInv'
    <2>1. \A s \in Segments : Published(s)' <=> Published(s)
      BY <1>1 DEF Published
    <2>2. \A q \in Procs : Published(q) => name[q] \in Numbers
      BY Fields, Sets DEF IInv, Published, NameInv, Opened, ManagerInv
    <2>3. Published(0) => mgr.seg \in Numbers
      BY Fields, Sets DEF IInv, Published, NameInv, Opened, ManagerInv
    <2>4. proc[p].process_control
      BY <1>1 DEF IInv, AttachInv
    <2>5. Published(0)' => /\ block'[<<0, mgr.seg>>].state = "set"
                           /\ block'[<<0, mgr.seg>>].count = mgr.write_count
      BY <1>3, <2>1, <2>3, Sets DEF IInv, PublishedInv
    <2>6. ASSUME NEW q \in Procs, Published(q)'
          PROVE  /\ block'[<<q, name[q]>>].state = "set"
                 /\ ~proc'[q].process_control =>
                      block'[<<q, name[q]>>].count = 0 /\ mgr.write_count \in {0, 1}
      <3>1. CASE q = p
        BY <1>2, <1>3, <2>4, <3>1
      <3>2. CASE q # p
        BY <1>2, <1>3, <2>1, <2>2, <2>6, <3>2, Sets DEF IInv, PublishedInv
      <3> QED
        BY <3>1, <3>2
    <2> QED
      BY <1>1, <2>5, <2>6 DEF PublishedInv
  <1>8. AttachInv'
    BY <1>1, <1>2, <1>3 DEF IInv, AttachInv
  <1>9. SinceInv'
    <2>1. \A m \in Numbers : block'[<<0, m>>] = block[<<0, m>>]
      BY <1>3, Sets
    <2>2. \A q \in Procs : proc[q].pc = "fetch" => proc[q].pm \in Numbers
      BY Fields, Sets DEF IInv, AttachInv
    <2>3. proc'[p].pc = "attached"
      BY <1>1, <1>2
    <2> QED
      BY <1>1, <1>2, <2>1, <2>2, <2>3 DEF IInv, SinceInv
  <1>10. InvitedInv'
    BY <1>1, <1>2, <1>3, Fields, Sets DEF IInv, AttachInv, Current, InvitedInv, NameInv,
       NumberInv, Opened, Published, PublishedInv, SinceInv
  <1>11. LagInv'
    <2>1. ASSUME mgr.pc = "up", NEW q \in Procs, q # p
          PROVE  block'[<<q, name[q]>>] = block[<<q, name[q]>>]
      BY <1>3, <2>1, UpFacts, Sets
    <2>2. ASSUME mgr.pc = "up", Current(p)
          PROVE  mgr.write_count \in {n, n + 1}
      <3>1. mgr.write_count \in {proc[p].read_count, proc[p].read_count + 1}
        BY <1>1, <2>2 DEF IInv, LagInv
      <3>2. proc[p].pm = mgr.seg
        BY <1>1, <2>2 DEF IInv, SinceInv, Current
      <3>3. block[<<0, proc[p].pm>>].count = mgr.write_count
        BY <2>2, <3>2, UpFacts
      <3> QED
        BY <3>1, <3>3
    <2>3. \A q \in Procs : Current(q)' <=> Current(q)
      BY <1>1, <1>2 DEF Current
    <2> QED
      BY <1>1, <1>2, <1>3, <2>1, <2>2, <2>3 DEF IInv, LagInv
  <1>12. ManagerInv'
    BY <1>1 DEF IInv, ManagerInv
  <1> QED
    BY <1>4, <1>5, <1>6, <1>7, <1>8, <1>9, <1>10, <1>11, <1>12 DEF IInv

\* Another program starts with the pid, between two sessions.
LEMMA ReplaceKeeps ==
    ASSUME IInv, NEW p \in Procs, Replace(p)
    PROVE  IInv'
  <1>1. /\ mgr.pc = "out"
        /\ replaced' \in 0..MaxReplaced
        /\ UNCHANGED <<name, block, foreign, mgr, detached>>
    BY Sets DEF Replace, IInv, TypeOK
  <1>2. /\ \A q \in Procs : q # p => proc'[q] = proc[q]
        /\ proc'[p].pc = "out"
        /\ proc'[p].manager_control = FALSE
        /\ proc'[p].process_control = FALSE
        /\ proc'[p].pm = 0
        /\ proc'[p].pp = 0
        /\ proc'[p].job = FALSE
        /\ proc'[p].read_count = 0
        /\ proc'[p].maps = 0
        /\ proc'[p].since = 0
        /\ proc'[p].invited = FALSE
    BY DEF Replace, NewProgram, IInv, TypeOK
  <1>3. TypeOK'
    <2>1. NewProgram \in Programs
      BY Sets DEF NewProgram, Programs
    <2>2. proc' \in [Procs -> Programs]
      BY <2>1 DEF IInv, TypeOK, Replace
    <2> QED
      BY <1>1, <2>2 DEF IInv, TypeOK
  <1>4. NameInv'
    BY <1>1, <1>2 DEF IInv, NameInv, Opened
  <1>5. NumberInv'
    BY <1>1, <1>2, Fields DEF IInv, NumberInv, Current
  <1>6. PublishedInv'
    BY <1>1, <1>2 DEF IInv, PublishedInv, Published
  <1>7. AttachInv'
    BY <1>1, <1>2 DEF IInv, AttachInv
  <1>8. SinceInv'
    BY <1>1, <1>2 DEF IInv, SinceInv
  <1>9. InvitedInv'
    BY <1>1, <1>2 DEF IInv, InvitedInv
  <1>10. LagInv'
    BY <1>1, <1>2 DEF IInv, LagInv, Current
  <1>11. ManagerInv'
    BY <1>1 DEF IInv, ManagerInv
  <1> QED
    BY <1>3, <1>4, <1>5, <1>6, <1>7, <1>8, <1>9, <1>10, <1>11 DEF IInv

-----------------------------------------------------------------------------
(* The invariant *)

\* No file, no name and no attached program at the start.
LEMMA InitInv ==
    ASSUME Init
    PROVE  IInv
  <1>1. TypeOK
    <2>1. [state |-> "none", count |-> 0] \in Blocks
      BY Sets DEF Blocks
    <2>2. block \in [Files -> Blocks]
      BY <2>1 DEF Init
    <2>3. name \in [Segments -> 0..MaxInits] /\ mgr \in Managers
      BY Sets DEF Init, Managers
    <2>4. NewProgram \in Programs
      BY Sets DEF NewProgram, Programs
    <2>5. proc \in [Procs -> Programs]
      BY <2>4 DEF Init
    <2>6. replaced \in 0..MaxReplaced
      BY Sets DEF Init
    <2>7. {foreign, detached} \subseteq BOOLEAN
      BY DEF Init
    <2> QED
      BY <2>2, <2>3, <2>5, <2>6, <2>7 DEF TypeOK
  <1>2. mgr.pc = "out" /\ mgr.seg = 0 /\ mgr.inits = 0
    BY DEF Init
  <1>3. \A p \in Procs :
          /\ proc[p].pc = "out" /\ proc[p].process_control = FALSE /\ proc[p].invited = FALSE
          /\ proc[p].pm = 0 /\ proc[p].pp = 0 /\ proc[p].maps = 0 /\ proc[p].since = 0
    BY DEF Init, NewProgram
  <1>4. \A s \in Segments : name[s] = 0
    BY DEF Init
  <1> QED
    BY <1>1, <1>2, <1>3, <1>4 DEF IInv, ManagerInv, NameInv, Opened, NumberInv, Current,
       PublishedInv, Published, AttachInv, SinceInv, InvitedInv, LagInv

\* No step of the manager or of a process breaks it.
LEMMA StepInv ==
    ASSUME IInv, [Next]_vars
    PROVE  IInv'
  <1>1. CASE Manager
    BY <1>1, ManagerInitKeeps, OpenKeeps, TruncateKeeps, PublishKeeps, SegmentFailsKeeps,
       ManagerFinalizeKeeps, ManagerCrashKeeps, ManagerWriteKeeps DEF Manager
  <1>2. ASSUME NEW p \in Procs, Process(p) PROVE IInv'
    <2>1. CASE Read(p)
      <3>1. PublishOwn(p, proc[p].read_count + 1) /\ proc[p].pc = "attached"
            /\ proc[p].read_count + 1 = block[<<0, proc[p].pm>>].count
        BY <2>1 DEF Read, PublishOwn
      <3>2. proc[p].pm \in Numbers
        BY <3>1, Fields, Sets DEF IInv, AttachInv
      <3>3. proc[p].read_count + 1 \in 0..MaxWrites
        BY <3>1, <3>2, Fields, Sets DEF IInv
      <3> QED
        BY <3>1, <3>3, PublishOwnKeeps
    <2>2. CASE SetMode(p)
      <3>1. proc[p].read_count \in 0..MaxWrites
        BY Fields DEF IInv
      <3> QED
        BY <2>2, <3>1, PublishOwnKeeps DEF SetMode
    <2>3. CASE ~Read(p) /\ ~SetMode(p)
      BY <1>2, <2>3, AttachOpenKeeps, AttachAgainKeeps, AttachFetchKeeps, AttachOwnKeeps,
         AttachFetchOwnKeeps, AttachFailsKeeps, DetachKeeps, ReplaceKeeps DEF Process
    <2> QED
      BY <2>1, <2>2, <2>3
  <1>3. CASE UNCHANGED vars
    BY <1>3 DEF vars, IInv, TypeOK, ManagerInv, NameInv, Opened, NumberInv, Current,
       PublishedInv, Published, AttachInv, SinceInv, InvitedInv, LagInv
  <1> QED
    BY <1>1, <1>2, <1>3 DEF Next

\* The inductive invariant holds in every reachable state.
THEOREM Invariance == Spec => []IInv
  <1>1. Init => IInv
    BY InitInv
  <1>2. IInv /\ [Next]_vars => IInv'
    BY StepInv
  <1> QED
    BY <1>1, <1>2, PTL DEF Spec

-----------------------------------------------------------------------------
(* The theorems *)

\* No step of dynpm_shm_manager_init, attach, detach or the message counters
\* drives a variable out of its type.
THEOREM TypeCorrect == Spec => []TypeOK
  <1>1. IInv => TypeOK
    BY DEF IInv
  <1> QED
    BY Invariance, <1>1, PTL

\* A first attach that begins after dynpm_shm_manager_init returned 0 and before
\* anyone detached succeeds unless mmap fails in it, however the manager and the others go on, whatever
\* files earlier sessions left behind.
THEOREM InvitedAttachSucceeds == Spec => []InvitedSucceeds
  <1>1. IInv => InvitedSucceeds
    BY DEF IInv, InvitedInv, InvitedSucceeds
  <1> QED
    BY Invariance, <1>1, PTL

\* A process that attached to the session that now runs shares the manager's
\* segment, publishes the counter it keeps, and is at most one message behind.
THEOREM AttachedKeepsUp == Spec => []KeepsUp
  <1>1. ASSUME IInv PROVE KeepsUp
    <2>1. ASSUME NEW p \in Procs, proc[p].pc = "attached", mgr.pc = "up",
                 proc[p].since = mgr.inits
          PROVE  /\ proc[p].pm = mgr.seg
                 /\ block[<<p, name[p]>>].count = proc[p].read_count
                 /\ mgr.write_count \in {proc[p].read_count, proc[p].read_count + 1}
      <3>1. Current(p)
        BY <1>1, <2>1 DEF IInv, ManagerInv, Current
      <3> QED
        BY <1>1, <2>1, <3>1 DEF IInv, SinceInv, LagInv, Current
    <2> QED
      BY <2>1 DEF KeepsUp
  <1>2. IInv => KeepsUp
    BY <1>1
  <1> QED
    BY Invariance, <1>2, PTL

\* The assertions of dynpm_shm_process_attach keep a program from mapping its own
\* segment twice, although neither a failed attach nor a detach unmaps it.
THEOREM OwnSegmentMappedOnce == Spec => []MapsOnce
  <1>1. IInv => MapsOnce
    BY DEF IInv, AttachInv, MapsOnce
  <1> QED
    BY Invariance, <1>1, PTL

\* A detach removes the name of another application's segment only for a process
\* that began to attach before dynpm_shm_manager_init had returned.
THEOREM DetachOfLateAttachIsSafe == Spec => DetachUnlinksOwn
  <1> DEFINE Early == foreign' # foreign =>
                        \E p \in Procs : proc'[p].pc # proc[p].pc /\ proc[p].since = 0
  <1>1. ASSUME IInv, Next, foreign' # foreign
        PROVE  \E p \in Procs : proc'[p].pc # proc[p].pc /\ proc[p].since = 0
    <2>1. ~Manager
      BY <1>1 DEF Manager, ManagerInit, Open, Truncate, Publish, SegmentFails, NextSegment,
         ManagerFinalize, ManagerCrash, ManagerLeaves, ManagerWrite
    <2>2. PICK p \in Procs : Process(p)
      BY <1>1, <2>1 DEF Next
    <2>3. Detach(p)
      BY <1>1, <2>2 DEF Process, AttachOpen, AttachAgain, AttachFetch, AttachOwn,
         AttachFetchOwn, AttachFails,
         OthersUnchanged, Read, SetMode, PublishOwn, Replace
    <2>4. proc[p].pc = "attached" /\ ~proc[p].job
      BY <1>1, <2>3 DEF Detach
    <2>5. proc[p].since = 0
      BY <1>1, <2>4 DEF IInv, SinceInv
    <2>6. proc'[p].pc = "out"
      BY <1>1, <2>3 DEF Detach, IInv, TypeOK, Programs
    <2> QED
      BY <2>4, <2>5, <2>6
  <1>2. IInv /\ [Next]_vars => [Early]_vars
    BY <1>1
  <1>3. []IInv /\ [][Next]_vars => [][Early]_vars
    BY <1>2, PTL
  <1> QED
    BY Invariance, <1>3, PTL DEF Spec, DetachUnlinksOwn
=============================================================================
