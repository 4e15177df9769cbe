--------------------------- MODULE ShmModeProofs ---------------------------
(* Proofs about the malleability mode poll for every number of processes,   *)
(* set of modes, counter width and number of calls.                         *)
EXTENDS ShmMode, TLAPS

\* A block whose words come from two blocks is a block.
LEMMA BlockFields ==
    ASSUME NEW b \in Blocks, NEW c \in Blocks, NEW k \in Words
    PROVE  /\ [b EXCEPT ![k] = c[k]] \in Blocks
           /\ b.malleability_mode \in Modes /\ b.write_count \in Counts
           /\ k = "malleability_mode" =>
                [b EXCEPT ![k] = c[k]] = [b EXCEPT !.malleability_mode = c.malleability_mode]
           /\ k = "write_count" =>
                [b EXCEPT ![k] = c[k]] = [b EXCEPT !.write_count = c.write_count]
  BY DEF Blocks, Words

\* The counters stay within their width.
LEMMA CountRange ==
    ASSUME NEW n \in Counts
    PROVE  Inc(n) \in Counts /\ Dec(n) \in Counts
  BY ModeAssumption DEF Inc, Dec, Counts

\* Blocks are fetched in order, at most one update is counted for each.
PollInv ==
    /\ TypeOK
    /\ gtodo # {} => i <= ProcessCount
    /\ meta_updates <= i - 1

\* The mode the block of process p holds was held during the call, and so was
\* the mode in the manager's copy once that word has been fetched.
SeenInv ==
    \A p \in Procs :
        /\ shm_meta[p].malleability_mode \in seen[p]
        /\ gpc = "poll" /\ (p < i \/ (p = i /\ "malleability_mode" \notin gtodo)) =>
             process_control[p].malleability_mode \in seen[p]

\* As long as no process has published a word during the call, the manager's
\* copies are the blocks as far as they have been fetched.
CopyInv ==
    gpc = "poll" /\ moved = {} => \A p \in Procs :
        /\ p < i \/ (p = i /\ "malleability_mode" \notin gtodo) =>
             process_control[p].malleability_mode = shm_meta[p].malleability_mode
        /\ p < i \/ (p = i /\ "write_count" \notin gtodo) =>
             process_control[p].write_count = shm_meta[p].write_count

\* If the blocks compared so far have the same write_count, all of them or none
\* have been counted as updated, whatever the counter has wrapped to.
CountInv ==
    gpc = "poll" => \A n \in Counts :
        (\A p \in Procs : p < i => process_control[p].write_count = n) =>
            meta_updates = IF n = Dec(read_count) THEN i - 1 ELSE 0

IInv == PollInv /\ SeenInv /\ CopyInv /\ CountInv

\* No process has published anything and no poll is running: IInv holds.
LEMMA InitInv == Init => IInv
  <1> SUFFICES ASSUME Init PROVE IInv
    OBVIOUS
  <1>1. PollInv
    BY ModeAssumption DEF Init, PollInv, TypeOK, Blocks, Procs, Counts
  <1>2. SeenInv
    BY DEF Init, SeenInv
  <1>3. CopyInv /\ CountInv
    BY DEF Init, CopyInv, CountInv
  <1> QED
    BY <1>1, <1>2, <1>3 DEF IInv

\* set_malleability_mode changes the private block only, and counts one update.
LEMMA SetModeInv ==
    ASSUME IInv, NEW p \in Procs, NEW mode \in Modes, SetMode(p, mode)
    PROVE  IInv'
  <1> DEFINE b == [malleability_mode |-> mode, write_count |-> Inc(meta[p].write_count)]
  <1>1. /\ meta' = [meta EXCEPT ![p] = b]
        /\ sets' = [sets EXCEPT ![p] = @ + 1] /\ sets[p] < MaxSets
        /\ todo' = [todo EXCEPT ![p] = Words]
        /\ UNCHANGED <<shm_meta, seen, moved, gpc, process_control, i, gtodo, meta_updates,
                       read_count, result>>
    BY DEF SetMode, gvars
  <1>2. b \in Blocks /\ b.write_count = Inc(meta[p].write_count) /\ meta[p].write_count \in Counts
    BY CountRange DEF IInv, PollInv, TypeOK, Blocks
  <1> HIDE DEF b
  <1>3. PollInv'
    BY <1>1, <1>2, ModeAssumption DEF IInv, PollInv, TypeOK
  <1>4. SeenInv'
    BY <1>1 DEF IInv, SeenInv
  <1>5. CopyInv' /\ CountInv'
    BY <1>1 DEF IInv, CopyInv, CountInv
  <1> QED
    BY <1>3, <1>4, <1>5 DEF IInv

\* One word of the block reaches the segment, and its mode joins those seen.
LEMMA PublishWordInv ==
    ASSUME IInv, NEW p \in Procs, NEW k \in Words, PublishWord(p, k)
    PROVE  IInv'
  <1> DEFINE b == [shm_meta[p] EXCEPT ![k] = meta[p][k]]
  <1>1. /\ shm_meta' = [shm_meta EXCEPT ![p] = b]
        /\ todo' = [todo EXCEPT ![p] = @ \ {k}]
        /\ seen' = [seen EXCEPT ![p] = @ \cup {shm_meta'[p].malleability_mode}]
        /\ moved' = moved \cup {p}
        /\ UNCHANGED <<meta, sets, gpc, process_control, i, gtodo, meta_updates,
                       read_count, result>>
    BY DEF PublishWord, gvars
  <1>2. shm_meta[p] \in Blocks /\ meta[p] \in Blocks /\ shm_meta'[p] = b
    BY <1>1 DEF IInv, PollInv, TypeOK
  <1>3. /\ b \in Blocks /\ b.malleability_mode \in Modes
        /\ b.write_count \in {shm_meta[p].write_count, meta[p].write_count}
    BY <1>2, BlockFields DEF Blocks, Words
  <1> HIDE DEF b
  <1>4. PollInv'
    BY <1>1, <1>2, <1>3, ModeAssumption DEF IInv, PollInv, TypeOK
  <1>5. SeenInv'
    BY <1>1, <1>2 DEF IInv, SeenInv, PollInv, TypeOK
  <1>6. CopyInv' /\ CountInv'
    <2>1. moved' # {}
      BY <1>1
    <2> QED
      BY <1>1, <2>1 DEF IInv, CopyInv, CountInv
  <1> QED
    BY <1>4, <1>5, <1>6 DEF IInv

\* The poll copies one word of the block of process i.
LEMMA FetchWordInv ==
    ASSUME IInv, NEW k \in Words, FetchWord(k)
    PROVE  IInv'
  <1> DEFINE b == [process_control[i] EXCEPT ![k] = shm_meta[i][k]]
  <1>1. /\ process_control' = [process_control EXCEPT ![i] = b]
        /\ gtodo' = gtodo \ {k} /\ k \in gtodo
        /\ UNCHANGED <<shm_meta, meta, todo, sets, seen, moved, gpc, i, meta_updates, read_count, result>>
    BY DEF FetchWord, pvars
  <1>2. i \in Procs
    BY <1>1, ModeAssumption DEF IInv, PollInv, TypeOK, Procs
  <1>3. shm_meta[i] \in Blocks /\ process_control[i] \in Blocks /\ process_control'[i] = b
    BY <1>1, <1>2 DEF IInv, PollInv, TypeOK
  <1>4. /\ b \in Blocks
        /\ b.malleability_mode = IF k = "malleability_mode" THEN shm_meta[i].malleability_mode
                                 ELSE process_control[i].malleability_mode
        /\ b.write_count = IF k = "write_count" THEN shm_meta[i].write_count
                           ELSE process_control[i].write_count
    BY <1>3, BlockFields DEF Blocks, Words
  <1> HIDE DEF b
  <1>5. PollInv'
    BY <1>1, <1>2, <1>4, ModeAssumption DEF IInv, PollInv, TypeOK
  <1>6. SeenInv'
    <2>1. ASSUME NEW p \in Procs, gpc = "poll",
                 p < i \/ (p = i /\ "malleability_mode" \notin gtodo')
          PROVE  process_control'[p].malleability_mode \in seen[p]
      <3>1. CASE p = i
        BY <1>1, <1>3, <1>4, <2>1, <3>1 DEF IInv, SeenInv
      <3>2. CASE p # i
        BY <1>1, <2>1, <3>2 DEF IInv, SeenInv, PollInv, TypeOK
      <3> QED
        BY <3>1, <3>2
    <2> QED
      BY <1>1, <2>1 DEF IInv, SeenInv
  <1>7. \A p \in Procs : p # i => process_control'[p] = process_control[p]
    BY <1>1 DEF IInv, PollInv, TypeOK
  <1>8. CountInv'
    <2>1. \A p \in Procs : p < i => p # i
      BY <1>2, ModeAssumption DEF Procs
    <2> QED
      BY <1>1, <1>7, <2>1 DEF IInv, CountInv
  <1>9. CopyInv'
    <2> SUFFICES ASSUME gpc = "poll", moved = {}, NEW p \in Procs
                 PROVE  /\ p < i \/ (p = i /\ "malleability_mode" \notin gtodo') =>
                             process_control'[p].malleability_mode = shm_meta[p].malleability_mode
                        /\ p < i \/ (p = i /\ "write_count" \notin gtodo') =>
                             process_control'[p].write_count = shm_meta[p].write_count
      BY <1>1 DEF CopyInv
    <2>1. CASE p = i
      <3>1. ~(i < i)
        BY <1>2, ModeAssumption DEF Procs
      <3> QED
        BY <1>1, <1>3, <1>4, <2>1, <3>1 DEF IInv, CopyInv
    <2>2. CASE p # i
      BY <1>1, <1>7, <2>2 DEF IInv, CopyInv
    <2> QED
      BY <2>1, <2>2
  <1> QED
    BY <1>5, <1>6, <1>8, <1>9 DEF IInv

\* A poll begins with what is published at that moment.
LEMMA GetCallInv == ASSUME IInv, GetCall PROVE IInv'
  <1>1. /\ gpc' = "poll" /\ i' = 1 /\ gtodo' = Words /\ meta_updates' = 0
        /\ seen' = [p \in Procs |-> {shm_meta[p].malleability_mode}] /\ moved' = {}
        /\ UNCHANGED <<shm_meta, meta, todo, sets, process_control, read_count, result>>
    BY DEF GetCall
  <1>2. \A p \in Procs : shm_meta[p].malleability_mode \in Modes /\ p \in Nat /\ ~(p < 1)
    BY ModeAssumption DEF IInv, PollInv, TypeOK, Blocks, Procs
  <1>3. PollInv'
    BY <1>1, <1>2, ModeAssumption DEF IInv, PollInv, TypeOK
  <1>4. SeenInv'
    BY <1>1, <1>2 DEF IInv, SeenInv, Words
  <1>5. CopyInv' /\ CountInv'
    BY <1>1, <1>2 DEF CopyInv, CountInv, Words
  <1> QED
    BY <1>3, <1>4, <1>5 DEF IInv

\* The poll has process i complete and goes on to the next one.
LEMMA CountUpdateInv == ASSUME IInv, CountUpdate PROVE IInv'
  <1>1. /\ gpc = "poll" /\ i <= ProcessCount /\ gtodo = {}
        /\ meta_updates' = IF process_control[i].write_count = Dec(read_count)
                           THEN meta_updates + 1 ELSE meta_updates
        /\ i' = i + 1
        /\ gtodo' = IF i = ProcessCount THEN {} ELSE Words
        /\ UNCHANGED <<shm_meta, meta, todo, sets, seen, moved, gpc, process_control,
                       read_count, result>>
    BY DEF CountUpdate, pvars
  <1>2. i \in Procs /\ i \in Nat /\ meta_updates \in Nat
    BY <1>1, ModeAssumption DEF IInv, PollInv, TypeOK, Procs
  <1>3. PollInv'
    BY <1>1, <1>2, ModeAssumption DEF IInv, PollInv, TypeOK
  <1>4. ASSUME NEW p \in Procs, NEW k \in Words, p < i' \/ (p = i' /\ k \notin gtodo')
        PROVE  p < i \/ p = i
    BY <1>1, <1>2, <1>4, ModeAssumption DEF Procs, Words
  <1>5. SeenInv'
    <2>1. ASSUME NEW p \in Procs,
                 gpc' = "poll" /\ (p < i' \/ (p = i' /\ "malleability_mode" \notin gtodo'))
          PROVE  p < i \/ p = i
      BY <1>4, <2>1 DEF Words
    <2> QED
      BY <1>1, <2>1 DEF IInv, SeenInv
  <1>6. CopyInv'
    <2> SUFFICES ASSUME gpc = "poll", moved = {}, NEW p \in Procs
                 PROVE  /\ p < i' \/ (p = i' /\ "malleability_mode" \notin gtodo') =>
                             process_control[p].malleability_mode = shm_meta[p].malleability_mode
                        /\ p < i' \/ (p = i' /\ "write_count" \notin gtodo') =>
                             process_control[p].write_count = shm_meta[p].write_count
      BY <1>1 DEF CopyInv
    <2>1. (p < i' \/ (p = i' /\ "malleability_mode" \notin gtodo')) => p < i \/ p = i
      BY <1>4 DEF Words
    <2>2. (p < i' \/ (p = i' /\ "write_count" \notin gtodo')) => p < i \/ p = i
      BY <1>4 DEF Words
    <2> QED
      BY <1>1, <2>1, <2>2 DEF IInv, CopyInv
  <1>7. CountInv'
    <2> SUFFICES ASSUME NEW n \in Counts,
                        \A p \in Procs : p < i + 1 => process_control[p].write_count = n
                 PROVE  meta_updates' = IF n = Dec(read_count) THEN i ELSE 0
      BY <1>1, <1>2 DEF CountInv
    <2>1. process_control[i].write_count = n
      BY <1>2
    <2>2. \A p \in Procs : p < i => process_control[p].write_count = n
      BY <1>2, ModeAssumption DEF Procs
    <2>3. meta_updates = IF n = Dec(read_count) THEN i - 1 ELSE 0
      BY <1>1, <2>2 DEF IInv, CountInv
    <2> QED
      BY <1>1, <1>2, <2>1, <2>3
  <1> QED
    BY <1>3, <1>5, <1>6, <1>7 DEF IInv

\* The poll returns; the result is judged by what it has copied.
LEMMA DecideInv == ASSUME IInv, Decide PROVE IInv'
  <1>1. /\ gpc' = "idle"
        /\ read_count' \in {read_count, Inc(read_count)}
        /\ UNCHANGED <<shm_meta, meta, todo, sets, seen, moved, process_control, i, gtodo, meta_updates>>
    BY ModeAssumption DEF Decide, pvars
  <1>2. 1 \in Procs /\ process_control[1].malleability_mode \in Modes /\ 0 \in Modes
    BY ModeAssumption DEF IInv, PollInv, TypeOK, Blocks, Procs
  <1>3. result' \in [mode : Modes, status : {"match", "mismatch", "out_of_sync", "none"}]
    BY <1>2 DEF Decide
  <1>4. PollInv'
    BY <1>1, <1>3, CountRange DEF IInv, PollInv, TypeOK
  <1>5. SeenInv'
    BY <1>1 DEF IInv, SeenInv
  <1>6. CopyInv' /\ CountInv'
    BY <1>1 DEF CopyInv, CountInv
  <1> QED
    BY <1>4, <1>5, <1>6 DEF IInv

\* Every step keeps the invariant.
LEMMA InvStep == IInv /\ [Next]_vars => IInv'
  <1> SUFFICES ASSUME IInv, [Next]_vars PROVE IInv'
    OBVIOUS
  <1>1. CASE UNCHANGED vars
    BY <1>1 DEF vars, pvars, gvars, IInv, PollInv, SeenInv, CopyInv, CountInv, TypeOK
  <1> QED
    BY <1>1, SetModeInv, PublishWordInv, FetchWordInv, GetCallInv, CountUpdateInv, DecideInv DEF Next

\* Only the end of the call takes the manager from its poll.
LEMMA PollEnds ==
    ASSUME IInv, [Next]_vars, gpc = "poll", gpc' = "idle"
    PROVE  /\ Decide
           /\ \A p \in Procs : process_control[p].malleability_mode \in seen[p]
  <1>1. Decide
    BY DEF Next, SetMode, PublishWord, GetCall, FetchWord, CountUpdate, vars, gvars
  <1>2. \A p \in Procs : p < i
    BY <1>1, ModeAssumption DEF Decide, IInv, PollInv, TypeOK, Procs
  <1> QED
    BY <1>1, <1>2 DEF IInv, SeenInv

-----------------------------------------------------------------------------
\* The type invariant for every number of processes and counter width.
THEOREM TypeCorrect == Spec => []TypeOK
  <1>1. IInv => TypeOK
    BY DEF IInv, PollInv
  <1> QED
    BY <1>1, InitInv, InvStep, PTL DEF Spec

\* However words are published while they are fetched, a mode that
\* dynpm_shm_manager_get_malleability_mode returns was in every process's block
\* at some moment of the call.
THEOREM AgreementsAreReal == Spec => AgreementWasReported
  <1> DEFINE A == gpc = "poll" /\ gpc' = "idle" /\ result'.status = "match"
                    => \A p \in Procs : result'.mode \in seen[p]
  <1>1. IInv /\ [Next]_vars => A
    <2> SUFFICES ASSUME IInv, [Next]_vars, gpc = "poll", gpc' = "idle",
                        result'.status = "match", NEW p \in Procs
                 PROVE  result'.mode \in seen[p]
      OBVIOUS
    <2>1. Agree /\ result'.mode = process_control[1].malleability_mode
      BY PollEnds DEF Decide
    <2>2. p = 1 \/ p \in 2..ProcessCount
      BY ModeAssumption DEF Procs
    <2>3. process_control[p].malleability_mode = process_control[1].malleability_mode
      BY <2>1, <2>2 DEF Agree
    <2> QED
      BY <2>1, <2>3, PollEnds
  <1> QED
    BY <1>1, InitInv, InvStep, PTL DEF Spec, AgreementWasReported

\* A poll of processes that have reported equally often, and under which none
\* of them publishes, tells exactly whether their modes agree, also after the
\* counters have wrapped.
THEOREM SettledPollsAreExact == Spec => SettledPollExact
  <1> DEFINE Round == \A p, q \in Procs : shm_meta[p].write_count = shm_meta[q].write_count
             Same == \A p, q \in Procs :
                       shm_meta[p].malleability_mode = shm_meta[q].malleability_mode
             A == gpc = "poll" /\ gpc' = "idle" /\ moved = {} /\ Round
                    => result'.status = IF Same THEN "match" ELSE "mismatch"
  <1>1. IInv /\ [Next]_vars => A
    <2> SUFFICES ASSUME IInv, [Next]_vars, gpc = "poll", gpc' = "idle", moved = {}, Round
                 PROVE  result'.status = IF Same THEN "match" ELSE "mismatch"
      OBVIOUS
    <2>1. Decide
      BY PollEnds
    <2>2. 1 \in Procs /\ shm_meta[1].write_count \in Counts
      BY ModeAssumption DEF IInv, PollInv, TypeOK, Blocks, Procs
    <2>3. i = ProcessCount + 1 /\ \A p \in Procs : p < i
      BY <2>1, ModeAssumption DEF Decide, IInv, PollInv, TypeOK, Procs
    <2>4. \A p \in Procs :
            /\ process_control[p].write_count = shm_meta[p].write_count
            /\ process_control[p].malleability_mode = shm_meta[p].malleability_mode
      BY <2>3 DEF IInv, CopyInv
    <2>5. \A p \in Procs : process_control[p].write_count = shm_meta[1].write_count
      BY <2>2, <2>4
    <2>6. meta_updates \in {0, i - 1}
      BY <2>2, <2>5 DEF IInv, CountInv
    <2>7. result'.status = IF Agree THEN "match" ELSE "mismatch"
      <3>1. meta_updates \in {0, ProcessCount}
        BY <2>3, <2>6, ModeAssumption
      <3> QED
        BY <2>1, <3>1 DEF Decide
    <2>8. \A p \in Procs : p = 1 \/ p \in 2..ProcessCount
      BY ModeAssumption DEF Procs
    <2>9. \A p \in 2..ProcessCount : p \in Procs
      BY ModeAssumption DEF Procs
    <2>10. Agree => Same
      BY <2>2, <2>4, <2>8 DEF Agree
    <2>11. Same => Agree
      BY <2>2, <2>4, <2>9 DEF Agree
    <2> QED
      BY <2>7, <2>10, <2>11
  <1> QED
    BY <1>1, InitInv, InvStep, PTL DEF Spec, SettledPollExact
=============================================================================
