---------------------------- MODULE TimingProofs ----------------------------
(***************************************************************************)
(* Proofs about one worker and what it records of time: its phase loop,    *)
(* for every set of tasks, any number of phases and any width of the loop  *)
(* counters; its circular buffer, for every capacity; the two together;    *)
(* and its timers, for any users, periods and delays.                      *)
(***************************************************************************)
EXTENDS WorkerLog, Timer, TLAPS

----------------------------------------------------------------------------
(* The phase loop *)

\* What one call of advance_phase_loop does, case by case.
LEMMA AdvanceCases ==
  ASSUME NEW t \in Task, NEW c \in Cursor,
         t.phases # <<>>, c.phase_idx < Len(t.phases)
  PROVE  LET n == Inc(c.phase_loop)
             d == Advance(t, c)
         IN  /\ n # t.phases[c.phase_idx + 1] =>
                  /\ d.phase_idx = c.phase_idx /\ d.phase_loop = n
                  /\ d.thread_loop = c.thread_loop
             /\ n = t.phases[c.phase_idx + 1] /\ c.phase_idx + 1 < Len(t.phases) =>
                  /\ d.phase_idx = c.phase_idx + 1 /\ d.phase_loop = 0
                  /\ d.thread_loop = c.thread_loop
             /\ n = t.phases[c.phase_idx + 1] /\ c.phase_idx + 1 >= Len(t.phases) =>
                  /\ d.phase_idx = 0 /\ d.phase_loop = 0
                  /\ d.thread_loop = NextThreadLoop(c.thread_loop)
             /\ d \in Cursor /\ d.phase_idx < Len(t.phases)
<1> DEFINE n == Inc(c.phase_loop)
           d == Advance(t, c)
<1> USE MaxIntAssumption
<1>1. /\ c.phase_idx \in Nat /\ c.phase_loop \in I32 /\ c.thread_loop \in I32
      /\ c = [phase_idx |-> c.phase_idx, phase_loop |-> c.phase_loop,
              thread_loop |-> c.thread_loop]
      /\ Len(t.phases) \in Nat \ {0}
  BY DEF Cursor, Task
<1>2. n \in I32 /\ 0 \in I32 /\ NextThreadLoop(c.thread_loop) \in I32
  BY <1>1 DEF Inc, NextThreadLoop, I32
<1>3. CASE n # t.phases[c.phase_idx + 1]
  <2>1. d = [phase_idx |-> c.phase_idx, phase_loop |-> n,
             thread_loop |-> c.thread_loop]
    BY <1>1, <1>3 DEF Advance
  <2>2. QED
    BY <2>1, <1>1, <1>2, <1>3 DEF Cursor
<1>4. CASE n = t.phases[c.phase_idx + 1] /\ c.phase_idx + 1 < Len(t.phases)
  <2>1. d = [phase_idx |-> c.phase_idx + 1, phase_loop |-> 0,
             thread_loop |-> c.thread_loop]
    BY <1>1, <1>4 DEF Advance
  <2>2. QED
    BY <2>1, <1>1, <1>2, <1>4 DEF Cursor
<1>5. CASE n = t.phases[c.phase_idx + 1] /\ c.phase_idx + 1 >= Len(t.phases)
  <2>1. d = [phase_idx |-> 0, phase_loop |-> 0,
             thread_loop |-> NextThreadLoop(c.thread_loop)]
    BY <1>1, <1>5 DEF Advance
  <2>2. QED
    BY <2>1, <1>1, <1>2, <1>5 DEF Cursor
<1>6. QED
  BY <1>1, <1>3, <1>4, <1>5

LEMMA StartInvariant == Init => IInv
<1> SUFFICES ASSUME Init PROVE IInv
  OBVIOUS
<1> USE PhaseLoopAssumption, MaxIntAssumption DEF Init
<1>1. task \in Task /\ task.phases # <<>> /\ Len(task.phases) \in Nat \ {0}
  BY DEF Task
<1>2. /\ \A p \in Phases : p \in Nat \ {0} /\ task.phases[p] \in I32
      /\ 1 \in Phases /\ task.loop_count \in I32
  BY <1>1 DEF Phases, Task
<1>3. TypeOK
  <2>1. CursorStart \in Cursor /\ CursorStart.phase_idx < Len(task.phases)
    BY <1>1 DEF CursorStart, Cursor, I32
  <2>2. runs \in [Phases -> Nat] /\ total \in 0..MaxRuns
    OBVIOUS
  <2>3. QED
    BY <2>1, <2>2 DEF TypeOK
<1>4. InsideLoops
  BY <1>2 DEF InsideLoops, Counted, CursorStart, I32
<1>5. RunsMatchPosition
  <2>1. ASSUME NEW p \in Phases, Counted PROVE runs[p] = 0 * task.phases[p] + 0
    BY <1>2 DEF I32
  <2>2. ASSUME NEW p \in Phases PROVE ~(p <= CursorStart.phase_idx)
    BY <1>2 DEF CursorStart
  <2>3. QED
    BY <2>1, <2>2 DEF RunsMatchPosition, CursorStart
<1>6. ThreadLoopNat /\ LeftForAReason
  BY DEF ThreadLoopNat, LeftForAReason, CursorStart
<1>7. QED
  BY <1>3, <1>4, <1>5, <1>6 DEF IInv

LEMMA RunPhaseStep ==
  ASSUME IInv, RunPhase PROVE IInv'
<1> USE PhaseLoopAssumption, MaxIntAssumption DEF IInv, RunPhase
<1> DEFINE i == cursor.phase_idx + 1
           n == Inc(cursor.phase_loop)
           L == Len(task.phases)
<1>1. /\ task \in Task /\ task.phases # <<>> /\ cursor \in Cursor
      /\ cursor.phase_idx < L /\ L \in Nat \ {0}
  BY DEF TypeOK, Task
<1>2. /\ \A p \in Phases : /\ p \in Nat \ {0} /\ p <= L
                           /\ task.phases[p] \in I32
      /\ i \in Phases /\ task.loop_count \in I32
      /\ cursor.phase_idx \in Nat
      /\ cursor.phase_loop \in I32 /\ cursor.thread_loop \in I32
      /\ Phases' = Phases /\ Phases = 1..L
  BY <1>1 DEF Phases, Task, Cursor
<1>2a. /\ task.phases[i] \in Int /\ task.phases[i] <= MaxInt
       /\ task.loop_count \in Int /\ task.loop_count <= MaxInt
       /\ cursor.thread_loop \in Int /\ cursor.phase_loop \in Int
       /\ n \in Int
  <2> HIDE DEF i, L
  <2>1. /\ MaxInt \in Int /\ I32 = -MaxInt - 1 .. MaxInt
        /\ \A v \in I32 : v \in Int /\ v <= MaxInt
    BY MaxIntAssumption DEF I32
  <2>2. task.phases[i] \in I32 /\ cursor.phase_loop \in I32
    BY <1>2
  <2>3. n \in Int
    BY <2>1, <2>2 DEF Inc
  <2>4. QED
    BY <1>2, <2>1, <2>2, <2>3
<1>2b. i \in Nat /\ L \in Nat /\ i = cursor.phase_idx + 1
  BY <1>1, <1>2
<1>3. /\ n # task.phases[i] =>
           /\ cursor'.phase_idx = cursor.phase_idx /\ cursor'.phase_loop = n
           /\ cursor'.thread_loop = cursor.thread_loop
      /\ n = task.phases[i] /\ i < L =>
           /\ cursor'.phase_idx = i /\ cursor'.phase_loop = 0
           /\ cursor'.thread_loop = cursor.thread_loop
      /\ n = task.phases[i] /\ i >= L =>
           /\ cursor'.phase_idx = 0 /\ cursor'.phase_loop = 0
           /\ cursor'.thread_loop = NextThreadLoop(cursor.thread_loop)
      /\ cursor' \in Cursor /\ cursor'.phase_idx < L
  BY <1>1, AdvanceCases
<1>4. runs' = [runs EXCEPT ![i] = runs[i] + 1] /\ runs \in [Phases -> Nat]
  BY DEF TypeOK
<1>5. TypeOK'
  <2>1. runs' \in [Phases -> Nat]
    BY <1>2, <1>4
  <2>2. total' \in 0..MaxRuns
    BY DEF TypeOK
  <2>3. QED
    BY <1>2, <1>3, <2>1, <2>2 DEF TypeOK
<1>6. ThreadLoopNat'
  <2>1. NextThreadLoop(cursor.thread_loop) >= 0
    BY <1>2 DEF ThreadLoopNat, NextThreadLoop, Inc, I32
  <2>2. QED
    BY <1>2, <1>3, <2>1 DEF ThreadLoopNat, I32
<1>7. LeftForAReason'
  BY DEF LeftForAReason
<1>8. ASSUME Counted
      PROVE  /\ n = cursor.phase_loop + 1
             /\ NextThreadLoop(cursor.thread_loop) = cursor.thread_loop + 1
             /\ cursor.thread_loop \in 0..(task.loop_count - 1)
             /\ n <= task.phases[i] /\ n > 0
  <2>1. /\ cursor.thread_loop \in 0..(task.loop_count - 1)
        /\ cursor.phase_loop \in 0..(task.phases[i] - 1)
    BY <1>2, <1>8 DEF InsideLoops, LoopsDone, I32
  <2>2. n = cursor.phase_loop + 1
    BY <1>2a, <2>1 DEF Inc
  <2>3. NextThreadLoop(cursor.thread_loop) = cursor.thread_loop + 1
    BY <1>2a, <2>1 DEF NextThreadLoop, Inc
  <2> HIDE DEF n
  <2>4. QED
    BY <1>2a, <2>1, <2>2, <2>3
<1> HIDE DEF n, i, L
<1>9. InsideLoops'
  <2> SUFFICES ASSUME Counted
               PROVE  /\ cursor'.thread_loop \in 0..task.loop_count
                      /\ cursor'.phase_loop \in
                           0..(task.phases[cursor'.phase_idx + 1] - 1)
                      /\ LoopsDone(task, cursor') =>
                           cursor'.phase_idx = 0 /\ cursor'.phase_loop = 0
    BY <1>2 DEF InsideLoops, Counted
  <2>1. CASE n # task.phases[i]
    <3>1. cursor'.phase_idx + 1 = i
      BY <1>2a, <1>2b, <1>3, <2>1
    <3>2. n \in 0..(task.phases[i] - 1)
      BY <1>2a, <1>2b, <1>8, <2>1
    <3>3. /\ cursor'.thread_loop \in 0..task.loop_count
          /\ cursor'.thread_loop # task.loop_count
      BY <1>2a, <1>2b, <1>3, <1>8, <2>1
    <3>4. QED
      BY <1>3, <2>1, <3>1, <3>2, <3>3 DEF LoopsDone
  <2>2. CASE n = task.phases[i] /\ i < L
    <3>1. i + 1 \in Phases /\ task.phases[i + 1] \in Int /\ task.phases[i + 1] > 0
      <4>1. i + 1 \in Phases
        BY <1>2, <1>2b, <2>2 DEF L
      <4>2. QED
        BY <1>2, <4>1 DEF Counted, I32
    <3>2. /\ cursor'.thread_loop \in 0..task.loop_count
          /\ cursor'.thread_loop # task.loop_count
      BY <1>2a, <1>2b, <1>3, <1>8, <2>2
    <3>3. cursor'.phase_idx = i /\ cursor'.phase_loop = 0
      BY <1>3, <2>2
    <3>4. QED
      BY <3>1, <3>2, <3>3 DEF LoopsDone
  <2>3. CASE n = task.phases[i] /\ i >= L
    <3>1. 1 \in Phases /\ task.phases[0 + 1] \in Int /\ task.phases[0 + 1] > 0
      BY <1>1, <1>2 DEF Counted, I32
    <3>2. cursor'.thread_loop \in 0..task.loop_count
      BY <1>2a, <1>2b, <1>3, <1>8, <2>3
    <3>3. cursor'.phase_idx = 0 /\ cursor'.phase_loop = 0
      BY <1>2a, <1>2b, <1>3, <2>3
    <3>4. QED
      BY <3>1, <3>2, <3>3 DEF LoopsDone
  <2>4. QED
    BY <1>2b, <2>1, <2>2, <2>3
<1>10. RunsMatchPosition'
  <2> DEFINE round(p) == cursor.thread_loop * task.phases[p]
             part(p)  == IF p <= cursor.phase_idx THEN task.phases[p]
                         ELSE IF p = i THEN cursor.phase_loop ELSE 0
             round2(p) == cursor'.thread_loop * task.phases[p]
             part2(p)  == IF p <= cursor'.phase_idx THEN task.phases[p]
                          ELSE IF p = cursor'.phase_idx + 1
                               THEN cursor'.phase_loop ELSE 0
  <2> SUFFICES ASSUME Counted, NEW p \in Phases
               PROVE  runs'[p] = round2(p) + part2(p)
    BY <1>2 DEF RunsMatchPosition, Counted
  <2>1. runs[p] = round(p) + part(p)
    BY DEF RunsMatchPosition, i
  <2>2. runs'[p] = IF p = i THEN runs[p] + 1 ELSE runs[p]
    BY <1>4
  <2>3. round(p) \in Int /\ task.phases[p] \in Int
    BY <1>2 DEF I32
  <2> HIDE DEF IInv, RunPhase
  <2>4. CASE n # task.phases[i]
    <3>1. round2(p) = round(p)
      BY <1>3, <2>4
    <3>2. part2(p) = IF p = i THEN part(p) + 1 ELSE part(p)
      BY <1>2, <1>2a, <1>2b, <1>3, <1>8, <2>4
    <3>3. part(p) \in Int
      BY <1>2a, <1>2b, <2>3
    <3> HIDE DEF round, round2, part, part2, i, n, L
    <3>4. QED
      BY <2>1, <2>2, <2>3, <3>1, <3>2, <3>3
  <2>5. CASE n = task.phases[i] /\ i < L
    <3>1. round2(p) = round(p)
      BY <1>3, <2>5
    <3>2. part2(p) = IF p <= i THEN task.phases[p] ELSE 0
      BY <1>2, <1>3, <2>5
    <3>3. /\ p = i => part(p) + 1 = task.phases[p]
          /\ p < i => part(p) = task.phases[p]
          /\ p > i => part(p) = 0
          /\ part(p) \in Int
      <4>1. p \in Nat /\ cursor.phase_idx \in Nat
        BY <1>2
      <4>2. cursor.phase_loop + 1 = task.phases[i]
        BY <1>8, <2>5
      <4>3. QED
        BY <1>2a, <1>2b, <2>3, <4>1, <4>2
    <3>4. i \in Nat /\ p \in Nat
      BY <1>2, <1>2a, <1>2b
    <3> HIDE DEF round, round2, part, part2, i, n, L
    <3>5. CASE p = i
      BY <2>1, <2>2, <2>3, <3>1, <3>2, <3>3, <3>4, <3>5
    <3>6. CASE p < i
      BY <2>1, <2>2, <2>3, <3>1, <3>2, <3>3, <3>4, <3>6
    <3>7. CASE p > i
      BY <2>1, <2>2, <2>3, <3>1, <3>2, <3>3, <3>4, <3>7
    <3>8. QED
      BY <3>4, <3>5, <3>6, <3>7
  <2>6. CASE n = task.phases[i] /\ i >= L
    <3>1. round2(p) = round(p) + task.phases[p]
      <4>1. cursor'.thread_loop = cursor.thread_loop + 1
        BY <1>3, <1>8, <2>6
      <4>2. cursor.thread_loop \in Int
        BY <1>2 DEF I32
      <4>3. QED
        BY <4>1, <4>2, <2>3
    <3>2. part2(p) = 0
      BY <1>2, <1>3, <2>6
    <3>3. p <= i /\ (p = i => part(p) + 1 = task.phases[p])
                 /\ (p # i => part(p) = task.phases[p])
                 /\ part(p) \in Int
      BY <1>2, <1>2a, <1>2b, <1>8, <2>3, <2>6
    <3> HIDE DEF round, round2, part, part2, i, n, L
    <3>4. QED
      BY <2>1, <2>2, <2>3, <3>1, <3>2, <3>3
  <2>7. QED
    BY <1>2b, <2>4, <2>5, <2>6
<1>11. QED
  BY <1>5, <1>6, <1>7, <1>9, <1>10

LEMMA LoopStep == IInv /\ [Next]_vars => IInv'
<1> SUFFICES ASSUME IInv, [Next]_vars PROVE IInv'
  OBVIOUS
<1>1. CASE RunPhase
  BY <1>1, RunPhaseStep
<1>2. CASE Leave \/ Stop \/ UNCHANGED vars
  <2>1. /\ UNCHANGED <<task, cursor, runs, total>>
        /\ continue_running' \in BOOLEAN /\ left' \in BOOLEAN
    BY <1>2 DEF Leave, Stop, vars, IInv, TypeOK
  <2>2. left' => ~continue_running' \/ LoopsDone(task, cursor)
    BY <1>2, Zenon DEF Leave, Stop, vars, IInv, LeftForAReason
  <2>3. TypeOK' /\ LeftForAReason' /\ ThreadLoopNat'
    BY <2>1, <2>2 DEF IInv, TypeOK, LeftForAReason, ThreadLoopNat, Phases
  <2>4. InsideLoops' /\ RunsMatchPosition'
    BY <2>1 DEF IInv, InsideLoops, RunsMatchPosition, Counted, Phases
  <2>5. QED
    BY <2>3, <2>4 DEF IInv
<1>3. QED
  BY <1>1, <1>2 DEF Next

\* The inductive invariant holds in every reachable state.
THEOREM InvariantHolds == Spec => []IInv
BY StartInvariant, LoopStep, PTL DEF Spec

\* The runs of a counted task are always where its position says.
THEOREM RunsMatch == Spec => []RunsMatchPosition
<1>1. IInv => RunsMatchPosition
  BY DEF IInv
<1>2. QED
  BY <1>1, InvariantHolds, PTL

\* A counted task that nobody stops does exactly what it was configured to.
THEOREM RunsComplete == Spec => []RunsAsConfigured
<1>1. IInv => RunsAsConfigured
  <2> SUFFICES ASSUME IInv, Counted, left, continue_running, NEW p \in Phases
               PROVE  runs[p] = task.loop_count * task.phases[p]
    BY DEF RunsAsConfigured
  <2>1. /\ cursor.thread_loop = task.loop_count
        /\ cursor.phase_idx = 0 /\ cursor.phase_loop = 0
    BY DEF IInv, LeftForAReason, InsideLoops, LoopsDone
  <2>2. /\ task \in Task /\ p \in Nat \ {0}
        /\ task.phases[p] \in Int /\ task.loop_count \in Int
    BY PhaseLoopAssumption, MaxIntAssumption DEF IInv, TypeOK, Phases, Task, I32
  <2>3. runs[p] = task.loop_count * task.phases[p] + 0
    BY <2>1, <2>2 DEF IInv, RunsMatchPosition
  <2>4. QED
    BY <2>2, <2>3
<1>2. QED
  BY <1>1, InvariantHolds, PTL

\* An endless thread leaves its loop only when the run is stopped.
THEOREM EndlessThreadsStay == Spec => []EndlessThreadStays
<1>1. IInv => EndlessThreadStays
  BY PhaseLoopAssumption, MaxIntAssumption
     DEF IInv, EndlessThreadStays, ThreadLoopNat, LeftForAReason, LoopsDone,
         TypeOK, Cursor, I32
<1>2. QED
  BY <1>1, InvariantHolds, PTL

----------------------------------------------------------------------------
(* The circular buffer *)

LEMMA BufferInitInvariant == BufferInit => BufferInv
<1> SUFFICES ASSUME BufferInit PROVE BufferInv
  OBVIOUS
<1>1. buf \in [Slots -> Points \cup {Default}]
  BY DEF BufferInit, New
<1>2. write_idx = 0 /\ wrapped = FALSE /\ closed = FALSE
  BY DEF BufferInit, New
<1>3. Capacity # 0 => 0 \in Slots
  BY BufferAssumption DEF Slots
<1>4. BufferTypeOK
  BY <1>1, <1>2, <1>3 DEF BufferTypeOK
<1>5. WrittenSlots
  BY BufferAssumption, <1>2 DEF WrittenSlots, Slots
<1>6. QED
  BY <1>4, <1>5 DEF BufferInv

LEMMA BufferNextInvariant == BufferInv /\ [BufferNext]_bufferVars => BufferInv'
<1> SUFFICES ASSUME BufferInv, [BufferNext]_bufferVars PROVE BufferInv'
  OBVIOUS
<1> USE BufferAssumption DEF BufferInv
<1>1. ASSUME NEW p \in Points, Push(p) PROVE BufferInv'
  <2>1. Capacity \in Nat \ {0} /\ write_idx \in Slots
    BY <1>1 DEF Push, BufferTypeOK
  <2>2. BufferTypeOK'
    BY <1>1, <2>1 DEF Push, BufferTypeOK, Slots
  <2>3. WrittenSlots'
    BY <1>1, <2>1 DEF Push, BufferTypeOK, WrittenSlots, Slots
  <2>4. QED
    BY <2>2, <2>3
<1>2. CASE Flush
  BY <1>2 DEF Flush, BufferTypeOK, WrittenSlots
<1>3. CASE UNCHANGED bufferVars
  BY <1>3 DEF bufferVars, BufferTypeOK, WrittenSlots
<1>4. QED
  BY <1>1, <1>2, <1>3 DEF BufferNext

\* The types of the variables and the range of write_idx.
THEOREM BufferInvariantHolds == BufferSpec => []BufferInv
BY BufferInitInvariant, BufferNextInvariant, PTL DEF BufferSpec

\* The log as a function: its length and its elements, older points first.
ReadsInOrder ==
  /\ iter_chronological \in Seq(Points)
  /\ Len(iter_chronological) = len
  /\ len \in 0..Capacity
  /\ \A i \in 1..len :
       iter_chronological[i] =
         IF wrapped THEN IF i <= Capacity - write_idx
                         THEN buf[write_idx + i - 1]
                         ELSE buf[i - (Capacity - write_idx) - 1]
         ELSE buf[i - 1]

LEMMA Chronological == BufferInv => ReadsInOrder
<1> SUFFICES ASSUME BufferInv PROVE ReadsInOrder
  OBVIOUS
<1> USE BufferAssumption DEF BufferInv
<1> DEFINE older == IF wrapped THEN Capacity - write_idx ELSE 0
           slot(i) == IF i <= older THEN write_idx + i - 1 ELSE i - older - 1
<1>1. /\ older \in Nat /\ write_idx \in Nat /\ older + write_idx = len
      /\ len \in 0..Capacity
  BY DEF BufferTypeOK, len, Slots
<1>2. iter_chronological = [i \in 1..len |-> buf[slot(i)]]
  BY <1>1 DEF iter_chronological
<1>3. \A i \in 1..len : slot(i) \in Slots /\ (wrapped \/ slot(i) < write_idx)
  BY <1>1 DEF BufferTypeOK, Slots, len
<1>4. \A i \in 1..len : buf[slot(i)] \in Points
  BY <1>3 DEF WrittenSlots
<1>5. iter_chronological \in Seq(Points) /\ Len(iter_chronological) = len
  <2> HIDE DEF slot
  <2>1. QED
    BY <1>1, <1>2, <1>4
<1>6. \A i \in 1..len :
        iter_chronological[i] =
          IF wrapped THEN IF i <= Capacity - write_idx
                          THEN buf[write_idx + i - 1]
                          ELSE buf[i - (Capacity - write_idx) - 1]
          ELSE buf[i - 1]
  BY <1>1, <1>2
<1>7. QED
  BY <1>1, <1>5, <1>6 DEF ReadsInOrder

\* A push appends the point to the log and, when the log is full, drops the
\* oldest one.
LEMMA PushRecords ==
  ASSUME BufferInv, BufferInv', NEW p \in Points, Push(p)
  PROVE  Log!Record(p)
<1> USE BufferAssumption
<1> DEFINE log   == iter_chronological
           w     == write_idx
           moved == IF len < Capacity THEN Append(log, p) ELSE Append(Tail(log), p)
<1>1. /\ Capacity \in Nat \ {0} /\ w \in 0..(Capacity - 1)
      /\ buf \in [Slots -> Points \cup {Default}] /\ wrapped \in BOOLEAN
      /\ buf' = [buf EXCEPT ![w] = p]
      /\ wrapped' = (wrapped \/ w + 1 >= Capacity)
      /\ write_idx' = IF w + 1 >= Capacity THEN 0 ELSE w + 1
  BY DEF Push, BufferInv, BufferTypeOK, Slots
<1>2. ReadsInOrder /\ ReadsInOrder'
  BY Chronological, PTL
<1>3. /\ log \in Seq(Points) /\ log' \in Seq(Points)
      /\ Len(log) = len /\ Len(log') = len' /\ len \in 0..Capacity
  BY <1>2 DEF ReadsInOrder
<1>4. /\ len \in Nat
      /\ (wrapped => len = Capacity) /\ (~wrapped => len = w)
      /\ (wrapped' => len' = Capacity) /\ (~wrapped' => len' = write_idx')
  BY <1>1 DEF len
<1>5. len' = IF len < Capacity THEN len + 1 ELSE len
  <2>1. CASE wrapped
    <3>1. wrapped'
      BY <1>1, <2>1
    <3>2. len = Capacity /\ len' = Capacity
      BY <1>4, <2>1, <3>1
    <3>3. QED
      BY <1>1, <3>2
  <2>2. CASE ~wrapped /\ w + 1 >= Capacity
    <3>1. wrapped'
      BY <1>1, <2>2
    <3>2. len = w /\ len' = Capacity
      BY <1>4, <2>2, <3>1
    <3>3. QED
      BY <1>1, <2>2, <3>2
  <2>3. CASE ~wrapped /\ ~(w + 1 >= Capacity)
    <3>1. ~wrapped' /\ write_idx' = w + 1
      BY <1>1, <2>3
    <3>2. len = w /\ len' = w + 1
      BY <1>4, <2>3, <3>1
    <3>3. QED
      BY <1>1, <2>3, <3>2
  <2>4. QED
    BY <2>1, <2>2, <2>3
<1>6. \A i \in 1..len : log[i] =
        IF wrapped THEN IF i <= Capacity - w THEN buf[w + i - 1]
                        ELSE buf[i - (Capacity - w) - 1]
        ELSE buf[i - 1]
  BY <1>2 DEF ReadsInOrder
<1>7. \A i \in 1..len' : log'[i] =
        IF wrapped' THEN IF i <= Capacity - write_idx'
                         THEN buf'[write_idx' + i - 1]
                         ELSE buf'[i - (Capacity - write_idx') - 1]
        ELSE buf'[i - 1]
  BY <1>2 DEF ReadsInOrder
<1> HIDE DEF log, w
<1>8. \A k \in Slots : buf'[k] = IF k = w THEN p ELSE buf[k]
  BY <1>1
<1>9. log' = moved
  <2>1. moved \in Seq(Points) /\ Len(moved) = len'
    BY <1>1, <1>3, <1>4, <1>5
  <2>2. ASSUME NEW i \in 1..len' PROVE log'[i] = moved[i]
    <3>1. CASE ~wrapped
      <4>1. len = w /\ len' = w + 1 /\ moved = Append(log, p)
        BY <1>1, <1>4, <1>5, <3>1
      <4>2. log'[i] = buf'[i - 1]
        BY <1>1, <1>7, <4>1, <3>1
      <4>3. moved[i] = IF i = w + 1 THEN p ELSE log[i]
        BY <1>1, <1>3, <4>1
      <4>4. i # w + 1 => log[i] = buf[i - 1]
        BY <1>1, <1>6, <4>1, <3>1
      <4>5. i - 1 \in Slots /\ (i = w + 1 <=> i - 1 = w)
        BY <1>1, <4>1 DEF Slots
      <4>6. QED
        BY <1>8, <4>2, <4>3, <4>4, <4>5
    <3>2. CASE wrapped
      <4>1. len = Capacity /\ len' = Capacity /\ wrapped'
        BY <1>1, <1>4, <1>5, <3>2
      <4>2. moved = Append(Tail(log), p) /\ log # <<>>
        BY <1>1, <1>3, <4>1
      <4>3. moved[i] = IF i = Capacity THEN p ELSE log[i + 1]
        BY <1>1, <1>3, <4>1, <4>2
      <4>4. i # Capacity =>
              log[i + 1] = IF i + 1 <= Capacity - w THEN buf[w + i]
                           ELSE buf[i - (Capacity - w)]
        BY <1>1, <1>6, <4>1, <3>2
      <4>5. log'[i] = IF i <= Capacity - write_idx' THEN buf'[write_idx' + i - 1]
                      ELSE buf'[i - (Capacity - write_idx') - 1]
        BY <1>7, <4>1
      <4>6. CASE w + 1 >= Capacity
        <5>1. w = Capacity - 1 /\ write_idx' = 0
          BY <1>1, <4>6
        <5>2. log'[i] = buf'[i - 1] /\ i - 1 \in Slots
          BY <4>1, <4>5, <5>1, <1>1 DEF Slots
        <5>3. i # Capacity => log[i + 1] = buf[i - 1]
          BY <4>1, <4>4, <5>1, <1>1
        <5>4. i \in 1..Capacity /\ (i = Capacity <=> i - 1 = w)
          BY <1>1, <4>1, <5>1
        <5>5. QED
          BY <1>8, <4>3, <5>2, <5>3, <5>4
      <4>7. CASE ~(w + 1 >= Capacity)
        <5>1. write_idx' = w + 1
          BY <1>1, <4>7
        <5>2. CASE i + 1 <= Capacity - w
          <6>1. log'[i] = buf'[w + i] /\ w + i \in Slots /\ w + i # w /\ i # Capacity
            BY <4>1, <4>5, <5>1, <5>2, <1>1 DEF Slots
          <6>2. QED
            BY <1>8, <4>3, <4>4, <5>2, <6>1
        <5>3. CASE ~(i + 1 <= Capacity - w)
          <6>1. log'[i] = buf'[i - (Capacity - w)] /\ i - (Capacity - w) \in Slots
                /\ (i = Capacity <=> i - (Capacity - w) = w)
            BY <4>1, <4>5, <5>1, <5>3, <1>1 DEF Slots
          <6>2. QED
            BY <1>8, <4>3, <4>4, <5>3, <6>1
        <5>4. QED
          BY <5>2, <5>3
      <4>8. QED
        BY <4>6, <4>7
    <3>3. QED
      BY <1>1, <3>1, <3>2
  <2>3. QED
    BY <1>3, <2>1, <2>2
<1>10. QED
  BY <1>1, <1>3, <1>9 DEF Log!Record, Push, log

\* Writing the buffer writes the log.
LEMMA FlushWrites ==
  ASSUME BufferInv, BufferInv', Flush
  PROVE  Log!Write
<1>1. Len(iter_chronological) = len
  BY Chronological DEF ReadsInOrder
<1>2. UNCHANGED iter_chronological
  BY DEF Flush, iter_chronological
<1>3. QED
  BY <1>1, <1>2 DEF Flush, Log!Write

\* The circular buffer is a log of the newest Capacity points: every behaviour
\* of the buffer is a behaviour of that log.
THEOREM BufferImplementsLog == BufferSpec => ImplementsLog
<1>1. BufferInit => Log!LogInit
  <2> SUFFICES ASSUME BufferInit PROVE Log!LogInit
    OBVIOUS
  <2>1. iter_chronological \in Seq(Points) /\ Len(iter_chronological) = 0
    BY BufferInitInvariant, Chronological DEF ReadsInOrder, len, BufferInit, New
  <2>2. QED
    BY <2>1 DEF BufferInit, Log!LogInit
<1>2. BufferInv /\ BufferInv' /\ [BufferNext]_bufferVars => [Log!LogNext]_(Log!logVars)
  <2> SUFFICES ASSUME BufferInv, BufferInv', [BufferNext]_bufferVars
               PROVE  [Log!LogNext]_(Log!logVars)
    OBVIOUS
  <2>1. ASSUME NEW p \in Points, Push(p) PROVE Log!LogNext
    BY <2>1, PushRecords DEF Log!LogNext
  <2>2. CASE Flush
    BY <2>2, FlushWrites DEF Log!LogNext
  <2>3. CASE UNCHANGED bufferVars
    BY <2>3 DEF bufferVars, Log!logVars, iter_chronological
  <2>4. QED
    BY <2>1, <2>2, <2>3 DEF BufferNext
<1>3. QED
  BY <1>1, <1>2, BufferInvariantHolds, PTL DEF BufferSpec, ImplementsLog, Log!LogSpec

----------------------------------------------------------------------------
(* The worker: the loop and its log *)

WorkerInv == IInv /\ BufferInv /\ LogShowsLastRuns

LEMMA WorkerStart == WorkerInit => WorkerInv
<1> SUFFICES ASSUME WorkerInit PROVE WorkerInv
  OBVIOUS
<1>1. IInv /\ BufferInv
  BY StartInvariant, BufferInitInvariant DEF WorkerInit
<1>2. len = 0 /\ total = 0
  BY DEF WorkerInit, Init, BufferInit, New, len
<1>3. LogShowsLastRuns
  BY <1>2, BufferAssumption DEF LogShowsLastRuns
<1>4. QED
  BY <1>1, <1>3 DEF WorkerInv

\* A step of the worker is a step or a stutter of its loop and of its buffer.
LEMMA WorkerStepProjects ==
  ASSUME [WorkerNext]_workerVars, IInv
  PROVE  [Next]_vars /\ [BufferNext]_bufferVars
<1>1. CASE RunAndLog
  <2>1. total' \in Points
    BY <1>1, PhaseLoopAssumption, WorkerLogAssumption
       DEF RunAndLog, RunPhase, IInv, TypeOK
  <2>2. QED
    BY <1>1, <2>1 DEF RunAndLog, Next, BufferNext
<1>2. CASE LeaveLoop
  BY <1>2 DEF LeaveLoop, Next
<1>3. CASE FlushAfterLoop
  BY <1>3 DEF FlushAfterLoop, BufferNext
<1>4. CASE StopRun
  BY <1>4 DEF StopRun, Next
<1>5. CASE UNCHANGED workerVars
  BY <1>5 DEF workerVars
<1>6. QED
  BY <1>1, <1>2, <1>3, <1>4, <1>5 DEF WorkerNext

LEMMA RunIsLogged ==
  ASSUME WorkerInv, BufferInv', RunAndLog
  PROVE  LogShowsLastRuns'
<1> USE BufferAssumption
<1>1. /\ total \in Nat /\ total' = total + 1 /\ Capacity \in Nat
      /\ total' \in Points
  BY PhaseLoopAssumption, WorkerLogAssumption
     DEF WorkerInv, IInv, TypeOK, RunAndLog, RunPhase
<1>2. CASE Capacity = 0
  <2>1. UNCHANGED bufferVars /\ len = 0
    BY <1>2 DEF RunAndLog, WorkerInv, BufferInv, BufferTypeOK, len
  <2>2. len' = 0
    BY <2>1 DEF bufferVars, len
  <2>3. QED
    BY <1>1, <1>2, <2>2 DEF LogShowsLastRuns
<1>3. CASE Capacity # 0
  <2> DEFINE log == iter_chronological
             n   == len
  <2>1. Log!Record(total')
    BY <1>1, <1>3, PushRecords DEF RunAndLog, WorkerInv
  <2>2. ReadsInOrder /\ ReadsInOrder'
    BY Chronological, PTL DEF WorkerInv
  <2>3. /\ log \in Seq(Points) /\ Len(log) = n /\ n \in 0..Capacity
        /\ Len(log') = len'
    BY <2>2 DEF ReadsInOrder
  <2>4. /\ n = IF total < Capacity THEN total ELSE Capacity
        /\ \A i \in 1..n : log[i] = total - n + i
    BY DEF WorkerInv, LogShowsLastRuns
  <2>5. log' = IF n < Capacity THEN Append(log, total') ELSE Append(Tail(log), total')
    BY <1>3, <2>1, <2>3 DEF Log!Record
  <2>6. LogShowsLastRuns' <=>
          /\ len' = IF total' < Capacity THEN total' ELSE Capacity
          /\ \A i \in 1..len' : log'[i] = total' - len' + i
    BY DEF LogShowsLastRuns
  <2> HIDE DEF log, n
  <2>7. CASE n < Capacity
    <3>1. /\ n = total /\ len' = total' /\ log' = Append(log, total')
      BY <1>1, <2>3, <2>4, <2>5, <2>7
    <3>2. \A i \in 1..total' : log'[i] = i
      BY <1>1, <2>3, <2>4, <3>1
    <3>3. QED
      BY <1>1, <2>3, <2>6, <2>7, <3>1, <3>2
  <2>8. CASE n >= Capacity
    <3>1. /\ n = Capacity /\ total >= Capacity /\ log # <<>>
          /\ log' = Append(Tail(log), total') /\ len' = Capacity
      BY <1>1, <1>3, <2>3, <2>4, <2>5, <2>8
    <3>2. \A i \in 1..Capacity :
            log'[i] = IF i = Capacity THEN total' ELSE log[i + 1]
      BY <1>1, <1>3, <2>3, <3>1
    <3>3. ASSUME NEW i \in 1..Capacity
          PROVE  log'[i] = total' - Capacity + i
      <4>1. CASE i = Capacity
        BY <1>1, <3>2, <4>1
      <4>2. CASE i # Capacity
        <5>1. log'[i] = log[i + 1]
          BY <3>2, <4>2
        <5>2. i + 1 \in 1..n
          BY <1>1, <3>1, <4>2
        <5>3. log[i + 1] = total - n + (i + 1)
          BY <2>4, <5>2
        <5>4. total - n + (i + 1) = total' - Capacity + i
          BY <1>1, <3>1
        <5>5. QED
          BY <5>1, <5>3, <5>4
      <4>3. QED
        BY <4>1, <4>2
    <3>4. len' = IF total' < Capacity THEN total' ELSE Capacity
      BY <1>1, <3>1
    <3>5. \A i \in 1..len' : log'[i] = total' - len' + i
      BY <3>1, <3>3
    <3>6. QED
      BY <2>6, <3>4, <3>5
  <2>9. QED
    BY <1>3, <2>3, <2>7, <2>8
<1>4. QED
  BY <1>2, <1>3

\* What a thread writes when it ends is its last runs in order, for every
\* capacity, task and width of the counters.
THEOREM LogsShowLastRuns == WorkerSpec => []LogShowsLastRuns
<1>1. WorkerInv /\ [WorkerNext]_workerVars => WorkerInv'
  <2> SUFFICES ASSUME WorkerInv, [WorkerNext]_workerVars PROVE WorkerInv'
    OBVIOUS
  <2>1. [Next]_vars /\ [BufferNext]_bufferVars
    BY WorkerStepProjects DEF WorkerInv
  <2>2. IInv' /\ BufferInv'
    BY <2>1, LoopStep, BufferNextInvariant DEF WorkerInv
  <2>3. LogShowsLastRuns'
    <3>1. CASE RunAndLog
      BY <2>2, <3>1, RunIsLogged
    <3>2. CASE LeaveLoop \/ FlushAfterLoop \/ StopRun \/ UNCHANGED workerVars
      <4>1. UNCHANGED <<total, buf, write_idx, wrapped>>
        BY <3>2 DEF LeaveLoop, Leave, FlushAfterLoop, Flush, StopRun, Stop,
                    workerVars, vars, bufferVars
      <4>2. QED
        BY <4>1 DEF WorkerInv, LogShowsLastRuns, len, iter_chronological
    <3>3. QED
      BY <3>1, <3>2 DEF WorkerNext
  <2>4. QED
    BY <2>2, <2>3 DEF WorkerInv
<1>2. WorkerInv => LogShowsLastRuns
  BY DEF WorkerInv
<1>3. QED
  BY WorkerStart, <1>1, <1>2, PTL DEF WorkerSpec

----------------------------------------------------------------------------
(* Timers.  The invariant is inductive because the timer never gets behind a *)
(* deadline it has given out (GivenOut): a thread that measures its latency  *)
(* subtracts a next_ns at least as large as its own deadline.                *)

\* The deadline of an event is a time, and none before what the timer held.
LEMMA DeadlineNotBefore ==
  ASSUME TimerTypeOK, NEW t \in Users, NEW period \in Periods
  PROVE  /\ Deadline(t, period) \in Nat
         /\ initialized => next_ns <= Deadline(t, period)
  BY TimerAssumption DEF TimerTypeOK, Deadline

\* A saturating difference is a natural number, and less than what one gets
\* from a smaller subtrahend.
LEMMA SatSubFacts ==
  ASSUME NEW a \in Nat, NEW b \in Nat
  PROVE  /\ SatSub(a, b) \in Nat
         /\ \A c \in Nat : c <= b /\ c <= a => SatSub(a, b) <= a - c
  BY DEF SatSub

\* Every state has its type and satisfies the invariant.
THEOREM TimersKeepInvariant == TimerSpec => []TimerIInv
<1>1. TimerInit => TimerIInv
  <2>1. TimerInit => TimerTypeOK
    <3>1. TimerInit => initialized \in BOOLEAN
      BY Zenon DEF TimerInit
    <3>2. TimerInit => /\ now \in Nat /\ next_ns \in Nat
                  /\ place \in [Users -> {"idle", "sleeping", "awake"}]
                  /\ after \in [Users -> Nat]
                  /\ latency \in [Users -> Nat]
                  /\ due \in [Users -> Nat]
                  /\ true_latency \in [Users -> Nat]
      BY DEF TimerInit
    <3>3. QED
      BY <3>1, <3>2 DEF TimerTypeOK
  <2>2. TimerInit => NeverEarly /\ LatencyNotOver
    BY TimerAssumption DEF TimerInit, NeverEarly, LatencyNotOver
  <2>3. TimerInit => GivenOut /\ UniqueIdle
    BY TimerAssumption DEF TimerInit, GivenOut, UniqueIdle
  <2>4. QED
    BY <2>1, <2>2, <2>3 DEF TimerIInv
<1>2. TimerIInv /\ [TimerNext]_allVars => TimerIInv'
  <2> SUFFICES ASSUME TimerIInv, [TimerNext]_allVars PROVE TimerIInv'
    OBVIOUS
  <2> USE TimerAssumption DEF TimerIInv
  <2>1. CASE Tick
    BY <2>1
    DEF Tick, timerVars, latencyVars, TimerTypeOK, NeverEarly, LatencyNotOver, GivenOut, UniqueIdle
  <2>2. ASSUME NEW t \in Users, NEW period \in Periods, Sleep(t, period)
        PROVE  TimerIInv'
    <3>1. /\ Deadline(t, period) \in Nat
          /\ initialized => next_ns <= Deadline(t, period)
      BY DeadlineNotBefore
    <3>2. TimerTypeOK'
      BY <2>2, <3>1 DEF Sleep, latencyVars, TimerTypeOK
    <3>3. NeverEarly' /\ LatencyNotOver' /\ UniqueIdle'
      BY <2>2 DEF Sleep, latencyVars, TimerTypeOK, NeverEarly, LatencyNotOver, UniqueIdle
    <3>4. GivenOut'
      BY <2>2, <3>1 DEF Sleep, latencyVars, TimerTypeOK, GivenOut
    <3>5. QED
      BY <3>2, <3>3, <3>4
  <2>3. ASSUME NEW t \in Users, NEW period \in Periods, Miss(t, period)
        PROVE  TimerIInv'
    <3>1. /\ Deadline(t, period) \in Nat
          /\ initialized => next_ns <= Deadline(t, period)
      BY DeadlineNotBefore
    <3>2. TimerTypeOK'
      BY <2>3, <3>1 DEF Miss, TimerTypeOK
    <3>3. NeverEarly' /\ LatencyNotOver' /\ UniqueIdle'
      BY <2>3, <3>1 DEF Miss, TimerTypeOK, NeverEarly, LatencyNotOver, UniqueIdle
    <3>4. GivenOut'
      BY <2>3, <3>1 DEF Miss, TimerTypeOK, GivenOut
    <3>5. QED
      BY <3>2, <3>3, <3>4
  <2>4. ASSUME NEW t \in Users, Awake(t)
        PROVE  TimerIInv'
    BY <2>4
    DEF Awake, timerVars, TimerTypeOK, NeverEarly, LatencyNotOver, GivenOut, UniqueIdle
  <2>5. ASSUME NEW t \in Users, Measure(t)
        PROVE  TimerIInv'
    <3>1. t \notin Unique /\ due[t] <= next_ns /\ due[t] <= after[t]
      BY <2>5 DEF Measure, GivenOut, UniqueIdle
    <3>2. /\ SatSub(after[t], next_ns) \in Nat
          /\ SatSub(after[t], next_ns) <= after[t] - due[t]
      BY <3>1, SatSubFacts DEF TimerTypeOK
    <3>3. TimerTypeOK' /\ LatencyNotOver'
      BY <2>5, <3>1, <3>2 DEF Measure, timerVars, TimerTypeOK, LatencyNotOver
    <3>4. NeverEarly' /\ GivenOut' /\ UniqueIdle'
      BY <2>5, <3>1
      DEF Measure, timerVars, TimerTypeOK, NeverEarly, GivenOut, UniqueIdle
    <3>5. QED
      BY <3>3, <3>4
  <2>6. ASSUME NEW t \in Users, NEW period \in Periods, ReturnAtOnce(t, period)
        PROVE  TimerIInv'
    BY <2>6
    DEF ReturnAtOnce, timerVars, latencyVars, TimerTypeOK, NeverEarly, LatencyNotOver,
        GivenOut, UniqueIdle
  <2>7. ASSUME NEW t \in Users, NewPhase(t)
        PROVE  TimerIInv'
    BY <2>7
    DEF NewPhase, timerVars, TimerTypeOK, NeverEarly, LatencyNotOver, GivenOut, UniqueIdle
  <2>8. CASE UNCHANGED allVars
    BY <2>8
    DEF allVars, timerVars, latencyVars, TimerTypeOK, NeverEarly, LatencyNotOver, GivenOut,
        UniqueIdle
  <2>9. QED
    BY <2>1, <2>2, <2>3, <2>4, <2>5, <2>6, <2>7, <2>8 DEF TimerNext
<1>3. QED
  BY <1>1, <1>2, PTL DEF TimerSpec

\* No event of a shared timer returns before its deadline.
THEOREM NobodyIsEarly == TimerSpec => []NeverEarly
<1>1. TimerIInv => NeverEarly
  BY DEF TimerIInv
<1>2. QED
  BY <1>1, TimersKeepInvariant, PTL

\* The logged latency is a lower bound of the true one.
THEOREM LatencyIsALowerBound == TimerSpec => []LatencyNotOver
<1>1. TimerIInv => LatencyNotOver
  BY DEF TimerIInv
<1>2. QED
  BY <1>1, TimersKeepInvariant, PTL

\* The reference of a timer only moves forward, in either mode.
THEOREM TimerOnlyAdvances == TimerSpec => NextNeverBack
<1>1. TimerIInv /\ [TimerNext]_allVars => [initialized => next_ns' >= next_ns]_allVars
  <2> SUFFICES ASSUME TimerIInv, TimerNext, initialized PROVE next_ns' >= next_ns
    OBVIOUS
  <2> USE TimerAssumption DEF TimerIInv, TimerTypeOK
  <2>1. ASSUME NEW t \in Users, NEW period \in Periods,
               Sleep(t, period) \/ Miss(t, period)
        PROVE  next_ns' >= next_ns
    <3>1. Deadline(t, period) \in Nat /\ next_ns <= Deadline(t, period)
      BY DeadlineNotBefore
    <3>2. QED
      BY <2>1, <3>1 DEF Sleep, Miss
  <2>2. CASE Tick
    BY <2>2 DEF Tick, timerVars
  <2>3. ASSUME NEW t \in Users, Awake(t) \/ Measure(t) \/ NewPhase(t)
        PROVE  next_ns' >= next_ns
    <3>1. timerVars' = timerVars
      BY <2>3 DEF Awake, Measure, NewPhase
    <3>2. QED
      BY <3>1 DEF timerVars
  <2>4. ASSUME NEW t \in Users, NEW period \in Periods, ReturnAtOnce(t, period)
        PROVE  next_ns' >= next_ns
    BY <2>4 DEF ReturnAtOnce, timerVars
  <2>5. QED
    BY <2>1, <2>2, <2>3, <2>4 DEF TimerNext
<1>2. QED
  BY <1>1, TimersKeepInvariant, PTL DEF TimerSpec, NextNeverBack
============================================================================
