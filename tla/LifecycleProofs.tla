-------------------------- MODULE LifecycleProofs --------------------------
(***************************************************************************)
(* Proofs about Lifecycle, for any number of threads, any tasks, any       *)
(* duration and any width of the loop counters; and about Engine: the      *)
(* composition is a Lifecycle and an Events, so that what is proved of     *)
(* either holds of the whole engine.                                       *)
(***************************************************************************)
EXTENDS Engine, TLAPS

\* advance_phase_loop keeps a position in the list of phases, and the
\* counters of the position are again i32 values.
LEMMA AdvanceInRange ==
  ASSUME NEW task \in Task, task.phases # <<>>,
         NEW c \in Cursor, c.phase_idx < Len(task.phases)
  PROVE  /\ Advance(task, c) \in Cursor
         /\ Advance(task, c).phase_idx < Len(task.phases)
<1> USE MaxIntAssumption
<1>1. /\ c.phase_idx \in Nat /\ c.phase_loop \in I32 /\ c.thread_loop \in I32
      /\ c = [phase_idx |-> c.phase_idx, phase_loop |-> c.phase_loop,
              thread_loop |-> c.thread_loop]
  BY DEF Cursor
<1>2. Len(task.phases) \in Nat \ {0}
  BY DEF Task
<1>3. /\ Inc(c.phase_loop) \in I32 /\ 0 \in I32
      /\ NextThreadLoop(c.thread_loop) \in I32
  BY <1>1 DEF Inc, NextThreadLoop, I32
<1> DEFINE again == Inc(c.phase_loop) # task.phases[c.phase_idx + 1]
<1>4. CASE again
  <2>1. Advance(task, c) = [c EXCEPT !.phase_loop = Inc(@)]
    BY <1>4 DEF Advance
  <2>2. QED
    BY <2>1, <1>1, <1>3 DEF Cursor
<1>5. CASE ~again
  <2> DEFINE last == c.phase_idx + 1 >= Len(task.phases)
             idx  == IF last THEN 0 ELSE c.phase_idx + 1
             loop == IF last THEN NextThreadLoop(c.thread_loop) ELSE c.thread_loop
  <2>1. Advance(task, c) =
          [phase_idx |-> idx, phase_loop |-> 0, thread_loop |-> loop]
    BY <1>5 DEF Advance
  <2>2. idx \in Nat /\ idx < Len(task.phases) /\ loop \in I32
    BY <1>1, <1>2, <1>3
  <2> HIDE DEF idx, loop
  <2>3. QED
    BY <2>1, <2>2, <1>3 DEF Cursor
<1>6. QED
  BY <1>4, <1>5

LEMMA StartInvariant == Init => IInv
<1> SUFFICES ASSUME Init PROVE IInv
  OBVIOUS
<1> USE LifecycleAssumption, MaxIntAssumption DEF Init
<1>1. TypeOK
  <2>1. CursorStart \in Cursor
    BY DEF CursorStart, Cursor, I32
  <2>2. /\ pc \in [Threads -> Places] /\ cursor \in [Threads -> Cursor]
        /\ t_first \in [Threads -> {"unread", "zero", "t_zero"}]
    BY <2>1 DEF Places
  <2>3. /\ spawned \in 0..NumThreads /\ joined \in 0..NumThreads
        /\ running_threads \in 0..NumThreads /\ elapsed \in Nat
        /\ exit_code \in {-1, 0, 1}
    OBVIOUS
  <2>4. QED
    BY <2>2, <2>3 DEF TypeOK
<1>2. CursorInRange
  BY DEF CursorInRange, CursorStart, Task, Threads
<1>3. TimeReferenceShared /\ CreatedInOrder /\ ArrivalsRecorded
  BY DEF TimeReferenceShared, CreatedInOrder, ArrivalsRecorded, Threads
<1>4. PastBarrier /\ StopsExplained /\ FailuresRecorded
  BY DEF PastBarrier, StopsExplained, StopHasCause, FailuresRecorded
<1>5. JoinsAreEnds /\ WorkNotDropped
  BY DEF JoinsAreEnds, WorkNotDropped, Threads
<1>6. QED
  BY <1>1, <1>2, <1>3, <1>4, <1>5 DEF IInv

LEMMA SpawnThreadStep ==
  ASSUME IInv, SpawnThread
  PROVE  IInv'
<1> USE LifecycleAssumption, MaxIntAssumption
      DEF IInv, SpawnThread, mainVars, workerVars, engineVars, monitorVars
<1>1. TypeOK'
  BY DEF TypeOK, Places, Ended, Threads, Parties, Main
<1>2. CursorInRange'
  BY DEF TypeOK, CursorInRange, Threads
<1>3. CreatedInOrder'
  BY DEF TypeOK, CreatedInOrder, Threads
<1>4. ArrivalsRecorded'
  BY DEF TypeOK, ArrivalsRecorded, CreatedInOrder, Threads, Parties, Main
<1>5. PastBarrier'
  BY DEF TypeOK, PastBarrier, CreatedInOrder, BarrierOpen, Parties, Main,
     Threads
<1>6. FailuresRecorded'
  BY DEF TypeOK, FailuresRecorded, CreatedInOrder, Threads
<1>7. JoinsAreEnds'
  BY DEF TypeOK, JoinsAreEnds, CreatedInOrder, Threads, Ended
<1>8. WorkNotDropped'
  BY DEF TypeOK, WorkNotDropped, CreatedInOrder, Threads
<1>9. TimeReferenceShared' /\ StopsExplained'
  BY DEF TypeOK, TimeReferenceShared, StopsExplained, StopHasCause, Threads
<1>10. QED
  BY <1>1, <1>2, <1>3, <1>4, <1>5, <1>6, <1>7, <1>8, <1>9

LEMMA SpawnFailsStep ==
  ASSUME IInv, SpawnFails
  PROVE  IInv'
<1> USE LifecycleAssumption, MaxIntAssumption
      DEF IInv, SpawnFails, mainVars, workerVars, engineVars, monitorVars
<1>1. TypeOK'
  BY DEF TypeOK, Places, Ended, Threads, Parties, Main
<1>2. PastBarrier'
  BY DEF TypeOK, PastBarrier, BarrierOpen, Parties, Main, Threads
<1>3. JoinsAreEnds'
  BY DEF TypeOK, JoinsAreEnds, Threads, Ended
<1>4. TimeReferenceShared' /\ CursorInRange' /\ CreatedInOrder' /\
      ArrivalsRecorded' /\ StopsExplained'
  BY DEF TypeOK, TimeReferenceShared, CursorInRange, CreatedInOrder,
     ArrivalsRecorded, StopsExplained, StopHasCause, Threads, Parties, Main
<1>5. FailuresRecorded' /\ WorkNotDropped'
  BY DEF TypeOK, FailuresRecorded, WorkNotDropped
<1>6. QED
  BY <1>1, <1>2, <1>3, <1>4, <1>5

LEMMA SpawnEndsStep ==
  ASSUME IInv, SpawnEnds
  PROVE  IInv'
<1> USE LifecycleAssumption, MaxIntAssumption
      DEF IInv, SpawnEnds, mainVars, workerVars, engineVars, monitorVars
<1>1. TypeOK'
  BY DEF TypeOK, Places, Ended, Threads, Parties, Main
<1>2. ArrivalsRecorded'
  BY DEF TypeOK, ArrivalsRecorded, Threads, Parties, Main
<1>3. PastBarrier'
  BY DEF TypeOK, PastBarrier, BarrierOpen, Parties, Main, Threads
<1>4. TimeReferenceShared' /\ CursorInRange' /\ CreatedInOrder' /\
      StopsExplained' /\ FailuresRecorded'
  BY DEF TypeOK, TimeReferenceShared, CursorInRange, CreatedInOrder,
     StopsExplained, StopHasCause, FailuresRecorded, Threads
<1>5. JoinsAreEnds' /\ WorkNotDropped'
  BY DEF TypeOK, JoinsAreEnds, WorkNotDropped, Threads, Ended
<1>6. QED
  BY <1>1, <1>2, <1>3, <1>4, <1>5

LEMMA MainPassesStep ==
  ASSUME IInv, MainPasses
  PROVE  IInv'
<1> USE LifecycleAssumption, MaxIntAssumption
      DEF IInv, MainPasses, mainVars, workerVars, engineVars, monitorVars
<1>1. TypeOK'
  BY DEF TypeOK, Places, Ended, Threads, Parties, Main
<1>2. PastBarrier'
  BY DEF TypeOK, PastBarrier, ArrivalsRecorded, BarrierOpen, Parties, Main,
     Threads
<1>3. TimeReferenceShared' /\ CursorInRange' /\ CreatedInOrder' /\
      ArrivalsRecorded' /\ StopsExplained'
  BY DEF TypeOK, TimeReferenceShared, CursorInRange, CreatedInOrder,
     ArrivalsRecorded, StopsExplained, StopHasCause, Threads, Parties, Main
<1>4. FailuresRecorded' /\ JoinsAreEnds' /\ WorkNotDropped'
  BY DEF TypeOK, FailuresRecorded, JoinsAreEnds, WorkNotDropped, Threads,
     Ended
<1>5. QED
  BY <1>1, <1>2, <1>3, <1>4

LEMMA PollStep ==
  ASSUME IInv, Poll
  PROVE  IInv'
<1> USE LifecycleAssumption, MaxIntAssumption
      DEF IInv, Poll, mainVars, workerVars, engineVars, monitorVars
<1>1. TypeOK'
  BY DEF TypeOK, Places, Ended, Threads, Parties, Main
<1>2. StopsExplained'
  BY DEF TypeOK, StopsExplained, StopHasCause
<1>3. TimeReferenceShared' /\ CursorInRange' /\ CreatedInOrder' /\
      ArrivalsRecorded' /\ PastBarrier'
  BY DEF TypeOK, TimeReferenceShared, CursorInRange, CreatedInOrder,
     ArrivalsRecorded, PastBarrier, Threads, Parties, Main, BarrierOpen
<1>4. FailuresRecorded' /\ JoinsAreEnds' /\ WorkNotDropped'
  BY DEF TypeOK, FailuresRecorded, JoinsAreEnds, WorkNotDropped, Threads,
     Ended
<1>5. QED
  BY <1>1, <1>2, <1>3, <1>4

LEMMA DurationElapsedStep ==
  ASSUME IInv, DurationElapsed
  PROVE  IInv'
<1> USE LifecycleAssumption, MaxIntAssumption
      DEF IInv, DurationElapsed, mainVars, workerVars, engineVars, monitorVars
<1>1. TypeOK'
  BY DEF TypeOK, Places, Ended, Threads, Parties, Main
<1>2. StopsExplained'
  BY DEF TypeOK, StopsExplained, StopHasCause
<1>3. TimeReferenceShared' /\ CursorInRange' /\ CreatedInOrder' /\
      ArrivalsRecorded' /\ PastBarrier'
  BY DEF TypeOK, TimeReferenceShared, CursorInRange, CreatedInOrder,
     ArrivalsRecorded, PastBarrier, Threads, Parties, Main, BarrierOpen
<1>4. FailuresRecorded' /\ JoinsAreEnds' /\ WorkNotDropped'
  BY DEF TypeOK, FailuresRecorded, JoinsAreEnds, WorkNotDropped, Threads,
     Ended
<1>5. QED
  BY <1>1, <1>2, <1>3, <1>4

LEMMA WaitEndsStep ==
  ASSUME IInv, WaitEnds
  PROVE  IInv'
<1> USE LifecycleAssumption, MaxIntAssumption
      DEF IInv, WaitEnds, mainVars, workerVars, engineVars, monitorVars
<1>1. TypeOK'
  BY DEF TypeOK, Places, Ended, Threads, Parties, Main
<1>2. StopsExplained'
  BY DEF TypeOK, StopsExplained, StopHasCause, PastBarrier, BarrierOpen,
     Parties, Main, Threads
<1>3. TimeReferenceShared' /\ CursorInRange' /\ CreatedInOrder' /\
      ArrivalsRecorded' /\ PastBarrier'
  BY DEF TypeOK, TimeReferenceShared, CursorInRange, CreatedInOrder,
     ArrivalsRecorded, PastBarrier, Threads, Parties, Main, BarrierOpen
<1>4. FailuresRecorded' /\ JoinsAreEnds' /\ WorkNotDropped'
  BY DEF TypeOK, FailuresRecorded, JoinsAreEnds, WorkNotDropped, Threads,
     Ended
<1>5. QED
  BY <1>1, <1>2, <1>3, <1>4

LEMMA ShutdownStep ==
  ASSUME IInv, Shutdown
  PROVE  IInv'
<1> USE LifecycleAssumption, MaxIntAssumption
      DEF IInv, Shutdown, mainVars, workerVars, engineVars, monitorVars
<1>1. TypeOK'
  BY DEF TypeOK, Places, Ended, Threads, Parties, Main
<1>2. StopsExplained'
  BY DEF TypeOK, StopsExplained, StopHasCause
<1>3. TimeReferenceShared' /\ CursorInRange' /\ CreatedInOrder' /\
      ArrivalsRecorded' /\ PastBarrier'
  BY DEF TypeOK, TimeReferenceShared, CursorInRange, CreatedInOrder,
     ArrivalsRecorded, PastBarrier, Threads, Parties, Main, BarrierOpen
<1>4. FailuresRecorded' /\ JoinsAreEnds' /\ WorkNotDropped'
  BY DEF TypeOK, FailuresRecorded, JoinsAreEnds, WorkNotDropped, Threads,
     Ended
<1>5. QED
  BY <1>1, <1>2, <1>3, <1>4

LEMMA JoinStep ==
  ASSUME IInv, Join
  PROVE  IInv'
<1> USE LifecycleAssumption, MaxIntAssumption
      DEF IInv, Join, mainVars, workerVars, engineVars, monitorVars
<1>1. TypeOK'
  BY DEF TypeOK, Places, Ended, Threads, Parties, Main
<1>2. JoinsAreEnds'
  BY DEF TypeOK, JoinsAreEnds, Threads, Ended
<1>3. TimeReferenceShared' /\ CursorInRange' /\ CreatedInOrder' /\
      ArrivalsRecorded' /\ PastBarrier'
  BY DEF TypeOK, TimeReferenceShared, CursorInRange, CreatedInOrder,
     ArrivalsRecorded, PastBarrier, Threads, Parties, Main, BarrierOpen
<1>4. StopsExplained' /\ FailuresRecorded' /\ WorkNotDropped'
  BY DEF TypeOK, StopsExplained, StopHasCause, FailuresRecorded,
     WorkNotDropped
<1>5. QED
  BY <1>1, <1>2, <1>3, <1>4

LEMMA ExitStep ==
  ASSUME IInv, Exit
  PROVE  IInv'
<1> USE LifecycleAssumption, MaxIntAssumption
      DEF IInv, Exit, mainVars, workerVars, engineVars, monitorVars
<1>1. TypeOK'
  BY DEF TypeOK, Places, Ended, Threads, Parties, Main
<1>2. JoinsAreEnds'
  BY DEF TypeOK, JoinsAreEnds, PastBarrier, Threads, Ended, BarrierOpen,
     Parties, Main
<1>3. TimeReferenceShared' /\ CursorInRange' /\ CreatedInOrder' /\
      ArrivalsRecorded' /\ PastBarrier'
  BY DEF TypeOK, TimeReferenceShared, CursorInRange, CreatedInOrder,
     ArrivalsRecorded, PastBarrier, Threads, Parties, Main, BarrierOpen
<1>4. StopsExplained' /\ FailuresRecorded' /\ WorkNotDropped'
  BY DEF TypeOK, StopsExplained, StopHasCause, FailuresRecorded,
     WorkNotDropped
<1>5. QED
  BY <1>1, <1>2, <1>3, <1>4

LEMMA SetTZeroStep ==
  ASSUME IInv, NEW t \in Threads, SetTZero(t)
  PROVE  IInv'
<1> USE LifecycleAssumption, MaxIntAssumption
      DEF IInv, SetTZero, At, Goto, mainVars, workerVars, engineVars, monitorVars
<1>1. TypeOK'
  BY DEF TypeOK, Places, Ended, Threads, Parties, Main
<1>2. ArrivalsRecorded'
  BY DEF TypeOK, ArrivalsRecorded, Threads, Parties, Main
<1>3. TimeReferenceShared' /\ CursorInRange' /\ CreatedInOrder' /\
      PastBarrier' /\ StopsExplained'
  BY DEF TypeOK, TimeReferenceShared, CursorInRange, CreatedInOrder,
     PastBarrier, StopsExplained, StopHasCause, Threads, BarrierOpen, Parties,
     Main
<1>4. FailuresRecorded' /\ JoinsAreEnds' /\ WorkNotDropped'
  BY DEF TypeOK, FailuresRecorded, JoinsAreEnds, WorkNotDropped, Threads,
     Ended
<1>5. QED
  BY <1>1, <1>2, <1>3, <1>4

LEMMA ArriveStep ==
  ASSUME IInv, NEW t \in Threads, Arrive(t)
  PROVE  IInv'
<1> USE LifecycleAssumption, MaxIntAssumption
      DEF IInv, Arrive, At, Goto, mainVars, workerVars, engineVars, monitorVars
<1>1. TypeOK'
  BY DEF TypeOK, Places, Ended, Threads, Parties, Main
<1>2. CreatedInOrder'
  BY DEF TypeOK, CreatedInOrder, Threads
<1>3. ArrivalsRecorded'
  BY DEF TypeOK, ArrivalsRecorded, Threads, Parties, Main
<1>4. PastBarrier'
  BY DEF TypeOK, PastBarrier, BarrierOpen, Parties, Main, Threads
<1>5. TimeReferenceShared' /\ CursorInRange' /\ StopsExplained' /\
      FailuresRecorded' /\ JoinsAreEnds'
  BY DEF TypeOK, TimeReferenceShared, CursorInRange, StopsExplained,
     StopHasCause, FailuresRecorded, JoinsAreEnds, Threads, Ended
<1>6. WorkNotDropped'
  BY DEF TypeOK, WorkNotDropped
<1>7. QED
  BY <1>1, <1>2, <1>3, <1>4, <1>5, <1>6

LEMMA ReadTZeroStep ==
  ASSUME IInv, NEW t \in Threads, ReadTZero(t)
  PROVE  IInv'
<1> USE LifecycleAssumption, MaxIntAssumption
      DEF IInv, ReadTZero, At, Goto, mainVars, workerVars, engineVars, monitorVars
<1>1. TypeOK'
  BY DEF TypeOK, Places, Ended, Threads, Parties, Main
<1>2. TimeReferenceShared'
  <2>1. 0 \in Threads /\ 0 \in arrived
    BY DEF Threads, BarrierOpen, Parties
  <2>2. t_zero = "now"
    BY <2>1 DEF ArrivalsRecorded
  <2>3. QED
    BY <2>2 DEF TypeOK, TimeReferenceShared
<1>3. ArrivalsRecorded'
  BY DEF TypeOK, ArrivalsRecorded, Threads, Parties, Main
<1>4. PastBarrier'
  BY DEF TypeOK, PastBarrier, BarrierOpen, Parties, Main, Threads
<1>5. CursorInRange' /\ CreatedInOrder' /\ StopsExplained' /\
      FailuresRecorded' /\ JoinsAreEnds'
  BY DEF TypeOK, CursorInRange, CreatedInOrder, StopsExplained, StopHasCause,
     FailuresRecorded, JoinsAreEnds, Threads, Ended
<1>6. WorkNotDropped'
  BY DEF TypeOK, WorkNotDropped
<1>7. QED
  BY <1>1, <1>2, <1>3, <1>4, <1>5, <1>6

LEMMA SchedAppliedStep ==
  ASSUME IInv, NEW t \in Threads, SchedApplied(t)
  PROVE  IInv'
<1> USE LifecycleAssumption, MaxIntAssumption
      DEF IInv, SchedApplied, At, Goto, mainVars, workerVars, engineVars, monitorVars
<1>1. TypeOK'
  BY DEF TypeOK, Places, Ended, Threads, Parties, Main
<1>2. FailuresRecorded'
  BY DEF TypeOK, FailuresRecorded
<1>3. TimeReferenceShared' /\ CursorInRange' /\ CreatedInOrder' /\
      ArrivalsRecorded' /\ PastBarrier'
  BY DEF TypeOK, TimeReferenceShared, CursorInRange, CreatedInOrder,
     ArrivalsRecorded, PastBarrier, Threads, Parties, Main, BarrierOpen
<1>4. StopsExplained' /\ JoinsAreEnds' /\ WorkNotDropped'
  BY DEF TypeOK, StopsExplained, StopHasCause, JoinsAreEnds, WorkNotDropped,
     Threads, Ended
<1>5. QED
  BY <1>1, <1>2, <1>3, <1>4

LEMMA SchedFailsStep ==
  ASSUME IInv, NEW t \in Threads, SchedFails(t)
  PROVE  IInv'
<1> USE LifecycleAssumption, MaxIntAssumption
      DEF IInv, SchedFails, At, Goto, mainVars, workerVars, engineVars, monitorVars
<1>1. TypeOK'
  BY DEF TypeOK, Places, Ended, Threads, Parties, Main
<1>2. StopsExplained'
  BY DEF TypeOK, StopsExplained, StopHasCause
<1>3. FailuresRecorded'
  BY DEF TypeOK, FailuresRecorded
<1>4. TimeReferenceShared' /\ CursorInRange' /\ CreatedInOrder' /\
      ArrivalsRecorded' /\ PastBarrier'
  BY DEF TypeOK, TimeReferenceShared, CursorInRange, CreatedInOrder,
     ArrivalsRecorded, PastBarrier, Threads, Parties, Main, BarrierOpen
<1>5. JoinsAreEnds' /\ WorkNotDropped'
  BY DEF TypeOK, JoinsAreEnds, WorkNotDropped, Threads, Ended
<1>6. QED
  BY <1>1, <1>2, <1>3, <1>4, <1>5

LEMMA StopAfterFailureStep ==
  ASSUME IInv, NEW t \in Threads, StopAfterFailure(t)
  PROVE  IInv'
<1> USE LifecycleAssumption, MaxIntAssumption
      DEF IInv, StopAfterFailure, At, Goto, mainVars, workerVars, engineVars, monitorVars
<1>1. TypeOK'
  BY DEF TypeOK, Places, Ended, Threads, Parties, Main
<1>2. StopsExplained'
  BY DEF TypeOK, StopsExplained, StopHasCause, FailuresRecorded
<1>3. FailuresRecorded'
  BY DEF TypeOK, FailuresRecorded
<1>4. JoinsAreEnds'
  BY DEF TypeOK, JoinsAreEnds, Threads, Ended
<1>5. TimeReferenceShared' /\ CursorInRange' /\ CreatedInOrder' /\
      ArrivalsRecorded' /\ PastBarrier'
  BY DEF TypeOK, TimeReferenceShared, CursorInRange, CreatedInOrder,
     ArrivalsRecorded, PastBarrier, Threads, Parties, Main, BarrierOpen
<1>6. WorkNotDropped'
  BY DEF TypeOK, WorkNotDropped
<1>7. QED
  BY <1>1, <1>2, <1>3, <1>4, <1>5, <1>6

LEMMA BeginPhaseStep ==
  ASSUME IInv, NEW t \in Threads, BeginPhase(t)
  PROVE  IInv'
<1> USE LifecycleAssumption, MaxIntAssumption
      DEF IInv, BeginPhase, At, Goto, mainVars, workerVars, engineVars, monitorVars
<1>1. TypeOK'
  BY DEF TypeOK, Places, Ended, Threads, Parties, Main
<1>2. CursorInRange'
  BY DEF TypeOK, CursorInRange, Threads
<1>3. TimeReferenceShared' /\ CreatedInOrder' /\ ArrivalsRecorded' /\
      PastBarrier' /\ StopsExplained'
  BY DEF TypeOK, TimeReferenceShared, CreatedInOrder, ArrivalsRecorded,
     PastBarrier, StopsExplained, StopHasCause, Threads, Parties, Main,
     BarrierOpen
<1>4. FailuresRecorded' /\ JoinsAreEnds' /\ WorkNotDropped'
  BY DEF TypeOK, FailuresRecorded, JoinsAreEnds, WorkNotDropped, Threads,
     Ended
<1>5. QED
  BY <1>1, <1>2, <1>3, <1>4

LEMMA NoPhaseToRunStep ==
  ASSUME IInv, NEW t \in Threads, NoPhaseToRun(t)
  PROVE  IInv'
<1> USE LifecycleAssumption, MaxIntAssumption
      DEF IInv, NoPhaseToRun, At, Goto, mainVars, workerVars, engineVars, monitorVars
<1>1. TypeOK'
  BY DEF TypeOK, Places, Ended, Threads, Parties, Main
<1>2. JoinsAreEnds'
  BY DEF TypeOK, JoinsAreEnds, Threads, Ended
<1>3. TimeReferenceShared' /\ CursorInRange' /\ CreatedInOrder' /\
      ArrivalsRecorded' /\ PastBarrier'
  BY DEF TypeOK, TimeReferenceShared, CursorInRange, CreatedInOrder,
     ArrivalsRecorded, PastBarrier, Threads, Parties, Main, BarrierOpen
<1>4. StopsExplained' /\ FailuresRecorded' /\ WorkNotDropped'
  BY DEF TypeOK, StopsExplained, StopHasCause, FailuresRecorded,
     WorkNotDropped
<1>5. QED
  BY <1>1, <1>2, <1>3, <1>4

LEMMA EndPhaseStep ==
  ASSUME IInv, NEW t \in Threads, EndPhase(t)
  PROVE  IInv'
<1> USE LifecycleAssumption, MaxIntAssumption
      DEF IInv, EndPhase, At, Goto, mainVars, workerVars, engineVars, monitorVars
<1> DEFINE succ == Advance(Tasks[t], cursor[t])
<1>0. succ \in Cursor /\ succ.phase_idx < Len(Tasks[t].phases)
  <2>1. /\ Tasks[t] \in Task /\ cursor[t] \in Cursor
        /\ Tasks[t].phases # <<>>
        /\ cursor[t].phase_idx < Len(Tasks[t].phases)
    BY DEF TypeOK, CursorInRange
  <2>2. QED
    BY <2>1, AdvanceInRange
<1> HIDE DEF succ
<1>1. TypeOK'
  <2>1. cursor' = [cursor EXCEPT ![t] = succ]
    BY DEF TypeOK, succ
  <2>2. QED
    BY <1>0, <2>1 DEF TypeOK, Places, Threads, Parties, Main
<1>2. CursorInRange'
  <2>1. cursor' = [cursor EXCEPT ![t] = succ]
    BY DEF TypeOK, succ
  <2>2. QED
    BY <1>0, <2>1 DEF TypeOK, CursorInRange
<1>3. WorkNotDropped'
  BY DEF TypeOK, WorkNotDropped
<1>4. TimeReferenceShared' /\ CreatedInOrder' /\ ArrivalsRecorded' /\
      PastBarrier' /\ StopsExplained'
  BY DEF TypeOK, TimeReferenceShared, CreatedInOrder, ArrivalsRecorded,
     PastBarrier, StopsExplained, StopHasCause, Threads, Parties, Main,
     BarrierOpen
<1>5. FailuresRecorded' /\ JoinsAreEnds'
  BY DEF TypeOK, FailuresRecorded, JoinsAreEnds, Threads, Ended
<1>6. QED
  BY <1>1, <1>2, <1>3, <1>4, <1>5

LEMMA LeaveLoopStep ==
  ASSUME IInv, NEW t \in Threads, LeaveLoop(t)
  PROVE  IInv'
<1> USE LifecycleAssumption, MaxIntAssumption
      DEF IInv, LeaveLoop, At, Goto, mainVars, workerVars, engineVars, monitorVars
<1>1. TypeOK'
  BY DEF TypeOK, Places, Ended, Threads, Parties, Main
<1>2. WorkNotDropped'
  BY DEF TypeOK, WorkNotDropped
<1>3. TimeReferenceShared' /\ CursorInRange' /\ CreatedInOrder' /\
      ArrivalsRecorded' /\ PastBarrier'
  BY DEF TypeOK, TimeReferenceShared, CursorInRange, CreatedInOrder,
     ArrivalsRecorded, PastBarrier, Threads, Parties, Main, BarrierOpen
<1>4. StopsExplained' /\ FailuresRecorded' /\ JoinsAreEnds'
  BY DEF TypeOK, StopsExplained, StopHasCause, FailuresRecorded, JoinsAreEnds,
     Threads, Ended
<1>5. QED
  BY <1>1, <1>2, <1>3, <1>4

LEMMA CleanupStep ==
  ASSUME IInv, NEW t \in Threads, Cleanup(t)
  PROVE  IInv'
<1> USE LifecycleAssumption, MaxIntAssumption
      DEF IInv, Cleanup, At, Goto, mainVars, workerVars, engineVars, monitorVars
<1>1. TypeOK'
  BY DEF TypeOK, Places, Ended, Threads, Parties, Main
<1>2. JoinsAreEnds'
  BY DEF TypeOK, JoinsAreEnds, Threads, Ended
<1>3. WorkNotDropped'
  BY DEF TypeOK, WorkNotDropped
<1>4. TimeReferenceShared' /\ CursorInRange' /\ CreatedInOrder' /\
      ArrivalsRecorded' /\ PastBarrier'
  BY DEF TypeOK, TimeReferenceShared, CursorInRange, CreatedInOrder,
     ArrivalsRecorded, PastBarrier, Threads, Parties, Main, BarrierOpen
<1>5. StopsExplained' /\ FailuresRecorded'
  BY DEF TypeOK, StopsExplained, StopHasCause, FailuresRecorded
<1>6. QED
  BY <1>1, <1>2, <1>3, <1>4, <1>5

LEMMA SignalStep ==
  ASSUME IInv, Signal
  PROVE  IInv'
<1> USE LifecycleAssumption, MaxIntAssumption
      DEF IInv, Signal, mainVars, workerVars, engineVars, monitorVars
<1>1. TypeOK'
  BY DEF TypeOK, Places, Ended, Threads, Parties, Main
<1>2. StopsExplained'
  BY DEF TypeOK, StopsExplained, StopHasCause
<1>3. TimeReferenceShared' /\ CursorInRange' /\ CreatedInOrder' /\
      ArrivalsRecorded' /\ PastBarrier'
  BY DEF TypeOK, TimeReferenceShared, CursorInRange, CreatedInOrder,
     ArrivalsRecorded, PastBarrier, Threads, Parties, Main, BarrierOpen
<1>4. FailuresRecorded' /\ JoinsAreEnds' /\ WorkNotDropped'
  BY DEF TypeOK, FailuresRecorded, JoinsAreEnds, WorkNotDropped, Threads,
     Ended
<1>5. QED
  BY <1>1, <1>2, <1>3, <1>4

LEMMA MonitorCheckStep ==
  ASSUME IInv, MonitorCheck
  PROVE  IInv'
<1> USE LifecycleAssumption, MaxIntAssumption
      DEF IInv, MonitorCheck, mainVars, workerVars, engineVars, monitorVars
<1>1. TypeOK'
  BY DEF TypeOK, Places, Ended, Threads, Parties, Main
<1>2. StopsExplained'
  BY DEF TypeOK, StopsExplained, StopHasCause
<1>3. TimeReferenceShared' /\ CursorInRange' /\ CreatedInOrder' /\
      ArrivalsRecorded' /\ PastBarrier'
  BY DEF TypeOK, TimeReferenceShared, CursorInRange, CreatedInOrder,
     ArrivalsRecorded, PastBarrier, Threads, Parties, Main, BarrierOpen
<1>4. FailuresRecorded' /\ JoinsAreEnds' /\ WorkNotDropped'
  BY DEF TypeOK, FailuresRecorded, JoinsAreEnds, WorkNotDropped, Threads,
     Ended
<1>5. QED
  BY <1>1, <1>2, <1>3, <1>4

LEMMA MonitorPollStep ==
  ASSUME IInv, MonitorPoll
  PROVE  IInv'
<1> USE LifecycleAssumption, MaxIntAssumption
      DEF IInv, MonitorPoll, mainVars, workerVars, engineVars, monitorVars
<1>1. TypeOK'
  BY DEF TypeOK, Places, Ended, Threads, Parties, Main
<1>2. StopsExplained'
  BY DEF TypeOK, StopsExplained, StopHasCause
<1>3. TimeReferenceShared' /\ CursorInRange' /\ CreatedInOrder' /\
      ArrivalsRecorded' /\ PastBarrier'
  BY DEF TypeOK, TimeReferenceShared, CursorInRange, CreatedInOrder,
     ArrivalsRecorded, PastBarrier, Threads, Parties, Main, BarrierOpen
<1>4. FailuresRecorded' /\ JoinsAreEnds' /\ WorkNotDropped'
  BY DEF TypeOK, FailuresRecorded, JoinsAreEnds, WorkNotDropped, Threads,
     Ended
<1>5. QED
  BY <1>1, <1>2, <1>3, <1>4

LEMMA MonitorStopsStep ==
  ASSUME IInv, MonitorStops
  PROVE  IInv'
<1> USE LifecycleAssumption, MaxIntAssumption
      DEF IInv, MonitorStops, mainVars, workerVars, engineVars, monitorVars
<1>1. TypeOK'
  BY DEF TypeOK, Places, Ended, Threads, Parties, Main
<1>2. StopsExplained'
  BY DEF TypeOK, StopsExplained, StopHasCause
<1>3. FailuresRecorded'
  BY DEF TypeOK, FailuresRecorded
<1>4. TimeReferenceShared' /\ CursorInRange' /\ CreatedInOrder' /\
      ArrivalsRecorded' /\ PastBarrier'
  BY DEF TypeOK, TimeReferenceShared, CursorInRange, CreatedInOrder,
     ArrivalsRecorded, PastBarrier, Threads, Parties, Main, BarrierOpen
<1>5. JoinsAreEnds' /\ WorkNotDropped'
  BY DEF TypeOK, JoinsAreEnds, WorkNotDropped, Threads, Ended
<1>6. QED
  BY <1>1, <1>2, <1>3, <1>4, <1>5
\* The inductive invariant holds in every reachable state.
THEOREM InvariantHolds == Spec => []IInv
<1>1. IInv /\ [Next]_vars => IInv'
  <2> SUFFICES ASSUME IInv, [Next]_vars PROVE IInv'
    OBVIOUS
  <2>1. CASE MainStep
    BY <2>1, SpawnThreadStep, SpawnEndsStep, MainPassesStep,
       PollStep, DurationElapsedStep, WaitEndsStep,
       ShutdownStep, JoinStep, ExitStep DEF MainStep
  <2>2. CASE SpawnFails
    BY <2>2, SpawnFailsStep
  <2>3. ASSUME NEW t \in Threads, WorkerStep(t) PROVE IInv'
    BY <2>3, SetTZeroStep, ArriveStep, ReadTZeroStep, SchedAppliedStep,
       SchedFailsStep, StopAfterFailureStep, BeginPhaseStep,
       NoPhaseToRunStep, EndPhaseStep, LeaveLoopStep, CleanupStep
       DEF WorkerStep, BetweenPhases
  <2>4. CASE Signal
    BY <2>4, SignalStep
  <2>5. CASE MonitorStep
    BY <2>5, MonitorCheckStep, MonitorPollStep, MonitorStopsStep DEF MonitorStep
  <2>6. CASE UNCHANGED vars
    BY <2>6 DEF vars, mainVars, workerVars, engineVars, monitorVars, IInv,
      TypeOK, TimeReferenceShared, CursorInRange, CreatedInOrder,
      ArrivalsRecorded, PastBarrier, BarrierOpen, StopsExplained, StopHasCause,
      FailuresRecorded, JoinsAreEnds, WorkNotDropped
  <2>7. QED
    BY <2>1, <2>2, <2>3, <2>4, <2>5, <2>6 DEF Next, Terminated
<1>2. QED
  BY StartInvariant, <1>1, PTL DEF Spec

\* Every variable keeps its type.
THEOREM TypesHold == Spec => []TypeOK
<1>1. IInv => TypeOK
  BY DEF IInv
<1>2. QED
  BY <1>1, InvariantHolds, PTL

\* No worker ever runs on the fallback time reference of zero.
THEOREM TimeReferenceIsShared == Spec => []TimeReferenceShared
<1>1. IInv => TimeReferenceShared
  BY DEF IInv
<1>2. QED
  BY <1>1, InvariantHolds, PTL

\* The run is never stopped without one of the four reasons.
THEOREM StopsHaveCauses == Spec => []StopHasCause
<1>1. IInv => StopHasCause
  BY DEF IInv, StopsExplained
<1>2. QED
  BY <1>1, InvariantHolds, PTL

\* While the run goes on, a worker leaves only when its loops are done.
THEOREM NoWorkIsDropped == Spec => []WorkNotDropped
<1>1. IInv => WorkNotDropped
  BY DEF IInv
<1>2. QED
  BY <1>1, InvariantHolds, PTL

\* The exit code tells what became of the threads.
THEOREM ExitCodeIsHonest == Spec => []ExitCodeHonest
<1>1. IInv => ExitCodeHonest
  <2> SUFFICES ASSUME IInv PROVE ExitCodeHonest
    OBVIOUS
  <2> USE LifecycleAssumption DEF IInv, TypeOK, FailuresRecorded, JoinsAreEnds, Ended
  <2>1. ASSUME exit_code = 0 PROVE \A t \in Threads : pc[t] \in {"done", "panicked"}
    <3>1. \A t \in Threads : pc[t] \in Ended
      BY <2>1 DEF Threads
    <3>2. \A t \in Threads : pc[t] # "failed"
      BY <2>1
    <3>3. QED
      BY <3>1, <3>2
  <2>2. ASSUME exit_code = 1, spawned >= NumThreads
        PROVE \E t \in Threads : pc[t] = "failed"
    <3>1. \A t \in Threads : pc[t] \in Ended
      BY <2>2 DEF Threads
    <3>2. PICK t \in Threads : pc[t] \in {"abort", "failed"}
      BY <2>2 DEF Threads
    <3>3. QED
      BY <3>1, <3>2
  <2>3. QED
    BY <2>1, <2>2 DEF ExitCodeHonest
<1>2. QED
  BY <1>1, InvariantHolds, PTL

\* The main thread waits for completion only once all workers have started.
THEOREM WaitsAfterStart == Spec => []StartedBeforeWait
<1>1. IInv => StartedBeforeWait
  <2> SUFFICES ASSUME IInv, main \in {"wait", "shutdown", "join"}
               PROVE  /\ running_threads = NumThreads
                      /\ \A t \in Threads : pc[t] \notin {"none", "start"}
    BY DEF StartedBeforeWait
  <2>1. running_threads = NumThreads /\ (NumThreads > 0 => BarrierOpen)
    BY DEF IInv, PastBarrier
  <2>2. ASSUME NEW t \in Threads PROVE pc[t] \notin {"none", "start"}
    <3>1. NumThreads > 0
      BY LifecycleAssumption DEF Threads
    <3>2. t \in arrived
      BY <2>1, <3>1 DEF BarrierOpen, Parties
    <3>3. QED
      BY <3>2 DEF IInv, ArrivalsRecorded
  <2>3. QED
    BY <2>1, <2>2
<1>2. QED
  BY <1>1, InvariantHolds, PTL

----------------------------------------------------------------------------
(* Lifecycle implements AppContract. *)

\* A step that neither lets the last party into the barrier nor ends a thread
\* leaves the contract's view of the threads alone.
LEMMA ViewKept ==
  ASSUME IInv, arrived' = arrived, main' = main, pc' = pc
  PROVE  Launched' = Launched /\ Live' = Live
BY DEF Launched, Live, BarrierOpen

\* In a run with a thread, the threads are launched with the barrier.
LEMMA LaunchedWithThreads ==
  ASSUME NEW t \in Threads
  PROVE  Launched = BarrierOpen
BY LifecycleAssumption DEF Threads, Launched

LEMMA ContractStart ==
  ASSUME Init PROVE Contract!ContractInit
<1>1. ~Launched /\ Live = {}
  BY DEF Init, Launched, Live, BarrierOpen, Parties
<1>2. QED
  BY <1>1 DEF Init, Contract!ContractInit

\* Main's steps launch the threads, stop them, or end the process.
LEMMA MainImplements ==
  ASSUME IInv, MainStep \/ SpawnFails
  PROVE  [Contract!ContractNext]_(Contract!contractVars)
<1> USE LifecycleAssumption DEF mainVars, workerVars, engineVars, monitorVars
<1>1. CASE SpawnThread
  <2>1. Launched' = Launched
    BY <1>1 DEF SpawnThread, Launched, BarrierOpen
  <2>2. Live' = Live
    <3>1. NumThreads > 0 /\ Main \notin arrived
      BY <1>1 DEF SpawnThread, IInv, ArrivalsRecorded, TypeOK
    <3>2. ~Launched
      BY <3>1 DEF Launched, BarrierOpen, Parties
    <3>3. QED
      BY <2>1, <3>2 DEF Live
  <2>3. QED
    BY <1>1, <2>1, <2>2 DEF SpawnThread, Contract!contractVars
<1>2. CASE SpawnFails
  <2>1. ~Launched /\ ~Launched'
    BY <1>2 DEF SpawnFails, Launched, BarrierOpen, Parties, IInv,
      ArrivalsRecorded, TypeOK
  <2>2. Live' = Live /\ Launched' = Launched /\ exit_code = -1
    BY <1>2, <2>1 DEF SpawnFails, Live, Launched, BarrierOpen, IInv,
      JoinsAreEnds
  <2>3. Contract!Abort
    BY <1>2, <2>1, <2>2 DEF SpawnFails, Contract!Abort
  <2>4. QED
    BY <2>3 DEF Contract!ContractNext
<1>3. CASE SpawnEnds /\ NumThreads = 0
  <2>1. ~Launched /\ Launched' = TRUE
    BY <1>3 DEF SpawnEnds, Launched
  <2>2. Live' = Threads
    <3>1. Threads = {}
      BY <1>3 DEF SpawnEnds, Threads
    <3>2. QED
      BY <3>1 DEF Live
  <2>3. Contract!Launch
    BY <1>3, <2>1, <2>2 DEF SpawnEnds, Contract!Launch, IInv, JoinsAreEnds
  <2>4. QED
    BY <2>3 DEF Contract!ContractNext
<1>4. CASE SpawnEnds /\ NumThreads # 0
  <2>1. ~Launched /\ exit_code = -1
    BY <1>4 DEF SpawnEnds, Launched, BarrierOpen, Parties, IInv,
      ArrivalsRecorded, JoinsAreEnds
  <2>2. CASE Launched'
    <3>1. \A t \in Threads : pc[t] = "barrier"
      BY <1>4, <2>1, <2>2 DEF SpawnEnds, Launched, BarrierOpen, Parties,
        IInv, TypeOK, ArrivalsRecorded, PastBarrier, Places, Ended, Main, Threads
    <3>2. Live' = Threads
      BY <1>4, <2>2, <3>1 DEF SpawnEnds, Live, Ended
    <3>3. Contract!Launch
      BY <1>4, <2>1, <2>2, <3>2 DEF SpawnEnds, Contract!Launch, Launched
    <3>4. QED
      BY <3>3 DEF Contract!ContractNext
  <2>3. CASE ~Launched'
    <3>1. Launched' = Launched
      BY <1>4, <2>1, <2>3 DEF SpawnEnds, Launched, BarrierOpen
    <3>2. Live' = Live
      BY <2>1, <2>3 DEF Live
    <3>3. QED
      BY <1>4, <3>1, <3>2 DEF SpawnEnds, Contract!contractVars
  <2>4. QED
    BY <2>2, <2>3
<1>5. CASE MainPasses \/ Poll \/ WaitEnds \/ Join
  <2>1. Launched' = Launched /\ Live' = Live
    BY <1>5 DEF MainPasses, Poll, WaitEnds, Join, Launched, Live, BarrierOpen
  <2>2. QED
    BY <1>5, <2>1 DEF MainPasses, Poll, WaitEnds, Join, Contract!contractVars
<1>6. CASE DurationElapsed \/ Shutdown
  <2>1. Launched' = Launched /\ Live' = Live
    BY <1>6 DEF DurationElapsed, Shutdown, Launched, Live, BarrierOpen
  <2>2. Contract!RequestStop
    BY <1>6, <2>1 DEF DurationElapsed, Shutdown, Contract!RequestStop, IInv,
      JoinsAreEnds
  <2>3. QED
    BY <2>2 DEF Contract!ContractNext
<1>7. CASE Exit
  <2>1. Launched /\ Launched'
    BY <1>7 DEF Exit, Launched, BarrierOpen, IInv, PastBarrier, TypeOK
  <2>2. Live = {} /\ Live' = {}
    <3>1. \A t \in Threads : pc[t] \in Ended
      BY <1>7 DEF Exit, IInv, JoinsAreEnds, Threads
    <3>2. QED
      BY <1>7, <3>1 DEF Exit, Live
  <2>3. Contract!Finish
    BY <1>7, <2>1, <2>2 DEF Exit, Contract!Finish, IInv, JoinsAreEnds,
      StopsExplained
  <2>4. QED
    BY <2>3 DEF Contract!ContractNext
<1>8. QED
  BY <1>1, <1>2, <1>3, <1>4, <1>5, <1>6, <1>7 DEF MainStep

\* A worker's steps launch the threads, record a failure, or end the worker.
LEMMA WorkerImplements ==
  ASSUME IInv, NEW t \in Threads, WorkerStep(t)
  PROVE  [Contract!ContractNext]_(Contract!contractVars)
<1> USE DEF mainVars, workerVars, engineVars, monitorVars, At, Goto
<1>1. Launched = BarrierOpen /\ Launched' = BarrierOpen'
  BY LifecycleAssumption DEF Threads, Launched
<1>2. exit_code = -1 /\ pc \in [Threads -> Places]
  BY DEF WorkerStep, BetweenPhases, SetTZero, Arrive, ReadTZero, SchedApplied, SchedFails,
    StopAfterFailure, BeginPhase, NoPhaseToRun, EndPhase, LeaveLoop, Cleanup,
    IInv, JoinsAreEnds, TypeOK
<1>3. pc[t] \notin {"none", "start", "barrier"} => BarrierOpen
  BY DEF IInv, PastBarrier
<1>4. CASE Arrive(t)
  <2>1. ~BarrierOpen
    BY <1>4 DEF Arrive, BarrierOpen, Parties, IInv, ArrivalsRecorded
  <2>2. CASE BarrierOpen'
    <3>1. \A u \in Threads : pc'[u] \notin Ended
      <4>1. \A u \in Threads : pc[u] \in {"none", "start", "barrier"}
        BY <2>1, <1>2 DEF IInv, PastBarrier
      <4>2. QED
        BY <4>1, <1>2, <1>4 DEF Arrive, Ended
    <3>2. Live' = Threads
      BY <1>1, <2>2, <3>1 DEF Live
    <3>3. Contract!Launch
      BY <1>1, <1>2, <1>4, <2>1, <2>2, <3>2 DEF Arrive, Contract!Launch
    <3>4. QED
      BY <3>3 DEF Contract!ContractNext
  <2>3. CASE ~BarrierOpen'
    <3>1. Launched' = Launched
      BY <1>1, <2>1, <2>3 DEF BarrierOpen
    <3>2. Live' = Live
      BY <1>1, <2>1, <2>3 DEF Live
    <3>3. QED
      BY <1>4, <3>1, <3>2 DEF Arrive, Contract!contractVars
  <2>4. QED
    BY <2>2, <2>3
<1>5. CASE SetTZero(t) \/ ReadTZero(t) \/ SchedApplied(t) \/ BeginPhase(t)
             \/ EndPhase(t) \/ LeaveLoop(t)
  <2>1. BarrierOpen' = BarrierOpen
    BY <1>5 DEF SetTZero, ReadTZero, SchedApplied, BeginPhase, EndPhase,
      LeaveLoop, BarrierOpen
  <2>2. Live' = Live
    BY <1>1, <1>2, <1>5, <2>1 DEF SetTZero, ReadTZero, SchedApplied,
      BeginPhase, EndPhase, LeaveLoop, Live, Ended
  <2>3. QED
    BY <1>1, <1>5, <2>1, <2>2 DEF SetTZero, ReadTZero, SchedApplied,
      BeginPhase, EndPhase, LeaveLoop, Contract!contractVars
<1>6. CASE SchedFails(t)
  <2>1. BarrierOpen /\ BarrierOpen'
    BY <1>3, <1>6 DEF SchedFails, BarrierOpen
  <2>2. Live' = Live /\ t \in Live
    BY <1>1, <1>2, <1>6, <2>1 DEF SchedFails, Live, Ended
  <2>3. Contract!Fail
    BY <1>1, <1>2, <1>6, <2>1, <2>2 DEF SchedFails, Contract!Fail
  <2>4. QED
    BY <2>3 DEF Contract!ContractNext
<1>7. CASE StopAfterFailure(t) \/ NoPhaseToRun(t) \/ Cleanup(t)
  <2>1. BarrierOpen /\ BarrierOpen'
    BY <1>3, <1>7 DEF StopAfterFailure, NoPhaseToRun, Cleanup, BarrierOpen
  <2>2. t \in Live /\ Live' = Live \ {t}
    BY <1>1, <1>2, <1>7, <2>1 DEF StopAfterFailure, NoPhaseToRun, Cleanup,
      Live, Ended
  <2>3. (~continue_running)' \in {~continue_running, TRUE}
    BY <1>7 DEF StopAfterFailure, NoPhaseToRun, Cleanup, IInv, TypeOK
  <2>4. Launched' = Launched
    BY <1>1, <2>1 DEF BarrierOpen
  <2>5. Contract!Leave
    BY <1>2, <1>7, <2>2, <2>3, <2>4 DEF StopAfterFailure, NoPhaseToRun,
      Cleanup, Contract!Leave
  <2>6. QED
    BY <2>5 DEF Contract!ContractNext
<1>8. QED
  BY <1>4, <1>5, <1>6, <1>7 DEF WorkerStep, BetweenPhases

\* The monitor can only request a stop.
LEMMA MonitorImplements ==
  ASSUME IInv, Signal \/ MonitorStep
  PROVE  [Contract!ContractNext]_(Contract!contractVars)
<1> USE DEF mainVars, workerVars, engineVars, monitorVars
<1>1. Launched' = Launched /\ Live' = Live
  BY ViewKept DEF Signal, MonitorStep, MonitorCheck, MonitorPoll, MonitorStops
<1>2. CASE Signal \/ MonitorCheck \/ MonitorPoll
  BY <1>1, <1>2 DEF Signal, MonitorCheck, MonitorPoll, Contract!contractVars
<1>3. CASE MonitorStops
  <2>1. Contract!RequestStop
    BY <1>1, <1>3 DEF MonitorStops, Contract!RequestStop, IInv, JoinsAreEnds
  <2>2. QED
    BY <2>1 DEF Contract!ContractNext
<1>4. QED
  BY <1>2, <1>3 DEF MonitorStep

\* Every behaviour of the program is one the contract allows.
THEOREM LifecycleImplementsContract == Spec => ImplementsContract
<1>1. Init => Contract!ContractInit
  BY ContractStart
<1>2. IInv /\ [Next]_vars => [Contract!ContractNext]_(Contract!contractVars)
  <2> SUFFICES ASSUME IInv, [Next]_vars
               PROVE  [Contract!ContractNext]_(Contract!contractVars)
    OBVIOUS
  <2>1. CASE UNCHANGED vars
    BY <2>1, ViewKept DEF vars, mainVars, workerVars, engineVars,
      Contract!contractVars
  <2>2. QED
    BY <2>1, MainImplements, WorkerImplements, MonitorImplements
       DEF Next, Terminated
<1>3. QED
  BY <1>1, <1>2, InvariantHolds, PTL
     DEF Spec, ImplementsContract, Contract!ContractSpec

----------------------------------------------------------------------------
(* The engine *)

\* A step of the engine is a step of its life, or happens inside a phase.
LEMMA StepIsLifecycleStep == [EngineNext]_engineSpecVars => [Next]_vars
<1> SUFFICES ASSUME EngineNext PROVE [Next]_vars
  BY DEF engineSpecVars
<1>1. ASSUME NEW t \in Threads, EngineWorker(t) PROVE [Next]_vars
  <2>1. CASE CallRunPhase(t) \/ RunPhaseReturns(t) \/ OutsideRunPhase(t)
    BY <2>1 DEF CallRunPhase, RunPhaseReturns, OutsideRunPhase, WorkerStep,
       BetweenPhases, Next
  <2>2. CASE InsideRunPhase(t)
    BY <2>2 DEF InsideRunPhase
  <2>3. QED
    BY <1>1, <2>1, <2>2 DEF EngineWorker
<1>2. ASSUME NEW t \in Threads, WokenForNothing(t) PROVE [Next]_vars
  BY <1>2 DEF WokenForNothing
<1>3. CASE EngineMain \/ EngineMonitor \/ SpawnFails \/ Signal \/ Terminated
  BY <1>3 DEF EngineMain, EngineMonitor, Next
<1>4. QED
  BY <1>1, <1>2, <1>3 DEF EngineNext

\* The engine, with events in its phases, is a Lifecycle.
THEOREM EngineImplementsLifecycle == EngineSpec => ImplementsLifecycle
<1>1. EngineInit => Init
  BY DEF EngineInit
<1>2. QED
  BY <1>1, StepIsLifecycleStep, PTL DEF EngineSpec, ImplementsLifecycle, Spec

\* So the exit code of the whole engine is honest, no work is dropped while it
\* runs, and it does what the contract promises.
THEOREM EngineKeepsPromises ==
  EngineSpec => [](ExitCodeHonest /\ WorkNotDropped) /\ ImplementsContract
<1>1. EngineSpec => Spec
  BY EngineImplementsLifecycle DEF ImplementsLifecycle
<1>2. QED
  BY <1>1, ExitCodeIsHonest, NoWorkIsDropped, LifecycleImplementsContract, PTL

\* Outside a phase the engine may stop the run, and does nothing else to what
\* the events see.
LEMMA OutsideStepsStop ==
  ASSUME IInv, UNCHANGED eventVars,
         \/ MainStep \/ MonitorStep \/ SpawnFails \/ Signal \/ Terminated
         \/ \E t \in Threads : OutsideRunPhase(t)
  PROVE  [E!Next]_(E!vars)
<1>1. continue_running \in BOOLEAN
  BY DEF IInv, TypeOK
<1>2. continue_running' = continue_running \/ continue_running' = FALSE
  <2>1. CASE MainStep
    BY <2>1 DEF MainStep, SpawnThread, SpawnEnds, MainPasses, Poll,
       DurationElapsed, WaitEnds, Shutdown, Join, Exit, engineVars
  <2>2. CASE MonitorStep \/ SpawnFails \/ Signal \/ Terminated
    BY <2>2 DEF MonitorStep, MonitorCheck, MonitorPoll, MonitorStops, SpawnFails,
       Signal, Terminated, vars, engineVars
  <2>3. CASE \E t \in Threads : OutsideRunPhase(t)
    BY <2>3 DEF OutsideRunPhase, SetTZero, Arrive, ReadTZero, SchedApplied,
       SchedFails, StopAfterFailure, NoPhaseToRun, LeaveLoop, Cleanup, engineVars
  <2>4. QED
    BY <2>1, <2>2, <2>3
<1>3. CASE continue_running' = continue_running
  BY <1>3 DEF eventVars, E!vars, E!threadVars, E!resourceVars
<1>4. CASE continue_running = TRUE /\ continue_running' = FALSE
  <2>1. E!Stop
    BY <1>4 DEF E!Stop, eventVars, E!threadVars, E!resourceVars
  <2>2. QED
    BY <2>1 DEF E!Next
<1>5. QED
  BY <1>1, <1>2, <1>3, <1>4

\* The threads of the engine run their events as Events says, stopped by
\* whoever stops the run.
THEOREM EngineImplementsEvents == EngineSpec => ImplementsEvents
<1>1. EngineInit => E!Init
  BY DEF EngineInit
<1>2. IInv /\ [EngineNext]_engineSpecVars => [E!Next]_(E!vars)
  <2> SUFFICES ASSUME IInv, [EngineNext]_engineSpecVars PROVE [E!Next]_(E!vars)
    OBVIOUS
  <2>1. ASSUME NEW t \in Threads, EngineWorker(t) PROVE [E!Next]_(E!vars)
    <3>1. CASE CallRunPhase(t) \/ RunPhaseReturns(t) \/ InsideRunPhase(t)
      <4>1. E!ThreadStep(t)
        BY <3>1 DEF CallRunPhase, RunPhaseReturns, InsideRunPhase, E!ThreadStep
      <4>2. QED
        BY <4>1 DEF E!Next
    <3>2. CASE OutsideRunPhase(t)
      BY <3>2, OutsideStepsStop DEF OutsideRunPhase
    <3>3. QED
      BY <2>1, <3>1, <3>2 DEF EngineWorker
  <2>2. ASSUME NEW t \in Threads, WokenForNothing(t) PROVE [E!Next]_(E!vars)
    BY <2>2 DEF WokenForNothing, E!Next
  <2>3. CASE \/ EngineMain \/ EngineMonitor
             \/ (SpawnFails \/ Signal \/ Terminated) /\ UNCHANGED eventVars
    BY <2>3, OutsideStepsStop DEF EngineMain, EngineMonitor
  <2>4. CASE UNCHANGED engineSpecVars
    BY <2>4 DEF engineSpecVars, vars, engineVars, eventVars, E!vars, E!threadVars,
       E!resourceVars
  <2>5. CASE \E t \in Threads : EngineWorker(t) \/ WokenForNothing(t)
    <3>1. PICK t \in Threads : EngineWorker(t) \/ WokenForNothing(t)
      BY <2>5
    <3>2. QED
      BY <3>1, <2>1, <2>2
  <2>6. CASE EngineNext
    BY <2>3, <2>5, <2>6 DEF EngineNext
  <2>7. QED
    BY <2>4, <2>6
<1>3. EngineSpec => []IInv
  BY EngineImplementsLifecycle, InvariantHolds, PTL DEF ImplementsLifecycle
<1>4. QED
  BY <1>1, <1>2, <1>3, PTL DEF EngineSpec, ImplementsEvents, E!Spec
============================================================================
