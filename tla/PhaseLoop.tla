----------------------------- MODULE PhaseLoop -----------------------------
(***************************************************************************)
(* run_phase_loop of engine/mod.rs for one worker: which phases a thread   *)
(* runs, how often and in which order, until its loops are done or the run *)
(* is stopped.  It EXTENDS the cursor of PhaseCursor and adds what a log   *)
(* of the run would show: how often each phase has been run.               *)
(***************************************************************************)
EXTENDS PhaseCursor

CONSTANTS
  Tasks,    \* the tasks a thread may be given
  MaxRuns   \* bound: phases run before the run is certainly stopped

ASSUME PhaseLoopAssumption ==
  /\ Tasks \subseteq {task \in Task : task.phases # <<>>}
  /\ MaxRuns \in Nat

VARIABLES
  task,             \* tdata
  cursor,           \* phase_idx, phase_loop and thread_loop
  continue_running, \* EngineState::continue_running
  left,             \* run_phase_loop has returned
  runs,             \* how often each phase has been run
  total             \* the sum of runs

vars == <<task, cursor, continue_running, left, runs, total>>

Phases == DOMAIN task.phases

Init ==
  /\ task \in Tasks
  /\ cursor = CursorStart
  /\ continue_running = TRUE
  /\ left = FALSE
  /\ runs = [p \in Phases |-> 0]
  /\ total = 0

\* One turn of the loop.
RunPhase ==
  /\ ~left /\ total < MaxRuns
  /\ continue_running /\ ~LoopsDone(task, cursor)
  /\ runs' = [runs EXCEPT ![cursor.phase_idx + 1] = @ + 1]
  /\ total' = total + 1
  /\ cursor' = Advance(task, cursor)
  /\ UNCHANGED <<task, continue_running, left>>

Leave ==
  /\ ~left
  /\ ~continue_running \/ LoopsDone(task, cursor)
  /\ left' = TRUE
  /\ UNCHANGED <<task, cursor, continue_running, runs, total>>

\* Any other thread: main, the monitor, or a worker that failed.
Stop ==
  /\ continue_running' = FALSE
  /\ UNCHANGED <<task, cursor, left, runs, total>>

Next == RunPhase \/ Leave \/ Stop

Spec == Init /\ [][Next]_vars

FairSpec == Spec /\ WF_vars(RunPhase \/ Leave)

----------------------------------------------------------------------------
(* Properties *)

TypeOK ==
  /\ task \in Tasks
  /\ cursor \in Cursor
  /\ cursor.phase_idx < Len(task.phases)
  /\ continue_running \in BOOLEAN /\ left \in BOOLEAN
  /\ runs \in [Phases -> Nat] /\ total \in 0..MaxRuns

\* The tasks whose loops are all counted: every phase is run at least once.
Counted ==
  /\ task.loop_count >= 0
  /\ \A p \in Phases : task.phases[p] > 0

\* The runs of a counted task are where its position says they are: every
\* phase before the current one has been run once more round than those
\* after it, and the current one as far as phase_loop says.
RunsMatchPosition ==
  Counted =>
    \A p \in Phases :
      runs[p] = cursor.thread_loop * task.phases[p]
                + IF p <= cursor.phase_idx THEN task.phases[p]
                  ELSE IF p = cursor.phase_idx + 1 THEN cursor.phase_loop
                  ELSE 0

\* A counted task that nobody stops runs each phase exactly as often as its
\* configuration says: loop_count of the task times that of the phase.
RunsAsConfigured ==
  Counted /\ left /\ continue_running =>
    \A p \in Phases : runs[p] = task.loop_count * task.phases[p]

\* Why the two invariants above are inductive: a counted task stays inside
\* its loops, so its counters never overflow.
InsideLoops ==
  Counted =>
    /\ cursor.thread_loop \in 0..task.loop_count
    /\ cursor.phase_loop \in 0..(task.phases[cursor.phase_idx + 1] - 1)
    /\ LoopsDone(task, cursor) => cursor.phase_idx = 0 /\ cursor.phase_loop = 0

\* A thread loop counter never shows a negative number.
ThreadLoopNat == cursor.thread_loop >= 0

LeftForAReason == left => ~continue_running \/ LoopsDone(task, cursor)

IInv ==
  /\ TypeOK
  /\ InsideLoops
  /\ RunsMatchPosition
  /\ ThreadLoopNat
  /\ LeftForAReason

\* A thread told to loop forever (loop_count -1, its phases counted) leaves
\* only because the run is stopped, however long it runs: its loop counter
\* overflows without ever becoming -1.
EndlessThreadStays ==
  /\ task.loop_count = -1
  /\ \A p \in Phases : task.phases[p] > 0
  => (left => ~continue_running)

============================================================================
