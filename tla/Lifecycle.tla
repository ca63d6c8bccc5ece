----------------------------- MODULE Lifecycle -----------------------------
(***************************************************************************)
(* The life of one run of the program after its configuration has been     *)
(* read: the main thread (main.rs) creates the worker threads, meets them  *)
(* at the startup barrier, waits for the duration or for a stop, and joins *)
(* them; each worker (thread_body and run_phase_loop of engine/mod.rs)     *)
(* starts, applies its scheduling parameters and runs its phases; the      *)
(* monitor thread turns a signal into a stop.                              *)
(*                                                                         *)
(* They share continue_running, thread_failed, running_threads and         *)
(* t_zero_ns of EngineState, and the static SHUTDOWN_REQUESTED.  One       *)
(* action reads or writes shared state at most once, except where a single *)
(* critical section or barrier operation does more.  What happens inside a *)
(* phase is left to module Events; here a phase begins and later ends.     *)
(***************************************************************************)
EXTENDS PhaseCursor

CONSTANTS
  NumThreads, \* total_threads: the instances of all the tasks
  Duration,   \* opts.duration in polls of 100 ms, or NoDuration
  Tasks       \* the task each thread runs

NoDuration == -1

Threads == 0 .. NumThreads - 1

ASSUME LifecycleAssumption ==
  /\ NumThreads \in Nat
  /\ Duration \in Nat \cup {NoDuration}
  /\ Tasks \in [Threads -> Task]

VARIABLES
  main,             \* where the main thread is
  spawned,          \* thread_idx of spawn_threads: the threads created so far
  elapsed,          \* polls made by wait_for_completion
  joined,           \* the handles shutdown has joined, in order
  exit_code,        \* of the process; -1 while it runs
  pc,               \* where each worker is
  cursor,           \* each worker's position in its phases
  t_first,          \* what each worker read from t_zero_ns
  arrived,          \* who has called startup_barrier.wait()
  t_zero,           \* EngineState::t_zero_ns
  continue_running, \* EngineState::continue_running
  thread_failed,    \* EngineState::thread_failed
  running_threads,  \* EngineState::running_threads
  requested,        \* SHUTDOWN_REQUESTED
  monitor           \* where the monitor thread is

mainVars    == <<main, spawned, elapsed, joined, exit_code>>
workerVars  == <<pc, cursor, t_first, arrived, t_zero>>
engineVars  == <<continue_running, thread_failed, running_threads>>
monitorVars == <<requested, monitor>>
vars == <<mainVars, workerVars, engineVars, monitorVars>>

\* The main thread takes part in the startup barrier.
Main == -1
Parties == Threads \cup {Main}

\* Barrier::new(total_threads + 1) lets everyone pass once they have all come.
BarrierOpen == arrived = Parties

Ended == {"done", "failed", "panicked"}

Init ==
  /\ main = "spawn" /\ spawned = 0 /\ elapsed = 0 /\ joined = 0
  /\ exit_code = -1
  /\ pc = [t \in Threads |-> "none"]
  /\ cursor = [t \in Threads |-> CursorStart]
  /\ t_first = [t \in Threads |-> "unread"]
  /\ arrived = {} /\ t_zero = "none"
  /\ continue_running = TRUE /\ thread_failed = FALSE
  /\ running_threads = 0
  /\ requested = FALSE /\ monitor = "check"

----------------------------------------------------------------------------
(* The main thread *)

SpawnThread ==
  /\ main = "spawn" /\ spawned < NumThreads
  /\ pc' = [pc EXCEPT ![spawned] = "start"]
  /\ spawned' = spawned + 1
  /\ UNCHANGED <<main, elapsed, joined, exit_code, cursor, t_first, arrived,
                 t_zero, engineVars, monitorVars>>

\* create_thread fails; run() returns the error and the process exits, with
\* the threads created so far still in the startup barrier.
SpawnFails ==
  /\ main = "spawn" /\ spawned < NumThreads
  /\ main' = "exited" /\ exit_code' = 1
  /\ UNCHANGED <<spawned, elapsed, joined, workerVars, engineVars, monitorVars>>

\* With no thread to run, spawn_threads returns before it makes a barrier;
\* otherwise the main thread goes to the barrier like the others.
SpawnEnds ==
  /\ main = "spawn" /\ spawned = NumThreads
  /\ main' = IF NumThreads = 0 THEN "wait" ELSE "barrier"
  /\ arrived' = IF NumThreads = 0 THEN arrived ELSE arrived \cup {Main}
  /\ UNCHANGED <<spawned, elapsed, joined, exit_code, pc, cursor, t_first,
                 t_zero, engineVars, monitorVars>>

\* "all threads started": the number of threads is published, once.
MainPasses ==
  /\ main = "barrier" /\ BarrierOpen
  /\ running_threads' = NumThreads
  /\ main' = "wait"
  /\ UNCHANGED <<spawned, elapsed, joined, exit_code, workerVars,
                 continue_running, thread_failed, monitorVars>>

\* One turn of either polling loop of wait_for_completion.
Poll ==
  /\ main = "wait" /\ continue_running
  /\ \/ Duration # NoDuration /\ elapsed < Duration /\ elapsed' = elapsed + 1
     \/ Duration = NoDuration /\ running_threads > 0 /\ UNCHANGED elapsed
  /\ UNCHANGED <<main, spawned, joined, exit_code, workerVars, engineVars,
                 monitorVars>>

\* Mutant: the duration must be exceeded.
DurationExceeded ==
  /\ main = "wait" /\ Duration # NoDuration /\ elapsed > Duration
  /\ continue_running' = FALSE
  /\ main' = "shutdown"
  /\ UNCHANGED <<spawned, elapsed, joined, exit_code, workerVars,
                 thread_failed, running_threads, monitorVars>>

DurationElapsed ==
  /\ main = "wait" /\ Duration # NoDuration /\ elapsed >= Duration
  /\ continue_running' = FALSE
  /\ main' = "shutdown"
  /\ UNCHANGED <<spawned, elapsed, joined, exit_code, workerVars,
                 thread_failed, running_threads, monitorVars>>

\* The polling loop ends before the duration does, or there is no duration.
WaitEnds ==
  /\ main = "wait"
  /\ IF Duration = NoDuration THEN continue_running => running_threads <= 0
                              ELSE ~continue_running /\ elapsed < Duration
  /\ main' = "shutdown"
  /\ UNCHANGED <<spawned, elapsed, joined, exit_code, workerVars, engineVars,
                 monitorVars>>

Shutdown ==
  /\ main = "shutdown"
  /\ continue_running' = FALSE
  /\ main' = "join"
  /\ UNCHANGED <<spawned, elapsed, joined, exit_code, workerVars,
                 thread_failed, running_threads, monitorVars>>

\* Mutant: a handle is dropped instead of joined.
JoinDetaches ==
  /\ main = "join" /\ joined < NumThreads
  /\ joined' = joined + 1
  /\ UNCHANGED <<main, spawned, elapsed, exit_code, workerVars, engineVars,
                 monitorVars>>

\* A panic of the thread is logged and otherwise ignored.
Join ==
  /\ main = "join" /\ joined < NumThreads
  /\ pc[joined] \in Ended
  /\ joined' = joined + 1
  /\ UNCHANGED <<main, spawned, elapsed, exit_code, workerVars, engineVars,
                 monitorVars>>

\* Mutant: thread_failed is not consulted.
ExitAlwaysZero ==
  /\ main = "join" /\ joined = NumThreads
  /\ main' = "exited"
  /\ exit_code' = 0
  /\ UNCHANGED <<spawned, elapsed, joined, workerVars, engineVars, monitorVars>>

Exit ==
  /\ main = "join" /\ joined = NumThreads
  /\ main' = "exited"
  /\ exit_code' = IF thread_failed THEN 1 ELSE 0
  /\ UNCHANGED <<spawned, elapsed, joined, workerVars, engineVars, monitorVars>>

MainStep ==
  \/ SpawnThread \/ SpawnEnds \/ MainPasses
  \/ Poll \/ DurationElapsed \/ WaitEnds \/ Shutdown \/ Join \/ Exit

----------------------------------------------------------------------------
(* A worker thread.  The threads die with the process. *)

At(t, where) == main # "exited" /\ pc[t] = where

Goto(t, where) == pc' = [pc EXCEPT ![t] = where]

\* Thread 0 sets the time reference before it can meet the others.
SetTZero(t) ==
  /\ At(t, "start") /\ t = 0 /\ t_zero = "none"
  /\ t_zero' = "now"
  /\ UNCHANGED <<mainVars, pc, cursor, t_first, arrived, engineVars, monitorVars>>

\* Mutant: thread 0 may arrive before it has set the time reference.
ArriveUnset(t) ==
  /\ At(t, "start")
  /\ arrived' = arrived \cup {t}
  /\ Goto(t, "barrier")
  /\ UNCHANGED <<mainVars, cursor, t_first, t_zero, engineVars, monitorVars>>

Arrive(t) ==
  /\ At(t, "start") /\ (t = 0 => t_zero = "now")
  /\ arrived' = arrived \cup {t}
  /\ Goto(t, "barrier")
  /\ UNCHANGED <<mainVars, cursor, t_first, t_zero, engineVars, monitorVars>>

\* t_zero_ns.lock().unwrap().unwrap_or(0)
ReadTZero(t) ==
  /\ At(t, "barrier") /\ BarrierOpen
  /\ t_first' = [t_first EXCEPT ![t] = IF t_zero = "none" THEN "zero" ELSE "t_zero"]
  /\ Goto(t, "sched")
  /\ UNCHANGED <<mainVars, cursor, arrived, t_zero, engineVars, monitorVars>>

\* The initial delay, then apply_initial_scheduling succeeds.
SchedApplied(t) ==
  /\ At(t, "sched")
  /\ Goto(t, "loop")
  /\ UNCHANGED <<mainVars, cursor, t_first, arrived, t_zero, engineVars, monitorVars>>

\* Mutant: the others are stopped before the failure is recorded.
SchedFailsUnrecorded(t) ==
  /\ At(t, "sched")
  /\ continue_running' = FALSE
  /\ Goto(t, "abort")
  /\ UNCHANGED <<mainVars, cursor, t_first, arrived, t_zero, thread_failed,
                 running_threads, monitorVars>>

\* ... or fails: the failure is recorded first,
SchedFails(t) ==
  /\ At(t, "sched")
  /\ thread_failed' = TRUE
  /\ Goto(t, "abort")
  /\ UNCHANGED <<mainVars, cursor, t_first, arrived, t_zero, continue_running,
                 running_threads, monitorVars>>

\* then everybody is told to stop, and the thread returns.
StopAfterFailure(t) ==
  /\ At(t, "abort")
  /\ continue_running' = FALSE
  /\ Goto(t, "failed")
  /\ UNCHANGED <<mainVars, cursor, t_first, arrived, t_zero, thread_failed,
                 running_threads, monitorVars>>

BeginPhase(t) ==
  /\ At(t, "loop")
  /\ continue_running /\ ~LoopsDone(Tasks[t], cursor[t])
  /\ Tasks[t].phases # <<>>
  /\ Goto(t, "phase")
  /\ UNCHANGED <<mainVars, cursor, t_first, arrived, t_zero, engineVars, monitorVars>>

\* Indexing an empty list of phases panics.
NoPhaseToRun(t) ==
  /\ At(t, "loop")
  /\ continue_running /\ ~LoopsDone(Tasks[t], cursor[t])
  /\ Tasks[t].phases = <<>>
  /\ Goto(t, "panicked")
  /\ UNCHANGED <<mainVars, cursor, t_first, arrived, t_zero, engineVars, monitorVars>>

\* run_phase has returned, at its end or early; the cursor moves either way.
EndPhase(t) ==
  /\ At(t, "phase")
  /\ cursor' = [cursor EXCEPT ![t] = Advance(Tasks[t], @)]
  /\ Goto(t, "loop")
  /\ UNCHANGED <<mainVars, t_first, arrived, t_zero, engineVars, monitorVars>>

LeaveLoop(t) ==
  /\ At(t, "loop")
  /\ ~continue_running \/ LoopsDone(Tasks[t], cursor[t])
  /\ Goto(t, "cleanup")
  /\ UNCHANGED <<mainVars, cursor, t_first, arrived, t_zero, engineVars, monitorVars>>

\* SCHED_OTHER again, the log flushed, and the thread returns.
Cleanup(t) ==
  /\ At(t, "cleanup")
  /\ Goto(t, "done")
  /\ UNCHANGED <<mainVars, cursor, t_first, arrived, t_zero, engineVars, monitorVars>>

\* Everything but the return of run_phase.
BetweenPhases(t) ==
  \/ SetTZero(t) \/ Arrive(t) \/ ReadTZero(t)
  \/ SchedApplied(t) \/ SchedFails(t) \/ StopAfterFailure(t)
  \/ BeginPhase(t) \/ NoPhaseToRun(t) \/ LeaveLoop(t) \/ Cleanup(t)

WorkerStep(t) == BetweenPhases(t) \/ EndPhase(t)

----------------------------------------------------------------------------
(* The signal handler and the monitor thread *)

Signal ==
  /\ main # "exited" /\ ~requested
  /\ requested' = TRUE
  /\ UNCHANGED <<mainVars, workerVars, engineVars, monitor>>

MonitorCheck ==
  /\ main # "exited" /\ monitor = "check"
  /\ monitor' = IF continue_running THEN "poll" ELSE "exited"
  /\ UNCHANGED <<mainVars, workerVars, engineVars, requested>>

MonitorPoll ==
  /\ main # "exited" /\ monitor = "poll"
  /\ monitor' = IF requested THEN "stop" ELSE "check"
  /\ UNCHANGED <<mainVars, workerVars, engineVars, requested>>

MonitorStops ==
  /\ main # "exited" /\ monitor = "stop"
  /\ continue_running' = FALSE
  /\ monitor' = "exited"
  /\ UNCHANGED <<mainVars, workerVars, thread_failed, running_threads, requested>>

MonitorStep == MonitorCheck \/ MonitorPoll \/ MonitorStops

----------------------------------------------------------------------------

\* The process is gone: nothing moves.
Terminated == main = "exited" /\ UNCHANGED vars

Next ==
  \/ MainStep \/ SpawnFails
  \/ \E t \in Threads : WorkerStep(t)
  \/ Signal \/ MonitorStep
  \/ Terminated

Spec == Init /\ [][Next]_vars

\* The kernel runs every thread that can run; nothing obliges a signal to
\* come or a system call to fail, nor run_phase to return: it may sleep in a
\* condition variable or a barrier, or block, for ever.
Fairness ==
  /\ WF_vars(MainStep)
  /\ WF_vars(MonitorStep)
  /\ \A t \in Threads : WF_vars(BetweenPhases(t))

FairSpec == Spec /\ Fairness

----------------------------------------------------------------------------
(* Properties *)

Places == {"none", "start", "barrier", "sched", "abort", "loop", "phase",
           "cleanup"} \cup Ended

\* The variables hold what their types in the source allow.
TypeOK ==
  /\ main \in {"spawn", "barrier", "wait", "shutdown", "join", "exited"}
  /\ spawned \in 0..NumThreads /\ joined \in 0..NumThreads
  /\ elapsed \in Nat
  /\ exit_code \in {-1, 0, 1}
  /\ pc \in [Threads -> Places]
  /\ cursor \in [Threads -> Cursor]
  /\ t_first \in [Threads -> {"unread", "zero", "t_zero"}]
  /\ arrived \subseteq Parties
  /\ t_zero \in {"none", "now"}
  /\ continue_running \in BOOLEAN /\ thread_failed \in BOOLEAN
  /\ running_threads \in 0..NumThreads
  /\ requested \in BOOLEAN
  /\ monitor \in {"check", "poll", "stop", "exited"}

\* Every worker starts from the time reference thread 0 took: none of them
\* falls back to the 0 of t_zero_ns.unwrap_or(0).
TimeReferenceShared == \A t \in Threads : t_first[t] # "zero"

\* A position in the phases never leaves the list of phases, so indexing
\* tdata.phases can only fail on a task that has no phase at all.
CursorInRange ==
  \A t \in Threads :
    /\ Tasks[t].phases # <<>> => cursor[t].phase_idx < Len(Tasks[t].phases)
    /\ pc[t] = "phase" => Tasks[t].phases # <<>>

\* The run is stopped for one of four reasons only: a signal, a thread that
\* has already recorded its failure, the end of the duration, or a run that
\* has no thread and no duration.
StopHasCause ==
  ~continue_running =>
    \/ requested
    \/ thread_failed
    \/ Duration # NoDuration /\ elapsed >= Duration
    \/ Duration = NoDuration /\ NumThreads = 0

\* A worker that has left its loop while the run goes on has run all of it.
WorkNotDropped ==
  continue_running =>
    \A t \in Threads :
      pc[t] \in {"cleanup", "done"} => LoopsDone(Tasks[t], cursor[t])

\* The exit code: 0 means that every worker was created, has ended and did
\* not fail to set its scheduling; 1 that one could not be created or failed.
ExitCodeHonest ==
  /\ exit_code = 0 => /\ spawned = NumThreads
                      /\ \A t \in Threads : pc[t] \in {"done", "panicked"}
  /\ exit_code = 1 => \/ spawned < NumThreads
                      \/ \E t \in Threads : pc[t] = "failed"

\* What is published to the others: main never waits for completion before
\* all the workers have started.
StartedBeforeWait ==
  main \in {"wait", "shutdown", "join"} =>
    /\ running_threads = NumThreads
    /\ \A t \in Threads : pc[t] \notin {"none", "start"}

\* The inductive invariant behind the properties above.
CreatedInOrder ==
  \A t \in Threads : pc[t] = "none" <=> t >= spawned

ArrivalsRecorded ==
  /\ \A t \in Threads : t \in arrived <=> pc[t] \notin {"none", "start"}
  /\ Main \in arrived => spawned = NumThreads
  /\ main \in {"barrier", "wait", "shutdown", "join"} /\ NumThreads > 0 =>
       Main \in arrived
  /\ main = "spawn" => Main \notin arrived
  /\ 0 \in arrived => t_zero = "now"

PastBarrier ==
  /\ \A t \in Threads :
       pc[t] \notin {"none", "start", "barrier"} => BarrierOpen
  /\ main \in {"wait", "shutdown", "join"} =>
       /\ NumThreads > 0 => BarrierOpen
       /\ running_threads = NumThreads
       /\ spawned = NumThreads

StopsExplained ==
  /\ StopHasCause
  /\ monitor = "stop" => requested
  /\ main = "shutdown" => \/ ~continue_running
                          \/ Duration = NoDuration /\ NumThreads = 0
  /\ main = "join" => ~continue_running

FailuresRecorded ==
  /\ thread_failed <=> \E t \in Threads : pc[t] \in {"abort", "failed"}
  /\ \A t \in Threads : pc[t] = "failed" => ~continue_running

JoinsAreEnds ==
  /\ \A t \in Threads : t < joined => pc[t] \in Ended
  /\ main # "exited" <=> exit_code = -1
  /\ exit_code = 0 => /\ joined = NumThreads /\ spawned = NumThreads
                      /\ ~thread_failed
  /\ exit_code = 1 => \/ spawned < NumThreads
                      \/ joined = NumThreads /\ thread_failed

IInv ==
  /\ TypeOK
  /\ TimeReferenceShared
  /\ CursorInRange
  /\ CreatedInOrder
  /\ ArrivalsRecorded
  /\ PastBarrier
  /\ StopsExplained
  /\ FailuresRecorded
  /\ JoinsAreEnds
  /\ WorkNotDropped

\* Lifecycle implements the contract: the threads are launched when the last
\* party reaches the startup barrier.
Launched ==
  IF NumThreads = 0 THEN main # "spawn" ELSE BarrierOpen

Live == IF Launched THEN {t \in Threads : pc[t] \notin Ended} ELSE {}

Contract == INSTANCE AppContract WITH
  launched <- Launched, live <- Live, stop <- ~continue_running,
  failed <- thread_failed

ImplementsContract == Contract!ContractSpec

\* With a duration the process ends, whatever else its threads do, panics and
\* failures included, unless one of them never comes back from a phase.
\* Engine!StopEndsUnlessHeld says what may keep it there.
DurationEnds ==
  Duration # NoDuration =>
    <>(main = "exited" \/ \E t \in Threads : [](pc[t] = "phase"))
============================================================================
