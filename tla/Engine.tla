------------------------------- MODULE Engine -------------------------------
(***************************************************************************)
(* The whole engine: the life of a run (Lifecycle) with the events of the  *)
(* phases (Events) inside it.  The two meet in run_phase_loop, which calls *)
(* run_phase for the phase the cursor is at and moves the cursor when      *)
(* run_phase returns, and in continue_running, which the one writes and    *)
(* both read.                                                              *)
(***************************************************************************)
EXTENDS Lifecycle

CONSTANTS Mutexes, Conds, Barriers, Total, Phases, Free

VARIABLES place, phase, next, lock_depth, owner, asleep, waiting, lost

E == INSTANCE Events

eventVars  == <<place, phase, next, lock_depth, owner, asleep, waiting, lost>>
engineSpecVars == <<vars, eventVars>>

\* The two descriptions of a task are those of the same task.
ASSUME EngineAssumption ==
  \A t \in Threads : Len(Phases[t]) = Len(Tasks[t].phases)

EngineInit == Init /\ E!Init

\* let pdata = &tdata.phases[phase_idx]; run_phase(pdata, ...)
CallRunPhase(t) ==
  /\ BeginPhase(t) /\ E!EnterPhase(t)
  /\ phase'[t] = cursor[t].phase_idx + 1

\* Mutant: the next phase is called without a look at the loop condition.
RunPhaseRepeats(t) ==
  /\ At(t, "phase") /\ E!LeavePhase(t)
  /\ cursor' = [cursor EXCEPT ![t] = Advance(Tasks[t], @)]
  /\ UNCHANGED <<mainVars, pc, t_first, arrived, t_zero, engineVars, monitorVars>>

\* Mutant: run_phase returns wherever it is.
RunPhaseReturnsMidway(t) ==
  /\ EndPhase(t)
  /\ place' = [place EXCEPT ![t] = "outside"]
  /\ UNCHANGED <<phase, next, lock_depth, owner, asleep, waiting, lost>>

\* run_phase returns, the timing point is recorded, the cursor moves.
RunPhaseReturns(t) == EndPhase(t) /\ E!LeavePhase(t)

InsideRunPhase(t) == At(t, "phase") /\ E!InPhase(t) /\ UNCHANGED vars

WokenForNothing(t) == main # "exited" /\ E!SpuriousWake(t) /\ UNCHANGED vars

\* Everything else a worker does.
OutsideRunPhase(t) ==
  /\ \/ SetTZero(t) \/ Arrive(t) \/ ReadTZero(t) \/ SchedApplied(t)
     \/ SchedFails(t) \/ StopAfterFailure(t) \/ NoPhaseToRun(t)
     \/ LeaveLoop(t) \/ Cleanup(t)
  /\ UNCHANGED eventVars

EngineWorker(t) ==
  CallRunPhase(t) \/ RunPhaseReturns(t) \/ InsideRunPhase(t) \/ OutsideRunPhase(t)

EngineMain == MainStep /\ UNCHANGED eventVars

EngineMonitor == MonitorStep /\ UNCHANGED eventVars

EngineNext ==
  \/ EngineMain \/ EngineMonitor
  \/ (SpawnFails \/ Signal \/ Terminated) /\ UNCHANGED eventVars
  \/ \E t \in Threads : EngineWorker(t) \/ WokenForNothing(t)

EngineSpec == EngineInit /\ [][EngineNext]_engineSpecVars

FairEngineSpec ==
  /\ EngineSpec
  /\ WF_engineSpecVars(EngineMain)
  /\ WF_engineSpecVars(EngineMonitor)
  /\ \A t \in Threads : WF_engineSpecVars(EngineWorker(t))

----------------------------------------------------------------------------
(* Properties *)

\* The engine is a Lifecycle, with all that is known of it, and the events of
\* its threads behave as Events says.
ImplementsLifecycle == Spec

ImplementsEvents == E!Spec

\* A thread that nobody but another thread, or no one at all, can move on.
Held(t) == place[t] = "asleep" \/ E!Stuck(t)

\* A signal or a failed thread ends the process, through the monitor, the
\* threads' own two looks at continue_running, and the joins of shutdown; the
\* only thing that keeps it alive is a thread that stays asleep, or that waits
\* for a mutex for ever.
StopEndsUnlessHeld ==
  requested \/ thread_failed ~> main = "exited" \/ \E t \in Threads : [](Held(t))
=============================================================================
