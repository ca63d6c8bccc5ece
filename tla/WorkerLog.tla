----------------------------- MODULE WorkerLog -----------------------------
(***************************************************************************)
(* One worker with its log: thread_body of engine/mod.rs creates the       *)
(* buffer, run_phase_loop pushes a timing point after every phase, and     *)
(* when the loop is left the buffer is flushed.  The steps of PhaseLoop    *)
(* and of TimingBuffer are taken together; a timing point is the number of *)
(* the run it was taken from, which its start time tells apart.            *)
(***************************************************************************)
EXTENDS PhaseLoop, TimingBuffer

ASSUME WorkerLogAssumption == 1 .. MaxRuns \subseteq Points

workerVars == <<vars, bufferVars>>

WorkerInit == Init /\ BufferInit

\* timings is None when the capacity is 0: the point is dropped.
RunAndLog ==
  /\ RunPhase
  /\ IF Capacity = 0 THEN UNCHANGED bufferVars ELSE Push(total')

LeaveLoop == Leave /\ UNCHANGED bufferVars

FlushAfterLoop == left /\ Flush /\ UNCHANGED vars

StopRun == Stop /\ UNCHANGED bufferVars

WorkerNext == RunAndLog \/ LeaveLoop \/ FlushAfterLoop \/ StopRun

WorkerSpec ==
  /\ WorkerInit /\ [][WorkerNext]_workerVars
  /\ WF_workerVars(RunAndLog \/ LeaveLoop \/ FlushAfterLoop)

----------------------------------------------------------------------------
(* Properties *)

\* The log a thread writes is the runs it made last, each once, in the order
\* it made them, as many as the buffer holds: no run is missing between two
\* that are shown, and none that was overwritten is shown.
LogShowsLastRuns ==
  /\ len = IF total < Capacity THEN total ELSE Capacity
  /\ \A i \in 1..len : iter_chronological[i] = total - len + i

\* A counted task ends with its log flushed.
CountedTaskEnds == Counted ~> left /\ closed
============================================================================
