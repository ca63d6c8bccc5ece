\* Policies, priorities, clamps and deadlines of a task, by all of their keys,
\* with phases that state their own.
CONSTANTS
  TaskObjects <- TaskObjectsAll
  PhaseObjects <- PhaseSome
  DefaultPolicy = "SCHED_OTHER"
  LockPages = TRUE
  Width = 4096
  MaxPhases = 1
SPECIFICATION SchedSpec
INVARIANT InForce
CHECK_DEADLOCK FALSE
