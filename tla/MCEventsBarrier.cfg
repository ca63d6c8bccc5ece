\* Two users of one barrier.
CONSTANTS
  Threads = {"t1", "t2"}
  Mutexes = {"m"}
  Conds = {"task", "c"}
  Barriers = {"b"}
  Total <- TotalTwo
  Phases <- PhasesBarrier
  Free = Free
SPECIFICATION Spec
INVARIANT LastUserBroadcasts
CHECK_DEADLOCK FALSE
