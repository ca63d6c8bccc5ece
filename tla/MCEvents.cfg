\* Three threads that suspend, resume, sync, wait, lock and meet at a barrier,
\* stopped at any point, under fairness.
CONSTANTS
  Threads = {"t1", "t2", "t3"}
  Mutexes = {"m", "n"}
  Conds = {"task", "c"}
  Barriers = {"b"}
  Total <- TotalTwo
  Phases <- PhasesMixed
  Free = Free
SPECIFICATION FairSpec
INVARIANT BarrierAccounting
PROPERTY ResumeMissesNobody
PROPERTY StopCutsShort
PROPERTY StopReachesAwake
CHECK_DEADLOCK FALSE
