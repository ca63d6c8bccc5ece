\* No duration: a thread that sleeps and one that never ends, until a signal
\* or a failure stops them.
CONSTANTS
  MaxInt = 3
  NumThreads = 2
  Duration <- NoDuration
  Tasks <- TasksSleep
  Mutexes = {"m"}
  Conds = {"task"}
  Barriers = {"b"}
  Total <- TotalOne
  Phases <- PhasesSleep
  Free = Free
SPECIFICATION FairEngineSpec
PROPERTY ImplementsLifecycle
PROPERTY ImplementsEvents
PROPERTY StopEndsUnlessHeld
