\* A duration of two polls and three threads: one that ends, one that does not,
\* one that panics.
CONSTANTS
  NumThreads = 3
  Duration = 2
  MaxInt = 3
  Tasks <- TasksMixed
SPECIFICATION FairSpec
INVARIANT TimeReferenceShared
INVARIANT StopHasCause
INVARIANT ExitCodeHonest
PROPERTY ImplementsContract
PROPERTY DurationEnds
