\* Every task of up to three phases and small counts, and every endless one run
\* past the overflow of its loop counter, stopped at any point; a log of three
\* slots, which wraps at each of them.
CONSTANTS
  MaxInt = 3
  MaxRuns = 60
  Tasks <- AllTasks
  Capacity = 3
  Points <- RunNumbers
  Default = 0
SPECIFICATION WorkerSpec
INVARIANT RunsAsConfigured
INVARIANT EndlessThreadStays
INVARIANT LogShowsLastRuns
PROPERTY CountedTaskEnds
PROPERTY ImplementsLog
