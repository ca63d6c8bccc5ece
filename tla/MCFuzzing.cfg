\* Two iterations; workloads of up to two threads with two phases of up to two
\* events each, two mutexes, one barrier and one timer; a timeout of three or
\* four polls.
CONSTANTS
  NoCode = NoCode
  min_time_diff = 1
  Iterations = 2
  Durations = {1, 2}
  ExitCodes = {0, 1}
  MinTimeout = 3
  max_threads = 2
  max_instances = 1
  max_phases = 2
  max_events = 2
  max_duration_secs = 2
  max_run_us = 1
  max_timer_period_us = 3
  max_loop_count = 1
  mutex_end = 3
  barrier_end = 2
  timer_end = 2
  min_run_us = 1
  period_margin = 1
SPECIFICATION FuzzingSpec
INVARIANT LocksArePaired
INVARIANT PeriodCoversRuns
INVARIANT NoChildLeft
INVARIANT SuccessNeedsBoth
INVARIANT ExitTellsDivergence
PROPERTY FuzzerEnds
