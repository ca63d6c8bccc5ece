\* One thread, one phase of up to three events, up to two mutexes and a timer.
CONSTANTS
  max_threads = 1
  max_instances = 1
  max_phases = 1
  max_events = 3
  max_duration_secs = 1
  max_run_us = 1
  max_timer_period_us = 3
  max_loop_count = 1
  mutex_end = 3
  barrier_end = 1
  timer_end = 2
  min_run_us = 1
  period_margin = 1
SPECIFICATION GenSpec
INVARIANT TimerAtEnd
\* The generator stops when the workload is complete.
CHECK_DEADLOCK FALSE
