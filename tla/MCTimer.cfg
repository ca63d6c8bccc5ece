\* Two threads with different delays and periods on one timer, and one whose
\* timer is unique.
CONSTANTS
  Users = {"t1", "t2", "t3"}
  Unique = {"t3"}
  FirstUse <- FirstAtTwo
  Periods = {0, 1, 3}
  Relative = FALSE
  Horizon = 4
SPECIFICATION TimerSpec
INVARIANT LatencyNotOver
PROPERTY NextNeverBack
CHECK_DEADLOCK FALSE
