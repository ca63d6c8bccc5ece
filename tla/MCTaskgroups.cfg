\* Three nested taskgroups, a thread and another process.
CONSTANTS
  Names <- Nested
  Paths <- AllPaths
  Preexisting <- OnlyA
  EnvPaths <- Others
  Threads = {"t1"}
  MAX_TASKGROUPS = 3
SPECIFICATION Spec
INVARIANT PreexistingKept
INVARIANT CleansUp
CHECK_DEADLOCK FALSE
