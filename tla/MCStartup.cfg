\* Texts of up to four parts inside their braces; ten trials instead of a
\* thousand, seconds of 10 ms, integers of 12 and 16 bits, and a MB of 256 bytes.
CONSTANTS
  MaxParts = 4
  Invocations <- MCInvocations
  Machines <- MCMachines
  Online = {0, 1, 2}
  Original = {0, 1}
  Execs = {0, 1, 9999, 10000, 24001}
  Counts = {0, 1, 7, 33}
  Second = 10000
  U32 = 4096
  Usize = 65536
  MB = 256
  PerPoint = 88
  CAL_TRIALS = 10
SPECIFICATION Spec
INVARIANT OnlyMarkupStripped
INVARIANT KeysDistinct
INVARIANT KeysKeepTheirKind
INVARIANT SteadyConverges
INVARIANT WorkTakesItsTime
INVARIANT ExitTellsCause
INVARIANT WorkStartsAsAsked
PROPERTY LoadEnds
CHECK_DEADLOCK FALSE
