----------------------------- MODULE Comparator ----------------------------
(***************************************************************************)
(* What the differential fuzzer makes of two runs: RunResult of            *)
(* bug_finding/src/runner.rs and compare of comparator.rs.  Output is left *)
(* out, since compare does not look at it.                                 *)
(***************************************************************************)
EXTENDS Integers

CONSTANTS
  NoCode,        \* exit_code None: killed by a signal, timed out, not started
  min_time_diff  \* ComparatorConfig: shorter differences are noise

ASSUME ComparatorAssumption == NoCode \notin Int /\ min_time_diff \in Nat

RunResult ==
  [available : BOOLEAN, exit_code : Int \cup {NoCode}, timed_out : BOOLEAN,
   wall_time : Nat]

unavailable ==
  [available |-> FALSE, exit_code |-> NoCode, timed_out |-> FALSE, wall_time |-> 0]

from_output(code, wall_time) ==
  [available |-> TRUE, exit_code |-> code, timed_out |-> FALSE,
   wall_time |-> wall_time]

timed_out(wall_time) ==
  [available |-> TRUE, exit_code |-> NoCode, timed_out |-> TRUE,
   wall_time |-> wall_time]

succeeded(r) == r.available /\ r.exit_code = 0 /\ ~r.timed_out
failed(r)    == r.available /\ (r.exit_code # 0 \/ r.timed_out)

TimeoutMismatch(c, rs) == c.timed_out # rs.timed_out

SuccessFailureMismatch(c, rs) == succeeded(c) # succeeded(rs)

\* A run without an exit code is not compared.
ExitCodeMismatch(c, rs) ==
  /\ c.exit_code # NoCode /\ rs.exit_code # NoCode
  /\ c.exit_code # rs.exit_code

\* The ratio is more than 1.5, and neither of the times is 0.
WallTimeMismatch(c, rs) ==
  LET shorter == IF c.wall_time < rs.wall_time THEN c.wall_time ELSE rs.wall_time
      longer  == IF c.wall_time < rs.wall_time THEN rs.wall_time ELSE c.wall_time
  IN  /\ longer - shorter >= min_time_diff
      /\ shorter > 0
      /\ 2 * longer > 3 * shorter

Divergences(c, rs) ==
  IF c.timed_out \/ rs.timed_out
  THEN {d \in {"timeout"} : TimeoutMismatch(c, rs)}
  ELSE {d \in {"success"} : SuccessFailureMismatch(c, rs)}
       \cup {d \in {"exit_code"} : ExitCodeMismatch(c, rs)}
       \cup {d \in {"wall_time"} : /\ succeeded(c) /\ succeeded(rs)
                                   /\ WallTimeMismatch(c, rs)}

\* Mutant: only the exit codes are compared.
compare_codes(c, rs) ==
  IF ~c.available THEN "CNotAvailable"
  ELSE IF ExitCodeMismatch(c, rs) \/ TimeoutMismatch(c, rs) THEN "Divergent"
  ELSE "Consistent"

compare(c, rs) ==
  IF ~c.available THEN "CNotAvailable"
  ELSE IF Divergences(c, rs) = {} THEN "Consistent"
  ELSE "Divergent"
============================================================================
