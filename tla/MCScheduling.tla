---------------------------- MODULE MCScheduling ----------------------------
(* Instances of Scheduling for TLC. *)
EXTENDS Scheduling

Object(policy, ints) == [policy |-> policy, ints |-> ints]

\* Every way to fill in some of these keys.
Fillings(keys, values) == UNION {[K -> values] : K \in SUBSET keys}

\* Every policy with priorities at the ends of each range, and the clamps, one
\* of them out of range and one that wraps.
Priorities ==
  {Object(policy, ints) :
     policy \in Policies \cup {"none", "SCHED_BATCH"},
     ints \in Fillings({"priority"}, {-21, -20, 0, 19, 20, 99, 100, 2047, 4097})}
Clamps ==
  {Object(policy, ints) :
     policy \in Policies,
     ints \in Fillings({"util_min", "util_max", "priority"}, {-2, -1, 5, 1024, 1025, 4097})}

\* Every way to give a runtime, a period and a deadline, by either key.
Deadlines == {Object("SCHED_DEADLINE", ints) : ints \in Fillings(Durations, 0..3)}

\* The phases: nothing stated, a policy, a priority, a clamp.
PhaseSome == {Object("none", ints) : ints \in Fillings({"priority", "util_min"}, {7})}
               \cup {Object("SCHED_FIFO", <<>>), Object("SCHED_BATCH", <<>>)}

TaskObjectsAll == Priorities \cup Clamps \cup Deadlines
============================================================================
