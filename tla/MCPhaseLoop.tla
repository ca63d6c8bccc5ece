---------------------------- MODULE MCPhaseLoop ----------------------------
(* Instances of PhaseLoop for TLC: every task of up to three phases whose   *)
(* loop counts lie in a small range.                                        *)
EXTENDS WorkerLog

TaskSet(counts, loops) ==
  [phases : {<<a>> : a \in counts} \cup {<<a, b>> : a \in counts, b \in counts}
            \cup {<<a, b, c>> : a \in counts, b \in counts, c \in counts},
   loop_count : loops]

CountedTasks == TaskSet(1..3, 0..3)
EndlessTasks == TaskSet(1..2, {-1})
AllTasks     == CountedTasks \cup EndlessTasks
RunNumbers   == 1 .. MaxRuns
============================================================================
