----------------------------- MODULE MCEngine ------------------------------
(***************************************************************************)
(* An instance of Engine for TLC: two threads, one of which suspends       *)
(* itself, while the other resumes it for ever, and then meets a barrier   *)
(* from which only a spurious wakeup can bring it back.                    *)
(***************************************************************************)
EXTENDS Engine

PhasesSleep ==
  [t \in Threads |->
     IF t = 0 THEN <<<<[type |-> "Suspend", res |-> "task", dep |-> "m"]>>,
                     <<[type |-> "Barrier", res |-> "b"], [type |-> "Run"]>>>>
              ELSE <<<<[type |-> "Resume", res |-> "task", dep |-> "m"]>>>>]

TasksSleep ==
  [t \in Threads |-> IF t = 0 THEN [phases |-> <<1, 1>>, loop_count |-> 1]
                              ELSE [phases |-> <<1>>, loop_count |-> -1]]

TotalOne == [b \in Barriers |-> 1]
============================================================================
