----------------------------- MODULE MCWorkload -----------------------------
(* An instance of Workload for TLC: a name that is unique, one that a tagged *)
(* memory buffer looks like, and one event kind for each way of naming       *)
(* resources.                                                                *)
EXTENDS Workload

MCNames    == {<<"unique">>, <<"mem", "0">>}
UniqueName == {<<"unique">>}

MCKinds == {"Lock", "Wait", "Barrier", "Timer", "Suspend", "Resume", "IoRun", "Fork"}

\* -14 is 2 in four bits.
OneOrTwo == {1, -14}
============================================================================
