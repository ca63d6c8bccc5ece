------------------------------- MODULE Fuzzing -----------------------------
(***************************************************************************)
(* The fuzzer with its generator: each iteration of main writes a workload *)
(* of its own, step by step, before it is run.                             *)
(***************************************************************************)
EXTENDS Fuzzer, Generator

\* The fuzzer expects the durations that the generator chooses.
ASSUME FuzzingAssumption == random_range(1, max_duration_secs + 1) \subseteq Durations

fuzzingVars == <<fuzzVars, genVars>>

FuzzingInit == FuzzInit /\ GenInit

\* generate is called at the head of an iteration.
GenerateStep ==
  /\ at = "loop" /\ iteration < Iterations
  /\ GenNext
  /\ UNCHANGED fuzzVars

\* The workload is complete; the state of the generator ends with the call.
RunWorkload ==
  /\ gen_at = "done"
  /\ Generated(duration)
  /\ gen_at' = "generate"
  /\ thread_names' = 0 /\ tasks' = 0 /\ duration' = 0
  /\ mutexes' = {} /\ barriers' = {} /\ timers' = {}
  /\ UNCHANGED <<thread, num_phases>> /\ UNCHANGED phaseVars

FuzzStep ==
  /\ \/ build_c_rtapp \/ CheckAvailable
     \/ StartC \/ StartRs
     \/ \E i \in Impl : TryWait(i) \/ ReadOutput(i) \/ Look(i) \/ Kill(i)
     \/ Record \/ Finish
  /\ UNCHANGED genVars

EnvironmentStep == Others /\ UNCHANGED genVars

FuzzingEnded == Terminated /\ UNCHANGED genVars

FuzzingNext ==
  GenerateStep \/ RunWorkload \/ FuzzStep \/ EnvironmentStep \/ FuzzingEnded

\* The fuzzer is a process that the machine schedules; its children need not
\* be, and neither need the tools of the build that it waits for.
FuzzingSpec ==
  /\ FuzzingInit /\ [][FuzzingNext]_fuzzingVars
  /\ WF_fuzzingVars(GenerateStep \/ RunWorkload \/ (~AwaitsTool /\ FuzzStep))
============================================================================
