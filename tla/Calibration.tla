---------------------------- MODULE Calibration -----------------------------
(***************************************************************************)
(* How long one turn of the busy loop takes, and what a run event makes of *)
(* it: run_calibration of main.rs, which pins the main thread to a CPU and *)
(* runs both methods of engine/calibration.rs there, and loadwait, which   *)
(* burns an execution time in turns of the loop.                           *)
(*                                                                         *)
(* The machine is known by how long a turn of the loop takes on it: at     *)
(* least base ns and at most noise ns more, which is what a trial measures *)
(* however many turns it makes.  The second is a parameter, to keep the    *)
(* numbers small.                                                          *)
(***************************************************************************)
EXTENDS GlobalSection

CONSTANTS
  Machines,     \* the machines: [base, noise]
  Online,       \* the CPUs there are
  Original,     \* those the program was started on
  Second,       \* 1_000_000 us
  CAL_TRIALS

ASSUME CalibrationAssumption ==
  /\ \A m \in Machines : m.base \in Nat /\ m.noise \in Nat
  /\ Online \subseteq Nat /\ Original \subseteq Online /\ Original # {}
  /\ Second \in Nat \ {0} /\ CAL_TRIALS \in Nat \ {0}

VARIABLES
  machine,       \* which it is
  calib_cpu, calib_ns_per_loop, \* AppOptions
  calib,         \* how far the calibration, and then a load, has come
  affinity,      \* the CPUs the main thread may run on
  orig_affinity, \* what run_calibration keeps of them, NoSet if nothing
  trial, max_load_loop, avg_per_loop, \* of calibrate_loop
  results,       \* of the methods that have returned, None if 0
  ns_per_loop,   \* NsPerLoop
  exec, remaining, bursts, burned \* of loadwait: turns of the loop burned

config    == <<machine, calib_cpu, calib_ns_per_loop>>
trialVars == <<trial, max_load_loop, avg_per_loop>>
loadVars  == <<exec, remaining, bursts, burned>>
calibVars == <<config, calib, affinity, orig_affinity, trialVars,
               results, ns_per_loop, loadVars>>

None == 0
NoSet == {}

INITIAL_LOAD_LOOPS == 10000
LOOP_INCREMENT == 33333
LOOP_MODULUS == 1000000

StartTrials == trial' = 1 /\ max_load_loop' = INITIAL_LOAD_LOOPS /\ avg_per_loop' = 0

CalibInit(m) ==
  /\ machine = m
  /\ calib_cpu = 0 /\ calib_ns_per_loop = NotGiven
  /\ calib = "none"
  /\ affinity = Original /\ orig_affinity = NoSet
  /\ trial = 0 /\ max_load_loop = 0 /\ avg_per_loop = 0
  /\ results = <<>> /\ ns_per_loop = 0
  /\ exec = 0 /\ remaining = 0 /\ bursts = 0 /\ burned = 0

----------------------------------------------------------------------------
(* run_calibration *)

CallCalibration(opts) ==
  /\ calib = "none" /\ calib' = "start"
  /\ calib_cpu' = opts.calib_cpu
  /\ calib_ns_per_loop' = opts.calib_ns_per_loop
  /\ UNCHANGED <<machine, affinity, orig_affinity, trialVars, results,
                 ns_per_loop, loadVars>>

\* `ns as u32`
UseProvided ==
  /\ calib = "start" /\ calib_ns_per_loop # NotGiven
  /\ ns_per_loop' = calib_ns_per_loop % U32
  /\ calib' = "ready"
  /\ UNCHANGED <<config, affinity, orig_affinity, trialVars,
                 results, loadVars>>

\* The kernel refuses a CPU that is not there; that is only a warning.  A CPU
\* whose number is negative as an i32 is not even tried.
Pin ==
  /\ calib = "start" /\ calib_ns_per_loop = NotGiven
  /\ orig_affinity' = IF calib_cpu >= 0 THEN affinity ELSE NoSet
  /\ affinity' = IF calib_cpu \in Online THEN {calib_cpu} ELSE affinity
  /\ calib' = "measuring"
  /\ StartTrials
  /\ UNCHANGED <<config, results, ns_per_loop, loadVars>>

converged(sample, avg) ==
  LET diff == IF sample > avg THEN sample - avg ELSE avg - sample
  IN  diff * 50 < avg

\* Mutant: the halves are added, so that the sum cannot overflow.
AverageOfHalves(avg, sample) == avg \div 2 + sample \div 2

Average(avg, sample) == ((avg + sample) % U32) \div 2

NextLoad ==
  LET next == (max_load_loop + LOOP_INCREMENT) % LOOP_MODULUS
  IN  IF next = 0 THEN LOOP_INCREMENT ELSE next

\* A method returns; the first is followed by the second.
MethodReturns(result) ==
  /\ results' = Append(results, result)
  /\ IF Len(results) = 0 THEN StartTrials /\ UNCHANGED calib
     ELSE calib' = "measured" /\ UNCHANGED trialVars

\* One trial of calibrate_loop.
Trial ==
  /\ calib = "measuring"
  /\ \E sample \in machine.base..(machine.base + machine.noise) :
       LET avg == Average(avg_per_loop, sample)
       IN  IF converged(sample, avg) THEN MethodReturns(avg)
           ELSE IF trial = CAL_TRIALS THEN MethodReturns(None)
           ELSE /\ trial' = trial + 1
                /\ max_load_loop' = NextLoad
                /\ avg_per_loop' = avg
                /\ UNCHANGED <<calib, results>>
  /\ UNCHANGED <<config, affinity, orig_affinity, ns_per_loop, loadVars>>

\* calibrate_cpu_cycles takes the smaller of what the methods have found.
Smaller(a, b) == IF a = None \/ (b # None /\ b < a) THEN b ELSE a

Restore ==
  /\ calib = "measured"
  /\ ns_per_loop' = Smaller(results[1], results[2])
  /\ affinity' = IF orig_affinity = NoSet THEN affinity ELSE orig_affinity
  /\ calib' = IF ns_per_loop' = None THEN "failed" ELSE "ready"
  /\ UNCHANGED <<config, orig_affinity, trialVars, results, loadVars>>

----------------------------------------------------------------------------
(* loadwait, called by a run event *)

\* Without a calibration nothing is done.
LoadWait(usec) ==
  /\ calib = "ready"
  /\ exec' = usec /\ remaining' = usec /\ burned' = 0
  /\ bursts' = usec \div Second
  /\ calib' = IF ns_per_loop = 0 THEN "idle" ELSE "loading"
  /\ UNCHANGED <<config, affinity, orig_affinity, trialVars,
                 results, ns_per_loop>>

\* Mutant: what a burst has done is not taken off.
BurstKeepsRemaining ==
  /\ calib = "loading" /\ bursts > 0
  /\ burned' = burned + (Second * 1000) \div ns_per_loop
  /\ bursts' = bursts - 1
  /\ UNCHANGED <<config, calib, affinity, orig_affinity, trialVars,
                 results, ns_per_loop, exec, remaining>>

Burst ==
  /\ calib = "loading" /\ bursts > 0
  /\ burned' = burned + (Second * 1000) \div ns_per_loop
  /\ remaining' = remaining - Second
  /\ bursts' = bursts - 1
  /\ UNCHANGED <<config, calib, affinity, orig_affinity, trialVars,
                 results, ns_per_loop, exec>>

LastBurst ==
  /\ calib = "loading" /\ bursts = 0
  /\ burned' = burned + (remaining * 1000) \div ns_per_loop
  /\ calib' = "loaded"
  /\ UNCHANGED <<config, affinity, orig_affinity, trialVars,
                 results, ns_per_loop, exec, remaining, bursts>>

run_calibration == UseProvided \/ Pin \/ Trial \/ Restore

loadwait(usec) == LoadWait(usec) \/ Burst \/ LastBurst

----------------------------------------------------------------------------
(* Properties *)

\* A machine whose noise is small is calibrated by either method, although the
\* average starts at zero and each of its steps is rounded down: rounding
\* leaves it at most one below the samples, which is within the 2 % of converged
\* from 52 ns on.
Steady == machine.base >= 50 * (machine.noise + 1) + 2

SteadyConverges == \A i \in DOMAIN results : Steady => results[i] # None

\* What a run event then burns is the time it asks for: never more than 2 % too
\* much, and too little by the rounding of one turn for each burst only.
WorkTakesItsTime ==
  calib = "loaded" /\ calib_ns_per_loop = NotGiven =>
    /\ burned * machine.base * 50 <= exec * 1000 * 51
    /\ (burned + exec \div Second + 1) * (machine.base + machine.noise) >= exec * 1000

\* What they rest on: no average is above the samples, and one that converged
\* is close to one of them; a method that has not returned yet returns once.
WithinNoise(ns) ==
  /\ ns \in Nat \ {0}
  /\ 50 * machine.base <= 51 * ns /\ ns <= machine.base + machine.noise

Measures ==
  /\ avg_per_loop \in 0..(machine.base + machine.noise)
  /\ results \in Seq(Nat)
  /\ calib \in {"none", "start"} => results = <<>>
  /\ calib = "measuring" => Len(results) <= 1
  /\ calib = "measured" => Len(results) = 2
  /\ \A i \in DOMAIN results : results[i] = None \/ WithinNoise(results[i])

\* The main thread is on the CPU of the calibration only while it measures, and
\* then it has kept where it was.
Affinities ==
  /\ calib \notin {"measuring", "measured"} => affinity = Original
  /\ orig_affinity = Original \/ (orig_affinity = NoSet /\ affinity = Original)

TurnMeasured ==
  /\ calib \in {"none", "start", "measuring", "measured"} => ns_per_loop = None
  /\ calib_ns_per_loop = NotGiven => ns_per_loop = None \/ WithinNoise(ns_per_loop)

\* Each burst so far has been rounded down by less than a turn.
BurnedSoFar ==
  calib = "loading" /\ calib_ns_per_loop = NotGiven =>
    LET done == exec \div Second - bursts
    IN  /\ exec \in Nat /\ burned \in Nat /\ bursts \in Nat /\ done \in Nat
        /\ ns_per_loop # None
        /\ remaining = exec - done * Second
        /\ burned * ns_per_loop <= done * Second * 1000
        /\ (burned + done) * ns_per_loop >= done * Second * 1000

CalibIInv ==
  /\ machine \in Machines
  /\ Measures /\ Affinities /\ TurnMeasured /\ BurnedSoFar /\ WorkTakesItsTime

\* There are trials enough if what an average that started at zero is short of
\* the samples, halved in each of them, is gone in the end: 1000 of them are
\* for any number of 32 bits.
EnoughTrials(halves) ==
  /\ halves \in [0..CAL_TRIALS -> Nat] /\ halves[CAL_TRIALS] = 0
  /\ \A k \in 1..CAL_TRIALS : halves[k] = halves[k - 1] \div 2
  /\ \A m \in Machines : m.base <= halves[0] /\ 2 * (m.base + m.noise) < U32

GapHalves(halves) ==
  Steady /\ calib = "measuring" =>
    trial \in 1..CAL_TRIALS /\ machine.base - 1 - avg_per_loop <= halves[trial - 1]
=============================================================================
