--------------------------- MODULE StartupProofs ----------------------------
(***************************************************************************)
(* Proofs about Startup, and about Calibration as a part of it: what the   *)
(* exit code tells, what the workers start with, how close the time that a *)
(* run event takes is to what it asks for, that a machine with little      *)
(* noise is calibrated, and, about Preprocess, what the passes leave of a  *)
(* document, and that no object keeps a key twice.                         *)
(***************************************************************************)
EXTENDS Startup, FoldTheorems

----------------------------------------------------------------------------
(* Arithmetic *)

LEMMA DivFacts ==
  ASSUME NEW a \in Nat, NEW b \in Nat \ {0}
  PROVE  /\ a \div b \in Nat /\ (a \div b) * b <= a /\ a < (a \div b) * b + b
         /\ a % b \in Nat /\ a % b <= a
<1>1. /\ a % b \in 0..(b - 1) /\ a \div b \in Int /\ a = b * (a \div b) + (a % b)
  OBVIOUS
<1>2. a \div b >= 0
  BY <1>1
<1>3. b * (a \div b) = (a \div b) * b /\ (a \div b) * b >= 0
  BY <1>1, <1>2
<1> QED BY <1>1, <1>2, <1>3

LEMMA Monotone ==
  ASSUME NEW a \in Int, NEW b \in Int, NEW c \in Nat, a <= b
  PROVE  a * c <= b * c
OBVIOUS

\* What one more burst of some work adds to the turns burned, and to their time.
LEMMA BurnMore ==
  ASSUME NEW turns \in Nat, NEW ns \in Nat \ {0}, NEW done \in Nat, NEW k \in Nat,
         NEW work \in Nat, turns * ns <= done, (turns + k) * ns >= done
  PROVE  /\ turns + work \div ns \in Nat
         /\ (turns + work \div ns) * ns <= done + work
         /\ (turns + work \div ns + k + 1) * ns >= done + work
<1> DEFINE more == work \div ns
<1>1. more \in Nat /\ more * ns <= work /\ work < more * ns + ns
  BY DivFacts
<1> HIDE DEF more
<1>2. (turns + more) * ns = turns * ns + more * ns
  BY <1>1
<1>3. (turns + more + k + 1) * ns = (turns + k) * ns + more * ns + ns
  BY <1>1
<1>4. turns * ns \in Nat /\ (turns + k) * ns \in Nat /\ more * ns \in Nat
  BY <1>1
<1>5. (turns + more) * ns <= done + work
  BY <1>1, <1>2, <1>4
<1>6. (turns + more + k + 1) * ns >= done + work
  BY <1>1, <1>3, <1>4
<1> QED BY <1>1, <1>5, <1>6 DEF more

\* The bounds on the turns burned, carried over from the turn that the
\* calibration found to the turn of the machine.
LEMMA TurnsOfMachine ==
  ASSUME NEW base \in Nat, NEW ns \in Nat, NEW longest \in Nat,
         50 * base <= 51 * ns, ns <= longest,
         NEW turns \in Nat, NEW k \in Nat, NEW work \in Nat,
         turns * ns <= work, (turns + k) * ns >= work
  PROVE  turns * base * 50 <= work * 51 /\ (turns + k) * longest >= work
<1>1. (50 * base) * turns <= (51 * ns) * turns
  BY Monotone
<1>2. (50 * base) * turns = turns * base * 50 /\ (51 * ns) * turns = (turns * ns) * 51
  OBVIOUS
<1>3. turns * ns \in Nat /\ turns * base * 50 \in Nat
  OBVIOUS
<1>4. (turns * ns) * 51 <= work * 51
  BY <1>3
<1>5. turns * base * 50 <= work * 51
  BY <1>1, <1>2, <1>3, <1>4
<1>6. ns * (turns + k) <= longest * (turns + k)
  BY Monotone
<1>7. ns * (turns + k) = (turns + k) * ns /\ longest * (turns + k) = (turns + k) * longest
  OBVIOUS
<1>8. (turns + k) * ns \in Nat /\ (turns + k) * longest \in Nat
  OBVIOUS
<1>9. (turns + k) * longest >= work
  BY <1>6, <1>7, <1>8
<1> QED BY <1>5, <1>9

----------------------------------------------------------------------------
(* The calibration and the loads *)

LEMMA MachineFacts ==
  ASSUME machine \in Machines
  PROVE  machine.base \in Nat /\ machine.noise \in Nat
BY CalibrationAssumption

\* The average stays below the samples, whatever overflows, and one that has
\* converged is within 2 % of the last.
LEMMA AverageFacts ==
  ASSUME NEW base \in Nat, NEW noise \in Nat, NEW last \in 0..(base + noise),
         NEW sample \in base..(base + noise), NEW avg, avg = Average(last, sample)
  PROVE  /\ avg \in 0..(base + noise)
         /\ converged(sample, avg) => avg # 0 /\ 50 * base <= 51 * avg
<1> DEFINE sum == (last + sample) % U32
<1>1. last + sample \in Nat /\ last + sample <= 2 * (base + noise)
  OBVIOUS
<1>2. sum \in Nat /\ sum <= last + sample
  BY <1>1, DivFacts, GlobalAssumption
<1>3. avg = sum \div 2
  BY DEF Average
<1> HIDE DEF sum
<1>4. avg \in 0..(base + noise)
  BY <1>1, <1>2, <1>3
<1>5. ASSUME converged(sample, avg)
      PROVE  avg # 0 /\ 50 * base <= 51 * avg
  <2> DEFINE diff == IF sample > avg THEN sample - avg ELSE avg - sample
  <2>1. diff * 50 < avg
    BY <1>5 DEF converged
  <2> QED BY <1>4, <2>1
<1> QED BY <1>4, <1>5

\* One trial, with the sample that it measured.
LEMMA TrialCases ==
  ASSUME CalibIInv, Trial
  PROVE  /\ calib = "measuring"
         /\ \E sample \in machine.base..(machine.base + machine.noise), avg \in Nat :
              /\ avg = Average(avg_per_loop, sample)
              /\ \/ converged(sample, avg) /\ MethodReturns(avg)
                 \/ ~converged(sample, avg) /\ trial = CAL_TRIALS /\ MethodReturns(None)
                 \/ /\ ~converged(sample, avg) /\ trial # CAL_TRIALS
                    /\ trial' = trial + 1 /\ avg_per_loop' = avg
                    /\ calib' = calib /\ results' = results
         /\ UNCHANGED <<config, affinity, orig_affinity, ns_per_loop, loadVars>>
<1>1. PICK sample \in machine.base..(machine.base + machine.noise) :
        LET avg == Average(avg_per_loop, sample)
        IN  IF converged(sample, avg) THEN MethodReturns(avg)
            ELSE IF trial = CAL_TRIALS THEN MethodReturns(None)
            ELSE /\ trial' = trial + 1
                 /\ max_load_loop' = NextLoad
                 /\ avg_per_loop' = avg
                 /\ UNCHANGED <<calib, results>>
  BY DEF Trial
<1> DEFINE avg == Average(avg_per_loop, sample)
<1>2. machine.base \in Nat /\ machine.noise \in Nat
      /\ avg_per_loop \in 0..(machine.base + machine.noise)
  BY MachineFacts DEF CalibIInv, Measures
<1>3. avg \in Nat
  <2>1. avg \in 0..(machine.base + machine.noise)
    BY <1>2, AverageFacts
  <2> QED BY <1>2, <2>1
<1>4. \/ converged(sample, avg) /\ MethodReturns(avg)
      \/ ~converged(sample, avg) /\ trial = CAL_TRIALS /\ MethodReturns(None)
      \/ /\ ~converged(sample, avg) /\ trial # CAL_TRIALS
         /\ trial' = trial + 1 /\ avg_per_loop' = avg
         /\ calib' = calib /\ results' = results
  BY <1>1
<1> HIDE DEF avg
<1>5. avg = Average(avg_per_loop, sample)
  BY DEF avg
<1> QED BY <1>3, <1>4, <1>5 DEF Trial

\* A method that returns a result.
LEMMA ReturnKeepsMeasures ==
  ASSUME machine \in Machines, machine' = machine, Measures, calib = "measuring",
         NEW result \in Nat, result = None \/ WithinNoise(result), MethodReturns(result)
  PROVE  Measures' /\ calib' \in {"measuring", "measured"}
<1>1. /\ results \in Seq(Nat) /\ Len(results) <= 1
      /\ \A i \in DOMAIN results : results[i] = None \/ WithinNoise(results[i])
      /\ avg_per_loop \in 0..(machine.base + machine.noise)
      /\ machine.base \in Nat /\ machine.noise \in Nat
  BY MachineFacts DEF Measures
<1>2. \A ns : WithinNoise(ns)' <=> WithinNoise(ns)
  BY DEF WithinNoise
<1>3. results' = Append(results, result)
  BY DEF MethodReturns
<1>4. /\ results' \in Seq(Nat) /\ Len(results') = Len(results) + 1
      /\ \A i \in DOMAIN results' : results'[i] = None \/ WithinNoise(results'[i])
  BY <1>1, <1>3
<1>5. CASE Len(results) = 0
  <2>1. calib' = "measuring" /\ avg_per_loop' = 0
    BY <1>5 DEF MethodReturns, StartTrials
  <2> QED BY <1>1, <1>2, <1>4, <1>5, <2>1 DEF Measures
<1>6. CASE Len(results) # 0
  <2>1. calib' = "measured" /\ avg_per_loop' = avg_per_loop
    BY <1>6 DEF MethodReturns, trialVars
  <2>2. Len(results') = 2
    BY <1>1, <1>4, <1>6
  <2> QED BY <1>1, <1>2, <1>4, <2>1, <2>2 DEF Measures
<1> QED BY <1>5, <1>6

LEMMA TrialKeepsCalibIInv ==
  ASSUME CalibIInv, Trial
  PROVE  CalibIInv'
<1> USE DEF CalibIInv
<1>1. /\ calib = "measuring"
      /\ machine' = machine /\ calib_ns_per_loop' = calib_ns_per_loop
      /\ affinity' = affinity /\ orig_affinity' = orig_affinity
      /\ ns_per_loop' = ns_per_loop
  BY TrialCases DEF config
<1>2. PICK sample \in machine.base..(machine.base + machine.noise), avg \in Nat :
        /\ avg = Average(avg_per_loop, sample)
        /\ \/ converged(sample, avg) /\ MethodReturns(avg)
           \/ ~converged(sample, avg) /\ trial = CAL_TRIALS /\ MethodReturns(None)
           \/ /\ ~converged(sample, avg) /\ trial # CAL_TRIALS
              /\ trial' = trial + 1 /\ avg_per_loop' = avg
              /\ calib' = calib /\ results' = results
  BY TrialCases
<1>3. /\ machine.base \in Nat /\ machine.noise \in Nat
      /\ avg_per_loop \in 0..(machine.base + machine.noise)
  BY MachineFacts DEF Measures
<1>4. /\ avg \in 0..(machine.base + machine.noise)
      /\ converged(sample, avg) => avg # 0 /\ 50 * machine.base <= 51 * avg
  BY <1>2, <1>3, AverageFacts
<1>5. \A ns : WithinNoise(ns)' <=> WithinNoise(ns)
  BY <1>1 DEF WithinNoise
<1>6. Measures' /\ calib' \in {"measuring", "measured"}
  <2>1. CASE converged(sample, avg) /\ MethodReturns(avg)
    <3>1. WithinNoise(avg)
      BY <1>3, <1>4, <2>1 DEF WithinNoise
    <3> QED BY <1>1, <2>1, <3>1, ReturnKeepsMeasures
  <2>2. CASE MethodReturns(None)
    BY <1>1, <2>2, ReturnKeepsMeasures DEF None
  <2>3. CASE avg_per_loop' = avg /\ calib' = calib /\ results' = results
    BY <1>1, <1>4, <1>5, <2>3 DEF Measures
  <2> QED BY <1>2, <2>1, <2>2, <2>3
<1>7. Affinities'
  BY <1>1, <1>6 DEF Affinities
<1>8. TurnMeasured'
  BY <1>1, <1>5, <1>6 DEF TurnMeasured
<1>9. BurnedSoFar' /\ WorkTakesItsTime'
  BY <1>6 DEF BurnedSoFar, WorkTakesItsTime
<1> QED BY <1>1, <1>6, <1>7, <1>8, <1>9

LEMMA CallKeepsCalibIInv ==
  ASSUME CalibIInv, NEW options, CallCalibration(options)
  PROVE  CalibIInv'
<1>1. /\ calib = "none" /\ calib' = "start"
      /\ UNCHANGED <<machine, affinity, orig_affinity, avg_per_loop, results, ns_per_loop>>
  BY DEF CallCalibration, trialVars
<1>2. ns_per_loop' = None
  BY <1>1 DEF CalibIInv, TurnMeasured
<1> QED
  BY <1>1, <1>2
  DEF CalibIInv, Measures, WithinNoise, Affinities, TurnMeasured, BurnedSoFar, WorkTakesItsTime

LEMMA UseProvidedKeepsCalibIInv ==
  ASSUME CalibIInv, UseProvided
  PROVE  CalibIInv'
<1>1. /\ calib = "start" /\ calib' = "ready" /\ calib_ns_per_loop' # NotGiven
      /\ UNCHANGED <<machine, affinity, orig_affinity, avg_per_loop, results>>
  BY DEF UseProvided, config, trialVars
<1> QED
  BY <1>1
  DEF CalibIInv, Measures, WithinNoise, Affinities, TurnMeasured, BurnedSoFar, WorkTakesItsTime

LEMMA PinKeepsCalibIInv ==
  ASSUME CalibIInv, Pin
  PROVE  CalibIInv'
<1>1. /\ calib = "start" /\ calib' = "measuring" /\ avg_per_loop' = 0
      /\ UNCHANGED <<machine, calib_ns_per_loop, results, ns_per_loop>>
  BY DEF Pin, StartTrials, config
<1>2. affinity = Original
  BY <1>1 DEF CalibIInv, Affinities
<1>3. Affinities'
  <2>1. CASE calib_cpu \in Online
    <3>1. calib_cpu >= 0
      BY <2>1, CalibrationAssumption
    <3>2. orig_affinity' = affinity
      BY <3>1 DEF Pin
    <3> QED BY <1>1, <1>2, <3>2 DEF Affinities
  <2>2. CASE calib_cpu \notin Online
    <3>1. affinity' = affinity /\ orig_affinity' \in {affinity, NoSet}
      BY <2>2 DEF Pin
    <3> QED BY <1>1, <1>2, <3>1 DEF Affinities
  <2> QED BY <2>1, <2>2
<1>4. machine.base \in Nat /\ machine.noise \in Nat /\ results = <<>>
  BY <1>1, MachineFacts DEF CalibIInv, Measures
<1>5. Measures'
  BY <1>1, <1>4 DEF Measures, CalibIInv
<1> QED
  BY <1>1, <1>3, <1>5
  DEF CalibIInv, WithinNoise, TurnMeasured, BurnedSoFar, WorkTakesItsTime

LEMMA RestoreKeepsCalibIInv ==
  ASSUME CalibIInv, Restore
  PROVE  CalibIInv'
<1>1. /\ calib = "measured" /\ calib' \in {"failed", "ready"}
      /\ UNCHANGED <<machine, calib_ns_per_loop, avg_per_loop, results, orig_affinity>>
  BY DEF Restore, config, trialVars
<1>2. ns_per_loop' = None \/ WithinNoise(ns_per_loop')
  <2>1. /\ Len(results) = 2 /\ results \in Seq(Nat)
        /\ \A i \in DOMAIN results : results[i] = None \/ WithinNoise(results[i])
    BY <1>1 DEF CalibIInv, Measures
  <2>2. \A i \in {1, 2} : results[i] = None \/ WithinNoise(results[i])
    BY <2>1
  <2>3. ns_per_loop' \in {results[1], results[2]}
    BY DEF Restore, Smaller
  <2> QED BY <2>2, <2>3
<1>3. Affinities'
  <2>1. orig_affinity = Original \/ (orig_affinity = NoSet /\ affinity = Original)
    BY DEF CalibIInv, Affinities
  <2>2. affinity' = IF orig_affinity = NoSet THEN affinity ELSE orig_affinity
    BY DEF Restore
  <2>3. Original # NoSet
    BY CalibrationAssumption DEF NoSet
  <2> QED BY <1>1, <2>1, <2>2, <2>3 DEF Affinities
<1>4. \A ns : WithinNoise(ns)' <=> WithinNoise(ns)
  BY <1>1 DEF WithinNoise
<1>5. Measures'
  BY <1>1, <1>4 DEF Measures, CalibIInv
<1>6. TurnMeasured'
  BY <1>1, <1>2 DEF WithinNoise, TurnMeasured
<1> QED BY <1>1, <1>3, <1>5, <1>6 DEF CalibIInv, BurnedSoFar, WorkTakesItsTime

LEMMA SecondFacts ==
  /\ Second \in Nat \ {0}
  /\ \A usec \in Nat : usec \div Second \in Nat /\ (usec \div Second) * Second <= usec
BY DivFacts, CalibrationAssumption

LEMMA LoadWaitKeepsCalibIInv ==
  ASSUME CalibIInv, NEW usec \in Nat, LoadWait(usec)
  PROVE  CalibIInv'
<1>1. /\ calib = "ready" /\ calib' \in {"idle", "loading"}
      /\ calib' = "loading" => ns_per_loop # None
      /\ exec' = usec /\ remaining' = usec /\ burned' = 0 /\ bursts' = usec \div Second
      /\ UNCHANGED <<machine, calib_ns_per_loop, avg_per_loop, results, affinity,
                     orig_affinity, ns_per_loop>>
  BY DEF LoadWait, config, trialVars, None
<1>2. usec \div Second \in Nat /\ Second \in Nat
  BY SecondFacts
<1>3. ASSUME calib' = "loading", calib_ns_per_loop = NotGiven
      PROVE  ns_per_loop \in Nat \ {0}
  BY <1>1, <1>3 DEF CalibIInv, TurnMeasured, WithinNoise, None
<1>4. BurnedSoFar'
  <2> DEFINE all == usec \div Second
  <2>1. all \in Nat /\ all - all = 0
    BY <1>2
  <2> HIDE DEF all
  <2>2. usec = usec - 0 * Second /\ 0 * Second * 1000 = 0
    BY <1>2
  <2>3. ASSUME calib' = "loading", calib_ns_per_loop = NotGiven
        PROVE  0 * ns_per_loop = 0 /\ (0 + 0) * ns_per_loop = 0
    BY <1>3, <2>3
  <2>4. bursts' = all /\ exec' \div Second = all
    BY <1>1 DEF all
  <2> QED BY <1>1, <2>1, <2>2, <2>3, <2>4 DEF BurnedSoFar
<1> QED
  BY <1>1, <1>4
  DEF CalibIInv, Measures, WithinNoise, Affinities, TurnMeasured, WorkTakesItsTime

LEMMA BurstKeepsCalibIInv ==
  ASSUME CalibIInv, Burst
  PROVE  CalibIInv'
<1>1. /\ calib = "loading" /\ calib' = "loading" /\ bursts > 0
      /\ burned' = burned + (Second * 1000) \div ns_per_loop
      /\ remaining' = remaining - Second /\ bursts' = bursts - 1
      /\ UNCHANGED <<machine, calib_ns_per_loop, avg_per_loop, results, affinity,
                     orig_affinity, ns_per_loop, exec>>
  BY DEF Burst, config, trialVars
<1>2. BurnedSoFar'
  <2> SUFFICES ASSUME calib_ns_per_loop = NotGiven
               PROVE  BurnedSoFar'
    BY <1>1 DEF BurnedSoFar
  <2> DEFINE all == exec \div Second
             done == all - bursts
             work == Second * 1000
  <2>1. /\ exec \in Nat /\ burned \in Nat /\ bursts \in Nat /\ done \in Nat
        /\ remaining = exec - done * Second
        /\ burned * ns_per_loop <= done * Second * 1000
        /\ (burned + done) * ns_per_loop >= done * Second * 1000
        /\ ns_per_loop # None
    BY <1>1 DEF CalibIInv, BurnedSoFar
  <2>2. ns_per_loop \in Nat \ {0} /\ Second \in Nat \ {0} /\ all \in Nat
    BY <2>1, SecondFacts DEF CalibIInv, TurnMeasured, WithinNoise, None
  <2>3. bursts' = bursts - 1 /\ bursts - 1 \in Nat /\ all - (bursts - 1) = done + 1
    <3> HIDE DEF all
    <3> QED BY <1>1, <2>1, <2>2 DEF done
  <2>4. exec' \div Second - bursts' = done + 1
    BY <1>1, <2>3
  <2> HIDE DEF all, done
  <2>5. work \in Nat /\ done * Second * 1000 \in Nat
    BY <2>1, <2>2
  <2>6. (done + 1) * Second * 1000 = done * Second * 1000 + work
    BY <2>1, <2>2
  <2>7. (done + 1) * Second = done * Second + Second
    BY <2>1, <2>2
  <2> HIDE DEF work
  <2>8. /\ burned + work \div ns_per_loop \in Nat
        /\ (burned + work \div ns_per_loop) * ns_per_loop <= done * Second * 1000 + work
        /\ (burned + work \div ns_per_loop + done + 1) * ns_per_loop
             >= done * Second * 1000 + work
    BY <2>1, <2>2, <2>5, BurnMore
  <2>9. burned' = burned + work \div ns_per_loop
    BY <1>1 DEF work
  <2>10. burned' \in Nat /\ burned' + (done + 1) = burned + work \div ns_per_loop + done + 1
    BY <2>1, <2>8, <2>9
  <2>11. /\ burned' * ns_per_loop <= (done + 1) * Second * 1000
         /\ (burned' + (done + 1)) * ns_per_loop >= (done + 1) * Second * 1000
    BY <2>6, <2>8, <2>9, <2>10
  <2>12. remaining' = exec - (done + 1) * Second
    <3>1. done * Second \in Nat
      BY <2>1, <2>2
    <3> QED BY <1>1, <2>1, <2>2, <2>7, <3>1
  <2>13. done + 1 \in Nat
    BY <2>1
  <2> QED BY <1>1, <2>1, <2>3, <2>4, <2>10, <2>11, <2>12, <2>13 DEF BurnedSoFar
<1> QED
  BY <1>1, <1>2
  DEF CalibIInv, Measures, WithinNoise, Affinities, TurnMeasured, WorkTakesItsTime

LEMMA LastBurstKeepsCalibIInv ==
  ASSUME CalibIInv, LastBurst
  PROVE  CalibIInv'
<1>1. /\ calib = "loading" /\ calib' = "loaded" /\ bursts = 0
      /\ burned' = burned + (remaining * 1000) \div ns_per_loop
      /\ UNCHANGED <<machine, calib_ns_per_loop, avg_per_loop, results, affinity,
                     orig_affinity, ns_per_loop, exec>>
  BY DEF LastBurst, config, trialVars
<1>2. WorkTakesItsTime'
  <2> SUFFICES ASSUME calib_ns_per_loop = NotGiven
               PROVE  WorkTakesItsTime'
    BY <1>1 DEF WorkTakesItsTime
  <2> DEFINE all == exec \div Second
             work == remaining * 1000
             longest == machine.base + machine.noise
  <2>1. /\ exec \in Nat /\ burned \in Nat
        /\ remaining = exec - all * Second
        /\ burned * ns_per_loop <= all * Second * 1000
        /\ (burned + all) * ns_per_loop >= all * Second * 1000
        /\ ns_per_loop # None
    <3>1. /\ exec \in Nat /\ burned \in Nat
          /\ remaining = exec - (all - bursts) * Second
          /\ burned * ns_per_loop <= (all - bursts) * Second * 1000
          /\ (burned + (all - bursts)) * ns_per_loop >= (all - bursts) * Second * 1000
          /\ ns_per_loop # None
      BY <1>1 DEF CalibIInv, BurnedSoFar
    <3>2. all - bursts = all
      BY <1>1, <3>1, SecondFacts
    <3> QED BY <3>1, <3>2
  <2>2. WithinNoise(ns_per_loop)
    BY <2>1 DEF CalibIInv, TurnMeasured
  <2>3. /\ ns_per_loop \in Nat \ {0} /\ Second \in Nat \ {0}
        /\ all \in Nat /\ all * Second <= exec
    BY <2>1, <2>2, SecondFacts DEF WithinNoise
  <2> HIDE DEF all
  <2>4. remaining \in Nat /\ work \in Nat /\ all * Second * 1000 \in Nat
    <3>1. all * Second \in Nat
      BY <2>3
    <3> QED BY <2>1, <2>3, <3>1
  <2>5. all * Second * 1000 + work = exec * 1000
    <3>1. all * Second \in Nat
      BY <2>3
    <3> QED BY <2>1, <2>4, <3>1
  <2> HIDE DEF work
  <2>6. /\ burned + work \div ns_per_loop \in Nat
        /\ (burned + work \div ns_per_loop) * ns_per_loop <= all * Second * 1000 + work
        /\ (burned + work \div ns_per_loop + all + 1) * ns_per_loop
             >= all * Second * 1000 + work
    BY <2>1, <2>3, <2>4, BurnMore
  <2>7. burned' = burned + work \div ns_per_loop
    BY <1>1 DEF work
  <2>8. /\ burned' \in Nat
        /\ burned' * ns_per_loop <= exec * 1000
        /\ (burned' + all + 1) * ns_per_loop >= exec * 1000
    BY <2>5, <2>6, <2>7
  <2>9. /\ machine.base \in Nat /\ machine.noise \in Nat
        /\ 50 * machine.base <= 51 * ns_per_loop /\ ns_per_loop <= longest
    BY <2>2, MachineFacts DEF CalibIInv, WithinNoise
  <2>10. /\ burned' * machine.base * 50 <= exec * 1000 * 51
         /\ (burned' + (all + 1)) * longest >= exec * 1000
    <3>1. /\ ns_per_loop \in Nat /\ exec * 1000 \in Nat /\ all + 1 \in Nat
          /\ longest \in Nat
      BY <2>1, <2>3, <2>9
    <3>2. (burned' + (all + 1)) * ns_per_loop >= exec * 1000
      BY <2>3, <2>8
    <3> HIDE DEF longest
    <3> QED BY <2>8, <2>9, <3>1, <3>2, TurnsOfMachine
  <2>11. burned' + (all + 1) = burned' + all + 1
    BY <2>3, <2>8
  <2>12. machine' = machine /\ exec' = exec
    BY <1>1
  <2> QED BY <2>10, <2>11, <2>12 DEF WorkTakesItsTime, all
<1> QED
  BY <1>1, <1>2
  DEF CalibIInv, Measures, WithinNoise, Affinities, TurnMeasured, BurnedSoFar

\* What main and the workers do to the calibration is one of its operations.
CalibNext ==
  \/ CallCalibration(opts)
  \/ UseProvided \/ Pin \/ Trial \/ Restore
  \/ \E usec \in Execs : LoadWait(usec)
  \/ Burst \/ LastBurst

LEMMA CalibOfNext == [Next]_vars => [CalibNext]_calibVars
<1> SUFFICES ASSUME [Next]_vars
             PROVE  CalibNext \/ UNCHANGED calibVars
  OBVIOUS
<1>1. CASE ParseArguments \/ Read \/ Preprocessing \/ FromJson \/ FromYaml
  BY <1>1 DEF ParseArguments, Read, Preprocessing, FromJson, FromYaml
<1>2. CASE Validate
  BY <1>2 DEF Validate, CalibNext
<1>3. CASE Calibrating
  BY <1>3 DEF Calibrating, run_calibration, CalibNext
<1>4. CASE Calibrated \/ build_engine_state
  <2>1. CASE Calibrated
    BY <2>1 DEF Calibrated
  <2>2. CASE build_engine_state
    BY <2>2 DEF build_engine_state
  <2> QED BY <1>4, <2>1, <2>2
<1>5. CASE RunEvent
  BY <1>5 DEF RunEvent, loadwait, CalibNext
<1>6. CASE BufferEvent \/ BufferWork
  BY <1>6 DEF BufferEvent, BufferWork
<1>7. CASE UNCHANGED vars
  BY <1>7 DEF vars
<1> QED BY <1>1, <1>2, <1>3, <1>4, <1>5, <1>6, <1>7 DEF Next

LEMMA CalibIInvStep == CalibIInv /\ [CalibNext]_calibVars => CalibIInv'
<1> SUFFICES ASSUME CalibIInv, [CalibNext]_calibVars
             PROVE  CalibIInv'
  OBVIOUS
<1>1. CASE UNCHANGED calibVars
  <2>1. UNCHANGED <<machine, calib_ns_per_loop, calib, affinity, orig_affinity,
                    avg_per_loop, results, ns_per_loop, exec, remaining, bursts, burned>>
    BY <1>1 DEF calibVars, config, trialVars, loadVars
  <2> QED
    BY <2>1 DEF CalibIInv, Measures, WithinNoise, Affinities, TurnMeasured, BurnedSoFar,
                WorkTakesItsTime
<1>2. ASSUME NEW usec \in Execs, LoadWait(usec)
      PROVE  CalibIInv'
  <2>1. usec \in Nat
    BY StartupAssumption
  <2> QED BY <1>2, <2>1, LoadWaitKeepsCalibIInv
<1> QED
  BY <1>1, <1>2, CallKeepsCalibIInv, UseProvidedKeepsCalibIInv, PinKeepsCalibIInv,
     TrialKeepsCalibIInv, RestoreKeepsCalibIInv, BurstKeepsCalibIInv,
     LastBurstKeepsCalibIInv
  DEF CalibNext

LEMMA InitCalibIInv ==
  ASSUME NEW m \in Machines, CalibInit(m)
  PROVE  CalibIInv
<1>1. /\ machine \in Machines /\ machine.base \in Nat /\ machine.noise \in Nat
  BY MachineFacts DEF CalibInit
<1>2. Measures
  BY <1>1 DEF CalibInit, Measures
<1>3. /\ calib = "none" /\ ns_per_loop = None
      /\ affinity = Original /\ orig_affinity = NoSet
  BY DEF CalibInit, None
<1>4. Affinities /\ TurnMeasured
  BY <1>3 DEF Affinities, TurnMeasured
<1>5. BurnedSoFar /\ WorkTakesItsTime
  BY <1>3 DEF BurnedSoFar, WorkTakesItsTime
<1> QED BY <1>1, <1>2, <1>4, <1>5 DEF CalibIInv

----------------------------------------------------------------------------
(* main *)

\* What is accepted, and in which formats, does not change.
LEMMA InvocationStable ==
  ASSUME invocation' = invocation
  PROVE  Accepted' = Accepted /\ parse_refuses' = parse_refuses
BY DEF Accepted, Formats, parse_refuses

LEMMA ConfigKinds ==
  ASSUME invocation \in Invocations
  PROVE  /\ invocation.config \in {"none", "json", "yaml", "other", "stdin"}
         /\ Formats = IF invocation.config \in {"json", "yaml"} THEN {invocation.config}
                      ELSE {"json", "yaml"}
BY StartupAssumption DEF Formats

\* main goes on: the new statement is one that the conditions on it hold at.
MayBeAt(statement) ==
  /\ statement \in {"read", "json", "yaml", "validate", "calibrate", "build", "work"}
  /\ invocation.config # "none"
  /\ statement \in {"json", "yaml"} => invocation.readable
  /\ statement = "json" => invocation.config # "yaml"
  /\ statement = "yaml" /\ invocation.config # "yaml" =>
       /\ invocation.config # "json"
       /\ "json" \notin invocation.syntax \/ parse_refuses
  /\ statement \in {"validate", "calibrate", "build", "work"} => Accepted

LEMMA GoOn ==
  ASSUME Control, at # "exited", MayBeAt(at'),
         invocation' = invocation, exit_code' = exit_code,
         at' \in {"validate", "calibrate", "build", "work"} =>
           global'.is = into_global_config(invocation.section),
         at' = "build" => calib' = "ready",
         at' = "work" => calib' \in {"ready", "idle", "loading", "loaded"}
  PROVE  Control' /\ ExitTellsCause'
<1>1. Accepted' = Accepted /\ parse_refuses' = parse_refuses
  BY InvocationStable
<1>2. exit_code' = NoCode
  BY DEF Control
<1>3. Control'
  <2>1. /\ at' \in {"read", "json", "yaml", "validate", "calibrate", "build", "work"}
        /\ invocation'.config # "none"
        /\ at' \in {"json", "yaml"} => invocation'.readable
        /\ at' = "json" => invocation'.config # "yaml"
    BY DEF MayBeAt
  <2>2. at' = "yaml" /\ invocation'.config # "yaml" =>
          /\ invocation'.config # "json"
          /\ "json" \notin invocation'.syntax \/ parse_refuses'
    BY <1>1 DEF MayBeAt
  <2>3. at' \in {"validate", "calibrate", "build", "work"} =>
          Accepted' /\ global'.is = into_global_config(invocation'.section)
    BY <1>1 DEF MayBeAt
  <2>4. at' # "exited"
    BY <2>1
  <2> QED BY <1>2, <2>1, <2>2, <2>3, <2>4 DEF Control
<1>4. ExitTellsCause'
  <2>1. at' = "work" => invocation'.config # "none" /\ Accepted' /\ calib' # "failed"
    BY <1>3 DEF Control
  <2>2. exit_code' \notin {EXIT_SUCCESS, EXIT_FAILURE, EXIT_INVALID_CONFIG}
    BY <1>2 DEF NoCode, EXIT_SUCCESS, EXIT_FAILURE, EXIT_INVALID_CONFIG
  <2> QED BY <2>1, <2>2 DEF ExitTellsCause
<1> QED BY <1>3, <1>4

\* main ends, with a code that has its cause.
LEMMA Ends ==
  ASSUME NEW code, Exit(code), code # NoCode,
         code = EXIT_SUCCESS => invocation.print_template,
         code = EXIT_INVALID_CONFIG /\ invocation.config # "none" => ~Accepted,
         code = EXIT_FAILURE => Accepted /\ (invocation.tasks = "empty" \/ calib' = "failed")
  PROVE  Control' /\ ExitTellsCause'
<1>1. at' = "exited" /\ exit_code' = code /\ invocation' = invocation
  BY DEF Exit
<1>2. Accepted' = Accepted
  BY <1>1, InvocationStable
<1>3. Control'
  BY <1>1 DEF Control
<1>4. ExitTellsCause'
  BY <1>1, <1>2 DEF ExitTellsCause
<1> QED BY <1>3, <1>4

LEMMA ParseArgumentsControl ==
  ASSUME IInv, ParseArguments
  PROVE  Control' /\ ExitTellsCause'
<1>1. at = "cli" /\ Control
  BY DEF ParseArguments, IInv
<1>2. CASE invocation.print_template
  <2>1. Exit(EXIT_SUCCESS)
    BY <1>2, Zenon DEF ParseArguments
  <2> QED
    BY <1>2, <2>1, Ends DEF EXIT_SUCCESS, EXIT_FAILURE, EXIT_INVALID_CONFIG, NoCode
<1>3. CASE ~invocation.print_template /\ invocation.config = "none"
  <2>1. Exit(2)
    BY <1>3, Zenon DEF ParseArguments
  <2> QED
    BY <1>3, <2>1, Ends DEF EXIT_SUCCESS, EXIT_FAILURE, EXIT_INVALID_CONFIG, NoCode
<1>4. CASE ~invocation.print_template /\ invocation.config # "none"
  <2>1. GoTo("read")
    BY <1>4, Zenon DEF ParseArguments
  <2>2. at' = "read" /\ invocation' = invocation /\ exit_code' = exit_code
    BY <2>1 DEF GoTo
  <2>3. MayBeAt(at')
    BY <1>4, <2>2 DEF MayBeAt
  <2> QED BY <1>1, <2>2, <2>3, GoOn
<1> QED BY <1>2, <1>3, <1>4

LEMMA ReadControl ==
  ASSUME IInv, Read
  PROVE  Control' /\ ExitTellsCause'
<1>1. at = "read" /\ Control /\ invocation.config # "none"
  BY DEF Read, IInv, Control
<1>2. CASE ~invocation.readable
  <2>1. Exit(EXIT_INVALID_CONFIG) /\ ~Accepted
    BY <1>2 DEF Read, Accepted
  <2> QED
    BY <2>1, Ends DEF EXIT_SUCCESS, EXIT_FAILURE, EXIT_INVALID_CONFIG, NoCode
<1>3. CASE invocation.readable
  <2>1. /\ at' = IF invocation.config = "yaml" THEN "yaml" ELSE "json"
        /\ invocation' = invocation /\ exit_code' = exit_code
    BY <1>3 DEF Read, GoTo
  <2>2. MayBeAt(at')
    BY <1>1, <1>3, <2>1 DEF MayBeAt
  <2> QED BY <1>1, <2>1, <2>2, GoOn
<1> QED BY <1>2, <1>3

\* A text is parsed in one of its formats.
LEMMA ParsedControl ==
  ASSUME IInv, Parsed, at # "exited", invocation.config # "none",
         invocation.readable, Formats \cap invocation.syntax # {}, ~parse_refuses
  PROVE  Control' /\ ExitTellsCause'
<1>1. /\ at' = "validate" /\ invocation' = invocation /\ exit_code' = exit_code
      /\ global'.is = into_global_config(invocation.section)
  BY DEF Parsed
<1>2. Accepted
  BY DEF Accepted
<1>3. MayBeAt(at')
  BY <1>1, <1>2 DEF MayBeAt
<1> QED BY <1>1, <1>3, GoOn DEF IInv

LEMMA FromJsonControl ==
  ASSUME IInv, FromJson
  PROVE  Control' /\ ExitTellsCause'
<1>1. /\ at = "json" /\ Control /\ invocation.config \in {"json", "other", "stdin"}
      /\ invocation.readable
  BY ConfigKinds DEF FromJson, IInv, Control
<1>2. CASE "json" \in invocation.syntax /\ ~parse_refuses
  <2>1. "json" \in Formats
    BY <1>1, ConfigKinds DEF IInv
  <2>2. Formats \cap invocation.syntax # {}
    BY <1>2, <2>1
  <2>3. Parsed
    BY <1>2 DEF FromJson
  <2> QED BY <1>1, <1>2, <2>2, <2>3, ParsedControl
<1>3. CASE /\ "json" \notin invocation.syntax \/ parse_refuses
           /\ invocation.config \in {"other", "stdin"}
  <2>1. at' = "yaml" /\ invocation' = invocation /\ exit_code' = exit_code
    BY <1>3 DEF FromJson, GoTo
  <2>2. MayBeAt(at')
    BY <1>1, <1>3, <2>1 DEF MayBeAt
  <2> QED BY <1>1, <2>1, <2>2, GoOn
<1>4. CASE /\ "json" \notin invocation.syntax \/ parse_refuses
           /\ invocation.config = "json"
  <2>1. Exit(EXIT_INVALID_CONFIG)
    BY <1>4 DEF FromJson
  <2>2. Formats = {"json"}
    BY <1>4, ConfigKinds DEF IInv
  <2>3. ~Accepted
    BY <1>4, <2>2 DEF Accepted
  <2> QED
    BY <2>1, <2>3, Ends DEF EXIT_SUCCESS, EXIT_FAILURE, EXIT_INVALID_CONFIG, NoCode
<1> QED BY <1>1, <1>2, <1>3, <1>4

LEMMA FromYamlControl ==
  ASSUME IInv, FromYaml
  PROVE  Control' /\ ExitTellsCause'
<1>1. /\ at = "yaml" /\ Control /\ invocation.config \in {"yaml", "other", "stdin"}
      /\ invocation.readable
      /\ invocation.config # "yaml" => "json" \notin invocation.syntax \/ parse_refuses
  BY ConfigKinds DEF FromYaml, IInv, Control
<1>2. Formats \in {{"yaml"}, {"json", "yaml"}} /\ (invocation.config = "yaml" => Formats = {"yaml"})
  BY <1>1, ConfigKinds DEF IInv
<1>3. CASE "yaml" \in invocation.syntax /\ ~parse_refuses
  <2>1. Formats \cap invocation.syntax # {}
    BY <1>2, <1>3
  <2>2. Parsed
    BY <1>3 DEF FromYaml
  <2> QED BY <1>1, <1>3, <2>1, <2>2, ParsedControl
<1>4. CASE "yaml" \notin invocation.syntax \/ parse_refuses
  <2>1. Exit(EXIT_INVALID_CONFIG)
    BY <1>4 DEF FromYaml
  <2>2. ~Accepted
    BY <1>1, <1>2, <1>4 DEF Accepted
  <2> QED
    BY <2>1, <2>2, Ends DEF EXIT_SUCCESS, EXIT_FAILURE, EXIT_INVALID_CONFIG, NoCode
<1> QED BY <1>3, <1>4

LEMMA ValidateControl ==
  ASSUME IInv, Validate
  PROVE  Control' /\ ExitTellsCause'
<1>1. /\ at = "validate" /\ Control /\ Accepted /\ invocation.config # "none"
      /\ global.is = into_global_config(invocation.section)
  BY DEF Validate, IInv, Control
<1>2. CASE invocation.tasks = "empty"
  <2>1. Exit(EXIT_FAILURE)
    BY <1>2 DEF Validate
  <2> QED
    BY <1>1, <1>2, <2>1, Ends DEF EXIT_SUCCESS, EXIT_FAILURE, EXIT_INVALID_CONFIG, NoCode
<1>3. CASE invocation.tasks # "empty"
  <2>1. /\ at' = "calibrate" /\ invocation' = invocation /\ exit_code' = exit_code
        /\ global' = global
    BY <1>3 DEF Validate, GoTo
  <2>2. MayBeAt(at')
    BY <1>1, <2>1 DEF MayBeAt
  <2> QED BY <1>1, <2>1, <2>2, GoOn
<1> QED BY <1>2, <1>3

LEMMA CalibratedControl ==
  ASSUME IInv, Calibrated
  PROVE  Control' /\ ExitTellsCause'
<1>1. /\ at = "calibrate" /\ Control /\ Accepted /\ invocation.config # "none"
      /\ global.is = into_global_config(invocation.section)
      /\ calib \in {"ready", "failed"} /\ calib' = calib
  BY DEF Calibrated, IInv, Control, calibVars
<1>2. CASE calib = "failed"
  <2>1. Exit(EXIT_FAILURE)
    BY <1>2 DEF Calibrated
  <2> QED
    BY <1>1, <1>2, <2>1, Ends DEF EXIT_SUCCESS, EXIT_FAILURE, EXIT_INVALID_CONFIG, NoCode
<1>3. CASE calib = "ready"
  <2>1. /\ at' = "build" /\ invocation' = invocation /\ exit_code' = exit_code
        /\ global' = global
    BY <1>3 DEF Calibrated, GoTo
  <2>2. MayBeAt(at')
    BY <1>1, <2>1 DEF MayBeAt
  <2> QED BY <1>1, <1>3, <2>1, <2>2, GoOn
<1> QED BY <1>1, <1>2, <1>3

LEMMA BuildControl ==
  ASSUME IInv, build_engine_state
  PROVE  Control' /\ ExitTellsCause'
<1>1. /\ at = "build" /\ Control /\ Accepted /\ invocation.config # "none"
      /\ global.is = into_global_config(invocation.section)
      /\ calib = "ready" /\ calib' = calib
  BY DEF build_engine_state, IInv, Control, calibVars
<1>2. CASE Exit(Panicked)
  BY <1>2, Ends DEF Panicked, EXIT_SUCCESS, EXIT_FAILURE, EXIT_INVALID_CONFIG, NoCode
<1>3. CASE GoTo("work")
  <2>1. /\ at' = "work" /\ invocation' = invocation /\ exit_code' = exit_code
        /\ global' = global
    BY <1>3 DEF GoTo
  <2>2. MayBeAt(at')
    BY <1>1, <2>1 DEF MayBeAt
  <2> QED BY <1>1, <2>1, <2>2, GoOn
<1> QED BY <1>2, <1>3 DEF build_engine_state

\* Steps that leave main where it is.
LEMMA MainWaits ==
  ASSUME IInv, UNCHANGED mainVars,
         at = "build" => calib' = "ready",
         at = "work" => calib' \in {"ready", "idle", "loading", "loaded"},
         calib = "failed" => calib' = "failed"
  PROVE  Control' /\ ExitTellsCause'
<1>1. UNCHANGED <<invocation, at, global, exit_code>>
  BY DEF mainVars
<1>2. Accepted' = Accepted /\ parse_refuses' = parse_refuses
  BY <1>1, InvocationStable
<1>3. Control'
  BY <1>1, <1>2 DEF IInv, Control
<1>4. ExitTellsCause'
  BY <1>1, <1>2 DEF IInv, ExitTellsCause
<1> QED BY <1>3, <1>4

LEMMA CalibratingControl ==
  ASSUME IInv, Calibrating
  PROVE  Control' /\ ExitTellsCause'
<1>1. at = "calibrate" /\ run_calibration /\ UNCHANGED mainVars
  BY DEF Calibrating
<1>2. calib \in {"start", "measuring", "measured"}
  BY <1>1 DEF run_calibration, UseProvided, Pin, Trial, Restore
<1> QED BY <1>1, <1>2, MainWaits

LEMMA RunEventControl ==
  ASSUME IInv, RunEvent
  PROVE  Control' /\ ExitTellsCause'
<1>1. at = "work" /\ UNCHANGED mainVars /\ \E usec \in Execs : loadwait(usec)
  BY DEF RunEvent
<1>2. calib \in {"ready", "loading"} /\ calib' \in {"idle", "loading", "loaded"}
  BY <1>1 DEF loadwait, LoadWait, Burst, LastBurst
<1> QED BY <1>1, <1>2, MainWaits

LEMMA StillControl ==
  ASSUME IInv, UNCHANGED mainVars, UNCHANGED calibVars
  PROVE  Control' /\ ExitTellsCause'
<1>1. calib' = calib
  BY DEF calibVars
<1> QED BY <1>1, MainWaits DEF IInv, Control

LEMMA InitIInv == Init => IInv
<1> SUFFICES ASSUME Init
             PROVE  IInv
  OBVIOUS
<1>1. invocation \in Invocations /\ at = "cli" /\ exit_code = NoCode
  BY DEF Init
<1>2. Control
  BY <1>1 DEF Control
<1>3. ExitTellsCause
  BY <1>1 DEF ExitTellsCause, NoCode, EXIT_SUCCESS, EXIT_FAILURE, EXIT_INVALID_CONFIG
<1>4. CalibIInv
  BY <1>1, InitCalibIInv, StartupAssumption DEF Init
<1> QED BY <1>1, <1>2, <1>3, <1>4 DEF IInv

LEMMA NextIInv == IInv /\ [Next]_vars => IInv'
<1> SUFFICES ASSUME IInv, [Next]_vars
             PROVE  IInv'
  OBVIOUS
<1>1. CalibIInv'
  BY CalibOfNext, CalibIInvStep DEF IInv
<1>2. invocation' = invocation
  BY DEF Next, vars, mainVars, ParseArguments, Read, Preprocessing, FromJson, FromYaml, Parsed,
         Validate, Calibrating, Calibrated, build_engine_state, RunEvent, BufferEvent,
         BufferWork, Exit, GoTo
<1>3. Control' /\ ExitTellsCause'
  <2>1. CASE Preprocessing \/ BufferEvent \/ BufferWork \/ UNCHANGED vars
    BY <2>1, StillControl DEF Preprocessing, BufferEvent, BufferWork, vars
  <2> QED
    BY <2>1, ParseArgumentsControl, ReadControl, FromJsonControl, FromYamlControl,
       ValidateControl, CalibratingControl, CalibratedControl, BuildControl, RunEventControl
    DEF Next
<1> QED BY <1>1, <1>2, <1>3 DEF IInv

\* main is only where it may be, with a configuration that it accepts from the
\* validation on, and what the calibration has measured is what the machine is.
THEOREM InvariantHolds == Spec => []IInv
BY InitIInv, NextIInv, PTL DEF Spec

\* The exit code tells whether the configuration or the machine is to blame, and
\* no work begins on a configuration that is refused.
THEOREM ExitCodeTellsCause == Spec => []ExitTellsCause
<1>1. IInv => ExitTellsCause
  BY DEF IInv
<1> QED BY <1>1, InvariantHolds, PTL

\* On any machine, whatever overflows while it is calibrated, a run event takes
\* at most 2 % more than it asks for, and less by the rounding of one turn of
\* the loop for each second.
THEOREM RunEventsTakeTheirTime == Spec => []WorkTakesItsTime
<1>1. IInv => WorkTakesItsTime
  BY DEF IInv, CalibIInv
<1> QED BY <1>1, InvariantHolds, PTL

----------------------------------------------------------------------------
(* What the workers start with *)

LEMMA LogSizeFacts ==
  ASSUME NEW section, \A key \in DOMAIN section : IsValue(section[key]),
         ~parse_global_refuses(section)
  PROVE  LET v == Stated(section, "log_size")
         IN  /\ \/ v.kind = "null"
                \/ v.kind = "int" /\ v.n \in Nat
                \/ v.kind = "str" /\ v = [kind |-> "str", s |-> v.s]
<1> DEFINE v == Stated(section, "log_size")
<1>1. CASE "log_size" \in DOMAIN section
  <2>1. v = section["log_size"] /\ IsValue(v)
    BY <1>1 DEF Stated
  <2>2. Accepts("log_size", v)
    BY <1>1, <2>1 DEF parse_global_refuses, Fields, Optional
  <2> HIDE DEF v
  <2>3. \/ v.kind = "null"
        \/ v.kind = "int" /\ v.n \in 0 .. Usize - 1
        \/ v.kind = "str" /\ v.s \in {"file", "disable", "auto"}
    BY <2>2, Zenon DEF Accepts, Bools, Strings
  <2>4. v.kind = "int" => v.n \in Nat
    BY <2>3, GlobalAssumption
  <2>5. v.kind = "str" => v \in [kind : {"str"}, s : STRING]
    BY <2>1 DEF IsValue
  <2>6. v.kind = "str" => v = [kind |-> "str", s |-> v.s]
    BY <2>5
  <2> QED BY <2>3, <2>4, <2>6 DEF v
<1>2. CASE "log_size" \notin DOMAIN section
  <2>1. v = Default("log_size")
    BY <1>2 DEF Stated
  <2>2. Default("log_size") = [kind |-> "null"]
    BY Zenon DEF Default, Optional, Bools
  <2> QED BY <2>1, <2>2
<1> QED BY <1>1, <1>2

LEMMA PointsFacts ==
  ASSUME NEW bytes \in Nat
  PROVE  points(bytes) # 0 /\ (points(bytes) = 1 \/ points(bytes) * PerPoint <= bytes)
<1>1. PerPoint \in Nat \ {0}
  BY GlobalAssumption
<1>2. CASE bytes < PerPoint
  BY <1>2 DEF points
<1>3. CASE bytes >= PerPoint
  <2> DEFINE whole == bytes \div PerPoint
  <2>1. whole \in Nat /\ whole * PerPoint <= bytes /\ bytes < whole * PerPoint + PerPoint
    BY <1>1, DivFacts
  <2>2. points(bytes) = whole
    BY <1>1, <1>3 DEF points
  <2> HIDE DEF whole
  <2>3. whole # 0
    BY <1>1, <1>3, <2>1
  <2> QED BY <2>1, <2>2, <2>3
<1> QED BY <1>1, <1>2, <1>3

LEMMA CapacityFacts ==
  ASSUME NEW section, \A key \in DOMAIN section : IsValue(section[key]),
         ~parse_global_refuses(section)
  PROVE  LET capacity == log_capacity_from_config(into_global_config(section))
             stated   == Stated(section, "log_size")
         IN  /\ capacity = 0 <=> stated = [kind |-> "str", s |-> "disable"]
             /\ stated.kind = "int" => capacity = 1 \/ capacity * PerPoint <= stated.n * MB
<1> DEFINE settings == into_global_config(section)
           capacity == log_capacity_from_config(settings)
           stated == Stated(section, "log_size")
<1>1. settings.log_size = LogSizeOf(stated)
  BY DEF into_global_config
<1>2. \/ stated.kind = "null"
      \/ stated.kind = "int" /\ stated.n \in Nat
      \/ stated.kind = "str" /\ stated = [kind |-> "str", s |-> stated.s]
  BY LogSizeFacts
<1> HIDE DEF settings, stated
<1>3. CASE stated.kind = "int" /\ stated.n \in Nat
  <2> DEFINE bytes == (stated.n * MB) % Usize
  <2>1. stated.n * MB \in Nat
    BY <1>3, GlobalAssumption
  <2>2. bytes \in Nat /\ bytes <= stated.n * MB
    BY <2>1, DivFacts, GlobalAssumption
  <2>3. LogSizeOf(stated) = [kind |-> "buffer", bytes |-> bytes]
    BY <1>3, Zenon DEF LogSizeOf
  <2> HIDE DEF bytes
  <2>4. settings.log_size.kind = "buffer" /\ settings.log_size.bytes = bytes
    BY <1>1, <2>3
  <2>5. capacity = points(bytes)
    BY <2>4, SMT DEF log_capacity_from_config
  <2>6. capacity # 0 /\ (capacity = 1 \/ capacity * PerPoint <= bytes)
    BY <2>2, <2>5, PointsFacts
  <2>7. stated # [kind |-> "str", s |-> "disable"]
    BY <1>3
  <2>8. capacity = 1 \/ capacity * PerPoint <= stated.n * MB
    <3>1. capacity \in Int /\ PerPoint \in Nat /\ capacity * PerPoint \in Int
      <4>1. PerPoint \in Nat \ {0}
        BY GlobalAssumption
      <4>2. points(bytes) \in Int
        BY <2>2, <4>1, DivFacts DEF points
      <4> QED BY <2>5, <4>1, <4>2
    <3> HIDE DEF capacity
    <3> QED BY <2>1, <2>2, <2>6, <3>1
  <2> QED BY <2>6, <2>7, <2>8 DEF settings, stated
<1>4. CASE stated.kind = "str" /\ stated.s = "disable"
  <2>1. LogSizeOf(stated) = [kind |-> "disabled"]
    BY <1>4, Zenon DEF LogSizeOf
  <2>2. settings.log_size.kind = "disabled"
    BY <1>1, <2>1
  <2>3. capacity = 0
    BY <2>2, SMT DEF log_capacity_from_config
  <2> QED BY <1>2, <1>4, <2>3 DEF settings, stated
<1>5. CASE stated.kind \in {"null", "str"} /\ (stated.kind = "str" => stated.s # "disable")
  <2>1. LogSizeOf(stated) = [kind |-> "file"]
    BY <1>5, Zenon DEF LogSizeOf
  <2>2. settings.log_size.kind = "file"
    BY <1>1, <2>1
  <2>3. capacity = 10000
    BY <2>2, SMT DEF log_capacity_from_config
  <2>4. stated # [kind |-> "str", s |-> "disable"] /\ stated.kind # "int"
    BY <1>5
  <2> QED BY <2>3, <2>4 DEF settings, stated
<1> QED BY <1>2, <1>3, <1>4, <1>5

\* The workers start with the affinity that main was started with, and with a
\* log of the size that the configuration states.
THEOREM WorkersStartAsAsked == Spec => []WorkStartsAsAsked
<1>1. IInv => WorkStartsAsAsked
  <2> SUFFICES ASSUME IInv, at = "work"
               PROVE  WorkStartsAsAsked
    BY DEF WorkStartsAsAsked
  <2>1. /\ Accepted /\ global.is = into_global_config(invocation.section)
        /\ affinity = Original
    BY DEF IInv, Control, CalibIInv, Affinities
  <2>2. \A key \in DOMAIN invocation.section : IsValue(invocation.section[key])
    BY StartupAssumption DEF IInv
  <2>3. ~parse_global_refuses(invocation.section)
    BY <2>1 DEF Accepted, parse_refuses
  <2> QED BY <2>1, <2>2, <2>3, CapacityFacts DEF WorkStartsAsAsked
<1> QED BY <1>1, InvariantHolds, PTL

----------------------------------------------------------------------------
(* A machine with little noise is calibrated *)

\* One trial halves what the average is short of the samples.
LEMMA TrialHalves ==
  ASSUME NEW base \in Nat, NEW noise \in Nat, 2 * (base + noise) < U32,
         NEW last \in 0..(base + noise), NEW gap \in Nat, base - 1 - last <= gap,
         NEW sample \in base..(base + noise), NEW avg, avg = Average(last, sample)
  PROVE  base - 1 - avg <= gap \div 2
<1>1. last + sample \in Nat /\ last + sample < U32 /\ U32 \in Nat \ {0}
  BY GlobalAssumption
<1>2. (last + sample) % U32 = last + sample
  BY <1>1
<1>3. avg = (last + sample) \div 2
  BY <1>2 DEF Average
<1> QED BY <1>3

\* One that is short of them by no more than one has converged.
LEMMA CloseConverges ==
  ASSUME NEW base \in Nat, NEW noise \in Nat, base >= 50 * (noise + 1) + 2,
         NEW sample \in base..(base + noise), NEW avg \in 0..(base + noise),
         base - 1 - avg <= 0
  PROVE  converged(sample, avg)
<1>1. /\ sample > avg => sample - avg <= noise + 1
      /\ ~(sample > avg) => avg - sample <= noise
  OBVIOUS
<1>2. 50 * (noise + 1) < avg
  OBVIOUS
<1> QED BY <1>1, <1>2 DEF converged

LEMMA TrialConverges ==
  ASSUME NEW halves, EnoughTrials(halves), CalibIInv, Trial,
         GapHalves(halves), SteadyConverges
  PROVE  GapHalves(halves)' /\ SteadyConverges'
<1>1. calib = "measuring" /\ machine' = machine
  BY TrialCases DEF config
<1>2. PICK sample \in machine.base..(machine.base + machine.noise), avg \in Nat :
        /\ avg = Average(avg_per_loop, sample)
        /\ \/ converged(sample, avg) /\ MethodReturns(avg)
           \/ ~converged(sample, avg) /\ trial = CAL_TRIALS /\ MethodReturns(None)
           \/ /\ ~converged(sample, avg) /\ trial # CAL_TRIALS
              /\ trial' = trial + 1 /\ avg_per_loop' = avg
              /\ calib' = calib /\ results' = results
  BY TrialCases
<1>3. Steady' <=> Steady
  BY <1>1 DEF Steady
<1>4. CASE ~Steady
  BY <1>3, <1>4 DEF GapHalves, SteadyConverges
<1>5. CASE Steady
  <2>1. /\ machine \in Machines /\ machine.base \in Nat /\ machine.noise \in Nat
        /\ avg_per_loop \in 0..(machine.base + machine.noise)
        /\ results \in Seq(Nat) /\ machine.base >= 50 * (machine.noise + 1) + 2
    BY <1>5, MachineFacts DEF CalibIInv, Measures, Steady
  <2>2. trial \in 1..CAL_TRIALS /\ machine.base - 1 - avg_per_loop <= halves[trial - 1]
    BY <1>1, <1>5 DEF GapHalves
  <2>3. /\ halves \in [0..CAL_TRIALS -> Nat] /\ halves[CAL_TRIALS] = 0
        /\ \A k \in 1..CAL_TRIALS : halves[k] = halves[k - 1] \div 2
        /\ machine.base <= halves[0] /\ 2 * (machine.base + machine.noise) < U32
        /\ CAL_TRIALS \in Nat \ {0}
    BY <2>1, CalibrationAssumption DEF EnoughTrials
  <2>4. /\ avg \in 0..(machine.base + machine.noise)
        /\ converged(sample, avg) => avg # 0
    BY <1>2, <2>1, AverageFacts
  <2>5. machine.base - 1 - avg <= halves[trial]
    <3>1. halves[trial - 1] \in Nat /\ halves[trial] = halves[trial - 1] \div 2
      BY <2>2, <2>3
    <3>2. machine.base - 1 - avg <= halves[trial - 1] \div 2
      BY <1>2, <2>1, <2>2, <2>3, <3>1, TrialHalves
    <3> QED BY <3>1, <3>2
  <2>6. CASE converged(sample, avg) /\ MethodReturns(avg)
    <3>1. avg # None /\ results' = Append(results, avg)
      BY <2>4, <2>6 DEF None, MethodReturns
    <3>2. SteadyConverges'
      <4>1. \A i \in DOMAIN results : results[i] # None
        BY <1>5 DEF SteadyConverges
      <4>2. results \in Seq(Nat) /\ avg \in Nat
        BY <2>1
      <4>3. \A i \in DOMAIN results' : results'[i] # None
        BY <3>1, <4>1, <4>2
      <4> QED BY <4>3 DEF SteadyConverges
    <3>3. calib' = "measured" \/ (trial' = 1 /\ avg_per_loop' = 0)
      BY <2>6 DEF MethodReturns, StartTrials
    <3>4. GapHalves(halves)'
      BY <1>1, <2>1, <2>3, <3>3 DEF GapHalves
    <3> QED BY <3>2, <3>4
  <2>7. CASE ~converged(sample, avg) /\ trial = CAL_TRIALS
    <3>1. machine.base - 1 - avg <= 0
      BY <2>3, <2>5, <2>7
    <3>2. converged(sample, avg)
      BY <1>2, <2>1, <2>4, <3>1, CloseConverges
    <3> QED BY <2>7, <3>2
  <2>8. CASE /\ trial # CAL_TRIALS /\ trial' = trial + 1 /\ avg_per_loop' = avg
             /\ calib' = calib /\ results' = results
    <3>1. trial' \in 1..CAL_TRIALS /\ trial' - 1 = trial
      BY <2>2, <2>3, <2>8
    <3>2. GapHalves(halves)'
      BY <1>1, <2>5, <2>8, <3>1 DEF GapHalves
    <3>3. SteadyConverges'
      BY <1>3, <2>8 DEF SteadyConverges
    <3> QED BY <3>2, <3>3
  <2> QED BY <1>2, <2>6, <2>7, <2>8
<1> QED BY <1>4, <1>5

LEMMA CalibConverges ==
  ASSUME NEW halves, EnoughTrials(halves), CalibIInv, [CalibNext]_calibVars,
         GapHalves(halves), SteadyConverges
  PROVE  GapHalves(halves)' /\ SteadyConverges'
<1>1. CASE Trial
  BY <1>1, TrialConverges
<1>2. CASE Pin
  <2>1. /\ machine' = machine /\ trial' = 1 /\ avg_per_loop' = 0 /\ results' = results
    BY <1>2 DEF Pin, StartTrials, config
  <2>2. /\ machine.base \in Nat /\ machine.base <= halves[0] /\ CAL_TRIALS \in Nat \ {0}
        /\ halves[0] \in Nat
    BY MachineFacts, CalibrationAssumption DEF CalibIInv, EnoughTrials
  <2>3. GapHalves(halves)'
    BY <2>1, <2>2 DEF GapHalves
  <2>4. SteadyConverges'
    BY <2>1 DEF SteadyConverges, Steady
  <2> QED BY <2>3, <2>4
<1>3. CASE UNCHANGED calibVars
  BY <1>3 DEF calibVars, config, trialVars, GapHalves, SteadyConverges, Steady
<1>4. CASE \/ CallCalibration(opts) \/ UseProvided \/ Restore
           \/ \E usec \in Execs : LoadWait(usec)
           \/ Burst \/ LastBurst
  <2>1. machine' = machine /\ results' = results /\ calib' # "measuring"
    BY <1>4 DEF CallCalibration, UseProvided, Restore, LoadWait, Burst, LastBurst, config
  <2> QED BY <2>1 DEF GapHalves, SteadyConverges, Steady
<1> QED BY <1>1, <1>2, <1>3, <1>4 DEF CalibNext

\* A machine with little noise is calibrated by both methods, if there are
\* trials enough to halve a turn of its loop away, and its turns are not so long
\* that the sum of two has more than 32 bits.
THEOREM SteadyMachinesConverge ==
  ASSUME NEW halves, EnoughTrials(halves)
  PROVE  Spec => []SteadyConverges
<1>1. Init => GapHalves(halves) /\ SteadyConverges
  BY DEF Init, CalibInit, GapHalves, SteadyConverges
<1>2. IInv /\ GapHalves(halves) /\ SteadyConverges /\ [Next]_vars =>
        GapHalves(halves)' /\ SteadyConverges'
  BY CalibOfNext, CalibConverges DEF IInv
<1> QED BY <1>1, <1>2, InvariantHolds, PTL DEF Spec

----------------------------------------------------------------------------
(* Sequences *)

LEMMA FrontOf ==
  ASSUME NEW S, NEW s \in Seq(S), s # <<>>
  PROVE  /\ Front(s) \in Seq(S) /\ Len(Front(s)) = Len(s) - 1
         /\ \A i \in 1..(Len(s) - 1) : Front(s)[i] = s[i]
<1>1. Len(s) \in Nat /\ Len(s) > 0 /\ \A i \in 1..(Len(s) - 1) : s[i] \in S
  OBVIOUS
<1> DEFINE n == Len(s) - 1
<1>2. n \in Int /\ 1 \in Int /\ n >= 0
  BY <1>1
<1> HIDE DEF n
<1>3. /\ SubSeq(s, 1, n) \in Seq(S)
      /\ Len(SubSeq(s, 1, n)) = IF 1 <= n THEN n - 1 + 1 ELSE 0
      /\ \A i \in 1..(n - 1 + 1) : SubSeq(s, 1, n)[i] = s[1 + i - 1]
  <2>1. \A i \in 1..n : s[i] \in S
    BY <1>1 DEF n
  <2> QED BY <1>2, <2>1, SubSeqProperties
<1>4. n - 1 + 1 = n /\ (IF 1 <= n THEN n - 1 + 1 ELSE 0) = n /\ \A i \in 1..n : 1 + i - 1 = i
  BY <1>2
<1>5. /\ SubSeq(s, 1, n) \in Seq(S) /\ Len(SubSeq(s, 1, n)) = n
      /\ \A i \in 1..n : SubSeq(s, 1, n)[i] = s[i]
  BY <1>3, <1>4
<1> QED BY <1>5 DEF Front, n

\* The prefixes of a flattened sequence.
IsFlat(S, seqs, flat) ==
  /\ flat \in [0..Len(seqs) -> Seq(S)]
  /\ flat[0] = <<>>
  /\ \A n \in 1..Len(seqs) : flat[n] = flat[n - 1] \o seqs[n]
  /\ flat[Len(seqs)] = FlattenSeq(seqs)

\* The recursion of FlattenSeq, prefix by prefix.
LEMMA FlatExists ==
  ASSUME NEW S, NEW seqs \in Seq(Seq(S))
  PROVE  \E flat : IsFlat(S, seqs, flat)
<1> DEFINE L == Len(seqs)
           Flat(f, i) == IF i = 1 THEN seqs[i] ELSE f[i - 1] \o seqs[i]
           Solves(f, n) == f = [i \in 1..n |-> Flat(f, i)]
           it == CHOOSE f : f = [i \in 1..L |-> IF i = 1 THEN seqs[i] ELSE f[i - 1] \o seqs[i]]
<1>1. L \in Nat /\ \A i \in 1..L : seqs[i] \in Seq(S)
  OBVIOUS
<1>2. FlattenSeq(seqs) = IF L = 0 THEN seqs ELSE it[L]
  BY Zenon DEF FlattenSeq
<1> DEFINE flat == [n \in 0..L |-> IF n = 0 THEN <<>> ELSE it[n]]
<1> HIDE DEF L, it
<1>3. Solves(it, L)
  <2> DEFINE Solved == {n \in 0..L : \E f : Solves(f, n)}
  <2>1. 0 \in Solved
    <3> DEFINE f == [i \in 1..0 |-> 0]
    <3>1. \A i \in 1..0 : FALSE
      OBVIOUS
    <3>2. Solves(f, 0)
      BY <3>1
    <3>3. 0 \in 0..L
      BY <1>1
    <3> HIDE DEF Solves
    <3> QED BY <3>2, <3>3
  <2>2. ASSUME NEW n \in 1..L, n - 1 \in Solved PROVE n \in Solved
    <3>1. PICK f : Solves(f, n - 1)
      BY <2>2
    <3> DEFINE h == [i \in 1..n |-> Flat(f, i)]
    <3>2. \A i \in 1..n : i # 1 => i - 1 \in 1..(n - 1) /\ i - 1 \in 1..n
      BY <1>1
    <3>3. \A i \in 1..(n - 1) : i \in 1..n /\ h[i] = f[i]
      <4> TAKE i \in 1..(n - 1)
      <4>1. i \in 1..n
        BY <1>1
      <4>2. f[i] = Flat(f, i)
        BY <3>1
      <4> QED BY <4>1, <4>2
    <3>4. \A i \in 1..n : Flat(f, i) = Flat(h, i)
      <4> HIDE DEF h
      <4> QED BY <3>2, <3>3
    <3>5. Solves(h, n)
      BY <3>4
    <3>6. n \in 0..L
      BY <1>1
    <3> HIDE DEF Solves, h
    <3> QED BY <3>5, <3>6
  <2>3. \A n \in 0..L : n \in Solved
    <3> HIDE DEF Solved
    <3> QED BY <1>1, <2>1, <2>2, UpTo
  <2>4. \E f : Solves(f, L)
    <3>1. L \in 0..L
      BY <1>1
    <3> HIDE DEF Solves
    <3> QED BY <2>3, <3>1
  <2> QED BY <2>4, Zenon DEF it
<1>4. ASSUME NEW n \in 1..L
      PROVE  n # 0 /\ n \in 0..L /\ n - 1 \in 0..L /\ (n # 1 => n - 1 \in 1..L)
  BY <1>1
<1>5. flat[0] = <<>> /\ (\A n \in 1..L : flat[n] = it[n])
  <2>1. 0 \in 0..L
    BY <1>1
  <2> QED BY <1>4, <2>1
<1> DEFINE Good == {n \in 0..L : /\ flat[n] \in Seq(S)
                                 /\ n # 0 => flat[n] = flat[n - 1] \o seqs[n]}
<1>6. 0 \in Good
  BY <1>1, <1>5
<1>7. ASSUME NEW n \in 1..L, n - 1 \in Good PROVE n \in Good
  <2>1. flat[n - 1] \in Seq(S) /\ seqs[n] \in Seq(S)
    BY <1>1, <1>7
  <2>2. flat[n] = flat[n - 1] \o seqs[n]
    <3>1. CASE n = 1
      <4>1. flat[n] = seqs[n] /\ flat[n - 1] = <<>>
        BY <1>3, <1>5, <3>1
      <4>2. <<>> \o seqs[n] = seqs[n]
        BY <2>1
      <4> HIDE DEF flat
      <4> QED BY <4>1, <4>2
    <3>2. CASE n # 1
      BY <1>3, <1>4, <1>5, <3>2
    <3> QED BY <3>1, <3>2
  <2> HIDE DEF flat
  <2>3. flat[n] \in Seq(S)
    BY <2>1, <2>2, ConcatIsSeq
  <2> QED BY <1>4, <2>2, <2>3
<1>8. \A n \in 0..L : n \in Good
  <2> HIDE DEF Good
  <2> QED BY <1>1, <1>6, <1>7, UpTo
<1>9. flat[L] = FlattenSeq(seqs)
  <2>1. CASE L = 0
    <3>1. seqs = <<>>
      BY <2>1 DEF L
    <3> QED BY <1>2, <1>5, <2>1, <3>1
  <2>2. CASE L # 0
    <3>1. L \in 1..L
      BY <1>1, <2>2
    <3> QED BY <1>2, <1>5, <2>2, <3>1
  <2> QED BY <2>1, <2>2
<1>10. flat \in [0..L -> Seq(S)] /\ \A n \in 1..L : flat[n] = flat[n - 1] \o seqs[n]
  <2>1. flat = [n \in 0..L |-> flat[n]]
    OBVIOUS
  <2>2. \A n \in 0..L : flat[n] \in Seq(S) /\ (n # 0 => flat[n] = flat[n - 1] \o seqs[n])
    BY <1>8
  <2> HIDE DEF flat
  <2> QED BY <1>4, <2>1, <2>2
<1>11. IsFlat(S, seqs, flat)
  <2> HIDE DEF flat
  <2> QED BY <1>5, <1>9, <1>10 DEF IsFlat, L
<1> HIDE DEF flat
<1> QED BY <1>11

LEMMA FlattenedIsSeq ==
  ASSUME NEW S, NEW seqs \in Seq(Seq(S))
  PROVE  FlattenSeq(seqs) \in Seq(S)
<1>1. PICK flat : IsFlat(S, seqs, flat)
  BY FlatExists
<1>2. Len(seqs) \in 0..Len(seqs)
  OBVIOUS
<1> QED BY <1>1, <1>2 DEF IsFlat

----------------------------------------------------------------------------
(* The suffixes of keys are texts, and differ *)

\* Characters are strings; the provers do not know that literals are.
Chars == STRING \cup {"\"", "\\", "/", "*", " ", "\n", ",", ":", "{", "}", "[", "]",
                      "0", "1", "2", "3", "4", "5", "6", "7", "8", "9"}

LEMMA DigitsAlphabet == IsAlphabet(Digits, Chars)
<1>1. Digits \in Seq(Chars) /\ Len(Digits) = 10
  BY DEF Digits, Chars
<1>2. \A j, k \in 1..10 : Digits[j] = Digits[k] => j = k
  BY SMTT(60) DEF Digits
<1> HIDE DEF Digits
<1> QED BY <1>1, <1>2 DEF IsAlphabet

LEMMA DecimalsAreText == \A n \in Nat : Decimal[n] \in Seq(Chars) /\ Len(Decimal[n]) > 0
BY DigitsAlphabet, NumeralsAreText DEF Decimal

\* Different numbers are formatted differently.
LEMMA DecimalsDiffer ==
  ASSUME NEW m \in Nat, NEW n \in Nat, Decimal[m] = Decimal[n]
  PROVE  m = n
BY DigitsAlphabet, NumeralsDiffer DEF Decimal

----------------------------------------------------------------------------
(* The passes make texts of texts, and pieces of them *)

\* The states of the three folds, and their steps as functions.
CommentModes == {"code", "string", "escape", "slash", "block", "star", "line"}
CommentStates == [mode : CommentModes, out : Seq(Chars)]

CommaModes == {"code", "string", "escape", "comma"}
CommaStates == [mode : CommaModes, out : Seq(Chars), held : Seq(Chars)]

PieceModes == {"code", "string", "escape"}
PieceStates == [mode : PieceModes, string : Seq(Chars), out : Seq(Seq(Chars))]

CommentFun == [p \in CommentStates \X Chars |-> CommentStep(p[1], p[2])]
CommaFun == [p \in CommaStates \X Chars |-> CommaStep(p[1], p[2])]
PieceFun == [p \in PieceStates \X Chars |-> PieceStep(p[1], p[2])]

LEMMA LiteralsAreChars ==
  /\ <<>> \in Seq(Chars) /\ <<" ">> \in Seq(Chars) /\ <<"/">> \in Seq(Chars)
  /\ <<",">> \in Seq(Chars)
  /\ \A ch \in Chars : <<ch>> \in Seq(Chars)
<1>1. " " \in Chars /\ "/" \in Chars /\ "," \in Chars
  BY DEF Chars
<1>2. <<>> \in Seq(Chars)
  OBVIOUS
<1>3. ASSUME NEW ch \in Chars PROVE <<ch>> \in Seq(Chars)
  OBVIOUS
<1> QED BY <1>1, <1>2, <1>3

LEMMA ToStays ==
  ASSUME NEW s \in CommentStates, NEW mode \in CommentModes, NEW pushed \in Seq(Chars)
  PROVE  To(s, mode, pushed) \in CommentStates
<1>1. s.out \o pushed \in Seq(Chars)
  BY DEF CommentStates
<1> QED BY <1>1 DEF CommentStates, To

LEMMA CommentStays ==
  ASSUME NEW s \in CommentStates, NEW ch \in Chars
  PROVE  CommentStep(s, ch) \in CommentStates
<1>1. \A m \in CommentModes : To(s, m, <<ch>>) \in CommentStates
  BY LiteralsAreChars, ToStays
<1>2. \A m \in CommentModes : To(s, m, <<>>) \in CommentStates
  BY LiteralsAreChars, ToStays
<1>3. InString(s, ch) \in CommentStates
  BY <1>1 DEF InString, CommentModes
<1>4. ASSUME NEW r \in CommentStates PROVE OutsideComment(r, ch) \in CommentStates
  <2>1. \A m \in CommentModes : To(r, m, <<ch>>) \in CommentStates /\ To(r, m, <<>>) \in CommentStates
    BY LiteralsAreChars, ToStays
  <2> QED BY <2>1 DEF OutsideComment, CommentModes
<1>5. To(s, "code", <<"/">>) \in CommentStates /\ To(s, "code", <<" ">>) \in CommentStates
  BY LiteralsAreChars, ToStays DEF CommentModes
<1>6. s.mode \in CommentModes
  BY DEF CommentStates
<1> QED BY <1>1, <1>2, <1>3, <1>4, <1>5, <1>6 DEF CommentStep, CommentModes

LEMMA CommentRuns ==
  ASSUME NEW input \in Seq(Chars), NEW base \in CommentStates
  PROVE  RunsTo(CommentStates, CommentFun, base, input, FoldLeft(CommentStep, base, input))
<1> DEFINE D == DOMAIN input
           it == CHOOSE g : g = [s \in SUBSET D |-> IF s = {} THEN base
                                  ELSE CommentStep(g[s \ {Max(s)}], input[Max(s)])]
           Solves(g) == g = [s \in SUBSET D |-> IF s = {} THEN base
                                  ELSE CommentStep(g[s \ {Max(s)}], input[Max(s)])]
<1>1. FoldLeft(CommentStep, base, input) = it[D]
  BY Zenon DEF FoldLeft, MapThenFoldSet
<1>2. /\ CommentFun \in [CommentStates \X Chars -> CommentStates]
      /\ \A s \in CommentStates, x \in Chars : CommentFun[<<s, x>>] = CommentStep(s, x)
  BY CommentStays DEF CommentFun
<1>3. PICK g : IsFold(CommentStates, Chars, CommentFun, base, input, g)
  <2> HIDE DEF it
  <2> QED BY <1>2, FoldExists
<1>4. Solves(g)
  <2> HIDE DEF it
  <2>1. g = [s \in SUBSET D |-> FoldStep(CommentFun, base, input, g, s)]
    BY <1>3 DEF IsFold
  <2>2. \A s \in SUBSET D : s # {} =>
          FoldStep(CommentFun, base, input, g, s) = CommentStep(g[s \ {Max(s)}], input[Max(s)])
    BY <1>2, <1>3 DEF IsFold, FoldStep
  <2>3. FoldStep(CommentFun, base, input, g, {}) = base
    BY DEF FoldStep
  <2> QED BY <2>1, <2>2, <2>3
<1>5. Solves(it)
  BY <1>4, Zenon
<1> HIDE DEF it
<1>6. it[{}] = base
  BY <1>5
<1>7. ASSUME NEW s \in SUBSET D, s # {}, it[s \ {Max(s)}] \in CommentStates
      PROVE  it[s] = CommentFun[<<it[s \ {Max(s)}], input[Max(s)]>>]
  <2>1. input[Max(s)] \in Chars
    BY <1>3, <1>7 DEF IsFold
  <2>2. it[s] = CommentStep(it[s \ {Max(s)}], input[Max(s)])
    BY <1>5, <1>7
  <2> QED BY <1>2, <1>7, <2>1, <2>2
<1>8. Iterates(CommentStates, CommentFun, base, input, it)
  BY <1>6, <1>7 DEF Iterates
<1>9. RunsTo(CommentStates, CommentFun, base, input, it[D])
  BY <1>2, <1>8, FoldRuns
<1> QED BY <1>1, <1>9

LEMMA CommentsStripped ==
  ASSUME NEW input \in Seq(Chars)
  PROVE  strip_comments(input) \in Seq(Chars)
<1> DEFINE start == [mode |-> "code", out |-> <<>>]
           end == FoldLeft(CommentStep, start, input)
<1>1. start \in CommentStates
  BY DEF CommentStates, CommentModes
<1> HIDE DEF end
<1>2. RunsTo(CommentStates, CommentFun, start, input, end)
  BY <1>1, CommentRuns DEF end
<1>3. end \in CommentStates
  BY <1>2, RunsIntoStates
<1>4. strip_comments(input) =
        end.out \o (CASE end.mode = "slash"            -> <<"/">>
                      [] end.mode \in {"block", "star"} -> <<" ">>
                      [] OTHER                          -> <<>>)
  BY Zenon DEF strip_comments, end
<1> DEFINE rest == CASE end.mode = "slash"            -> <<"/">>
                     [] end.mode \in {"block", "star"} -> <<" ">>
                     [] OTHER                          -> <<>>
<1>5. rest \in Seq(Chars)
  BY LiteralsAreChars
<1>6. end.out \in Seq(Chars)
  BY <1>3 DEF CommentStates
<1> HIDE DEF rest
<1>7. end.out \o rest \in Seq(Chars)
  BY <1>5, <1>6, ConcatIsSeq
<1> QED BY <1>4, <1>7 DEF rest

LEMMA CommaStays ==
  ASSUME NEW s \in CommaStates, NEW ch \in Chars
  PROVE  CommaStep(s, ch) \in CommaStates
<1>1. ASSUME NEW r \in CommaStates, NEW m \in CommaModes, NEW pushed \in Seq(Chars)
      PROVE  To(r, m, pushed) \in CommaStates
  <2>1. r.out \o pushed \in Seq(Chars)
    BY DEF CommaStates
  <2> QED BY <2>1 DEF CommaStates, To
<1>2. <<ch>> \in Seq(Chars) /\ <<",">> \in Seq(Chars) /\ <<>> \in Seq(Chars)
  BY LiteralsAreChars
<1>3. InString(s, ch) \in CommaStates
  <2>1. \A m \in CommaModes : To(s, m, <<ch>>) \in CommaStates
    BY <1>1, <1>2
  <2> QED BY <2>1 DEF InString, CommaModes
<1>4. ASSUME NEW r \in CommaStates PROVE OutsideComma(r, ch) \in CommaStates
  <2>1. \A m \in CommaModes : To(r, m, <<ch>>) \in CommaStates
    BY <1>1, <1>2
  <2>2. [r EXCEPT !.mode = "comma", !.held = <<>>] \in CommaStates
    BY <1>2 DEF CommaStates, CommaModes
  <2> QED BY <2>1, <2>2 DEF OutsideComma, CommaModes
<1>5. s.held \in Seq(Chars)
  BY DEF CommaStates
<1>6. [s EXCEPT !.held = Append(@, ch)] \in CommaStates
  <2>1. Append(s.held, ch) \in Seq(Chars)
    BY <1>5
  <2> QED BY <2>1 DEF CommaStates
<1> DEFINE comma == IF ch \in Closing THEN <<>> ELSE <<",">>
           r == To(s, "code", comma \o s.held)
<1>7. r \in CommaStates
  <2>1. comma \in Seq(Chars)
    BY <1>2
  <2> HIDE DEF comma
  <2>2. comma \o s.held \in Seq(Chars)
    BY <2>1, <1>5, ConcatIsSeq
  <2>3. "code" \in CommaModes
    BY DEF CommaModes
  <2> QED BY <1>1, <2>2, <2>3
<1>8. s.mode \in CommaModes
  BY DEF CommaStates
<1> HIDE DEF r
<1>9. OutsideComma(s, ch) \in CommaStates /\ OutsideComma(r, ch) \in CommaStates
  BY <1>4, <1>7
<1>10. CASE s.mode \in {"string", "escape"}
  BY <1>3, <1>10 DEF CommaStep
<1>11. CASE s.mode = "code"
  BY <1>9, <1>11 DEF CommaStep
<1>12. CASE s.mode = "comma"
  <2>1. CommaStep(s, ch) = IF ch \in White THEN [s EXCEPT !.held = Append(@, ch)]
                           ELSE OutsideComma(r, ch)
    BY <1>12 DEF CommaStep, r
  <2> QED BY <2>1, <1>6, <1>9
<1> QED BY <1>8, <1>10, <1>11, <1>12 DEF CommaModes

LEMMA CommaRuns ==
  ASSUME NEW input \in Seq(Chars), NEW base \in CommaStates
  PROVE  RunsTo(CommaStates, CommaFun, base, input, FoldLeft(CommaStep, base, input))
<1> DEFINE D == DOMAIN input
           it == CHOOSE g : g = [s \in SUBSET D |-> IF s = {} THEN base
                                  ELSE CommaStep(g[s \ {Max(s)}], input[Max(s)])]
           Solves(g) == g = [s \in SUBSET D |-> IF s = {} THEN base
                                  ELSE CommaStep(g[s \ {Max(s)}], input[Max(s)])]
<1>1. FoldLeft(CommaStep, base, input) = it[D]
  BY Zenon DEF FoldLeft, MapThenFoldSet
<1>2. /\ CommaFun \in [CommaStates \X Chars -> CommaStates]
      /\ \A s \in CommaStates, x \in Chars : CommaFun[<<s, x>>] = CommaStep(s, x)
  BY CommaStays DEF CommaFun
<1>3. PICK g : IsFold(CommaStates, Chars, CommaFun, base, input, g)
  <2> HIDE DEF it
  <2> QED BY <1>2, FoldExists
<1>4. Solves(g)
  <2> HIDE DEF it
  <2>1. g = [s \in SUBSET D |-> FoldStep(CommaFun, base, input, g, s)]
    BY <1>3 DEF IsFold
  <2>2. \A s \in SUBSET D : s # {} =>
          FoldStep(CommaFun, base, input, g, s) = CommaStep(g[s \ {Max(s)}], input[Max(s)])
    BY <1>2, <1>3 DEF IsFold, FoldStep
  <2>3. FoldStep(CommaFun, base, input, g, {}) = base
    BY DEF FoldStep
  <2> QED BY <2>1, <2>2, <2>3
<1>5. Solves(it)
  BY <1>4, Zenon
<1> HIDE DEF it
<1>6. it[{}] = base
  BY <1>5
<1>7. ASSUME NEW s \in SUBSET D, s # {}, it[s \ {Max(s)}] \in CommaStates
      PROVE  it[s] = CommaFun[<<it[s \ {Max(s)}], input[Max(s)]>>]
  <2>1. input[Max(s)] \in Chars
    BY <1>3, <1>7 DEF IsFold
  <2>2. it[s] = CommaStep(it[s \ {Max(s)}], input[Max(s)])
    BY <1>5, <1>7
  <2> QED BY <1>2, <1>7, <2>1, <2>2
<1>8. Iterates(CommaStates, CommaFun, base, input, it)
  BY <1>6, <1>7 DEF Iterates
<1>9. RunsTo(CommaStates, CommaFun, base, input, it[D])
  BY <1>2, <1>8, FoldRuns
<1> QED BY <1>1, <1>9

LEMMA CommasStripped ==
  ASSUME NEW input \in Seq(Chars)
  PROVE  strip_trailing_commas(input) \in Seq(Chars)
<1> DEFINE start == [mode |-> "code", out |-> <<>>, held |-> <<>>]
           end == FoldLeft(CommaStep, start, input)
<1>1. start \in CommaStates
  BY DEF CommaStates, CommaModes
<1> HIDE DEF end
<1>2. RunsTo(CommaStates, CommaFun, start, input, end)
  BY <1>1, CommaRuns DEF end
<1>3. end \in CommaStates
  BY <1>2, RunsIntoStates
<1>4. strip_trailing_commas(input) =
        IF end.mode = "comma" THEN end.out \o <<",">> \o end.held ELSE end.out
  BY Zenon DEF strip_trailing_commas, end
<1>5. end.out \in Seq(Chars) /\ end.held \in Seq(Chars)
  BY <1>3 DEF CommaStates
<1>6. (end.out \o <<",">>) \o end.held \in Seq(Chars)
  <2>1. end.out \o <<",">> \in Seq(Chars)
    BY <1>5, LiteralsAreChars, ConcatIsSeq
  <2> QED BY <1>5, <2>1, ConcatIsSeq
<1> QED BY <1>4, <1>5, <1>6

LEMMA PieceStays ==
  ASSUME NEW s \in PieceStates, NEW ch \in Chars
  PROVE  PieceStep(s, ch) \in PieceStates
<1> DEFINE whole == Append(s.string, ch)
<1>1. /\ s.string \in Seq(Chars) /\ s.out \in Seq(Seq(Chars)) /\ s.mode \in PieceModes
      /\ whole \in Seq(Chars) /\ <<ch>> \in Seq(Chars) /\ <<>> \in Seq(Chars)
  <2>1. s.string \in Seq(Chars) /\ s.out \in Seq(Seq(Chars)) /\ s.mode \in PieceModes
    BY DEF PieceStates
  <2>2. whole \in Seq(Chars)
    BY <2>1
  <2> QED BY <2>1, <2>2, LiteralsAreChars
<1> HIDE DEF whole
<1>2. Append(s.out, whole) \in Seq(Seq(Chars)) /\ Append(s.out, <<ch>>) \in Seq(Seq(Chars))
  BY <1>1
<1>3. [s EXCEPT !.out = Append(@, <<ch>>)] \in PieceStates
  BY <1>2 DEF PieceStates
<1>4. [s EXCEPT !.mode = "string", !.string = <<ch>>] \in PieceStates
  BY <1>1 DEF PieceStates, PieceModes
<1>5. [mode |-> "code", string |-> <<>>, out |-> Append(s.out, whole)] \in PieceStates
  BY <1>1, <1>2 DEF PieceStates, PieceModes
<1>6. \A m \in PieceModes : [s EXCEPT !.string = whole, !.mode = m] \in PieceStates
  BY <1>1 DEF PieceStates
<1>7. [s EXCEPT !.string = whole,
         !.mode = IF s.mode = "string" /\ ch = "\\" THEN "escape" ELSE "string"] \in PieceStates
  BY <1>6 DEF PieceModes
<1>8. CASE s.mode = "code" /\ ch # "\""
  BY <1>3, <1>8 DEF PieceStep
<1>9. CASE s.mode = "code" /\ ch = "\""
  BY <1>4, <1>9 DEF PieceStep
<1>10. CASE s.mode = "string" /\ ch = "\""
  BY <1>5, <1>10 DEF PieceStep, whole
<1>11. CASE s.mode # "code" /\ ~(s.mode = "string" /\ ch = "\"")
  BY <1>7, <1>11 DEF PieceStep, whole
<1> QED BY <1>8, <1>9, <1>10, <1>11

LEMMA PieceRuns ==
  ASSUME NEW input \in Seq(Chars), NEW base \in PieceStates
  PROVE  RunsTo(PieceStates, PieceFun, base, input, FoldLeft(PieceStep, base, input))
<1> DEFINE D == DOMAIN input
           it == CHOOSE g : g = [s \in SUBSET D |-> IF s = {} THEN base
                                  ELSE PieceStep(g[s \ {Max(s)}], input[Max(s)])]
           Solves(g) == g = [s \in SUBSET D |-> IF s = {} THEN base
                                  ELSE PieceStep(g[s \ {Max(s)}], input[Max(s)])]
<1>1. FoldLeft(PieceStep, base, input) = it[D]
  BY Zenon DEF FoldLeft, MapThenFoldSet
<1>2. /\ PieceFun \in [PieceStates \X Chars -> PieceStates]
      /\ \A s \in PieceStates, x \in Chars : PieceFun[<<s, x>>] = PieceStep(s, x)
  BY PieceStays DEF PieceFun
<1>3. PICK g : IsFold(PieceStates, Chars, PieceFun, base, input, g)
  <2> HIDE DEF it
  <2> QED BY <1>2, FoldExists
<1>4. Solves(g)
  <2> HIDE DEF it
  <2>1. g = [s \in SUBSET D |-> FoldStep(PieceFun, base, input, g, s)]
    BY <1>3 DEF IsFold
  <2>2. \A s \in SUBSET D : s # {} =>
          FoldStep(PieceFun, base, input, g, s) = PieceStep(g[s \ {Max(s)}], input[Max(s)])
    BY <1>2, <1>3 DEF IsFold, FoldStep
  <2>3. FoldStep(PieceFun, base, input, g, {}) = base
    BY DEF FoldStep
  <2> QED BY <2>1, <2>2, <2>3
<1>5. Solves(it)
  BY <1>4, Zenon
<1> HIDE DEF it
<1>6. it[{}] = base
  BY <1>5
<1>7. ASSUME NEW s \in SUBSET D, s # {}, it[s \ {Max(s)}] \in PieceStates
      PROVE  it[s] = PieceFun[<<it[s \ {Max(s)}], input[Max(s)]>>]
  <2>1. input[Max(s)] \in Chars
    BY <1>3, <1>7 DEF IsFold
  <2>2. it[s] = PieceStep(it[s \ {Max(s)}], input[Max(s)])
    BY <1>5, <1>7
  <2> QED BY <1>2, <1>7, <2>1, <2>2
<1>8. Iterates(PieceStates, PieceFun, base, input, it)
  BY <1>6, <1>7 DEF Iterates
<1>9. RunsTo(PieceStates, PieceFun, base, input, it[D])
  BY <1>2, <1>8, FoldRuns
<1> QED BY <1>1, <1>9

LEMMA PiecesAreText ==
  ASSUME NEW input \in Seq(Chars)
  PROVE  Pieces(input) \in Seq(Seq(Chars))
<1> DEFINE start == [mode |-> "code", string |-> <<>>, out |-> <<>>]
           end == FoldLeft(PieceStep, start, input)
<1>1. start \in PieceStates
  BY DEF PieceStates, PieceModes
<1> HIDE DEF end
<1>2. RunsTo(PieceStates, PieceFun, start, input, end)
  BY <1>1, PieceRuns DEF end
<1>3. end \in PieceStates
  BY <1>2, RunsIntoStates
<1>4. Pieces(input) = IF end.mode = "code" THEN end.out ELSE Append(end.out, end.string)
  BY Zenon DEF Pieces, end
<1>5. end.out \in Seq(Seq(Chars)) /\ Append(end.out, end.string) \in Seq(Seq(Chars))
  BY <1>3 DEF PieceStates
<1> QED BY <1>4, <1>5

Tokens == [kind : TokenKinds, text : Seq(STRING)]

LEMMA TokensAreText ==
  ASSUME NEW tokens \in Seq(Tokens)
  PROVE  Text(tokens) \in Seq(Chars)
<1> DEFINE seqs == [i \in DOMAIN tokens |-> tokens[i].text]
<1>1. ASSUME NEW t \in Seq(STRING) PROVE t \in Seq(Chars)
  <2>1. Len(t) \in Nat /\ t \in [1..Len(t) -> STRING]
    BY LenProperties
  <2>2. \A c \in STRING : c \in Chars
    BY DEF Chars
  <2>3. t \in [1..Len(t) -> Chars]
    BY <2>1, <2>2
  <2> QED BY <2>1, <2>3, FunIsSeq
<1>2. Len(tokens) \in Nat /\ DOMAIN tokens = 1..Len(tokens)
      /\ \A i \in 1..Len(tokens) : tokens[i].text \in Seq(STRING)
  <2>1. Len(tokens) \in Nat /\ DOMAIN tokens = 1..Len(tokens)
        /\ \A i \in 1..Len(tokens) : tokens[i] \in Tokens
    OBVIOUS
  <2>2. \A x \in Tokens : x.text \in Seq(STRING)
    BY DEF Tokens
  <2> QED BY <2>1, <2>2
<1>3. seqs \in [1..Len(tokens) -> Seq(Chars)]
  BY <1>1, <1>2
<1> HIDE DEF seqs
<1>4. seqs \in Seq(Seq(Chars))
  BY <1>2, <1>3, FunIsSeq
<1>5. FlattenSeq(seqs) \in Seq(Chars)
  BY <1>4, FlattenedIsSeq
<1> QED BY <1>5 DEF Text, seqs

----------------------------------------------------------------------------
(* deduplicate_keys, a step and a run of it *)

LEMMA ContentIsText ==
  ASSUME NEW p \in Seq(Chars)
  PROVE  Content(p) \in Seq(Chars) /\ Quoted(p) \in Seq(Chars)
<1>1. \A i \in 2..(Len(p) - 1) : p[i] \in Chars
  OBVIOUS
<1>2. SubSeq(p, 2, Len(p) - 1) \in Seq(Chars)
  BY <1>1, SubSeqProperties
<1>3. <<"\"">> \in Seq(Chars)
  <2>1. "\"" \in Chars
    BY DEF Chars
  <2> QED BY <2>1, OneIsSeq
<1>4. (<<"\"">> \o p) \o <<"\"">> \in Seq(Chars)
  <2>1. <<"\"">> \o p \in Seq(Chars)
    BY <1>3, ConcatIsSeq
  <2> QED BY <1>3, <2>1, ConcatIsSeq
<1> QED BY <1>2, <1>4 DEF Content, Quoted

\* find_unique_key ends, with a key that its object does not have yet, whatever
\* keys that has, also ones that were written with a number: one suffix more
\* than there are keys is enough.
THEOREM UniqueKey ==
  ASSUME NEW seen, IsFiniteSet(seen), NEW base \in Seq(Chars)
  PROVE  \E n \in 1..(Cardinality(seen) + 1) :
           /\ find_unique_key(seen, base) = base \o Decimal[n]
           /\ base \o Decimal[n] \notin seen
<1> DEFINE c == Cardinality(seen)
           S == 1..(c + 1)
           f == [n \in S |-> base \o Decimal[n]]
           free == {n \in S : base \o Decimal[n] \notin seen}
<1>1. c \in Nat
  BY FS_CardinalityType
<1>2. IsFiniteSet(S) /\ Cardinality(S) = c + 1
  <2>1. c + 1 \in Int /\ ~(1 > c + 1)
    BY <1>1
  <2> QED BY <1>1, <2>1, FS_Interval
<1>3. \A m, n \in S : f[m] = f[n] => m = n
  <2> TAKE m, n \in S
  <2> HAVE f[m] = f[n]
  <2>1. m \in Nat /\ n \in Nat
    BY <1>1
  <2>2. Decimal[m] \in Seq(Chars) /\ Decimal[n] \in Seq(Chars)
    BY <2>1, DecimalsAreText
  <2>3. base \o Decimal[m] = base \o Decimal[n]
    OBVIOUS
  <2>4. Decimal[m] = Decimal[n]
    BY <2>2, <2>3, ConcatCancels
  <2> QED BY <2>1, <2>4, DecimalsDiffer
<1>4. free # {}
  <2> SUFFICES ASSUME free = {} PROVE FALSE
    OBVIOUS
  <2>1. f \in [S -> seen]
    OBVIOUS
  <2>2. c < Cardinality(S)
    BY <1>1, <1>2
  <2> HIDE DEF f, S
  <2>3. \E x, y \in S : x # y /\ f[x] = f[y]
    BY <1>2, <2>1, <2>2, FS_PigeonHole
  <2> QED BY <2>3, <1>3
<1>5. PICK m \in free : \A n \in free : m <= n
  <2>1. free \subseteq Nat
    BY <1>1
  <2> HIDE DEF free
  <2> QED BY <1>4, <2>1, LeastNatural
<1>6. Min(free) \in free
  <2> HIDE DEF free
  <2> QED BY <1>5 DEF Min
<1>7. find_unique_key(seen, base) = base \o Decimal[Min(free)]
  BY Zenon DEF find_unique_key
<1>8. Min(free) \in S /\ base \o Decimal[Min(free)] \notin seen
  <2> DEFINE k == Min(free)
  <2>1. k \in free
    BY <1>6
  <2> HIDE DEF k
  <2> QED BY <2>1 DEF k
<1> HIDE DEF free
<1> QED BY <1>7, <1>8

\* deduplicate_keys
\* The sets on the stack, the states of KeyStep, and the pieces it is given.
KeySets == {keys \in SUBSET Seq(Chars) : IsFiniteSet(keys)}
KeyStates == [stack : Seq(KeySets), out : Seq(Seq(Chars))]
KeyPieces == {p \in [text : Seq(Chars), is_key : BOOLEAN] : p.is_key => IsString(p.text)}

\* The name that a key gets.
Name(stack, string) ==
  IF Content(string) \in Last(stack) THEN find_unique_key(Last(stack), Content(string))
  ELSE Content(string)

\* The state t that a piece leads to.
KeyCases(s, piece, t) ==
  \/ /\ piece.text = <<"{">>
     /\ t = [stack |-> Append(s.stack, {}), out |-> Append(s.out, piece.text)]
  \/ /\ piece.text = <<"}">>
     /\ t = [stack |-> CloseObject(s.stack), out |-> Append(s.out, piece.text)]
  \/ /\ piece.text # <<"{">> /\ piece.text # <<"}">>
     /\ piece.is_key /\ s.stack # <<>>
     /\ t = [stack |-> [s.stack EXCEPT ![Len(s.stack)] = @ \cup {Name(s.stack, piece.text)}],
             out |-> Append(s.out, Quoted(Name(s.stack, piece.text)))]
  \/ /\ piece.text # <<"{">> /\ piece.text # <<"}">>
     /\ ~(piece.is_key /\ s.stack # <<>>)
     /\ t = [stack |-> s.stack, out |-> Append(s.out, piece.text)]

LEMMA BracesAreNoStrings ==
  <<"{">> # <<"}">> /\ ~IsString(<<"{">>) /\ ~IsString(<<"}">>)
<1>1. <<"{">>[1] # <<"}">>[1] /\ <<"{">>[1] # "\"" /\ <<"}">>[1] # "\""
  OBVIOUS
<1> QED BY <1>1 DEF IsString

\* A state is given by its stack and its output.
LEMMA StateOf ==
  ASSUME NEW A, NEW B, NEW s \in [stack : A, out : B], NEW a \in A, NEW b \in B
  PROVE  /\ [stack |-> a, out |-> b] \in [stack : A, out : B]
         /\ [s EXCEPT !.out = b] = [stack |-> s.stack, out |-> b]
OBVIOUS

LEMMA KeyStepCases ==
  ASSUME NEW s \in KeyStates, NEW piece \in KeyPieces
  PROVE  KeyCases(s, piece, KeyStep(s, piece))
<1>1. piece.is_key => piece.text # <<"{">> /\ piece.text # <<"}">>
  BY BracesAreNoStrings DEF KeyPieces
<1>2. CASE piece.text = <<"{">>
  <2>1. KeyStep(s, piece) = [stack |-> Append(s.stack, {}), out |-> Append(s.out, piece.text)]
    BY <1>1, <1>2, BracesAreNoStrings DEF KeyStep
  <2> QED BY <2>1, <1>2 DEF KeyCases
<1>3. CASE piece.text = <<"}">>
  <2>1. KeyStep(s, piece) = [stack |-> CloseObject(s.stack), out |-> Append(s.out, piece.text)]
    BY <1>1, <1>3, BracesAreNoStrings DEF KeyStep
  <2> QED BY <2>1, <1>3 DEF KeyCases
<1>4. CASE piece.text # <<"{">> /\ piece.text # <<"}">> /\ piece.is_key /\ s.stack # <<>>
  BY <1>4 DEF KeyCases, KeyStep, Name
<1>5. CASE piece.text # <<"{">> /\ piece.text # <<"}">> /\ ~(piece.is_key /\ s.stack # <<>>)
  <2>1. KeyStep(s, piece) = [s EXCEPT !.out = Append(@, piece.text)]
    BY <1>5 DEF KeyStep
  <2>2. Append(s.out, piece.text) \in Seq(Seq(Chars))
    BY DEF KeyStates, KeyPieces
  <2>3. s.stack \in Seq(KeySets) /\ s \in [stack : Seq(KeySets), out : Seq(Seq(Chars))]
    BY DEF KeyStates
  <2>4. [s EXCEPT !.out = Append(s.out, piece.text)]
          = [stack |-> s.stack, out |-> Append(s.out, piece.text)]
    <3> DEFINE o == Append(s.out, piece.text)
    <3> HIDE DEF o
    <3>1. o \in Seq(Seq(Chars))
      BY <2>2 DEF o
    <3>2. [s EXCEPT !.out = o] = [stack |-> s.stack, out |-> o]
      BY <2>3, <3>1, StateOf
    <3> QED BY <3>2 DEF o
  <2> QED BY <1>5, <2>1, <2>4 DEF KeyCases
<1> QED BY <1>2, <1>3, <1>4, <1>5

LEMMA NameIsNew ==
  ASSUME NEW stack \in Seq(KeySets), stack # <<>>, NEW string \in Seq(Chars)
  PROVE  /\ Last(stack) = stack[Len(stack)] /\ Len(stack) \in DOMAIN stack
         /\ stack[Len(stack)] \in KeySets
         /\ Name(stack, string) \in Seq(Chars) /\ Name(stack, string) \notin Last(stack)
         /\ \/ Name(stack, string) = Content(string)
            \/ /\ Content(string) \in Last(stack)
               /\ \E n \in 1..(Cardinality(Last(stack)) + 1) :
                    Name(stack, string) = Content(string) \o Decimal[n]
<1>1. Last(stack) = stack[Len(stack)] /\ Len(stack) \in DOMAIN stack
      /\ stack[Len(stack)] \in KeySets
  BY DEF Last
<1>2. Content(string) \in Seq(Chars)
  BY ContentIsText
<1>3. CASE Content(string) \in Last(stack)
  <2>1. IsFiniteSet(Last(stack))
    BY <1>1 DEF KeySets
  <2> DEFINE found == find_unique_key(Last(stack), Content(string))
  <2>2. PICK n \in 1..(Cardinality(Last(stack)) + 1) :
          /\ found = Content(string) \o Decimal[n]
          /\ Content(string) \o Decimal[n] \notin Last(stack)
    BY <1>2, <2>1, UniqueKey
  <2>3. n \in Nat
    BY <2>1, FS_CardinalityType
  <2>4. Decimal[n] \in Seq(Chars)
    BY <2>3, DecimalsAreText
  <2>5. found \in Seq(Chars)
    BY <1>2, <2>2, <2>4
  <2>6. Name(stack, string) = found
    BY <1>3 DEF Name
  <2> HIDE DEF found
  <2> QED BY <1>1, <1>3, <2>2, <2>5, <2>6
<1>4. CASE Content(string) \notin Last(stack)
  BY <1>1, <1>2, <1>4 DEF Name
<1> QED BY <1>3, <1>4

LEMMA KeyStays ==
  ASSUME NEW s \in KeyStates, NEW piece \in KeyPieces
  PROVE  KeyStep(s, piece) \in KeyStates
<1> DEFINE t == KeyStep(s, piece)
<1> SUFFICES t \in KeyStates
  OBVIOUS
<1>1. s.stack \in Seq(KeySets) /\ s.out \in Seq(Seq(Chars)) /\ piece.text \in Seq(Chars)
  BY DEF KeyStates, KeyPieces
<1>2. KeyCases(s, piece, t)
  BY KeyStepCases
<1> HIDE DEF t
<1>3. Append(s.out, piece.text) \in Seq(Seq(Chars))
  BY <1>1
<1>4. CASE t = [stack |-> Append(s.stack, {}), out |-> Append(s.out, piece.text)]
  <2>1. {} \in KeySets
    BY FS_EmptySet DEF KeySets
  <2>2. Append(s.stack, {}) \in Seq(KeySets)
    BY <1>1, <2>1
  <2> QED BY <1>3, <1>4, <2>2 DEF KeyStates
<1>5. CASE t = [stack |-> CloseObject(s.stack), out |-> Append(s.out, piece.text)]
  <2>1. CloseObject(s.stack) \in Seq(KeySets)
    <3>1. CASE s.stack = <<>>
      BY <3>1 DEF CloseObject
    <3>2. CASE s.stack # <<>>
      <4>1. Front(s.stack) \in Seq(KeySets)
        BY <1>1, <3>2, FrontOf
      <4> QED BY <3>2, <4>1 DEF CloseObject
    <3> QED BY <3>1, <3>2
  <2> QED BY <1>3, <1>5, <2>1 DEF KeyStates
<1>6. CASE /\ s.stack # <<>>
           /\ t = [stack |-> [s.stack EXCEPT ![Len(s.stack)] = @ \cup {Name(s.stack, piece.text)}],
                   out |-> Append(s.out, Quoted(Name(s.stack, piece.text)))]
  <2> DEFINE name == Name(s.stack, piece.text)
             top == s.stack[Len(s.stack)]
  <2>1. name \in Seq(Chars) /\ top \in KeySets /\ Len(s.stack) \in DOMAIN s.stack
    BY <1>1, <1>6, NameIsNew
  <2> HIDE DEF name
  <2>2. top \cup {name} \in KeySets
    BY <2>1, FS_AddElement DEF KeySets
  <2>3. [s.stack EXCEPT ![Len(s.stack)] = top \cup {name}] \in Seq(KeySets)
    <3> HIDE DEF top
    <3> QED BY <1>1, <2>1, <2>2
  <2>4. Append(s.out, Quoted(name)) \in Seq(Seq(Chars))
    <3>1. Quoted(name) \in Seq(Chars)
      BY <2>1, ContentIsText
    <3> QED BY <1>1, <3>1
  <2> QED BY <1>6, <2>3, <2>4 DEF KeyStates, name
<1>7. CASE t = [stack |-> s.stack, out |-> Append(s.out, piece.text)]
  BY <1>1, <1>3, <1>7 DEF KeyStates
<1> QED BY <1>2, <1>4, <1>5, <1>6, <1>7 DEF KeyCases

\* KeyStep as a function, and the states it passes through.
KeyStepFun == [p \in KeyStates \X KeyPieces |-> KeyStep(p[1], p[2])]

LEMMA KeyStepRuns ==
  ASSUME NEW input \in Seq(KeyPieces), NEW base \in KeyStates
  PROVE  RunsTo(KeyStates, KeyStepFun, base, input, FoldLeft(KeyStep, base, input))
<1> DEFINE D == DOMAIN input
           it == CHOOSE g : g = [s \in SUBSET D |-> IF s = {} THEN base
                                  ELSE KeyStep(g[s \ {Max(s)}], input[Max(s)])]
           Solves(g) == g = [s \in SUBSET D |-> IF s = {} THEN base
                                  ELSE KeyStep(g[s \ {Max(s)}], input[Max(s)])]
<1>1. FoldLeft(KeyStep, base, input) = it[D]
  BY Zenon DEF FoldLeft, MapThenFoldSet
<1>2. /\ KeyStepFun \in [KeyStates \X KeyPieces -> KeyStates]
      /\ \A s \in KeyStates, x \in KeyPieces : KeyStepFun[<<s, x>>] = KeyStep(s, x)
  BY KeyStays DEF KeyStepFun
<1>3. PICK g : IsFold(KeyStates, KeyPieces, KeyStepFun, base, input, g)
  <2> HIDE DEF it
  <2> QED BY <1>2, FoldExists
<1>4. Solves(g)
  <2> HIDE DEF it
  <2>1. g = [s \in SUBSET D |-> FoldStep(KeyStepFun, base, input, g, s)]
    BY <1>3 DEF IsFold
  <2>2. \A s \in SUBSET D : s # {} =>
          FoldStep(KeyStepFun, base, input, g, s) = KeyStep(g[s \ {Max(s)}], input[Max(s)])
    BY <1>2, <1>3 DEF IsFold, FoldStep
  <2>3. FoldStep(KeyStepFun, base, input, g, {}) = base
    BY DEF FoldStep
  <2> QED BY <2>1, <2>2, <2>3
<1>5. Solves(it)
  BY <1>4, Zenon
<1> HIDE DEF it
<1>6. it[{}] = base
  BY <1>5
<1>7. ASSUME NEW s \in SUBSET D, s # {}, it[s \ {Max(s)}] \in KeyStates
      PROVE  it[s] = KeyStepFun[<<it[s \ {Max(s)}], input[Max(s)]>>]
  <2>1. input[Max(s)] \in KeyPieces
    BY <1>3, <1>7 DEF IsFold
  <2>2. it[s] = KeyStep(it[s \ {Max(s)}], input[Max(s)])
    BY <1>5, <1>7
  <2> QED BY <1>2, <1>7, <2>1, <2>2
<1>8. Iterates(KeyStates, KeyStepFun, base, input, it)
  BY <1>6, <1>7 DEF Iterates
<1>9. RunsTo(KeyStates, KeyStepFun, base, input, it[D])
  BY <1>2, <1>8, FoldRuns
<1> QED BY <1>1, <1>9

\* What a step pushes.
Pushed(s, piece) ==
  IF piece.is_key /\ s.stack # <<>> THEN Quoted(Name(s.stack, piece.text)) ELSE piece.text

LEMMA KeyStepPushes ==
  ASSUME NEW s \in KeyStates, NEW piece \in KeyPieces
  PROVE  /\ KeyStep(s, piece).out = Append(s.out, Pushed(s, piece))
         /\ Pushed(s, piece) \in Seq(Chars)
<1>1. piece.is_key => piece.text # <<"{">> /\ piece.text # <<"}">>
  BY BracesAreNoStrings DEF KeyPieces
<1>2. KeyCases(s, piece, KeyStep(s, piece))
  BY KeyStepCases
<1> DEFINE t == KeyStep(s, piece)
<1>3. t.out = Append(s.out, Pushed(s, piece))
  <2>1. KeyCases(s, piece, t)
    BY <1>2
  <2> HIDE DEF t
  <2> DEFINE pushed == Append(s.out, piece.text)
             renamed == Append(s.out, Quoted(Name(s.stack, piece.text)))
  <2>2. \/ ~(piece.is_key /\ s.stack # <<>>) /\ \E a : t = [stack |-> a, out |-> pushed]
        \/ piece.is_key /\ s.stack # <<>> /\ \E a : t = [stack |-> a, out |-> renamed]
    <3> HIDE DEF pushed, renamed
    <3>1. KeyCases(s, piece, t) =>
            \/ ~(piece.is_key /\ s.stack # <<>>) /\ \E a : t = [stack |-> a, out |-> pushed]
            \/ piece.is_key /\ s.stack # <<>> /\ \E a : t = [stack |-> a, out |-> renamed]
      BY <1>1, Zenon DEF KeyCases, pushed, renamed
    <3> QED BY <2>1, <3>1
  <2>3. \A a, b : [stack |-> a, out |-> b].out = b
    OBVIOUS
  <2>4. \/ ~(piece.is_key /\ s.stack # <<>>) /\ t.out = pushed
        \/ piece.is_key /\ s.stack # <<>> /\ t.out = renamed
    <3> HIDE DEF pushed, renamed
    <3> QED BY <2>2, <2>3
  <2> QED BY <2>4 DEF Pushed
<1>4. Pushed(s, piece) \in Seq(Chars)
  <2>1. s.stack \in Seq(KeySets) /\ piece.text \in Seq(Chars)
    BY DEF KeyStates, KeyPieces
  <2>2. s.stack # <<>> => Name(s.stack, piece.text) \in Seq(Chars)
    BY <2>1, NameIsNew
  <2>3. s.stack # <<>> => Quoted(Name(s.stack, piece.text)) \in Seq(Chars)
    BY <2>2, ContentIsText
  <2> QED BY <2>1, <2>3 DEF Pushed
<1> QED BY <1>3, <1>4

\* A run of deduplicate_keys over marked pieces, and its output.
IsKeyRun(all, run) ==
  /\ all \in Seq(KeyPieces) /\ run \in [0..Len(all) -> KeyStates]
  /\ run[0] = [stack |-> <<>>, out |-> <<>>]
  /\ \A n \in 1..Len(all) : run[n] = KeyStep(run[n - 1], all[n])

\* What is pushed for a piece stays in the output, at the place of the piece.
LEMMA RunPushes ==
  ASSUME NEW all, NEW run, IsKeyRun(all, run)
  PROVE  LET p == run[Len(all)].out
         IN  /\ p \in Seq(Seq(Chars)) /\ Len(p) = Len(all)
             /\ \A n \in 1..Len(all) : p[n] = Pushed(run[n - 1], all[n])
<1> DEFINE L == Len(all)
           q(n) == Pushed(run[n - 1], all[n])
           Fine(n) == Len(run[n].out) = n /\ \A k \in 1..n : run[n].out[k] = q(k)
           Good == {n \in 0..L : Fine(n)}
<1>1. /\ L \in Nat /\ \A n \in 0..L : run[n].out \in Seq(Seq(Chars))
      /\ \A n \in 1..L : n - 1 \in 0..L /\ n \in 0..L /\ all[n] \in KeyPieces
  <2>1. all \in Seq(KeyPieces) /\ \A n \in 0..L : run[n] \in KeyStates
    BY DEF IsKeyRun
  <2>2. \A n \in 0..L : run[n].out \in Seq(Seq(Chars))
    BY <2>1 DEF KeyStates
  <2>3. L \in Nat /\ \A n \in 1..L : all[n] \in KeyPieces
    BY <2>1
  <2> HIDE DEF L
  <2> QED BY <2>2, <2>3
<1>2. 0 \in Good
  <2>1. run[0].out = <<>>
    BY DEF IsKeyRun
  <2>2. Fine(0)
    BY <2>1
  <2>3. 0 \in 0..L
    BY <1>1
  <2> HIDE DEF Fine
  <2> QED BY <2>2, <2>3
<1>3. ASSUME NEW n \in 1..L, n - 1 \in Good PROVE n \in Good
  <2> DEFINE r == run[n - 1].out
             x == q(n)
  <2>1. run[n].out = Append(r, x)
    <3>1. run[n - 1] \in KeyStates /\ all[n] \in KeyPieces /\ run[n] = KeyStep(run[n - 1], all[n])
      BY <1>1 DEF IsKeyRun
    <3> QED BY <3>1, KeyStepPushes
  <2>2. Fine(n - 1)
    BY <1>3
  <2>3. r \in Seq(Seq(Chars)) /\ Len(r) = n - 1 /\ n \in Nat
        /\ \A k \in 1..(n - 1) : r[k] = q(k)
    BY <1>1, <2>2
  <2> HIDE DEF r, q
  <2>4. /\ Len(Append(r, x)) = n /\ Append(r, x)[n] = x
        /\ \A k \in 1..(n - 1) : Append(r, x)[k] = r[k]
    BY <2>3
  <2>5. Fine(n)
    <3>1. \A k \in 1..n : k = n \/ k \in 1..(n - 1)
      BY <2>3
    <3> QED BY <2>1, <2>3, <2>4, <3>1
  <2>6. n \in 0..L
    BY <1>1
  <2> HIDE DEF Fine
  <2> QED BY <2>5, <2>6
<1>4. \A n \in 0..L : n \in Good
  <2> HIDE DEF Good, L
  <2> QED BY <1>1, <1>2, <1>3, UpTo
<1>5. L \in 0..L
  BY <1>1
<1>6. Fine(L)
  BY <1>4, <1>5
<1> QED BY <1>1, <1>5, <1>6

LEMMA QuotedIsString ==
  ASSUME NEW c \in Seq(Chars)
  PROVE  IsString(Quoted(c))
<1> DEFINE q == <<"\"">>
<1>1. q \in Seq(Chars) /\ q # <<>> /\ Head(q) = "\""
  <2>1. "\"" \in Chars
    BY DEF Chars
  <2> QED BY <2>1, OneIsSeq
<1> HIDE DEF q
<1>2. q \o c \in Seq(Chars) /\ q \o c # <<>> /\ Head(q \o c) = "\""
  BY <1>1, ConcatHeads
<1> DEFINE v == q \o c
<1>3. v \in Seq(Chars) /\ v # <<>> /\ Head(v) = "\""
  BY <1>2
<1> HIDE DEF v
<1>4. Head(v \o q) = "\""
  BY <1>1, <1>3, ConcatHeads
<1> QED BY <1>4 DEF IsString, Quoted, q, v

LEMMA QuotedDiffer ==
  ASSUME NEW a \in Seq(Chars), NEW b \in Seq(Chars), Quoted(a) = Quoted(b)
  PROVE  a = b
<1> DEFINE q == <<"\"">>
<1>1. q \in Seq(Chars) /\ Len(q) = 1
  <2>1. "\"" \in Chars
    BY DEF Chars
  <2> QED BY <2>1, OneIsSeq
<1> HIDE DEF q
<1>2. (q \o a) \o q = (q \o b) \o q
  BY DEF Quoted, q
<1>3. /\ q \o a \in Seq(Chars) /\ q \o b \in Seq(Chars)
      /\ a \o q \in Seq(Chars) /\ b \o q \in Seq(Chars)
  BY <1>1, ConcatIsSeq
<1>4. q \o (a \o q) = q \o (b \o q)
  <2>1. (q \o a) \o q = q \o (a \o q)
    BY <1>1, ConcatAssociative
  <2>2. (q \o b) \o q = q \o (b \o q)
    BY <1>1, ConcatAssociative
  <2> QED BY <1>2, <2>1, <2>2
<1>5. a \o q = b \o q
  BY <1>1, <1>3, <1>4, ConcatCancels
<1>6. Len(a) = Len(b)
  <2>1. Len(a \o q) = Len(a) + 1 /\ Len(b \o q) = Len(b) + 1
    BY <1>1, ConcatIsSeq
  <2> QED BY <1>5, <2>1
<1>7. \A i \in 1..Len(a) : a[i] = b[i]
  <2> TAKE i \in 1..Len(a)
  <2>1. (a \o q)[i] = a[i] /\ (b \o q)[i] = b[i]
    BY <1>1, <1>6
  <2> QED BY <2>1, <1>5
<1> QED BY <1>6, <1>7, SeqEqual

----------------------------------------------------------------------------
(* The braces around a piece *)

\* How many elements T has after j and up to n.
Count(T, j, n) == Cardinality(T \cap ((j + 1)..n))

LEMMA CountFacts ==
  ASSUME NEW T, NEW j \in Nat, NEW n \in Nat
  PROVE  /\ IsFiniteSet(T \cap ((j + 1)..n)) /\ Count(T, j, n) \in Nat
         /\ Count(T, j, j) = 0
<1>1. IsFiniteSet((j + 1)..n)
  BY FS_Interval
<1>2. IsFiniteSet(T \cap ((j + 1)..n))
  <2>1. T \cap ((j + 1)..n) \in SUBSET ((j + 1)..n)
    OBVIOUS
  <2> QED BY <1>1, <2>1, FS_Subset
<1>3. T \cap ((j + 1)..j) = {}
  OBVIOUS
<1> QED BY <1>2, <1>3, FS_CardinalityType, FS_EmptySet DEF Count

LEMMA CountNext ==
  ASSUME NEW T, NEW j \in Nat, NEW n \in Nat, j < n
  PROVE  /\ n \in T => Count(T, j, n) = Count(T, j, n - 1) + 1
         /\ n \notin T => Count(T, j, n) = Count(T, j, n - 1)
<1> DEFINE S == T \cap ((j + 1)..(n - 1))
           U == T \cap ((j + 1)..n)
<1>1. IsFiniteSet(S) /\ n \notin S
  <2>1. n - 1 \in Nat
    OBVIOUS
  <2> QED BY <2>1, CountFacts
<1>2. n \in T => U = S \cup {n}
  OBVIOUS
<1>3. n \notin T => U = S
  OBVIOUS
<1> HIDE DEF S, U
<1>4. n \in T => Cardinality(U) = Cardinality(S) + 1
  BY <1>1, <1>2, FS_AddElement
<1>5. Count(T, j, n) = Cardinality(U) /\ Count(T, j, n - 1) = Cardinality(S)
  BY DEF Count, U, S
<1> QED BY <1>3, <1>4, <1>5

LEMMA CountSplits ==
  ASSUME NEW T, NEW j \in Nat, NEW m \in Nat, NEW n \in Nat, j <= m, m <= n
  PROVE  Count(T, j, n) = Count(T, j, m) + Count(T, m, n)
<1> DEFINE Good == {k \in m..n : Count(T, j, k) = Count(T, j, m) + Count(T, m, k)}
<1>1. m \in Good
  <2>1. Count(T, m, m) = 0 /\ Count(T, j, m) \in Nat
    BY CountFacts
  <2>2. Count(T, j, m) = Count(T, j, m) + Count(T, m, m) /\ m \in m..n
    BY <2>1
  <2> QED BY <2>2
<1>2. ASSUME NEW k \in (m + 1)..n, k - 1 \in Good PROVE k \in Good
  <2>1. k \in Nat /\ j < k /\ m < k /\ k - 1 \in Nat
    OBVIOUS
  <2>2. Count(T, j, k - 1) = Count(T, j, m) + Count(T, m, k - 1)
    BY <1>2
  <2>3. Count(T, j, m) \in Nat /\ Count(T, m, k - 1) \in Nat
    BY <2>1, CountFacts
  <2>4. Count(T, j, k) = Count(T, j, m) + Count(T, m, k)
    <3>1. CASE k \in T
      <4>1. Count(T, j, k) = Count(T, j, k - 1) + 1 /\ Count(T, m, k) = Count(T, m, k - 1) + 1
        BY <2>1, <3>1, CountNext
      <4> QED BY <4>1, <2>2, <2>3
    <3>2. CASE k \notin T
      <4>1. Count(T, j, k) = Count(T, j, k - 1) /\ Count(T, m, k) = Count(T, m, k - 1)
        BY <2>1, <3>2, CountNext
      <4> QED BY <4>1, <2>2
    <3> QED BY <3>1, <3>2
  <2>5. k \in m..n
    OBVIOUS
  <2> QED BY <2>4, <2>5
<1>3. \A k \in m..n : k \in Good
  <2> HIDE DEF Good
  <2> QED BY <1>1, <1>2, FromTo
<1>4. n \in m..n
  OBVIOUS
<1> QED BY <1>3, <1>4

\* The depth that braces lead to, as a stack that cannot be popped when it is
\* empty sees it.
IsDepth(d, L, O, C) ==
  /\ O \cap C = {} /\ d \in [0..L -> Nat]
  /\ \A n \in 1..L : /\ n \in O => d[n] = d[n - 1] + 1
                     /\ n \in C => d[n] = IF d[n - 1] = 0 THEN 0 ELSE d[n - 1] - 1
                     /\ n \notin O /\ n \notin C => d[n] = d[n - 1]

\* j is the last brace that as many are closed as are opened after, up to n.
IsInside(j, n, O, C) ==
  /\ j \in O /\ Count(O, j, n) = Count(C, j, n)
  /\ \A k \in (j + 1)..n : k \in O => Count(O, k, n) # Count(C, k, n)

\* Up to n the stack is never shorter than it was at j, and at n it is as long.
LEMMA InsideIsDeep ==
  ASSUME NEW L \in Nat, NEW O, NEW C, NEW d, IsDepth(d, L, O, C),
         NEW j \in 1..L, NEW n \in j..L, IsInside(j, n, O, C)
  PROVE  d[n] = d[j] /\ d[j] > 0 /\ \A m \in j..n : d[m] >= d[j]
<1> DEFINE b(m) == Count(O, j, m) - Count(C, j, m)
<1>1. j \in Nat /\ n \in Nat /\ j <= n /\ n <= L /\ \A m \in j..n : m \in Nat
  OBVIOUS
<1>2. b(j) = 0 /\ b(n) = 0 /\ \A m \in j..n : b(m) \in Int
  <2>1. /\ Count(O, j, j) = 0 /\ Count(C, j, j) = 0
        /\ Count(O, j, n) = Count(C, j, n) /\ Count(O, j, n) \in Nat
    BY <1>1, CountFacts DEF IsInside
  <2>2. \A m \in j..n : Count(O, j, m) \in Nat /\ Count(C, j, m) \in Nat
    BY <1>1, CountFacts
  <2> QED BY <2>1, <2>2
<1>3. \A m \in (j + 1)..n : /\ m \in O => b(m) = b(m - 1) + 1
                            /\ m \in C => b(m) = b(m - 1) - 1
                            /\ m \notin O /\ m \notin C => b(m) = b(m - 1)
  <2> TAKE m \in (j + 1)..n
  <2>1. m \in Nat /\ j < m /\ m - 1 \in Nat
    BY <1>1
  <2>2. Count(O, j, m - 1) \in Nat /\ Count(C, j, m - 1) \in Nat
    BY <1>1, <2>1, CountFacts
  <2>3. /\ m \in O => Count(O, j, m) = Count(O, j, m - 1) + 1
        /\ m \notin O => Count(O, j, m) = Count(O, j, m - 1)
        /\ m \in C => Count(C, j, m) = Count(C, j, m - 1) + 1
        /\ m \notin C => Count(C, j, m) = Count(C, j, m - 1)
    BY <1>1, <2>1, CountNext
  <2>4. ~(m \in O /\ m \in C)
    BY DEF IsDepth
  <2> QED BY <2>2, <2>3, <2>4
<1>4. \A m \in j..n : b(m) >= 0
  <2> DEFINE Bad == {m \in j..n : ~(b(m) >= 0)}
  <2> SUFFICES ASSUME Bad # {} PROVE FALSE
    OBVIOUS
  <2>1. Bad \in SUBSET (1..n)
    BY <1>1
  <2> DEFINE m == Max(Bad)
  <2>2. m \in Bad /\ \A k \in Bad : k <= m
    <3> HIDE DEF Bad
    <3> QED BY <1>1, <2>1, MaxOf
  <2> HIDE DEF m
  <2>3. m \in j..n /\ ~(b(m) >= 0)
    BY <2>2
  <2>4. m # n
    <3> HIDE DEF b
    <3> QED BY <1>2, <2>3
  <2>5. m + 1 \in (j + 1)..n /\ m + 1 \in j..n /\ (m + 1) - 1 = m /\ m \in Int /\ m + 1 \in Nat
    BY <1>1, <2>3, <2>4
  <2>6. b(m + 1) >= 0
    <3> HIDE DEF b
    <3>1. m + 1 \notin Bad
      <4> HIDE DEF Bad
      <4>1. ~(m + 1 <= m)
        BY <2>5
      <4> QED BY <2>2, <4>1
    <3> QED BY <2>5, <3>1
  <2>7. m + 1 \in O /\ b(m + 1) = 0
    <3>1. /\ m + 1 \in O => b(m + 1) = b(m) + 1
          /\ m + 1 \in C => b(m + 1) = b(m) - 1
          /\ m + 1 \notin O /\ m + 1 \notin C => b(m + 1) = b(m)
      BY <1>3, <2>5
    <3>2. b(m) \in Int /\ b(m + 1) \in Int
      BY <1>2, <2>3, <2>5
    <3> HIDE DEF b
    <3> QED BY <2>3, <2>6, <3>1, <3>2
  <2>8. /\ Count(O, j, n) = Count(O, j, m + 1) + Count(O, m + 1, n)
        /\ Count(C, j, n) = Count(C, j, m + 1) + Count(C, m + 1, n)
    <3>1. j <= m + 1 /\ m + 1 <= n
      BY <1>1, <2>5
    <3> QED BY <1>1, <2>5, <3>1, CountSplits
  <2>9. /\ Count(O, j, m + 1) \in Nat /\ Count(O, m + 1, n) \in Nat
        /\ Count(C, j, m + 1) \in Nat /\ Count(C, m + 1, n) \in Nat
    BY <1>1, <2>5, CountFacts
  <2>10. Count(O, j, n) = Count(C, j, n)
    BY DEF IsInside
  <2>11. Count(O, m + 1, n) = Count(C, m + 1, n)
    BY <2>7, <2>8, <2>9, <2>10
  <2> QED BY <2>5, <2>7, <2>11 DEF IsInside
<1> HIDE DEF b
<1>5. d[j] > 0 /\ \A m \in 0..L : d[m] \in Nat
  <2>1. j \in O /\ d[j] = d[j - 1] + 1 /\ d[j - 1] \in Nat
    BY <1>1 DEF IsDepth, IsInside
  <2> QED BY <2>1 DEF IsDepth
<1>6. \A m \in j..n : d[m] = d[j] + b(m)
  <2> DEFINE Good == {m \in j..n : d[m] = d[j] + b(m)}
  <2>1. j \in Good
    BY <1>1, <1>2, <1>5
  <2>2. ASSUME NEW m \in (j + 1)..n, m - 1 \in Good PROVE m \in Good
    <3>1. m \in j..n /\ m - 1 \in j..n /\ m \in 1..L /\ m \in 0..L /\ m - 1 \in 0..L
      BY <1>1
    <3>2. d[m - 1] = d[j] + b(m - 1)
      BY <2>2
    <3>3. d[m - 1] \in Nat /\ d[j] \in Nat /\ d[m] \in Nat
      BY <1>1, <1>5, <3>1
    <3>4. b(m - 1) >= 0 /\ b(m) >= 0 /\ b(m - 1) \in Int /\ b(m) \in Int
      BY <1>2, <1>4, <3>1
    <3>5. d[m] = d[j] + b(m)
      <4>1. CASE m \in O
        <5>1. d[m] = d[m - 1] + 1 /\ b(m) = b(m - 1) + 1
          BY <1>3, <3>1, <4>1 DEF IsDepth
        <5> QED BY <5>1, <3>2, <3>3, <3>4
      <4>2. CASE m \in C
        <5>1. d[m] = (IF d[m - 1] = 0 THEN 0 ELSE d[m - 1] - 1) /\ b(m) = b(m - 1) - 1
          BY <1>3, <3>1, <4>2 DEF IsDepth
        <5>2. d[m - 1] # 0
          BY <1>5, <3>2, <3>3, <3>4
        <5> QED BY <5>1, <5>2, <3>2, <3>3, <3>4
      <4>3. CASE m \notin O /\ m \notin C
        <5>1. d[m] = d[m - 1] /\ b(m) = b(m - 1)
          BY <1>3, <3>1, <4>3 DEF IsDepth
        <5> QED BY <5>1, <3>2
      <4> QED BY <4>1, <4>2, <4>3
    <3> QED BY <3>1, <3>5
  <2>3. \A m \in j..n : m \in Good
    <3> HIDE DEF Good
    <3> QED BY <1>1, <2>1, <2>2, FromTo
  <2> QED BY <2>3
<1>7. n \in j..n /\ j \in 0..L /\ \A m \in j..n : m \in 0..L
  BY <1>1
<1> QED BY <1>2, <1>4, <1>5, <1>6, <1>7

----------------------------------------------------------------------------
(* The stack of key sets *)

\* How the stack changes, case by case.
StackCases(before, after, piece) ==
  \/ piece.text = <<"{">> /\ after = Append(before, {})
  \/ piece.text = <<"}">> /\ after = CloseObject(before)
  \/ /\ piece.text # <<"{">> /\ piece.text # <<"}">>
     /\ piece.is_key /\ before # <<>>
     /\ after = [before EXCEPT ![Len(before)] =
                   before[Len(before)] \cup {Name(before, piece.text)}]
  \/ /\ piece.text # <<"{">> /\ piece.text # <<"}">>
     /\ ~(piece.is_key /\ before # <<>>) /\ after = before

LEMMA StackCasesHold ==
  ASSUME NEW s, NEW piece, NEW t, KeyCases(s, piece, t)
  PROVE  StackCases(s.stack, t.stack, piece)
<1> DEFINE before == s.stack
           after == t.stack
           name == Name(before, piece.text)
           pushed == Append(before, {})
           popped == CloseObject(before)
           grown == [before EXCEPT ![Len(before)] = before[Len(before)] \cup {name}]
           before2 == before
<1> HIDE DEF pushed, popped, grown, before2, name
<1>1. \/ piece.text = <<"{">> /\ \E o : t = [stack |-> pushed, out |-> o]
      \/ piece.text = <<"}">> /\ \E o : t = [stack |-> popped, out |-> o]
      \/ /\ piece.text # <<"{">> /\ piece.text # <<"}">>
         /\ piece.is_key /\ before # <<>>
         /\ \E o : t = [stack |-> grown, out |-> o]
      \/ /\ piece.text # <<"{">> /\ piece.text # <<"}">>
         /\ ~(piece.is_key /\ before # <<>>)
         /\ \E o : t = [stack |-> before2, out |-> o]
  BY Zenon DEF KeyCases, name, pushed, popped, grown, before2
<1>2. \A a, o : t = [stack |-> a, out |-> o] => after = a
  OBVIOUS
<1>3. \/ piece.text = <<"{">> /\ after = pushed
      \/ piece.text = <<"}">> /\ after = popped
      \/ /\ piece.text # <<"{">> /\ piece.text # <<"}">>
         /\ piece.is_key /\ before # <<>> /\ after = grown
      \/ /\ piece.text # <<"{">> /\ piece.text # <<"}">>
         /\ ~(piece.is_key /\ before # <<>>) /\ after = before2
  BY <1>1, <1>2, Zenon
<1> QED BY <1>3, Zenon DEF StackCases, pushed, popped, grown, before2, name

\* What a piece does to the stack.
StackStep(before, after, piece) ==
  /\ before \in Seq(KeySets) /\ after \in Seq(KeySets) /\ piece \in KeyPieces
  /\ piece.text = <<"{">> => Len(after) = Len(before) + 1
  /\ piece.text = <<"}">> => Len(after) = IF Len(before) = 0 THEN 0 ELSE Len(before) - 1
  /\ piece.text # <<"{">> /\ piece.text # <<"}">> => Len(after) = Len(before)
  /\ \A k \in 1..Len(before) : k <= Len(after) => before[k] \subseteq after[k]
  /\ piece.is_key /\ before # <<>> => Name(before, piece.text) \in after[Len(before)]

LEMMA StackSteps ==
  ASSUME NEW all, NEW run, IsKeyRun(all, run), NEW n \in 1..Len(all)
  PROVE  StackStep(run[n - 1].stack, run[n].stack, all[n])
<1> DEFINE piece == all[n]
           before == run[n - 1].stack
           after == run[n].stack
           name == Name(before, piece.text)
<1> SUFFICES StackStep(before, after, piece)
  OBVIOUS
<1>1. /\ run[n - 1] \in KeyStates /\ run[n] \in KeyStates /\ piece \in KeyPieces
      /\ run[n] = KeyStep(run[n - 1], piece)
  <2>1. Len(all) \in Nat
    BY DEF IsKeyRun
  <2>2. n - 1 \in 0..Len(all) /\ n \in 0..Len(all)
    BY <2>1
  <2> QED BY <2>2 DEF IsKeyRun
<1>2. before \in Seq(KeySets) /\ after \in Seq(KeySets)
  BY <1>1 DEF KeyStates
<1>3. piece.is_key => piece.text # <<"{">> /\ piece.text # <<"}">>
  BY <1>1, BracesAreNoStrings DEF KeyPieces
<1>4. KeyCases(run[n - 1], piece, run[n])
  BY <1>1, KeyStepCases
<1>5. \/ piece.text = <<"{">> /\ after = Append(before, {})
      \/ piece.text = <<"}">> /\ after = CloseObject(before)
      \/ /\ piece.text # <<"{">> /\ piece.text # <<"}">>
         /\ piece.is_key /\ before # <<>>
         /\ after = [before EXCEPT ![Len(before)] = before[Len(before)] \cup {name}]
      \/ /\ piece.text # <<"{">> /\ piece.text # <<"}">>
         /\ ~(piece.is_key /\ before # <<>>) /\ after = before
  <2>1. StackCases(before, after, piece)
    BY <1>4, StackCasesHold
  <2> HIDE DEF piece, before, after
  <2> QED BY <2>1 DEF StackCases, name
<1> HIDE DEF piece, before, after, name
<1>6. Len(before) \in Nat
  BY <1>2
<1>7. CASE piece.text = <<"{">> /\ after = Append(before, {})
  <2>1. Len(after) = Len(before) + 1 /\ \A k \in 1..Len(before) : after[k] = before[k]
    <3> DEFINE none == {}
    <3>1. none \in KeySets
      BY FS_EmptySet DEF KeySets
    <3>2. after = Append(before, none)
      BY <1>7
    <3> HIDE DEF none
    <3>3. /\ Len(Append(before, none)) = Len(before) + 1
          /\ \A k \in 1..Len(before) : Append(before, none)[k] = before[k]
      BY <1>2, <3>1, AppendProperties
    <3> QED BY <3>2, <3>3
  <2> QED BY <1>1, <1>2, <1>3, <1>7, <2>1, BracesAreNoStrings DEF StackStep
<1>8. CASE piece.text = <<"}">> /\ after = CloseObject(before)
  <2>1. CASE before = <<>>
    <3>1. after = before /\ Len(before) = 0
      BY <1>8, <2>1 DEF CloseObject
    <3>2. Len(after) = Len(before) /\ \A k \in 1..Len(before) : before[k] \subseteq after[k]
      BY <3>1
    <3>3. ~piece.is_key /\ piece.text # <<"{">>
      BY <1>3, <1>8, BracesAreNoStrings
    <3> QED BY <1>1, <1>2, <1>8, <3>1, <3>2, <3>3 DEF StackStep
  <2>2. CASE before # <<>>
    <3>1. after = Front(before) /\ Len(before) # 0
      BY <1>2, <1>8, <2>2, EmptySeq DEF CloseObject
    <3>2. Len(after) = Len(before) - 1 /\ \A k \in 1..(Len(before) - 1) : after[k] = before[k]
      BY <1>2, <2>2, <3>1, FrontOf
    <3>3. \A k \in 1..Len(before) : k <= Len(after) => before[k] \subseteq after[k]
      BY <1>6, <3>2
    <3> QED BY <1>1, <1>2, <1>3, <1>8, <3>1, <3>2, <3>3, BracesAreNoStrings DEF StackStep
  <2> QED BY <2>1, <2>2
<1>9. CASE /\ piece.text # <<"{">> /\ piece.text # <<"}">>
           /\ piece.is_key /\ before # <<>>
           /\ after = [before EXCEPT ![Len(before)] = before[Len(before)] \cup {name}]
  <2> DEFINE top == before[Len(before)] \cup {name}
  <2> HIDE DEF top
  <2>1. Len(before) \in 1..Len(before)
    <3>1. Len(before) \in Nat \ {0}
      BY <1>2, <1>9, EmptySeq
    <3> QED BY <3>1
  <2>2. after = [before EXCEPT ![Len(before)] = top]
    BY <1>9 DEF top
  <2>3. DOMAIN before = 1..Len(before) /\ DOMAIN after = DOMAIN before
    BY <1>2, <2>2
  <2>4. Len(after) = Len(before)
    BY <1>2, <1>6, <2>3, LenProperties
  <2>5. \A k \in 1..Len(before) : after[k] = IF k = Len(before) THEN top ELSE before[k]
    BY <2>2, <2>3
  <2>6. after[Len(before)] = top
    BY <2>1, <2>5
  <2>7. name \in top /\ before[Len(before)] \subseteq top
    BY DEF top
  <2> QED BY <1>1, <1>2, <1>9, <2>4, <2>5, <2>6, <2>7 DEF StackStep, name
<1>10. CASE /\ piece.text # <<"{">> /\ piece.text # <<"}">>
            /\ ~(piece.is_key /\ before # <<>>) /\ after = before
  BY <1>1, <1>2, <1>10 DEF StackStep
<1> QED BY <1>5, <1>7, <1>8, <1>9, <1>10

\* Where braces are among marked pieces, and the depth of their stack.
Opening(all) == {k \in 1..Len(all) : all[k].text = <<"{">>}
Ending(all) == {k \in 1..Len(all) : all[k].text = <<"}">>}
Depth(all, run) == [n \in 0..Len(all) |-> Len(run[n].stack)]

\* The length of the stack is the depth that the braces lead to.
LEMMA DepthIsDepth ==
  ASSUME NEW all, NEW run, IsKeyRun(all, run)
  PROVE  IsDepth(Depth(all, run), Len(all), Opening(all), Ending(all))
<1>1. Len(all) \in Nat /\ \A n \in 0..Len(all) : Len(run[n].stack) \in Nat
  BY DEF IsKeyRun, KeyStates
<1>2. Opening(all) \cap Ending(all) = {}
  BY BracesAreNoStrings DEF Opening, Ending
<1>3. ASSUME NEW n \in 1..Len(all)
      PROVE  /\ n \in Opening(all) => Len(run[n].stack) = Len(run[n - 1].stack) + 1
             /\ n \in Ending(all) =>
                  Len(run[n].stack) = IF Len(run[n - 1].stack) = 0 THEN 0
                                      ELSE Len(run[n - 1].stack) - 1
             /\ n \notin Opening(all) /\ n \notin Ending(all) =>
                  Len(run[n].stack) = Len(run[n - 1].stack)
  <2>1. /\ all[n].text = <<"{">> => Len(run[n].stack) = Len(run[n - 1].stack) + 1
        /\ all[n].text = <<"}">> =>
             Len(run[n].stack) = IF Len(run[n - 1].stack) = 0 THEN 0
                                 ELSE Len(run[n - 1].stack) - 1
        /\ all[n].text # <<"{">> /\ all[n].text # <<"}">> =>
             Len(run[n].stack) = Len(run[n - 1].stack)
    <3>1. StackStep(run[n - 1].stack, run[n].stack, all[n])
      BY StackSteps
    <3> QED BY <3>1 DEF StackStep
  <2>2. /\ n \in Opening(all) <=> all[n].text = <<"{">>
        /\ n \in Ending(all) <=> all[n].text = <<"}">>
    BY DEF Opening, Ending
  <2> QED BY <2>1, <2>2
<1>4. \A n \in 1..Len(all) : n \in 0..Len(all) /\ n - 1 \in 0..Len(all)
  BY <1>1
<1> DEFINE d == Depth(all, run)
<1>5. d \in [0..Len(all) -> Nat] /\ \A n \in 0..Len(all) : d[n] = Len(run[n].stack)
  BY <1>1 DEF Depth
<1> HIDE DEF d
<1>6. IsDepth(d, Len(all), Opening(all), Ending(all))
  BY <1>2, <1>3, <1>4, <1>5 DEF IsDepth
<1> QED BY <1>6 DEF d

\* A set that stays on the stack only grows.
LEMMA SetsGrow ==
  ASSUME NEW all, NEW run, IsKeyRun(all, run), NEW i \in 1..Len(all), NEW n \in i..Len(all),
         NEW k \in Nat \ {0}, \A m \in i..n : k <= Len(run[m].stack)
  PROVE  run[i].stack[k] \subseteq run[n].stack[k]
<1> DEFINE Good == {m \in i..n : run[i].stack[k] \subseteq run[m].stack[k]}
<1>1. i \in Nat /\ n \in Nat /\ i <= n /\ Len(all) \in Nat /\ n <= Len(all)
  BY DEF IsKeyRun
<1>2. i \in Good
  BY <1>1
<1>3. ASSUME NEW m \in (i + 1)..n, m - 1 \in Good PROVE m \in Good
  <2>1. m \in 1..Len(all) /\ m \in i..n /\ m - 1 \in i..n
    BY <1>1
  <2>2. Len(run[m - 1].stack) \in Nat /\ k <= Len(run[m - 1].stack) /\ k <= Len(run[m].stack)
    <3>1. run[m - 1].stack \in Seq(KeySets)
      BY <2>1, StackSteps DEF StackStep
    <3> QED BY <2>1, <3>1
  <2>3. k \in 1..Len(run[m - 1].stack)
    BY <2>2
  <2>4. run[m - 1].stack[k] \subseteq run[m].stack[k]
    <3>1. \A x \in 1..Len(run[m - 1].stack) :
            x <= Len(run[m].stack) => run[m - 1].stack[x] \subseteq run[m].stack[x]
      BY <2>1, StackSteps DEF StackStep
    <3> QED BY <2>2, <2>3, <3>1
  <2> QED BY <1>3, <2>1, <2>4
<1>4. \A m \in i..n : m \in Good
  <2> HIDE DEF Good
  <2> QED BY <1>1, <1>2, <1>3, FromTo
<1> QED BY <1>1, <1>4

\* Two keys inside of the same brace are pushed with different names.
LEMMA KeysDiffer ==
  ASSUME NEW all, NEW run, IsKeyRun(all, run),
         NEW i \in 1..Len(all), NEW n \in 1..Len(all), i < n,
         all[i].is_key, all[n].is_key, NEW j \in 1..(i - 1),
         IsInside(j, i - 1, Opening(all), Ending(all)),
         IsInside(j, n - 1, Opening(all), Ending(all))
  PROVE  Pushed(run[i - 1], all[i]) # Pushed(run[n - 1], all[n])
<1> DEFINE d(m) == Len(run[m].stack)
           L == Len(all)
           old == run[i - 1].stack
           seen == run[n - 1].stack
<1>1. /\ L \in Nat /\ j \in 1..L /\ i - 1 \in j..L /\ n - 1 \in j..L
      /\ i - 1 \in 0..L /\ n - 1 \in i..L /\ i \in j..(n - 1) /\ i \in 0..L /\ j \in 0..L
      /\ \A m \in i..(n - 1) : m \in j..(n - 1)
  <2>1. L \in Nat
    BY DEF IsKeyRun
  <2> QED BY <2>1
<1>2. IsDepth(Depth(all, run), L, Opening(all), Ending(all))
  BY DepthIsDepth
<1>3. /\ Depth(all, run)[i - 1] = Depth(all, run)[j] /\ Depth(all, run)[j] > 0
      /\ Depth(all, run)[n - 1] = Depth(all, run)[j]
      /\ \A m \in j..(n - 1) : Depth(all, run)[m] >= Depth(all, run)[j]
  <2> HIDE DEF L
  <2> QED BY <1>1, <1>2, InsideIsDeep DEF L
<1>4. \A m \in j..(n - 1) : m \in 0..L
  BY <1>1
<1>5. /\ d(i - 1) = d(j) /\ d(j) > 0 /\ d(n - 1) = d(j)
      /\ \A m \in j..(n - 1) : d(m) >= d(j)
  <2>1. \A m \in 0..L : Depth(all, run)[m] = d(m)
    BY DEF Depth
  <2>2. i - 1 \in 0..L /\ n - 1 \in 0..L /\ j \in 0..L
    BY <1>1
  <2> HIDE DEF d, L
  <2> QED BY <1>3, <1>4, <2>1, <2>2
<1>6. old \in Seq(KeySets) /\ seen \in Seq(KeySets) /\ all[i] \in KeyPieces /\ all[n] \in KeyPieces
  BY StackSteps DEF StackStep
<1>7. Len(old) > 0 /\ Len(seen) = Len(old) /\ Len(old) \in Nat
  BY <1>5, <1>6
<1>8. old # <<>> /\ seen # <<>>
  BY <1>6, <1>7, EmptySeq
<1> DEFINE a == Name(old, all[i].text)
           b == Name(seen, all[n].text)
<1>9. a \in Seq(Chars) /\ b \in Seq(Chars) /\ b \notin seen[Len(seen)]
  <2>1. all[i].text \in Seq(Chars) /\ all[n].text \in Seq(Chars)
    BY <1>6 DEF KeyPieces
  <2> HIDE DEF old, seen
  <2> QED BY <1>6, <1>8, <2>1, NameIsNew
<1>10. a \in run[i].stack[Len(old)]
  BY <1>8, StackSteps DEF StackStep
<1>11. run[i].stack[Len(old)] \subseteq seen[Len(old)]
  <2>1. \A m \in i..(n - 1) : Len(old) <= Len(run[m].stack)
    <3>1. \A m \in i..(n - 1) : d(m) \in Nat
      <4>1. \A m \in i..(n - 1) : m \in 0..L
        BY <1>1
      <4> QED BY <4>1 DEF IsKeyRun, KeyStates
    <3>2. d(j) \in Nat /\ Len(old) = d(j)
      BY <1>5, <1>7
    <3>3. \A m \in i..(n - 1) : d(m) >= d(j)
      BY <1>1, <1>5
    <3> HIDE DEF d, old
    <3>4. \A m \in i..(n - 1) : Len(old) <= d(m)
      BY <3>1, <3>2, <3>3
    <3> QED BY <3>4 DEF d
  <2>2. Len(old) \in Nat \ {0}
    BY <1>7
  <2>3. n - 1 \in i..Len(all)
    BY <1>1
  <2> HIDE DEF old, L, d
  <2> DEFINE x == n - 1
             k == Len(old)
  <2>4. /\ x \in i..Len(all) /\ k \in Nat \ {0}
        /\ \A m \in i..x : k <= Len(run[m].stack)
    BY <2>1, <2>2, <2>3
  <2> HIDE DEF x, k
  <2>5. run[i].stack[k] \subseteq run[x].stack[k]
    BY <2>4, SetsGrow
  <2> QED BY <2>5 DEF x, k
<1>12. a # b
  <2> HIDE DEF a, b, old, seen
  <2> QED BY <1>7, <1>9, <1>10, <1>11
<1>13. Pushed(run[i - 1], all[i]) = Quoted(a) /\ Pushed(run[n - 1], all[n]) = Quoted(b)
  BY <1>8 DEF Pushed
<1> HIDE DEF a, b
<1> QED BY <1>9, <1>12, <1>13, QuotedDiffer

----------------------------------------------------------------------------
(* No object has a key twice *)

LEMMA Below ==
  ASSUME NEW L \in Nat, NEW i \in 1..L
  PROVE  i - 1 \in Nat
OBVIOUS

LEMMA Between ==
  ASSUME NEW L \in Nat, NEW i \in 1..L, NEW j \in 1..(i - 1)
  PROVE  /\ j \in 1..L
         /\ \A k \in (j + 1)..(i - 1) : k \in 1..L /\ k \in 1..(i - 1) /\ ~(k <= j)
OBVIOUS

\* Renaming changes neither which pieces are keys nor where the braces are.
LEMMA SameKeys ==
  ASSUME NEW all, NEW p, NEW L \in Nat, Len(p) = L, Len(all) = L,
         \A k \in 1..L : p[k] = all[k] \/ (IsString(p[k]) /\ IsString(all[k])),
         NEW i \in 1..L
  PROVE  IsKey(p, i) <=> IsKey(all, i)
<1> DEFINE I == {k \in (i + 1)..L : Head(all[k]) \notin White}
           J == {k \in (i + 1)..L : Head(p[k]) \notin White}
<1>1. \A k \in 1..L : Head(p[k]) = Head(all[k])
  BY DEF IsString
<1>2. \A k \in (i + 1)..L : k \in 1..L
  OBVIOUS
<1>3. I = J
  BY <1>1, <1>2
<1>4. /\ NextPiece(all, i) = IF I # {} THEN Min(I) ELSE 0
      /\ NextPiece(p, i) = IF J # {} THEN Min(J) ELSE 0
  BY Zenon DEF NextPiece, SelectInSubSeq
<1> DEFINE next == NextPiece(all, i)
<1>5. NextPiece(p, i) = next
  <2> HIDE DEF I, J
  <2> QED BY <1>3, <1>4
<1>6. next # 0 => next \in 1..L
  <2> SUFFICES ASSUME next # 0 PROVE next \in 1..L
    OBVIOUS
  <2>1. I # {} /\ next = Min(I)
    BY <1>4
  <2>2. I \subseteq Nat /\ I \subseteq 1..L
    BY <1>2
  <2> HIDE DEF I
  <2>3. PICK m \in I : \A n \in I : m <= n
    BY <2>1, <2>2, LeastNatural
  <2>4. Min(I) \in I
    BY <2>3 DEF Min
  <2> QED BY <2>1, <2>2, <2>4
<1>7. ~IsString(<<":">>)
  <2>1. Head(<<":">>) = ":" /\ ":" # "\""
    BY OneIsSeq
  <2> QED BY <2>1 DEF IsString
<1> HIDE DEF next
<1>8. next # 0 => (p[next] = <<":">> <=> all[next] = <<":">>)
  BY <1>6, <1>7
<1>9. IsString(p[i]) <=> IsString(all[i])
  OBVIOUS
<1> QED BY <1>5, <1>8, <1>9 DEF IsKey, next

\* The braces that as many are closed as are opened after, up to n.
Balanced(n, O, C) == {j \in 1..n : j \in O /\ Count(O, j, n) = Count(C, j, n)}

\* Where the braces are among the L pieces.
AreBraces(L, O, C) ==
  /\ L \in Nat /\ Len(pieces) = L
  /\ O = {k \in 1..L : pieces[k] = <<"{">>}
  /\ C = {k \in 1..L : pieces[k] = <<"}">>}

LastOf(S) == IF S = {} THEN 0 ELSE CHOOSE j \in S : \A k \in S : k <= j

\* Inside chooses the last of them.
LEMMA InsideIsLast ==
  ASSUME NEW L, NEW O, NEW C, AreBraces(L, O, C), NEW i \in 1..L
  PROVE  Inside(i) = LastOf(Balanced(i - 1, O, C))
<1>1. L \in Nat /\ O = {k \in 1..L : pieces[k] = <<"{">>} /\ C = {k \in 1..L : pieces[k] = <<"}">>}
  BY Zenon DEF AreBraces
<1> DEFINE around == {j \in 1..(i - 1) :
                        /\ pieces[j] = <<"{">>
                        /\ Cardinality({k \in (j + 1)..(i - 1) : pieces[k] = <<"{">>})
                             = Cardinality({k \in (j + 1)..(i - 1) : pieces[k] = <<"}">>})}
<1>2. Inside(i) = LastOf(around)
  BY Zenon DEF Inside, LastOf
<1>3. ASSUME NEW j \in 1..(i - 1)
      PROVE  /\ {k \in (j + 1)..(i - 1) : pieces[k] = <<"{">>} = O \cap ((j + 1)..(i - 1))
             /\ {k \in (j + 1)..(i - 1) : pieces[k] = <<"}">>} = C \cap ((j + 1)..(i - 1))
  <2>1. \A k \in (j + 1)..(i - 1) : k \in 1..L
    BY <1>1, Between
  <2> QED BY <1>1, <2>1
<1>4. \A j \in 1..(i - 1) :
        j \in around <=> j \in O /\ Count(O, j, i - 1) = Count(C, j, i - 1)
  <2> TAKE j \in 1..(i - 1)
  <2>1. j \in 1..L
    BY <1>1, Between
  <2>2. j \in O <=> pieces[j] = <<"{">>
    BY <1>1, <2>1
  <2> QED BY <1>3, <2>2 DEF Count
<1>5. around \subseteq 1..(i - 1)
  OBVIOUS
<1> HIDE DEF around
<1>6. around = Balanced(i - 1, O, C)
  BY <1>4, <1>5 DEF Balanced
<1> QED BY <1>2, <1>6, Zenon

\* What Inside finds.
LEMMA InsideFacts ==
  ASSUME NEW L, NEW O, NEW C, AreBraces(L, O, C), NEW i \in 1..L, Inside(i) # 0
  PROVE  Inside(i) \in 1..(i - 1) /\ IsInside(Inside(i), i - 1, O, C)
<1>1. L \in Nat
  BY Zenon DEF AreBraces
<1> DEFINE around == Balanced(i - 1, O, C)
<1>2. Inside(i) = IF around = {} THEN 0 ELSE CHOOSE j \in around : \A k \in around : k <= j
  <2>1. Inside(i) = LastOf(around)
    BY InsideIsLast, Zenon
  <2> HIDE DEF around
  <2> QED BY <2>1, Zenon DEF LastOf
<1>3. \A j \in 1..(i - 1) :
        j \in around <=> j \in O /\ Count(O, j, i - 1) = Count(C, j, i - 1)
  BY Zenon DEF Balanced
<1>4. around # {} /\ around \in SUBSET (1..(i - 1)) /\ i - 1 \in Nat
  <2>1. around \in SUBSET (1..(i - 1))
    BY DEF Balanced
  <2> HIDE DEF around
  <2>2. i - 1 \in Nat
    BY <1>1, Below
  <2> QED BY <1>2, <2>1, <2>2
<1> HIDE DEF around
<1>5. PICK j \in around : \A k \in around : k <= j
  <2>1. Max(around) \in around /\ \A k \in around : k <= Max(around)
    BY <1>4, MaxOf
  <2> QED BY <2>1
<1>6. Inside(i) \in around /\ \A k \in around : k <= Inside(i)
  BY <1>2, <1>4, <1>5
<1> DEFINE j2 == Inside(i)
<1> HIDE DEF j2
<1>7. j2 \in 1..(i - 1) /\ j2 \in around
  BY <1>4, <1>6 DEF j2
<1>8. j2 \in O /\ Count(O, j2, i - 1) = Count(C, j2, i - 1)
  BY <1>3, <1>7
<1>9. ASSUME NEW k \in (j2 + 1)..(i - 1), k \in O PROVE Count(O, k, i - 1) # Count(C, k, i - 1)
  <2>1. k \in 1..(i - 1) /\ ~(k <= j2)
    BY <1>1, <1>7, Between
  <2>2. k \notin around
    BY <1>6, <2>1 DEF j2
  <2> QED BY <1>3, <1>9, <2>1, <2>2
<1>10. j2 \in 1..(i - 1) /\ IsInside(j2, i - 1, O, C)
  BY <1>7, <1>8, <1>9 DEF IsInside
<1> QED BY <1>10 DEF j2

\* The pieces as deduplicate_keys folds over them.
Marked(all) == [i \in DOMAIN all |-> [text |-> all[i], is_key |-> IsKey(all, i)]]

LEMMA MarkedPieces ==
  ASSUME NEW all \in Seq(Seq(Chars))
  PROVE  /\ Marked(all) \in Seq(KeyPieces) /\ Len(Marked(all)) = Len(all)
         /\ \A i \in 1..Len(all) :
              Marked(all)[i].text = all[i] /\ (Marked(all)[i].is_key <=> IsKey(all, i))
<1>1. Len(all) \in Nat /\ DOMAIN all = 1..Len(all) /\ \A i \in 1..Len(all) : all[i] \in Seq(Chars)
  OBVIOUS
<1>2. \A i \in 1..Len(all) : IsKey(all, i) \in BOOLEAN /\ (IsKey(all, i) => IsString(all[i]))
  BY DEF IsKey, IsString
<1>3. \A i \in 1..Len(all) : Marked(all)[i] = [text |-> all[i], is_key |-> IsKey(all, i)]
  BY <1>1 DEF Marked
<1> DEFINE m == Marked(all)
<1>4. \A i \in 1..Len(all) : m[i] \in KeyPieces
  <2> HIDE DEF m
  <2> TAKE i \in 1..Len(all)
  <2> DEFINE b == IsKey(all, i)
             t == all[i]
  <2>1. m[i] = [text |-> t, is_key |-> b]
    BY <1>3 DEF m
  <2>2. b \in BOOLEAN /\ t \in Seq(Chars) /\ (b => IsString(t))
    BY <1>1, <1>2
  <2> HIDE DEF b, t
  <2> QED BY <2>1, <2>2 DEF KeyPieces
<1>5. m \in [1..Len(all) -> KeyPieces]
  <2>1. m = [i \in 1..Len(all) |-> m[i]]
    BY <1>1 DEF Marked
  <2> HIDE DEF m
  <2> QED BY <1>4, <2>1
<1> HIDE DEF m
<1>6. m \in Seq(KeyPieces) /\ Len(m) = Len(all)
  BY <1>1, <1>5, FunIsSeq
<1>7. \A i \in 1..Len(all) : /\ Marked(all)[i].text = all[i]
                             /\ Marked(all)[i].is_key <=> IsKey(all, i)
  <2> TAKE i \in 1..Len(all)
  <2>1. \A t, b : [text |-> t, is_key |-> b].text = t /\ [text |-> t, is_key |-> b].is_key = b
    OBVIOUS
  <2> DEFINE r == Marked(all)[i]
             k == IsKey(all, i)
  <2>2. r = [text |-> all[i], is_key |-> k]
    BY <1>3
  <2> HIDE DEF r, k
  <2>3. r.text = all[i] /\ r.is_key = k
    BY <2>1, <2>2
  <2>4. k \in BOOLEAN
    BY <1>2 DEF k
  <2> QED BY <2>3, <2>4 DEF r, k
<1> QED BY <1>6, <1>7 DEF m

\* p is what a run over the marked pieces of a text pushes.
IsDeduplicated(texts, p, all, run) ==
  /\ IsKeyRun(all, run) /\ texts \in Seq(Seq(Chars)) /\ Len(all) = Len(texts)
  /\ \A k \in 1..Len(texts) : all[k].text = texts[k] /\ (all[k].is_key <=> IsKey(texts, k))
  /\ p \in Seq(Seq(Chars)) /\ Len(p) = Len(texts)
  /\ \A k \in 1..Len(texts) : p[k] = Pushed(run[k - 1], all[k])

LEMMA DeduplicationRuns ==
  ASSUME NEW input, Pieces(input) \in Seq(Seq(Chars))
  PROVE  \E all, run : IsDeduplicated(Pieces(input), deduplicate_keys(input), all, run)
<1> DEFINE texts == Pieces(input)
           all == Marked(texts)
           start == [stack |-> <<>>, out |-> <<>>]
           L == Len(texts)
           result == deduplicate_keys(input)
<1>1. /\ all \in Seq(KeyPieces) /\ Len(all) = L /\ L \in Nat
      /\ \A k \in 1..L : all[k].text = texts[k] /\ (all[k].is_key <=> IsKey(texts, k))
  BY MarkedPieces
<1>2. result = FoldLeft(KeyStep, start, all).out
  BY Zenon DEF deduplicate_keys, Marked
<1>3. start \in KeyStates
  BY DEF KeyStates
<1> HIDE DEF texts, all, L, result
<1>4. PICK run \in [0..Len(all) -> KeyStates] :
        /\ run[0] = start /\ run[Len(all)] = FoldLeft(KeyStep, start, all)
        /\ \A n \in 1..Len(all) : run[n] = KeyStep(run[n - 1], all[n])
  <2> DEFINE end == FoldLeft(KeyStep, start, all)
  <2> HIDE DEF end, start
  <2>1. RunsTo(KeyStates, KeyStepFun, start, all, end)
    BY <1>1, <1>3, KeyStepRuns DEF end
  <2>2. PICK run : IsRun(KeyStates, KeyStepFun, start, all, run) /\ run[Len(all)] = end
    BY <2>1 DEF RunsTo
  <2>3. \A n \in 1..Len(all) : run[n] = KeyStep(run[n - 1], all[n])
    <3> TAKE n \in 1..Len(all)
    <3>1. n - 1 \in 0..Len(all) /\ all[n] \in KeyPieces
      BY <1>1
    <3>2. run[n] = KeyStepFun[<<run[n - 1], all[n]>>] /\ run[n - 1] \in KeyStates
      BY <2>2, <3>1 DEF IsRun
    <3> QED BY <3>1, <3>2 DEF KeyStepFun
  <2> QED BY <2>2, <2>3 DEF IsRun, end
<1>5. IsKeyRun(all, run)
  BY <1>1, <1>4 DEF IsKeyRun
<1>6. /\ result \in Seq(Seq(Chars)) /\ Len(result) = L
      /\ \A n \in 1..L : result[n] = Pushed(run[n - 1], all[n])
  <2>1. result = run[Len(all)].out
    BY <1>2, <1>4
  <2> DEFINE p == run[Len(all)].out
  <2>2. /\ p \in Seq(Seq(Chars)) /\ Len(p) = Len(all)
        /\ \A n \in 1..Len(all) : p[n] = Pushed(run[n - 1], all[n])
    BY <1>5, RunPushes
  <2> HIDE DEF p
  <2>3. result = p
    BY <2>1 DEF p
  <2> QED BY <1>1, <2>2, <2>3
<1>7. texts \in Seq(Seq(Chars))
  BY DEF texts
<1>8. IsDeduplicated(texts, result, all, run)
  BY <1>1, <1>5, <1>6, <1>7 DEF IsDeduplicated, L
<1> QED BY <1>8 DEF texts, result

\* Renaming leaves the keys keys, and the braces braces.
LEMMA DeduplicationKeeps ==
  ASSUME NEW texts, NEW p, NEW all, NEW run, IsDeduplicated(texts, p, all, run)
  PROVE  /\ \A k \in 1..Len(texts) : IsKey(p, k) <=> IsKey(texts, k)
         /\ Opening(all) = {k \in 1..Len(texts) : p[k] = <<"{">>}
         /\ Ending(all) = {k \in 1..Len(texts) : p[k] = <<"}">>}
<1> DEFINE L == Len(texts)
<1>1. /\ IsKeyRun(all, run) /\ L \in Nat /\ Len(all) = L /\ Len(p) = L
      /\ \A k \in 1..L : all[k].text = texts[k] /\ p[k] = Pushed(run[k - 1], all[k])
  BY DEF IsDeduplicated
<1> HIDE DEF L
<1>2. \A k \in 1..L : p[k] = texts[k] \/ (IsString(p[k]) /\ IsString(texts[k]))
  <2> TAKE k \in 1..L
  <2>1. p[k] = Pushed(run[k - 1], all[k])
    BY <1>1
  <2>2. CASE all[k].is_key /\ run[k - 1].stack # <<>>
    <3> DEFINE name == Name(run[k - 1].stack, all[k].text)
    <3>1. run[k - 1].stack \in Seq(KeySets) /\ all[k] \in KeyPieces
      BY <1>1, StackSteps DEF StackStep
    <3>2. name \in Seq(Chars)
      <4>1. all[k].text \in Seq(Chars)
        BY <3>1 DEF KeyPieces
      <4> QED BY <2>2, <3>1, <4>1, NameIsNew
    <3>3. p[k] = Quoted(name)
      BY <2>1, <2>2 DEF Pushed
    <3> HIDE DEF name
    <3>4. IsString(p[k])
      BY <3>2, <3>3, QuotedIsString
    <3>5. IsString(texts[k])
      BY <1>1, <2>2, <3>1 DEF KeyPieces
    <3> QED BY <3>4, <3>5
  <2>3. CASE ~(all[k].is_key /\ run[k - 1].stack # <<>>)
    BY <1>1, <2>1, <2>3 DEF Pushed
  <2> QED BY <2>2, <2>3
<1>3. \A k \in 1..L : IsKey(p, k) <=> IsKey(texts, k)
  BY <1>1, <1>2, SameKeys DEF L
<1>4. \A k \in 1..L : /\ p[k] = <<"{">> <=> all[k].text = <<"{">>
                      /\ p[k] = <<"}">> <=> all[k].text = <<"}">>
  BY <1>1, <1>2, BracesAreNoStrings
<1> QED BY <1>1, <1>3, <1>4 DEF Opening, Ending, L

\* The keys that one object has in the end differ.
LEMMA DeduplicatedKeysDiffer ==
  ASSUME NEW texts, NEW all, NEW run, IsDeduplicated(texts, pieces, all, run),
         NEW i \in DOMAIN pieces, NEW j \in DOMAIN pieces,
         i < j, IsKey(pieces, i), IsKey(pieces, j), Inside(i) # 0, Inside(i) = Inside(j)
  PROVE  pieces[i] # pieces[j]
<1> DEFINE L == Len(texts)
<1>1. /\ IsKeyRun(all, run) /\ L \in Nat /\ Len(all) = L /\ Len(pieces) = L
      /\ \A k \in 1..L : /\ all[k].is_key <=> IsKey(texts, k)
                         /\ pieces[k] = Pushed(run[k - 1], all[k])
  BY DEF IsDeduplicated
<1>2. i \in 1..L /\ j \in 1..L
  BY <1>1 DEF IsDeduplicated
<1> DEFINE O == Opening(all)
           C == Ending(all)
<1>3. /\ \A k \in 1..L : IsKey(pieces, k) <=> IsKey(texts, k)
      /\ O = {k \in 1..L : pieces[k] = <<"{">>} /\ C = {k \in 1..L : pieces[k] = <<"}">>}
  BY DeduplicationKeeps, Zenon
<1> HIDE DEF O, C, L
<1>4. AreBraces(L, O, C)
  BY <1>1, <1>3, Zenon DEF AreBraces
<1>5. all[i].is_key /\ all[j].is_key
  BY <1>1, <1>2, <1>3
<1> DEFINE brace == Inside(i)
<1>6. /\ brace \in 1..(i - 1) /\ IsInside(brace, i - 1, O, C)
      /\ IsInside(brace, j - 1, O, C)
  <2>1. Inside(i) \in 1..(i - 1) /\ IsInside(Inside(i), i - 1, O, C)
    BY <1>4, <1>2, InsideFacts
  <2>2. Inside(j) \in 1..(j - 1) /\ IsInside(Inside(j), j - 1, O, C)
    BY <1>4, <1>2, InsideFacts
  <2> QED BY <2>1, <2>2
<1> HIDE DEF brace
<1>7. Pushed(run[i - 1], all[i]) # Pushed(run[j - 1], all[j])
  <2>1. i \in 1..Len(all) /\ j \in 1..Len(all)
    BY <1>1, <1>2
  <2>2. IsInside(brace, i - 1, Opening(all), Ending(all)) /\ IsInside(brace, j - 1, Opening(all), Ending(all))
    BY <1>6 DEF O, C
  <2> QED BY <1>1, <1>5, <1>6, <2>1, <2>2, KeysDiffer
<1> QED BY <1>1, <1>2, <1>7

\* What the distinct keys rest on: what each pass has made.
PassesIInv ==
  /\ doc \in Seq(Tokens)
  /\ passes \in {"none", "raw", "uncommented", "plain", "done"}
  /\ passes \in {"raw", "uncommented", "plain"} => text \in Seq(Chars)
  /\ passes = "done" => \E input \in Seq(Chars) : pieces = deduplicate_keys(input)

LEMMA PassesStart == Init => PassesIInv
<1> SUFFICES ASSUME Init PROVE PassesIInv
  OBVIOUS
<1>1. doc = invocation.tokens /\ invocation \in Invocations /\ passes = "none"
  BY DEF Init, PreprocessInit
<1>2. invocation.tokens \in Seq(Tokens)
  BY <1>1, StartupAssumption DEF Tokens
<1> QED BY <1>1, <1>2 DEF PassesIInv

LEMMA PassesStep ==
  ASSUME PassesIInv, [Next]_vars
  PROVE  PassesIInv'
<1>1. CASE ReadText
  <2>1. Text(doc) \in Seq(Chars)
    BY TokensAreText DEF PassesIInv
  <2> QED BY <1>1, <2>1 DEF PassesIInv, ReadText
<1>2. CASE StripComments
  <2>1. strip_comments(text) \in Seq(Chars)
    BY <1>2, CommentsStripped DEF PassesIInv, StripComments
  <2> QED BY <1>2, <2>1 DEF PassesIInv, StripComments
<1>3. CASE StripTrailingCommas
  <2>1. strip_trailing_commas(text) \in Seq(Chars)
    BY <1>3, CommasStripped DEF PassesIInv, StripTrailingCommas
  <2> QED BY <1>3, <2>1 DEF PassesIInv, StripTrailingCommas
<1>4. CASE DeduplicateKeys
  <2>1. text \in Seq(Chars) /\ pieces' = deduplicate_keys(text) /\ passes' = "done" /\ doc' = doc
    BY <1>4 DEF PassesIInv, DeduplicateKeys
  <2> QED BY <2>1 DEF PassesIInv
<1>5. CASE UNCHANGED textVars
  BY <1>5 DEF PassesIInv, textVars
<1>6. ReadText \/ StripComments \/ StripTrailingCommas \/ DeduplicateKeys \/ UNCHANGED textVars
  BY DEF Next, ParseArguments, Read, Preprocessing, preprocess_json, FromJson, FromYaml,
         Validate, Calibrating, Calibrated, build_engine_state, RunEvent, BufferEvent,
         BufferWork, vars
<1> QED BY <1>1, <1>2, <1>3, <1>4, <1>5, <1>6

LEMMA DistinctWhenDone ==
  ASSUME PassesIInv
  PROVE  KeysDistinct
<1> SUFFICES ASSUME passes = "done" PROVE KeysDistinct
  BY DEF KeysDistinct
<1>1. PICK input \in Seq(Chars) : pieces = deduplicate_keys(input)
  BY DEF PassesIInv
<1>2. Pieces(input) \in Seq(Seq(Chars))
  BY PiecesAreText
<1> DEFINE texts == Pieces(input)
<1>3. PICK all, run : IsDeduplicated(texts, pieces, all, run)
  BY <1>1, <1>2, DeduplicationRuns
<1> HIDE DEF texts
<1>4. \A i, j \in DOMAIN pieces :
        /\ i < j /\ IsKey(pieces, i) /\ IsKey(pieces, j)
        /\ Inside(i) # 0 /\ Inside(i) = Inside(j)
        => pieces[i] # pieces[j]
  BY <1>3, DeduplicatedKeysDiffer
<1> QED BY <1>4 DEF KeysDistinct

\* "Each nesting level maintains its own set of seen keys": whatever text is
\* read, in the end no object has a key twice.
THEOREM KeysStayDistinct == Spec => []KeysDistinct
<1>1. Init => PassesIInv
  BY PassesStart
<1>2. PassesIInv /\ [Next]_vars => PassesIInv'
  BY PassesStep
<1>3. PassesIInv => KeysDistinct
  BY DistinctWhenDone
<1> QED BY <1>1, <1>2, <1>3, PTL DEF Spec

----------------------------------------------------------------------------
(* Runs that push what they read *)

LEMMA PrefixFacts ==
  ASSUME NEW S, NEW t \in Seq(S)
  PROVE  /\ SubSeq(t, 1, 0) = <<>> /\ SubSeq(t, 1, Len(t)) = t
         /\ \A k \in 0..Len(t) : SubSeq(t, 1, k) \in Seq(S)
         /\ \A k \in 1..Len(t) : SubSeq(t, 1, k - 1) \o <<t[k]>> = SubSeq(t, 1, k)
<1>1. Len(t) \in Nat /\ \A i \in 1..Len(t) : t[i] \in S
  OBVIOUS
<1>2. ASSUME NEW k \in 0..Len(t)
      PROVE  /\ SubSeq(t, 1, k) \in Seq(S) /\ Len(SubSeq(t, 1, k)) = k
             /\ \A i \in 1..k : SubSeq(t, 1, k)[i] = t[i]
  <2>1. k \in Int /\ 1 \in Int /\ k >= 0 /\ \A i \in 1..k : i \in 1..Len(t)
    BY <1>1
  <2>2. \A i \in 1..k : t[i] \in S
    BY <1>1, <2>1
  <2>3. /\ SubSeq(t, 1, k) \in Seq(S)
        /\ Len(SubSeq(t, 1, k)) = IF 1 <= k THEN k - 1 + 1 ELSE 0
        /\ \A i \in 1..(k - 1 + 1) : SubSeq(t, 1, k)[i] = t[1 + i - 1]
    BY <2>1, <2>2, SubSeqProperties
  <2>4. k - 1 + 1 = k /\ (IF 1 <= k THEN k - 1 + 1 ELSE 0) = k /\ \A i \in 1..k : 1 + i - 1 = i
    BY <2>1
  <2> QED BY <2>3, <2>4
<1>3. SubSeq(t, 1, 0) = <<>>
  <2> DEFINE u == SubSeq(t, 1, 0)
  <2>1. u \in Seq(S) /\ Len(u) = 0
    BY <1>1, <1>2
  <2> HIDE DEF u
  <2>2. u = <<>>
    BY <2>1
  <2> QED BY <2>2 DEF u
<1>4. SubSeq(t, 1, Len(t)) = t
  <2> DEFINE u == SubSeq(t, 1, Len(t))
  <2>1. Len(t) \in 0..Len(t)
    BY <1>1
  <2>2. u \in Seq(S) /\ Len(u) = Len(t) /\ \A i \in 1..Len(t) : u[i] = t[i]
    BY <1>2, <2>1
  <2> HIDE DEF u
  <2>3. u = t
    BY <2>2, SeqEqual
  <2> QED BY <2>3 DEF u
<1>5. ASSUME NEW k \in 1..Len(t)
      PROVE  SubSeq(t, 1, k - 1) \o <<t[k]>> = SubSeq(t, 1, k)
  <2> DEFINE u == SubSeq(t, 1, k - 1)
             v == SubSeq(t, 1, k)
             x == t[k]
  <2>1. k - 1 \in 0..Len(t) /\ k \in 0..Len(t) /\ k \in Nat /\ x \in S
    BY <1>1
  <2>2. /\ u \in Seq(S) /\ Len(u) = k - 1 /\ \A i \in 1..(k - 1) : u[i] = t[i]
        /\ v \in Seq(S) /\ Len(v) = k /\ \A i \in 1..k : v[i] = t[i]
    BY <1>2, <2>1
  <2> HIDE DEF u, v, x
  <2>3. <<x>> \in Seq(S) /\ Len(<<x>>) = 1 /\ <<x>>[1] = x
    BY <2>1
  <2>4. u \o <<x>> \in Seq(S) /\ Len(u \o <<x>>) = k
        /\ (\A i \in 1..(k - 1) : (u \o <<x>>)[i] = u[i]) /\ (u \o <<x>>)[k] = x
    BY <2>1, <2>2
  <2>5. \A i \in 1..k : (u \o <<x>>)[i] = v[i]
    <3> TAKE i \in 1..k
    <3>1. i = k \/ i \in 1..(k - 1)
      BY <2>1
    <3> QED BY <2>2, <2>4, <3>1 DEF x
  <2>6. u \o <<x>> = v
    <3> DEFINE w == u \o <<x>>
    <3>1. w \in Seq(S) /\ Len(w) = k /\ \A i \in 1..k : w[i] = v[i]
      BY <2>4, <2>5
    <3> HIDE DEF w
    <3>2. w = v
      BY <2>2, <3>1, SeqEqual
    <3> QED BY <3>2 DEF w
  <2> QED BY <2>6 DEF u, v, x
<1> QED BY <1>2, <1>3, <1>4, <1>5

\* The modes in which everything is pushed as it is.
TextModes == {"code", "string", "escape"}

\* What the passes over comments and commas have in common: a state is a mode
\* and what has been pushed, and a string is read by InString.
Pushes(S) ==
  \A s \in S, m \in TextModes, p \in Seq(Chars) :
    /\ To(s, m, p) \in S /\ To(s, m, p).mode = m
    /\ \A ch \in Chars, n \in TextModes : To(To(s, m, p), n, <<ch>>) = To(s, n, p \o <<ch>>)

PushesNothing(S) == \A s \in S : s.mode = "code" => To(s, "code", <<>>) = s

ReadsStrings(S, F) ==
  /\ \A s \in S, ch \in Chars :
       s.mode \in {"string", "escape"} => F[<<s, ch>>] = InString(s, ch)
  /\ \A s \in S : s.mode = "code" => F[<<s, "\"">>] = To(s, "string", <<"\"">>)

Scans(S, F) == Pushes(S) /\ PushesNothing(S) /\ ReadsStrings(S, F)

LEMMA ScansDo ==
  ASSUME NEW S, NEW F, Scans(S, F)
  PROVE  Pushes(S) /\ PushesNothing(S) /\ ReadsStrings(S, F)
BY DEF Scans

LEMMA TextModesAre == "code" \in TextModes /\ "string" \in TextModes /\ "escape" \in TextModes
BY DEF TextModes

\* A run in which every state is the first one with a mode and what has been
\* pushed so far.
LEMMA ModesRun ==
  ASSUME NEW S, NEW F, NEW s, NEW t \in Seq(Chars), NEW mode, NEW out,
         To(s, mode[0], out[0]) = s,
         \A k \in 0..Len(t) : To(s, mode[k], out[k]) \in S,
         \A k \in 1..Len(t) : F[<<To(s, mode[k - 1], out[k - 1]), t[k]>>] = To(s, mode[k], out[k])
  PROVE  RunsTo(S, F, s, t, To(s, mode[Len(t)], out[Len(t)]))
<1> DEFINE x(k) == To(s, mode[k], out[k])
           L == Len(t)
           run == [k \in 0..L |-> x(k)]
<1>1. L \in Nat
  OBVIOUS
<1> HIDE DEF L
<1>2. x(0) = s /\ (\A k \in 0..L : x(k) \in S) /\ \A k \in 1..L : F[<<x(k - 1), t[k]>>] = x(k)
  BY DEF L
<1> HIDE DEF x
<1>3. \A k \in 0..L : run[k] = x(k)
  OBVIOUS
<1>4. run \in [0..L -> S]
  BY <1>2
<1> HIDE DEF run
<1>5. 0 \in 0..L /\ L \in 0..L /\ \A k \in 1..L : k \in 0..L /\ k - 1 \in 0..L
  BY <1>1
<1>6. run[0] = s /\ run[L] = x(L) /\ \A k \in 1..L : run[k] = F[<<run[k - 1], t[k]>>]
  BY <1>2, <1>3, <1>5
<1>7. RunsTo(S, F, s, t, x(L))
  BY <1>4, <1>6 DEF IsRun, RunsTo, L
<1> QED BY <1>7 DEF x, L

\* A text each character of which is pushed as it is.
LEMMA CopyRuns ==
  ASSUME NEW S, NEW F, Scans(S, F), NEW s \in S, s.mode = "code", NEW t \in Seq(Chars),
         \A u \in S, k \in 1..Len(t) :
           u.mode = "code" => F[<<u, t[k]>>] = To(u, "code", <<t[k]>>)
  PROVE  RunsTo(S, F, s, t, To(s, "code", t))
<1> DEFINE L == Len(t)
           mode == [k \in 0..L |-> "code"]
           out == [k \in 0..L |-> SubSeq(t, 1, k)]
<1>1. L \in Nat /\ \A k \in 1..L : t[k] \in Chars /\ k - 1 \in 0..L /\ k \in 0..L
  OBVIOUS
<1>2. /\ \A k \in 0..L : mode[k] = "code" /\ out[k] \in Seq(Chars)
      /\ \A k \in 1..L : out[k - 1] \o <<t[k]>> = out[k]
      /\ out[0] = <<>> /\ out[L] = t /\ mode[L] = "code" /\ mode[0] = "code"
  <2>1. 0 \in 0..L /\ L \in 0..L
    BY <1>1
  <2>2. \A k \in 0..L : mode[k] = "code" /\ out[k] = SubSeq(t, 1, k)
    OBVIOUS
  <2> HIDE DEF mode, out
  <2>3. /\ SubSeq(t, 1, 0) = <<>> /\ SubSeq(t, 1, L) = t
        /\ \A k \in 0..L : SubSeq(t, 1, k) \in Seq(Chars)
        /\ \A k \in 1..L : SubSeq(t, 1, k - 1) \o <<t[k]>> = SubSeq(t, 1, k)
    BY PrefixFacts
  <2> QED BY <1>1, <2>1, <2>2, <2>3
<1> HIDE DEF mode, out, L
<1>3. To(s, mode[0], out[0]) = s
  <2>1. PushesNothing(S)
    BY ScansDo
  <2> QED BY <1>2, <2>1 DEF PushesNothing
<1>4. \A k \in 0..L : To(s, mode[k], out[k]) \in S /\ To(s, mode[k], out[k]).mode = "code"
  <2>1. \A p \in Seq(Chars) : To(s, "code", p) \in S /\ To(s, "code", p).mode = "code"
    <3>1. Pushes(S)
      BY ScansDo
    <3> QED BY <3>1, TextModesAre DEF Pushes
  <2> QED BY <1>2, <2>1
<1>5. ASSUME NEW k \in 1..L
      PROVE  F[<<To(s, mode[k - 1], out[k - 1]), t[k]>>] = To(s, mode[k], out[k])
  <2> DEFINE u == To(s, mode[k - 1], out[k - 1])
  <2>1. u \in S /\ u.mode = "code"
    BY <1>1, <1>4
  <2>2. u = To(s, "code", out[k - 1])
    BY <1>1, <1>2
  <2> HIDE DEF u
  <2>3. F[<<u, t[k]>>] = To(u, "code", <<t[k]>>)
    BY <2>1 DEF L
  <2>4. To(u, "code", <<t[k]>>) = To(s, "code", out[k - 1] \o <<t[k]>>)
    <3>1. \A p \in Seq(Chars), ch \in Chars :
            To(To(s, "code", p), "code", <<ch>>) = To(s, "code", p \o <<ch>>)
      <4>1. Pushes(S)
        BY ScansDo
      <4> QED BY <4>1, TextModesAre DEF Pushes
    <3> QED BY <1>1, <1>2, <2>2, <3>1
  <2> QED BY <1>1, <1>2, <2>3, <2>4 DEF u
<1>6. RunsTo(S, F, s, t, To(s, mode[L], out[L]))
  BY <1>3, <1>4, <1>5, ModesRun DEF L
<1> QED BY <1>2, <1>6

\* A string is pushed as it is, whatever it contains.
LEMMA StringRuns ==
  ASSUME NEW S, NEW F, Scans(S, F), NEW s \in S, s.mode = "code",
         NEW t \in Seq(Chars), IsStringText(t)
  PROVE  RunsTo(S, F, s, t, To(s, "code", t))
<1> DEFINE L == Len(t)
<1>1. L \in Nat /\ \A k \in 1..L : t[k] \in Chars /\ k - 1 \in 0..L /\ k \in 0..L
  OBVIOUS
<1>2. PICK escaped \in SUBSET (3..(L - 1)) :
        /\ \A k \in 3..L : k \in escaped <=> t[k - 1] = "\\" /\ k - 1 \notin escaped
        /\ \A k \in 2..(L - 1) : t[k] = "\"" => k \in escaped
  BY DEF IsStringText
<1>3. t[1] = "\"" /\ t[L] = "\""
  BY DEF IsStringText
<1>4. L >= 2
  BY DEF IsStringText
<1> DEFINE m(k) == IF k = 0 \/ k = L THEN "code" ELSE IF k + 1 \in escaped THEN "escape" ELSE "string"
           mode == [k \in 0..L |-> m(k)]
           out == [k \in 0..L |-> SubSeq(t, 1, k)]
<1>5. /\ \A k \in 0..L : mode[k] = m(k) /\ out[k] \in Seq(Chars)
      /\ \A k \in 1..L : out[k - 1] \o <<t[k]>> = out[k]
      /\ out[0] = <<>> /\ out[L] = t /\ mode[L] = "code" /\ mode[0] = "code"
  <2>1. 0 \in 0..L /\ L \in 0..L
    BY <1>1
  <2>2. m(0) = "code" /\ m(L) = "code"
    OBVIOUS
  <2>3. \A k \in 0..L : mode[k] = m(k) /\ out[k] = SubSeq(t, 1, k)
    OBVIOUS
  <2> HIDE DEF mode, out, m
  <2>4. /\ SubSeq(t, 1, 0) = <<>> /\ SubSeq(t, 1, L) = t
        /\ \A k \in 0..L : SubSeq(t, 1, k) \in Seq(Chars)
        /\ \A k \in 1..L : SubSeq(t, 1, k - 1) \o <<t[k]>> = SubSeq(t, 1, k)
    BY PrefixFacts
  <2> QED BY <1>1, <2>1, <2>2, <2>3, <2>4
<1> HIDE DEF mode, out, L
<1>6. To(s, mode[0], out[0]) = s
  <2>1. PushesNothing(S)
    BY ScansDo
  <2> QED BY <1>5, <2>1 DEF PushesNothing
<1>7. \A k \in 0..L : /\ mode[k] \in TextModes
                      /\ To(s, mode[k], out[k]) \in S /\ To(s, mode[k], out[k]).mode = mode[k]
  <2>1. \A k \in 0..L : mode[k] \in TextModes
    BY <1>5 DEF TextModes
  <2>2. Pushes(S)
    BY ScansDo
  <2> QED BY <1>5, <2>1, <2>2 DEF Pushes
<1>8. ASSUME NEW k \in 1..L
      PROVE  F[<<To(s, mode[k - 1], out[k - 1]), t[k]>>] = To(s, mode[k], out[k])
  <2> DEFINE u == To(s, mode[k - 1], out[k - 1])
             old == mode[k - 1]
             new == mode[k]
  <2>1. k \in Nat /\ k >= 1 /\ k <= L /\ (k - 1) + 1 = k
    BY <1>1
  <2>2. u \in S /\ u.mode = old /\ old = m(k - 1) /\ new = m(k) /\ t[k] \in Chars
        /\ old \in TextModes /\ new \in TextModes
    BY <1>1, <1>5, <1>7
  <2>3. \A x \in TextModes : To(u, x, <<t[k]>>) = To(s, x, out[k - 1] \o <<t[k]>>)
    <3>1. \A p \in Seq(Chars), ch \in Chars, y \in TextModes, x \in TextModes :
            To(To(s, y, p), x, <<ch>>) = To(s, x, p \o <<ch>>)
      <4>1. Pushes(S)
        BY ScansDo
      <4> QED BY <4>1 DEF Pushes
    <3>2. t[k] \in Chars /\ old \in TextModes /\ out[k - 1] \in Seq(Chars) /\ u = To(s, old, out[k - 1])
      BY <1>1, <1>5, <1>7
    <3> HIDE DEF u, old
    <3> QED BY <3>1, <3>2, Zenon
  <2>4. F[<<u, t[k]>>] = To(u, new, <<t[k]>>)
    <3> HIDE DEF u
    <3>1. CASE k = 1
      <4>1. old = "code" /\ new = "string" /\ t[k] = "\""
        <5>1. 1 - 1 = 0 /\ 1 # L /\ 1 # 0
          BY <1>1, <1>4
        <5>2. 1 + 1 \notin escaped
          <6>1. \A x \in escaped : x \in 3..(L - 1)
            BY <1>2
          <6>2. 1 + 1 \notin 3..(L - 1)
            BY <1>1
          <6> QED BY <6>1, <6>2
        <5>3. m(0) = "code" /\ m(1) = "string"
          <6>1. m(0) = "code"
            OBVIOUS
          <6>2. m(1) = IF 1 = 0 \/ 1 = L THEN "code" ELSE IF 1 + 1 \in escaped THEN "escape" ELSE "string"
            OBVIOUS
          <6>3. (1 = 0 \/ 1 = L) = FALSE
            BY <5>1
          <6> HIDE DEF m
          <6> QED BY <5>2, <6>1, <6>2, <6>3
        <5> HIDE DEF m
        <5> QED BY <1>3, <2>2, <3>1, <5>1, <5>3
      <4> HIDE DEF old, new
      <4>2. ReadsStrings(S, F)
        BY ScansDo
      <4> QED BY <2>2, <4>1, <4>2 DEF ReadsStrings
    <3>2. CASE k # 1
      <4>1. old = IF k \in escaped THEN "escape" ELSE "string"
        BY <1>1, <2>1, <2>2, <3>2
      <4>2. F[<<u, t[k]>>] = InString(u, t[k])
        <5> HIDE DEF old, new
        <5>1. u \in S /\ t[k] \in Chars /\ u.mode \in {"string", "escape"}
          BY <2>2, <4>1
        <5>2. ReadsStrings(S, F)
          BY ScansDo
        <5> HIDE DEF u
        <5> QED BY <5>1, <5>2 DEF ReadsStrings
      <4>3. CASE k \in escaped
        <5>1. k # L /\ k # 0
          <6>1. k \in 3..(L - 1)
            BY <1>2, <4>3
          <6> QED BY <1>1, <6>1
        <5>2. k + 1 \notin escaped
          <6> SUFFICES ASSUME k + 1 \in escaped PROVE FALSE
            OBVIOUS
          <6>1. k + 1 \in 3..L /\ (k + 1) - 1 = k
            <7>1. k + 1 \in 3..(L - 1)
              BY <1>2
            <7> QED BY <1>1, <2>1, <7>1
          <6> QED BY <1>2, <4>3, <6>1
        <5>3. old = "escape" /\ new = "string"
          BY <2>2, <4>1, <4>3, <5>1, <5>2
        <5> HIDE DEF old, new
        <5> QED BY <2>2, <4>2, <5>3 DEF InString
      <4>4. CASE k \notin escaped /\ k = L
        <5>1. old = "string" /\ new = "code" /\ t[k] = "\""
          BY <1>3, <2>2, <4>1, <4>4
        <5> HIDE DEF old, new
        <5> QED BY <2>2, <4>2, <5>1 DEF InString
      <4>5. CASE k \notin escaped /\ k # L
        <5>1. k \in 2..(L - 1) /\ k + 1 \in 3..L /\ (k + 1) - 1 = k /\ k # 0
          BY <1>1, <2>1, <3>2, <4>5
        <5>2. t[k] # "\"" /\ (k + 1 \in escaped <=> t[k] = "\\")
          BY <1>2, <4>5, <5>1
        <5>3. old = "string" /\ new = IF t[k] = "\\" THEN "escape" ELSE "string"
          BY <2>2, <4>1, <4>5, <5>1, <5>2
        <5> HIDE DEF old, new
        <5> QED BY <2>2, <4>2, <5>2, <5>3 DEF InString
      <4> QED BY <4>3, <4>4, <4>5
    <3> QED BY <3>1, <3>2
  <2>5. To(u, new, <<t[k]>>) = To(s, new, out[k])
    BY <1>5, <2>2, <2>3
  <2> QED BY <2>4, <2>5
<1>9. RunsTo(S, F, s, t, To(s, mode[L], out[L]))
  BY <1>6, <1>7, <1>8, ModesRun DEF L
<1> QED BY <1>5, <1>9

----------------------------------------------------------------------------
(* What strip_comments leaves of each token *)

\* The next state of a pass that has nothing but a mode and its output.
LEMMA ToTwoFields ==
  ASSUME NEW A, NEW B, NEW u \in [mode : A, out : B], NEW n \in A, NEW q, u.out \o q \in B
  PROVE  To(u, n, q) = [mode |-> n, out |-> u.out \o q]
<1> DEFINE x == u.out \o q
           r == [u EXCEPT !.mode = n, !.out = x]
<1>1. To(u, n, q) = r
  BY Zenon DEF To
<1> HIDE DEF x
<1>2. r \in [mode : A, out : B]
  BY DEF x
<1>3. r.mode = n /\ r.out = x
  OBVIOUS
<1>4. \A y \in [mode : A, out : B] : y = [mode |-> y.mode, out |-> y.out]
  OBVIOUS
<1> HIDE DEF r
<1>5. r = [mode |-> n, out |-> x]
  BY <1>2, <1>3, <1>4, Zenon
<1> QED BY <1>1, <1>5 DEF x

LEMMA CommentTo ==
  ASSUME NEW s \in CommentStates, NEW m \in CommentModes, NEW p \in Seq(Chars)
  PROVE  /\ To(s, m, p) \in CommentStates /\ To(s, m, p).mode = m
         /\ To(s, m, p).out = s.out \o p
         /\ \A n \in CommentModes, q \in Seq(Chars) : To(To(s, m, p), n, q) = To(s, n, p \o q)
         /\ s.mode = m => To(s, m, <<>>) = s
<1>1. s.out \in Seq(Chars) /\ s.mode \in CommentModes
  BY DEF CommentStates
<1> DEFINE o == s.out
           R(n, x) == [mode |-> n, out |-> x]
<1>2. s = R(s.mode, o)
  BY DEF CommentStates
<1>3. \A n, x : R(n, x).mode = n /\ R(n, x).out = x
  OBVIOUS
<1>4. \A n \in CommentModes, x \in Seq(Chars) : R(n, x) \in CommentStates
  BY DEF CommentStates
<1>5. ASSUME NEW u \in CommentStates, NEW n \in CommentModes, NEW q \in Seq(Chars)
      PROVE  To(u, n, q) = R(n, u.out \o q)
  <2>1. u.out \o q \in Seq(Chars)
    <3>1. u.out \in Seq(Chars)
      BY DEF CommentStates
    <3> QED BY <3>1, ConcatIsSeq
  <2>2. u \in [mode : CommentModes, out : Seq(Chars)]
    BY DEF CommentStates
  <2>3. To(u, n, q) = [mode |-> n, out |-> u.out \o q]
    <3> DEFINE A == CommentModes
               B == Seq(Chars)
    <3>1. u \in [mode : A, out : B] /\ n \in A /\ u.out \o q \in B
      BY <2>1, <2>2
    <3> HIDE DEF A, B
    <3> QED BY <3>1, ToTwoFields
  <2> QED BY <2>3, Zenon
<1> HIDE DEF R
<1>6. o \in Seq(Chars)
  BY <1>1
<1> HIDE DEF o
<1>7. o \o p \in Seq(Chars)
  BY <1>6, ConcatIsSeq
<1>8. To(s, m, p) = R(m, o \o p)
  BY <1>5, Zenon DEF o
<1>9. \A n \in CommentModes, q \in Seq(Chars) : To(To(s, m, p), n, q) = To(s, n, p \o q)
  <2> TAKE n \in CommentModes, q \in Seq(Chars)
  <2>1. R(m, o \o p) \in CommentStates /\ R(m, o \o p).out = o \o p
    BY <1>3, <1>4, <1>7
  <2>2. To(R(m, o \o p), n, q) = R(n, (o \o p) \o q)
    BY <1>5, <2>1
  <2>3. To(s, n, p \o q) = R(n, o \o (p \o q))
    <3>1. p \o q \in Seq(Chars)
      BY ConcatIsSeq
    <3> QED BY <1>5, <3>1 DEF o
  <2>4. (o \o p) \o q = o \o (p \o q)
    BY <1>6, ConcatAssociative
  <2> QED BY <1>8, <2>2, <2>3, <2>4, Zenon
<1>10. s.mode = m => To(s, m, <<>>) = s
  <2>1. <<>> \in Seq(Chars) /\ o \o <<>> = o
    BY <1>6, LiteralsAreChars, ConcatEmptySeq
  <2> QED BY <1>2, <1>5, <2>1 DEF o
<1>11. R(m, o \o p) \in CommentStates
  BY <1>4, <1>7
<1> QED BY <1>3, <1>8, <1>9, <1>10, <1>11 DEF o

LEMMA CommentFunIs ==
  \A s \in CommentStates, ch \in Chars : CommentFun[<<s, ch>>] = CommentStep(s, ch)
BY DEF CommentFun

LEMMA CommentScans == Scans(CommentStates, CommentFun)
<1>1. \A m \in TextModes : m \in CommentModes
  BY DEF TextModes, CommentModes
<1>2. \A ch \in Chars : <<ch>> \in Seq(Chars)
  BY LiteralsAreChars
<1>3. Pushes(CommentStates)
  <2> SUFFICES ASSUME NEW s \in CommentStates, NEW m \in TextModes, NEW p \in Seq(Chars)
               PROVE  /\ To(s, m, p) \in CommentStates /\ To(s, m, p).mode = m
                      /\ \A ch \in Chars, n \in TextModes :
                           To(To(s, m, p), n, <<ch>>) = To(s, n, p \o <<ch>>)
    BY DEF Pushes
  <2>1. m \in CommentModes
    BY <1>1
  <2>2. /\ To(s, m, p) \in CommentStates /\ To(s, m, p).mode = m
        /\ \A n \in CommentModes, q \in Seq(Chars) : To(To(s, m, p), n, q) = To(s, n, p \o q)
    BY <2>1, CommentTo
  <2> QED BY <1>1, <1>2, <2>2
<1>4. PushesNothing(CommentStates)
  <2>1. "code" \in CommentModes /\ <<>> \in Seq(Chars)
    BY LiteralsAreChars DEF CommentModes
  <2> QED BY <2>1, CommentTo DEF PushesNothing
<1>5. ReadsStrings(CommentStates, CommentFun)
  <2>1. \A s \in CommentStates, ch \in Chars :
          s.mode \in {"string", "escape"} => CommentStep(s, ch) = InString(s, ch)
    BY DEF CommentStep
  <2>2. \A s \in CommentStates :
          s.mode = "code" => CommentStep(s, "\"") = To(s, "string", <<"\"">>)
    BY DEF CommentStep, OutsideComment
  <2>3. "\"" \in Chars
    BY DEF Chars
  <2> QED BY <2>1, <2>2, <2>3, CommentFunIs DEF ReadsStrings
<1> QED BY <1>3, <1>4, <1>5 DEF Scans

\* Text that has neither quotes nor slashes.
LEMMA CommentCopies ==
  ASSUME NEW s \in CommentStates, s.mode = "code", NEW t \in Seq(Chars),
         \A k \in 1..Len(t) : t[k] # "\"" /\ t[k] # "/"
  PROVE  RunsTo(CommentStates, CommentFun, s, t, To(s, "code", t))
<1>1. ASSUME NEW u \in CommentStates, NEW k \in 1..Len(t), u.mode = "code"
      PROVE  CommentFun[<<u, t[k]>>] = To(u, "code", <<t[k]>>)
  <2>1. t[k] \in Chars /\ t[k] # "\"" /\ t[k] # "/"
    <3>1. \A i \in 1..Len(t) : t[i] \in Chars
      BY SeqAt, Zenon
    <3> QED BY <3>1, Zenon
  <2>2. CommentFun[<<u, t[k]>>] = CommentStep(u, t[k])
    BY <2>1, CommentFunIs
  <2>3. CommentStep(u, t[k]) = OutsideComment(u, t[k])
    BY <1>1 DEF CommentStep
  <2> QED BY <2>1, <2>2, <2>3 DEF OutsideComment
<1> QED BY <1>1, CommentScans, CopyRuns

\* The step of a state given by its mode, for what comments need.
LEMMA CommentSteps ==
  ASSUME NEW s \in CommentStates, NEW p \in Seq(Chars), NEW ch \in Chars
  PROVE  /\ ch = "/" => CommentFun[<<To(s, "code", p), ch>>] = To(s, "slash", p)
         /\ ch = "*" => CommentFun[<<To(s, "slash", p), ch>>] = To(s, "block", p)
         /\ ch = "/" => CommentFun[<<To(s, "slash", p), ch>>] = To(s, "line", p)
         /\ ch = "*" => CommentFun[<<To(s, "block", p), ch>>] = To(s, "star", p)
         /\ ch # "*" => CommentFun[<<To(s, "block", p), ch>>] = To(s, "block", p)
         /\ ch = "*" => CommentFun[<<To(s, "star", p), ch>>] = To(s, "star", p)
         /\ ch # "*" /\ ch # "/" => CommentFun[<<To(s, "star", p), ch>>] = To(s, "block", p)
         /\ ch = "/" => CommentFun[<<To(s, "star", p), ch>>] = To(s, "code", p \o <<" ">>)
         /\ ch # "\n" => CommentFun[<<To(s, "line", p), ch>>] = To(s, "line", p)
         /\ ch = "\n" => CommentFun[<<To(s, "line", p), ch>>] = To(s, "code", p \o <<"\n">>)
<1>1. \A m \in CommentModes :
        /\ To(s, m, p) \in CommentStates /\ To(s, m, p).mode = m
        /\ CommentFun[<<To(s, m, p), ch>>] = CommentStep(To(s, m, p), ch)
        /\ \A n \in CommentModes : To(To(s, m, p), n, <<>>) = To(s, n, p)
        /\ \A c \in Chars, n \in CommentModes : To(To(s, m, p), n, <<c>>) = To(s, n, p \o <<c>>)
  <2> TAKE m \in CommentModes
  <2>1. /\ To(s, m, p) \in CommentStates /\ To(s, m, p).mode = m
        /\ \A n \in CommentModes, q \in Seq(Chars) : To(To(s, m, p), n, q) = To(s, n, p \o q)
    BY CommentTo
  <2>2. <<>> \in Seq(Chars) /\ p \o <<>> = p /\ \A c \in Chars : <<c>> \in Seq(Chars)
    BY LiteralsAreChars, ConcatEmptySeq
  <2> QED BY <2>1, <2>2, CommentFunIs
<1>2. " " \in Chars /\ "\n" \in Chars
  BY DEF Chars
<1>3. /\ "code" \in CommentModes /\ "slash" \in CommentModes /\ "block" \in CommentModes
      /\ "star" \in CommentModes /\ "line" \in CommentModes
  BY DEF CommentModes
<1> DEFINE x(m) == To(s, m, p)
<1>4. /\ \A m \in CommentModes : To(To(s, m, p), "code", <<" ">>) = To(s, "code", p \o <<" ">>)
      /\ \A m \in CommentModes : To(To(s, m, p), "code", <<"\n">>) = To(s, "code", p \o <<"\n">>)
  <2>1. \A m \in CommentModes, c \in Chars : To(To(s, m, p), "code", <<c>>) = To(s, "code", p \o <<c>>)
    BY <1>1, <1>3
  <2> QED BY <1>2, <2>1
<1>5. \A m \in CommentModes :
        /\ x(m).mode = m /\ CommentFun[<<x(m), ch>>] = CommentStep(x(m), ch)
        /\ \A n \in CommentModes : To(x(m), n, <<>>) = x(n)
        /\ To(x(m), "code", <<" ">>) = To(s, "code", p \o <<" ">>)
        /\ To(x(m), "code", <<"\n">>) = To(s, "code", p \o <<"\n">>)
  <2>1. \A m \in CommentModes : x(m).mode = m /\ CommentFun[<<x(m), ch>>] = CommentStep(x(m), ch)
    BY <1>1
  <2>2. \A m \in CommentModes, n \in CommentModes : To(x(m), n, <<>>) = x(n)
    BY <1>1
  <2>3. \A m \in CommentModes : /\ To(x(m), "code", <<" ">>) = To(s, "code", p \o <<" ">>)
                                /\ To(x(m), "code", <<"\n">>) = To(s, "code", p \o <<"\n">>)
    BY <1>4
  <2> HIDE DEF x
  <2> QED BY <2>1, <2>2, <2>3, Zenon
<1> HIDE DEF x
<1>6. /\ ch = "/" => CommentStep(x("code"), ch) = x("slash")
      /\ ch = "*" => CommentStep(x("slash"), ch) = x("block")
      /\ ch = "/" => CommentStep(x("slash"), ch) = x("line")
  BY <1>3, <1>5 DEF CommentStep, OutsideComment
<1>7. /\ ch = "*" => CommentStep(x("block"), ch) = x("star")
      /\ ch # "*" => CommentStep(x("block"), ch) = x("block")
      /\ ch = "*" => CommentStep(x("star"), ch) = x("star")
      /\ ch # "*" /\ ch # "/" => CommentStep(x("star"), ch) = x("block")
      /\ ch = "/" => CommentStep(x("star"), ch) = To(s, "code", p \o <<" ">>)
  BY <1>3, <1>5 DEF CommentStep
<1>8. /\ ch # "\n" => CommentStep(x("line"), ch) = x("line")
      /\ ch = "\n" => CommentStep(x("line"), ch) = To(s, "code", p \o <<"\n">>)
  BY <1>3, <1>5 DEF CommentStep
<1>9. /\ ch = "/" => CommentFun[<<x("code"), ch>>] = x("slash")
      /\ ch = "*" => CommentFun[<<x("slash"), ch>>] = x("block")
      /\ ch = "/" => CommentFun[<<x("slash"), ch>>] = x("line")
      /\ ch = "*" => CommentFun[<<x("block"), ch>>] = x("star")
      /\ ch # "*" => CommentFun[<<x("block"), ch>>] = x("block")
      /\ ch = "*" => CommentFun[<<x("star"), ch>>] = x("star")
      /\ ch # "*" /\ ch # "/" => CommentFun[<<x("star"), ch>>] = x("block")
      /\ ch = "/" => CommentFun[<<x("star"), ch>>] = To(s, "code", p \o <<" ">>)
      /\ ch # "\n" => CommentFun[<<x("line"), ch>>] = x("line")
      /\ ch = "\n" => CommentFun[<<x("line"), ch>>] = To(s, "code", p \o <<"\n">>)
  BY <1>3, <1>5, <1>6, <1>7, <1>8
<1> QED BY <1>9 DEF x

\* What a token becomes when the comments are stripped.
Uncommented(token) ==
  CASE token.kind = "block" -> <<" ">>
    [] token.kind = "line"  -> <<"\n">>
    [] OTHER                -> token.text

\* A line comment leaves its newline.
LEMMA LineRuns ==
  ASSUME NEW s \in CommentStates, s.mode = "code",
         NEW t \in Seq(Chars), IsCommentText("line", t)
  PROVE  RunsTo(CommentStates, CommentFun, s, t, To(s, "code", <<"\n">>))
<1> DEFINE L == Len(t)
           end == "\n"
           m(k) == IF k = 0 \/ k = L THEN "code" ELSE IF k = 1 THEN "slash" ELSE "line"
           mode == [k \in 0..L |-> m(k)]
           out == [k \in 0..L |-> IF k = L THEN <<end>> ELSE <<>>]
<1>1. /\ L >= 3 /\ t[1] = "/" /\ t[2] = "/" /\ t[L] = end
      /\ \A k \in 3..(L - 1) : t[k] # end
  BY DEF IsCommentText
<1>2. L \in Nat
  OBVIOUS
<1>3. \A k \in 1..L : t[k] \in Chars
  BY SeqAt, Zenon
<1>4. end \in Chars
  BY DEF Chars
<1>5. /\ \A ch \in Chars :
           /\ ch = "/" => CommentFun[<<To(s, "code", <<>>), ch>>] = To(s, "slash", <<>>)
           /\ ch = "/" => CommentFun[<<To(s, "slash", <<>>), ch>>] = To(s, "line", <<>>)
           /\ ch # end => CommentFun[<<To(s, "line", <<>>), ch>>] = To(s, "line", <<>>)
           /\ ch = end => CommentFun[<<To(s, "line", <<>>), ch>>] = To(s, "code", <<end>>)
      /\ To(s, "code", <<>>) = s
      /\ \A p \in Seq(Chars) : /\ To(s, "code", p) \in CommentStates
                               /\ To(s, "slash", p) \in CommentStates
                               /\ To(s, "line", p) \in CommentStates
  <2>1. <<>> \in Seq(Chars)
    BY LiteralsAreChars
  <2>2. <<>> \o <<end>> = <<end>>
    OBVIOUS
  <2>3. "code" \in CommentModes /\ "slash" \in CommentModes /\ "line" \in CommentModes
    BY DEF CommentModes
  <2>4. ASSUME NEW ch \in Chars
        PROVE  /\ ch = "/" => CommentFun[<<To(s, "code", <<>>), ch>>] = To(s, "slash", <<>>)
               /\ ch = "/" => CommentFun[<<To(s, "slash", <<>>), ch>>] = To(s, "line", <<>>)
               /\ ch # end => CommentFun[<<To(s, "line", <<>>), ch>>] = To(s, "line", <<>>)
               /\ ch = end => CommentFun[<<To(s, "line", <<>>), ch>>] = To(s, "code", <<end>>)
    <3>1. /\ ch = "/" => CommentFun[<<To(s, "code", <<>>), ch>>] = To(s, "slash", <<>>)
          /\ ch = "/" => CommentFun[<<To(s, "slash", <<>>), ch>>] = To(s, "line", <<>>)
          /\ ch # end => CommentFun[<<To(s, "line", <<>>), ch>>] = To(s, "line", <<>>)
          /\ ch = end => CommentFun[<<To(s, "line", <<>>), ch>>] = To(s, "code", <<>> \o <<end>>)
      BY <2>1, CommentSteps, Zenon
    <3> HIDE DEF end
    <3> QED BY <2>2, <3>1, Zenon
  <2>5. To(s, "code", <<>>) = s
    BY <2>1, <2>3, CommentTo
  <2>6. \A p \in Seq(Chars) : /\ To(s, "code", p) \in CommentStates
                              /\ To(s, "slash", p) \in CommentStates
                              /\ To(s, "line", p) \in CommentStates
    BY <2>3, CommentTo
  <2> HIDE DEF end
  <2> QED BY <2>4, <2>5, <2>6, Zenon
<1>6. <<end>> \in Seq(Chars) /\ <<>> \in Seq(Chars)
  BY <1>4, LiteralsAreChars
<1> HIDE DEF end, L
<1>7. \A k \in 0..L : mode[k] = m(k) /\ out[k] = IF k = L THEN <<end>> ELSE <<>>
  OBVIOUS
<1> HIDE DEF mode, out
<1> DEFINE x(k) == To(s, mode[k], out[k])
<1>8. x(0) = s /\ x(L) = To(s, "code", <<end>>)
  <2>1. 0 \in 0..L /\ L \in 0..L /\ 0 # L
    BY <1>1, <1>2
  <2> QED BY <1>5, <1>7, <2>1
<1>9. x(1) = To(s, "slash", <<>>) /\ \A k \in 2..(L - 1) : x(k) = To(s, "line", <<>>)
  <2>1. 1 \in 0..L /\ 1 # L /\ \A k \in 2..(L - 1) : k \in 0..L /\ k # L /\ k # 1 /\ k # 0
    BY <1>1, <1>2
  <2>2. mode[1] = "slash" /\ out[1] = <<>>
    BY <1>7, <2>1
  <2>3. \A k \in 2..(L - 1) : mode[k] = "line" /\ out[k] = <<>>
    BY <1>7, <2>1
  <2> QED BY <2>2, <2>3
<1>10. \A k \in 0..L : x(k) \in CommentStates
  <2>1. \A k \in 0..L : k = 0 \/ k = 1 \/ k \in 2..(L - 1) \/ k = L
    BY <1>1, <1>2
  <2> QED BY <1>5, <1>6, <1>8, <1>9, <2>1
<1>11. ASSUME NEW k \in 1..L PROVE CommentFun[<<x(k - 1), t[k]>>] = x(k)
  <2>1. CASE k = 1
    <3>1. 1 - 1 = 0 /\ s = To(s, "code", <<>>)
      BY <1>5
    <3>2. x(0) = To(s, "code", <<>>)
      BY <1>8, <3>1
    <3> HIDE DEF x
    <3> QED BY <1>1, <1>3, <1>5, <1>9, <2>1, <3>1, <3>2
  <2>2. CASE k = 2
    <3>1. 2 \in 2..(L - 1) /\ 2 - 1 = 1
      BY <1>1, <1>2
    <3> HIDE DEF x
    <3> QED BY <1>1, <1>3, <1>5, <1>9, <2>2, <3>1
  <2>3. CASE k \in 3..(L - 1)
    <3>1. k \in 2..(L - 1) /\ k - 1 \in 2..(L - 1)
      BY <1>2, <2>3
    <3> HIDE DEF x
    <3> QED BY <1>1, <1>3, <1>5, <1>9, <2>3, <3>1
  <2>4. CASE k = L
    <3>1. L - 1 \in 2..(L - 1)
      BY <1>1, <1>2
    <3> HIDE DEF x
    <3> QED BY <1>1, <1>3, <1>5, <1>8, <1>9, <2>4, <3>1
  <2>5. k = 1 \/ k = 2 \/ k \in 3..(L - 1) \/ k = L
    BY <1>1, <1>2
  <2> QED BY <2>1, <2>2, <2>3, <2>4, <2>5
<1>12. RunsTo(CommentStates, CommentFun, s, t, x(L))
  BY <1>8, <1>10, <1>11, ModesRun DEF L
<1>13. RunsTo(CommentStates, CommentFun, s, t, To(s, "code", <<end>>))
  <2> HIDE DEF x
  <2> QED BY <1>8, <1>12
<1> QED BY <1>13 DEF end

\* A block comment leaves a space.
LEMMA BlockRuns ==
  ASSUME NEW s \in CommentStates, s.mode = "code",
         NEW t \in Seq(Chars), IsCommentText("block", t)
  PROVE  RunsTo(CommentStates, CommentFun, s, t, To(s, "code", <<" ">>))
<1> DEFINE L == Len(t)
           end == " "
           Star(k) == k # 2 /\ t[k] = "*"
           m(k) == IF k = 0 \/ k = L THEN "code" ELSE IF k = 1 THEN "slash"
                   ELSE IF Star(k) THEN "star" ELSE "block"
           mode == [k \in 0..L |-> m(k)]
           out == [k \in 0..L |-> IF k = L THEN <<end>> ELSE <<>>]
<1>1. /\ L >= 4 /\ t[1] = "/" /\ t[2] = "*" /\ t[L - 1] = "*" /\ t[L] = "/"
      /\ \A k \in 4..(L - 1) : ~(t[k - 1] = "*" /\ t[k] = "/")
  BY DEF IsCommentText
<1>2. L \in Nat
  OBVIOUS
<1>3. \A k \in 1..L : t[k] \in Chars
  BY SeqAt, Zenon
<1>4. end \in Chars
  BY DEF Chars
<1>5. /\ \A ch \in Chars :
           /\ ch = "/" => CommentFun[<<To(s, "code", <<>>), ch>>] = To(s, "slash", <<>>)
           /\ ch = "*" => CommentFun[<<To(s, "slash", <<>>), ch>>] = To(s, "block", <<>>)
           /\ ch = "*" => CommentFun[<<To(s, "block", <<>>), ch>>] = To(s, "star", <<>>)
           /\ ch # "*" => CommentFun[<<To(s, "block", <<>>), ch>>] = To(s, "block", <<>>)
           /\ ch = "*" => CommentFun[<<To(s, "star", <<>>), ch>>] = To(s, "star", <<>>)
           /\ ch # "*" /\ ch # "/" =>
                CommentFun[<<To(s, "star", <<>>), ch>>] = To(s, "block", <<>>)
           /\ ch = "/" => CommentFun[<<To(s, "star", <<>>), ch>>] = To(s, "code", <<end>>)
      /\ To(s, "code", <<>>) = s
      /\ \A p \in Seq(Chars) : /\ To(s, "code", p) \in CommentStates
                               /\ To(s, "slash", p) \in CommentStates
                               /\ To(s, "star", p) \in CommentStates
                               /\ To(s, "block", p) \in CommentStates
  <2>1. <<>> \in Seq(Chars)
    BY LiteralsAreChars
  <2>2. <<>> \o <<end>> = <<end>>
    OBVIOUS
  <2>3. /\ "code" \in CommentModes /\ "slash" \in CommentModes
        /\ "block" \in CommentModes /\ "star" \in CommentModes
    BY DEF CommentModes
  <2>4. ASSUME NEW ch \in Chars
        PROVE  /\ ch = "/" => CommentFun[<<To(s, "code", <<>>), ch>>] = To(s, "slash", <<>>)
               /\ ch = "*" => CommentFun[<<To(s, "slash", <<>>), ch>>] = To(s, "block", <<>>)
               /\ ch = "*" => CommentFun[<<To(s, "block", <<>>), ch>>] = To(s, "star", <<>>)
               /\ ch # "*" => CommentFun[<<To(s, "block", <<>>), ch>>] = To(s, "block", <<>>)
               /\ ch = "*" => CommentFun[<<To(s, "star", <<>>), ch>>] = To(s, "star", <<>>)
               /\ ch # "*" /\ ch # "/" =>
                    CommentFun[<<To(s, "star", <<>>), ch>>] = To(s, "block", <<>>)
               /\ ch = "/" =>
                    CommentFun[<<To(s, "star", <<>>), ch>>] = To(s, "code", <<>> \o <<end>>)
    BY <2>1, CommentSteps, Zenon
  <2>5. To(s, "code", <<>>) = s
    BY <2>1, <2>3, CommentTo
  <2>6. \A p \in Seq(Chars) : /\ To(s, "code", p) \in CommentStates
                              /\ To(s, "slash", p) \in CommentStates
                              /\ To(s, "star", p) \in CommentStates
                              /\ To(s, "block", p) \in CommentStates
    BY <2>3, CommentTo
  <2> HIDE DEF end
  <2> QED BY <2>2, <2>4, <2>5, <2>6, Zenon
<1>6. <<end>> \in Seq(Chars) /\ <<>> \in Seq(Chars)
  BY <1>4, LiteralsAreChars
<1> HIDE DEF end, L
<1>7. \A k \in 0..L : mode[k] = m(k) /\ out[k] = IF k = L THEN <<end>> ELSE <<>>
  OBVIOUS
<1> HIDE DEF mode, out, Star
<1> DEFINE x(k) == To(s, mode[k], out[k])
<1>8. x(0) = s /\ x(L) = To(s, "code", <<end>>)
  <2>1. 0 \in 0..L /\ L \in 0..L /\ 0 # L
    BY <1>1, <1>2
  <2> QED BY <1>5, <1>7, <2>1
<1>9. /\ x(1) = To(s, "slash", <<>>)
      /\ \A k \in 2..(L - 1) : x(k) = IF Star(k) THEN To(s, "star", <<>>) ELSE To(s, "block", <<>>)
  <2>1. 1 \in 0..L /\ 1 # L /\ 1 # 0 /\ \A k \in 2..(L - 1) : k \in 0..L /\ k # L /\ k # 1 /\ k # 0
    BY <1>1, <1>2
  <2>2. mode[1] = "slash" /\ out[1] = <<>>
    BY <1>7, <2>1
  <2>3. \A k \in 2..(L - 1) : mode[k] = (IF Star(k) THEN "star" ELSE "block") /\ out[k] = <<>>
    BY <1>7, <2>1
  <2> QED BY <2>2, <2>3
<1>10. \A k \in 0..L : x(k) \in CommentStates
  <2>1. \A k \in 0..L : k = 0 \/ k = 1 \/ k \in 2..(L - 1) \/ k = L
    BY <1>1, <1>2
  <2> HIDE DEF x
  <2> QED BY <1>5, <1>6, <1>8, <1>9, <2>1
<1>11. ASSUME NEW k \in 1..L PROVE CommentFun[<<x(k - 1), t[k]>>] = x(k)
  <2>1. CASE k = 1
    <3>1. 1 - 1 = 0 /\ s = To(s, "code", <<>>)
      BY <1>5
    <3>2. x(0) = To(s, "code", <<>>)
      BY <1>8, <3>1
    <3> HIDE DEF x
    <3> QED BY <1>1, <1>3, <1>5, <1>9, <2>1, <3>1, <3>2
  <2>2. CASE k = 2
    <3>1. 2 \in 2..(L - 1) /\ 2 - 1 = 1 /\ ~Star(2)
      BY <1>1, <1>2 DEF Star
    <3> HIDE DEF x
    <3> QED BY <1>1, <1>3, <1>5, <1>9, <2>2, <3>1
  <2>3. CASE k \in 3..(L - 1)
    <3>1. k \in 2..(L - 1) /\ k - 1 \in 2..(L - 1) /\ k # 2
      BY <1>2, <2>3
    <3>2. Star(k - 1) => t[k] # "/"
      <4>1. ASSUME Star(k - 1) PROVE k \in 4..(L - 1) /\ t[k - 1] = "*"
        BY <1>2, <2>3, <4>1 DEF Star
      <4> QED BY <1>1, <4>1
    <3>3. Star(k) <=> t[k] = "*"
      BY <3>1 DEF Star
    <3> HIDE DEF x
    <3> DEFINE a == x(k - 1)
               b == x(k)
               c == t[k]
    <3>4. /\ a = IF Star(k - 1) THEN To(s, "star", <<>>) ELSE To(s, "block", <<>>)
          /\ b = IF Star(k) THEN To(s, "star", <<>>) ELSE To(s, "block", <<>>)
          /\ c \in Chars
      BY <1>3, <1>9, <3>1
    <3> HIDE DEF a, b
    <3> QED BY <1>5, <3>2, <3>3, <3>4 DEF a, b
  <2>4. CASE k = L
    <3>1. L - 1 \in 2..(L - 1) /\ Star(L - 1)
      BY <1>1, <1>2 DEF Star
    <3> HIDE DEF x
    <3> QED BY <1>1, <1>3, <1>5, <1>8, <1>9, <2>4, <3>1
  <2>5. k = 1 \/ k = 2 \/ k \in 3..(L - 1) \/ k = L
    BY <1>1, <1>2
  <2> QED BY <2>1, <2>2, <2>3, <2>4, <2>5
<1>12. RunsTo(CommentStates, CommentFun, s, t, x(L))
  BY <1>8, <1>10, <1>11, ModesRun DEF L
<1>13. RunsTo(CommentStates, CommentFun, s, t, To(s, "code", <<end>>))
  <2> HIDE DEF x
  <2> QED BY <1>8, <1>12
<1> QED BY <1>13 DEF end

\* A run over sequences, one after another.
LEMMA RunsThrough ==
  ASSUME NEW S, NEW E, NEW F, NEW seqs \in Seq(Seq(E)), NEW state,
         \A n \in 0..Len(seqs) : state[n] \in S,
         \A n \in 1..Len(seqs) : RunsTo(S, F, state[n - 1], seqs[n], state[n])
  PROVE  RunsTo(S, F, state[0], FlattenSeq(seqs), state[Len(seqs)])
<1> DEFINE L == Len(seqs)
<1>1. PICK flat : IsFlat(E, seqs, flat)
  BY FlatExists
<1>2. /\ \A n \in 0..L : flat[n] \in Seq(E)
      /\ flat[0] = <<>> /\ flat[L] = FlattenSeq(seqs)
      /\ \A n \in 1..L : flat[n] = flat[n - 1] \o seqs[n]
  BY <1>1 DEF IsFlat
<1>3. L \in Nat /\ \A n \in 1..L : seqs[n] \in Seq(E) /\ n \in 0..L /\ n - 1 \in 0..L
  OBVIOUS
<1> DEFINE Good == {n \in 0..L : RunsTo(S, F, state[0], flat[n], state[n])}
<1>4. 0 \in Good
  <2>1. 0 \in 0..L
    BY <1>3
  <2> QED BY <1>2, <2>1, RunsOfNothing
<1>5. ASSUME NEW n \in 1..L, n - 1 \in Good PROVE n \in Good
  <2>1. /\ RunsTo(S, F, state[0], flat[n - 1], state[n - 1])
        /\ RunsTo(S, F, state[n - 1], seqs[n], state[n])
    BY <1>5
  <2>2. flat[n - 1] \in Seq(E) /\ seqs[n] \in Seq(E) /\ flat[n] = flat[n - 1] \o seqs[n]
    BY <1>2, <1>3
  <2>3. RunsTo(S, F, state[0], flat[n - 1] \o seqs[n], state[n])
    BY <2>1, <2>2, RunsCompose
  <2> QED BY <1>3, <2>2, <2>3
<1>6. \A n \in 0..L : n \in Good
  <2> HIDE DEF Good
  <2> QED BY <1>3, <1>4, <1>5, UpTo
<1>7. L \in 0..L
  BY <1>3
<1> QED BY <1>2, <1>6, <1>7

\* Nothing but strings and comments has a quote or a slash.
LEMMA TokenHasNoMarks ==
  ASSUME NEW token, token.kind \in TokenKinds, token.kind \notin {"string", "line", "block"},
         IsToken(token), token.text \in Seq(Chars)
  PROVE  \A k \in 1..Len(token.text) : token.text[k] # "\"" /\ token.text[k] # "/"
<1> DEFINE t == token.text
<1>1. DOMAIN t = 1..Len(t)
  OBVIOUS
<1>2. ASSUME NEW ch, t = <<ch>>, ch # "\"", ch # "/"
      PROVE  \A k \in 1..Len(t) : t[k] # "\"" /\ t[k] # "/"
  <2>1. \A k \in 1..Len(<<ch>>) : <<ch>>[k] = ch
    OBVIOUS
  <2> HIDE DEF t
  <2> QED BY <1>2, <2>1
<1>3. CASE token.kind = "open"
  <2>1. t = <<"{">> \/ t = <<"[">>
    BY <1>3 DEF IsToken
  <2> QED BY <1>2, <2>1
<1>4. CASE token.kind = "close"
  <2>1. t = <<"}">> \/ t = <<"]">>
    BY <1>4 DEF IsToken
  <2> QED BY <1>2, <2>1
<1>5. CASE token.kind = "comma"
  <2>1. t = <<",">>
    BY <1>5 DEF IsToken
  <2> QED BY <1>2, <2>1
<1>6. CASE token.kind = "colon"
  <2>1. t = <<":">>
    BY <1>6 DEF IsToken
  <2> QED BY <1>2, <2>1
<1>7. CASE token.kind = "space"
  <2>1. \A k \in DOMAIN t : t[k] \in White
    BY <1>7 DEF IsToken
  <2>2. "\"" \notin White /\ "/" \notin White
    BY DEF White
  <2> QED BY <1>1, <2>1, <2>2, Zenon
<1>8. CASE token.kind = "scalar"
  <2>1. \A k \in DOMAIN t : t[k] \notin White \cup Closing \cup {"\"", "/", ","}
    BY <1>8 DEF IsToken
  <2>2. \A k \in DOMAIN t : t[k] # "\"" /\ t[k] # "/"
    BY <2>1, Zenon
  <2> QED BY <1>1, <2>2, Zenon
<1> QED BY <1>3, <1>4, <1>5, <1>6, <1>7, <1>8 DEF TokenKinds

LEMMA TokenTypes ==
  ASSUME NEW token \in Tokens
  PROVE  /\ token.kind \in TokenKinds /\ token.text \in Seq(Chars)
         /\ Uncommented(token) \in Seq(Chars)
<1>1. token.kind \in TokenKinds /\ token.text \in Seq(STRING)
  BY DEF Tokens
<1>2. token.text \in Seq(Chars)
  <2> DEFINE t == token.text
  <2>1. Len(t) \in Nat /\ t \in [1..Len(t) -> STRING]
    BY <1>1, LenProperties
  <2>2. \A c \in STRING : c \in Chars
    BY DEF Chars
  <2> HIDE DEF t
  <2>3. t \in [1..Len(t) -> Chars]
    BY <2>1, <2>2
  <2>4. t \in Seq(Chars)
    BY <2>1, <2>3, FunIsSeq
  <2> QED BY <2>4 DEF t
<1>3. <<" ">> \in Seq(Chars) /\ <<"\n">> \in Seq(Chars)
  <2>1. " " \in Chars /\ "\n" \in Chars
    BY DEF Chars
  <2> QED BY <2>1, LiteralsAreChars
<1> QED BY <1>1, <1>2, <1>3 DEF Uncommented

LEMMA TokenReads ==
  ASSUME NEW token \in Tokens, IsToken(token), NEW s \in CommentStates, s.mode = "code"
  PROVE  RunsTo(CommentStates, CommentFun, s, token.text, To(s, "code", Uncommented(token)))
<1>1. token.kind \in TokenKinds /\ token.text \in Seq(Chars)
  BY TokenTypes
<1>2. CASE token.kind = "string"
  <2>1. IsStringText(token.text)
    BY <1>2 DEF IsToken
  <2>2. Uncommented(token) = token.text
    BY <1>2 DEF Uncommented
  <2>3. RunsTo(CommentStates, CommentFun, s, token.text, To(s, "code", token.text))
    BY <1>1, <2>1, CommentScans, StringRuns
  <2> QED BY <2>2, <2>3
<1>3. CASE token.kind = "line"
  <2>1. IsCommentText("line", token.text)
    BY <1>3 DEF IsToken
  <2>2. Uncommented(token) = <<"\n">>
    BY <1>3 DEF Uncommented
  <2> QED BY <1>1, <2>1, <2>2, LineRuns
<1>4. CASE token.kind = "block"
  <2>1. IsCommentText("block", token.text)
    BY <1>4 DEF IsToken
  <2>2. Uncommented(token) = <<" ">>
    BY <1>4 DEF Uncommented
  <2> QED BY <1>1, <2>1, <2>2, BlockRuns
<1>5. CASE token.kind \notin {"string", "line", "block"}
  <2>1. Uncommented(token) = token.text
    BY <1>5 DEF Uncommented
  <2>2. \A k \in 1..Len(token.text) : token.text[k] # "\"" /\ token.text[k] # "/"
    BY <1>1, <1>5, TokenHasNoMarks
  <2>3. RunsTo(CommentStates, CommentFun, s, token.text, To(s, "code", token.text))
    BY <1>1, <2>2, CommentCopies
  <2> QED BY <2>1, <2>3
<1> QED BY <1>2, <1>3, <1>4, <1>5

\* strip_comments leaves of a document what each of its tokens leaves.
LEMMA CommentsGone ==
  ASSUME NEW tokens \in Seq(Tokens), \A k \in 1..Len(tokens) : IsToken(tokens[k])
  PROVE  strip_comments(Text(tokens)) = FlattenSeq([i \in DOMAIN tokens |-> Uncommented(tokens[i])])
<1> DEFINE L == Len(tokens)
           raw == [i \in DOMAIN tokens |-> tokens[i].text]
           left == [i \in DOMAIN tokens |-> Uncommented(tokens[i])]
<1>1. L \in Nat /\ DOMAIN tokens = 1..L /\ \A i \in 1..L : tokens[i] \in Tokens
  OBVIOUS
<1>2. \A i \in 1..L : raw[i] = tokens[i].text /\ left[i] = Uncommented(tokens[i])
  BY <1>1
<1>3. \A i \in 1..L : tokens[i].text \in Seq(Chars) /\ Uncommented(tokens[i]) \in Seq(Chars)
  BY <1>1, TokenTypes
<1>4. raw \in [1..L -> Seq(Chars)] /\ left \in [1..L -> Seq(Chars)]
  <2> DEFINE p(i) == tokens[i].text
             q(i) == Uncommented(tokens[i])
  <2>1. raw = [i \in 1..L |-> p(i)] /\ left = [i \in 1..L |-> q(i)]
    BY <1>1
  <2>2. \A i \in 1..L : p(i) \in Seq(Chars) /\ q(i) \in Seq(Chars)
    BY <1>3
  <2> HIDE DEF p, q, raw, left
  <2> QED BY <2>1, <2>2
<1>5. Text(tokens) = FlattenSeq(raw)
  BY DEF Text
<1> HIDE DEF raw, left, L
<1>6. raw \in Seq(Seq(Chars)) /\ left \in Seq(Seq(Chars)) /\ Len(raw) = L /\ Len(left) = L
  <2>1. \A f \in [1..L -> Seq(Chars)] : f \in Seq(Seq(Chars)) /\ Len(f) = L
    <3> TAKE f \in [1..L -> Seq(Chars)]
    <3>1. f \in Seq(Seq(Chars))
      BY <1>1, FunIsSeq
    <3>2. DOMAIN f = 1..L
      OBVIOUS
    <3> QED BY <1>1, <3>1, <3>2
  <2> QED BY <1>4, <2>1
<1>7. PICK flat : IsFlat(Chars, left, flat)
  BY <1>6, FlatExists
<1>8. /\ \A n \in 0..L : flat[n] \in Seq(Chars)
      /\ flat[0] = <<>> /\ flat[L] = FlattenSeq(left)
      /\ \A n \in 1..L : flat[n] = flat[n - 1] \o left[n]
  BY <1>6, <1>7 DEF IsFlat
<1> DEFINE start == [mode |-> "code", out |-> <<>>]
           state == [n \in 0..L |-> To(start, "code", flat[n])]
<1>9. start \in CommentStates /\ "code" \in CommentModes /\ start.mode = "code" /\ start.out = <<>>
  BY DEF CommentStates, CommentModes
<1> HIDE DEF start
<1>10. \A n \in 0..L : state[n] = To(start, "code", flat[n])
  OBVIOUS
<1> HIDE DEF state
<1>11. \A n \in 0..L : state[n] \in CommentStates /\ state[n].mode = "code"
  BY <1>8, <1>9, <1>10, CommentTo
<1>12. ASSUME NEW n \in 1..L
       PROVE  RunsTo(CommentStates, CommentFun, state[n - 1], raw[n], state[n])
  <2>1. n \in 0..L /\ n - 1 \in 0..L /\ tokens[n] \in Tokens
    BY <1>1
  <2>2. IsToken(tokens[n])
    BY DEF L
  <2> DEFINE u == state[n - 1]
  <2>3. u \in CommentStates /\ u.mode = "code"
    BY <1>11, <2>1
  <2> HIDE DEF u
  <2>4. RunsTo(CommentStates, CommentFun, u, tokens[n].text, To(u, "code", Uncommented(tokens[n])))
    BY <2>1, <2>2, <2>3, TokenReads
  <2>5. To(u, "code", Uncommented(tokens[n])) = state[n]
    <3> DEFINE a == flat[n - 1]
               b == left[n]
    <3>1. a \in Seq(Chars) /\ b \in Seq(Chars) /\ u = To(start, "code", a)
          /\ state[n] = To(start, "code", a \o b) /\ b = Uncommented(tokens[n])
      BY <1>2, <1>3, <1>8, <1>10, <2>1 DEF u
    <3> HIDE DEF a, b
    <3>2. \A q \in Seq(Chars) : To(To(start, "code", a), "code", q) = To(start, "code", a \o q)
      BY <1>9, <3>1, CommentTo
    <3> QED BY <3>1, <3>2
  <2> QED BY <1>2, <2>4, <2>5 DEF u
<1>13. RunsTo(CommentStates, CommentFun, state[0], FlattenSeq(raw), state[L])
  BY <1>6, <1>11, <1>12, RunsThrough
<1>14. state[0] = start
  <2>1. <<>> \in Seq(Chars)
    BY LiteralsAreChars
  <2>2. 0 \in 0..L
    BY <1>1
  <2>3. state[0] = To(start, "code", <<>>)
    BY <1>8, <1>10, <2>2
  <2>4. To(start, "code", <<>>) = start
    BY <1>9, <2>1, CommentTo
  <2> QED BY <2>3, <2>4
<1>15. Text(tokens) \in Seq(Chars)
  BY TokensAreText
<1> DEFINE end == FoldLeft(CommentStep, start, Text(tokens))
<1>16. end = state[L]
  <2>1. RunsTo(CommentStates, CommentFun, start, Text(tokens), end)
    BY <1>9, <1>15, CommentRuns
  <2>2. RunsTo(CommentStates, CommentFun, start, Text(tokens), state[L])
    BY <1>5, <1>13, <1>14
  <2> HIDE DEF end
  <2> QED BY <1>15, <2>1, <2>2, RunsAgree
<1>17. end.mode = "code" /\ end.out = FlattenSeq(left) /\ end.out \in Seq(Chars)
  <2>1. L \in 0..L
    BY <1>1
  <2>2. flat[L] \in Seq(Chars) /\ state[L] = To(start, "code", flat[L])
    BY <1>8, <1>10, <2>1
  <2>3. state[L].mode = "code" /\ state[L].out = start.out \o flat[L]
    <3>1. \A q \in Seq(Chars) : /\ To(start, "code", q).mode = "code"
                                /\ To(start, "code", q).out = start.out \o q
      BY <1>9, CommentTo
    <3> QED BY <2>2, <3>1
  <2>4. <<>> \o flat[L] = flat[L]
    BY <2>2
  <2> HIDE DEF end
  <2> QED BY <1>8, <1>9, <1>16, <2>2, <2>3, <2>4
<1>18. strip_comments(Text(tokens)) =
         end.out \o (CASE end.mode = "slash"            -> <<"/">>
                       [] end.mode \in {"block", "star"} -> <<" ">>
                       [] OTHER                          -> <<>>)
  BY Zenon DEF strip_comments, end, start
<1> HIDE DEF end
<1>19. strip_comments(Text(tokens)) = end.out \o <<>>
  BY <1>17, <1>18
<1>20. end.out \o <<>> = end.out
  BY <1>17, ConcatEmptySeq
<1> QED BY <1>17, <1>19, <1>20 DEF left

----------------------------------------------------------------------------
(* What strip_trailing_commas leaves of each token *)

Held(out, held) == [mode |-> "comma", out |-> out, held |-> held]

LEMMA ToThreeFields ==
  ASSUME NEW A, NEW B, NEW C, NEW u \in [mode : A, out : B, held : C], NEW n \in A,
         NEW q, u.out \o q \in B
  PROVE  To(u, n, q) = [mode |-> n, out |-> u.out \o q, held |-> u.held]
<1> DEFINE x == u.out \o q
           r == [u EXCEPT !.mode = n, !.out = x]
<1>1. To(u, n, q) = r
  BY Zenon DEF To
<1> HIDE DEF x
<1>2. r \in [mode : A, out : B, held : C]
  BY DEF x
<1>3. r.mode = n /\ r.out = x /\ r.held = u.held
  OBVIOUS
<1>4. \A y \in [mode : A, out : B, held : C] :
        y = [mode |-> y.mode, out |-> y.out, held |-> y.held]
  OBVIOUS
<1> HIDE DEF r
<1>5. r = [mode |-> n, out |-> x, held |-> u.held]
  BY <1>2, <1>3, <1>4, Zenon
<1> QED BY <1>1, <1>5 DEF x

LEMMA ThreeFields ==
  ASSUME NEW A, NEW B, NEW C, NEW u \in [mode : A, out : B, held : C]
  PROVE  u = [mode |-> u.mode, out |-> u.out, held |-> u.held]
OBVIOUS

LEMMA CommaTo ==
  ASSUME NEW s \in CommaStates, NEW m \in CommaModes, NEW p \in Seq(Chars)
  PROVE  /\ To(s, m, p) \in CommaStates /\ To(s, m, p).mode = m
         /\ To(s, m, p).out = s.out \o p
         /\ \A n \in CommaModes, q \in Seq(Chars) : To(To(s, m, p), n, q) = To(s, n, p \o q)
         /\ s.mode = m => To(s, m, <<>>) = s
<1>1. s.out \in Seq(Chars) /\ s.mode \in CommaModes /\ s.held \in Seq(Chars)
  BY DEF CommaStates
<1> DEFINE o == s.out
           h == s.held
           R(n, x, y) == [mode |-> n, out |-> x, held |-> y]
<1>2. s = R(s.mode, o, h)
  BY DEF CommaStates
<1>3. \A n, x, y : R(n, x, y).mode = n /\ R(n, x, y).out = x /\ R(n, x, y).held = y
  OBVIOUS
<1>4. \A n \in CommaModes, x \in Seq(Chars), y \in Seq(Chars) : R(n, x, y) \in CommaStates
  BY DEF CommaStates
<1>5. ASSUME NEW u \in CommaStates, NEW n \in CommaModes, NEW q \in Seq(Chars)
      PROVE  To(u, n, q) = R(n, u.out \o q, u.held)
  <2>1. u.out \o q \in Seq(Chars)
    <3>1. u.out \in Seq(Chars)
      BY DEF CommaStates
    <3> QED BY <3>1, ConcatIsSeq
  <2>2. u \in [mode : CommaModes, out : Seq(Chars), held : Seq(Chars)]
    BY DEF CommaStates
  <2>3. To(u, n, q) = [mode |-> n, out |-> u.out \o q, held |-> u.held]
    <3> DEFINE A == CommaModes
               B == Seq(Chars)
    <3>1. u \in [mode : A, out : B, held : B] /\ n \in A /\ u.out \o q \in B
      BY <2>1, <2>2
    <3> HIDE DEF A, B
    <3> QED BY <3>1, ToThreeFields
  <2> QED BY <2>3, Zenon
<1> HIDE DEF R
<1>6. o \in Seq(Chars) /\ h \in Seq(Chars)
  BY <1>1
<1> HIDE DEF o, h
<1>7. o \o p \in Seq(Chars)
  BY <1>6, ConcatIsSeq
<1>8. To(s, m, p) = R(m, o \o p, h)
  BY <1>5, Zenon DEF o, h
<1>9. R(m, o \o p, h) \in CommaStates
  BY <1>6, <1>4, <1>7
<1>10. /\ R(m, o \o p, h).mode = m /\ R(m, o \o p, h).out = o \o p
       /\ R(m, o \o p, h).held = h
  BY DEF R
<1>11. \A n \in CommaModes, q \in Seq(Chars) : To(To(s, m, p), n, q) = To(s, n, p \o q)
  <2> TAKE n \in CommaModes, q \in Seq(Chars)
  <2>1. /\ R(m, o \o p, h) \in CommaStates /\ R(m, o \o p, h).out = o \o p
        /\ R(m, o \o p, h).held = h
    BY <1>9, <1>10
  <2>2. To(R(m, o \o p, h), n, q) = R(n, (o \o p) \o q, h)
    BY <1>5, <2>1
  <2>3. To(s, n, p \o q) = R(n, o \o (p \o q), h)
    <3>1. p \o q \in Seq(Chars)
      BY ConcatIsSeq
    <3> QED BY <1>5, <3>1 DEF o, h
  <2>4. (o \o p) \o q = o \o (p \o q)
    <3>1. o \in Seq(Chars)
      BY <1>6
    <3> QED BY <3>1, ConcatAssociative
  <2> QED BY <1>8, <2>2, <2>3, <2>4, Zenon
<1>12. s.mode = m => To(s, m, <<>>) = s
  <2>1. <<>> \in Seq(Chars) /\ o \o <<>> = o
    BY <1>6, LiteralsAreChars, ConcatEmptySeq
  <2> QED BY <1>2, <1>5, <2>1 DEF o, h
<1>13. To(s, m, p) \in CommaStates /\ To(s, m, p).mode = m /\ To(s, m, p).out = o \o p
  BY <1>8, <1>9, <1>10
<1> QED BY <1>11, <1>12, <1>13 DEF o

LEMMA CommaFunIs ==
  \A s \in CommaStates, ch \in Chars : CommaFun[<<s, ch>>] = CommaStep(s, ch)
BY DEF CommaFun

LEMMA CommaScans == Scans(CommaStates, CommaFun)
<1>1. \A m \in TextModes : m \in CommaModes
  BY DEF TextModes, CommaModes
<1>2. \A ch \in Chars : <<ch>> \in Seq(Chars)
  BY LiteralsAreChars
<1>3. Pushes(CommaStates)
  <2> SUFFICES ASSUME NEW s \in CommaStates, NEW m \in TextModes, NEW p \in Seq(Chars)
               PROVE  /\ To(s, m, p) \in CommaStates /\ To(s, m, p).mode = m
                      /\ \A ch \in Chars, n \in TextModes :
                           To(To(s, m, p), n, <<ch>>) = To(s, n, p \o <<ch>>)
    BY DEF Pushes
  <2>1. m \in CommaModes
    BY <1>1
  <2>2. /\ To(s, m, p) \in CommaStates /\ To(s, m, p).mode = m
        /\ \A n \in CommaModes, q \in Seq(Chars) : To(To(s, m, p), n, q) = To(s, n, p \o q)
    BY <2>1, CommaTo
  <2> QED BY <1>1, <1>2, <2>2
<1>4. PushesNothing(CommaStates)
  <2>1. "code" \in CommaModes /\ <<>> \in Seq(Chars)
    BY LiteralsAreChars DEF CommaModes
  <2> QED BY <2>1, CommaTo DEF PushesNothing
<1>5. ReadsStrings(CommaStates, CommaFun)
  <2>1. \A s \in CommaStates, ch \in Chars :
          s.mode \in {"string", "escape"} => CommaStep(s, ch) = InString(s, ch)
    BY DEF CommaStep
  <2>2. \A s \in CommaStates :
          s.mode = "code" => CommaStep(s, "\"") = To(s, "string", <<"\"">>)
    BY DEF CommaStep, OutsideComma
  <2>3. "\"" \in Chars
    BY DEF Chars
  <2> QED BY <2>1, <2>2, <2>3, CommaFunIs DEF ReadsStrings
<1> QED BY <1>3, <1>4, <1>5 DEF Scans

LEMMA CommaCopies ==
  ASSUME NEW s \in CommaStates, s.mode = "code", NEW t \in Seq(Chars),
         \A k \in 1..Len(t) : t[k] # "\"" /\ t[k] # ","
  PROVE  RunsTo(CommaStates, CommaFun, s, t, To(s, "code", t))
<1>1. ASSUME NEW u \in CommaStates, NEW k \in 1..Len(t), u.mode = "code"
      PROVE  CommaFun[<<u, t[k]>>] = To(u, "code", <<t[k]>>)
  <2>1. t[k] \in Chars /\ t[k] # "\"" /\ t[k] # ","
    <3>1. \A i \in 1..Len(t) : t[i] \in Chars
      BY SeqAt, Zenon
    <3> QED BY <3>1, Zenon
  <2>2. CommaFun[<<u, t[k]>>] = CommaStep(u, t[k])
    BY <2>1, CommaFunIs
  <2>3. CommaStep(u, t[k]) = OutsideComma(u, t[k])
    BY <1>1 DEF CommaStep
  <2> QED BY <2>1, <2>2, <2>3 DEF OutsideComma
<1> QED BY <1>1, CommaScans, CopyRuns

\* A comma is held, and so is the white space after it.
LEMMA CommaIsHeld ==
  ASSUME NEW s \in CommaStates, NEW ch \in Chars
  PROVE  /\ s.mode = "code" /\ ch = "," => CommaFun[<<s, ch>>] = Held(s.out, <<>>)
         /\ s.mode = "comma" /\ ch \in White =>
              CommaFun[<<s, ch>>] = Held(s.out, s.held \o <<ch>>)
         /\ s.mode = "comma" => s = Held(s.out, s.held)
<1>1. CommaFun[<<s, ch>>] = CommaStep(s, ch)
  BY CommaFunIs
<1> DEFINE A == CommaModes
           B == Seq(Chars)
<1>2. s \in [mode : A, out : B, held : B] /\ "comma" \in A
  BY DEF CommaStates, CommaModes
<1> HIDE DEF A, B
<1>3. ASSUME NEW h \in B
      PROVE  /\ [s EXCEPT !.mode = "comma", !.held = h] = Held(s.out, h)
             /\ s.mode = "comma" => [s EXCEPT !.held = h] = Held(s.out, h)
  <2> DEFINE r == [s EXCEPT !.mode = "comma", !.held = h]
             v == [s EXCEPT !.held = h]
  <2>1. r \in [mode : A, out : B, held : B] /\ r.mode = "comma" /\ r.out = s.out /\ r.held = h
    BY <1>2
  <2>2. v \in [mode : A, out : B, held : B] /\ v.mode = s.mode /\ v.out = s.out /\ v.held = h
    BY <1>2
  <2> HIDE DEF r, v
  <2>3. r = [mode |-> r.mode, out |-> r.out, held |-> r.held]
    BY <2>1, ThreeFields
  <2>4. v = [mode |-> v.mode, out |-> v.out, held |-> v.held]
    BY <2>2, ThreeFields
  <2> QED BY <2>1, <2>2, <2>3, <2>4 DEF r, v, Held
<1>4. s.mode = "comma" => s = Held(s.out, s.held)
  <2>1. s = [mode |-> s.mode, out |-> s.out, held |-> s.held]
    BY <1>2, ThreeFields, Zenon
  <2> QED BY <2>1, Zenon DEF Held
<1>5. ASSUME s.mode = "code", ch = "," PROVE CommaFun[<<s, ch>>] = Held(s.out, <<>>)
  <2>1. CommaStep(s, ch) = OutsideComma(s, ch)
    BY <1>5 DEF CommaStep
  <2>2. OutsideComma(s, ch) = [s EXCEPT !.mode = "comma", !.held = <<>>]
    BY <1>5 DEF OutsideComma
  <2>3. <<>> \in B
    BY LiteralsAreChars DEF B
  <2>4. [s EXCEPT !.mode = "comma", !.held = <<>>] = Held(s.out, <<>>)
    BY <1>3, <2>3
  <2> QED BY <1>1, <2>1, <2>2, <2>4
<1>6. ASSUME s.mode = "comma", ch \in White
      PROVE  CommaFun[<<s, ch>>] = Held(s.out, s.held \o <<ch>>)
  <2>1. CommaStep(s, ch) = [s EXCEPT !.held = Append(s.held, ch)]
    BY <1>6 DEF CommaStep
  <2>2. s.held \in Seq(Chars)
    BY DEF CommaStates
  <2>3. Append(s.held, ch) = s.held \o <<ch>> /\ Append(s.held, ch) \in B
    BY <2>2 DEF B
  <2>4. [s EXCEPT !.held = Append(s.held, ch)] = Held(s.out, Append(s.held, ch))
    BY <1>3, <1>6, <2>3
  <2> QED BY <1>1, <2>1, <2>3, <2>4
<1> QED BY <1>4, <1>5, <1>6, Zenon

LEMMA TextsAssociate == \A a, b, c \in Seq(Chars) : (a \o b) \o c = a \o (b \o c)
<1> SUFFICES ASSUME NEW a \in Seq(Chars), NEW b \in Seq(Chars), NEW c \in Seq(Chars)
             PROVE  (a \o b) \o c = a \o (b \o c)
  OBVIOUS
<1> QED BY ConcatAssociative

\* The document is one.
IsDocument == doc \in Seq(Tokens) /\ \A k \in 1..Len(doc) : IsToken(doc[k])

Blank == {"space", "line", "block"}

\* What the document is to be without its markup, token by token.
PlainOf(i) ==
  CASE doc[i].kind = "block" -> <<" ">>
    [] doc[i].kind = "line"  -> <<"\n">>
    [] doc[i].kind = "comma" /\ Trailing(i) -> <<>>
    [] OTHER -> doc[i].text

\* Where strip_trailing_commas is after n tokens, of which left is to be left:
\* it has pushed just that, or it holds the last comma and the white space
\* since then.
Reached(s, left, n) ==
  \/ s.mode = "code" /\ s.out = left
  \/ /\ s.mode = "comma"
     /\ \E k \in 1..n :
          /\ doc[k].kind = "comma"
          /\ \A j \in (k + 1)..n : doc[j].kind \in Blank
          /\ left = (s.out \o PlainOf(k)) \o s.held

\* What follows a comma decides about it.
LEMMA CommaResumes ==
  ASSUME NEW s \in CommaStates, s.mode = "comma", NEW ch \in Chars, ch \notin White,
         NEW comma, comma = IF ch \in Closing THEN <<>> ELSE <<",">>
  PROVE  /\ comma \o s.held \in Seq(Chars)
         /\ To(s, "code", comma \o s.held) \in CommaStates
         /\ CommaFun[<<s, ch>>] = CommaFun[<<To(s, "code", comma \o s.held), ch>>]
<1> DEFINE p == comma \o s.held
           r == To(s, "code", p)
<1>1. p \in Seq(Chars)
  <2>1. comma \in Seq(Chars)
    BY LiteralsAreChars
  <2>2. s.held \in Seq(Chars)
    BY DEF CommaStates
  <2> QED BY <2>1, <2>2, ConcatIsSeq
<1>2. CommaStep(s, ch) = OutsideComma(r, ch)
  BY Zenon DEF CommaStep
<1> HIDE DEF p
<1>3. r \in CommaStates /\ r.mode = "code"
  <2>1. "code" \in CommaModes
    BY DEF CommaModes
  <2> QED BY <1>1, <2>1, CommaTo
<1> HIDE DEF r
<1>4. CommaStep(r, ch) = OutsideComma(r, ch)
  BY <1>3 DEF CommaStep
<1>5. CommaFun[<<s, ch>>] = CommaFun[<<r, ch>>]
  BY <1>2, <1>3, <1>4, CommaFunIs
<1> QED BY <1>1, <1>3, <1>5 DEF p, r

\* White space after a comma is held back with it.
LEMMA HeldRuns ==
  ASSUME NEW s \in CommaStates, s.mode = "comma", NEW t \in Seq(Chars),
         \A k \in 1..Len(t) : t[k] \in White
  PROVE  /\ Held(s.out, s.held \o t) \in CommaStates
         /\ RunsTo(CommaStates, CommaFun, s, t, Held(s.out, s.held \o t))
<1> DEFINE L == Len(t)
           h(k) == s.held \o SubSeq(t, 1, k)
           x == [k \in 0..L |-> Held(s.out, h(k))]
<1>1. s.out \in Seq(Chars) /\ s.held \in Seq(Chars)
  BY DEF CommaStates
<1>2. L \in Nat
  OBVIOUS
<1>3. \A k \in 1..L : t[k] \in Chars
  BY SeqAt, Zenon
<1>4. /\ SubSeq(t, 1, 0) = <<>> /\ SubSeq(t, 1, L) = t
      /\ \A k \in 0..L : SubSeq(t, 1, k) \in Seq(Chars)
      /\ \A k \in 1..L : SubSeq(t, 1, k - 1) \o <<t[k]>> = SubSeq(t, 1, k)
  BY PrefixFacts
<1> DEFINE sub(k) == SubSeq(t, 1, k)
           hd == s.held
<1> HIDE DEF sub
<1>5. \A k \in 0..L : h(k) \in Seq(Chars)
  <2> TAKE k \in 0..L
  <2>1. sub(k) \in Seq(Chars) /\ hd \in Seq(Chars)
    BY <1>1, <1>4 DEF sub
  <2>2. hd \o sub(k) \in Seq(Chars)
    BY <2>1, ConcatIsSeq
  <2> QED BY <2>2 DEF sub
<1>6. \A k \in 1..L : h(k - 1) \o <<t[k]>> = h(k)
  <2> TAKE k \in 1..L
  <2> DEFINE u == sub(k - 1)
             v == <<t[k]>>
  <2>1. u \in Seq(Chars) /\ v \in Seq(Chars) /\ hd \in Seq(Chars) /\ u \o v = sub(k)
    <3>1. k - 1 \in 0..L
      BY <1>2
    <3> QED BY <1>1, <1>3, <1>4, <3>1, LiteralsAreChars DEF sub
  <2> HIDE DEF u, v, hd
  <2>2. (hd \o u) \o v = hd \o (u \o v)
    <3>1. u \in Seq(Chars) /\ v \in Seq(Chars) /\ hd \in Seq(Chars)
      BY <2>1
    <3>2. \A a, b, c \in Seq(Chars) : (a \o b) \o c = a \o (b \o c)
      BY TextsAssociate
    <3> QED BY <3>1, <3>2
  <2> QED BY <2>1, <2>2 DEF u, v, hd, sub
<1>7. h(0) = s.held /\ h(L) = s.held \o t
  BY <1>1, <1>4, ConcatEmptySeq
<1> HIDE DEF h
<1>8. \A k \in 0..L : x[k] = Held(s.out, h(k))
  OBVIOUS
<1> HIDE DEF x, L
<1>9. \A y \in Seq(Chars) : /\ Held(s.out, y) \in CommaStates
                            /\ Held(s.out, y).mode = "comma"
                            /\ Held(s.out, y).out = s.out /\ Held(s.out, y).held = y
  BY <1>1 DEF Held, CommaStates, CommaModes
<1>10. \A k \in 0..L : x[k] \in CommaStates
  BY <1>5, <1>8, <1>9
<1>11. ASSUME NEW k \in 1..L PROVE CommaFun[<<x[k - 1], t[k]>>] = x[k]
  <2> DEFINE u == x[k - 1]
             y == h(k - 1)
  <2>1. k - 1 \in 0..L /\ k \in 0..L /\ t[k] \in Chars /\ t[k] \in White
    BY <1>2, <1>3 DEF L
  <2>2. u = Held(s.out, y) /\ y \in Seq(Chars)
    BY <1>5, <1>8, <2>1
  <2>3. u \in CommaStates /\ u.mode = "comma" /\ u.out = s.out /\ u.held = y
    BY <1>9, <2>2
  <2> HIDE DEF u, y
  <2>4. CommaFun[<<u, t[k]>>] = Held(u.out, u.held \o <<t[k]>>)
    BY <2>1, <2>3, CommaIsHeld
  <2>5. y \o <<t[k]>> = h(k) /\ x[k] = Held(s.out, h(k))
    BY <1>6, <1>8, <2>1 DEF y
  <2> QED BY <2>3, <2>4, <2>5 DEF u
<1>12. RunsTo(CommaStates, CommaFun, x[0], t, x[L])
  BY <1>10, <1>11, StatesRun DEF L
<1>13. x[0] = s /\ x[L] = Held(s.out, s.held \o t)
  <2>1. 0 \in 0..L /\ L \in 0..L
    BY <1>2
  <2>2. "," \in Chars
    BY DEF Chars
  <2>3. s = Held(s.out, s.held)
    BY <2>2, CommaIsHeld
  <2> QED BY <1>7, <1>8, <2>1, <2>3
<1>14. Held(s.out, s.held \o t) \in CommaStates
  <2>1. s.held \o t \in Seq(Chars)
    BY <1>1, ConcatIsSeq
  <2> QED BY <1>9, <2>1
<1> QED BY <1>12, <1>13, <1>14

LEMMA OneChar ==
  ASSUME NEW ch
  PROVE  /\ Len(<<ch>>) = 1 /\ <<ch>>[1] = ch /\ <<ch>> # <<>>
         /\ \A k \in 1..Len(<<ch>>) : <<ch>>[k] = ch
OBVIOUS

\* What a blank token leaves is white space.
LEMMA BlankIsWhite ==
  ASSUME NEW token, token.kind \in Blank, IsToken(token), token.text \in Seq(Chars)
  PROVE  \A k \in 1..Len(Uncommented(token)) : Uncommented(token)[k] \in White
<1>1. CASE token.kind = "space"
  <2>1. Uncommented(token) = token.text
    BY <1>1 DEF Uncommented
  <2>2. \A k \in DOMAIN token.text : token.text[k] \in White
    BY <1>1 DEF IsToken
  <2>3. DOMAIN token.text = 1..Len(token.text)
    OBVIOUS
  <2> QED BY <2>1, <2>2, <2>3, Zenon
<1>2. CASE token.kind = "line"
  <2>1. Uncommented(token) = <<"\n">> /\ "\n" \in White
    BY <1>2 DEF Uncommented, White
  <2>2. \A k \in 1..Len(<<"\n">>) : <<"\n">>[k] \in White
    BY <2>1, OneChar
  <2> QED BY <2>1, <2>2, Zenon
<1>3. CASE token.kind = "block"
  <2>1. Uncommented(token) = <<" ">> /\ " " \in White
    BY <1>3 DEF Uncommented, White
  <2>2. \A k \in 1..Len(<<" ">>) : <<" ">>[k] \in White
    BY <2>1, OneChar
  <2> QED BY <2>1, <2>2, Zenon
<1> QED BY <1>1, <1>2, <1>3 DEF Blank

\* A token of which every character is pushed as it is.
Solid(token) ==
  LET t == token.text
  IN  /\ t # <<>> /\ t[1] \notin White
      /\ t[1] \in Closing <=> token.kind = "close"
      /\ token.kind # "string" => \A k \in 1..Len(t) : t[k] # "\"" /\ t[k] # ","

LEMMA OthersAreSolid ==
  ASSUME NEW token, token.kind \in TokenKinds, token.kind \notin Blank, token.kind # "comma",
         IsToken(token), token.text \in Seq(Chars)
  PROVE  Solid(token)
<1> DEFINE t == token.text
<1>1. DOMAIN t = 1..Len(t) /\ (t # <<>> => 1 \in DOMAIN t)
  <2> HIDE DEF t
  <2>1. t \in Seq(Chars)
    BY DEF t
  <2>2. DOMAIN t = 1..Len(t) /\ Len(t) \in Nat
    BY <2>1
  <2>3. t # <<>> => Len(t) # 0
    BY <2>1, EmptySeq
  <2> QED BY <2>2, <2>3
<1>2. ASSUME NEW ch, t = <<ch>>, ch # "\"", ch # ",", ch \notin White,
             ch \in Closing <=> token.kind = "close"
      PROVE  Solid(token)
  <2>1. t # <<>> /\ t[1] = ch /\ \A k \in 1..Len(t) : t[k] = ch
    <3>1. t = <<ch>>
      BY <1>2
    <3> HIDE DEF t
    <3> QED BY <3>1, OneChar, Zenon
  <2> QED BY <1>2, <2>1, Zenon DEF Solid
<1>3. CASE token.kind = "open"
  <2>1. t = <<"{">> \/ t = <<"[">>
    BY <1>3 DEF IsToken
  <2>2. \A ch \in {"{", "["} : ch # "\"" /\ ch # "," /\ ch \notin White /\ ch \notin Closing
    BY DEF White, Closing
  <2> QED BY <1>2, <1>3, <2>1, <2>2
<1>4. CASE token.kind = "close"
  <2>1. t = <<"}">> \/ t = <<"]">>
    BY <1>4 DEF IsToken
  <2>2. \A ch \in {"}", "]"} : ch # "\"" /\ ch # "," /\ ch \notin White /\ ch \in Closing
    BY DEF White, Closing
  <2> QED BY <1>2, <1>4, <2>1, <2>2
<1>5. CASE token.kind = "colon"
  <2>1. t = <<":">>
    BY <1>5 DEF IsToken
  <2>2. ":" # "\"" /\ ":" # "," /\ ":" \notin White /\ ":" \notin Closing
    BY DEF White, Closing
  <2> QED BY <1>2, <1>5, <2>1, <2>2
<1>6. CASE token.kind = "scalar"
  <2>1. /\ t # <<>>
        /\ \A k \in DOMAIN t : t[k] \notin White \cup Closing \cup {"\"", "/", ","}
    BY <1>6 DEF IsToken
  <2>2. \A k \in DOMAIN t : t[k] \notin White /\ t[k] \notin Closing /\ t[k] # "\"" /\ t[k] # ","
    BY <2>1, Zenon
  <2>3. token.kind # "close"
    BY <1>6
  <2> QED BY <1>1, <2>1, <2>2, <2>3, Zenon DEF Solid
<1>7. CASE token.kind = "string"
  <2>1. IsStringText(t)
    BY <1>7 DEF IsToken
  <2>2. Len(t) >= 2 /\ t[1] = "\""
    BY <2>1 DEF IsStringText
  <2>3. t # <<>>
    <3> HIDE DEF t
    <3>1. Len(t) >= 2
      BY <2>2, Zenon
    <3>2. Len(t) # 0
      BY <3>1
    <3>3. Len(<<>>) = 0
      OBVIOUS
    <3> QED BY <3>2, <3>3, Zenon
  <2>4. "\"" \notin White /\ "\"" \notin Closing
    BY DEF White, Closing
  <2> QED BY <1>7, <2>2, <2>3, <2>4 DEF Solid
<1> QED BY <1>3, <1>4, <1>5, <1>6, <1>7 DEF TokenKinds, Blank

\* A solid token is pushed as it is.
LEMMA SolidRuns ==
  ASSUME NEW token \in Tokens, IsToken(token), Solid(token),
         NEW s \in CommaStates, s.mode = "code"
  PROVE  RunsTo(CommaStates, CommaFun, s, token.text, To(s, "code", token.text))
<1>1. token.text \in Seq(Chars)
  BY TokenTypes
<1>2. CASE token.kind = "string"
  <2>1. IsStringText(token.text)
    BY <1>2 DEF IsToken
  <2> QED BY <1>1, <2>1, CommaScans, StringRuns
<1>3. CASE token.kind # "string"
  <2>1. \A k \in 1..Len(token.text) : token.text[k] # "\"" /\ token.text[k] # ","
    BY <1>3 DEF Solid
  <2> QED BY <1>1, <2>1, CommaCopies
<1> QED BY <1>2, <1>3

LEMMA PlainTypes ==
  ASSUME IsDocument, NEW i \in 1..Len(doc)
  PROVE  /\ doc[i] \in Tokens /\ PlainOf(i) \in Seq(Chars)
         /\ doc[i].kind # "comma" => PlainOf(i) = Uncommented(doc[i])
         /\ doc[i].kind # "comma" /\ doc[i].kind \notin Blank => PlainOf(i) = doc[i].text
<1>1. doc[i] \in Tokens
  BY DEF IsDocument
<1>2. doc[i].text \in Seq(Chars) /\ Uncommented(doc[i]) \in Seq(Chars) /\ <<>> \in Seq(Chars)
  BY <1>1, TokenTypes, LiteralsAreChars
<1>3. <<" ">> \in Seq(Chars) /\ <<"\n">> \in Seq(Chars)
  <2>1. " " \in Chars /\ "\n" \in Chars
    BY DEF Chars
  <2> QED BY <2>1, LiteralsAreChars
<1> QED BY <1>1, <1>2, <1>3 DEF PlainOf, Uncommented, Blank

\* The comma that is held is trailing if the next token that is not blank
\* closes something.
LEMMA CommaDecided ==
  ASSUME IsDocument,
         NEW n \in 1..Len(doc), doc[n].kind \notin Blank,
         NEW k \in 1..(n - 1), doc[k].kind = "comma",
         \A j \in (k + 1)..(n - 1) : doc[j].kind \in Blank
  PROVE  PlainOf(k) = IF doc[n].kind = "close" THEN <<>> ELSE <<",">>
<1>1. k \in 1..Len(doc) /\ n \in (k + 1)..Len(doc)
  BY DEF IsDocument
<1>2. Trailing(k) <=> doc[n].kind = "close"
  <2>1. ASSUME doc[n].kind = "close" PROVE Trailing(k)
    BY <1>1, <2>1 DEF Trailing, Blank
  <2>2. ASSUME Trailing(k) PROVE doc[n].kind = "close"
    <3>1. PICK j \in (k + 1)..Len(doc) :
            doc[j].kind = "close" /\ \A i \in (k + 1)..(j - 1) : doc[i].kind \in Blank
      BY <2>2 DEF Trailing, Blank
    <3>2. ~(j < n)
      <4> SUFFICES ASSUME j < n PROVE FALSE
        OBVIOUS
      <4>1. j \in (k + 1)..(n - 1)
        BY <1>1
      <4>2. "close" \in Blank
        BY <3>1, <4>1
      <4> QED BY <4>2 DEF Blank
    <3>3. ~(n < j)
      <4> SUFFICES ASSUME n < j PROVE FALSE
        OBVIOUS
      <4>1. n \in (k + 1)..(j - 1)
        BY <1>1
      <4> QED BY <3>1, <4>1
    <3>4. j = n
      BY <1>1, <3>2, <3>3
    <3> QED BY <3>1, <3>4
  <2> QED BY <2>1, <2>2
<1>3. doc[k].text = <<",">>
  <2>1. IsToken(doc[k])
    BY <1>1 DEF IsDocument
  <2> QED BY <2>1 DEF IsToken
<1> QED BY <1>2, <1>3 DEF PlainOf

\* At the end of the document no closing bracket follows.
LEMMA LastComma ==
  ASSUME IsDocument,
         NEW k \in 1..Len(doc), doc[k].kind = "comma",
         \A j \in (k + 1)..Len(doc) : doc[j].kind \in Blank
  PROVE  PlainOf(k) = <<",">>
<1>1. ~Trailing(k)
  <2> SUFFICES ASSUME NEW j \in (k + 1)..Len(doc), doc[j].kind = "close" PROVE FALSE
    BY DEF Trailing
  <2>1. "close" \in Blank
    OBVIOUS
  <2> QED BY <2>1 DEF Blank
<1>2. doc[k].text = <<",">>
  BY DEF IsDocument, IsToken
<1> QED BY <1>1, <1>2 DEF PlainOf

\* The first character of token n, if that is not blank.
Follows(ch, n) ==
  /\ ch \in Chars /\ ch \notin White
  /\ ch \in Closing <=> doc[n].kind = "close"

\* The character is read as in a state that has pushed what is to be left.
Resumes(s, left, ch) ==
  \E q \in CommaStates : /\ q.mode = "code" /\ q.out = left
                         /\ CommaFun[<<s, ch>>] = CommaFun[<<q, ch>>]

LEMMA CommaResolved ==
  ASSUME IsDocument,
         NEW n \in 1..Len(doc), doc[n].kind \notin Blank, NEW s \in CommaStates,
         NEW left, Reached(s, left, n - 1), NEW ch, Follows(ch, n)
  PROVE  Resumes(s, left, ch)
<1>1. ch \in Chars /\ ch \notin White /\ (ch \in Closing <=> doc[n].kind = "close")
  BY DEF Follows
<1>2. CASE s.mode = "code"
  <2>1. s.out = left
    BY <1>2 DEF Reached
  <2> QED BY <1>2, <2>1 DEF Resumes
<1>3. CASE s.mode = "comma"
  <2>1. PICK k \in 1..(n - 1) :
          /\ doc[k].kind = "comma"
          /\ \A j \in (k + 1)..(n - 1) : doc[j].kind \in Blank
          /\ left = (s.out \o PlainOf(k)) \o s.held
    BY <1>3 DEF Reached
  <2> DEFINE comma == IF ch \in Closing THEN <<>> ELSE <<",">>
             q == To(s, "code", comma \o s.held)
  <2>2. PlainOf(k) = comma
    BY <1>1, <2>1, CommaDecided
  <2>3. comma \in Seq(Chars)
    BY LiteralsAreChars
  <2>4. /\ comma \o s.held \in Seq(Chars) /\ q \in CommaStates
        /\ CommaFun[<<s, ch>>] = CommaFun[<<q, ch>>]
    BY <1>1, <1>3, CommaResumes
  <2> HIDE DEF comma
  <2>5. q.mode = "code" /\ q.out = s.out \o (comma \o s.held)
    <3>1. "code" \in CommaModes
      BY DEF CommaModes
    <3> DEFINE p == comma \o s.held
    <3>2. p \in Seq(Chars) /\ q = To(s, "code", p)
      BY <2>4
    <3> HIDE DEF p, q
    <3>3. To(s, "code", p).mode = "code" /\ To(s, "code", p).out = s.out \o p
      BY <3>1, <3>2, CommaTo
    <3> QED BY <3>2, <3>3 DEF p
  <2>6. (s.out \o comma) \o s.held = s.out \o (comma \o s.held)
    <3>1. s.out \in Seq(Chars) /\ s.held \in Seq(Chars)
      BY DEF CommaStates
    <3> QED BY <2>3, <3>1, TextsAssociate
  <2> HIDE DEF q
  <2> QED BY <2>1, <2>2, <2>4, <2>5, <2>6 DEF Resumes
<1> QED BY <1>2, <1>3 DEF Reached

LEMMA BlankStep ==
  ASSUME IsDocument,
         NEW n \in 1..Len(doc), doc[n].kind \in Blank,
         NEW s \in CommaStates, NEW a, Reached(s, a, n - 1), NEW b, b = a \o PlainOf(n)
  PROVE  \E r \in CommaStates : /\ RunsTo(CommaStates, CommaFun, s, Uncommented(doc[n]), r)
                                /\ Reached(r, b, n)
<1> DEFINE u == Uncommented(doc[n])
<1>1. u \in Seq(Chars) /\ PlainOf(n) = u
  <2>1. doc[n] \in Tokens
    BY DEF IsDocument
  <2>2. doc[n].kind # "comma"
    BY DEF Blank
  <2> QED BY <2>1, <2>2, PlainTypes, TokenTypes
<1>2. \A k \in 1..Len(u) : u[k] \in White
  <2>1. doc[n] \in Tokens /\ IsToken(doc[n])
    BY DEF IsDocument
  <2>2. doc[n].text \in Seq(Chars)
    BY <2>1, TokenTypes
  <2> QED BY <2>1, <2>2, BlankIsWhite
<1> HIDE DEF u
<1>3. s.out \in Seq(Chars) /\ s.held \in Seq(Chars)
  BY DEF CommaStates
<1>4. CASE s.mode = "code"
  <2>1. \A k \in 1..Len(u) : u[k] # "\"" /\ u[k] # ","
    <3>1. "\"" \notin White /\ "," \notin White
      BY DEF White
    <3> QED BY <1>2, <3>1, Zenon
  <2>2. RunsTo(CommaStates, CommaFun, s, u, To(s, "code", u))
    BY <1>1, <1>4, <2>1, CommaCopies
  <2>3. /\ To(s, "code", u) \in CommaStates /\ To(s, "code", u).mode = "code"
        /\ To(s, "code", u).out = s.out \o u
    <3>1. "code" \in CommaModes
      BY DEF CommaModes
    <3> QED BY <1>1, <3>1, CommaTo
  <2>4. s.out = a
    BY <1>4 DEF Reached
  <2>5. Reached(To(s, "code", u), b, n)
    BY <1>1, <2>3, <2>4 DEF Reached
  <2> QED BY <2>2, <2>3, <2>5 DEF u
<1>5. CASE s.mode = "comma"
  <2>1. PICK k \in 1..(n - 1) :
          /\ doc[k].kind = "comma"
          /\ \A j \in (k + 1)..(n - 1) : doc[j].kind \in Blank
          /\ a = (s.out \o PlainOf(k)) \o s.held
    BY <1>5 DEF Reached
  <2> DEFINE r == Held(s.out, s.held \o u)
  <2>2. r \in CommaStates /\ RunsTo(CommaStates, CommaFun, s, u, r)
    BY <1>1, <1>2, <1>5, HeldRuns
  <2>3. r.mode = "comma" /\ r.out = s.out /\ r.held = s.held \o u
    BY DEF Held
  <2> HIDE DEF r
  <2>4. b = (s.out \o PlainOf(k)) \o (s.held \o u)
    <3> DEFINE x == s.out \o PlainOf(k)
               h == s.held
    <3>1. x \in Seq(Chars)
      <4>1. k \in 1..Len(doc)
        OBVIOUS
      <4>2. PlainOf(k) \in Seq(Chars)
        BY <4>1, PlainTypes
      <4> QED BY <1>3, <4>2, ConcatIsSeq
    <3>2. h \in Seq(Chars) /\ b = (x \o h) \o u
      BY <1>1, <1>3, <2>1
    <3> HIDE DEF x, h
    <3>3. (x \o h) \o u = x \o (h \o u)
      BY <1>1, <3>1, <3>2, TextsAssociate
    <3> QED BY <3>2, <3>3 DEF x, h
  <2>5. k \in 1..n /\ \A j \in (k + 1)..n : doc[j].kind \in Blank
    <3>1. \A j \in (k + 1)..n : j \in (k + 1)..(n - 1) \/ j = n
      OBVIOUS
    <3>2. k \in 1..n
      OBVIOUS
    <3> QED BY <2>1, <3>1, <3>2
  <2>6. Reached(r, b, n)
    BY <2>1, <2>3, <2>4, <2>5 DEF Reached
  <2> QED BY <2>2, <2>6 DEF u
<1> QED BY <1>4, <1>5 DEF Reached

LEMMA SolidStep ==
  ASSUME IsDocument,
         NEW n \in 1..Len(doc), doc[n].kind \notin Blank, doc[n].kind # "comma",
         NEW s \in CommaStates, NEW a, Reached(s, a, n - 1), NEW b, b = a \o PlainOf(n)
  PROVE  \E r \in CommaStates : /\ RunsTo(CommaStates, CommaFun, s, Uncommented(doc[n]), r)
                                /\ Reached(r, b, n)
<1> DEFINE t == doc[n].text
           ch == t[1]
<1>1. doc[n] \in Tokens /\ IsToken(doc[n])
  BY DEF IsDocument
<1>2. doc[n].kind \in TokenKinds /\ t \in Seq(Chars) /\ PlainOf(n) = t /\ Uncommented(doc[n]) = t
  BY <1>1, TokenTypes, PlainTypes
<1>3. Solid(doc[n])
  BY <1>1, <1>2, OthersAreSolid
<1>4. t # <<>> /\ ch \notin White /\ (ch \in Closing <=> doc[n].kind = "close")
  BY <1>3, Zenon DEF Solid
<1>5. ch \in Chars
  <2> HIDE DEF t
  <2>1. Len(t) \in Nat /\ Len(t) # 0
    BY <1>2, <1>4, EmptySeq
  <2>2. 1 \in 1..Len(t)
    BY <2>1
  <2>3. \A k \in 1..Len(t) : t[k] \in Chars
    BY <1>2, SeqAt
  <2> QED BY <2>2, <2>3
<1> HIDE DEF ch
<1>6. PICK q \in CommaStates : /\ q.mode = "code" /\ q.out = a
                               /\ CommaFun[<<s, ch>>] = CommaFun[<<q, ch>>]
  <2>1. Follows(ch, n)
    BY <1>4, <1>5, Zenon DEF Follows
  <2>2. doc[n].kind \notin Blank
    OBVIOUS
  <2>3. Resumes(s, a, ch)
    BY <2>1, <2>2, CommaResolved
  <2> QED BY <2>3 DEF Resumes
<1> DEFINE r == To(q, "code", t)
<1>7. RunsTo(CommaStates, CommaFun, q, t, r)
  BY <1>1, <1>3, <1>6, SolidRuns
<1>8. r \in CommaStates /\ r.mode = "code" /\ r.out = q.out \o t
  <2>1. "code" \in CommaModes
    BY DEF CommaModes
  <2>2. t \in Seq(Chars)
    BY <1>2
  <2> HIDE DEF t
  <2> QED BY <2>1, <2>2, CommaTo
<1> HIDE DEF r, t
<1>9. RunsTo(CommaStates, CommaFun, s, t, r)
  <2>1. CommaFun[<<s, t[1]>>] = CommaFun[<<q, t[1]>>]
    BY <1>6 DEF ch
  <2> QED BY <1>2, <1>4, <1>7, <2>1, RunsJoin
<1>10. Reached(r, b, n)
  BY <1>2, <1>6, <1>8 DEF Reached
<1> QED BY <1>2, <1>8, <1>9, <1>10

LEMMA HoldStep ==
  ASSUME IsDocument,
         NEW n \in 1..Len(doc), doc[n].kind = "comma",
         NEW s \in CommaStates, NEW a, Reached(s, a, n - 1), NEW b, b = a \o PlainOf(n)
  PROVE  \E r \in CommaStates : /\ RunsTo(CommaStates, CommaFun, s, Uncommented(doc[n]), r)
                                /\ Reached(r, b, n)
<1> DEFINE ch == ","
           t == <<ch>>
<1>1. doc[n] \in Tokens /\ IsToken(doc[n])
  BY DEF IsDocument
<1>2. Uncommented(doc[n]) = t
  BY <1>1 DEF IsToken, Uncommented
<1>3. ch \in Chars /\ ch \notin White /\ ch \notin Closing /\ t \in Seq(Chars)
  BY LiteralsAreChars DEF Chars, White, Closing
<1>4. PICK q \in CommaStates : /\ q.mode = "code" /\ q.out = a
                               /\ CommaFun[<<s, ch>>] = CommaFun[<<q, ch>>]
  <2>1. doc[n].kind \notin Blank /\ (ch \in Closing <=> doc[n].kind = "close")
    BY <1>3 DEF Blank
  <2>2. Follows(ch, n)
    BY <1>3, <2>1 DEF Follows
  <2> HIDE DEF ch
  <2>3. Resumes(s, a, ch)
    BY <2>1, <2>2, CommaResolved
  <2> QED BY <2>3 DEF Resumes
<1> DEFINE r == Held(q.out, <<>>)
<1>5. CommaFun[<<s, ch>>] = r
  BY <1>3, <1>4, CommaIsHeld
<1>6. r \in CommaStates /\ r.mode = "comma" /\ r.out = q.out /\ r.held = <<>>
  BY LiteralsAreChars DEF Held, CommaStates, CommaModes
<1> HIDE DEF r, ch
<1>7. RunsTo(CommaStates, CommaFun, s, t, r)
  <2> DEFINE x == [k \in 0..1 |-> IF k = 0 THEN s ELSE r]
  <2>1. Len(t) = 1 /\ t[1] = ch
    OBVIOUS
  <2>2. x[0] = s /\ x[1] = r /\ \A k \in 0..1 : x[k] \in CommaStates
    BY <1>6
  <2> HIDE DEF x, t
  <2>3. \A k \in 1..Len(t) : CommaFun[<<x[k - 1], t[k]>>] = x[k]
    <3>1. \A k \in 1..Len(t) : k = 1 /\ k - 1 = 0
      BY <2>1
    <3> QED BY <1>5, <2>1, <2>2, <3>1
  <2> QED BY <1>3, <2>1, <2>2, <2>3, StatesRun
<1>8. Reached(r, b, n)
  <2>1. n \in 1..n /\ \A j \in (n + 1)..n : FALSE
    OBVIOUS
  <2>2. b = (r.out \o PlainOf(n)) \o r.held
    <3>1. b = r.out \o PlainOf(n)
      BY <1>4, <1>6
    <3>2. r.out \in Seq(Chars) /\ PlainOf(n) \in Seq(Chars)
      <4>1. r.out \in Seq(Chars)
        BY <1>6 DEF CommaStates
      <4> QED BY <4>1, PlainTypes
    <3>3. r.out \o PlainOf(n) \in Seq(Chars)
      BY <3>2, ConcatIsSeq
    <3> QED BY <1>6, <3>1, <3>3, ConcatEmptySeq
  <2> QED BY <1>6, <2>1, <2>2 DEF Reached
<1> QED BY <1>2, <1>6, <1>7, <1>8

LEMMA CommaTokenStep ==
  ASSUME IsDocument, NEW n \in 1..Len(doc), NEW s \in CommaStates,
         NEW a, Reached(s, a, n - 1), NEW b, b = a \o PlainOf(n)
  PROVE  \E r \in CommaStates : /\ RunsTo(CommaStates, CommaFun, s, Uncommented(doc[n]), r)
                                /\ Reached(r, b, n)
<1>1. CASE doc[n].kind \in Blank
  BY <1>1, BlankStep
<1>2. CASE doc[n].kind = "comma"
  BY <1>2, HoldStep
<1>3. CASE doc[n].kind \notin Blank /\ doc[n].kind # "comma"
  BY <1>3, SolidStep
<1> QED BY <1>1, <1>2, <1>3

\* strip_trailing_commas leaves what Plain says.
LEMMA CommasGone ==
  ASSUME IsDocument
  PROVE  strip_trailing_commas(FlattenSeq([i \in DOMAIN doc |-> Uncommented(doc[i])])) = Plain
<1> DEFINE L == Len(doc)
           left == [i \in DOMAIN doc |-> Uncommented(doc[i])]
           plain == [i \in DOMAIN doc |-> PlainOf(i)]
<1>1. L \in Nat /\ DOMAIN doc = 1..L /\ \A i \in 1..L : doc[i] \in Tokens
  BY DEF IsDocument
<1>2. \A i \in 1..L : left[i] = Uncommented(doc[i]) /\ plain[i] = PlainOf(i)
  BY <1>1
<1>3. \A i \in 1..L : Uncommented(doc[i]) \in Seq(Chars) /\ PlainOf(i) \in Seq(Chars)
  BY <1>1, TokenTypes, PlainTypes
<1>4. left \in [1..L -> Seq(Chars)] /\ plain \in [1..L -> Seq(Chars)]
  <2> DEFINE p(i) == Uncommented(doc[i])
             q(i) == PlainOf(i)
  <2>1. left = [i \in 1..L |-> p(i)] /\ plain = [i \in 1..L |-> q(i)]
    BY <1>1
  <2>2. \A i \in 1..L : p(i) \in Seq(Chars) /\ q(i) \in Seq(Chars)
    BY <1>3
  <2> HIDE DEF p, q, plain, left
  <2> QED BY <2>1, <2>2
<1>5. Plain = FlattenSeq(plain)
  BY DEF Plain, PlainOf
<1> HIDE DEF plain, left, L
<1>6. plain \in Seq(Seq(Chars)) /\ left \in Seq(Seq(Chars)) /\ Len(plain) = L /\ Len(left) = L
  <2>1. \A f \in [1..L -> Seq(Chars)] : f \in Seq(Seq(Chars)) /\ Len(f) = L
    <3> TAKE f \in [1..L -> Seq(Chars)]
    <3>1. f \in Seq(Seq(Chars))
      BY <1>1, FunIsSeq
    <3>2. DOMAIN f = 1..L
      OBVIOUS
    <3> QED BY <1>1, <3>1, <3>2
  <2> QED BY <1>4, <2>1
<1>7. PICK flat : IsFlat(Chars, left, flat)
  BY <1>6, FlatExists
<1>8. /\ \A n \in 0..L : flat[n] \in Seq(Chars)
      /\ flat[0] = <<>> /\ flat[L] = FlattenSeq(left)
      /\ \A n \in 1..L : flat[n] = flat[n - 1] \o left[n]
  BY <1>6, <1>7 DEF IsFlat
<1>9. PICK c : IsFlat(Chars, plain, c)
  BY <1>6, FlatExists
<1>10. /\ \A n \in 0..L : c[n] \in Seq(Chars)
       /\ c[0] = <<>> /\ c[L] = FlattenSeq(plain)
       /\ \A n \in 1..L : c[n] = c[n - 1] \o plain[n]
  BY <1>6, <1>9 DEF IsFlat
<1> DEFINE start == [mode |-> "code", out |-> <<>>, held |-> <<>>]
<1>11. start \in CommaStates /\ start.mode = "code" /\ start.out = <<>>
  BY LiteralsAreChars DEF CommaStates, CommaModes
<1> HIDE DEF start
<1> DEFINE Done(n) == \E r \in CommaStates : /\ RunsTo(CommaStates, CommaFun, start, flat[n], r)
                                             /\ Reached(r, c[n], n)
           Good == {n \in 0..L : Done(n)}
<1>12. 0 \in Good
  <2>1. 0 \in 0..L
    BY <1>1
  <2>2. RunsTo(CommaStates, CommaFun, start, flat[0], start)
    BY <1>8, <1>11, RunsOfNothing
  <2>3. Reached(start, c[0], 0)
    BY <1>10, <1>11 DEF Reached
  <2> QED BY <1>11, <2>1, <2>2, <2>3
<1>13. ASSUME NEW n \in 1..L, n - 1 \in Good PROVE n \in Good
  <2> DEFINE u == left[n]
             old == c[n - 1]
             new == c[n]
             before == flat[n - 1]
             after == flat[n]
  <2>1. PICK s \in CommaStates : /\ RunsTo(CommaStates, CommaFun, start, before, s)
                                 /\ Reached(s, old, n - 1)
    BY <1>13
  <2>2. /\ n \in 0..L /\ n - 1 \in 0..L /\ u = Uncommented(doc[n]) /\ new = old \o PlainOf(n)
        /\ after = before \o u /\ before \in Seq(Chars) /\ u \in Seq(Chars)
    <3>1. n \in 0..L /\ n - 1 \in 0..L
      BY <1>1
    <3>2. u = Uncommented(doc[n]) /\ u \in Seq(Chars) /\ plain[n] = PlainOf(n)
      BY <1>2, <1>3
    <3>3. new = old \o plain[n] /\ after = before \o u /\ before \in Seq(Chars)
      BY <1>8, <1>10, <3>1
    <3> HIDE DEF u, old, new, before, after
    <3> QED BY <3>1, <3>2, <3>3
  <2>3. n \in 1..Len(doc)
    BY DEF L
  <2> HIDE DEF u, old, new, before, after
  <2>4. PICK r \in CommaStates : /\ RunsTo(CommaStates, CommaFun, s, u, r)
                                 /\ Reached(r, new, n)
    BY <2>1, <2>2, <2>3, CommaTokenStep
  <2>5. RunsTo(CommaStates, CommaFun, start, before \o u, r)
    BY <2>1, <2>2, <2>4, RunsCompose
  <2>6. Done(n)
    BY <2>2, <2>4, <2>5 DEF after, new
  <2> QED BY <2>2, <2>6
<1>14. \A n \in 0..L : n \in Good
  <2> HIDE DEF Good
  <2> QED BY <1>1, <1>12, <1>13, UpTo
<1>15. PICK r \in CommaStates : /\ RunsTo(CommaStates, CommaFun, start, flat[L], r)
                                /\ Reached(r, c[L], L)
  <2>1. L \in 0..L
    BY <1>1
  <2> QED BY <1>14, <2>1
<1> DEFINE input == FlattenSeq(left)
           end == FoldLeft(CommaStep, start, input)
<1>16. strip_trailing_commas(input) =
         IF end.mode = "comma" THEN end.out \o <<",">> \o end.held ELSE end.out
  BY Zenon DEF strip_trailing_commas, start
<1>17. input \in Seq(Chars)
  BY <1>6, FlattenedIsSeq
<1> HIDE DEF input
<1>18. end = r
  <2>1. RunsTo(CommaStates, CommaFun, start, input, end)
    BY <1>11, <1>17, CommaRuns
  <2>2. RunsTo(CommaStates, CommaFun, start, input, r)
    BY <1>8, <1>15 DEF input
  <2> HIDE DEF end
  <2> QED BY <1>17, <2>1, <2>2, RunsAgree
<1> HIDE DEF end
<1>19. strip_trailing_commas(input) = c[L]
  <2>1. CASE r.mode = "code"
    BY <1>15, <1>16, <1>18, <2>1 DEF Reached
  <2>2. CASE r.mode = "comma"
    <3>1. PICK k \in 1..L : /\ doc[k].kind = "comma"
                            /\ \A j \in (k + 1)..L : doc[j].kind \in Blank
                            /\ c[L] = (r.out \o PlainOf(k)) \o r.held
      BY <1>15, <2>2 DEF Reached
    <3>2. PlainOf(k) = <<",">>
      BY <3>1, LastComma DEF L
    <3> QED BY <1>16, <1>18, <2>2, <3>1, <3>2
  <2> QED BY <1>15, <2>1, <2>2 DEF Reached
<1> QED BY <1>5, <1>10, <1>19 DEF input, left

----------------------------------------------------------------------------
(* What the passes leave of a document *)

\* What each pass has made of the document.
MarkupIInv ==
  /\ IsDocument
  /\ passes = "raw" => text = Text(doc)
  /\ passes = "uncommented" => text = FlattenSeq([i \in DOMAIN doc |-> Uncommented(doc[i])])
  /\ passes = "plain" => text = Plain
  /\ passes = "done" => pieces = deduplicate_keys(Plain)

LEMMA MarkupStart ==
  ASSUME ReadsDocuments, Init
  PROVE  MarkupIInv
<1>1. doc = invocation.tokens /\ invocation \in Invocations /\ passes = "none"
  BY DEF Init, PreprocessInit
<1>2. invocation.tokens \in Seq(Tokens)
  BY <1>1, StartupAssumption DEF Tokens
<1>3. \A k \in DOMAIN doc : IsToken(doc[k])
  BY <1>1, Zenon DEF ReadsDocuments
<1>4. DOMAIN doc = 1..Len(doc)
  BY <1>1, <1>2
<1>5. IsDocument
  BY <1>1, <1>2, <1>3, <1>4, Zenon DEF IsDocument
<1> QED BY <1>1, <1>5 DEF MarkupIInv

LEMMA MarkupStep ==
  ASSUME MarkupIInv, [Next]_vars
  PROVE  MarkupIInv'
<1>1. ASSUME doc' = doc PROVE IsDocument' /\ Plain' = Plain
  <2>1. IsDocument'
    BY <1>1 DEF IsDocument, MarkupIInv
  <2>2. Plain' = Plain
    BY <1>1 DEF Plain, Trailing
  <2> QED BY <2>1, <2>2
<1>2. CASE ReadText
  BY <1>1, <1>2 DEF MarkupIInv, ReadText
<1>3. CASE StripComments
  <2>1. doc \in Seq(Tokens) /\ \A k \in 1..Len(doc) : IsToken(doc[k])
    BY DEF MarkupIInv, IsDocument
  <2>2. strip_comments(Text(doc)) = FlattenSeq([i \in DOMAIN doc |-> Uncommented(doc[i])])
    BY <2>1, CommentsGone
  <2> QED BY <1>1, <1>3, <2>2 DEF MarkupIInv, StripComments
<1>4. CASE StripTrailingCommas
  <2>1. IsDocument
    BY DEF MarkupIInv
  <2>2. strip_trailing_commas(FlattenSeq([i \in DOMAIN doc |-> Uncommented(doc[i])])) = Plain
    BY <2>1, CommasGone
  <2> QED BY <1>1, <1>4, <2>2 DEF MarkupIInv, StripTrailingCommas
<1>5. CASE DeduplicateKeys
  BY <1>1, <1>5 DEF MarkupIInv, DeduplicateKeys
<1>6. CASE UNCHANGED textVars
  BY <1>1, <1>6 DEF MarkupIInv, textVars
<1>7. ReadText \/ StripComments \/ StripTrailingCommas \/ DeduplicateKeys \/ UNCHANGED textVars
  BY DEF Next, ParseArguments, Read, Preprocessing, preprocess_json, FromJson, FromYaml,
         Validate, Calibrating, Calibrated, build_engine_state, RunEvent, BufferEvent,
         BufferWork, vars
<1> QED BY <1>2, <1>3, <1>4, <1>5, <1>6, <1>7

\* Of a document of any length and nesting, the two passes leave every token that
\* is not a comment or a trailing comma, as it was, and of those nothing: a pass
\* that reads the text character by character never takes the inside of a string
\* for a comment, of a comment for a string, or of either for a bracket.
THEOREM MarkupIsStripped ==
  ASSUME ReadsDocuments
  PROVE  Spec => []OnlyMarkupStripped
<1>1. Init => MarkupIInv
  BY MarkupStart
<1>2. MarkupIInv /\ [Next]_vars => MarkupIInv'
  BY MarkupStep
<1>3. MarkupIInv => OnlyMarkupStripped
  BY DEF MarkupIInv, OnlyMarkupStripped
<1> QED BY <1>1, <1>2, <1>3, PTL DEF Spec

----------------------------------------------------------------------------
(* What pieces look like *)

LEMMA Around ==
  ASSUME NEW S, NEW q \in Seq(S), NEW c \in Seq(S)
  PROVE  /\ (q \o c) \o q \in Seq(S) /\ Len((q \o c) \o q) = Len(q) + Len(c) + Len(q)
         /\ \A i \in 1..Len(c) : ((q \o c) \o q)[Len(q) + i] = c[i]
<1> DEFINE w == q \o c
<1>1. w \in Seq(S) /\ Len(w) = Len(q) + Len(c) /\ Len(c) \in Nat /\ Len(q) \in Nat
  OBVIOUS
<1>2. \A i \in 1..Len(c) : w[Len(q) + i] = c[i]
  OBVIOUS
<1> HIDE DEF w
<1>3. w \o q \in Seq(S) /\ Len(w \o q) = Len(w) + Len(q)
      /\ \A i \in 1..Len(w) : (w \o q)[i] = w[i]
  BY <1>1
<1>4. \A i \in 1..Len(c) : Len(q) + i \in 1..Len(w)
  BY <1>1
<1>5. \A i \in 1..Len(c) : (w \o q)[Len(q) + i] = c[i]
  BY <1>2, <1>3, <1>4
<1> QED BY <1>1, <1>3, <1>5 DEF w

LEMMA MiddleOf ==
  ASSUME NEW S, NEW q \in Seq(S), Len(q) = 1, NEW c \in Seq(S)
  PROVE  SubSeq((q \o c) \o q, 2, Len((q \o c) \o q) - 1) = c
<1> DEFINE v == (q \o c) \o q
           k == Len(q)
<1>1. v \in Seq(S) /\ Len(v) = k + Len(c) + k /\ \A i \in 1..Len(c) : v[k + i] = c[i]
  BY Around, Zenon
<1>2. k = 1 /\ Len(c) \in Nat
  OBVIOUS
<1> HIDE DEF v, k
<1>3. Len(v) = Len(c) + 2 /\ \A i \in 1..Len(c) : v[i + 1] = c[i]
  BY <1>1, <1>2
<1> DEFINE m == SubSeq(v, 2, Len(v) - 1)
<1>4. m \in Seq(S) /\ Len(m) = Len(c) /\ \A i \in 1..Len(c) : m[i] = v[i + 1]
  <2>1. Len(v) - 1 = Len(c) + 1
    BY <1>2, <1>3
  <2>2. \A i \in 2..(Len(c) + 1) : v[i] \in S
    BY <1>1, <1>2, <1>3
  <2> QED BY <1>1, <1>2, <1>3, <2>1, <2>2
<1> HIDE DEF m
<1>5. \A i \in 1..Len(c) : m[i] = c[i]
  BY <1>3, <1>4
<1>6. m = c
  BY <1>4, <1>5, SeqEqual
<1> QED BY <1>6 DEF m, v

LEMMA QuotedContent ==
  ASSUME NEW c \in Seq(Chars)
  PROVE  Content(Quoted(c)) = c
<1> DEFINE q == <<"\"">>
<1>1. q \in Seq(Chars) /\ Len(q) = 1
  <2>1. "\"" \in Chars
    BY DEF Chars
  <2> QED BY <2>1, OneIsSeq
<1>2. Quoted(c) = (q \o c) \o q
  BY DEF Quoted
<1> HIDE DEF q
<1> QED BY <1>1, <1>2, MiddleOf DEF Content

\* A piece that begins like a string ends like one.
IsWhole(p) == IsString(p) => p = Quoted(Content(p))

\* What extract_json_string has read so far of a string.
IsOpen(p) == \E c \in Seq(Chars) : p = <<"\"">> \o c

LEMMA OpenString ==
  /\ IsOpen(<<"\"">>)
  /\ \A p \in Seq(Chars), ch \in Chars : IsOpen(p) => IsOpen(Append(p, ch))
  /\ \A p \in Seq(Chars) : IsOpen(p) => IsWhole(Append(p, "\""))
<1> DEFINE q == <<"\"">>
<1>1. q \in Seq(Chars) /\ "\"" \in Chars /\ <<>> \in Seq(Chars) /\ q = q \o <<>>
  <2>1. "\"" \in Chars
    BY DEF Chars
  <2>2. q \in Seq(Chars)
    BY <2>1, OneIsSeq
  <2> QED BY <2>1, <2>2, LiteralsAreChars, ConcatEmptySeq
<1>2. \A p : IsOpen(p) <=> \E c \in Seq(Chars) : p = q \o c
  BY DEF IsOpen
<1>3. \A x : Append(<<>>, x) = <<x>>
  OBVIOUS
<1>4. \A c \in Seq(Chars) : Quoted(c) = (q \o c) \o q
  BY DEF Quoted
<1>5. \A p \in Seq(Chars) : Append(p, "\"") = p \o q
  BY <1>1, AppendIs
<1> HIDE DEF q
<1>6. IsOpen(q)
  BY <1>1, <1>2
<1>7. ASSUME NEW p \in Seq(Chars), NEW ch \in Chars, IsOpen(p) PROVE IsOpen(Append(p, ch))
  <2>1. PICK c \in Seq(Chars) : p = q \o c
    BY <1>2, <1>7
  <2>2. Append(p, ch) = (q \o c) \o <<ch>> /\ <<ch>> \in Seq(Chars)
    BY <1>7, <2>1, AppendIs, OneIsSeq
  <2>3. (q \o c) \o <<ch>> = q \o (c \o <<ch>>) /\ c \o <<ch>> \in Seq(Chars)
    BY <1>1, <2>2, TextsAssociate, ConcatIsSeq
  <2> QED BY <1>2, <2>2, <2>3
<1>8. ASSUME NEW p \in Seq(Chars), IsOpen(p) PROVE IsWhole(Append(p, "\""))
  <2>1. PICK c \in Seq(Chars) : p = q \o c
    BY <1>2, <1>8
  <2>2. Append(p, "\"") = Quoted(c)
    BY <1>4, <1>5, <2>1
  <2>3. Content(Quoted(c)) = c
    BY QuotedContent
  <2> DEFINE r == Append(p, "\"")
  <2>4. r = Quoted(Content(r))
    BY <2>2, <2>3
  <2> HIDE DEF r
  <2>5. IsWhole(r)
    BY <2>4 DEF IsWhole
  <2> QED BY <2>5 DEF r
<1> QED BY <1>6, <1>7, <1>8 DEF q

\* Of the pieces that are out all are whole, and a string that is being read
\* has begun.
PieceIInv(s) ==
  /\ s \in PieceStates
  /\ \A i \in 1..Len(s.out) : IsWhole(s.out[i])
  /\ s.mode # "code" => IsOpen(s.string)

LEMMA PieceFields ==
  ASSUME NEW A, NEW B, NEW C, NEW s \in [mode : A, string : B, out : C],
         NEW m \in A, NEW p \in B, NEW o \in C
  PROVE  /\ [s EXCEPT !.out = o].mode = s.mode /\ [s EXCEPT !.out = o].out = o
         /\ [s EXCEPT !.mode = m, !.string = p].mode = m
         /\ [s EXCEPT !.mode = m, !.string = p].string = p
         /\ [s EXCEPT !.mode = m, !.string = p].out = s.out
         /\ [s EXCEPT !.string = p, !.mode = m].mode = m
         /\ [s EXCEPT !.string = p, !.mode = m].string = p
         /\ [s EXCEPT !.string = p, !.mode = m].out = s.out
OBVIOUS

LEMMA PieceIStep ==
  ASSUME NEW s, PieceIInv(s), NEW ch \in Chars
  PROVE  PieceIInv(PieceStep(s, ch))
<1> DEFINE t == PieceStep(s, ch)
           whole == Append(s.string, ch)
           one == <<ch>>
<1>1. /\ s.mode \in PieceModes /\ s.string \in Seq(Chars) /\ s.out \in Seq(Seq(Chars))
      /\ s \in [mode : PieceModes, string : Seq(Chars), out : Seq(Seq(Chars))]
  BY DEF PieceIInv, PieceStates
<1>2. t \in PieceStates
  BY PieceStays DEF PieceIInv
<1>3. whole \in Seq(Chars) /\ one \in Seq(Chars)
  <2>1. whole \in Seq(Chars)
    BY <1>1
  <2> QED BY <2>1, LiteralsAreChars
<1>4. ASSUME NEW p \in Seq(Chars), IsWhole(p)
      PROVE  /\ Append(s.out, p) \in Seq(Seq(Chars))
             /\ \A i \in 1..Len(Append(s.out, p)) : IsWhole(Append(s.out, p)[i])
  <2> DEFINE S == Seq(Chars)
             o == s.out
  <2>1. o \in Seq(S) /\ p \in S /\ \A i \in 1..Len(o) : IsWhole(o[i])
    BY <1>1, <1>4 DEF PieceIInv
  <2> HIDE DEF S, o
  <2>2. /\ Append(o, p) \in Seq(S)
        /\ \A i \in 1..Len(Append(o, p)) :
             Append(o, p)[i] = p \/ (i \in 1..Len(o) /\ Append(o, p)[i] = o[i])
    BY <2>1, AppendAt
  <2>3. \A i \in 1..Len(Append(o, p)) : IsWhole(Append(o, p)[i])
    BY <1>4, <2>1, <2>2, Zenon
  <2> QED BY <2>2, <2>3 DEF S, o
<1>5. CASE s.mode = "code" /\ ch # "\""
  <2>1. t = [s EXCEPT !.out = Append(s.out, one)]
    BY <1>5 DEF PieceStep
  <2>2. IsWhole(one)
    <3>1. Head(one) = ch
      BY OneIsSeq
    <3> QED BY <1>5, <3>1 DEF IsWhole, IsString
  <2> DEFINE o == Append(s.out, one)
  <2>3. o \in Seq(Seq(Chars)) /\ \A i \in 1..Len(o) : IsWhole(o[i])
    BY <1>3, <1>4, <2>2
  <2> HIDE DEF o, t, one, whole
  <2>4. t.mode = "code" /\ t.out = o
    BY <1>1, <1>5, <2>1, <2>3, PieceFields DEF o
  <2>5. PieceIInv(t)
    BY <1>2, <2>3, <2>4 DEF PieceIInv
  <2> QED BY <2>5 DEF t
<1>6. CASE s.mode = "code" /\ ch = "\""
  <2>1. t = [s EXCEPT !.mode = "string", !.string = one] /\ IsOpen(one)
    BY <1>6, OpenString DEF PieceStep
  <2>2. "string" \in PieceModes
    BY DEF PieceModes
  <2> HIDE DEF t, one, whole
  <2>3. t.string = one /\ t.out = s.out
    BY <1>1, <1>3, <2>1, <2>2, PieceFields
  <2>4. PieceIInv(t)
    BY <1>2, <2>1, <2>3 DEF PieceIInv
  <2> QED BY <2>4 DEF t
<1>7. CASE s.mode = "string" /\ ch = "\""
  <2>1. t = [mode |-> "code", string |-> <<>>, out |-> Append(s.out, whole)]
    BY <1>7 DEF PieceStep
  <2>2. IsWhole(whole)
    BY <1>1, <1>7, OpenString DEF PieceIInv
  <2> DEFINE o == Append(s.out, whole)
  <2>3. \A i \in 1..Len(o) : IsWhole(o[i])
    BY <1>3, <1>4, <2>2
  <2>4. t.mode = "code" /\ t.out = o
    BY <2>1
  <2> HIDE DEF o, t, one, whole
  <2>5. PieceIInv(t)
    BY <1>2, <2>3, <2>4 DEF PieceIInv
  <2> QED BY <2>5 DEF t
<1>8. CASE s.mode # "code" /\ ~(s.mode = "string" /\ ch = "\"")
  <2> DEFINE m == IF s.mode = "string" /\ ch = "\\" THEN "escape" ELSE "string"
  <2>1. t = [s EXCEPT !.string = whole, !.mode = m]
    BY <1>8 DEF PieceStep
  <2>2. IsOpen(whole)
    BY <1>1, <1>8, OpenString DEF PieceIInv
  <2>3. m \in PieceModes
    BY DEF PieceModes
  <2> HIDE DEF m, t, one, whole
  <2>4. t.string = whole /\ t.out = s.out
    BY <1>1, <1>3, <2>1, <2>3, PieceFields
  <2>5. PieceIInv(t)
    BY <1>2, <2>2, <2>4 DEF PieceIInv
  <2> QED BY <2>5 DEF t
<1> QED BY <1>5, <1>6, <1>7, <1>8

\* Only the last piece of a text may be a string without an end.
LEMMA PiecesAreWhole ==
  ASSUME NEW input \in Seq(Chars)
  PROVE  \A i \in 1..(Len(Pieces(input)) - 1) : IsWhole(Pieces(input)[i])
<1> DEFINE start == [mode |-> "code", string |-> <<>>, out |-> <<>>]
           end == FoldLeft(PieceStep, start, input)
<1>1. PieceIInv(start)
  BY DEF PieceIInv, PieceStates, PieceModes
<1>2. start \in PieceStates
  BY <1>1 DEF PieceIInv
<1> HIDE DEF start, end
<1>3. RunsTo(PieceStates, PieceFun, start, input, end)
  BY <1>2, PieceRuns DEF end
<1>4. PICK run : IsRun(PieceStates, PieceFun, start, input, run) /\ run[Len(input)] = end
  BY <1>3 DEF RunsTo
<1> DEFINE L == Len(input)
           Good == {n \in 0..L : PieceIInv(run[n])}
<1>5. L \in Nat /\ 0 \in 0..L /\ L \in 0..L
  OBVIOUS
<1>6. 0 \in Good
  BY <1>1, <1>4, <1>5 DEF IsRun
<1>7. ASSUME NEW n \in 1..L, n - 1 \in Good PROVE n \in Good
  <2>1. run[n] = PieceFun[<<run[n - 1], input[n]>>] /\ input[n] \in Chars /\ n \in 0..L
    BY <1>4 DEF IsRun
  <2>2. PieceIInv(run[n - 1]) /\ run[n - 1] \in PieceStates
    BY <1>7 DEF PieceIInv
  <2>3. run[n] = PieceStep(run[n - 1], input[n])
    BY <2>1, <2>2 DEF PieceFun
  <2>4. PieceIInv(run[n])
    BY <2>1, <2>2, <2>3, PieceIStep
  <2> QED BY <2>1, <2>4
<1>8. \A n \in 0..L : n \in Good
  <2> HIDE DEF Good, L
  <2> QED BY <1>5, <1>6, <1>7, UpTo
<1>9. PieceIInv(end)
  BY <1>4, <1>5, <1>8
<1>10. Pieces(input) = IF end.mode = "code" THEN end.out ELSE Append(end.out, end.string)
  BY Zenon DEF Pieces, end, start
<1>11. /\ end.out \in Seq(Seq(Chars)) /\ end.string \in Seq(Chars)
       /\ \A i \in 1..Len(end.out) : IsWhole(end.out[i])
  BY <1>9 DEF PieceIInv, PieceStates
<1>12. CASE end.mode = "code"
  <2>1. \A i \in 1..(Len(end.out) - 1) : i \in 1..Len(end.out)
    BY <1>11
  <2> QED BY <1>10, <1>11, <1>12, <2>1
<1>13. CASE end.mode # "code"
  <2> DEFINE all == Append(end.out, end.string)
  <2>1. Len(all) - 1 = Len(end.out) /\ \A i \in 1..Len(end.out) : all[i] = end.out[i]
    BY <1>11
  <2> HIDE DEF all
  <2> QED BY <1>10, <1>11, <1>13, <2>1 DEF all
<1> QED BY <1>12, <1>13

----------------------------------------------------------------------------
(* Where a name that has been seen comes from *)

\* What is in a set after a step was in it before, or is the name of a key.
LEMMA SetsChange ==
  ASSUME NEW before \in Seq(KeySets), NEW after \in Seq(KeySets), NEW piece,
         StackCases(before, after, piece), NEW k \in 1..Len(after)
  PROVE  \/ after[k] = {}
         \/ k \in 1..Len(before) /\ after[k] = before[k]
         \/ /\ k = Len(before) /\ k \in 1..Len(before)
            /\ piece.is_key /\ before # <<>> /\ piece.text # <<"{">> /\ piece.text # <<"}">>
            /\ after[k] = before[k] \cup {Name(before, piece.text)}
<1>1. CASE after = Append(before, {})
  <2> DEFINE none == {}
  <2>1. none \in KeySets
    BY FS_EmptySet DEF KeySets
  <2>2. after = Append(before, none)
    BY <1>1
  <2> HIDE DEF none
  <2>3. after[k] = none \/ (k \in 1..Len(before) /\ after[k] = before[k])
    BY <2>1, <2>2, AppendAt
  <2> QED BY <2>3 DEF none
<1>2. CASE after = CloseObject(before)
  <2>1. CASE before = <<>>
    BY <1>2, <2>1 DEF CloseObject
  <2>2. CASE before # <<>>
    <3>1. after = Front(before)
      BY <1>2, <2>2 DEF CloseObject
    <3>2. Len(after) = Len(before) - 1 /\ \A i \in 1..(Len(before) - 1) : after[i] = before[i]
      BY <2>2, <3>1, FrontOf
    <3>3. Len(before) \in Nat /\ k \in 1..(Len(before) - 1)
      BY <3>2
    <3>4. k \in 1..Len(before)
      BY <3>3
    <3> QED BY <3>2, <3>3, <3>4
  <2> QED BY <2>1, <2>2
<1>3. CASE /\ piece.text # <<"{">> /\ piece.text # <<"}">>
           /\ piece.is_key /\ before # <<>>
           /\ after = [before EXCEPT ![Len(before)] =
                         before[Len(before)] \cup {Name(before, piece.text)}]
  <2> DEFINE top == before[Len(before)] \cup {Name(before, piece.text)}
  <2>1. after = [before EXCEPT ![Len(before)] = top]
    BY <1>3
  <2> HIDE DEF top
  <2>2. DOMAIN after = DOMAIN before /\ DOMAIN before = 1..Len(before) /\ DOMAIN after = 1..Len(after)
    BY <2>1
  <2>3. k \in 1..Len(before) /\ after[k] = IF k = Len(before) THEN top ELSE before[k]
    BY <2>1, <2>2
  <2> QED BY <1>3, <2>3 DEF top
<1>4. CASE after = before
  BY <1>4
<1> QED BY <1>1, <1>2, <1>3, <1>4, Zenon DEF StackCases

\* x is the name that the key j has got, and the set that it was put in is still
\* the k-th of the stack after m pieces.
ComesFrom(all, run, j, m, k, x) ==
  /\ all[j].is_key /\ Len(run[j - 1].stack) = k /\ x = Name(run[j - 1].stack, all[j].text)
  /\ \A l \in j..m : k <= Len(run[l].stack)

\* After m pieces, all that is in the k-th set comes from one of them.
Origins(all, run, m) ==
  \A k \in 1..Len(run[m].stack) :
    /\ \A x \in run[m].stack[k] : \E j \in 1..m : ComesFrom(all, run, j, m, k, x)
    /\ IsFiniteSet(run[m].stack[k]) /\ Cardinality(run[m].stack[k]) <= m

LEMMA OriginsStep ==
  ASSUME NEW all, NEW run, IsKeyRun(all, run), NEW m \in 1..Len(all), Origins(all, run, m - 1)
  PROVE  Origins(all, run, m)
<1> DEFINE before == run[m - 1].stack
           after == run[m].stack
           name == Name(before, all[m].text)
<1>1. /\ Len(all) \in Nat /\ m - 1 \in 0..Len(all) /\ m \in 0..Len(all) /\ m \in Nat /\ m - 1 \in Nat
      /\ run[m - 1] \in KeyStates /\ run[m] \in KeyStates /\ all[m] \in KeyPieces
      /\ run[m] = KeyStep(run[m - 1], all[m])
  <2>1. Len(all) \in Nat
    BY DEF IsKeyRun
  <2>2. m - 1 \in 0..Len(all) /\ m \in 0..Len(all)
    BY <2>1
  <2> QED BY <2>1, <2>2 DEF IsKeyRun
<1>2. before \in Seq(KeySets) /\ after \in Seq(KeySets)
  BY <1>1 DEF KeyStates
<1>3. StackCases(before, after, all[m])
  BY <1>1, KeyStepCases, StackCasesHold
<1>4. StackStep(before, after, all[m])
  BY StackSteps
<1> SUFFICES ASSUME NEW k \in 1..Len(after)
             PROVE  /\ \A x \in after[k] : \E j \in 1..m : ComesFrom(all, run, j, m, k, x)
                    /\ IsFiniteSet(after[k]) /\ Cardinality(after[k]) <= m
  BY DEF Origins
<1>5. k <= Len(after) /\ k \in Nat
  BY <1>2
<1>6. ASSUME NEW x, NEW j \in 1..(m - 1), ComesFrom(all, run, j, m - 1, k, x)
      PROVE  j \in 1..m /\ ComesFrom(all, run, j, m, k, x)
  <2>1. \A l \in j..m : l = m \/ l \in j..(m - 1)
    BY <1>1
  <2>2. j \in 1..m
    BY <1>1
  <2> QED BY <1>5, <1>6, <2>1, <2>2 DEF ComesFrom
<1>7. ASSUME k \in 1..Len(before)
      PROVE  /\ \A x \in before[k] : \E j \in 1..m : ComesFrom(all, run, j, m, k, x)
             /\ IsFiniteSet(before[k]) /\ Cardinality(before[k]) <= m - 1
  <2>1. /\ \A x \in before[k] : \E j \in 1..(m - 1) : ComesFrom(all, run, j, m - 1, k, x)
        /\ IsFiniteSet(before[k]) /\ Cardinality(before[k]) <= m - 1
    BY <1>7 DEF Origins
  <2> HIDE DEF before
  <2> QED BY <1>6, <2>1, Zenon
<1>8. CASE after[k] = {}
  BY <1>1, <1>8, FS_EmptySet
<1>9. CASE k \in 1..Len(before) /\ after[k] = before[k]
  <2>1. Cardinality(before[k]) \in Nat
    BY <1>7, <1>9, FS_CardinalityType
  <2>2. Cardinality(before[k]) <= m
    BY <1>1, <1>7, <1>9, <2>1
  <2> HIDE DEF before, after
  <2> QED BY <1>7, <1>9, <2>2
<1>10. CASE /\ k = Len(before) /\ k \in 1..Len(before)
            /\ all[m].is_key /\ before # <<>> /\ all[m].text # <<"{">> /\ all[m].text # <<"}">>
            /\ after[k] = before[k] \cup {name}
  <2>1. IsFiniteSet(before[k]) /\ Cardinality(before[k]) \in Nat
    BY <1>7, <1>10, FS_CardinalityType
  <2>2. ComesFrom(all, run, m, m, k, name)
    <3>1. \A l \in m..m : l = m
      BY <1>1
    <3> QED BY <1>5, <1>10, <3>1 DEF ComesFrom
  <2>3. m \in 1..m
    BY <1>1
  <2> HIDE DEF before, after, name
  <2>4. IsFiniteSet(before[k] \cup {name})
        /\ Cardinality(before[k] \cup {name}) <= Cardinality(before[k]) + 1
    <3>1. /\ IsFiniteSet(before[k] \cup {name})
          /\ Cardinality(before[k] \cup {name})
               = IF name \in before[k] THEN Cardinality(before[k]) ELSE Cardinality(before[k]) + 1
      BY <2>1, FS_AddElement
    <3> QED BY <2>1, <3>1
  <2>5. Cardinality(before[k] \cup {name}) \in Nat
    BY <2>4, FS_CardinalityType
  <2>6. Cardinality(after[k]) <= m
    <3> DEFINE a == Cardinality(before[k])
               b == Cardinality(before[k] \cup {name})
    <3>1. a \in Nat /\ b \in Nat /\ b <= a + 1 /\ a <= m - 1
      BY <1>7, <1>10, <2>1, <2>4, <2>5
    <3>2. Cardinality(after[k]) = b
      BY <1>10
    <3> HIDE DEF a, b
    <3>3. b <= m
      BY <1>1, <3>1
    <3> QED BY <3>2, <3>3
  <2> QED BY <1>7, <1>10, <2>2, <2>3, <2>4, <2>6
<1>11. \/ after[k] = {}
       \/ k \in 1..Len(before) /\ after[k] = before[k]
       \/ /\ k = Len(before) /\ k \in 1..Len(before)
          /\ all[m].is_key /\ before # <<>> /\ all[m].text # <<"{">> /\ all[m].text # <<"}">>
          /\ after[k] = before[k] \cup {name}
  <2> DEFINE piece == all[m]
  <2> HIDE DEF before, after, piece
  <2>1. StackCases(before, after, piece)
    BY <1>3 DEF piece
  <2>2. \/ after[k] = {}
        \/ k \in 1..Len(before) /\ after[k] = before[k]
        \/ /\ k = Len(before) /\ k \in 1..Len(before)
           /\ piece.is_key /\ before # <<>> /\ piece.text # <<"{">> /\ piece.text # <<"}">>
           /\ after[k] = before[k] \cup {Name(before, piece.text)}
    BY <1>2, <2>1, SetsChange
  <2> QED BY <2>2, Zenon DEF piece, name
<1> QED BY <1>8, <1>9, <1>10, <1>11

LEMMA OriginsHold ==
  ASSUME NEW all, NEW run, IsKeyRun(all, run)
  PROVE  \A m \in 0..Len(all) : Origins(all, run, m)
<1> DEFINE L == Len(all)
           Good == {m \in 0..L : Origins(all, run, m)}
<1>1. L \in Nat
  BY DEF IsKeyRun
<1>2. 0 \in Good
  <2>1. run[0].stack = <<>>
    BY DEF IsKeyRun
  <2>2. Origins(all, run, 0)
    BY <2>1 DEF Origins
  <2> QED BY <1>1, <2>2
<1>3. ASSUME NEW m \in 1..L, m - 1 \in Good PROVE m \in Good
  <2>1. Origins(all, run, m)
    BY <1>3, OriginsStep
  <2>2. m \in 0..L
    BY <1>1
  <2> QED BY <2>1, <2>2
<1>4. \A m \in 0..L : m \in Good
  <2> HIDE DEF Good, L
  <2> QED BY <1>1, <1>2, <1>3, UpTo
<1> QED BY <1>4

\* While the stack is not empty its length goes up and down with the braces.
LEMMA DepthBalances ==
  ASSUME NEW L \in Nat, NEW O, NEW C, NEW d, IsDepth(d, L, O, C),
         NEW m \in 0..L, NEW n \in m..L, \A l \in m..n : d[l] >= 1
  PROVE  d[n] = d[m] + Count(O, m, n) - Count(C, m, n)
<1> DEFINE Good == {l \in m..n : d[l] = d[m] + Count(O, m, l) - Count(C, m, l)}
<1>1. m \in Nat /\ n \in Nat /\ m <= n /\ n <= L /\ \A l \in m..n : l \in Nat /\ l \in 0..L
  OBVIOUS
<1>2. \A l \in m..n : d[l] \in Nat
  BY <1>1 DEF IsDepth
<1>3. m \in Good
  <2>1. Count(O, m, m) = 0 /\ Count(C, m, m) = 0 /\ m \in m..n
    <3>1. m \in Nat /\ m \in m..n
      BY <1>1
    <3> QED BY <3>1, CountFacts
  <2>2. d[m] = d[m] + Count(O, m, m) - Count(C, m, m)
    BY <1>2, <2>1
  <2> QED BY <2>1, <2>2
<1>4. ASSUME NEW l \in (m + 1)..n, l - 1 \in Good PROVE l \in Good
  <2>1. l \in Nat /\ m < l /\ l - 1 \in Nat /\ l \in m..n /\ l - 1 \in m..n /\ l \in 1..L
    BY <1>1
  <2>2. d[l - 1] = d[m] + Count(O, m, l - 1) - Count(C, m, l - 1)
    BY <1>4
  <2>3. /\ Count(O, m, l - 1) \in Nat /\ Count(C, m, l - 1) \in Nat
        /\ d[m] \in Nat /\ d[l - 1] \in Nat /\ d[l] \in Nat
    <3>1. Count(O, m, l - 1) \in Nat /\ Count(C, m, l - 1) \in Nat
      <4>1. m \in Nat /\ l - 1 \in Nat
        BY <1>1, <2>1
      <4> QED BY <4>1, CountFacts
    <3>2. m \in m..n
      BY <1>1
    <3> QED BY <1>2, <2>1, <3>1, <3>2
  <2>4. d[l - 1] # 0
    BY <2>1, <2>3
  <2>5. /\ l \in O => Count(O, m, l) = Count(O, m, l - 1) + 1
        /\ l \notin O => Count(O, m, l) = Count(O, m, l - 1)
        /\ l \in C => Count(C, m, l) = Count(C, m, l - 1) + 1
        /\ l \notin C => Count(C, m, l) = Count(C, m, l - 1)
    BY <1>1, <2>1, CountNext
  <2>6. ~(l \in O /\ l \in C) /\ (l \in O => d[l] = d[l - 1] + 1)
        /\ (l \in C => d[l] = d[l - 1] - 1) /\ (l \notin O /\ l \notin C => d[l] = d[l - 1])
    BY <2>1, <2>4 DEF IsDepth
  <2>7. d[l] = d[m] + Count(O, m, l) - Count(C, m, l)
    <3>1. CASE l \in O
      BY <3>1, <2>2, <2>3, <2>5, <2>6
    <3>2. CASE l \in C
      BY <3>2, <2>2, <2>3, <2>5, <2>6
    <3>3. CASE l \notin O /\ l \notin C
      BY <3>3, <2>2, <2>3, <2>5, <2>6
    <3> QED BY <3>1, <3>2, <3>3
  <2> QED BY <2>1, <2>7
<1>5. \A l \in m..n : l \in Good
  <2> HIDE DEF Good
  <2> QED BY <1>1, <1>3, <1>4, FromTo
<1>6. n \in m..n
  BY <1>1
<1> QED BY <1>5, <1>6

\* Where the stack is as long as it was, and was never shorter in between, the
\* same braces are around.
LEMMA SameBraces ==
  ASSUME NEW L \in Nat, NEW O, NEW C, NEW d, IsDepth(d, L, O, C),
         NEW m \in 0..L, NEW n \in m..L, d[m] >= 1, d[n] = d[m],
         \A l \in m..n : d[l] >= d[m]
  PROVE  Balanced(m, O, C) = Balanced(n, O, C)
<1>1. m \in Nat /\ n \in Nat /\ m <= n /\ n <= L /\ \A l \in m..n : l \in Nat /\ l \in 0..L
  OBVIOUS
<1>2. \A l \in m..n : d[l] \in Nat
  BY <1>1 DEF IsDepth
<1>3. m \in m..n /\ n \in m..n /\ d[m] \in Nat /\ d[n] \in Nat
  BY <1>1, <1>2
<1>4. \A l \in m..n : d[l] >= 1
  BY <1>2, <1>3
<1>5. Count(O, m, n) = Count(C, m, n)
  <2>1. d[n] = d[m] + Count(O, m, n) - Count(C, m, n)
    BY <1>4, DepthBalances
  <2>2. Count(O, m, n) \in Nat /\ Count(C, m, n) \in Nat
    BY <1>1, CountFacts
  <2> QED BY <1>3, <2>1, <2>2
<1>6. ASSUME NEW j \in 1..m
      PROVE  Count(O, j, m) = Count(C, j, m) <=> Count(O, j, n) = Count(C, j, n)
  <2>1. j \in Nat /\ j <= m
    BY <1>1
  <2>2. /\ Count(O, j, n) = Count(O, j, m) + Count(O, m, n)
        /\ Count(C, j, n) = Count(C, j, m) + Count(C, m, n)
    BY <1>1, <2>1, CountSplits
  <2>3. /\ Count(O, j, m) \in Nat /\ Count(C, j, m) \in Nat
        /\ Count(O, m, n) \in Nat /\ Count(C, m, n) \in Nat
    BY <1>1, <2>1, CountFacts
  <2> QED BY <1>5, <2>2, <2>3
<1>7. ASSUME NEW j \in (m + 1)..n, j \in O PROVE Count(O, j, n) # Count(C, j, n)
  <2>1. j \in m..n /\ j - 1 \in m..n /\ j \in 1..L /\ j \in 0..L /\ n \in j..L /\ j \in Nat
    BY <1>1
  <2>2. d[j] = d[j - 1] + 1
    BY <1>7, <2>1 DEF IsDepth
  <2>3. \A l \in j..n : d[l] >= 1
    BY <1>1, <1>4, <2>1
  <2>4. d[n] = d[j] + Count(O, j, n) - Count(C, j, n)
    BY <2>1, <2>3, DepthBalances
  <2>5. Count(O, j, n) \in Nat /\ Count(C, j, n) \in Nat
    BY <1>1, <2>1, CountFacts
  <2>6. d[j - 1] >= d[m] /\ d[j - 1] \in Nat /\ d[j] \in Nat
    BY <1>2, <2>1
  <2> QED BY <1>3, <2>2, <2>4, <2>5, <2>6
<1>8. \A j \in 1..n : j \in 1..m \/ j \in (m + 1)..n
  BY <1>1
<1>9. \A j \in 1..m : j \in 1..n
  BY <1>1
<1> QED BY <1>6, <1>7, <1>8, <1>9 DEF Balanced

\* A key has a piece after it.
LEMMA KeysAreNotLast ==
  ASSUME NEW all, NEW L \in Nat, Len(all) = L, NEW i \in 1..L, IsKey(all, i)
  PROVE  i \in 1..(L - 1)
<1> DEFINE I == {k \in (i + 1)..L : Head(all[k]) \notin White}
<1>1. NextPiece(all, i) = IF I # {} THEN Min(I) ELSE 0
  BY Zenon DEF NextPiece, SelectInSubSeq
<1>2. NextPiece(all, i) # 0
  BY DEF IsKey
<1>3. I # {}
  <2> HIDE DEF I
  <2> QED BY <1>1, <1>2
<1> QED BY <1>3

\* A name that is seen is that of an earlier key of the same object.
LEMMA SeenNames ==
  ASSUME NEW texts, NEW all, NEW run, IsDeduplicated(texts, pieces, all, run),
         NEW i \in 1..Len(texts), run[i - 1].stack # <<>>,
         NEW x \in Last(run[i - 1].stack)
  PROVE  \E j \in 1..(i - 1) :
           IsKey(pieces, j) /\ Inside(j) = Inside(i) /\ pieces[j] = Quoted(x)
<1> DEFINE L == Len(texts)
           d == Depth(all, run)
           O == Opening(all)
           C == Ending(all)
           m == i - 1
           k == Len(run[m].stack)
<1>1. /\ IsKeyRun(all, run) /\ L \in Nat /\ Len(all) = L /\ Len(pieces) = L
      /\ \A n \in 1..L : /\ all[n].is_key <=> IsKey(texts, n)
                         /\ pieces[n] = Pushed(run[n - 1], all[n])
  BY DEF IsDeduplicated
<1>2. /\ \A n \in 1..L : IsKey(pieces, n) <=> IsKey(texts, n)
      /\ O = {n \in 1..L : pieces[n] = <<"{">>} /\ C = {n \in 1..L : pieces[n] = <<"}">>}
  BY DeduplicationKeeps, Zenon
<1>3. i \in 1..L /\ i \in Nat /\ m \in 0..L /\ m \in Nat
  BY <1>1
<1>4. IsDepth(d, L, O, C)
  BY <1>1, DepthIsDepth
<1>5. \A n \in 0..L : d[n] = Len(run[n].stack) /\ d[n] \in Nat
  <2>1. \A n \in 0..L : d[n] = Len(run[n].stack)
    BY <1>1 DEF Depth
  <2> QED BY <1>4, <2>1 DEF IsDepth
<1> HIDE DEF L, d, O, C
<1>6. run[m].stack \in Seq(KeySets)
  <2>1. run[m] \in KeyStates
    BY <1>1, <1>3 DEF IsKeyRun
  <2> QED BY <2>1 DEF KeyStates
<1>7. k \in Nat /\ k >= 1 /\ k \in 1..Len(run[m].stack) /\ x \in run[m].stack[k]
  <2>1. Last(run[m].stack) = run[m].stack[k]
    BY DEF Last
  <2>2. k \in Nat /\ k # 0
    BY <1>6, EmptySeq
  <2> QED BY <2>1, <2>2
<1>8. PICK j \in 1..m : ComesFrom(all, run, j, m, k, x)
  <2>1. Origins(all, run, m)
    BY <1>1, <1>3, OriginsHold
  <2> HIDE DEF m, k
  <2> QED BY <1>7, <2>1, Zenon DEF Origins, k
<1>9. /\ j \in 1..L /\ j \in Nat /\ j - 1 \in 0..L /\ m \in (j - 1)..L
      /\ \A l \in (j - 1)..m : l \in 0..L /\ (l = j - 1 \/ l \in j..m)
  <2>1. m <= L /\ m \in Nat /\ L \in Nat
    BY <1>1, <1>3
  <2> HIDE DEF m
  <2>2. j \in Nat /\ 1 <= j /\ j <= m
    BY <2>1
  <2> QED BY <2>1, <2>2
<1>10. /\ all[j].is_key /\ Len(run[j - 1].stack) = k /\ x = Name(run[j - 1].stack, all[j].text)
       /\ \A l \in j..m : k <= Len(run[l].stack)
  BY <1>8 DEF ComesFrom
<1>11. IsKey(pieces, j)
  BY <1>1, <1>2, <1>9, <1>10
<1>12. pieces[j] = Quoted(x)
  <2>1. run[j - 1].stack # <<>>
    <3>1. Len(<<>>) = 0
      OBVIOUS
    <3> HIDE DEF k
    <3> QED BY <1>7, <1>10, <3>1
  <2> QED BY <1>1, <1>9, <1>10, <2>1 DEF Pushed
<1>13. Balanced(j - 1, O, C) = Balanced(m, O, C)
  <2> DEFINE n == j - 1
  <2>1. d[n] = k /\ d[m] = k /\ \A l \in n..m : d[l] >= k
    <3> HIDE DEF k, m
    <3>1. d[j - 1] = k /\ d[m] = k
      BY <1>3, <1>5, <1>9, <1>10 DEF k
    <3>2. \A l \in (j - 1)..m : d[l] >= k
      <4> TAKE l \in (j - 1)..m
      <4>1. l \in 0..L /\ (l = j - 1 \/ l \in j..m)
        BY <1>9
      <4>2. d[l] = Len(run[l].stack) /\ d[l] \in Nat
        BY <1>5, <4>1
      <4> QED BY <1>7, <1>10, <3>1, <4>1, <4>2
    <3> QED BY <3>1, <3>2
  <2>2. n \in 0..L /\ m \in n..L
    BY <1>9
  <2> HIDE DEF n, m, k
  <2>3. d[n] >= 1 /\ d[m] = d[n] /\ \A l \in n..m : d[l] >= d[n]
    BY <1>7, <2>1
  <2>4. Balanced(n, O, C) = Balanced(m, O, C)
    BY <1>1, <1>4, <2>2, <2>3, SameBraces
  <2> QED BY <2>4 DEF n
<1>14. Inside(j) = Inside(i)
  <2>1. AreBraces(L, O, C)
    BY <1>1, <1>2, Zenon DEF AreBraces
  <2>2. Inside(j) = LastOf(Balanced(j - 1, O, C)) /\ Inside(i) = LastOf(Balanced(i - 1, O, C))
    BY <1>3, <1>9, <2>1, InsideIsLast
  <2> QED BY <1>13, <2>2
<1> QED BY <1>11, <1>12, <1>14

\* What becomes of one piece.
LEMMA PieceKeepsItsKind ==
  ASSUME NEW texts, NEW all, NEW run, IsDeduplicated(texts, pieces, all, run),
         \A k \in 1..(Len(texts) - 1) : IsWhole(texts[k]), NEW i \in 1..Len(texts)
  PROVE  \/ pieces[i] = texts[i]
         \/ /\ IsKey(texts, i)
            /\ \E n \in 1..i : Content(pieces[i]) = Content(texts[i]) \o Decimal[n]
            /\ \E j \in 1..(i - 1) :
                 IsKey(pieces, j) /\ Inside(j) = Inside(i) /\ pieces[j] = texts[i]
<1> DEFINE L == Len(texts)
           stack == run[i - 1].stack
           name == Name(stack, all[i].text)
           old == Content(texts[i])
<1>1. /\ IsKeyRun(all, run) /\ L \in Nat /\ Len(all) = L /\ Len(pieces) = L
      /\ texts \in Seq(Seq(Chars))
      /\ \A n \in 1..L : /\ all[n].is_key <=> IsKey(texts, n)
                         /\ pieces[n] = Pushed(run[n - 1], all[n])
                         /\ all[n].text = texts[n]
  BY DEF IsDeduplicated
<1>2. i \in 1..L /\ i \in Nat /\ i - 1 \in 0..L /\ i - 1 \in Nat
  BY <1>1
<1>3. pieces[i] = Pushed(run[i - 1], all[i]) /\ all[i].text = texts[i]
      /\ (all[i].is_key <=> IsKey(texts, i)) /\ texts[i] \in Seq(Chars)
  BY <1>1, <1>2
<1>4. CASE ~(all[i].is_key /\ stack # <<>>)
  BY <1>3, <1>4 DEF Pushed
<1>5. CASE all[i].is_key /\ stack # <<>>
  <2>1. IsKey(texts, i) /\ pieces[i] = Quoted(name)
    BY <1>3, <1>5 DEF Pushed
  <2>2. texts[i] = Quoted(old)
    <3>1. i \in 1..(L - 1)
      BY <1>1, <1>2, <2>1, KeysAreNotLast
    <3>2. IsWhole(texts[i]) /\ IsString(texts[i])
      BY <2>1, <3>1 DEF IsKey
    <3> QED BY <3>2 DEF IsWhole
  <2>3. stack \in Seq(KeySets)
    <3>1. run[i - 1] \in KeyStates
      BY <1>1, <1>2 DEF IsKeyRun
    <3> QED BY <3>1 DEF KeyStates
  <2> HIDE DEF L
  <2>4. /\ Last(stack) = stack[Len(stack)] /\ Len(stack) \in DOMAIN stack
        /\ Name(stack, texts[i]) \in Seq(Chars)
        /\ \/ Name(stack, texts[i]) = old
           \/ /\ old \in Last(stack)
              /\ \E n \in 1..(Cardinality(Last(stack)) + 1) :
                   Name(stack, texts[i]) = old \o Decimal[n]
    <3> HIDE DEF stack
    <3> QED BY <1>3, <1>5, <2>3, NameIsNew
  <2>5. name = Name(stack, texts[i])
    BY <1>3
  <2> HIDE DEF name, old
  <2>6. CASE name = old
    BY <2>1, <2>2, <2>6
  <2>7. CASE /\ old \in Last(stack)
             /\ \E n \in 1..(Cardinality(Last(stack)) + 1) : name = old \o Decimal[n]
    <3>1. PICK n \in 1..(Cardinality(Last(stack)) + 1) : name = old \o Decimal[n]
      BY <2>7
    <3>2. Cardinality(Last(stack)) \in Nat /\ Cardinality(Last(stack)) <= i - 1
      <4>1. Origins(all, run, i - 1)
        BY <1>1, <1>2, OriginsHold
      <4>2. Len(stack) \in 1..Len(stack)
        BY <2>3, <2>4
      <4>3. IsFiniteSet(stack[Len(stack)]) /\ Cardinality(stack[Len(stack)]) <= i - 1
        BY <4>1, <4>2 DEF Origins
      <4> QED BY <2>4, <4>3, FS_CardinalityType
    <3>3. n \in 1..i
      BY <1>2, <3>2
    <3>4. Content(pieces[i]) = old \o Decimal[n]
      <4>1. Content(Quoted(name)) = name
        BY <2>4, <2>5, QuotedContent
      <4> QED BY <2>1, <3>1, <4>1
    <3>5. \E j \in 1..(i - 1) :
            IsKey(pieces, j) /\ Inside(j) = Inside(i) /\ pieces[j] = Quoted(old)
      <4>1. run[i - 1].stack # <<>> /\ old \in Last(run[i - 1].stack)
        BY <1>5, <2>7
      <4>2. i \in 1..Len(texts) /\ IsDeduplicated(texts, pieces, all, run)
        OBVIOUS
      <4> QED BY <4>1, <4>2, SeenNames
    <3> QED BY <2>1, <2>2, <3>3, <3>4, <3>5 DEF old
  <2> QED BY <2>4, <2>5, <2>6, <2>7
<1> QED BY <1>4, <1>5

LEMMA PlainIsText ==
  ASSUME IsDocument
  PROVE  Plain \in Seq(Chars)
<1> DEFINE L == Len(doc)
           q(i) == PlainOf(i)
           plain == [i \in DOMAIN doc |-> q(i)]
<1>1. L \in Nat /\ DOMAIN doc = 1..L
  BY DEF IsDocument
<1>2. Plain = FlattenSeq(plain)
  BY DEF Plain, PlainOf
<1>3. \A i \in 1..L : q(i) \in Seq(Chars)
  BY PlainTypes
<1> HIDE DEF q, L
<1>4. plain \in [1..L -> Seq(Chars)]
  BY <1>1, <1>3
<1> HIDE DEF plain
<1>5. plain \in Seq(Seq(Chars))
  BY <1>1, <1>4, FunIsSeq
<1> QED BY <1>2, <1>5, FlattenedIsSeq

\* What Preprocess promises of keys follows from what the passes have made.
LEMMA KindWhenDone ==
  ASSUME MarkupIInv
  PROVE  KeysKeepTheirKind
<1> SUFFICES ASSUME passes = "done" PROVE KeysKeepTheirKind
  BY DEF KeysKeepTheirKind
<1>1. IsDocument /\ pieces = deduplicate_keys(Plain)
  BY DEF MarkupIInv
<1>2. Plain \in Seq(Chars)
  BY <1>1, PlainIsText
<1>3. Pieces(Plain) \in Seq(Seq(Chars)) /\ \A k \in 1..(Len(Pieces(Plain)) - 1) : IsWhole(Pieces(Plain)[k])
  BY <1>2, PiecesAreText, PiecesAreWhole
<1> DEFINE texts == Pieces(Plain)
<1>4. PICK all, run : IsDeduplicated(texts, pieces, all, run)
  BY <1>1, <1>3, DeduplicationRuns
<1>5. Before = texts
  BY DEF Before
<1> HIDE DEF texts
<1>6. Len(pieces) = Len(texts) /\ DOMAIN pieces = 1..Len(texts)
  BY <1>4 DEF IsDeduplicated
<1>7. \A k \in 1..(Len(texts) - 1) : IsWhole(texts[k])
  BY <1>3 DEF texts
<1>8. \A i \in 1..Len(texts) :
        \/ pieces[i] = texts[i]
        \/ /\ IsKey(texts, i)
           /\ \E n \in 1..i : Content(pieces[i]) = Content(texts[i]) \o Decimal[n]
           /\ \E j \in 1..(i - 1) :
                IsKey(pieces, j) /\ Inside(j) = Inside(i) /\ pieces[j] = texts[i]
  BY <1>4, <1>7, PieceKeepsItsKind
<1> QED BY <1>5, <1>6, <1>8 DEF KeysKeepTheirKind

\* Of a document of any length and nesting, deduplicate_keys changes nothing but
\* keys, and a key only if an earlier one of its object is written like it; what
\* it does then is to add a number, so that the key still begins like the kind of
\* its event.
THEOREM KeysKeepKind ==
  ASSUME ReadsDocuments
  PROVE  Spec => []KeysKeepTheirKind
<1>1. Init => MarkupIInv
  BY MarkupStart
<1>2. MarkupIInv /\ [Next]_vars => MarkupIInv'
  BY MarkupStep
<1>3. MarkupIInv => KeysKeepTheirKind
  BY KindWhenDone
<1> QED BY <1>1, <1>2, <1>3, PTL DEF Spec
=============================================================================
