---------------------------- MODULE FuzzerProofs ---------------------------
(***************************************************************************)
(* Proofs about the fuzzer, for any number of iterations, any durations,   *)
(* exit codes and timeout, and whatever the children do; about the locks   *)
(* of the phases its generator writes; and about the two put together.     *)
(***************************************************************************)
EXTENDS Fuzzing, SequenceTheorems, FoldTheorems

\* A child that was not started yet in this iteration.
NotStarted ==
  /\ at \in {"build", "configure", "make", "check", "loop", "start_c"} =>
       child["c"] = NoChild
  /\ at \in {"build", "configure", "make", "check", "loop", "start_c", "wait_c",
             "look_c", "kill_c", "read_c", "start_rs"} =>
       child["rs"] = NoChild

\* The result of a run that was not given up has the code of its process.
Honest(i) == ~result[i].timed_out => result[i].exit_code = child[i].code

ResultsHonest ==
  /\ at \in {"start_rs", "wait_rs", "look_rs", "kill_rs", "read_rs", "compare"} =>
       Honest("c")
  /\ at = "compare" => Honest("rs") /\ result["rs"].available

\* What is counted, and that the fuzzer is running until it has an exit code.
Tally ==
  /\ at # "exited" => exit_code = NoCode
  /\ at \in {"build", "configure", "make", "check"} => iteration = 0
  /\ at \in {"start_c", "wait_c", "look_c", "kill_c", "read_c", "start_rs", "wait_rs",
             "look_rs", "kill_rs", "read_rs", "compare"} => iteration < Iterations
  /\ diverged \subseteq 0 .. (iteration - 1)

FuzzInv ==
  /\ FuzzTypeOK
  /\ NoChildLeft
  /\ NotStarted
  /\ ResultsHonest
  /\ Tally
  /\ ExitTellsDivergence

LEMMA CodeNames ==
  /\ NoCode \notin Int /\ NoCode # 0 /\ NoCode # 1 /\ NoCode # 101
BY ComparatorAssumption

LEMMA FuzzStart == FuzzInit => FuzzInv
<1> SUFFICES ASSUME FuzzInit PROVE FuzzInv
  OBVIOUS
<1> USE FuzzerAssumption, ComparatorAssumption, CodeNames DEF FuzzInit
<1>1. FuzzTypeOK
  BY DEF FuzzTypeOK, NoChildren, NoResults, NoChild, unavailable, RunResult, Impl
<1>2. NoChildLeft /\ NotStarted /\ ResultsHonest
  BY DEF NoChildLeft, NotStarted, ResultsHonest, NoChildren, NoChild, Impl
<1>3. Tally
  BY DEF Tally
<1>4. ExitTellsDivergence
  BY FS_EmptySet DEF ExitTellsDivergence, Count
<1>5. QED
  BY <1>1, <1>2, <1>3, <1>4 DEF FuzzInv

\* A step that counts nothing keeps the books, unless it ends the fuzzer with
\* a code that says something else.
LEMMA BooksKept ==
  ASSUME FuzzInv, UNCHANGED <<iteration, stats, saved, diverged>>,
         \/ exit_code' = exit_code
         \/ at # "exited" /\ exit_code' = 101
         \/ iteration = 0 /\ at # "exited" /\ exit_code' = 1
  PROVE  ExitTellsDivergence'
<1> USE CodeNames
<1>1. at # "exited" => stats.total = iteration
  BY DEF FuzzInv, Tally, ExitTellsDivergence, Count, FuzzTypeOK
<1>2. iteration \in Nat /\ stats.total \in Nat
  BY FuzzerAssumption DEF FuzzInv, FuzzTypeOK
<1>3. QED
  BY <1>1, <1>2 DEF FuzzInv, ExitTellsDivergence, Count

LEMMA StartupStep ==
  ASSUME FuzzInv, build_c_rtapp \/ CheckAvailable
  PROVE  FuzzInv'
<1>1. /\ at \in {"build", "configure", "make", "check"}
      /\ \/ at' \in {"configure", "make", "check", "loop"} /\ exit_code' = exit_code
         \/ at' = "exited" /\ exit_code' \in {1, 101}
      /\ UNCHANGED runVars /\ UNCHANGED tallyVars
      /\ at' = "loop" => at = "check"
  BY Zenon DEF build_c_rtapp, CheckAvailable, RunTool, Exit, Panic
<1>2. /\ UNCHANGED <<iteration, duration_secs, child, holders, elapsed, result>>
      /\ UNCHANGED <<keep_failures, stats, saved, diverged>>
  BY <1>1 DEF runVars, tallyVars
<1>3. FuzzTypeOK'
  BY <1>1, <1>2 DEF FuzzInv, FuzzTypeOK
<1>4. iteration = 0
  BY <1>1 DEF FuzzInv, Tally
<1>5. ExitTellsDivergence'
  BY <1>1, <1>2, <1>4, BooksKept
<1>6. child = NoChildren
  <2>1. child["c"] = NoChild /\ child["rs"] = NoChild
    BY <1>1 DEF FuzzInv, NotStarted
  <2>2. QED
    BY <2>1 DEF FuzzInv, FuzzTypeOK, NoChildren, Impl
<1>7. NoChildLeft' /\ NotStarted'
  BY <1>2, <1>6 DEF NoChildLeft, NotStarted, NoChildren, NoChild, Impl
<1>8. ResultsHonest'
  BY <1>1 DEF ResultsHonest
<1>9. Tally'
  BY <1>1, <1>2, <1>4 DEF FuzzInv, Tally
<1>10. QED
  BY <1>3, <1>5, <1>7, <1>8, <1>9 DEF FuzzInv

LEMMA GeneratedStep ==
  ASSUME FuzzInv, NEW secs \in Durations, Generated(secs)
  PROVE  FuzzInv'
<1>1. /\ at = "loop" /\ iteration < Iterations /\ duration_secs' = secs
      /\ \/ at' = "start_c" /\ exit_code' = exit_code
         \/ at' = "exited" /\ exit_code' = 101
      /\ UNCHANGED <<iteration, child, holders, elapsed, result>>
      /\ UNCHANGED <<keep_failures, stats, saved, diverged>>
  BY DEF Generated, Panic, Exit, tallyVars
<1>2. FuzzTypeOK'
  BY <1>1, FuzzerAssumption DEF FuzzInv, FuzzTypeOK
<1>3. ExitTellsDivergence'
  BY <1>1, BooksKept
<1>4. child = NoChildren
  BY <1>1 DEF FuzzInv, NotStarted, FuzzTypeOK, NoChildren, Impl
<1>5. NoChildLeft' /\ NotStarted'
  BY <1>1, <1>4 DEF NoChildLeft, NotStarted, NoChildren, NoChild, Impl
<1>6. ResultsHonest' /\ Tally'
  BY <1>1 DEF FuzzInv, ResultsHonest, Tally
<1>7. QED
  BY <1>2, <1>3, <1>5, <1>6 DEF FuzzInv

LEMMA StartStep ==
  ASSUME FuzzInv, StartC \/ StartRs
  PROVE  FuzzInv'
<1>1. /\ UNCHANGED <<iteration, duration_secs, holders, exit_code>>
      /\ UNCHANGED <<keep_failures, stats, saved, diverged>>
  BY DEF StartC, StartRs, tallyVars
<1> DEFINE running == [state |-> "running", code |-> NoCode]
<1>2. \/ /\ at = "start_c" /\ at' = "wait_c"
         /\ child' = [child EXCEPT !["c"] = running]
         /\ result' = result /\ elapsed' = 0
      \/ /\ at = "start_c" /\ at' = "start_rs"
         /\ result' = [result EXCEPT !["c"] = unavailable]
         /\ UNCHANGED <<child, elapsed>>
      \/ /\ at = "start_rs" /\ at' = "wait_rs"
         /\ child' = [child EXCEPT !["rs"] = running]
         /\ result' = result /\ elapsed' = 0
      \/ /\ at = "start_rs" /\ at' = "compare"
         /\ result' = [result EXCEPT !["rs"] = from_output(NoCode, 0)]
         /\ UNCHANGED <<child, elapsed>>
  BY DEF StartC, StartRs, Started
<1>3. /\ child \in [Impl -> [state : {"none", "running", "blocked", "exited", "reaped"},
                             code : Int \cup {NoCode}]]
      /\ result \in [Impl -> RunResult]
      /\ running \in [state : {"none", "running", "blocked", "exited", "reaped"},
                      code : Int \cup {NoCode}]
      /\ unavailable \in RunResult /\ from_output(NoCode, 0) \in RunResult
      /\ "c" \in Impl /\ "rs" \in Impl
  BY DEF FuzzInv, FuzzTypeOK, unavailable, from_output, RunResult, Impl
<1>4. FuzzTypeOK'
  BY <1>1, <1>2, <1>3 DEF FuzzInv, FuzzTypeOK
<1>5. ExitTellsDivergence'
  BY <1>1, BooksKept
<1>6. child["rs"] = NoChild /\ (at = "start_c" => child["c"] = NoChild)
  BY <1>2 DEF FuzzInv, NotStarted
<1>7. at = "start_rs" => child["c"].state \in {"none", "reaped"}
  BY DEF FuzzInv, NoChildLeft, Impl, WaitAt, LookAt, KillAt
<1>8. NoChildLeft'
  BY <1>2, <1>3, <1>6, <1>7 DEF NoChildLeft, NoChild, Impl, WaitAt, LookAt, KillAt
<1>9. NotStarted'
  BY <1>2, <1>3, <1>6 DEF NotStarted, Impl
<1>10. ResultsHonest'
  BY <1>2, <1>3, <1>6
     DEF FuzzInv, ResultsHonest, Honest, unavailable, from_output, NoChild, Impl
<1>11. Tally'
  BY <1>1, <1>2 DEF FuzzInv, Tally
<1>12. QED
  BY <1>4, <1>5, <1>8, <1>9, <1>10, <1>11 DEF FuzzInv

LEMMA WaitStep ==
  ASSUME FuzzInv, NEW i \in Impl, TryWait(i) \/ ReadOutput(i) \/ Look(i) \/ Kill(i)
  PROVE  FuzzInv'
<1>1. /\ UNCHANGED <<iteration, duration_secs, exit_code>>
      /\ UNCHANGED <<keep_failures, stats, saved, diverged>>
  BY DEF TryWait, ReadOutput, Look, Kill, tallyVars
<1> DEFINE busy == {WaitAt(i), LookAt(i), KillAt(i)}
           ends(wall) == {[result EXCEPT ![i] = from_output(child[i].code, wall)],
                          [result EXCEPT ![i] = timed_out(wall)]}
<1>2. /\ at \in busy \cup {ReadAt(i)} /\ holders' \subseteq Impl
      /\ \/ /\ at \in busy /\ at' \in busy /\ UNCHANGED <<child, result>>
            /\ elapsed' \in {elapsed, elapsed + 1}
         \/ /\ at \in busy /\ at' = ReadAt(i) /\ UNCHANGED <<elapsed, result>>
            /\ child' = [child EXCEPT ![i].state = "reaped"]
         \/ /\ at \in busy /\ at' = NextAt(i) /\ elapsed' = elapsed
            /\ child' = [child EXCEPT ![i].state = "reaped"]
            /\ result' \in ends(elapsed)
         \/ /\ at = ReadAt(i) /\ at' = NextAt(i) /\ UNCHANGED <<child, elapsed>>
            /\ result' \in ends(elapsed) \cup ends(elapsed + 1)
  <2>1. CASE TryWait(i)
    BY <2>1 DEF TryWait, WaitAt, LookAt, KillAt, ReadAt, FuzzInv, FuzzTypeOK, Impl
  <2>2. CASE ReadOutput(i)
    <3>1. PICK late \in 0..1 :
            result' = [result EXCEPT ![i] = from_output(child[i].code, elapsed + late)]
      BY <2>2 DEF ReadOutput
    <3>2. elapsed + late \in {elapsed, elapsed + 1}
      BY <3>1 DEF FuzzInv, FuzzTypeOK
    <3> QED BY <2>2, <3>1, <3>2 DEF ReadOutput, FuzzInv, FuzzTypeOK
  <2>3. CASE Look(i) \/ Kill(i)
    BY <2>3 DEF Look, Kill, WaitAt, LookAt, KillAt, FuzzInv, FuzzTypeOK, Impl
  <2> QED BY <2>1, <2>2, <2>3
<1>3. /\ child \in [Impl -> [state : {"none", "running", "blocked", "exited", "reaped"},
                             code : Int \cup {NoCode}]]
      /\ result \in [Impl -> RunResult] /\ elapsed \in Nat /\ elapsed + 1 \in Nat
      /\ \A wall \in Nat : /\ from_output(child[i].code, wall) \in RunResult
                           /\ timed_out(wall) \in RunResult
  BY DEF FuzzInv, FuzzTypeOK, from_output, timed_out, RunResult
<1>4. ExitTellsDivergence'
  BY <1>1, BooksKept
<1>5. FuzzTypeOK'
  <2>1. /\ child' \in [Impl -> [state : {"none", "running", "blocked", "exited", "reaped"},
                             code : Int \cup {NoCode}]]
        /\ result' \in [Impl -> RunResult] /\ elapsed' \in Nat
    BY <1>2, <1>3
  <2>2. QED
    BY <1>1, <1>2, <2>1
       DEF FuzzInv, FuzzTypeOK, WaitAt, LookAt, KillAt, ReadAt, NextAt
<1>6. Tally'
  BY <1>1, <1>2 DEF FuzzInv, Tally, WaitAt, LookAt, KillAt, ReadAt, NextAt
<1>7. CASE at \in busy /\ at' \in busy /\ UNCHANGED <<child, result>>
  <2>1. NoChildLeft'
    BY <1>2, <1>7 DEF FuzzInv, NoChildLeft, WaitAt, LookAt, KillAt, Impl
  <2>2. NotStarted' /\ ResultsHonest'
    BY <1>2, <1>7 DEF FuzzInv, NotStarted, ResultsHonest, Honest, WaitAt, LookAt,
                      KillAt, Impl
  <2>3. QED
    BY <1>4, <1>5, <1>6, <2>1, <2>2 DEF FuzzInv
<1>8. CASE /\ at \in busy /\ at' = ReadAt(i) /\ UNCHANGED result
           /\ child' = [child EXCEPT ![i].state = "reaped"]
  <2>1. /\ child'[i].state = "reaped" /\ child'[i].code = child[i].code
        /\ \A j \in Impl \ {i} : child'[j] = child[j]
    BY <1>3, <1>8
  <2>2. NoChildLeft'
    BY <1>8, <2>1 DEF FuzzInv, NoChildLeft, WaitAt, LookAt, KillAt, ReadAt, Impl
  <2>3. NotStarted' /\ ResultsHonest'
    BY <1>8, <2>1 DEF FuzzInv, NotStarted, ResultsHonest, Honest, WaitAt, LookAt,
                      KillAt, ReadAt, Impl
  <2>4. QED
    BY <1>4, <1>5, <1>6, <2>2, <2>3 DEF FuzzInv
<1>9. CASE /\ at \in busy \cup {ReadAt(i)} /\ at' = NextAt(i)
           /\ \/ child' = [child EXCEPT ![i].state = "reaped"]
              \/ at = ReadAt(i) /\ UNCHANGED child
           /\ result' \in ends(elapsed) \cup ends(elapsed + 1)
  <2>1. /\ child'[i].state \in {"none", "reaped"} /\ child'[i].code = child[i].code
        /\ \A j \in Impl \ {i} : child'[j] = child[j]
    <3>1. CASE child' = [child EXCEPT ![i].state = "reaped"]
      BY <1>3, <3>1
    <3>2. CASE at = ReadAt(i) /\ UNCHANGED child
      BY <3>2 DEF FuzzInv, NoChildLeft, WaitAt, LookAt, KillAt, ReadAt, Impl
    <3> QED BY <1>9, <3>1, <3>2
  <2>2. /\ \A j \in Impl \ {i} : result'[j] = result[j]
        /\ result'[i].available
        /\ ~result'[i].timed_out => result'[i].exit_code = child[i].code
    BY <1>3, <1>9 DEF from_output, timed_out
  <2>3. \A j \in Impl \ {i} : at \notin {WaitAt(j), LookAt(j), KillAt(j)}
    BY <1>9 DEF WaitAt, LookAt, KillAt, ReadAt, Impl
  <2>4. NoChildLeft'
    BY <2>1, <2>3 DEF FuzzInv, NoChildLeft
  <2>5. NotStarted'
    BY <1>9, <2>1 DEF FuzzInv, NotStarted, NextAt, WaitAt, LookAt, KillAt, ReadAt, Impl
  <2>6. ResultsHonest'
    BY <1>9, <2>1, <2>2
       DEF FuzzInv, ResultsHonest, Honest, NextAt, WaitAt, LookAt, KillAt, ReadAt, Impl
  <2>7. QED
    BY <1>4, <1>5, <1>6, <2>4, <2>5, <2>6 DEF FuzzInv
<1>10. QED
  BY <1>2, <1>7, <1>8, <1>9


LEMMA RecordStep ==
  ASSUME FuzzInv, Record
  PROVE  FuzzInv'
<1> USE FuzzerAssumption, ComparatorAssumption, CodeNames
<1>1. /\ at = "compare" /\ iteration \in Nat /\ exit_code = NoCode
      /\ iteration < Iterations
      /\ diverged \subseteq 0 .. (iteration - 1)
      /\ IsFiniteSet(diverged)
      /\ stats \in [total : Nat, consistent : Nat, divergent : Nat,
                    c_failures : Nat, rs_failures : Nat]
      /\ stats.total = iteration
      /\ stats.divergent = Cardinality(diverged)
      /\ stats.consistent + stats.divergent = iteration
      /\ saved \subseteq diverged
  <2>1. /\ at = "compare" /\ iteration \in Nat /\ exit_code = NoCode
        /\ iteration < Iterations
    BY DEF Record, FuzzInv, FuzzTypeOK, Tally
  <2>2. diverged \subseteq 0 .. (iteration - 1)
    BY DEF FuzzInv, Tally
  <2>3. IsFiniteSet(diverged)
    <3>1. IsFiniteSet(0 .. (iteration - 1))
      BY <2>1, FS_Interval
    <3>2. QED
      BY <2>2, <3>1, FS_Subset
  <2>4. QED
    BY <2>1, <2>2, <2>3 DEF FuzzInv, FuzzTypeOK, ExitTellsDivergence, Count
<1>2. CASE Outcome = "CNotAvailable"
  <2>1. /\ stats' = [stats EXCEPT !.total = @ + 1]
        /\ at' = "exited" /\ exit_code' = 101
        /\ UNCHANGED <<saved, diverged, keep_failures>>
        /\ UNCHANGED <<iteration, duration_secs, child, holders, elapsed, result>>
    BY <1>2 DEF Record, Panic, Exit, runVars
  <2>2. FuzzTypeOK'
    BY <1>1, <2>1 DEF FuzzInv, FuzzTypeOK
  <2>3. ExitTellsDivergence'
    BY <1>1, <2>1 DEF ExitTellsDivergence, Count
  <2>4. NoChildLeft' /\ NotStarted' /\ ResultsHonest' /\ Tally'
    BY <1>1, <2>1 DEF FuzzInv, NoChildLeft, NotStarted, ResultsHonest, Tally,
                      WaitAt, LookAt, KillAt, Impl
  <2>5. QED
    BY <2>2, <2>3, <2>4 DEF FuzzInv
<1>3. CASE Outcome # "CNotAvailable"
  <2>1. /\ stats' = [total |-> stats.total + 1,
                     consistent |-> stats.consistent + Count(Outcome = "Consistent"),
                     divergent |-> stats.divergent + Count(Outcome = "Divergent"),
                     c_failures |-> stats.c_failures + Count(failed(result["c"])),
                     rs_failures |-> stats.rs_failures + Count(failed(result["rs"]))]
        /\ diverged' = diverged \cup {i \in {iteration} : Outcome = "Divergent"}
        /\ \/ saved' = saved \cup {i \in {iteration} :
                                     keep_failures /\ Outcome = "Divergent"}
           \/ saved' = saved
        /\ iteration' = iteration + 1 /\ duration_secs' = 0 /\ elapsed' = 0
        /\ child' = NoChildren /\ result' = NoResults
        /\ at' = "loop" /\ exit_code' = NoCode /\ keep_failures' = keep_failures
    BY <1>1, <1>3 DEF Record
  <2>2. Outcome \in {"Consistent", "Divergent"}
    BY <1>3 DEF Outcome, compare
  <2>3. diverged' = IF Outcome = "Divergent" THEN diverged \cup {iteration} ELSE diverged
    BY <2>1
  <2>4. stats'.divergent = Cardinality(diverged')
    <3>1. iteration \notin diverged
      BY <1>1
    <3>2. Cardinality(diverged \cup {iteration}) = Cardinality(diverged) + 1
      BY <1>1, <3>1, FS_AddElement
    <3>3. QED
      BY <1>1, <2>1, <2>2, <2>3, <3>2 DEF Count
  <2>5. stats'.total = iteration' /\ stats'.consistent + stats'.divergent = iteration'
    BY <1>1, <2>1, <2>2 DEF Count
  <2>6. saved' \subseteq diverged'
    BY <1>1, <2>1
  <2>7. ExitTellsDivergence'
    BY <2>1, <2>4, <2>5, <2>6 DEF ExitTellsDivergence, Count
  <2>8. /\ diverged' \subseteq 0 .. (iteration' - 1)
        /\ iteration' \in 0 .. Iterations
    <3>1. diverged' \subseteq diverged \cup {iteration} /\ iteration' = iteration + 1
      BY <2>1, <2>3
    <3>2. diverged \cup {iteration} \subseteq 0 .. iteration
      BY <1>1
    <3>3. iteration' - 1 = iteration /\ iteration' \in 0 .. Iterations
      BY <1>1, <3>1
    <3>4. QED
      BY <3>1, <3>2, <3>3
  <2>9. Tally'
    BY <2>1, <2>8 DEF Tally
  <2>10. NoChildLeft' /\ NotStarted' /\ ResultsHonest'
    BY <2>1 DEF NoChildLeft, NotStarted, ResultsHonest, NoChildren, NoChild, Impl
  <2>11. FuzzTypeOK'
    <3>1. /\ child' \in [Impl -> [state : {"none", "running", "blocked", "exited", "reaped"},
                                  code : Int \cup {NoCode}]]
          /\ result' \in [Impl -> RunResult]
      BY <2>1 DEF NoChildren, NoResults, NoChild, unavailable, RunResult
    <3>2. stats' \in [total : Nat, consistent : Nat, divergent : Nat,
                      c_failures : Nat, rs_failures : Nat]
      BY <1>1, <2>1 DEF Count
    <3>3. diverged' \in SUBSET (0 .. Iterations) /\ saved' \in SUBSET (0 .. Iterations)
      BY <1>1, <2>1, <2>6, <2>8
    <3>4. holders' \subseteq Impl
      BY DEF Record, FuzzInv, FuzzTypeOK
    <3>5. QED
      BY <2>1, <2>8, <3>1, <3>2, <3>3, <3>4 DEF FuzzInv, FuzzTypeOK
  <2>12. QED
    BY <2>7, <2>9, <2>10, <2>11 DEF FuzzInv
<1>4. QED
  BY <1>2, <1>3

LEMMA FinishStep ==
  ASSUME FuzzInv, Finish
  PROVE  FuzzInv'
<1> USE CodeNames
<1>1. /\ at = "loop" /\ at' = "exited" /\ iteration = Iterations
      /\ exit_code' = IF stats.divergent > 0 THEN 1 ELSE 0
      /\ UNCHANGED <<iteration, duration_secs, child, holders, elapsed, result>>
      /\ UNCHANGED <<keep_failures, stats, saved, diverged>>
  BY DEF Finish, Exit, runVars, tallyVars
<1>2. /\ iteration \in Nat /\ diverged \subseteq 0 .. (iteration - 1)
      /\ stats.divergent = Cardinality(diverged) /\ stats.divergent \in Nat
      /\ stats.total \in Nat /\ stats.total = iteration
  BY <1>1, FuzzerAssumption
     DEF FuzzInv, FuzzTypeOK, Tally, ExitTellsDivergence, Count
<1>3. IsFiniteSet(diverged)
  <2>1. IsFiniteSet(0 .. (iteration - 1))
    BY <1>2, FS_Interval
  <2>2. QED
    BY <1>2, <2>1, FS_Subset
<1>4. stats.divergent = 0 <=> diverged = {}
  BY <1>2, <1>3, FS_EmptySet
<1>5. ExitTellsDivergence'
  BY <1>1, <1>2, <1>4 DEF FuzzInv, ExitTellsDivergence, Count
<1>6. FuzzTypeOK' /\ NoChildLeft' /\ NotStarted' /\ ResultsHonest' /\ Tally'
  BY <1>1 DEF FuzzInv, FuzzTypeOK, NoChildLeft, NotStarted, ResultsHonest, Tally,
              WaitAt, LookAt, KillAt, Impl
<1>7. QED
  BY <1>5, <1>6 DEF FuzzInv

\* What a child does of itself, it does while the fuzzer waits for it.
LEMMA ChildStep ==
  ASSUME FuzzInv, NEW i \in Impl, ChildExits(i) \/ PipeFills(i)
  PROVE  FuzzInv'
<1>1. PICK p \in [state : {"none", "running", "blocked", "exited", "reaped"},
                  code : Int \cup {NoCode}] :
        /\ child[i].state = "running" /\ child' = [child EXCEPT ![i] = p]
        /\ p.state # "none"
  <2>1. CASE ChildExits(i)
    BY <2>1, FuzzerAssumption DEF ChildExits
  <2>2. CASE PipeFills(i)
    <3>1. child' = [child EXCEPT ![i] = [child[i] EXCEPT !.state = "blocked"]]
      BY <2>2 DEF PipeFills, FuzzInv, FuzzTypeOK
    <3>2. QED
      BY <2>2, <3>1 DEF PipeFills, FuzzInv, FuzzTypeOK
  <2>3. QED
    BY <2>1, <2>2
<1>2. /\ UNCHANGED <<at, iteration, duration_secs, holders, elapsed, result, exit_code>>
      /\ UNCHANGED <<keep_failures, stats, saved, diverged>>
  BY DEF ChildExits, PipeFills, tallyVars
<1>3. at \in {WaitAt(i), LookAt(i), KillAt(i)}
  BY <1>1 DEF FuzzInv, NoChildLeft
<1>4. \A j \in Impl \ {i} : child'[j] = child[j]
  BY <1>1 DEF FuzzInv, FuzzTypeOK
<1>5. FuzzTypeOK'
  BY <1>1, <1>2 DEF FuzzInv, FuzzTypeOK
<1>6. ExitTellsDivergence'
  BY <1>2, BooksKept
<1>7. NoChildLeft' /\ Tally'
  BY <1>2, <1>3, <1>4 DEF FuzzInv, NoChildLeft, Tally
<1>8. NotStarted' /\ ResultsHonest'
  BY <1>2, <1>3, <1>4
     DEF FuzzInv, NotStarted, ResultsHonest, Honest, WaitAt, LookAt, KillAt, Impl
<1>9. QED
  BY <1>5, <1>6, <1>7, <1>8 DEF FuzzInv

LEMMA UnchangedStep ==
  ASSUME FuzzInv,
         UNCHANGED <<at, keep_failures, iteration, duration_secs, child, elapsed,
                     result, stats, saved, exit_code, diverged>>,
         holders' \subseteq holders
  PROVE  FuzzInv'
BY DEF FuzzInv, FuzzTypeOK, NoChildLeft, NotStarted, ResultsHonest, Honest, Tally,
       ExitTellsDivergence

\* The inductive invariant: the fuzzer knows its children, its results are
\* those of its children, and its books are those of its verdicts.
THEOREM FuzzInvariantHolds == FuzzSpec => []FuzzInv
<1>1. FuzzInv /\ [FuzzNext]_fuzzVars => FuzzInv'
  <2> SUFFICES ASSUME FuzzInv, [FuzzNext]_fuzzVars PROVE FuzzInv'
    OBVIOUS
  <2>1. CASE build_c_rtapp \/ CheckAvailable
    BY <2>1, StartupStep
  <2>2. ASSUME NEW secs \in Durations, Generated(secs) PROVE FuzzInv'
    BY <2>2, GeneratedStep
  <2>3. CASE StartC \/ StartRs
    BY <2>3, StartStep
  <2>4. ASSUME NEW i \in Impl, TryWait(i) \/ ReadOutput(i) \/ Look(i) \/ Kill(i)
        PROVE  FuzzInv'
    BY <2>4, WaitStep
  <2>5. CASE Record
    BY <2>5, RecordStep
  <2>6. CASE Finish
    BY <2>6, FinishStep
  <2>7. ASSUME NEW i \in Impl, ChildExits(i) \/ PipeFills(i) PROVE FuzzInv'
    BY <2>7, ChildStep
  <2>8. CASE BinaryVanishes
    BY <2>8, UnchangedStep DEF BinaryVanishes, runVars, tallyVars
  <2>9. ASSUME NEW i \in Impl, PipesClose(i) PROVE FuzzInv'
    BY <2>9, UnchangedStep DEF PipesClose, tallyVars
  <2>10. CASE Terminated \/ UNCHANGED fuzzVars
    BY <2>10, UnchangedStep DEF Terminated, fuzzVars
  <2>11. QED
    BY <2>1, <2>2, <2>3, <2>4, <2>5, <2>6, <2>7, <2>8, <2>9, <2>10
       DEF FuzzNext, Fuzz, Others
<1>2. QED
  BY FuzzStart, <1>1, PTL DEF FuzzSpec

\* No child outlives the wait for it, and none is left a zombie.
THEOREM ChildrenAreReaped == FuzzSpec => []NoChildLeft
<1>1. FuzzInv => NoChildLeft
  BY DEF FuzzInv
<1>2. QED
  BY <1>1, FuzzInvariantHolds, PTL

\* The exit code and the counters say what the iterations found.
THEOREM ExitCodeTells == FuzzSpec => []ExitTellsDivergence
<1>1. FuzzInv => ExitTellsDivergence
  BY DEF FuzzInv
<1>2. QED
  BY <1>1, FuzzInvariantHolds, PTL

\* A success and a failure are never found consistent, unless both waits were
\* given up.
THEOREM SuccessesAgree == FuzzSpec => []SuccessNeedsBoth
<1>1. FuzzInv => SuccessNeedsBoth
  <2> DEFINE c == result["c"]
             rs == result["rs"]
  <2> SUFFICES ASSUME FuzzInv, at = "compare", Outcome = "Consistent",
                      ~(c.timed_out /\ rs.timed_out)
               PROVE  (child["c"].code = 0) <=> (child["rs"].code = 0)
    BY DEF SuccessNeedsBoth, Impl
  <2>1. /\ c.available /\ Divergences(c, rs) = {}
    BY DEF Outcome, compare
  <2>2. /\ c.timed_out \in BOOLEAN /\ rs.timed_out \in BOOLEAN
        /\ rs.available
    BY DEF FuzzInv, FuzzTypeOK, RunResult, ResultsHonest, Impl
  <2>3. ~c.timed_out /\ ~rs.timed_out
    <3>1. c.timed_out \/ rs.timed_out => ~TimeoutMismatch(c, rs)
      BY <2>1 DEF Divergences
    <3>2. QED
      BY <2>2, <3>1 DEF TimeoutMismatch
  <2>4. ~SuccessFailureMismatch(c, rs)
    BY <2>1, <2>3 DEF Divergences
  <2>5. c.exit_code = child["c"].code /\ rs.exit_code = child["rs"].code
    BY <2>3 DEF FuzzInv, ResultsHonest, Honest
  <2>6. QED
    BY <2>1, <2>2, <2>3, <2>4, <2>5 DEF SuccessFailureMismatch, succeeded
<1>2. QED
  BY <1>1, FuzzInvariantHolds, PTL
----------------------------------------------------------------------------
(* The generator: the pairs of a phase *)

\* Of, in a phase p that need not be the current one.
OfIn(p, type, m) == {k \in DOMAIN p : k.type = type /\ p[k] = m}

HeldIn(held, m) == {i \in DOMAIN held : held[i] = m}

Below(p, type, m, number) == {k \in OfIn(p, type, m) : k.number < number}

\* What the mutex was locked more often than unlocked is what is held of it.
Balance(p, held, m) ==
  Cardinality(OfIn(p, "lock", m))
    = Cardinality(OfIn(p, "unlock", m)) + Cardinality(HeldIn(held, m))

InOrder(p, m) ==
  \A u \in OfIn(p, "unlock", m) :
    Cardinality(Below(p, "lock", m, u.number)) > Cardinality(Below(p, "unlock", m, u.number))

\* A phase whose events have numbers below n, with these locks held.
Paired(p, held, n, ms) ==
  /\ IsFiniteSet(DOMAIN p)
  /\ n \in Nat /\ held \in Seq(ms)
  /\ \A k \in DOMAIN p : k.number \in Nat /\ (k.type # "loop" => k.number < n)
  /\ \A m \in ms : Balance(p, held, m) /\ InOrder(p, m)

\* A key that is inserted changes nothing of the other types.
LEMMA InsertOther ==
  ASSUME NEW p, NEW ty, NEW n, NEW v, NEW type, type # ty, NEW m
  PROVE  OfIn(Insert(p, Key(ty, n), v), type, m) = OfIn(p, type, m)
BY DEF OfIn, Insert, Key

\* A new key adds itself to those of its type and value.
LEMMA InsertSame ==
  ASSUME NEW p, NEW ty, NEW n, NEW v, Key(ty, n) \notin DOMAIN p, NEW m
  PROVE  OfIn(Insert(p, Key(ty, n), v), ty, m)
           = IF m = v THEN OfIn(p, ty, m) \cup {Key(ty, n)} ELSE OfIn(p, ty, m)
BY DEF OfIn, Insert, Key

LEMMA InsertDomain ==
  ASSUME NEW p, NEW key, NEW v, IsFiniteSet(DOMAIN p)
  PROVE  /\ DOMAIN Insert(p, key, v) = DOMAIN p \cup {key}
         /\ IsFiniteSet(DOMAIN Insert(p, key, v))
<1>1. DOMAIN Insert(p, key, v) = DOMAIN p \cup {key}
  BY DEF Insert
<1>2. QED
  BY <1>1, FS_AddElement

LEMMA KeysFinite ==
  ASSUME NEW p, IsFiniteSet(DOMAIN p), NEW type, NEW m
  PROVE  IsFiniteSet(OfIn(p, type, m)) /\ Cardinality(OfIn(p, type, m)) \in Nat
<1>1. OfIn(p, type, m) \in SUBSET DOMAIN p
  BY DEF OfIn
<1>2. QED
  BY <1>1, FS_Subset, FS_CardinalityType

LEMMA HeldFinite ==
  ASSUME NEW ms, NEW held \in Seq(ms), NEW m
  PROVE  IsFiniteSet(HeldIn(held, m)) /\ Cardinality(HeldIn(held, m)) \in Nat
<1>1. IsFiniteSet(1 .. Len(held))
  BY FS_Interval
<1>2. HeldIn(held, m) \in SUBSET (1 .. Len(held))
  BY DEF HeldIn
<1>3. QED
  BY <1>1, <1>2, FS_Subset, FS_CardinalityType

\* An event that neither locks nor unlocks.
LEMMA OtherKeeps ==
  ASSUME NEW p, NEW held, NEW n, NEW ms, Paired(p, held, n, ms),
         NEW ty, ty \notin {"lock", "unlock"}, NEW j \in 0 .. n, NEW v
  PROVE  Paired(Insert(p, Key(ty, j), v), held, n + 1, ms)
<1> DEFINE q == Insert(p, Key(ty, j), v)
<1>1. DOMAIN q = DOMAIN p \cup {Key(ty, j)} /\ IsFiniteSet(DOMAIN q)
  BY InsertDomain DEF Paired
<1>2. n \in Nat /\ n + 1 \in Nat /\ held \in Seq(ms)
  BY DEF Paired
<1>3. \A k \in DOMAIN q : k.number \in Nat /\ (k.type # "loop" => k.number < n + 1)
  BY <1>1, <1>2 DEF Paired, Key
<1>4. \A m : /\ OfIn(q, "lock", m) = OfIn(p, "lock", m)
             /\ OfIn(q, "unlock", m) = OfIn(p, "unlock", m)
  BY InsertOther
<1> HIDE DEF q
<1>5. \A m \in ms : Balance(q, held, m) /\ InOrder(q, m)
  BY <1>4 DEF Paired, Balance, InOrder, Below
<1>6. QED
  BY <1>1, <1>2, <1>3, <1>5 DEF Paired, q

\* A key with a number that is not below n changes nothing below a key of p.
LEMMA BelowStays ==
  ASSUME NEW p, NEW held, NEW n, NEW ms, Paired(p, held, n, ms),
         NEW ty \in {"lock", "unlock"}, NEW v, NEW type \in {"lock", "unlock"}, NEW m,
         NEW number \in Nat, number <= n
  PROVE  Below(Insert(p, Key(ty, n), v), type, m, number) = Below(p, type, m, number)
<1>1. Key(ty, n) \notin DOMAIN p /\ n \in Nat
  BY DEF Paired, Key
<1>2. CASE type # ty
  BY <1>2, InsertOther DEF Below
<1>3. CASE type = ty
  <2>1. OfIn(Insert(p, Key(ty, n), v), ty, m)
          = IF m = v THEN OfIn(p, ty, m) \cup {Key(ty, n)} ELSE OfIn(p, ty, m)
    BY <1>1, InsertSame
  <2>2. ~(Key(ty, n).number < number)
    BY <1>1 DEF Key
  <2>3. QED
    BY <1>3, <2>1, <2>2 DEF Below
<1>4. QED
  BY <1>2, <1>3

LEMMA AllBelow ==
  ASSUME NEW p, NEW held, NEW n, NEW ms, Paired(p, held, n, ms),
         NEW type \in {"lock", "unlock"}, NEW m
  PROVE  Below(p, type, m, n) = OfIn(p, type, m)
BY DEF Paired, Below, OfIn

\* A lock is one key and one lock held more.
LEMMA LockKeeps ==
  ASSUME NEW p, NEW held, NEW n, NEW ms, Paired(p, held, n, ms), NEW v \in ms
  PROVE  Paired(Insert(p, Key("lock", n), v), Push(held, v), n + 1, ms)
<1> DEFINE q == Insert(p, Key("lock", n), v)
           more == Push(held, v)
<1>1. n \in Nat /\ n + 1 \in Nat /\ held \in Seq(ms) /\ IsFiniteSet(DOMAIN p)
  BY DEF Paired
<1>2. DOMAIN q = DOMAIN p \cup {Key("lock", n)} /\ IsFiniteSet(DOMAIN q)
  BY <1>1, InsertDomain
<1>3. \A k \in DOMAIN q : k.number \in Nat /\ (k.type # "loop" => k.number < n + 1)
  BY <1>1, <1>2 DEF Paired, Key
<1>4. /\ more \in Seq(ms) /\ DOMAIN more = 1 .. Len(held) + 1
      /\ more[Len(held) + 1] = v /\ \A i \in 1 .. Len(held) : more[i] = held[i]
  BY <1>1 DEF Push
<1>5. Key("lock", n) \notin DOMAIN p
  BY DEF Paired, Key
<1>6. ASSUME NEW m \in ms PROVE Balance(q, more, m)
  <2>1. OfIn(q, "unlock", m) = OfIn(p, "unlock", m)
    BY InsertOther
  <2>2. OfIn(q, "lock", m)
          = IF m = v THEN OfIn(p, "lock", m) \cup {Key("lock", n)} ELSE OfIn(p, "lock", m)
    BY <1>5, InsertSame
  <2>3. Key("lock", n) \notin OfIn(p, "lock", m)
    BY <1>5 DEF OfIn
  <2>4. /\ IsFiniteSet(OfIn(p, "lock", m)) /\ Cardinality(OfIn(p, "lock", m)) \in Nat
        /\ Cardinality(OfIn(p, "unlock", m)) \in Nat
        /\ IsFiniteSet(HeldIn(held, m)) /\ Cardinality(HeldIn(held, m)) \in Nat
    BY <1>1, KeysFinite, HeldFinite
  <2>5. HeldIn(more, m)
          = IF m = v THEN HeldIn(held, m) \cup {Len(held) + 1} ELSE HeldIn(held, m)
    <3> HIDE DEF more
    <3>1. Len(held) \in Nat /\ DOMAIN held = 1 .. Len(held)
      BY <1>1
    <3>2. QED
      BY <1>4, <3>1 DEF HeldIn
  <2>6. Len(held) + 1 \notin HeldIn(held, m)
    BY <1>1 DEF HeldIn
  <2>7. Balance(p, held, m)
    BY DEF Paired
  <2> HIDE DEF q, more
  <2>8. CASE m = v
    <3>1. Cardinality(OfIn(q, "lock", m)) = Cardinality(OfIn(p, "lock", m)) + 1
      BY <2>2, <2>3, <2>4, <2>8, FS_AddElement
    <3>2. Cardinality(HeldIn(more, m)) = Cardinality(HeldIn(held, m)) + 1
      BY <2>4, <2>5, <2>6, <2>8, FS_AddElement
    <3>3. QED
      BY <2>1, <2>4, <2>7, <3>1, <3>2 DEF Balance
  <2>9. CASE m # v
    BY <2>1, <2>2, <2>5, <2>7, <2>9 DEF Balance
  <2>10. QED
    BY <2>8, <2>9
<1>7. ASSUME NEW m \in ms PROVE InOrder(q, m)
  <2> SUFFICES ASSUME NEW u \in OfIn(q, "unlock", m)
               PROVE  Cardinality(Below(q, "lock", m, u.number))
                        > Cardinality(Below(q, "unlock", m, u.number))
    BY DEF InOrder
  <2>1. u \in OfIn(p, "unlock", m)
    BY InsertOther
  <2>2. u.number \in Nat /\ u.number <= n
    BY <2>1 DEF OfIn, Paired
  <2>3. /\ Below(q, "lock", m, u.number) = Below(p, "lock", m, u.number)
        /\ Below(q, "unlock", m, u.number) = Below(p, "unlock", m, u.number)
    BY <2>2, BelowStays
  <2>4. QED
    BY <2>1, <2>3 DEF Paired, InOrder
<1> HIDE DEF q, more
<1>8. Paired(q, more, n + 1, ms)
  BY <1>1, <1>2, <1>3, <1>4, <1>6, <1>7 DEF Paired
<1>9. QED
  BY <1>8 DEF q, more

\* An unlock is one key more and one lock held less.
LEMMA UnlockKeeps ==
  ASSUME NEW p, NEW held, NEW n, NEW ms, Paired(p, held, n, ms), held # <<>>
  PROVE  Paired(Insert(p, Key("unlock", n), Last(held)), Pop(held), n + 1, ms)
<1> DEFINE v == Last(held)
           q == Insert(p, Key("unlock", n), v)
           less == Pop(held)
           top == Len(held)
<1>1. n \in Nat /\ n + 1 \in Nat /\ held \in Seq(ms) /\ IsFiniteSet(DOMAIN p)
  BY DEF Paired
<1>2. DOMAIN q = DOMAIN p \cup {Key("unlock", n)} /\ IsFiniteSet(DOMAIN q)
  BY <1>1, InsertDomain
<1>3. \A k \in DOMAIN q : k.number \in Nat /\ (k.type # "loop" => k.number < n + 1)
  BY <1>1, <1>2 DEF Paired, Key
<1>4. top \in Nat \ {0} /\ top \in DOMAIN held /\ DOMAIN held = 1 .. top /\ v = held[top]
  BY <1>1, EmptySeq DEF Last
<1>5. /\ less \in Seq(ms) /\ DOMAIN less = 1 .. top - 1
      /\ \A i \in 1 .. top - 1 : less[i] = held[i]
  BY <1>1, <1>4 DEF Pop
<1>6. Key("unlock", n) \notin DOMAIN p
  BY DEF Paired, Key
<1>7. \A m : OfIn(q, "lock", m) = OfIn(p, "lock", m)
  BY InsertOther
<1>8. \A m : OfIn(q, "unlock", m)
               = IF m = v THEN OfIn(p, "unlock", m) \cup {Key("unlock", n)}
                          ELSE OfIn(p, "unlock", m)
  BY <1>6, InsertSame
<1>9. \A m : /\ IsFiniteSet(OfIn(p, "unlock", m)) /\ Cardinality(OfIn(p, "unlock", m)) \in Nat
             /\ Cardinality(OfIn(p, "lock", m)) \in Nat
             /\ IsFiniteSet(HeldIn(held, m)) /\ Cardinality(HeldIn(held, m)) \in Nat
  BY <1>1, KeysFinite, HeldFinite
<1>10. \A m : HeldIn(less, m)
                = IF m = v THEN HeldIn(held, m) \ {top} ELSE HeldIn(held, m)
  <2> HIDE DEF less, v
  <2>1. \A i : i \in 1 .. top - 1 <=> i \in 1 .. top /\ i # top
    BY <1>4
  <2>2. QED
    BY <1>4, <1>5, <2>1 DEF HeldIn
<1>11. top \in HeldIn(held, v)
  BY <1>4 DEF HeldIn
<1>12. Cardinality(HeldIn(less, v)) = Cardinality(HeldIn(held, v)) - 1
  BY <1>9, <1>10, <1>11, FS_RemoveElement
<1>13. Cardinality(OfIn(q, "unlock", v)) = Cardinality(OfIn(p, "unlock", v)) + 1
  <2>1. Key("unlock", n) \notin OfIn(p, "unlock", v)
    BY <1>6 DEF OfIn
  <2> HIDE DEF v, q
  <2>2. QED
    BY <1>8, <1>9, <2>1, FS_AddElement
<1>14. ASSUME NEW m \in ms PROVE Balance(q, less, m)
  <2>1. Balance(p, held, m)
    BY DEF Paired
  <2> HIDE DEF q, less, v, top
  <2>2. CASE m = v
    BY <1>7, <1>9, <1>12, <1>13, <2>1, <2>2 DEF Balance
  <2>3. CASE m # v
    BY <1>7, <1>8, <1>10, <2>1, <2>3 DEF Balance
  <2>4. QED
    BY <2>2, <2>3
<1>15. ASSUME NEW m \in ms PROVE InOrder(q, m)
  <2> SUFFICES ASSUME NEW u \in OfIn(q, "unlock", m)
               PROVE  Cardinality(Below(q, "lock", m, u.number))
                        > Cardinality(Below(q, "unlock", m, u.number))
    BY DEF InOrder
  <2>1. CASE u \in OfIn(p, "unlock", m)
    <3>1. u.number \in Nat /\ u.number <= n
      BY <2>1 DEF OfIn, Paired
    <3>2. /\ Below(q, "lock", m, u.number) = Below(p, "lock", m, u.number)
          /\ Below(q, "unlock", m, u.number) = Below(p, "unlock", m, u.number)
      BY <3>1, BelowStays
    <3>3. QED
      BY <2>1, <3>2 DEF Paired, InOrder
  <2>2. CASE u \notin OfIn(p, "unlock", m)
    <3>1. m = v /\ u.number = n
      <4>1. m = v /\ u = Key("unlock", n)
        BY <1>8, <2>2
      <4>2. QED
        BY <4>1 DEF Key
    <3>2. /\ Below(q, "lock", m, n) = Below(p, "lock", m, n)
          /\ Below(q, "unlock", m, n) = Below(p, "unlock", m, n)
      BY <1>1, BelowStays
    <3>3. /\ Below(p, "lock", m, n) = OfIn(p, "lock", m)
          /\ Below(p, "unlock", m, n) = OfIn(p, "unlock", m)
      BY AllBelow
    <3>4. Cardinality(HeldIn(held, m)) > 0
      <4>1. HeldIn(held, m) # {}
        BY <1>11, <3>1
      <4>2. QED
        BY <1>9, <4>1, FS_EmptySet
    <3>5. Balance(p, held, m)
      BY DEF Paired
    <3> HIDE DEF q
    <3>6. Cardinality(OfIn(p, "lock", m)) > Cardinality(OfIn(p, "unlock", m))
      BY <1>9, <3>4, <3>5 DEF Balance
    <3>7. QED
      BY <3>1, <3>2, <3>3, <3>6
  <2>3. QED
    BY <2>1, <2>2
<1> HIDE DEF q, less
<1>16. Paired(q, less, n + 1, ms)
  BY <1>1, <1>2, <1>3, <1>5, <1>14, <1>15 DEF Paired
<1>17. QED
  BY <1>16 DEF q, less, v

\* A phase without events, and one with its loop count.
LEMMA NewPhasePaired ==
  ASSUME NEW ms, NEW v
  PROVE  /\ Paired(EmptyMap, <<>>, 0, ms)
         /\ Paired(Insert(EmptyMap, Key("loop", 0), v), <<>>, 0, ms)
<1>1. ASSUME NEW p, p \in {EmptyMap, Insert(EmptyMap, Key("loop", 0), v)}
      PROVE  Paired(p, <<>>, 0, ms)
  <2>1. DOMAIN p \subseteq {Key("loop", 0)}
    BY <1>1 DEF EmptyMap, Insert
  <2>2. IsFiniteSet(DOMAIN p)
    <3>1. IsFiniteSet({} \cup {Key("loop", 0)})
      BY FS_EmptySet, FS_AddElement
    <3>2. DOMAIN p \in SUBSET ({} \cup {Key("loop", 0)})
      BY <2>1
    <3>3. QED
      BY <3>1, <3>2, FS_Subset
  <2>3. \A k \in DOMAIN p : k.number = 0 /\ k.type = "loop"
    BY <2>1 DEF Key
  <2>4. \A m : OfIn(p, "lock", m) = {} /\ OfIn(p, "unlock", m) = {} /\ HeldIn(<<>>, m) = {}
    BY <2>3 DEF OfIn, HeldIn
  <2>5. ASSUME NEW m PROVE Balance(p, <<>>, m) /\ InOrder(p, m)
    <3>1. /\ Cardinality(OfIn(p, "lock", m)) = 0 /\ Cardinality(OfIn(p, "unlock", m)) = 0
          /\ Cardinality(HeldIn(<<>>, m)) = 0
      BY <2>4, FS_EmptySet, Zenon
    <3>2. QED
      BY <2>4, <3>1 DEF Balance, InOrder
  <2>6. QED
    BY <2>2, <2>3, <2>5, EmptySeq DEF Paired
<1>2. QED
  BY <1>1

----------------------------------------------------------------------------
(* The generator: its invariant *)

PairInv ==
  /\ gen_at = "add_phase_events" => Paired(phase, held_locks, event_counter, mutexes)
  /\ gen_at = "written" => \E n \in Nat : Paired(phase, <<>>, n, mutexes)
  /\ gen_at # "add_phase_events" => held_locks = <<>>
  /\ gen_at \notin {"add_phase_events", "written"} => phase = EmptyMap
  /\ gen_at = "done" => duration \in Durations

\* One event more, whatever it is.
LEMMA EventKeeps ==
  ASSUME PairInv, add_phase_event
  PROVE  Paired(phase', held_locks', event_counter', mutexes')
<1>1. Paired(phase, held_locks, event_counter, mutexes)
  BY DEF PairInv, add_phase_event
<1>2. event_counter' = event_counter + 1 /\ mutexes' = mutexes /\ event_counter \in Nat
  BY <1>1 DEF add_phase_event, sectionVars, Paired
<1>3. PICK type \in choose_event_type :
        \/ /\ type \notin {"lock", "unlock"} /\ UNCHANGED held_locks
           /\ \E v : phase' = Insert(phase, Key(type, event_counter), v)
        \/ /\ type = "lock"
           /\ \E m \in mutexes : /\ phase' = Insert(phase, Key("lock", event_counter), m)
                                 /\ held_locks' = Push(held_locks, m)
        \/ /\ type = "unlock"
           /\ phase' = Insert(phase, Key("unlock", event_counter), Last(held_locks))
           /\ held_locks' = Pop(held_locks)
  BY DEF add_phase_event
<1>4. CASE type \notin {"lock", "unlock"}
  BY <1>1, <1>2, <1>3, <1>4, OtherKeeps
<1>5. CASE type = "lock"
  BY <1>1, <1>2, <1>3, <1>5, LockKeeps
<1>6. CASE type = "unlock"
  <2>1. held_locks # <<>>
    BY <1>6 DEF choose_event_type
  <2>2. QED
    BY <1>1, <1>2, <1>3, <1>6, <2>1, UnlockKeeps
<1>7. QED
  BY <1>4, <1>5, <1>6

\* The phase of a thread that has only a run and a sleep or a timer.
LEMMA SimpleKeeps ==
  ASSUME PairInv, add_simple_events
  PROVE  \E n \in Nat : Paired(phase', <<>>, n, mutexes')
<1>1. PICK run_us, ty, v :
        /\ ty \notin {"lock", "unlock"}
        /\ phase' = Insert(Insert(EmptyMap, Key("run", 0), run_us), Key(ty, 0), v)
  BY DEF add_simple_events
<1>2. Paired(EmptyMap, <<>>, 0, mutexes)
  BY NewPhasePaired
<1>3. Paired(Insert(EmptyMap, Key("run", 0), run_us), <<>>, 0 + 1, mutexes)
  BY <1>2, OtherKeeps
<1>4. Paired(phase', <<>>, (0 + 1) + 1, mutexes)
  BY <1>1, <1>3, OtherKeeps
<1>5. mutexes' = mutexes
  BY DEF add_simple_events, sectionVars
<1>6. QED
  BY <1>4, <1>5

LEMMA GeneratorKeeps == PairInv /\ [GenNext]_genVars => PairInv'
<1> SUFFICES ASSUME PairInv, [GenNext]_genVars PROVE PairInv'
  OBVIOUS
<1>1. CASE NameThreads
  BY <1>1 DEF NameThreads, PairInv, phaseVars
<1>2. CASE generate_resources
  BY <1>2 DEF generate_resources, PairInv, phaseVars
<1>3. CASE generate_thread \/ generate_phases
  BY <1>3 DEF generate_thread, generate_phases, PairInv, phaseVars
<1>4. CASE add_simple_events
  <2>1. gen_at' = "written" /\ held_locks' = <<>>
    BY <1>4 DEF add_simple_events, PairInv
  <2>2. QED
    BY <1>4, <2>1, SimpleKeeps DEF PairInv
<1>5. CASE generate_phase
  <2>1. /\ gen_at' = "add_phase_events" /\ event_counter' = 0 /\ held_locks' = <<>>
        /\ \E v : phase' = Insert(EmptyMap, Key("loop", 0), v)
    BY <1>5 DEF generate_phase
  <2>2. Paired(phase', held_locks', event_counter', mutexes')
    BY <2>1, NewPhasePaired
  <2>3. QED
    BY <2>1, <2>2 DEF PairInv
<1>6. CASE add_phase_event
  <2>1. gen_at' = "add_phase_events"
    BY <1>6 DEF add_phase_event
  <2>2. QED
    BY <1>6, <2>1, EventKeeps DEF PairInv
<1>7. CASE close_locks
  <2>1. /\ gen_at' = "add_phase_events" /\ mutexes' = mutexes
        /\ event_counter' = event_counter + 1 /\ held_locks # <<>>
        /\ phase' = Insert(phase, Key("unlock", event_counter), Last(held_locks))
        /\ held_locks' = Pop(held_locks)
    BY <1>7 DEF close_locks, sectionVars
  <2>2. Paired(phase, held_locks, event_counter, mutexes)
    BY <1>7 DEF close_locks, PairInv
  <2>3. Paired(phase', held_locks', event_counter', mutexes')
    BY <2>1, <2>2, UnlockKeeps
  <2>4. QED
    BY <2>1, <2>3 DEF PairInv
<1>8. CASE add_timer
  <2>1. /\ gen_at' = "written" /\ mutexes' = mutexes
        /\ held_locks = <<>> /\ held_locks' = <<>>
        /\ \/ UNCHANGED phase
           \/ \E v : phase' = Insert(phase, Key("timer", event_counter), v)
    BY <1>8 DEF add_timer, sectionVars
  <2>2. Paired(phase, <<>>, event_counter, mutexes) /\ event_counter \in Nat
    BY <1>8, <2>1 DEF add_timer, PairInv, Paired
  <2>3. Paired(phase', <<>>, event_counter, mutexes) \/ Paired(phase', <<>>, event_counter + 1, mutexes)
    BY <2>1, <2>2, OtherKeeps
  <2>4. event_counter + 1 \in Nat
    BY <2>2
  <2>5. QED
    BY <2>1, <2>2, <2>3, <2>4 DEF PairInv
<1>9. CASE write_phase
  BY <1>9 DEF write_phase, PairInv
<1>10. CASE generate_global
  BY <1>10, FuzzingAssumption DEF generate_global, PairInv, phaseVars
<1>11. CASE UNCHANGED genVars
  BY <1>11 DEF genVars, PairInv
<1>12. QED
  BY <1>1, <1>2, <1>3, <1>4, <1>5, <1>6, <1>7, <1>8, <1>9, <1>10, <1>11 DEF GenNext

----------------------------------------------------------------------------
(* The generator: the runs of a phase and its timer *)

RunKeys(p) == {k \in DOMAIN p : k.type \in {"run", "runtime"}}

\* A phase without a timer whose runs come to the total.
RunsSummed(p, total) ==
  /\ IsFiniteSet(DOMAIN p)
  /\ total \in Nat
  /\ \A k \in DOMAIN p : k.type # "timer"
  /\ \A k \in RunKeys(p) : p[k] \in Nat
  /\ total = SumFunctionOnSet(p, RunKeys(p))

\* The timers of a phase leave time for its runs.
TimersCover(p) ==
  \A k \in DOMAIN p : k.type = "timer" => p[k].period > SumFunctionOnSet(p, RunKeys(p))

\* An event that is no run leaves the sum alone.
LEMMA SumStays ==
  ASSUME NEW p, IsFiniteSet(DOMAIN p), NEW key, key.type \notin {"run", "runtime"}, NEW v,
         key \notin DOMAIN p
  PROVE  /\ DOMAIN Insert(p, key, v) = DOMAIN p \cup {key}
         /\ IsFiniteSet(DOMAIN Insert(p, key, v))
         /\ Insert(p, key, v)[key] = v
         /\ RunKeys(Insert(p, key, v)) = RunKeys(p)
         /\ \A k \in RunKeys(p) : Insert(p, key, v)[k] = p[k]
         /\ SumFunctionOnSet(Insert(p, key, v), RunKeys(p)) = SumFunctionOnSet(p, RunKeys(p))
<1> DEFINE q == Insert(p, key, v)
<1>1. DOMAIN q = DOMAIN p \cup {key} /\ IsFiniteSet(DOMAIN q)
  BY InsertDomain
<1>2. q[key] = v /\ \A k \in DOMAIN p : q[k] = p[k]
  BY DEF Insert
<1> HIDE DEF q
<1>3. RunKeys(q) = RunKeys(p) /\ \A k \in RunKeys(p) : q[k] = p[k]
  BY <1>1, <1>2 DEF RunKeys
<1>4. IsFiniteSet(RunKeys(p))
  BY FS_Subset DEF RunKeys
<1>5. SumFunctionOnSet(q, RunKeys(p)) = SumFunctionOnSet(p, RunKeys(p))
  BY <1>3, <1>4, SumSame
<1>6. QED
  BY <1>1, <1>2, <1>3, <1>5 DEF q

LEMMA OtherEventSummed ==
  ASSUME NEW p, NEW total, RunsSummed(p, total),
         NEW ty, ty \notin {"run", "runtime", "timer"}, NEW n, NEW v, Key(ty, n) \notin DOMAIN p
  PROVE  RunsSummed(Insert(p, Key(ty, n), v), total)
<1> DEFINE key == Key(ty, n)
           q   == Insert(p, key, v)
<1>1. key.type = ty /\ key \notin DOMAIN p /\ IsFiniteSet(DOMAIN p)
  BY DEF Key, RunsSummed
<1> HIDE DEF key
<1>2. /\ DOMAIN q = DOMAIN p \cup {key} /\ IsFiniteSet(DOMAIN q)
      /\ RunKeys(q) = RunKeys(p)
      /\ \A k \in RunKeys(p) : q[k] = p[k]
      /\ SumFunctionOnSet(q, RunKeys(p)) = SumFunctionOnSet(p, RunKeys(p))
  BY <1>1, SumStays
<1> HIDE DEF q
<1>3. RunsSummed(q, total)
  BY <1>1, <1>2 DEF RunsSummed
<1>4. QED
  BY <1>3 DEF q, key

\* A run adds its time.
LEMMA RunSummed ==
  ASSUME NEW p, NEW total, RunsSummed(p, total),
         NEW ty \in {"run", "runtime"}, NEW n, NEW v \in Nat, Key(ty, n) \notin DOMAIN p
  PROVE  RunsSummed(Insert(p, Key(ty, n), v), total + v)
<1> DEFINE key == Key(ty, n)
           q   == Insert(p, key, v)
<1>1. DOMAIN q = DOMAIN p \cup {key} /\ IsFiniteSet(DOMAIN q)
  BY InsertDomain DEF RunsSummed
<1>2. key.type = ty /\ key \notin RunKeys(p)
  BY DEF Key, RunKeys
<1>3. q[key] = v /\ \A k \in DOMAIN p : q[k] = p[k]
  BY DEF Insert
<1> HIDE DEF q, key
<1>4. RunKeys(q) = RunKeys(p) \cup {key} /\ \A k \in RunKeys(p) : q[k] = p[k]
  BY <1>1, <1>2, <1>3 DEF RunKeys
<1>5. IsFiniteSet(RunKeys(p)) /\ \A k \in RunKeys(p) : p[k] \in Nat
  BY FS_Subset DEF RunKeys, RunsSummed
<1>6. \A k \in RunKeys(q) : q[k] \in Nat
  <2>1. q[key] \in Nat
    BY <1>3
  <2>2. \A k \in RunKeys(p) : q[k] \in Nat
    BY <1>4, <1>5
  <2>3. QED
    BY <1>4, <2>1, <2>2
<1>7. SumFunctionOnSet(q, RunKeys(p) \cup {key}) = q[key] + SumFunctionOnSet(q, RunKeys(p))
  <2>1. \A k \in RunKeys(p) \cup {key} : q[k] \in Int
    BY <1>4, <1>6
  <2>2. QED
    BY <1>2, <1>5, <2>1, SumAdds
<1>8. SumFunctionOnSet(q, RunKeys(p)) = SumFunctionOnSet(p, RunKeys(p))
  BY <1>4, <1>5, SumSame
<1>9. SumFunctionOnSet(q, RunKeys(q)) = total + v /\ total + v \in Nat
  BY <1>3, <1>4, <1>7, <1>8 DEF RunsSummed
<1>10. \A k \in DOMAIN q : k.type # "timer"
  BY <1>1, <1>2 DEF RunsSummed
<1>11. RunsSummed(q, total + v)
  BY <1>1, <1>6, <1>9, <1>10 DEF RunsSummed
<1>12. QED
  BY <1>11 DEF q, key

\* The period that is chosen for a runtime is longer than it.
LEMMA PeriodIsLonger ==
  ASSUME NEW runtime \in Nat, NEW period \in random_timer_period(runtime)
  PROVE  period > runtime
<1>1. /\ period_margin \in Nat /\ period_margin > 0 /\ max_timer_period_us \in Nat
  BY GeneratorAssumption
<1> DEFINE min == runtime + period_margin
           max == Larger(max_timer_period_us, min + period_margin) + 1
<1>2. min \in Nat /\ min > runtime /\ max \in Nat
  BY <1>1 DEF Larger
<1>3. period \in random_range(min, max)
  BY DEF random_timer_period
<1> HIDE DEF min, max
<1>4. period \in Int /\ period >= min
  BY <1>2, <1>3 DEF random_range
<1>5. QED
  BY <1>2, <1>4

LEMMA TimerCovers ==
  ASSUME NEW p, NEW total, RunsSummed(p, total), NEW n, Key("timer", n) \notin DOMAIN p,
         NEW ref, NEW period, period > total
  PROVE  TimersCover(Insert(p, Key("timer", n), [ref |-> ref, period |-> period]))
<1> DEFINE key   == Key("timer", n)
           value == [ref |-> ref, period |-> period]
           q     == Insert(p, key, value)
<1>1. value.period = period /\ key.type = "timer"
  BY DEF Key
<1>2. key \notin DOMAIN p /\ IsFiniteSet(DOMAIN p)
  BY DEF RunsSummed
<1> HIDE DEF key, value
<1>3. /\ DOMAIN q = DOMAIN p \cup {key} /\ q[key] = value
      /\ RunKeys(q) = RunKeys(p)
      /\ SumFunctionOnSet(q, RunKeys(p)) = SumFunctionOnSet(p, RunKeys(p))
  BY <1>1, <1>2, SumStays
<1> HIDE DEF q
<1>4. TimersCover(q)
  BY <1>1, <1>3 DEF TimersCover, RunsSummed
<1>5. QED
  BY <1>4 DEF q, key, value

LEMMA NoTimerCovers ==
  ASSUME NEW p, NEW total, RunsSummed(p, total)
  PROVE  TimersCover(p)
BY DEF TimersCover, RunsSummed

LEMMA EmptySummed == RunsSummed(EmptyMap, 0) /\ DOMAIN EmptyMap = {}
<1>1. DOMAIN EmptyMap = {} /\ RunKeys(EmptyMap) = {}
  BY DEF EmptyMap, RunKeys
<1>2. SumFunctionOnSet(EmptyMap, {}) = 0
  BY SumByPick, FS_EmptySet
<1>3. QED
  BY <1>1, <1>2, FS_EmptySet DEF RunsSummed

\* total_runtime is the sum of the runs written so far, and the timer of a
\* phase that is written covers it.
RunInv ==
  /\ gen_at = "add_phase_events" => RunsSummed(phase, total_runtime)
  /\ gen_at = "written" => TimersCover(phase)

\* The key of the next event is a new one.
LEMMA NextKeyIsNew ==
  ASSUME PairInv, gen_at = "add_phase_events", NEW ty, ty # "loop"
  PROVE  Key(ty, event_counter) \notin DOMAIN phase
BY DEF PairInv, Paired, Key

LEMMA RunsAreNat == random_run_duration \subseteq Nat
<1>1. min_run_us \in Nat /\ max_run_us \in Nat
  BY GeneratorAssumption
<1>2. QED
  BY <1>1 DEF random_run_duration, random_range

LEMMA RunsKept == PairInv /\ RunInv /\ [GenNext]_genVars => RunInv'
<1> SUFFICES ASSUME PairInv, RunInv, [GenNext]_genVars PROVE RunInv'
  OBVIOUS
<1>1. CASE NameThreads \/ generate_resources \/ generate_thread \/ generate_phases
           \/ write_phase \/ generate_global
  BY <1>1 DEF NameThreads, generate_resources, generate_thread, generate_phases, write_phase,
              generate_global, RunInv
<1>2. CASE add_simple_events
  <2>1. gen_at' = "written"
    BY <1>2 DEF add_simple_events
  <2>2. PICK run_us \in random_run_duration :
          \/ phase' = Insert(Insert(EmptyMap, Key("run", 0), run_us), Key("sleep", 0), Amount)
          \/ \E t \in timers, period \in random_timer_period(run_us) :
               phase' = Insert(Insert(EmptyMap, Key("run", 0), run_us), Key("timer", 0),
                               [ref |-> t, period |-> period])
    BY <1>2 DEF add_simple_events
  <2> DEFINE p == Insert(EmptyMap, Key("run", 0), run_us)
  <2>3. run_us \in Nat /\ 0 + run_us = run_us
    BY RunsAreNat
  <2>4. RunsSummed(p, run_us)
    BY <2>3, EmptySummed, RunSummed
  <2>5. DOMAIN p = {Key("run", 0)}
    BY EmptySummed DEF Insert
  <2>6. Key("sleep", 0) \notin DOMAIN p /\ Key("timer", 0) \notin DOMAIN p
    BY <2>5 DEF Key
  <2> HIDE DEF p
  <2>7. CASE phase' = Insert(p, Key("sleep", 0), Amount)
    <3>1. RunsSummed(phase', run_us)
      BY <2>4, <2>6, <2>7, OtherEventSummed
    <3>2. QED
      BY <2>1, <3>1, NoTimerCovers DEF RunInv
  <2>8. ASSUME NEW t \in timers, NEW period \in random_timer_period(run_us),
               phase' = Insert(p, Key("timer", 0), [ref |-> t, period |-> period])
        PROVE  RunInv'
    <3>1. period > run_us
      BY <2>3, PeriodIsLonger
    <3>2. TimersCover(phase')
      BY <2>4, <2>6, <2>8, <3>1, TimerCovers
    <3>3. QED
      BY <2>1, <3>2 DEF RunInv
  <2>9. QED
    BY <2>2, <2>7, <2>8 DEF p
<1>3. CASE generate_phase
  <2>1. /\ gen_at' = "add_phase_events" /\ total_runtime' = 0
        /\ \E v : phase' = Insert(EmptyMap, Key("loop", 0), v)
    BY <1>3 DEF generate_phase
  <2>2. RunsSummed(phase', total_runtime')
    BY <2>1, EmptySummed, OtherEventSummed
  <2>3. QED
    BY <2>1, <2>2 DEF RunInv
<1>4. CASE add_phase_event
  <2>1. gen_at = "add_phase_events" /\ gen_at' = "add_phase_events"
    BY <1>4 DEF add_phase_event
  <2>2. RunsSummed(phase, total_runtime)
    BY <2>1 DEF RunInv
  <2>3. PICK type :
          \/ /\ type \in {"run", "runtime"}
             /\ \E v \in random_run_duration :
                  /\ phase' = Insert(phase, Key(type, event_counter), v)
                  /\ total_runtime' = total_runtime + v
          \/ /\ type \in {"sleep", "mem", "yield", "lock", "unlock", "barrier"}
             /\ \E v : phase' = Insert(phase, Key(type, event_counter), v)
             /\ UNCHANGED total_runtime
    BY <1>4 DEF add_phase_event
  <2>4. Key(type, event_counter) \notin DOMAIN phase
    BY <2>1, <2>3, NextKeyIsNew
  <2>5. RunsSummed(phase', total_runtime')
    BY <2>2, <2>3, <2>4, RunsAreNat, RunSummed, OtherEventSummed
  <2>6. QED
    BY <2>1, <2>5 DEF RunInv
<1>5. CASE close_locks
  <2>1. /\ gen_at = "add_phase_events" /\ gen_at' = "add_phase_events"
        /\ phase' = Insert(phase, Key("unlock", event_counter), Last(held_locks))
        /\ total_runtime' = total_runtime
    BY <1>5 DEF close_locks
  <2>2. RunsSummed(phase', total_runtime')
    BY <2>1, NextKeyIsNew, OtherEventSummed DEF RunInv
  <2>3. QED
    BY <2>1, <2>2 DEF RunInv
<1>6. CASE add_timer
  <2>1. gen_at = "add_phase_events" /\ gen_at' = "written"
    BY <1>6 DEF add_timer
  <2>2. RunsSummed(phase, total_runtime) /\ total_runtime \in Nat
    BY <2>1 DEF RunInv, RunsSummed
  <2>3. CASE UNCHANGED phase
    BY <2>1, <2>2, <2>3, NoTimerCovers DEF RunInv
  <2>4. ASSUME NEW t \in timers, NEW period \in random_timer_period(total_runtime),
               phase' = Insert(phase, Key("timer", event_counter),
                               [ref |-> t, period |-> period])
        PROVE  RunInv'
    <3>1. period > total_runtime
      BY <2>2, PeriodIsLonger
    <3>2. TimersCover(phase')
      BY <2>1, <2>2, <2>4, <3>1, NextKeyIsNew, TimerCovers
    <3>3. QED
      BY <2>1, <3>2 DEF RunInv
  <2>5. QED
    BY <1>6, <2>3, <2>4 DEF add_timer
<1>7. CASE UNCHANGED genVars
  BY <1>7 DEF genVars, RunInv
<1>8. QED
  BY <1>1, <1>2, <1>3, <1>4, <1>5, <1>6, <1>7 DEF GenNext

----------------------------------------------------------------------------
(* The fuzzer with its generator *)

LEMMA PairInvHolds == FuzzingSpec => []PairInv
<1>1. FuzzingInit => PairInv
  BY DEF FuzzingInit, GenInit, PairInv
<1>2. PairInv /\ [FuzzingNext]_fuzzingVars => PairInv'
  <2> SUFFICES ASSUME PairInv, [FuzzingNext]_fuzzingVars PROVE PairInv'
    OBVIOUS
  <2>1. CASE [GenNext]_genVars
    BY <2>1, GeneratorKeeps
  <2>2. CASE RunWorkload
    BY <2>2 DEF RunWorkload, PairInv, phaseVars
  <2>3. QED
    BY <2>1, <2>2 DEF FuzzingNext, GenerateStep, FuzzStep, EnvironmentStep, FuzzingEnded,
                      fuzzingVars
<1>3. QED
  BY <1>1, <1>2, PTL DEF FuzzingSpec

\* Every phase the generator writes pairs its locks: of any number of threads,
\* phases and events, with any number of mutexes.
THEOREM LocksPaired == FuzzingSpec => []LocksArePaired
<1>1. PairInv => LocksArePaired
  <2> SUFFICES ASSUME PairInv, gen_at = "written", NEW m \in mutexes
               PROVE  /\ Cardinality(Of("lock", m)) = Cardinality(Of("unlock", m))
                      /\ \A u \in Of("unlock", m) :
                           Cardinality({k \in Of("lock", m) : k.number < u.number})
                             > Cardinality({k \in Of("unlock", m) : k.number < u.number})
    BY DEF LocksArePaired
  <2>1. PICK n \in Nat : Paired(phase, <<>>, n, mutexes)
    BY DEF PairInv
  <2>2. /\ Of("lock", m) = OfIn(phase, "lock", m)
        /\ Of("unlock", m) = OfIn(phase, "unlock", m)
    BY DEF Of, KeysOf, OfIn
  <2>3. Cardinality(HeldIn(<<>>, m)) = 0
    <3>1. HeldIn(<<>>, m) = {}
      BY DEF HeldIn
    <3>2. QED
      BY <3>1, FS_EmptySet, Zenon
  <2>4. Cardinality(OfIn(phase, "unlock", m)) \in Nat
    BY <2>1, KeysFinite DEF Paired
  <2>5. Cardinality(Of("lock", m)) = Cardinality(Of("unlock", m))
    BY <2>1, <2>2, <2>3, <2>4 DEF Paired, Balance
  <2>6. QED
    BY <2>1, <2>2, <2>5 DEF Paired, InOrder, Below
<1>2. QED
  BY <1>1, PairInvHolds, PTL

LEMMA RunInvHolds == FuzzingSpec => []RunInv
<1>1. FuzzingInit => RunInv
  BY DEF FuzzingInit, GenInit, RunInv
<1>2. PairInv /\ RunInv /\ [FuzzingNext]_fuzzingVars => RunInv'
  <2> SUFFICES ASSUME PairInv, RunInv, [FuzzingNext]_fuzzingVars PROVE RunInv'
    OBVIOUS
  <2>1. CASE [GenNext]_genVars
    BY <2>1, RunsKept
  <2>2. CASE RunWorkload
    BY <2>2 DEF RunWorkload, RunInv
  <2>3. QED
    BY <2>1, <2>2 DEF FuzzingNext, GenerateStep, FuzzStep, EnvironmentStep, FuzzingEnded,
                      fuzzingVars
<1>3. QED
  BY <1>1, <1>2, PairInvHolds, PTL DEF FuzzingSpec

\* Whatever the rolls are, the timer of a phase that is written has a longer
\* period than all the runs of the phase together.
THEOREM PeriodsCoverRuns == FuzzingSpec => []PeriodCoversRuns
<1>1. RunInv => PeriodCoversRuns
  <2>1. KeysOf("run") \cup KeysOf("runtime") = RunKeys(phase)
    BY DEF KeysOf, RunKeys
  <2>2. QED
    BY <2>1 DEF RunInv, TimersCover, PeriodCoversRuns, KeysOf
<1>2. QED
  BY <1>1, RunInvHolds, PTL

\* With its generator the fuzzer is still the fuzzer that takes any workload
\* of a duration it knows.
THEOREM FuzzingImplementsFuzzer == FuzzingSpec => FuzzSpec
<1>1. FuzzingInit => FuzzInit
  BY DEF FuzzingInit
<1>2. PairInv /\ [FuzzingNext]_fuzzingVars => [FuzzNext]_fuzzVars
  <2> SUFFICES ASSUME PairInv, [FuzzingNext]_fuzzingVars PROVE [FuzzNext]_fuzzVars
    OBVIOUS
  <2>1. CASE RunWorkload
    BY <2>1 DEF RunWorkload, PairInv, FuzzNext, Fuzz
  <2>2. CASE FuzzStep
    BY <2>2 DEF FuzzStep, FuzzNext, Fuzz
  <2>3. CASE EnvironmentStep \/ FuzzingEnded
    BY <2>3 DEF EnvironmentStep, FuzzingEnded, FuzzNext
  <2>4. CASE GenerateStep \/ UNCHANGED fuzzingVars
    BY <2>4 DEF GenerateStep, fuzzingVars
  <2>5. QED
    BY <2>1, <2>2, <2>3, <2>4 DEF FuzzingNext
<1>3. QED
  BY <1>1, <1>2, PairInvHolds, PTL DEF FuzzingSpec, FuzzSpec

\* What was shown of the fuzzer alone holds of the one that is run.
THEOREM FuzzingKeepsPromises ==
  FuzzingSpec => [](NoChildLeft /\ ExitTellsDivergence /\ SuccessNeedsBoth)
BY FuzzingImplementsFuzzer, ChildrenAreReaped, ExitCodeTells, SuccessesAgree, PTL

============================================================================
