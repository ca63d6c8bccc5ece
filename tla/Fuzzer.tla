------------------------------- MODULE Fuzzer ------------------------------
(***************************************************************************)
(* The differential fuzzer: main of bug_finding/src/main.rs and the runner *)
(* of bug_finding/src/runner.rs.  It builds the C program, and in every    *)
(* iteration runs a workload through the C program and then through the    *)
(* Rust one.  A child is a process of its own: it may end, be killed by a  *)
(* signal, hang, or block on a full pipe, at any time, while the fuzzer    *)
(* polls it, and leave processes behind that hold its pipes open.  Time is *)
(* counted in polls.                                                       *)
(***************************************************************************)
EXTENDS Comparator, FiniteSets

CONSTANTS
  Iterations,    \* --iterations
  Durations,     \* the durations a workload may have, in polls
  ExitCodes,     \* the exit codes of a child
  MinTimeout     \* min_timeout_secs, in polls

ASSUME FuzzerAssumption ==
  /\ Iterations \in Nat /\ MinTimeout \in Nat
  /\ Durations \subseteq Nat /\ ExitCodes \subseteq Int

VARIABLES
  at,            \* the statement main is at
  files,         \* what exists of the submodule and of its build
  keep_failures, \* --keep-failures
  iteration,     \* i of the loop
  duration_secs, \* extract_duration
  child,         \* the processes of this iteration
  holders,       \* those that left a process behind which holds their pipes
  elapsed,       \* polls since the child under way was started
  result,        \* c_result and rs_result
  stats,         \* FuzzStats
  saved,         \* the iterations that failures/ has a file of
  exit_code,     \* the exit code of the fuzzer
  diverged       \* history: the iterations found divergent

fuzzVars == <<at, files, keep_failures, iteration, duration_secs, child, holders,
              elapsed, result, stats, saved, exit_code, diverged>>

Impl == {"c", "rs"}

\* A process that was not started, runs, is blocked by a full pipe, is a
\* zombie with its exit code, or has been waited for.
NoChild  == [state |-> "none", code |-> NoCode]
Alive(p) == p.state \in {"running", "blocked"}

NoChildren == [i \in Impl |-> NoChild]
NoResults  == [i \in Impl |-> unavailable]

calculate_timeout ==
  IF 2 * duration_secs > MinTimeout THEN 2 * duration_secs ELSE MinTimeout

FuzzInit ==
  /\ \/ at = "build" /\ files \in SUBSET {"submodule", "configure", "Makefile"}
     \/ at = "check" /\ files \in SUBSET {"rt-app"}
  /\ keep_failures \in BOOLEAN
  /\ iteration = 0 /\ duration_secs = 0
  /\ child = NoChildren /\ holders = {} /\ elapsed = 0 /\ result = NoResults
  /\ stats = [total |-> 0, consistent |-> 0, divergent |-> 0,
              c_failures |-> 0, rs_failures |-> 0]
  /\ saved = {} /\ exit_code = NoCode /\ diverged = {}

Exit(code) == at' = "exited" /\ exit_code' = code
Panic      == Exit(101)

runVars  == <<iteration, duration_secs, child, holders, elapsed, result>>
tallyVars == <<keep_failures, stats, saved, diverged>>

----------------------------------------------------------------------------
(* Startup *)

\* A command of the build ends well and makes its file, fails, or cannot be
\* started (expect).
RunTool(file, next) ==
  \/ files' = files \cup {file} /\ at' = next /\ UNCHANGED exit_code
  \/ Exit(1) /\ UNCHANGED files
  \/ Panic /\ UNCHANGED files

\* autogen.sh, configure or make runs, and the fuzzer waits for it.
AwaitsTool ==
  \/ at = "build" /\ {"submodule", "configure"} \cap files = {"submodule"}
  \/ at = "configure" /\ "Makefile" \notin files
  \/ at = "make"

build_c_rtapp ==
  /\ \/ at = "build" /\ "submodule" \notin files /\ Exit(1) /\ UNCHANGED files
     \/ at = "build" /\ "submodule" \in files
        /\ IF "configure" \in files
           THEN at' = "configure" /\ UNCHANGED <<files, exit_code>>
           ELSE RunTool("configure", "configure")
     \/ at = "configure"
        /\ IF "Makefile" \in files
           THEN at' = "make" /\ UNCHANGED <<files, exit_code>>
           ELSE RunTool("Makefile", "make")
     \/ at = "make" /\ RunTool("rt-app", "check")
  /\ UNCHANGED runVars /\ UNCHANGED tallyVars

\* The directory for the failures may not be creatable.
CheckAvailable ==
  /\ at = "check"
  /\ \/ "rt-app" \notin files /\ Exit(1)
     \/ "rt-app" \in files /\ at' = "loop" /\ UNCHANGED exit_code
     \/ "rt-app" \in files /\ keep_failures /\ Panic
  /\ UNCHANGED files /\ UNCHANGED runVars /\ UNCHANGED tallyVars

----------------------------------------------------------------------------
(* An iteration *)

\* generate, serialised, with its timeout; the file it is written to may
\* not be creatable.
Generated(secs) ==
  /\ at = "loop" /\ iteration < Iterations
  /\ duration_secs' = secs
  /\ \/ at' = "start_c" /\ UNCHANGED exit_code
     \/ Panic
  /\ UNCHANGED <<files, iteration, child, holders, elapsed, result>>
  /\ UNCHANGED tallyVars

Started(i, next) ==
  /\ child' = [child EXCEPT ![i] = [state |-> "running", code |-> NoCode]]
  /\ elapsed' = 0
  /\ at' = next
  /\ UNCHANGED result

\* The C program may be gone, or be there and not start.
StartC ==
  /\ at = "start_c"
  /\ \/ "rt-app" \in files /\ Started("c", "wait_c")
     \/ /\ result' = [result EXCEPT !["c"] = unavailable]
        /\ at' = "start_rs"
        /\ UNCHANGED <<child, elapsed>>
  /\ UNCHANGED <<files, iteration, duration_secs, holders, exit_code>>
  /\ UNCHANGED tallyVars

\* cargo is taken to be available even if it does not start.
StartRs ==
  /\ at = "start_rs"
  /\ \/ Started("rs", "wait_rs")
     \/ /\ result' = [result EXCEPT !["rs"] = from_output(NoCode, 0)]
        /\ at' = "compare"
        /\ UNCHANGED <<child, elapsed>>
  /\ UNCHANGED <<files, iteration, duration_secs, holders, exit_code>>
  /\ UNCHANGED tallyVars

WaitAt(i) == IF i = "c" THEN "wait_c" ELSE "wait_rs"
LookAt(i) == IF i = "c" THEN "look_c" ELSE "look_rs"
KillAt(i) == IF i = "c" THEN "kill_c" ELSE "kill_rs"
ReadAt(i) == IF i = "c" THEN "read_c" ELSE "read_rs"
NextAt(i) == IF i = "c" THEN "start_rs" ELSE "compare"

\* try_wait reaps a child that has exited, finds it still running, or fails.
\* A process that an exited child has started may live on, with its pipes.
TryWait(i) ==
  /\ at = WaitAt(i)
  /\ \/ /\ child[i].state = "exited"
        /\ child' = [child EXCEPT ![i].state = "reaped"]
        /\ holders' \in {{}, {i}}
        /\ at' = ReadAt(i)
     \/ /\ child[i].state # "exited"
        /\ at' = LookAt(i)
        /\ UNCHANGED <<child, holders>>
     \/ /\ at' = KillAt(i)
        /\ UNCHANGED <<child, holders>>
  /\ UNCHANGED <<files, iteration, duration_secs, elapsed, result, exit_code>>
  /\ UNCHANGED tallyVars

\* Somebody else holds the pipes that are read.
AwaitsPipes == \E i \in Impl : at = ReadAt(i) /\ i \in holders

\* Both pipes are read to their end, which comes when nobody holds them any
\* more; the wall time is taken after it.  Bound: the end is late by at most
\* one poll.
ReadOutput(i) ==
  /\ at = ReadAt(i) /\ i \notin holders
  /\ \E late \in 0..1 :
       result' = [result EXCEPT ![i] = from_output(child[i].code, elapsed + late)]
  /\ at' = NextAt(i)
  /\ UNCHANGED <<files, iteration, duration_secs, child, holders, elapsed, exit_code>>
  /\ UNCHANGED tallyVars

\* Mutant: the poll sleeps without a look at the clock.
LookNever(i) ==
  /\ at = LookAt(i)
  /\ at' = WaitAt(i)
  /\ elapsed' = IF elapsed < calculate_timeout THEN elapsed + 1 ELSE elapsed
  /\ UNCHANGED <<files, iteration, duration_secs, child, holders, result, exit_code>>
  /\ UNCHANGED tallyVars

\* The child was running: the time is up, or the fuzzer sleeps for a poll.
Look(i) ==
  /\ at = LookAt(i)
  /\ IF elapsed >= calculate_timeout
     THEN at' = KillAt(i) /\ UNCHANGED elapsed
     ELSE at' = WaitAt(i) /\ elapsed' = elapsed + 1
  /\ UNCHANGED <<files, iteration, duration_secs, child, holders, result, exit_code>>
  /\ UNCHANGED tallyVars

\* Mutant: the child is not killed.
KillNot(i) ==
  /\ at = KillAt(i)
  /\ result' = [result EXCEPT ![i] = timed_out(elapsed)]
  /\ at' = NextAt(i)
  /\ UNCHANGED <<files, iteration, duration_secs, child, holders, elapsed, exit_code>>
  /\ UNCHANGED tallyVars

\* kill and wait; a child that has exited in the meantime is only waited for.
Kill(i) ==
  /\ at = KillAt(i)
  /\ child' = [child EXCEPT ![i].state = "reaped"]
  /\ result' = [result EXCEPT ![i] = timed_out(elapsed)]
  /\ at' = NextAt(i)
  /\ UNCHANGED <<files, iteration, duration_secs, holders, elapsed, exit_code>>
  /\ UNCHANGED tallyVars

Outcome == compare(result["c"], result["rs"])

Count(b) == IF b THEN 1 ELSE 0

\* record_outcome panics when the C program was not available; otherwise the
\* locals of the iteration end, and a divergent workload is saved, unless the
\* file cannot be written.
Record ==
  /\ at = "compare"
  /\ IF Outcome = "CNotAvailable"
     THEN /\ stats' = [stats EXCEPT !.total = @ + 1]
          /\ Panic
          /\ UNCHANGED <<saved, diverged>> /\ UNCHANGED runVars
     ELSE /\ stats' = [total |-> stats.total + 1,
                       consistent |-> stats.consistent + Count(Outcome = "Consistent"),
                       divergent |-> stats.divergent + Count(Outcome = "Divergent"),
                       c_failures |-> stats.c_failures + Count(failed(result["c"])),
                       rs_failures |-> stats.rs_failures + Count(failed(result["rs"]))]
          /\ diverged' = diverged \cup {i \in {iteration} : Outcome = "Divergent"}
          /\ \/ saved' = saved \cup {i \in {iteration} :
                                       keep_failures /\ Outcome = "Divergent"}
             \/ UNCHANGED saved
          /\ iteration' = iteration + 1
          /\ duration_secs' = 0 /\ elapsed' = 0
          /\ child' = NoChildren /\ result' = NoResults
          /\ at' = "loop"
          /\ UNCHANGED exit_code
  /\ UNCHANGED <<files, holders, keep_failures>>

\* Mutant: the exit code is that of the last iteration.
FinishByLast ==
  /\ at = "loop" /\ iteration = Iterations
  /\ Exit(IF iteration - 1 \in diverged THEN 1 ELSE 0)
  /\ UNCHANGED files /\ UNCHANGED runVars /\ UNCHANGED tallyVars

Finish ==
  /\ at = "loop" /\ iteration = Iterations
  /\ Exit(IF stats.divergent > 0 THEN 1 ELSE 0)
  /\ UNCHANGED files /\ UNCHANGED runVars /\ UNCHANGED tallyVars

----------------------------------------------------------------------------
(* The children and whoever else uses the tree *)

\* A child ends with a code or by a signal of its own.
ChildExits(i) ==
  /\ child[i].state = "running"
  /\ \E code \in ExitCodes \cup {NoCode} :
       child' = [child EXCEPT ![i] = [state |-> "exited", code |-> code]]
  /\ UNCHANGED <<at, files, iteration, duration_secs, holders, elapsed, result, exit_code>>
  /\ UNCHANGED tallyVars

\* The process that a child left behind ends, or closes the pipes.
PipesClose(i) ==
  /\ i \in holders
  /\ holders' = holders \ {i}
  /\ UNCHANGED <<at, files, iteration, duration_secs, child, elapsed, result, exit_code>>
  /\ UNCHANGED tallyVars

\* The pipes are read only after the exit: a child that writes more than they
\* hold waits for a reader that waits for it.
PipeFills(i) ==
  /\ child[i].state = "running"
  /\ child' = [child EXCEPT ![i].state = "blocked"]
  /\ UNCHANGED <<at, files, iteration, duration_secs, holders, elapsed, result, exit_code>>
  /\ UNCHANGED tallyVars

\* The C program is removed, by a build under way for instance.  It may be
\* at any time; the fuzzer looks at it again when it is about to start it.
BinaryVanishes ==
  /\ at = "start_c"
  /\ "rt-app" \in files
  /\ files' = files \ {"rt-app"}
  /\ UNCHANGED <<at, exit_code>> /\ UNCHANGED runVars /\ UNCHANGED tallyVars

----------------------------------------------------------------------------

Fuzz ==
  \/ build_c_rtapp \/ CheckAvailable
  \/ \E secs \in Durations : Generated(secs)
  \/ StartC \/ StartRs
  \/ \E i \in Impl : TryWait(i) \/ ReadOutput(i) \/ Look(i) \/ Kill(i)
  \/ Record \/ Finish

Others ==
  BinaryVanishes \/ \E i \in Impl : ChildExits(i) \/ PipesClose(i) \/ PipeFills(i)

Terminated == at = "exited" /\ UNCHANGED fuzzVars

FuzzNext == Fuzz \/ Others \/ Terminated

FuzzSpec == FuzzInit /\ [][FuzzNext]_fuzzVars

----------------------------------------------------------------------------
(* Properties *)

FuzzTypeOK ==
  /\ at \in {"build", "configure", "make", "check", "loop", "start_c", "wait_c",
             "look_c", "kill_c", "read_c", "start_rs", "wait_rs", "look_rs", "kill_rs",
             "read_rs", "compare", "exited"}
  /\ keep_failures \in BOOLEAN
  /\ iteration \in 0 .. Iterations
  /\ child \in [Impl -> [state : {"none", "running", "blocked", "exited", "reaped"},
                         code : Int \cup {NoCode}]]
  /\ holders \subseteq Impl
  /\ elapsed \in Nat /\ duration_secs \in Nat
  /\ result \in [Impl -> RunResult]
  /\ stats \in [total : Nat, consistent : Nat, divergent : Nat,
                c_failures : Nat, rs_failures : Nat]
  /\ diverged \in SUBSET (0 .. Iterations) /\ saved \in SUBSET (0 .. Iterations)

\* Whenever the fuzzer is not busy with a child, that child neither runs nor
\* is a zombie: also after a timeout, a signal and a panic.
NoChildLeft ==
  \A i \in Impl :
    at \notin {WaitAt(i), LookAt(i), KillAt(i)} =>
      child[i].state \in {"none", "reaped"}

\* A run that ended well is never found consistent with one that did not,
\* unless the wait for one of them was given up: what compare sees is what the
\* two processes did.
SuccessNeedsBoth ==
  at = "compare" /\ Outcome = "Consistent" =>
    \/ \A i \in Impl : result[i].timed_out
    \/ (child["c"].code = 0) <=> (child["rs"].code = 0)

\* The exit code tells what was found: 0 after all iterations without a
\* divergence, 1 after a divergence or before the first iteration; and every
\* iteration that is counted is either consistent or divergent.
ExitTellsDivergence ==
  /\ stats.total = iteration + Count(exit_code = 101 /\ stats.total > iteration)
  /\ stats.divergent = Cardinality(diverged)
  /\ stats.consistent + stats.divergent = iteration
  /\ exit_code = 0 => iteration = Iterations /\ diverged = {}
  /\ exit_code = 1 => diverged # {} \/ iteration = 0
  /\ saved \subseteq diverged

\* The fuzzer ends, whether its children end, hang or block, with two
\* exceptions, for which it has no timeout: a tool of the build that does not
\* return (Command::status), and a process that a child has left behind and
\* that keeps the pipes of the child open (read_to_end).
FuzzerEnds == <>[](at = "exited" \/ AwaitsTool \/ AwaitsPipes)
============================================================================
