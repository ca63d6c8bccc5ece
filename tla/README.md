# A TLA+ model of rt-app-rs

rt-app-rs reads a description of a synthetic real-time workload (JSON or YAML), spawns one thread per task
instance, lets each thread run its phases of events on shared mutexes, condition variables, barriers and timers,
and logs what it measured. A second program, in `bug_finding/`, runs generated workloads through the C original and
through this port and compares what they do. This directory models both: what the command line and the parser make
of a configuration, how a run starts and ends, how the threads meet in their events, how timers, scheduling
parameters, taskgroups and the CPU calibration work, and how the fuzzer generates, runs and compares. TLC checks each module on small instances, and TLAPS proves the most important results for
every value of the constants.

All paths to sources below are relative to the root of the repository; `engine/x.rs`, `config/x.rs` and `x.rs`
stand for `src/engine/x.rs`, `src/config/x.rs` and `src/x.rs`, `fuzzer/x.rs` for `bug_finding/src/x.rs`, and `tutorial.md` for `doc/tutorial.md`.

Contents: [1 inventory](#1-inventory), [2 modules](#2-modules), [3 runs](#3-runs-bounds-and-fairness),
[4 proofs](#4-proofs), [5 departures](#5-where-the-code-departs-from-its-documentation),
[6 what is not modelled](#6-what-is-not-modelled), [7 plan](#7-plan).

## 1 Inventory

### Application lifecycle: `main.rs`, `engine/mod.rs`

* *State*: the shared `EngineState` (`continue_running`, `thread_failed`, `running_threads`, `t_zero_ns`), the
  static `SHUTDOWN_REQUESTED`, the startup barrier, the handles of the threads, the exit code.
* *Operations*: `spawn_threads`, `wait_for_completion`, `shutdown` and the exit in the main thread; `thread_body`
  in each worker; the signal handler and the monitor thread.
* *Interactions*: the main thread and every worker meet at the startup barrier; workers, monitor and main all
  write `continue_running`; `shutdown` joins the workers in the order in which they were made.
* *Hard*: who stops the run and whether everybody notices; a thread that cannot be created, cannot set its
  scheduling or panics; the time reference that thread 0 takes for all; the exit code.
* *Right if*: every thread starts from one time reference, nobody is stopped without a cause, nothing is dropped
  before the stop, the process ends only when all threads have, its exit code tells failures apart, and the
  duration or a stop ends it unless a thread is held for ever in an event of a phase.

### Phase loop: `engine/mod.rs` (`run_phase_loop`, `advance_phase_loop`)

* *State*: `phase_idx`, `phase_loop`, `thread_loop` of each thread: two nested counters of type `i32`.
* *Operations*: run the phase at `phase_idx`, advance, leave.
* *Hard*: resets at the boundaries; counters that wrap; -1 for "for ever".
* *Right if*: a counted task runs each phase `loop * phase loop` times and ends; an endless one stays.

### Event execution: `engine/events.rs`

* *State*: the mutexes, condition variables with their sleepers, `BarrierState::waiting`, and in each thread its
  event and `lock_depth`.
* *Operations*: `run_phase` and `run_event` with lock, unlock, wait, signal, broadcast, sync, barrier, suspend,
  resume; the events that only take time; fork, which does nothing.
* *Interactions*: all threads share the handles; `continue_running` is read twice for every event, and a stop
  between the two reads makes the event a dry run.
* *Hard*: lost and spurious wakeups, the count of a barrier, a mutex that is locked twice, a stop at any point.
* *Right if*: a resume misses no sleeper, what is missing from a barrier's count is exactly its sleepers and those it lost, and a stop ends
  everything that is not asleep or blocked.

### Timers: `engine/events.rs` (`run_event_timer`)

* *State*: `TimerState` (`initialized`, `next_ns`) behind a mutex, and the latency each thread adds up.
* *Hard*: the mutex is released during the sleep, and other users move `next_ns` on; exact deadlines; late starts.
* *Right if*: nobody returns before the deadline, the reference never moves back, the latency logged is a lower
  bound of the true one.

### Timing log: `engine/timing.rs`

* *State*: a circular buffer with `write_idx` and `wrapped`. *Operations*: `push`, `iter_chronological`, `flush_to`.
* *Interactions*: the phase loop pushes a point after each phase, and `thread_body` flushes when the loop is left.
* *Right if*: the log of a thread is its last `capacity` runs, each once and in order.

### Startup, the global section and the command line: `main.rs`, `args.rs`, `config/mod.rs`, `config/global.rs`, `conversions.rs`

* *State*: the place of `main`, the parsed configuration, `AppOptions`, the exit code.
* *Operations*: parse the arguments, read the text, parse it as JSON, as YAML, or as one after the other, read the
  global section with its defaults, check that there is a task, calibrate, make the handles and their buffers.
* *Interactions*: the options decide about the calibration and about the capacity of the logs; `mem_buffer_size` is
  the length of the buffer that the loops of `mem` and `iorun` events work through; workers inherit the affinity of `main`.
* *Hard*: which of several things is wrong decides about the exit code; sizes are shifted, divided and cut.
* *Right if*: the exit code tells whether the configuration, its emptiness or the machine is to blame where one is given, no work begins on
  what was refused, logging is off only if that was asked for, and the loop over a buffer ends.

### Preprocessing: `config/mod.rs`

* *State*: none outside of a call; three passes over the text (`strip_comments`, `strip_trailing_commas`,
  `deduplicate_keys`).
* *Hard*: each pass has to recognise strings and what the pass before it has left; a number given to a repeated key
  may clash with a key of the object.
* *Right if*: only comments and trailing commas disappear, the keys of each object become distinct, and a renamed
  key still begins with the name of its event.

### Configuration to workload: `config/tasks.rs`, `config/resources.rs`, `conversions.rs`, `main.rs`

* *State*: the resource table and its index map, the parsed tasks and events, the resource handles, the threads.
* *Operations*: declare a resource, parse a task, a phase, an event, build the handles, spawn the instances.
* *Interactions*: indices go from the table into the events and from there to the handles that the engine uses; a
  handle of the wrong kind makes `run_event` skip the event without a word.
* *Right if*: every event finds a handle of its kind, two events share a handle exactly when they name the same
  resource, and a barrier is built for as many arrivals as there will be.

### Scheduling parameters: `config/tasks.rs` (`parse_sched`), `conversions.rs`, `engine/scheduling.rs`

* *State*: `SchedData` of the task and its phases, what the kernel has for the thread, whether pages are locked.
* *Operations*: parse and refuse, `set_thread_param` with up to two system calls, lock pages, reset at the end.
* *Right if*: a thread is scheduled as its task states, in a phase with parameters of its own as that phase states, and the second
  system call undoes nothing. The code does not do the second of these: nothing applies the parameters of a phase.

### Calibration and load: `engine/calibration.rs`, `main.rs` (`run_calibration`), `engine/events.rs` (`memload`, `ioload`)

* *State*: the affinity of the main thread, the running average of a method, `ns_per_loop`.
* *Operations*: pin, trials of two methods, restore; `loadwait` burns an execution time in bursts of a second; `mem` and
  `iorun` events take their bytes in chunks of their buffer.
* *Right if*: the affinity comes back, a quiet machine is calibrated, and a run event takes the time it asks for.

### Taskgroups: `taskgroups.rs`

* *State*: cgroup directories, which other processes use too, and one offset for each taskgroup.
* *Operations*: allocate, initialise, `add_cgroups` (one `mkdir` at a time), attach, reset, `remove_cgroups`.
* *Right if*: what was there before is never removed, and what was made is.

### Differential fuzzer: `fuzzer/main.rs`, `fuzzer/generator.rs`, `fuzzer/runner.rs`, `fuzzer/comparator.rs`

* *State*: what is built of the C program; the workload under construction with its held locks and its event counter; the
  process under way and when it was started; the two results; the counters, the failures saved, the exit code.
* *Operations*: `build_c_rtapp`, `generate` down to `add_phase_events`, `run_c`, `run_rs`, `run_with_timeout` with its polls
  and its kill, `compare`, `record_outcome`, the end.
* *Interactions*: the two programs are processes of their own; they end, are killed, hang, or block on a full pipe that is read
  only after they have ended. The C program may vanish between two iterations.
* *Hard*: a child that ends while its timeout expires, or leaves a process behind that holds its pipes; a result that is not there; keys of a phase that overwrite each other;
  the period of a timer against the runs of its phase.
* *Right if*: no child is left behind, two runs that were waited for are consistent only if both or neither ended well, the exit
  code tells a divergence from none, every lock of a generated phase is unlocked, and the fuzzer ends whether its children end, hang or block. Two things it waits for
  without a timeout: the tools of the build, and the end of the pipes of a child that has exited.

### Without a model

`affinity.rs`, `gnuplot.rs`, `syscalls.rs`, `utils.rs`, `lib.rs`; see section 6. The hazards of all components, each with its line and the properties that would
catch it going wrong, are listed in `PROJECT.json`.

## 2 Modules

```
 Startup = GlobalSection <- Calibration, Preprocess, MemLoad         from the command line to the first load
 Workload    Scheduling    Taskgroups                                the tasks of a configuration and its surroundings

 AppContract <--implements-- Lifecycle --+
                             (PhaseCursor) +--> Engine = both        a run
                             Events -------+    (implements each)
 WorkerLog = PhaseLoop (PhaseCursor) + TimingBuffer    Timer         inside of a thread
 TimingLog <--implements-- TimingBuffer

 Fuzzing = Fuzzer (Comparator) + Generator                           the tool beside the program
```

| module | models | correspondence |
|---|---|---|
| `AppContract` | what a run promises to its user | abstract: launched together, ends after a stop when all have left, exit code 1 iff a thread failed or none was launched |
| `PhaseCursor` | `advance_phase_loop` | pure operators; counters are integers modulo the width `MaxInt`, as an `i32` wraps in a release build |
| `PhaseLoop` | `run_phase_loop` of one thread | `runs` is a history variable: how often each phase has been run |
| `Lifecycle` | `run`, `spawn_threads`, `wait_for_completion`, `shutdown`, `thread_body`, the monitor | `main` and `pc` are places between two accesses to shared state; one action per access; a poll is one tick of `elapsed`; `BetweenPhases` is what a worker does of itself, without the return from a phase |
| `Events` | `run_phase`, `run_event`, the handlers | `place` is where a thread is in its event; `owner`, `asleep` and `waiting` are mutexes, condition variables and barriers; `lost` is a history variable: how many sleepers a barrier has lost to spurious wakeups since it last opened |
| `Engine` | `run_phase_loop` calling `run_phase` | the conjunction of the actions of `Lifecycle` and `Events` that are one step of the program |
| `Timer` | `run_event_timer` | `due` and `true_latency` are history variables: what the thread was promised, and how late it was |
| `TimingLog`, `TimingBuffer` | `CircularTimingBuffer` | the detailed module has the code's slots and index, the abstract one a sequence |
| `WorkerLog` | `thread_body` with its log | a run of a phase and the push of its point are one action; a point is the number of its run |
| `GlobalSection` | the section `global`, `AppOptions`, `log_capacity_from_config` | pure operators over sections, which are functions from the keys that are stated to values |
| `MemLoad` | the loops of `memload` and `ioload` | one action per chunk |
| `Startup` | `main` and `run` up to the engine, `parse_config` with its formats | `at` is the statement of `main`; an invocation is what the program is started with |
| `Preprocess` | `preprocess_json` | a document is a sequence of tokens; each pass is a fold over its characters, whose look-ahead is a mode |
| `Workload` | the parser of resources and tasks, `BarrierCounter`, `build_resource_handles`, the spawn loop | one action per entry, task, phase, event; names are sequences so that a tagged name can collide with one that is written |
| `Numerals` | `format!` of a number, with `{}` or `{:x}` | a recursive function over an alphabet of digits, which `Workload` uses for the tags and `Preprocess` for the suffixes |
| `Scheduling` | `parse_sched` to `sched_setattr` | `kernel` is what the kernel has for the thread; `sched_setattr` is modelled from its manual page (external) |
| `Calibration` | `run_calibration`, `calibrate_loop`, `loadwait` | a turn of the busy loop takes `base` to `base + noise` ns on a machine, whatever the number of turns |
| `Taskgroups` | `TaskgroupController` | `dirs` is the kernel's tree; other processes make and remove directories between any two system calls |
| `Generator` | `WorkloadGenerator` | one action per function, and one per event of a phase; a roll is a choice; what nothing reads again is not kept |
| `Comparator` | `RunResult`, `compare` | pure operators; the test of the ratio is multiplied out |
| `Fuzzer` | `main`, `build_c_rtapp`, the runner, `record_outcome` | a child is a process with a state of its own; `holders` are the processes left behind that keep the pipes of a child open; time is counted in polls; `diverged` is a history variable |
| `Fuzzing` | an iteration with its workload | the steps of `Generator` come at the head of an iteration of `Fuzzer` |

Each `MC*` module gives the instances for TLC; each `*Proofs` module holds the theorems of one module or of
several (`LifecycleProofs` also of `Engine`, `TimingProofs` of `WorkerLog` and `Timer`, `ConfigProofs` of `Workload` and
`Scheduling`, `StartupProofs` of `Startup` with `Preprocess`), and `FoldTheorems` the lemmas on sums, left folds and sequences that
`ConfigProofs`, `FuzzerProofs` and `StartupProofs` share. Every
operator whose comment starts with "Mutant" is a plausible bug in the definition below it; it is used nowhere, and
is there to show that a property would notice: `PROJECT.json` says which property notices which.

Actions are whole handlers up to the next access to state that another thread can change. For example
`spawn_threads` counts the threads, creates them one by one (`SpawnThread`, or `SpawnFails`), goes to the barrier
(`SpawnEnds`) and publishes the count (`MainPasses`); a barrier event is one critical section, either
`BarrierOpens` or `BarrierSleeps`; a sync event is three steps, `SigAndWait`, `TakeMutex`, `Sleep`, because the code
notifies before it locks (`engine/events.rs:388`).

The flags of the engine are stored with `SeqCst` and loaded with `Relaxed`; the models read them as sequentially
consistent. For `continue_running` and `SHUTDOWN_REQUESTED` that loses nothing: each changes once, no data is
published through it, and a load that still sees the old value is the same as an earlier load.
`running_threads` is used by the main thread alone, `t_zero_ns` is behind a mutex and ordered by the startup barrier,
and main reads `thread_failed` after it has joined the thread that wrote it.

## 3 Runs, bounds and fairness

Run one with `tlc -config MCEvents.cfg MCEvents`. The runs are small: the longest, `startup`, takes a good minute.

| run | instance | what it shows |
|---|---|---|
| `lifecycle` | 3 threads: a counted task of two phases, an endless one, one without a phase (which panics); a duration of two polls; signals, failures of creation and of scheduling at any point | `TimeReferenceShared`; `StopHasCause`; `ExitCodeHonest`; the lifecycle implements `AppContract`; `DurationEnds`: with a duration the process ends, also when a thread has panicked, unless one does not come back from a phase |
| `phase_loop` | every task of up to three phases with phase loops 1 to 3 and thread loops 0 to 3, and the endless ones, with counters that wrap at 3; a log of three slots, which fills exactly and wraps many times; a stop at any point | `RunsAsConfigured`, `EndlessThreadStays`, `LogShowsLastRuns`, `CountedTaskEnds` (with its log flushed), and the buffer implements `TimingLog` |
| `events` | 3 threads, two mutexes, two condition variables, a barrier of two; suspend, resume, sync, wait, signal, broadcast, lock and unlock; spurious wakeups; a stop at any point | `BarrierAccounting`, `ResumeMissesNobody`, `StopCutsShort`, `StopReachesAwake` |
| `events_barrier` | two threads and a barrier of two users | a violation of `LastUserBroadcasts`: see section 5 |
| `engine` | a thread that suspends itself and then goes to a barrier, and one that resumes it for ever; no duration | the composition implements `Lifecycle` and `Events`; `StopEndsUnlessHeld` |
| `timer` | 3 threads, one with a unique timer, that start at different times; periods 0 (which the parser takes when none is stated), 1 and 3; a clock up to 4 | `LatencyNotOver`, `NextNeverBack` |
| `workload` | two tasks with one or two instances (one of them written as a negative number), two events of any kind over two names, one of which begins with `unique` while the other looks like a tagged buffer; at most one declared resource | `HandlesFit`, `MeetByName`, `BarriersCountThreads`, `BuffersApart` |
| `taskgroups` | three nested names, the outermost there before; another process makes and removes that directory and a sibling; each `mkdir` and `rmdir` may fail | `PreexistingKept`, `CleansUp` |
| `scheduling` | every policy with priorities on both sides of every limit, every pair of clamps with values that are refused or wrap, every way to give runtime, period and deadline by the keys of either spelling, with values 0 to 3; a phase with or without parameters of its own | `InForce` |
| `startup` | four sets of invocations: every well-nested text of up to four parts out of nine (keys, keys with a number, strings and comments that look like each other, commas, braces); every command line, format and syntax; every value of every field of the global section, with sizes at each limit, and pairs of them; machines of 0 to 301 ns per turn with noise 0, 2 or 5 under every form of the `calibration` setting, with a CPU that is there, one outside of the affinity, one that does not exist and one whose number is negative as an `i32` | `OnlyMarkupStripped`, `KeysDistinct`, `KeysKeepTheirKind` of the texts; `ExitTellsCause`, `WorkStartsAsAsked`; `SteadyConverges`, `WorkTakesItsTime`; `LoadEnds` |
| `fuzzer` | two iterations over generated workloads of up to two threads; the C program may never be built, vanish, or not start; either child ends with 0, with 1 or by a signal, hangs, or blocks, at any poll, and may leave a process behind that keeps its pipes for a while or for ever; a tool of the build may not return | `LocksArePaired`, `PeriodCoversRuns` of the workloads; `NoChildLeft`, `SuccessNeedsBoth`, `ExitTellsDivergence`, `FuzzerEnds` |
| `generator` | one phase of up to three events, up to two mutexes and a timer | a violation of `TimerAtEnd`: see section 5 |

### Bounds

Every bound is a constant. What they leave out:

* `MaxInt` (3) is the largest value of the counters of `PhaseCursor`, in place of 2^31 - 1: what matters is that they wrap.
  `MaxRuns` (60) ends the histories of `PhaseLoop`; the longest counted task makes 27 runs, and an endless task passes
  the wrap of its counter several times.
* The instances of `Events` need three threads: one that sleeps, one that notifies and one that takes the mutex or
  the wakeup in between. `EventsProofs` removes the bound for the safety properties.
* `Horizon` (4) stops the clock and the deadlines of `Timer`. It lets a timer be used by all three threads, missed
  and used again; `TimingProofs` removes it.
* `U32` (16), `MaxTasks`, `MaxEvents` (2) and `MaxDeclared` (1) of `Workload`: a property that relates two events needs
  two, of one task or of two. The tags are written by `Numerals`, which `ConfigProofs` follows to any number of tasks.
* `Width` (4096) in `Scheduling` is 2^32, scaled so that the legal range of -20 to 2047 fits and 4097 wraps to 1. Durations of 0 to 3 let each of the three be left out, equal to another,
  smaller or larger, in both spellings.
* `Second` (10 ms in place of 1 s), `U32` (4096 in place of 2^32) and `CAL_TRIALS` (10 in place of 1000) in `Startup`: the average
  of a quiet machine below 301 ns has converged after ten trials, since each halves what is missing.
* `Usize` (65536 for 2^64), `MB` (256 for 2^20) and `PerPoint` (88, as in the code) keep the order of the originals: one MB holds more than
  one point, and a number of MB that is still a `usize` loses its high bits when it is shifted. The constants of the
  module have no width of their own, so that the arithmetic is that of the code at its limits.
* `Counts` (0, 1, 7, 33) are byte counts that a buffer of 3 bytes divides, does not divide, or exceeds. The real default is 4 MB.
* A text of `Startup` repeats a key at most four times; the suffix of `find_unique_key` is a number of any size, where the code has 32 bits.
* `max_phases` and `max_events` (2) of `Generator`: a phase of two events holds two locks that are still open at its end, the most the
  code allows, and `mutex_end` (3) lets them be one mutex or two. `generator` takes three events.
* `Iterations` (2) of `Fuzzer` let a divergence be followed by a consistent iteration and the other way round; a timeout of three or
  four polls lets a child end before, at and after it. The pipes of a child end at most one poll after it, in the wall time that is compared. `FuzzerProofs` removes both bounds for the safety properties.

### Deadlock

TLC checks for deadlock in `lifecycle`, `phase_loop`, `engine` and `fuzzer`, where the end of the process is a step of its own,
so that everything that stops earlier is found. The other configurations switch it off because their systems do stop: a thread of
`Events` sleeps for ever when nobody notifies it, a clock reaches its bound, and a parse, a startup, the generation of a workload or
a removal comes to its end.

### Fairness

* `Lifecycle`: weak fairness of the main thread, of the monitor and of each worker between its phases. They are threads that the
  kernel runs; their loops sleep for 100 ms and 50 ms. Outside of the phases they wait for one another only in the startup barrier and in
  the joins, where the guard is the condition waited for; inside of a phase they wait in their events, so that no worker is
  obliged to come back from `run_phase`: that is the subject of `Events` and `Engine`. Signals, failures of system calls and of thread creation
  are never obliged to happen.
* `WorkerLog`: weak fairness of the thread, so that phases end and the log is flushed; what may keep a phase from ending is the
  subject of `Events`.
* `Events`: weak fairness of each thread. It does not oblige a thread to get a mutex that others keep taking,
  nor a sleeper to wake up; a spurious wakeup is possible and never obliged. It is real: a `Condvar` of
  the standard library on Linux is a futex, and its documentation allows it.
* `Engine`: weak fairness of main, monitor and workers, as above.
* `Startup`: weak fairness of a worker in its loops, which never block: the sink of `iorun` takes what it is given.
* `Fuzzing`: weak fairness of the fuzzer as one process, except while it waits for a tool of the build. Its children, the tools and the
  processes left behind get none, since they may hang; what is left ends because the fuzzer polls with a limit and `kill` is not
  refused for a child of its own.

The other modules check no liveness and assume no fairness.

### Liveness that holds with an exception

`StopReachesAwake` and `StopEndsUnlessHeld` name what the code allows: a thread may be asleep in a condition variable, or blocked behind a lock event, and nothing in the code wakes it. They show that nothing *else* keeps a run alive. In the
instance of `engine` both ends are reached. `DurationEnds` says it of the lifecycle alone, which knows of the events only
that a phase may not return: the duration ends the process unless a thread stays in a phase for ever. What may keep a thread there after
the stop is the subject of the other two; from the stop on, a run with a duration takes the same steps as one without. `FuzzerEnds` has two exceptions, `AwaitsTool` and `AwaitsPipes`, the two waits of the fuzzer that have no timeout.

## 4 Proofs

`tlapm LifecycleProofs.tla`, and so on; every leaf is proved by SMT (Z3), Zenon or, for temporal steps, LS4.
The theorems hold for every value of the constants under the assumptions that the modules state (`LifecycleAssumption`,
`EventsAssumption` and the like): finitely many threads, tasks with well-formed phases, a tree of directories closed under
parents, CPUs that are numbered, sections whose values are JSON values, a margin of the generator that is positive. They say
nothing about the bounds of the instances.

The pattern is the same everywhere: a strengthening `IInv` of the invariants is shown to hold initially and to be kept by
each action, one step per action, with the conjuncts that the action can disturb below it; the invariants, the
action properties and the refinements follow from it.

* **`LifecycleProofs`**: `TimeReferenceShared` is not inductive: it needs that arrivals at the barrier are recorded
  (`ArrivalsRecorded`), that nobody is past it before all have arrived (`PastBarrier`), and that thread 0 writes
  `t_zero` before it arrives. `ExitCodeHonest` rests on `JoinsAreEnds` (what was joined has ended) and `FailuresRecorded` (a thread
  that failed has said so before it ends), `StopHasCause` on `StopsExplained`, `WorkNotDropped` on `CursorInRange`.
  `LifecycleImplementsContract` maps `launched` to "all parties have reached the barrier", `live` to the threads that have not
  ended, and each step to one of the contract or a stutter. `WaitsAfterStart` is a corollary about `running_threads`.
  A step of `Engine` is a step of `Lifecycle` and a step, or a stutter, of `Events`; the theorems of the two hence hold of the
  composition (`EngineKeepsPromises`).
* **`EventsProofs`**: `MutexesHeld` and `SleepersQueued` say that the owner of a mutex and the queue of a condition variable are determined by
  the places of the threads. `BarrierAccounting` follows by counting sleepers (finite cardinalities): the count, the sleepers and
  what was lost to spurious wakeups are the total, neither more nor less. `ResumeMissesNobody`
  by the mutex: a thread that has locked it before is either in the queue or still holds it.
* **`TimingProofs`**: the number of runs of each phase is a function of the cursor (`RunsMatchPosition`); it is inductive only
  with `InsideLoops`, by which the counters of a counted task never reach their limit. The product of loops and runs is
  handled in lemmas of its own. `WrittenSlots` says which point is in which slot of the buffer; the refinement to `TimingLog` needs the
  case of a push that fills the buffer, and one that overwrites its oldest point. `LogShowsLastRuns` joins the two: the
  point in a slot is the number of the run that was pushed there, for any capacity and any number of runs. For `Timer`, `GivenOut`, the timer is never behind a
  deadline it has given out, is what makes the three promises inductive.
* **`ConfigProofs`** of `Workload`: `TableAgrees` (list and index map are inverse) and `EventsResolve` (old indices stay right while the table grows)
  carry `HandlesFit` and `MeetByName`. `BuffersApart` follows from `MeetByName`, since the first key of an event with a buffer ends in the tag of
  its task (`BuffersTagged`) and no two tags are alike, for any number of tasks (`TagsDiffer`, from `NumeralsDiffer`). `BarriersExpectTheirThreads` joins `TotalsBuilt` (the total of a
  barrier is the sum over its events of the instances of their tasks, modulo 2^32) with `AllSpawned` (each task has its instances
  when the run begins): a sum over events of a number of threads is the number of pairs. Its hypothesis `SumsFit` says that no
  sum comes to 2^32; beyond it the code would wrap, and the property be false.
* **`ConfigProofs`** of `Scheduling`: `SchedIInv` says which of the two system calls has left what in the kernel. The first keeps the clamps that were there,
  the second keeps policy and parameters (`SCHED_FLAG_KEEP_ALL`), so that after both each is what the task states, also when a
  number has wrapped on its way. For `SCHED_DEADLINE` that takes the defaults of `parse_sched` apart: the runtime is always the one that is stated, period and
  deadline are when the two spellings of the keys are not mixed (`OneSpelling`).
* **`TaskgroupsProofs`**: `OffsetsSafe`, nothing from a recorded offset on was there before, is what makes `PreexistingKept` inductive while
  other processes make and remove directories. `CleansUp` needs to know who removes what: each directory that was made
  belongs to a taskgroup (`AllOwned`), what belongs to one is there (`OwnedThere`), the owner of a directory comes no later than those of what
  is in it (`InsideLater`), so that the removal, which goes backwards, finds it empty; and what is in the first directory that a taskgroup has made is
  its own (`FreshBelow`), which is what keeps `InsideLater` for nested and repeated names.
* **`StartupProofs`**: the control of `main` says which exit code is still possible at each statement, and gives `ExitTellsCause` and
  `WorkStartsAsAsked` (the affinity is restored on every path of the calibration). `WorkTakesItsTime` rests on what a method
  has measured: an average between `base` and `base + noise` of the machine after a turn that was accepted, and a bound on the time that the bursts of `loadwait` have burned so far.
  `SteadyConverges` follows the average of a quiet machine: each trial at least halves the gap to the samples, so that after as many trials as
  it takes to halve a turn away (`EnoughTrials`, which TLC evaluates for the machines of `startup`) the test of 2 % is passed.
* **`StartupProofs`** of `Preprocess`: `KeysStayDistinct` holds for any text. `FoldTheorems` unfolds the left fold of `deduplicate_keys` into the run of
  states that it passes through, one per piece. Along the run, the stack of key sets is never shorter than it was at the brace that a piece is inside of
  (`InsideIsDeep`), and a set that stays on the stack only grows (`SetsGrow`); so the key that was written for one piece is still in the
  set when another key of the same object comes. What is then chosen is not in it (`UniqueKey`: with one suffix more than there are keys, and no two suffixes
  alike by `DecimalsDiffer`, again from `NumeralsDiffer`, one is free). The property speaks of the text that is written, so that `SameKeys` has to say that a renaming
  changes neither which pieces are keys nor which are braces. `PassesIInv` says which of the three passes the text has been through.
* **`StartupProofs`** of `Preprocess` again: `MarkupIsStripped`, what the first two passes leave of a document of any length. They read characters, the
  property speaks of tokens; what joins the two is that the run over a text is one run per token after another (`RunsThrough`, on `RunsJoin` and
  `RunsAgree` of `FoldTheorems`). `CommentsGone` takes `CommentStep` through each kind of token: outside of a comment, every token begins and ends in the mode `code`, and what it
  adds to the output is what is left of it (`StringRuns`, `LineRuns`, `BlockRuns`). For the commas that is not enough, since at the end of a token
  a comma may still be held back: `Reached` says that the output so far is the plain text up to the last comma that is not decided, and that the
  rest is held (`CommaTokenStep`, with `CommaResolved` where it is decided). The hypothesis `ReadsDocuments` says that the texts are sequences of
  tokens, nested or not, where a string and a comment end where JSON with comments says they do (`IsToken`); TLC evaluates it for the
  invocations of `startup`. `MarkupIInv` carries the result from pass to pass.
  `KeysKeepKind`, under the same hypothesis, takes it through the third pass. Every piece that begins like a string ends like one, except the last, which is no key
  (`PiecesAreWhole`), so that a key that keeps its name is written as it was. What is in a set on the stack came from a key that was read while the stack
  was that long, and the stack has not been shorter since (`Origins`, an invariant of the run, which also bounds the set by the pieces read, and so the
  suffix). Between two such places as many braces are opened as closed (`DepthBalances`), so that the same ones are around them
  (`SameBraces`) and `Inside` agrees.
* **`FuzzerProofs`**: `FuzzInv` joins `NoChildLeft` with `ResultsHonest` (the result of a run that was not given up has the code of its
  process) and `Tally` (what was counted is at most the iterations made). `ExitTellsDivergence` needs the tally to know that an
  iteration is not counted as divergent twice, and that the fuzzer ends with 0 only after its last one; `SuccessNeedsBoth` follows from
  `ResultsHonest` and the definition of `compare`. For the generator, `Paired` says of a phase under construction that its keys have numbers
  below the event counter, that each mutex was locked more often than unlocked by the times it is held (`Balance`), and that before every unlock there
  were more locks than unlocks (`InOrder`); since `held_locks` is empty when a phase is written, `LocksArePaired` follows.
  `RunInv` says that `total_runtime` is the sum of the runs in the phase (`RunsSummed`) and that a timer that has been written covers it with the margin
  (`TimersCover`); the runs are summed over a set of keys that grows with the phase. `PeriodCoversRuns` follows.
  `FuzzingImplementsFuzzer` takes the three theorems about `Fuzzer` to the composition that the run checks.

Some formulas that the runs no longer list, because one step is enough to break them, are still proved: the type
invariants, `WorkNotDropped`, `NeverEarly`, and `MutexesHeld` and `SleepersQueued` on which the others rest.

* **`FoldTheorems`**: an induction over data, in a form that first-order provers can follow. The induction theorems of the library take a predicate as
  a parameter and are of no use here; but that a nonempty set of numbers, or of subsets of a finite set, has a least member is a statement
  about a set, and the set can be that of the counterexamples (`LeastNatural`, `SmallestSubset`). In this way `SumExists` shows that the recursion
  behind `SumFunctionOnSet` has a solution, and the others how a sum changes with its set and its summands, and when it is a cardinality. The same form of
  induction, along an interval (`UpTo`, `FromTo`), gives that a left fold over a sequence has a run of states that starts in its base, takes one step per element, and ends in
  its result (`FoldRuns`); what holds of a fold is then an invariant of its run. And it gives that a number can be read back from its digits in any base
  (`NumeralsDiffer`): the last digit is the remainder, what is before it the numeral of the quotient.

Checked by TLC only: everything that is live (`DurationEnds`, `CountedTaskEnds`, `StopReachesAwake`, `StopEndsUnlessHeld`, `LoadEnds`,
`FuzzerEnds`), since liveness under fairness is beyond the prover. Every invariant, every action property and every
refinement that a passing run checks is proved as well.

## 5 Where the code departs from its documentation

The run `events_barrier` exhibits the first of these, the run `generator` the second. The next three are the cases that `InForce` and
`ExitTellsCause` leave out: a phase with parameters of its own, durations in both spellings, a command line without a configuration. The others were met while the code was modelled; the modules
follow the code, and their properties are stated so as to hold with it.

| code | documentation |
|---|---|
| `engine/events.rs:398`, `conversions.rs:306`: a barrier starts with `waiting = users`, and a user broadcasts only at 0, so the last user sleeps with the others | `tutorial.md:580-581` "when the last user hits the barrier event, that thread will broadcast and all continue" |
| `fuzzer/generator.rs:402`: the timer is inserted last into a map of `serde_json`, which without the feature `preserve_order` (`bug_finding/Cargo.toml:11`) sorts its keys, so the unlocks and yields of the phase come after it in the file | `fuzzer/generator.rs:402` "Add timer at the end if we have timers and some runtime" |
| `engine/mod.rs:227`: the scheduling parameters of a phase are never applied | `tutorial.md:189-191` "The scheduling properties can be changed at the beginning of each phase if defined in the phase object" |
| `config/tasks.rs:578`: `dl-deadline` takes its default before the legacy key `period` is read; `dl-runtime` 1 with `period` 3 makes a deadline of 1 | `tutorial.md:201` "Same as `dl-period`", for which (`:200`) "`"period"` is also checked" |
| `args.rs:151`: a command line without `CONFIG` is refused by clap, with exit code 2; nothing returns 3 | `args.rs:21-28` "Exit codes matching the C implementation", `InvalidCommandLine = 3`, kept by the test at `args.rs:710` |
| `engine/events.rs:404`: the wait in a barrier is not repeated, so a spurious wakeup passes it | `tutorial.md:578-579` "all threads hitting the barrier event to wait for a signal" |
| `engine/events.rs:388`: a sync event notifies before it takes the mutex; the answer may come before it sleeps | `tutorial.md:554-555` "Atomically wake up a blocked thread and then block the calling thread" |
| `engine/events.rs:170`: a lock event locks its mutex a second time while it holds the guard, and never returns | `engine/events.rs:167-168` "blocks and then immediately drops" |
| `main.rs:395`: nothing decrements `running_threads`, so without a duration the process does not end when its threads have finished | `main.rs:389` "wait until all threads finish", `config/global.rs:234`, `tutorial.md:63` |
| `engine/mod.rs:367`: `shutdown` joins threads that may sleep for ever | `tutorial.md:63` "All threads will be killed once the duration has elapsed" |
| `engine/mod.rs:368`: a thread that panicked leaves `thread_failed` unset and the exit code 0 | `engine/mod.rs:49-50` "Set to true when a thread fails fatally" |
| `engine/mod.rs:226`: `loop_count` 0 runs nothing | `types.rs:497` "0 = infinite" |
| `engine/mod.rs:294`: `phase_loop` wraps without a reset, and an endless phase ends when it comes to -1 (release build) | `config/tasks.rs:878` "the phase loop handles the repeating at -1" |
| `engine/events.rs:328`: a unique timer is looked for in a list that is always empty, and the event returns at once | `tutorial.md:406-407` "a new timer will be created for each instance" |
| `engine/events.rs:362`: the latency is taken from a `next_ns` that others may have moved; `:369`: a miss resets the sum of the phase | `tutorial.md:747` "Sum of wakeup latencies after timer events" |
| `conversions.rs:296`: the mode of a timer is never read; every timer is absolute | `tutorial.md:448-449` "The default is relative" |
| `config/tasks.rs:740`: the tag of a buffer is that of the task, so its instances share one | `config/tasks.rs:177` "Unique tag for per-thread resources" |
| `engine/events.rs:249`: a fork event starts nothing | `tutorial.md:636-637` "you can fork one at any point using this event" |
| `taskgroups.rs:208`: when a later directory of a path cannot be made, the earlier ones are forgotten | `taskgroups.rs:215` "Remove cgroup directories for all allocated taskgroups" |
| `taskgroups.rs:305`: the directory at the offset is removed too | `taskgroups.rs:292-293` "stopping at (but not removing) the directory at `offset`" |
| `engine/mod.rs:170`: CPU affinity is never applied (`affinity.rs:136` has no caller) | `tutorial.md:207` "CPU affinity for the thread" |
| `config/global.rs:137`: the names of a log size are in lower case, and `"Disable"` is refused | `tutorial.md:70` "`"Disable"` disables logging" |

Further behaviour worth knowing, about which the documents say nothing:

* A task whose `phases` is an empty object parses, and its thread panics at `phases[0]` (`engine/mod.rs:227`).
* A machine whose busy loop takes 51 ns per turn or less may never be calibrated: the truncating average stays one below the
  samples, which is then more than 2 % (`engine/calibration.rs:117-137`). `SteadyConverges` states the limit.
* When the format of a file is not known, any error in the JSON, also a value that is refused, makes the program try the text again as
  YAML, and it is the second error that the user sees (`config/mod.rs:515`).
* A `log_size` whose number of MB has more than 44 bits loses its high bits; if nothing is left, the log holds one point (`conversions.rs:343`).
* With `mem_buffer_size` 0 the loop of a `mem` or `iorun` event never ends (`engine/events.rs:43`), not even by a stop. `LoadEnds` states the exception.
* The child of the fuzzer that writes more than its pipe holds is taken for one that hangs, since the pipe is read only after its end (`fuzzer/runner.rs:347`).
* After the end of a child the fuzzer reads its pipes to their end (`fuzzer/runner.rs:325`, `:334`), which a process that the child has left behind can put off
  for ever; a kill reaches the child alone. The tools of the build are waited for without a timeout (`fuzzer/main.rs:292-325`).
* `ns as u32` (`main.rs:179`) may be 0, and every run event then does nothing.
* Keys are compared as they are written (`config/mod.rs:294`): two spellings of one key by escapes are not recognised as duplicates.

## 6 What is not modelled

* Whole files: `affinity.rs` (conversions; no caller for what has an effect), `gnuplot.rs` (output only), `syscalls.rs` (layout of arguments),
  `utils.rs` (time arithmetic).
* Of the startup: the conversion of YAML values to JSON values, the highlighting of the template, the log level (which nothing reads), and
  paths. Of the taskgroups: the parsers of `/proc`. Of the fuzzer: the text of its reports, and random numbers, which are choices.
* The events that take time or use memory and files: each is one `Run` event in `Events`; `loadwait` is in `Calibration`, the loops over a
  buffer are in `MemLoad`. The `runtime` event, which loops until a clock says so, has no loop of its own.
* Times: nanoseconds and microseconds are small integers; the slack field and the truncation to microseconds of `Timer` are left out.
* `clock_gettime`, `sched_getaffinity` and the restoring `sched_setaffinity` are assumed not to fail; mutexes are not poisoned (a panic happens in the models
  only outside of the critical sections, at an empty list of phases).
* Builds: integers wrap, as in a release build; a debug build panics instead.
* `nodes`, `cpus` and `taskgroup` of tasks and phases are parsed and never used by the engine, and have no model.
* The taskgroup controller has no caller yet; `Taskgroups` calls its operations in the order its documentation gives, `add_cgroups` once.

## 7 Plan

The order of work was: the lifecycle with its contract, the phase loop, the events, their composition; then timers, log and
workload; then scheduling, taskgroups, preprocessing and calibration; then the log inside of its worker, the startup as a whole,
and the fuzzer with its generator. What could still be done, in this order:

1. `Timer` inside of `Events`: timers as a kind of handle, so that a stop during the sleep of a timer and the dry run of a timer event are
   part of the composition; then slack and cumulative slack.
2. An abstract specification of a barrier and of suspend and resume, against which `Events` can be compared handler by handler.
