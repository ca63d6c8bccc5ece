----------------------------- MODULE Generator -----------------------------
(***************************************************************************)
(* The workload generator of the differential fuzzer                       *)
(* (bug_finding/src/generator.rs).  It writes a workload thread by thread  *)
(* and phase by phase; a roll of its random generator is a choice.  What   *)
(* has been written and is read by nothing that follows is not kept: of a  *)
(* finished thread or phase only that it exists, of the global section     *)
(* only the duration.                                                      *)
(***************************************************************************)
EXTENDS Integers, Sequences, FiniteSets, FiniteSetsExt

CONSTANTS
  \* SafetyLimits; mem and sleep are not told apart by their amount
  max_threads, max_instances, max_phases, max_events, max_duration_secs,
  max_run_us, max_timer_period_us, max_loop_count,
  \* literals of the code: random_range(0, 4) mutexes, (0, 3) barriers and
  \* timers, runs of 100 us at least, a period 1000 us longer than its runs
  mutex_end, barrier_end, timer_end, min_run_us, period_margin

ASSUME GeneratorAssumption ==
  /\ \A limit \in {max_threads, max_instances, max_phases, max_events,
                   max_duration_secs, max_run_us, max_timer_period_us,
                   max_loop_count, mutex_end, barrier_end, timer_end,
                   min_run_us, period_margin} : limit \in Nat
  /\ period_margin > 0

VARIABLES
  gen_at,                      \* the function of the generator under way
  thread_names,                \* how many threads have a name
  mutexes, barriers, timers,   \* GeneratorState
  tasks,                       \* threads written to the tasks section
  thread,                      \* the thread being written, without its events
  num_phases,                  \* phases of it still to be written
  phase,                       \* its phase being written: key -> value
  last_event,                  \* max_events of add_phase_events
  event_counter, total_runtime, held_locks,
  duration                     \* global.duration

genVars == <<gen_at, thread_names, mutexes, barriers, timers, tasks, thread,
             num_phases, phase, last_event, event_counter, total_runtime,
             held_locks, duration>>

sectionVars == <<thread_names, mutexes, barriers, timers, duration>>
phaseVars   == <<phase, last_event, event_counter, total_runtime, held_locks>>

\* random_range: gen_range does not take an empty range.
random_range(min, max) == IF min >= max THEN {min} ELSE min .. max - 1

EmptyMap == [key \in {} |-> 0]
NoThread == [policy |-> "none"]

\* Map::insert overwrites the value of a key that is there.
Insert(map, key, value) ==
  [k \in DOMAIN map \cup {key} |-> IF k = key THEN value ELSE map[k]]

Key(type, number) == [type |-> type, number |-> number]

\* What an event that names nothing has as its value.
Amount == 0

random_run_duration == random_range(min_run_us, max_run_us + 1)

\* The largest of two numbers.
Larger(a, b) == IF a > b THEN a ELSE b

\* Mutant: the range of the period begins at the longest that is allowed.
timer_period_from_limit(runtime) ==
  random_range(period_margin, Larger(max_timer_period_us, runtime + 2 * period_margin) + 1)

random_timer_period(runtime) ==
  LET min_period == runtime + period_margin
  IN  random_range(min_period,
                   Larger(max_timer_period_us, min_period + period_margin) + 1)

GenInit ==
  /\ gen_at = "generate"
  /\ thread_names = 0 /\ tasks = 0 /\ num_phases = 0
  /\ mutexes = {} /\ barriers = {} /\ timers = {}
  /\ thread = NoThread /\ phase = EmptyMap
  /\ last_event = 0 /\ event_counter = 0 /\ total_runtime = 0
  /\ held_locks = <<>>
  /\ duration = 0

NameThreads ==
  /\ gen_at = "generate"
  /\ thread_names' \in random_range(1, max_threads + 1)
  /\ gen_at' = "resources"
  /\ UNCHANGED <<mutexes, barriers, timers, duration, tasks, thread, num_phases>>
  /\ UNCHANGED phaseVars

\* Barriers are not declared, and are used by several threads only.
generate_resources ==
  /\ gen_at = "resources"
  /\ \E m \in random_range(0, mutex_end), t \in random_range(0, timer_end) :
       /\ mutexes' = 0 .. m - 1
       /\ timers' = 0 .. t - 1
  /\ \E b \in IF thread_names > 1 THEN random_range(0, barrier_end) ELSE {0} :
       barriers' = 0 .. b - 1
  /\ gen_at' = "tasks"
  /\ UNCHANGED <<thread_names, duration, tasks, thread, num_phases>>
  /\ UNCHANGED phaseVars

\* A real-time policy has a low priority, any other has none.
generate_thread ==
  /\ gen_at = "tasks" /\ tasks < thread_names
  /\ \E policy \in {"SCHED_OTHER", "SCHED_FIFO", "SCHED_RR"},
        instances \in random_range(1, max_instances + 1),
        loop \in {-1} \cup random_range(1, max_loop_count + 1) :
       \E priority \in IF policy = "SCHED_OTHER" THEN {0} ELSE random_range(1, 10) :
         thread' = [policy |-> policy, priority |-> priority,
                    instances |-> instances, loop |-> loop]
  /\ gen_at' = "thread"
  /\ UNCHANGED sectionVars /\ UNCHANGED <<tasks, num_phases>>
  /\ UNCHANGED phaseVars

generate_phases ==
  /\ gen_at = "thread"
  /\ num_phases' \in random_range(1, max_phases + 1)
  /\ thread' = NoThread
  /\ gen_at' = "phases"
  /\ UNCHANGED sectionVars /\ UNCHANGED tasks /\ UNCHANGED phaseVars

\* The thread itself is the only phase: a run, and a sleep or a timer.
add_simple_events ==
  /\ gen_at = "thread"
  /\ thread' = NoThread
  /\ \E run_us \in random_run_duration :
       LET target == Insert(EmptyMap, Key("run", 0), run_us)
       IN  \/ phase' = Insert(target, Key("sleep", 0), Amount)
           \/ \E t \in timers, period \in random_timer_period(run_us) :
                phase' = Insert(target, Key("timer", 0),
                                [ref |-> t, period |-> period])
  /\ num_phases' = 1
  /\ gen_at' = "written"
  /\ UNCHANGED sectionVars
  /\ UNCHANGED <<tasks, last_event, event_counter, total_runtime, held_locks>>

generate_phase ==
  /\ gen_at = "phases" /\ num_phases > 0
  /\ \E loop \in random_range(1, max_loop_count + 1) :
       phase' = Insert(EmptyMap, Key("loop", 0), loop)
  /\ last_event' \in random_range(1, max_events + 1)
  /\ event_counter' = 0 /\ total_runtime' = 0 /\ held_locks' = <<>>
  /\ gen_at' = "add_phase_events"
  /\ UNCHANGED sectionVars /\ UNCHANGED <<tasks, thread, num_phases>>

\* The types weighted_choice may return.
choose_event_type ==
  {"run", "runtime", "sleep", "mem", "yield"}
  \cup {e \in {"lock"} : mutexes # {} /\ Len(held_locks) < 2}
  \cup {e \in {"unlock"} : held_locks # <<>>}
  \cup {e \in {"barrier"} : barriers # {}}

Push(seq, e) == Append(seq, e)
Pop(seq)     == SubSeq(seq, 1, Len(seq) - 1)
Last(seq)    == seq[Len(seq)]

add_phase_event ==
  /\ gen_at = "add_phase_events" /\ event_counter < last_event
  /\ \E type \in choose_event_type :
       LET add(value) == phase' = Insert(phase, Key(type, event_counter), value)
       IN  \/ /\ type \in {"run", "runtime"}
              /\ \E run_us \in random_run_duration :
                   add(run_us) /\ total_runtime' = total_runtime + run_us
              /\ UNCHANGED held_locks
           \/ /\ type \in {"sleep", "mem", "yield"}
              /\ add(Amount)
              /\ UNCHANGED <<total_runtime, held_locks>>
           \/ /\ type = "lock"
              /\ \E m \in mutexes : add(m) /\ held_locks' = Push(held_locks, m)
              /\ UNCHANGED total_runtime
           \/ /\ type = "unlock"
              /\ add(Last(held_locks)) /\ held_locks' = Pop(held_locks)
              /\ UNCHANGED total_runtime
           \/ /\ type = "barrier"
              /\ \E b \in barriers : add(b)
              /\ UNCHANGED <<total_runtime, held_locks>>
  /\ event_counter' = event_counter + 1
  /\ UNCHANGED sectionVars
  /\ UNCHANGED <<gen_at, tasks, thread, num_phases, last_event>>

\* Mutant: the counter stays, and the second unlock takes the key of the first.
close_locks_in_one ==
  /\ gen_at = "add_phase_events" /\ event_counter >= last_event
  /\ held_locks # <<>>
  /\ phase' = Insert(phase, Key("unlock", event_counter), Last(held_locks))
  /\ held_locks' = Pop(held_locks)
  /\ UNCHANGED sectionVars
  /\ UNCHANGED <<gen_at, tasks, thread, num_phases, last_event, event_counter,
                 total_runtime>>

\* The locks still held are closed, the last one first.
close_locks ==
  /\ gen_at = "add_phase_events" /\ event_counter >= last_event
  /\ held_locks # <<>>
  /\ phase' = Insert(phase, Key("unlock", event_counter), Last(held_locks))
  /\ held_locks' = Pop(held_locks)
  /\ event_counter' = event_counter + 1
  /\ UNCHANGED sectionVars
  /\ UNCHANGED <<gen_at, tasks, thread, num_phases, last_event, total_runtime>>

\* A coin decides about the timer.
add_timer ==
  /\ gen_at = "add_phase_events" /\ event_counter >= last_event
  /\ held_locks = <<>>
  /\ \/ UNCHANGED phase
     \/ /\ total_runtime > 0
        /\ \E t \in timers, period \in random_timer_period(total_runtime) :
             phase' = Insert(phase, Key("timer", event_counter),
                             [ref |-> t, period |-> period])
  /\ gen_at' = "written"
  /\ UNCHANGED sectionVars
  /\ UNCHANGED <<tasks, thread, num_phases, last_event, event_counter,
                 total_runtime, held_locks>>

\* The phase, or the thread with its last one, goes into the document.
write_phase ==
  /\ gen_at = "written"
  /\ phase' = EmptyMap /\ last_event' = 0 /\ event_counter' = 0
  /\ total_runtime' = 0
  /\ num_phases' = num_phases - 1
  /\ IF num_phases' = 0 THEN gen_at' = "tasks" /\ tasks' = tasks + 1
                        ELSE gen_at' = "phases" /\ UNCHANGED tasks
  /\ UNCHANGED sectionVars /\ UNCHANGED <<thread, held_locks>>

generate_global ==
  /\ gen_at = "tasks" /\ tasks = thread_names
  /\ duration' \in random_range(1, max_duration_secs + 1)
  /\ gen_at' = "done"
  /\ UNCHANGED <<thread_names, mutexes, barriers, timers, tasks, thread, num_phases>>
  /\ UNCHANGED phaseVars

GenNext ==
  \/ NameThreads \/ generate_resources \/ generate_thread
  \/ generate_phases \/ add_simple_events
  \/ generate_phase \/ add_phase_event \/ close_locks \/ add_timer \/ write_phase
  \/ generate_global

GenSpec == GenInit /\ [][GenNext]_genVars

----------------------------------------------------------------------------
(* Properties *)

KeysOf(type) == {k \in DOMAIN phase : k.type = type}
Of(type, mutex) == {k \in KeysOf(type) : phase[k] = mutex}

\* In a phase that is written every mutex is unlocked as often as it is
\* locked, and in the order of the numbers no unlock comes before its lock:
\* no pair loses its unlock to another key, whatever was open at the end.
LocksArePaired ==
  gen_at = "written" =>
    \A m \in mutexes :
      /\ Cardinality(Of("lock", m)) = Cardinality(Of("unlock", m))
      /\ \A u \in Of("unlock", m) :
           Cardinality({k \in Of("lock", m) : k.number < u.number})
             > Cardinality({k \in Of("unlock", m) : k.number < u.number})

\* The period of a timer is longer than all the runs of its phase together,
\* so that the timer can be kept.
PeriodCoversRuns ==
  gen_at = "written" =>
    \A k \in KeysOf("timer") :
      phase[k].period
        > SumFunctionOnSet(phase, KeysOf("run") \cup KeysOf("runtime"))

\* serde_json without preserve_order keeps a Map sorted by its keys, and that
\* is the order in which the file lists the events and both programs carry
\* them out.
SortedTypes == <<"barrier", "lock", "loop", "mem", "run", "runtime", "sleep",
                 "timer", "unlock", "yield">>

Rank(type) == CHOOSE i \in DOMAIN SortedTypes : SortedTypes[i] = type

Before(a, b) ==
  \/ Rank(a.type) < Rank(b.type)
  \/ a.type = b.type /\ a.number < b.number

\* The timer of a phase, which is added at the end, is the last event that
\* the file lists in it.
TimerAtEnd ==
  gen_at = "written" =>
    \A t \in KeysOf("timer") : \A k \in DOMAIN phase \ {t} : Before(k, t)
============================================================================
