----------------------------- MODULE Scheduling -----------------------------
(***************************************************************************)
(* The scheduling parameters of one thread, from the JSON object of its    *)
(* task to the kernel: parse_sched, the conversion to SchedData, and       *)
(* set_thread_param with its two system calls, which thread_body makes     *)
(* before the first phase, and again at the end.                           *)
(*                                                                         *)
(* An object of the configuration is a record: the policy it states (or    *)
(* "none"), and the integers it has under the other keys, as a function    *)
(* from the keys that are there.                                           *)
(***************************************************************************)
EXTENDS Integers, Sequences

CONSTANTS
  TaskObjects,   \* the task objects to try
  PhaseObjects,  \* the phase objects to try
  DefaultPolicy, \* "default_policy" of the global section
  LockPages,     \* "lock_pages" of the global section
  Width,         \* 2^32
  MaxPhases      \* bound

RT == {"SCHED_FIFO", "SCHED_RR"}
CFS == {"SCHED_OTHER", "SCHED_IDLE"}
KernelPolicies == RT \cup CFS \cup {"SCHED_DEADLINE"}
Policies == KernelPolicies \cup {"SCHED_SAME"}

Durations == {"dl-runtime", "dl-period", "dl-deadline", "runtime", "period", "deadline"}
Keys == Durations \cup {"priority", "util_min", "util_max"}

IsObject(obj) ==
  /\ DOMAIN obj.ints \subseteq Keys
  /\ \A key \in DOMAIN obj.ints : obj.ints[key] \in Int

ASSUME SchedulingAssumption ==
  /\ \A obj \in TaskObjects \cup PhaseObjects : IsObject(obj)
  /\ DefaultPolicy \in Policies /\ LockPages \in BOOLEAN
  /\ Width \in Nat /\ Width > 2048 /\ Width % 2 = 0
  /\ MaxPhases \in Nat

VARIABLES
  sched_at,     \* how far the thread is
  task_obj, phases, \* the objects of the configuration
  sched,        \* SchedData of the task
  phase_sched,  \* SchedData of each phase, or NoSched
  phase,        \* the phase the thread is in, 0 before the first
  kernel,       \* what the kernel schedules the thread by
  locked        \* mlockall has been called

schedVars == <<sched_at, task_obj, phases, sched, phase_sched, phase, kernel, locked>>
configVars == <<task_obj, phases, sched, phase_sched>>

----------------------------------------------------------------------------
(* parse_sched, and From<&SchedConfig> for SchedData *)

GetInt(obj, key, default) == IF key \in DOMAIN obj.ints THEN obj.ints[key] ELSE default

\* `as i32` and `as u32`
AsI32(v) == ((v + Width \div 2) % Width) - Width \div 2
AsU32(v) == v % Width

THREAD_PRIORITY_UNCHANGED == Width \div 2 - 1
DEFAULT_THREAD_PRIORITY == 10
DEFAULT_THREAD_NICE == 0

default_priority_for(policy) ==
  IF policy = "SCHED_SAME" THEN THREAD_PRIORITY_UNCHANGED
  ELSE IF policy \in RT THEN DEFAULT_THREAD_PRIORITY
  ELSE DEFAULT_THREAD_NICE

\* The clamps are options: NoClamp is None, and so is a -1 in the configuration.
NoClamp == -1
Clamp(obj, key) ==
  IF GetInt(obj, key, -1) = -1 THEN NoClamp ELSE AsU32(obj.ints[key])

StatedPolicy(obj, default) == IF obj.policy = "none" THEN default ELSE obj.policy

\* A duration that is not positive becomes None, which every use takes as 0.
Positive(v) == IF v > 0 THEN v ELSE 0

\* The legacy keys count in a task object only, and each only where the dl- key
\* was left out, or looks as if it had been.
parse_sched(obj, default, is_task_level) ==
  LET policy    == StatedPolicy(obj, default)
      runtime0  == GetInt(obj, "dl-runtime", 0)
      period0   == GetInt(obj, "dl-period", runtime0)
      deadline0 == GetInt(obj, "dl-deadline", period0)
      runtime   == IF is_task_level /\ runtime0 = 0
                   THEN GetInt(obj, "runtime", 0) ELSE runtime0
      period    == IF is_task_level /\ period0 \in {0, runtime}
                   THEN GetInt(obj, "period", runtime) ELSE period0
      deadline  == IF is_task_level /\ deadline0 \in {0, period}
                   THEN GetInt(obj, "deadline", period) ELSE deadline0
  IN  [ policy   |-> policy,
        priority |-> IF "priority" \in DOMAIN obj.ints
                     THEN AsI32(obj.ints["priority"]) ELSE default_priority_for(policy),
        runtime  |-> Positive(runtime),
        period   |-> Positive(period),
        deadline |-> Positive(deadline),
        util_min |-> Clamp(obj, "util_min"),
        util_max |-> Clamp(obj, "util_max") ]

Accepted(data) == data.policy \in Policies /\ data.util_min <= 1024 /\ data.util_max <= 1024

\* A phase has parameters of its own only if it states one.
NoSched == [policy |-> "none"]
PhaseSched(obj) ==
  LET data == parse_sched(obj, "SCHED_SAME", FALSE)
      meaningful == \/ data.priority # THREAD_PRIORITY_UNCHANGED
                    \/ \E key \in {"dl-runtime", "dl-period", "dl-deadline"} :
                         GetInt(obj, key, 0) # 0
                    \/ data.util_min # NoClamp \/ data.util_max # NoClamp
  IN  IF data.policy = "SCHED_SAME" /\ ~meaningful THEN NoSched ELSE data

----------------------------------------------------------------------------
(* The kernel (external): sched_setattr, and what it refuses *)

\* A duration of zero stands for one the policy does not use.
Default == [policy |-> "SCHED_OTHER", nice |-> 0, priority |-> 0,
            runtime |-> 0, deadline |-> 0, period |-> 0, util_min |-> 0, util_max |-> 1024]

Permitted(attr) ==
  \/ attr.keep_all
  \/ attr.policy \in RT /\ attr.priority \in 1..99
  \/ attr.policy \in CFS /\ attr.priority = 0
  \/ /\ attr.policy = "SCHED_DEADLINE"
     /\ 0 < attr.runtime /\ attr.runtime <= attr.deadline
     /\ attr.period = 0 \/ attr.deadline <= attr.period

\* A period of zero is the deadline.  The clamps have flags of their own.
After(attr) ==
  LET params == IF attr.keep_all THEN kernel
                ELSE [policy |-> attr.policy, nice |-> attr.nice, priority |-> attr.priority,
                      runtime |-> attr.runtime, deadline |-> attr.deadline,
                      period |-> IF attr.period = 0 THEN attr.deadline ELSE attr.period,
                      util_min |-> kernel.util_min, util_max |-> kernel.util_max]
  IN  [params EXCEPT
        !.util_min = IF attr.util_min = NoClamp THEN @ ELSE attr.util_min,
        !.util_max = IF attr.util_max = NoClamp THEN @ ELSE attr.util_max]

sched_setattr(attr) ==
  /\ Permitted(attr) /\ After(attr).util_min <= After(attr).util_max
  /\ kernel' = After(attr)

----------------------------------------------------------------------------
(* set_thread_param *)

\* SCHED_SAME with nothing before it is SCHED_OTHER.
Resolved(data) == IF data.policy = "SCHED_SAME" THEN "SCHED_OTHER" ELSE data.policy

sched_priority_for(policy, prio) == IF policy \in RT /\ prio > 0 THEN prio ELSE 0

Attr(policy, prio) ==
  [ policy |-> policy, priority |-> sched_priority_for(policy, prio), nice |-> 0,
    runtime |-> 0, deadline |-> 0, period |-> 0,
    util_min |-> NoClamp, util_max |-> NoClamp, keep_all |-> FALSE ]

build_cfs_attr(prio, runtime) ==
  [Attr("SCHED_OTHER", prio) EXCEPT !.nice = prio, !.runtime = runtime]

build_deadline_attr(data) ==
  [Attr("SCHED_DEADLINE", 0) EXCEPT
     !.runtime = data.runtime, !.deadline = data.deadline, !.period = data.period]

\* Mutant: the clamps are set without the flags that keep the rest.
build_uclamp_attr_resets(data) ==
  [Attr(Resolved(data), data.priority) EXCEPT
     !.util_min = data.util_min, !.util_max = data.util_max]

build_uclamp_attr(data) ==
  [Attr(Resolved(data), data.priority) EXCEPT
     !.util_min = data.util_min, !.util_max = data.util_max, !.keep_all = TRUE]

InvalidNice(data) ==
  /\ Resolved(data) = "SCHED_OTHER" /\ data.priority # THREAD_PRIORITY_UNCHANGED
  /\ data.priority \notin -20..19

\* set_thread_rt, set_thread_cfs (no parameters were applied before) and
\* set_thread_deadline.
SetParams(data) ==
  LET policy == Resolved(data)
  IN  \/ /\ policy # "SCHED_DEADLINE" /\ data.priority = THREAD_PRIORITY_UNCHANGED
         /\ UNCHANGED kernel
      \/ /\ policy # "SCHED_DEADLINE" /\ data.priority # THREAD_PRIORITY_UNCHANGED
         /\ ~InvalidNice(data)
         /\ sched_setattr(CASE policy \in RT -> Attr(policy, data.priority)
                            [] policy = "SCHED_IDLE" -> Attr(policy, 0)
                            [] policy = "SCHED_OTHER" ->
                                 build_cfs_attr(data.priority, data.runtime))
      \/ policy = "SCHED_DEADLINE" /\ sched_setattr(build_deadline_attr(data))

\* set_thread_uclamp, for all but SCHED_DEADLINE.
SetUclamp(data) ==
  IF Resolved(data) = "SCHED_DEADLINE" \/ {data.util_min, data.util_max} = {NoClamp}
  THEN UNCHANGED kernel
  ELSE sched_setattr(build_uclamp_attr(data))

----------------------------------------------------------------------------
(* The thread *)

SchedInit ==
  /\ task_obj \in TaskObjects
  /\ phases \in UNION {[1..n -> PhaseObjects] : n \in 1..MaxPhases}
  /\ sched_at = "config"
  /\ sched = NoSched /\ phase_sched = <<>> /\ phase = 0
  /\ kernel = Default /\ locked = FALSE

Parse ==
  LET data == parse_sched(task_obj, DefaultPolicy, TRUE)
      ok == /\ Accepted(data)
            /\ \A i \in DOMAIN phases : Accepted(parse_sched(phases[i], "SCHED_SAME", FALSE))
  IN  /\ sched_at = "config" /\ ok
      /\ sched_at' = "params"
      /\ sched' = data
      /\ phase_sched' = [i \in DOMAIN phases |-> PhaseSched(phases[i])]
      /\ UNCHANGED <<task_obj, phases, phase, kernel, locked>>

ParseRefused ==
  /\ sched_at = "config"
  /\ \/ ~Accepted(parse_sched(task_obj, DefaultPolicy, TRUE))
     \/ \E i \in DOMAIN phases : ~Accepted(parse_sched(phases[i], "SCHED_SAME", FALSE))
  /\ sched_at' = "rejected"
  /\ UNCHANGED <<configVars, phase, kernel, locked>>

\* apply_initial_scheduling, one system call at a time.
ApplyParams ==
  /\ sched_at = "params" /\ sched_at' = "uclamp"
  /\ SetParams(sched)
  /\ UNCHANGED <<configVars, phase, locked>>

ApplyUclamp ==
  /\ sched_at = "uclamp" /\ sched_at' = "lock"
  /\ SetUclamp(sched)
  /\ UNCHANGED <<configVars, phase, locked>>

\* Either call may be refused; with no privilege, any parameter.  The thread
\* ends, with what the first call has set.
ApplyFails ==
  /\ sched_at \in {"params", "uclamp"} /\ sched_at' = "failed"
  /\ UNCHANGED <<configVars, phase, kernel, locked>>

\* set_thread_param turns lock_pages off under the CFS policies.
Lock ==
  /\ sched_at = "lock" /\ sched_at' = "running"
  /\ locked' = (LockPages /\ Resolved(sched) \notin CFS)
  /\ UNCHANGED <<configVars, phase, kernel>>

\* run_phase has the SchedData of the phase at hand, and
\* only runs its events.
EnterPhase(i) ==
  /\ sched_at = "running"
  /\ phase' = i
  /\ UNCHANGED <<sched_at, configVars, kernel, locked>>

\* reset_to_default_scheduling; an error is ignored.
Reset ==
  /\ sched_at = "running" /\ sched_at' = "done"
  /\ sched_setattr(build_cfs_attr(0, 0)) \/ UNCHANGED kernel
  /\ UNCHANGED <<configVars, phase, locked>>

SchedNext ==
  \/ Parse \/ ParseRefused
  \/ ApplyParams \/ ApplyUclamp \/ ApplyFails \/ Lock
  \/ \E i \in DOMAIN phases : EnterPhase(i)
  \/ Reset

SchedSpec == SchedInit /\ [][SchedNext]_schedVars

----------------------------------------------------------------------------
(* Properties *)

AskedPolicy ==
  IF StatedPolicy(task_obj, DefaultPolicy) = "SCHED_SAME" THEN "SCHED_OTHER"
  ELSE StatedPolicy(task_obj, DefaultPolicy)

Asked(key, default) == GetInt(task_obj, key, default)

LeftUnchanged == sched.priority = THREAD_PRIORITY_UNCHANGED /\ AskedPolicy # "SCHED_DEADLINE"

\* A duration by its key, or by the one of the legacy grammar; 0 is not stated.
Given(obj, key, legacy) ==
  IF GetInt(obj, key, 0) # 0 THEN GetInt(obj, key, 0) ELSE GetInt(obj, legacy, 0)

AskedRuntime  == Given(task_obj, "dl-runtime", "runtime")
AskedPeriod   == Given(task_obj, "dl-period", "period")
AskedDeadline == Given(task_obj, "dl-deadline", "deadline")

\* The durations are all written with their own keys, or all with the legacy
\* ones.
OneSpelling(obj) ==
  \/ DOMAIN obj.ints \cap {"runtime", "period", "deadline"} = {}
  \/ DOMAIN obj.ints \cap {"dl-runtime", "dl-period", "dl-deadline"} = {}

\* tutorial.md:199-201: the runtime, and, unless the spellings are mixed, the
\* period, which defaults to the runtime, and the deadline, which defaults to
\* the period.  A legacy period that is stated as 0 is the deadline.
DeadlineAsAsked ==
  /\ kernel.runtime = AskedRuntime
  /\ OneSpelling(task_obj) =>
       /\ AskedPeriod > 0 => kernel.period = AskedPeriod
       /\ AskedPeriod = 0 => kernel.period \in {kernel.runtime, kernel.deadline}
       /\ AskedDeadline > 0 => kernel.deadline = AskedDeadline
       /\ AskedDeadline = 0 => kernel.deadline = kernel.period

\* The policy, with its parameters: all that the first system call is for.
ParamsAsAsked ==
  /\ LeftUnchanged \/ kernel.policy = AskedPolicy
  /\ AskedPolicy \in RT /\ ~LeftUnchanged =>
       kernel.priority = AsI32(Asked("priority", 10))
  /\ AskedPolicy = "SCHED_OTHER" /\ ~LeftUnchanged =>
       kernel.nice = AsI32(Asked("priority", 0))
  /\ AskedPolicy = "SCHED_DEADLINE" => DeadlineAsAsked

\* The clamps, which are for the second.
ClampsAsAsked ==
  AskedPolicy # "SCHED_DEADLINE" =>
    /\ Asked("util_min", -1) # -1 => kernel.util_min = AsU32(Asked("util_min", -1))
    /\ Asked("util_max", -1) # -1 => kernel.util_max = AsU32(Asked("util_max", -1))

\* No phase states parameters of its own, or none has begun.
NoneOfPhases == phase = 0 \/ \A i \in DOMAIN phase_sched : phase_sched[i] = NoSched

\* tutorial.md:188-189 and the clamps: before its first phase, and in phases
\* that state nothing, a thread is scheduled by the policy its task states,
\* with that policy's parameters; the second system call has undone nothing of
\* the first.
InForce ==
  sched_at = "running" /\ NoneOfPhases => ParamsAsAsked /\ ClampsAsAsked

\* What it rests on: the thread applies what its task was parsed to, and what
\* one call has set is still there after the next.
KernelParams ==
  [policy : KernelPolicies, nice : Int, priority : Int, runtime : Int,
   deadline : Int, period : Int, util_min : Int, util_max : Int]

SchedTypeOK ==
  /\ sched_at \in {"config", "rejected", "params", "uclamp", "lock", "running", "done",
                  "failed"}
  /\ task_obj \in TaskObjects
  /\ kernel \in KernelParams
  /\ locked \in BOOLEAN

Parsed == sched = parse_sched(task_obj, DefaultPolicy, TRUE) /\ Accepted(sched)
SchedOfTask == sched_at \notin {"config", "rejected"} => Parsed

SchedIInv ==
  /\ SchedTypeOK /\ SchedOfTask
  /\ sched_at \in {"uclamp", "lock", "running"} => ParamsAsAsked
  /\ sched_at \in {"lock", "running"} => ClampsAsAsked
============================================================================
