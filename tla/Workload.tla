------------------------------ MODULE Workload ------------------------------
(***************************************************************************)
(* From a configuration to the threads and the handles they share:         *)
(* parse_resources and parse_tasks fill a ResourceTable, from_tasks counts *)
(* the users of each barrier, build_resource_handles makes the handles,    *)
(* and spawn_threads starts the instances.                                 *)
(*                                                                         *)
(* The steps are the entries of the configuration, in the order in which   *)
(* they are parsed.  A resource is known by its name and its type; what an *)
(* event keeps of it is an index, and what run_event finds there much      *)
(* later decides whether the event does anything at all.                   *)
(*                                                                         *)
(* A name is a sequence, so that format!("{name}{tag:x}") can append the   *)
(* digits of the tag of the task.                                          *)
(***************************************************************************)
EXTENDS Integers, Sequences, FiniteSets, FiniteSetsExt, Numerals

CONSTANTS
  Names,     \* the names a configuration may use for a resource or a task
  Unique,    \* those that start with "unique"
  Kinds,     \* the event kinds it may use
  Instances, \* the values "instance" may have
  U32,       \* 2^32
  MaxDeclared, MaxTasks, MaxEvents \* bounds

\* What {:x} makes of the index of a task.
HexDigits == <<"0", "1", "2", "3", "4", "5", "6", "7",
               "8", "9", "a", "b", "c", "d", "e", "f">>
Hex == Numeral(HexDigits)

ASSUME WorkloadAssumption ==
  /\ Names \subseteq Seq(STRING)
  /\ Unique \subseteq Names
  /\ Instances \subseteq Int
  /\ U32 \in Nat \ {0}
  /\ MaxDeclared \in Nat /\ MaxTasks \in Nat /\ MaxEvents \in Nat

VARIABLES
  stage,     \* how far main has come
  resources, \* ResourceTable: its resources, as [name, type] ...
  index_map, \* ... and the index of each
  declared,  \* the names in the "resources" section
  tasks,     \* the tasks parsed: name, num_instances, number of phases
  events,    \* the events parsed, with their place and the indices they keep
  handles,   \* EngineState::resources
  threads,   \* the threads spawned, each with the number of its task
  forked     \* the names that fork events have been executed for

table == <<resources, index_map>>
vars == <<stage, table, declared, tasks, events, handles, threads, forked>>

----------------------------------------------------------------------------
(* The resource table *)

Key(name, type) == [name |-> name, type |-> type]

\* Mutant: a resource of the same name will do, whatever its type.
GetOrCreateByName(tab, key) ==
  IF key \in DOMAIN tab.index_map THEN tab
  ELSE LET like == {k \in DOMAIN tab.index_map : k.name = key.name}
           idx  == IF like = {} THEN Len(tab.resources)
                                ELSE tab.index_map[CHOOSE k \in like : TRUE]
       IN  [ resources |-> IF like = {} THEN Append(tab.resources, key) ELSE tab.resources,
             index_map |-> [k \in DOMAIN tab.index_map \cup {key} |->
                              IF k = key THEN idx ELSE tab.index_map[k]] ]

\* get_or_create; indices count from 0.
GetOrCreate(tab, key) ==
  IF key \in DOMAIN tab.index_map THEN tab
  ELSE [ resources |-> Append(tab.resources, key),
         index_map |-> [k \in DOMAIN tab.index_map \cup {key} |->
                          IF k = key THEN Len(tab.resources)
                                     ELSE tab.index_map[k]] ]

\* The resources of one event: none, one or two, in this order.
Register(tab, keys) ==
  LET first == IF Len(keys) = 0 THEN tab ELSE GetOrCreate(tab, keys[1])
  IN  IF Len(keys) < 2 THEN first ELSE GetOrCreate(first, keys[2])

Table == [resources |-> resources, index_map |-> index_map]

\* Mutant: no tag.
TaggedNot(name, task) == name

\* A mem buffer and a unique timer carry the index of their task, from 0.
Tagged(name, task) == name \o Hex[task - 1]

\* What the event refers to: resource and dependency.
KeysOf(kind, task, name, ref, mutex) ==
  CASE kind \in {"Lock", "Unlock"}      -> <<Key(ref, "Mutex")>>
    [] kind \in {"Signal", "Broadcast"} -> <<Key(ref, "Wait")>>
    [] kind \in {"Wait", "Sync"}        -> <<Key(ref, "Wait"), Key(mutex, "Mutex")>>
    [] kind = "Barrier"                 -> <<Key(ref, "Barrier")>>
    [] kind = "Timer"   -> IF ref \in Unique
                           THEN <<Key(Tagged(ref, task), "TimerUnique")>>
                           ELSE <<Key(ref, "Timer")>>
    [] kind = "Suspend" -> <<Key(name, "Wait"), Key(name, "Mutex")>>
    [] kind = "Resume"  -> <<Key(ref, "Wait"), Key(ref, "Mutex")>>
    [] kind = "Mem"     -> <<Key(Tagged(<<"mem">>, task), "Mem")>>
    [] kind = "IoRun"   -> <<Key(Tagged(<<"mem">>, task), "Mem"),
                             Key(<<"io_device">>, "IoRun")>>
    [] kind = "Fork"    -> <<Key(ref, "Fork")>>
    [] OTHER            -> <<>> \* Run, Runtime, Sleep, Yield

----------------------------------------------------------------------------
(* Parsing *)

Init ==
  /\ stage = "resources"
  /\ resources = <<>> /\ index_map = [k \in {} |-> 0]
  /\ declared = {}
  /\ tasks = <<>> /\ events = <<>>
  /\ handles = <<>> /\ threads = <<>> /\ forked = {}

\* Any error ends the program before anything is built.
Fail == /\ stage' = "failed"
        /\ UNCHANGED <<table, declared, tasks, events, handles, threads, forked>>

SetTable(tab) == /\ resources' = tab.resources
                 /\ index_map' = tab.index_map

\* An entry of the "resources" section.
DeclaredTypes == {"Mutex", "Timer", "Wait", "Barrier", "Mem", "IoRun"}

Declare(name, type) ==
  /\ stage = "resources" /\ name \notin declared
  /\ Cardinality(declared) < MaxDeclared
  /\ declared' = declared \cup {name}
  /\ SetTable(GetOrCreate(Table, Key(name, type)))
  /\ UNCHANGED <<stage, tasks, events, handles, threads, forked>>

DeclareUnknownType == stage = "resources" /\ Fail

\* The phase being parsed, the last of the last task.
InPhase(n) == /\ events[n].task = Len(tasks)
              /\ events[n].phase = tasks[Len(tasks)].phases

\* It may be followed by another: there is none yet, or it has an event.
PhaseDone == tasks[Len(tasks)].phases = 0 \/ \E n \in DOMAIN events : InPhase(n)

\* "instance" is read with `as u32`.
StartTask(name, instance) ==
  /\ stage \in {"resources", "tasks"} /\ Len(tasks) < MaxTasks
  /\ \A t \in DOMAIN tasks : tasks[t].name # name
  /\ tasks # <<>> => PhaseDone
  /\ stage' = "tasks"
  /\ tasks' = Append(tasks, [name |-> name, num_instances |-> instance % U32, phases |-> 0])
  /\ UNCHANGED <<table, declared, events, handles, threads, forked>>

\* A member of "phases", or the task itself when it has none.
StartPhase ==
  /\ stage = "tasks" /\ PhaseDone /\ Len(events) < MaxEvents
  /\ tasks' = [tasks EXCEPT ![Len(tasks)].phases = @ + 1]
  /\ UNCHANGED <<stage, table, declared, events, handles, threads, forked>>

\* NoEvents, or an event whose value has the wrong type.
ParseFails == stage = "tasks" /\ Fail

ParseEvent(kind, ref, mutex) ==
  LET task == Len(tasks)
      keys == KeysOf(kind, task, tasks[task].name, ref, mutex)
      tab  == Register(Table, keys)
  IN  /\ stage = "tasks" /\ tasks[task].phases > 0 /\ Len(events) < MaxEvents
      /\ SetTable(tab)
      /\ events' = Append(events,
           [ task  |-> task, phase |-> tasks[task].phases, kind |-> kind, ref |-> ref,
             keys  |-> keys,
             at    |-> [i \in 1..Len(keys) |-> tab.index_map[keys[i]]] ])
      /\ UNCHANGED <<stage, declared, tasks, handles, threads, forked>>

----------------------------------------------------------------------------
(* Building and spawning *)

\* BarrierCounter::from_tasks, in u32: every barrier event counts once for
\* each instance of its task.
BarrierUses(idx) ==
  {n \in DOMAIN events : events[n].kind = "Barrier" /\ events[n].at[1] = idx}

\* Mutant: a task counts once, however many instances it has.
BarrierCountEvents(idx) == Cardinality(BarrierUses(idx)) % U32

BarrierSum(idx) ==
  SumFunctionOnSet([n \in DOMAIN events |-> tasks[events[n].task].num_instances],
                   BarrierUses(idx))

BarrierCount(idx) == BarrierSum(idx) % U32

\* BarrierCounter::get.
BarrierTotal(idx) == IF BarrierCount(idx) < 1 THEN 1 ELSE BarrierCount(idx)

\* Mutant: a buffer that only iorun events use is not one.
HandleKindNoMem(type) ==
  CASE type = "Wait"                     -> "Condvar"
    [] type \in {"Timer", "TimerUnique"} -> "Timer"
    [] type = "Barrier"                  -> "Barrier"
    [] type = "Fork"                     -> "Fork"
    [] OTHER                             -> "Mutex"

\* resource_config_to_handle.
HandleKind(type) ==
  CASE type = "Wait"                     -> "Condvar"
    [] type \in {"Timer", "TimerUnique"} -> "Timer"
    [] type = "Barrier"                  -> "Barrier"
    [] type \in {"Mem", "IoRun"}         -> "IoMem"
    [] type = "Fork"                     -> "Fork"
    [] OTHER                             -> "Mutex"

Handle(idx, type) ==
  [ kind  |-> HandleKind(type),
    total |-> IF type = "Barrier" THEN BarrierTotal(idx) ELSE 0 ]

Build ==
  /\ stage \in {"resources", "tasks"}
  /\ tasks # <<>> => PhaseDone
  /\ stage' = "built"
  /\ handles' = [i \in 1..Len(resources) |-> Handle(i - 1, resources[i].type)]
  /\ UNCHANGED <<table, declared, tasks, events, threads, forked>>

\* The instances of a task that run already.
Running(t) == {n \in DOMAIN threads : threads[n] = t}

\* One pass of the loops over the tasks and their instances.
SpawnThread(t) ==
  /\ stage = "built"
  /\ Cardinality(Running(t)) < tasks[t].num_instances
  /\ \A s \in 1..(t - 1) : Cardinality(Running(s)) = tasks[s].num_instances
  /\ threads' = Append(threads, t)
  /\ UNCHANGED <<stage, table, declared, tasks, events, handles, forked>>

\* All are there, and pass the startup barrier.
Start ==
  /\ stage = "built"
  /\ \A t \in DOMAIN tasks : Cardinality(Running(t)) = tasks[t].num_instances
  /\ stage' = "running"
  /\ UNCHANGED <<table, declared, tasks, events, handles, threads, forked>>

\* A thread comes to a fork event: run_event leaves it to its caller, and
\* run_phase does nothing about it.
RunFork(thread, n) ==
  /\ stage = "running"
  /\ events[n].kind = "Fork" /\ events[n].task = threads[thread]
  /\ forked' = forked \cup {events[n].ref}
  /\ UNCHANGED <<stage, table, declared, tasks, events, handles, threads>>

Next ==
  \/ \E name \in Names, type \in DeclaredTypes : Declare(name, type)
  \/ DeclareUnknownType
  \/ \E name \in Names, instance \in Instances : StartTask(name, instance)
  \/ StartPhase
  \/ \E kind \in Kinds, ref \in Names, mutex \in Names : ParseEvent(kind, ref, mutex)
  \/ ParseFails
  \/ Build
  \/ \E t \in DOMAIN tasks : SpawnThread(t)
  \/ Start
  \/ \E thread \in DOMAIN threads, n \in DOMAIN events : RunFork(thread, n)

Spec == Init /\ [][Next]_vars

----------------------------------------------------------------------------
(* Properties *)

\* The resources a configuration can come to.
AllNames ==
  Names \cup {Tagged(name, task) : name \in Unique \cup {<<"mem">>}, task \in 1..MaxTasks}
        \cup {<<"io_device">>}

AllTypes == DeclaredTypes \cup {"TimerUnique", "Fork"}

AllKeys == [name : AllNames, type : AllTypes]

TaskConfig == [name : Names, num_instances : 0..(U32 - 1), phases : Nat]

EventConfig == [ task : 1..MaxTasks, phase : Nat, kind : Kinds, ref : Names,
                 keys : Seq(AllKeys), at : Seq(Nat) ]

Stages == {"resources", "tasks", "built", "running", "failed"}

TypeOK ==
  /\ stage \in Stages
  /\ resources \in Seq(AllKeys)
  /\ DOMAIN index_map \subseteq AllKeys
  /\ declared \subseteq Names
  /\ tasks \in Seq(TaskConfig)
  /\ Len(tasks) <= MaxTasks
  /\ events \in Seq(EventConfig)
  /\ threads \in Seq(1..MaxTasks)
  /\ forked \subseteq Names

\* The list of resources and the map that get_or_create looks into are inverse
\* to each other, whatever the order in which declarations and events come.
TableAgrees ==
  /\ \A key \in DOMAIN index_map :
       index_map[key] \in 0..(Len(resources) - 1) /\ resources[index_map[key] + 1] = key
  /\ \A i \in 1..Len(resources) :
       resources[i] \in DOMAIN index_map /\ index_map[resources[i]] = i - 1

\* The indices an event keeps go on naming the resources it was parsed with,
\* however much the table grows behind it.
EventsResolve ==
  \A n \in DOMAIN events : \A i \in DOMAIN events[n].keys :
    /\ events[n].at[i] \in 0..(Len(resources) - 1)
    /\ resources[events[n].at[i] + 1] = events[n].keys[i]

\* The handle that run_event asks for; if it finds another kind there, it skips
\* the event without a word.
Wanted(kind) ==
  CASE kind = "Lock"                                  -> <<"Mutex">>
    [] kind \in {"Signal", "Broadcast"}               -> <<"Condvar">>
    [] kind \in {"Wait", "Sync", "Suspend", "Resume"} -> <<"Condvar", "Mutex">>
    [] kind = "Barrier"                               -> <<"Barrier">>
    [] kind = "Timer"                                 -> <<"Timer">>
    [] kind \in {"Mem", "IoRun"}                      -> <<"IoMem">>
    [] OTHER                                          -> <<>>

\* No event is ever skipped for want of its resource (timers that are not
\* unique: the others look into another list).
HandlesFit ==
  stage = "running" =>
    \A n \in DOMAIN events : \A i \in DOMAIN Wanted(events[n].kind) :
      handles[events[n].at[i] + 1].kind = Wanted(events[n].kind)[i]

\* Threads meet at a handle exactly when their events name it: a resume finds
\* the suspend of the task it names, a wait the lock of its mutex, and nobody
\* else is in the way.
MeetByName ==
  \A m, n \in DOMAIN events :
    \A i \in DOMAIN events[m].keys, j \in DOMAIN events[n].keys :
      events[m].at[i] = events[n].at[j] <=> events[m].keys[i] = events[n].keys[j]

\* Two tasks never share a memory buffer.
BuffersApart ==
  \A m, n \in DOMAIN events :
    /\ events[m].kind \in {"Mem", "IoRun"} /\ events[n].kind \in {"Mem", "IoRun"}
    /\ events[m].task # events[n].task
    => events[m].at[1] # events[n].at[1]

\* The barrier events on a resource that the running threads have before them.
BarrierVisits(idx) ==
  {v \in (DOMAIN threads) \X BarrierUses(idx) : threads[v[1]] = events[v[2]].task}

\* A barrier expects as many arrivals as the threads that were spawned have
\* barrier events for it: BarrierCounter and spawn_threads agree, as long as
\* the sum stays below 2^32.
BarriersCountThreads ==
  stage = "running" =>
    \A i \in 1..Len(handles) :
      handles[i].kind = "Barrier" /\ BarrierVisits(i - 1) # {}
      => handles[i].total = Cardinality(BarrierVisits(i - 1))

\* What these rest on: events are parsed inside a task, the keys of an event
\* lead to the handles it wants, and there is a handle for every resource.
TaskOpen == stage = "tasks" => tasks # <<>>

KeysFit ==
  \A n \in DOMAIN events : \A i \in DOMAIN Wanted(events[n].kind) :
    /\ i \in DOMAIN events[n].keys
    /\ HandleKind(events[n].keys[i].type) = Wanted(events[n].kind)[i]

HandlesBuilt ==
  stage \in {"built", "running"} =>
    /\ DOMAIN handles = 1..Len(resources)
    /\ \A i \in 1..Len(resources) : handles[i].kind = HandleKind(resources[i].type)

IInv == TypeOK /\ TableAgrees /\ EventsResolve /\ TaskOpen /\ KeysFit /\ HandlesBuilt

\* What BarriersCountThreads rests on: an event is one of a task that is there,
\* the totals are still those of the events and tasks of now, and a task has as
\* many threads as it has instances.
EventsInTasks == \A n \in DOMAIN events : events[n].task \in DOMAIN tasks

TotalsBuilt ==
  stage \in {"built", "running"} =>
    \A i \in 1..Len(resources) : handles[i] = Handle(i - 1, resources[i].type)

AllSpawned ==
  stage = "running" =>
    \A t \in DOMAIN tasks : Cardinality(Running(t)) = tasks[t].num_instances

SpawnInv == EventsInTasks /\ TotalsBuilt /\ AllSpawned

\* No sum of a barrier comes to 2^32.
SumsFit == \A i \in 1..Len(handles) : BarrierSum(i - 1) < U32
============================================================================
