---------------------------- MODULE ConfigProofs ----------------------------
(***************************************************************************)
(* Proofs about what config/tasks.rs makes of a configuration, of any      *)
(* size: Workload first, then Scheduling.                                  *)
(*                                                                         *)
(* Workload: get_or_create keeps the list and the map inverse to each      *)
(* other and never changes what an index stands for; the indices that      *)
(* events keep are therefore those of the resources they name, and two     *)
(* events have the same index only if they name the same resource.  What   *)
(* a barrier is built for is a sum over the events that use it, and the    *)
(* spawn loop makes as many threads as each of its terms says.             *)
(*                                                                         *)
(* Scheduling: the invariant says after which of the two system calls      *)
(* which part of what the task asks for is in the kernel; the second call  *)
(* leaves the first part alone because it keeps all parameters, and the    *)
(* first the clamps because it takes those there are.                      *)
(***************************************************************************)
EXTENDS Workload, Scheduling, SequenceTheorems, FoldTheorems

\* A table whose list and map are inverse to each other.
Sound(tab) ==
  /\ tab.resources \in Seq(AllKeys)
  /\ DOMAIN tab.index_map \subseteq AllKeys
  /\ \A key \in DOMAIN tab.index_map :
       /\ tab.index_map[key] \in 0..(Len(tab.resources) - 1)
       /\ tab.resources[tab.index_map[key] + 1] = key
  /\ \A i \in 1..Len(tab.resources) :
       /\ tab.resources[i] \in DOMAIN tab.index_map
       /\ tab.index_map[tab.resources[i]] = i - 1

\* The second table has everything the first one has, at the same index.
Grown(tab, new) ==
  /\ Len(tab.resources) <= Len(new.resources)
  /\ \A i \in 1..Len(tab.resources) : new.resources[i] = tab.resources[i]
  /\ DOMAIN tab.index_map \subseteq DOMAIN new.index_map

----------------------------------------------------------------------------
(* get_or_create *)

\* It keeps a table sound, keeps what is there and provides the key.
LEMMA GetOrCreateSound ==
  ASSUME NEW tab, NEW key \in AllKeys, Sound(tab)
  PROVE  /\ Sound(GetOrCreate(tab, key))
         /\ Grown(tab, GetOrCreate(tab, key))
         /\ key \in DOMAIN GetOrCreate(tab, key).index_map
<1> DEFINE new == GetOrCreate(tab, key)
           n   == Len(tab.resources)
<1>1. CASE key \in DOMAIN tab.index_map
  BY <1>1 DEF GetOrCreate, Sound, Grown
<1>2. CASE key \notin DOMAIN tab.index_map
  <2>1. /\ new.resources = Append(tab.resources, key)
        /\ new.index_map = [k \in DOMAIN tab.index_map \cup {key} |->
                              IF k = key THEN n ELSE tab.index_map[k]]
    BY <1>2 DEF GetOrCreate
  <2>2. /\ new.resources \in Seq(AllKeys) /\ n \in Nat
        /\ Len(new.resources) = n + 1
        /\ \A i \in 1..n : new.resources[i] = tab.resources[i]
        /\ new.resources[n + 1] = key
    BY <2>1 DEF Sound
  <2>3. \A k \in DOMAIN new.index_map :
          /\ k \in AllKeys
          /\ new.index_map[k] \in 0..(Len(new.resources) - 1)
          /\ new.resources[new.index_map[k] + 1] = k
    <3>1. TAKE k \in DOMAIN new.index_map
    <3>2. CASE k = key
      BY <3>2, <2>1, <2>2
    <3>3. CASE k # key
      <4>1. /\ k \in DOMAIN tab.index_map /\ new.index_map[k] = tab.index_map[k]
            /\ k \in AllKeys
        BY <3>3, <2>1 DEF Sound
      <4>2. tab.index_map[k] \in 0..(n - 1) /\ tab.resources[tab.index_map[k] + 1] = k
        BY <4>1 DEF Sound
      <4>3. /\ tab.index_map[k] + 1 \in 1..n
            /\ tab.index_map[k] \in 0..((n + 1) - 1)
        BY <4>2, <2>2
      <4>4. new.resources[tab.index_map[k] + 1] = k
        BY <4>2, <4>3, <2>2
      <4>5. QED
        BY <4>1, <4>3, <4>4, <2>2
    <3>4. QED
      BY <3>2, <3>3
  <2>4. \A i \in 1..Len(new.resources) :
          /\ new.resources[i] \in DOMAIN new.index_map
          /\ new.index_map[new.resources[i]] = i - 1
    <3>1. TAKE i \in 1..Len(new.resources)
    <3>2. CASE i = n + 1
      BY <3>2, <2>1, <2>2
    <3>3. CASE i \in 1..n
      <4>1. /\ tab.resources[i] \in DOMAIN tab.index_map
            /\ tab.index_map[tab.resources[i]] = i - 1
        BY <3>3 DEF Sound
      <4>2. tab.resources[i] # key
        BY <4>1, <1>2
      <4>3. QED
        BY <3>3, <4>1, <4>2, <2>1, <2>2
    <3>4. QED
      BY <3>2, <3>3, <2>2
  <2>5. Sound(new)
    BY <2>2, <2>3, <2>4 DEF Sound
  <2>6. Grown(tab, new) /\ key \in DOMAIN new.index_map
    BY <2>1, <2>2 DEF Grown
  <2>7. QED
    BY <2>5, <2>6
<1>3. QED
  BY <1>1, <1>2

\* Growth adds up.
LEMMA GrownTwice ==
  ASSUME NEW a, NEW b, NEW c, Sound(a), Sound(b), Sound(c), Grown(a, b), Grown(b, c)
  PROVE  Grown(a, c)
<1>1. Len(a.resources) \in Nat /\ Len(b.resources) \in Nat /\ Len(c.resources) \in Nat
  BY DEF Sound
<1>2. QED
  BY <1>1 DEF Grown

\* In a table that has grown, a key keeps its index.
LEMMA SameIndex ==
  ASSUME NEW tab, NEW new, Sound(tab), Sound(new), Grown(tab, new),
         NEW key \in DOMAIN tab.index_map
  PROVE  new.index_map[key] = tab.index_map[key]
<1>1. /\ tab.index_map[key] \in 0..(Len(tab.resources) - 1)
      /\ tab.resources[tab.index_map[key] + 1] = key
      /\ Len(tab.resources) \in Nat /\ Len(new.resources) \in Nat
  BY DEF Sound
<1>2. tab.index_map[key] + 1 \in 1..Len(tab.resources)
  BY <1>1
<1>3. /\ new.resources[tab.index_map[key] + 1] = key
      /\ tab.index_map[key] + 1 \in 1..Len(new.resources)
  BY <1>1, <1>2 DEF Grown
<1>4. new.index_map[key] = (tab.index_map[key] + 1) - 1
  BY <1>3 DEF Sound
<1>5. QED
  BY <1>1, <1>4

\* The same for the resources of one event.
LEMMA RegisterSound ==
  ASSUME NEW tab, NEW keys \in Seq(AllKeys), Len(keys) \in {0, 1, 2}, Sound(tab)
  PROVE  /\ Sound(Register(tab, keys))
         /\ Grown(tab, Register(tab, keys))
         /\ \A i \in 1..Len(keys) : keys[i] \in DOMAIN Register(tab, keys).index_map
<1>1. CASE Len(keys) = 0
  BY <1>1 DEF Register, Grown, Sound
<1>2. CASE Len(keys) = 1
  <2>1. keys[1] \in AllKeys /\ Register(tab, keys) = GetOrCreate(tab, keys[1])
    BY <1>2 DEF Register
  <2>2. QED
    BY <1>2, <2>1, GetOrCreateSound
<1>3. CASE Len(keys) = 2
  <2> DEFINE one == GetOrCreate(tab, keys[1])
             two == GetOrCreate(one, keys[2])
  <2>1. keys[1] \in AllKeys /\ keys[2] \in AllKeys /\ Register(tab, keys) = two
    BY <1>3 DEF Register
  <2>2. Sound(one) /\ Grown(tab, one) /\ keys[1] \in DOMAIN one.index_map
    BY <2>1, GetOrCreateSound
  <2>3. Sound(two) /\ Grown(one, two) /\ keys[2] \in DOMAIN two.index_map
    BY <2>1, <2>2, GetOrCreateSound
  <2>4. Grown(tab, two)
    BY <2>2, <2>3, GrownTwice
  <2>5. keys[1] \in DOMAIN two.index_map
    BY <2>2, <2>3 DEF Grown
  <2>6. QED
    BY <1>3, <2>1, <2>3, <2>4, <2>5
<1>4. QED
  BY <1>1, <1>2, <1>3

\* What an event refers to: at most two resources.
LEMMA KeysOfTyped ==
  ASSUME NEW kind, NEW task \in 1..MaxTasks, NEW name \in Names,
         NEW ref \in Names, NEW mutex \in Names
  PROVE  /\ KeysOf(kind, task, name, ref, mutex) \in Seq(AllKeys)
         /\ Len(KeysOf(kind, task, name, ref, mutex)) \in {0, 1, 2}
<1>1. /\ name \in AllNames /\ ref \in AllNames /\ mutex \in AllNames
      /\ <<"io_device">> \in AllNames
      /\ Tagged(<<"mem">>, task) \in AllNames
      /\ ref \in Unique => Tagged(ref, task) \in AllNames
  BY DEF AllNames
<1>2. \A n \in AllNames, type \in AllTypes : Key(n, type) \in AllKeys
  BY DEF Key, AllKeys
<1>3. {"Mutex", "Wait", "Barrier", "Timer", "TimerUnique", "Mem", "IoRun", "Fork"}
        \subseteq AllTypes
  BY DEF AllTypes, DeclaredTypes
<1>4. /\ \A a \in AllKeys : <<a>> \in Seq(AllKeys) /\ Len(<<a>>) = 1
      /\ \A a, b \in AllKeys : <<a, b>> \in Seq(AllKeys) /\ Len(<<a, b>>) = 2
      /\ <<>> \in Seq(AllKeys) /\ Len(<<>>) = 0
  OBVIOUS
<1>5. QED
  BY <1>1, <1>2, <1>3, <1>4 DEF KeysOf

\* The first keys of an event lead to the handles that run_event wants.
LEMMA KeysOfFit ==
  ASSUME NEW kind, NEW task, NEW name, NEW ref, NEW mutex
  PROVE  \A i \in DOMAIN Wanted(kind) :
           /\ i \in DOMAIN KeysOf(kind, task, name, ref, mutex)
           /\ HandleKind(KeysOf(kind, task, name, ref, mutex)[i].type) = Wanted(kind)[i]
<1> DEFINE keys == KeysOf(kind, task, name, ref, mutex)
<1>1. CASE kind = "Lock"
  BY <1>1 DEF Wanted, KeysOf, Key, HandleKind
<1>2. CASE kind = "Signal"
  BY <1>2 DEF Wanted, KeysOf, Key, HandleKind
<1>3. CASE kind = "Broadcast"
  BY <1>3 DEF Wanted, KeysOf, Key, HandleKind
<1>4. CASE kind = "Wait"
  BY <1>4 DEF Wanted, KeysOf, Key, HandleKind
<1>5. CASE kind = "Sync"
  BY <1>5 DEF Wanted, KeysOf, Key, HandleKind
<1>6. CASE kind = "Suspend"
  BY <1>6 DEF Wanted, KeysOf, Key, HandleKind
<1>7. CASE kind = "Resume"
  BY <1>7 DEF Wanted, KeysOf, Key, HandleKind
<1>8. CASE kind = "Barrier"
  BY <1>8 DEF Wanted, KeysOf, Key, HandleKind
<1>9. CASE kind = "Timer"
  BY <1>9 DEF Wanted, KeysOf, Key, HandleKind
<1>10. CASE kind = "Mem"
  BY <1>10 DEF Wanted, KeysOf, Key, HandleKind
<1>11. CASE kind = "IoRun"
  BY <1>11 DEF Wanted, KeysOf, Key, HandleKind
<1>12. CASE kind \notin {"Lock", "Signal", "Broadcast", "Wait", "Sync", "Suspend", "Resume",
                        "Barrier", "Timer", "Mem", "IoRun"}
  BY <1>12 DEF Wanted
<1>13. QED
  BY <1>1, <1>2, <1>3, <1>4, <1>5, <1>6, <1>7, <1>8, <1>9, <1>10, <1>11, <1>12

----------------------------------------------------------------------------
(* The invariant *)

\* The table of a state is sound.
LEMMA TableSound ==
  ASSUME TypeOK, TableAgrees
  PROVE  Sound(Table)
BY DEF TypeOK, TableAgrees, Sound, Table

\* A step that grows the table and leaves the events alone.
LEMMA TableGrows ==
  ASSUME IInv, NEW tab, Sound(tab), Grown(Table, tab), SetTable(tab), UNCHANGED events
  PROVE  /\ resources' \in Seq(AllKeys) /\ DOMAIN index_map' \subseteq AllKeys
         /\ TableAgrees' /\ EventsResolve'
<1>1. /\ tab.resources = resources' /\ tab.index_map = index_map'
      /\ Len(resources) \in Nat /\ Len(resources') \in Nat
  BY DEF SetTable, Sound, IInv, TypeOK
<1>2. /\ resources' \in Seq(AllKeys) /\ DOMAIN index_map' \subseteq AllKeys /\ TableAgrees'
  BY <1>1 DEF Sound, TableAgrees
<1>3. EventsResolve'
  <2>1. /\ Len(resources) <= Len(resources')
        /\ \A i \in 1..Len(resources) : resources'[i] = resources[i]
    BY <1>1 DEF Grown, Table
  <2>2. ASSUME NEW n \in DOMAIN events, NEW i \in DOMAIN events[n].keys
        PROVE  /\ events[n].at[i] \in 0..(Len(resources') - 1)
               /\ resources'[events[n].at[i] + 1] = events[n].keys[i]
    <3>1. /\ events[n].at[i] \in 0..(Len(resources) - 1)
          /\ resources[events[n].at[i] + 1] = events[n].keys[i]
      BY DEF IInv, EventsResolve
    <3>2. events[n].at[i] + 1 \in 1..Len(resources)
      BY <3>1, <1>1
    <3>3. resources'[events[n].at[i] + 1] = events[n].keys[i]
      BY <3>1, <3>2, <2>1
    <3>4. events[n].at[i] \in 0..(Len(resources') - 1)
      BY <3>1, <2>1, <1>1
    <3>5. QED
      BY <3>3, <3>4
  <2>3. QED
    BY <2>2 DEF EventsResolve
<1>4. QED
  BY <1>2, <1>3

\* An event of the configuration: it is registered, and the indices of its
\* resources are looked up in the table that results.
LEMMA ParseEventKeeps ==
  ASSUME IInv, NEW kind \in Kinds, NEW ref \in Names, NEW mutex \in Names,
         ParseEvent(kind, ref, mutex)
  PROVE  IInv'
<1> DEFINE task  == Len(tasks)
           keys  == KeysOf(kind, task, tasks[task].name, ref, mutex)
           tab   == Register(Table, keys)
           event == [ task |-> task, phase |-> tasks[task].phases, kind |-> kind,
                      ref |-> ref, keys |-> keys,
                      at |-> [i \in 1..Len(keys) |-> tab.index_map[keys[i]]] ]
<1>1. /\ stage = "tasks" /\ SetTable(tab) /\ events' = Append(events, event)
      /\ UNCHANGED <<stage, declared, tasks, handles, threads, forked>>
  BY DEF ParseEvent
<1>2. /\ TypeOK /\ TableAgrees /\ EventsResolve /\ TaskOpen /\ KeysFit
  BY DEF IInv
<1>3. task \in 1..MaxTasks /\ tasks[task].name \in Names /\ tasks[task].phases \in Nat
  <2>1. tasks # <<>> /\ tasks \in Seq(TaskConfig)
    BY <1>1, <1>2 DEF TaskOpen, TypeOK
  <2>2. task \in 1..Len(tasks)
    BY <2>1
  <2>3. Len(tasks) <= MaxTasks /\ MaxTasks \in Nat /\ Len(tasks) \in Nat
    BY <1>2, <2>1, WorkloadAssumption DEF TypeOK
  <2>4. task \in 1..MaxTasks
    BY <2>2, <2>3
  <2>5. tasks[task] \in TaskConfig
    BY <2>1, <2>2, ElementOfSeq
  <2>6. QED
    BY <2>4, <2>5 DEF TaskConfig
<1>4. keys \in Seq(AllKeys) /\ Len(keys) \in {0, 1, 2}
  BY <1>3, KeysOfTyped
<1>5. Sound(Table)
  BY <1>2, TableSound
<1>6. /\ Sound(tab) /\ Grown(Table, tab)
      /\ \A i \in 1..Len(keys) : keys[i] \in DOMAIN tab.index_map
  BY <1>4, <1>5, RegisterSound
<1>7. /\ tab.resources = resources' /\ tab.index_map = index_map'
      /\ Len(resources) \in Nat /\ Len(resources') \in Nat
  <2>1. tab.resources = resources' /\ tab.index_map = index_map'
    BY <1>1 DEF SetTable
  <2>2. resources \in Seq(AllKeys)
    BY <1>2 DEF TypeOK
  <2>3. tab.resources \in Seq(AllKeys)
    BY <1>6 DEF Sound
  <2> HIDE DEF tab
  <2>4. QED
    BY <2>1, <2>2, <2>3
<1>8. /\ resources' \in Seq(AllKeys) /\ DOMAIN index_map' \subseteq AllKeys /\ TableAgrees'
  BY <1>6, <1>7 DEF Sound, TableAgrees
<1>9. \A i \in 1..Len(keys) : /\ event.at[i] \in 0..(Len(resources') - 1)
                              /\ resources'[event.at[i] + 1] = keys[i]
  BY <1>6, <1>7 DEF Sound
<1>10. event.at \in Seq(Nat)
  <2>1. event.at \in [1..Len(keys) -> Nat] /\ Len(keys) \in Nat
    BY <1>4, <1>7, <1>9
  <2>2. QED
    BY <2>1, SeqDef
<1>11. event \in EventConfig
  BY <1>3, <1>4, <1>10 DEF EventConfig
<1>12. events' \in Seq(EventConfig)
  BY <1>1, <1>2, <1>11, AppendProperties DEF TypeOK
<1>13. TypeOK'
  BY <1>1, <1>2, <1>8, <1>12 DEF TypeOK
<1>14. ASSUME NEW n \in DOMAIN events'
       PROVE  \/ n \in DOMAIN events /\ events'[n] = events[n]
              \/ events'[n] = event
  <2>1. events \in Seq(EventConfig) /\ Len(events) \in Nat
    BY <1>2 DEF TypeOK
  <2>2. n \in 1..(Len(events) + 1)
    BY <1>1, <1>11, <2>1, AppendProperties, LenProperties
  <2>3. CASE n \in 1..Len(events)
    BY <1>1, <1>11, <2>1, <2>3, AppendProperties
  <2>4. CASE n = Len(events) + 1
    BY <1>1, <1>11, <2>1, <2>4, AppendProperties
  <2>5. QED
    BY <2>1, <2>2, <2>3, <2>4
<1>15. EventsResolve'
  <2>1. /\ Len(resources) <= Len(resources')
        /\ \A i \in 1..Len(resources) : resources'[i] = resources[i]
    BY <1>6, <1>7 DEF Grown, Table
  <2>2. ASSUME NEW n \in DOMAIN events, NEW i \in DOMAIN events[n].keys
        PROVE  /\ events[n].at[i] \in 0..(Len(resources') - 1)
               /\ resources'[events[n].at[i] + 1] = events[n].keys[i]
    <3>1. /\ events[n].at[i] \in 0..(Len(resources) - 1)
          /\ resources[events[n].at[i] + 1] = events[n].keys[i]
      BY <1>2 DEF EventsResolve
    <3>2. events[n].at[i] + 1 \in 1..Len(resources)
      BY <3>1, <1>7
    <3>3. resources'[events[n].at[i] + 1] = events[n].keys[i]
      BY <3>1, <3>2, <2>1
    <3>4. events[n].at[i] \in 0..(Len(resources') - 1)
      BY <3>1, <2>1, <1>7
    <3>5. QED
      BY <3>3, <3>4
  <2>3. \A i \in DOMAIN event.keys : /\ event.at[i] \in 0..(Len(resources') - 1)
                                     /\ resources'[event.at[i] + 1] = event.keys[i]
    BY <1>4, <1>9
  <2>4. ASSUME NEW n \in DOMAIN events', NEW i \in DOMAIN events'[n].keys
        PROVE  /\ events'[n].at[i] \in 0..(Len(resources') - 1)
               /\ resources'[events'[n].at[i] + 1] = events'[n].keys[i]
    <3>1. CASE n \in DOMAIN events /\ events'[n] = events[n]
      BY <3>1, <2>2
    <3>2. CASE events'[n] = event
      <4> HIDE DEF event
      <4>1. QED
        BY <3>2, <2>3
    <3>3. QED
      BY <1>14, <3>1, <3>2
  <2>5. QED
    BY <2>4 DEF EventsResolve
<1>16. KeysFit'
  <2>1. \A i \in DOMAIN Wanted(event.kind) :
          /\ i \in DOMAIN event.keys
          /\ HandleKind(event.keys[i].type) = Wanted(event.kind)[i]
    BY KeysOfFit
  <2>2. QED
    BY <1>2, <1>14, <2>1 DEF KeysFit
<1>17. TaskOpen' /\ HandlesBuilt'
  BY <1>1, <1>2 DEF TaskOpen, HandlesBuilt
<1>18. QED
  BY <1>8, <1>13, <1>15, <1>16, <1>17 DEF IInv

\* Every state satisfies the invariant.
THEOREM InvariantHolds == Spec => []IInv
<1>1. Init => IInv
  BY WorkloadAssumption
  DEF Init, IInv, TypeOK, TableAgrees, EventsResolve, TaskOpen, KeysFit, HandlesBuilt, Stages
<1>2. IInv /\ [Next]_vars => IInv'
  <2> SUFFICES ASSUME IInv, [Next]_vars PROVE IInv'
    OBVIOUS
  <2> USE WorkloadAssumption
  <2>1. ASSUME NEW name \in Names, NEW type \in DeclaredTypes, Declare(name, type)
        PROVE  IInv'
    <3> DEFINE key == Key(name, type)
               tab == GetOrCreate(Table, key)
    <3>1. key \in AllKeys
      BY DEF Key, AllKeys, AllNames, AllTypes
    <3>2. Sound(tab) /\ Grown(Table, tab)
      BY <3>1, TableSound, GetOrCreateSound DEF IInv
    <3>3. SetTable(tab) /\ UNCHANGED events
      BY <2>1 DEF Declare
    <3>4. /\ resources' \in Seq(AllKeys) /\ DOMAIN index_map' \subseteq AllKeys
          /\ TableAgrees' /\ EventsResolve'
      BY <3>2, <3>3, TableGrows
    <3>5. TypeOK' /\ TaskOpen' /\ KeysFit' /\ HandlesBuilt'
      BY <2>1, <3>4 DEF Declare, IInv, TypeOK, TaskOpen, KeysFit, HandlesBuilt
    <3>6. QED
      BY <3>4, <3>5 DEF IInv
  <2>2. CASE DeclareUnknownType \/ ParseFails
    <3>1. Fail
      BY <2>2 DEF DeclareUnknownType, ParseFails
    <3>2. TypeOK'
      BY <3>1 DEF Fail, table, IInv, TypeOK, Stages
    <3>3. TableAgrees' /\ EventsResolve' /\ KeysFit' /\ TaskOpen' /\ HandlesBuilt'
      BY <3>1
      DEF Fail, table, IInv, TableAgrees, EventsResolve, KeysFit, TaskOpen, HandlesBuilt
    <3>4. QED
      BY <3>2, <3>3 DEF IInv
  <2>3. ASSUME NEW name \in Names, NEW instance \in Instances, StartTask(name, instance)
        PROVE  IInv'
    <3>0. instance % U32 \in 0..(U32 - 1)
      OBVIOUS
    <3>1. [name |-> name, num_instances |-> instance % U32, phases |-> 0] \in TaskConfig
      BY <3>0 DEF TaskConfig
    <3>2. TypeOK'
      BY <2>3, <3>1 DEF StartTask, table, IInv, TypeOK, Stages
    <3>3. TableAgrees' /\ EventsResolve' /\ KeysFit' /\ HandlesBuilt'
      BY <2>3
      DEF StartTask, table, IInv, TableAgrees, EventsResolve, KeysFit, HandlesBuilt
    <3>4. TaskOpen'
      BY <2>3 DEF StartTask, IInv, TypeOK, TaskOpen
    <3>5. QED
      BY <3>2, <3>3, <3>4 DEF IInv
  <2>4. CASE StartPhase
    <3> DEFINE last == Len(tasks)
               more == [tasks[last] EXCEPT !.phases = @ + 1]
    <3>1. tasks \in Seq(TaskConfig) /\ tasks # <<>>
      BY <2>4 DEF StartPhase, IInv, TypeOK, TaskOpen
    <3>2. last \in 1..Len(tasks)
      BY <3>1, EmptySeq
    <3>3. more \in TaskConfig
      <4>1. tasks[last] \in TaskConfig
        BY <3>1, <3>2, ElementOfSeq
      <4>2. QED
        BY <4>1 DEF TaskConfig
    <3>4. tasks' = [tasks EXCEPT ![last] = more]
      BY <2>4 DEF StartPhase
    <3>5. tasks' \in Seq(TaskConfig) /\ Len(tasks') = Len(tasks)
      BY <3>1, <3>2, <3>3, <3>4, ExceptSeq
    <3>6. TypeOK'
      BY <2>4, <3>5 DEF StartPhase, table, IInv, TypeOK
    <3>7. TaskOpen'
      BY <3>2, <3>5 DEF TaskOpen
    <3>8. TableAgrees' /\ EventsResolve' /\ KeysFit' /\ HandlesBuilt'
      BY <2>4
      DEF StartPhase, table, IInv, TableAgrees, EventsResolve, KeysFit, HandlesBuilt
    <3>9. QED
      BY <3>6, <3>7, <3>8 DEF IInv
  <2>5. ASSUME NEW kind \in Kinds, NEW ref \in Names, NEW mutex \in Names,
               ParseEvent(kind, ref, mutex)
        PROVE  IInv'
    BY <2>5, ParseEventKeeps
  <2>6. CASE Build
    <3>1. HandlesBuilt'
      BY <2>6 DEF Build, table, Handle, HandlesBuilt
    <3>2. TypeOK' /\ TableAgrees' /\ EventsResolve' /\ KeysFit' /\ TaskOpen'
      BY <2>6
      DEF Build, table, IInv, TypeOK, TableAgrees, EventsResolve, KeysFit, TaskOpen, Stages
    <3>3. QED
      BY <3>1, <3>2 DEF IInv
  <2>7. ASSUME NEW t \in DOMAIN tasks, SpawnThread(t)
        PROVE  IInv'
    <3>1. t \in 1..MaxTasks
      BY DEF IInv, TypeOK
    <3>2. TypeOK'
      BY <2>7, <3>1 DEF SpawnThread, table, IInv, TypeOK
    <3>3. TableAgrees' /\ EventsResolve' /\ KeysFit' /\ TaskOpen' /\ HandlesBuilt'
      BY <2>7
      DEF SpawnThread, table, IInv, TableAgrees, EventsResolve, KeysFit, TaskOpen,
          HandlesBuilt
    <3>4. QED
      BY <3>2, <3>3 DEF IInv
  <2>8. CASE Start
    BY <2>8
    DEF Start, table, IInv, TypeOK, TableAgrees, EventsResolve, TaskOpen, KeysFit,
        HandlesBuilt, Stages
  <2>9. ASSUME NEW thread \in DOMAIN threads, NEW n \in DOMAIN events, RunFork(thread, n)
        PROVE  IInv'
    <3>1. events[n].ref \in Names
      <4>1. events[n] \in EventConfig
        BY ElementOfSeq DEF IInv, TypeOK
      <4>2. QED
        BY <4>1 DEF EventConfig
    <3>2. QED
      BY <2>9, <3>1
      DEF RunFork, table, IInv, TypeOK, TableAgrees, EventsResolve, TaskOpen, KeysFit,
          HandlesBuilt
  <2>10. CASE UNCHANGED vars
    BY <2>10
    DEF vars, table, IInv, TypeOK, TableAgrees, EventsResolve, TaskOpen, KeysFit,
        HandlesBuilt
  <2>11. QED
    BY <2>1, <2>2, <2>3, <2>4, <2>5, <2>6, <2>7, <2>8, <2>9, <2>10 DEF Next
<1>3. QED
  BY <1>1, <1>2, PTL DEF Spec

\* The list and the map of the resource table stay inverse to each other.
THEOREM TableStaysSound == Spec => []TableAgrees
<1>1. IInv => TableAgrees
  BY DEF IInv
<1>2. QED
  BY <1>1, InvariantHolds, PTL

\* run_event never finds the wrong kind of handle.
THEOREM EventsFindTheirHandles == Spec => []HandlesFit
<1>1. IInv => HandlesFit
  <2> SUFFICES ASSUME IInv, stage = "running",
                      NEW n \in DOMAIN events, NEW i \in DOMAIN Wanted(events[n].kind)
               PROVE  handles[events[n].at[i] + 1].kind = Wanted(events[n].kind)[i]
    BY DEF HandlesFit
  <2>1. /\ i \in DOMAIN events[n].keys
        /\ HandleKind(events[n].keys[i].type) = Wanted(events[n].kind)[i]
    BY DEF IInv, KeysFit
  <2>2. /\ events[n].at[i] \in 0..(Len(resources) - 1)
        /\ resources[events[n].at[i] + 1] = events[n].keys[i]
    BY <2>1 DEF IInv, EventsResolve
  <2>3. Len(resources) \in Nat
    BY DEF IInv, TypeOK
  <2>4. events[n].at[i] + 1 \in 1..Len(resources)
    BY <2>2, <2>3
  <2>5. handles[events[n].at[i] + 1].kind = HandleKind(resources[events[n].at[i] + 1].type)
    BY <2>4 DEF IInv, HandlesBuilt
  <2>6. QED
    BY <2>1, <2>2, <2>5
<1>2. QED
  BY <1>1, InvariantHolds, PTL

\* Two events meet at a handle exactly when they name the same resource.
THEOREM EventsMeetByName == Spec => []MeetByName
<1>1. IInv => MeetByName
  <2> SUFFICES ASSUME IInv,
                      NEW m \in DOMAIN events, NEW n \in DOMAIN events,
                      NEW i \in DOMAIN events[m].keys, NEW j \in DOMAIN events[n].keys
               PROVE  events[m].at[i] = events[n].at[j] <=> events[m].keys[i] = events[n].keys[j]
    BY DEF MeetByName
  <2>1. /\ events[m].at[i] \in 0..(Len(resources) - 1)
        /\ resources[events[m].at[i] + 1] = events[m].keys[i]
        /\ events[n].at[j] \in 0..(Len(resources) - 1)
        /\ resources[events[n].at[j] + 1] = events[n].keys[j]
    BY DEF IInv, EventsResolve
  <2>2. /\ events[m].at[i] + 1 \in 1..Len(resources)
        /\ events[n].at[j] + 1 \in 1..Len(resources)
    <3>1. Len(resources) \in Nat
      BY DEF IInv, TypeOK
    <3>2. QED
      BY <2>1, <3>1
  <2>3. /\ index_map[events[m].keys[i]] = (events[m].at[i] + 1) - 1
        /\ index_map[events[n].keys[j]] = (events[n].at[j] + 1) - 1
    BY <2>1, <2>2 DEF IInv, TableAgrees
  <2>4. QED
    BY <2>1, <2>3
<1>2. QED
  BY <1>1, InvariantHolds, PTL

----------------------------------------------------------------------------
(* Buffers *)

\* The first key of an event with a buffer is the buffer of its task.
BuffersTagged ==
  \A n \in DOMAIN events : events[n].kind \in {"Mem", "IoRun"} =>
    /\ 1 \in DOMAIN events[n].keys
    /\ events[n].keys[1] = Key(Tagged(<<"mem">>, events[n].task), "Mem")

\* The characters of tags.
HexChars == {"0", "1", "2", "3", "4", "5", "6", "7", "8", "9", "a", "b", "c", "d", "e", "f"}

LEMMA HexAlphabet == IsAlphabet(HexDigits, HexChars)
<1>1. HexDigits \in Seq(HexChars) /\ Len(HexDigits) = 16
  BY DEF HexDigits, HexChars
<1>2. \A j, k \in 1..16 : HexDigits[j] = HexDigits[k] => j = k
  BY SMTT(60) DEF HexDigits
<1> HIDE DEF HexDigits
<1>3. QED
  BY <1>1, <1>2 DEF IsAlphabet

\* Two tasks have different tags, however long: {:x} writes every index
\* differently, and the name before it is the same.
LEMMA TagsDiffer ==
  ASSUME NEW s \in Nat \ {0}, NEW t \in Nat \ {0},
         Tagged(<<"mem">>, s) = Tagged(<<"mem">>, t)
  PROVE  s = t
<1> DEFINE C == HexChars \cup {"mem"}
           m == s - 1
           n == t - 1
<1>1. m \in Nat /\ n \in Nat
  OBVIOUS
<1>2. <<"mem">> \o Hex[m] = <<"mem">> \o Hex[n]
  BY DEF Tagged
<1> HIDE DEF m, n
<1>3. Hex[m] \in Seq(HexChars) /\ Hex[n] \in Seq(HexChars)
  BY <1>1, HexAlphabet, NumeralsAreText DEF Hex
<1>4. Hex[m] \in Seq(C) /\ Hex[n] \in Seq(C) /\ <<"mem">> \in Seq(C)
  BY <1>3
<1>5. Hex[m] = Hex[n]
  <2> HIDE DEF C
  <2> QED BY <1>2, <1>4, ConcatCancels
<1>6. m = n
  BY <1>1, <1>5, HexAlphabet, NumeralsDiffer DEF Hex
<1>7. QED
  BY <1>6 DEF m, n

LEMMA BuffersStayTagged == Spec => []BuffersTagged
<1>1. Init => BuffersTagged
  BY DEF Init, BuffersTagged
<1>2. IInv /\ BuffersTagged /\ [Next]_vars => BuffersTagged'
  <2> SUFFICES ASSUME IInv, BuffersTagged, [Next]_vars PROVE BuffersTagged'
    OBVIOUS
  <2>1. CASE UNCHANGED events
    BY <2>1 DEF BuffersTagged
  <2>2. ASSUME NEW kind \in Kinds, NEW ref \in Names, NEW mutex \in Names,
               ParseEvent(kind, ref, mutex)
        PROVE  BuffersTagged'
    <3> DEFINE task  == Len(tasks)
               keys  == KeysOf(kind, task, tasks[task].name, ref, mutex)
               tab   == Register(Table, keys)
               event == [ task |-> task, phase |-> tasks[task].phases, kind |-> kind,
                          ref |-> ref, keys |-> keys,
                          at |-> [i \in 1..Len(keys) |-> tab.index_map[keys[i]]] ]
    <3>1. events' = Append(events, event)
      BY <2>2 DEF ParseEvent
    <3>2. kind \in {"Mem", "IoRun"} =>
            1 \in DOMAIN keys /\ keys[1] = Key(Tagged(<<"mem">>, task), "Mem")
      <4>1. CASE kind = "Mem"
        <5>1. keys = <<Key(Tagged(<<"mem">>, task), "Mem")>>
          BY <4>1, Zenon DEF KeysOf
        <5>2. QED
          BY <5>1
      <4>2. CASE kind = "IoRun"
        <5>1. keys = <<Key(Tagged(<<"mem">>, task), "Mem"), Key(<<"io_device">>, "IoRun")>>
          BY <4>2, Zenon DEF KeysOf
        <5>2. QED
          BY <5>1
      <4>3. QED
        BY <4>1, <4>2
    <3>3. event.kind = kind /\ event.keys = keys /\ event.task = task
      OBVIOUS
    <3> HIDE DEF event, keys, tab, task
    <3>4. events \in Seq(EventConfig)
      BY DEF IInv, TypeOK
    <3>5. /\ DOMAIN events' = 1..(Len(events) + 1)
          /\ events'[Len(events) + 1] = event
          /\ \A n \in DOMAIN events : events'[n] = events[n]
      BY <3>1, <3>4
    <3>6. QED
      BY <3>2, <3>3, <3>4, <3>5 DEF BuffersTagged
  <2>3. QED
    BY <2>1, <2>2
    DEF Next, vars, table, Declare, DeclareUnknownType, Fail, StartTask, StartPhase,
        ParseFails, Build, SpawnThread, Start, RunFork
<1>3. QED
  BY <1>1, <1>2, InvariantHolds, PTL DEF Spec

\* Two tasks never share a memory buffer, however many they are and whatever
\* the configuration declares.
THEOREM BuffersAreApart == Spec => []BuffersApart
<1>1. IInv /\ BuffersTagged /\ MeetByName => BuffersApart
  <2> SUFFICES ASSUME IInv, BuffersTagged, MeetByName,
                      NEW m \in DOMAIN events, NEW n \in DOMAIN events,
                      events[m].kind \in {"Mem", "IoRun"}, events[n].kind \in {"Mem", "IoRun"},
                      events[m].at[1] = events[n].at[1]
               PROVE  events[m].task = events[n].task
    BY DEF BuffersApart
  <2>1. /\ 1 \in DOMAIN events[m].keys /\ 1 \in DOMAIN events[n].keys
        /\ events[m].keys[1] = Key(Tagged(<<"mem">>, events[m].task), "Mem")
        /\ events[n].keys[1] = Key(Tagged(<<"mem">>, events[n].task), "Mem")
    BY DEF BuffersTagged
  <2>2. events[m].keys[1] = events[n].keys[1]
    BY <2>1 DEF MeetByName
  <2>3. Tagged(<<"mem">>, events[m].task) = Tagged(<<"mem">>, events[n].task)
    BY <2>1, <2>2 DEF Key
  <2>4. events[m] \in EventConfig /\ events[n] \in EventConfig
    BY ElementOfSeq DEF IInv, TypeOK
  <2>5. events[m].task \in Nat \ {0} /\ events[n].task \in Nat \ {0}
    BY <2>4, WorkloadAssumption DEF EventConfig
  <2>6. QED
    BY <2>3, <2>5, TagsDiffer
<1>2. QED
  BY <1>1, BuffersStayTagged, InvariantHolds, EventsMeetByName, PTL

----------------------------------------------------------------------------
(* Barriers *)

\* Whatever does not touch the parsed configuration, the handles and the
\* threads keeps what is said of them, unless a run begins with it.
LEMMA SpawnInvKept ==
  ASSUME SpawnInv, UNCHANGED <<resources, events, tasks, handles>>,
         stage' \in {"built", "running"} => stage \in {"built", "running"},
         stage' = "running" => stage = "running" /\ UNCHANGED threads
  PROVE  SpawnInv'
<1>1. EventsInTasks'
  BY DEF SpawnInv, EventsInTasks
<1>2. \A i : Handle(i - 1, resources[i].type)' = Handle(i - 1, resources[i].type)
  BY DEF Handle, BarrierTotal, BarrierCount, BarrierSum, BarrierUses
<1>3. TotalsBuilt'
  BY <1>2 DEF SpawnInv, TotalsBuilt
<1>4. AllSpawned'
  BY DEF SpawnInv, AllSpawned, Running
<1>5. QED
  BY <1>1, <1>3, <1>4 DEF SpawnInv

\* An event is parsed inside the last task, and before anything is built.
LEMMA SpawnInvParsed ==
  ASSUME IInv, SpawnInv, stage' \in {"resources", "tasks"},
         DOMAIN tasks \subseteq DOMAIN tasks',
         \/ UNCHANGED events
         \/ \E event : events' = Append(events, event) /\ event.task \in DOMAIN tasks
  PROVE  SpawnInv'
<1>1. EventsInTasks'
  <2>1. CASE UNCHANGED events
    BY <2>1 DEF SpawnInv, EventsInTasks
  <2>2. ASSUME NEW event, events' = Append(events, event), event.task \in DOMAIN tasks
        PROVE  EventsInTasks'
    <3>1. events \in Seq(EventConfig)
      BY DEF IInv, TypeOK
    <3>2. /\ DOMAIN events' = 1..(Len(events) + 1)
          /\ events'[Len(events) + 1] = event
          /\ \A n \in 1..Len(events) : events'[n] = events[n] /\ n \in DOMAIN events
          /\ Len(events) \in Nat
      BY <2>2, <3>1
    <3>3. QED
      BY <2>2, <3>2 DEF SpawnInv, EventsInTasks
  <2>3. QED
    BY <2>1, <2>2
<1>2. QED
  BY <1>1 DEF SpawnInv, TotalsBuilt, AllSpawned

LEMMA SpawnInvHolds == Spec => []SpawnInv
<1>1. Init => SpawnInv
  BY DEF Init, SpawnInv, EventsInTasks, TotalsBuilt, AllSpawned
<1>2. IInv /\ SpawnInv /\ [Next]_vars => SpawnInv'
  <2> SUFFICES ASSUME IInv, SpawnInv, [Next]_vars PROVE SpawnInv'
    OBVIOUS
  <2>1. ASSUME NEW name \in Names, NEW type \in DeclaredTypes, Declare(name, type)
        PROVE  SpawnInv'
    BY <2>1, SpawnInvParsed DEF Declare
  <2>2. CASE DeclareUnknownType \/ ParseFails
    <3>1. Fail
      BY <2>2 DEF DeclareUnknownType, ParseFails
    <3>2. QED
      BY <3>1, SpawnInvKept DEF Fail, table
  <2>3. ASSUME NEW name \in Names, NEW instance \in Instances, StartTask(name, instance)
        PROVE  SpawnInv'
    <3>1. tasks \in Seq(TaskConfig)
      BY DEF IInv, TypeOK
    <3>2. DOMAIN tasks \subseteq DOMAIN tasks'
      BY <2>3, <3>1 DEF StartTask
    <3>3. QED
      BY <2>3, <3>2, SpawnInvParsed DEF StartTask
  <2>4. CASE StartPhase
    BY <2>4, SpawnInvParsed DEF StartPhase
  <2>5. ASSUME NEW kind \in Kinds, NEW ref \in Names, NEW mutex \in Names,
               ParseEvent(kind, ref, mutex)
        PROVE  SpawnInv'
    <3>1. tasks \in Seq(TaskConfig) /\ tasks # <<>>
      BY <2>5 DEF IInv, TypeOK, TaskOpen, ParseEvent
    <3>2. Len(tasks) \in DOMAIN tasks
      BY <3>1, EmptySeq
    <3> DEFINE keys  == KeysOf(kind, Len(tasks), tasks[Len(tasks)].name, ref, mutex)
               tab   == Register(Table, keys)
               event == [ task |-> Len(tasks), phase |-> tasks[Len(tasks)].phases,
                          kind |-> kind, ref |-> ref, keys |-> keys,
                          at |-> [i \in 1..Len(keys) |-> tab.index_map[keys[i]]] ]
    <3>3. events' = Append(events, event) /\ event.task = Len(tasks)
      BY <2>5, Zenon DEF ParseEvent
    <3> HIDE DEF event
    <3>4. UNCHANGED <<stage, tasks>> /\ stage = "tasks"
      BY <2>5 DEF ParseEvent
    <3>5. QED
      BY <3>2, <3>3, <3>4, SpawnInvParsed
  <2>6. CASE Build
    <3>1. /\ stage' = "built" /\ UNCHANGED <<resources, events, tasks>>
          /\ handles' = [i \in 1..Len(resources) |-> Handle(i - 1, resources[i].type)]
      BY <2>6 DEF Build, table
    <3>2. \A i : Handle(i - 1, resources[i].type)' = Handle(i - 1, resources[i].type)
      BY <3>1 DEF Handle, BarrierTotal, BarrierCount, BarrierSum, BarrierUses
    <3>3. TotalsBuilt'
      BY <3>1, <3>2 DEF TotalsBuilt
    <3>4. EventsInTasks' /\ AllSpawned'
      BY <3>1 DEF SpawnInv, EventsInTasks, AllSpawned
    <3>5. QED
      BY <3>3, <3>4 DEF SpawnInv
  <2>7. ASSUME NEW t \in DOMAIN tasks, SpawnThread(t) PROVE SpawnInv'
    BY <2>7, SpawnInvKept DEF SpawnThread, table
  <2>8. CASE Start
    <3>1. /\ stage = "built" /\ stage' = "running"
          /\ UNCHANGED <<resources, events, tasks, handles, threads>>
          /\ \A t \in DOMAIN tasks : Cardinality(Running(t)) = tasks[t].num_instances
      BY <2>8 DEF Start, table
    <3>2. AllSpawned'
      BY <3>1 DEF AllSpawned, Running
    <3>3. \A i : Handle(i - 1, resources[i].type)' = Handle(i - 1, resources[i].type)
      BY <3>1 DEF Handle, BarrierTotal, BarrierCount, BarrierSum, BarrierUses
    <3>4. TotalsBuilt' /\ EventsInTasks'
      BY <3>1, <3>3 DEF SpawnInv, TotalsBuilt, EventsInTasks
    <3>5. QED
      BY <3>2, <3>4 DEF SpawnInv
  <2>9. ASSUME NEW thread \in DOMAIN threads, NEW n \in DOMAIN events, RunFork(thread, n)
        PROVE  SpawnInv'
    BY <2>9, SpawnInvKept DEF RunFork, table
  <2>10. CASE UNCHANGED vars
    BY <2>10, SpawnInvKept DEF vars, table
  <2>11. QED
    BY <2>1, <2>2, <2>3, <2>4, <2>5, <2>6, <2>7, <2>8, <2>9, <2>10 DEF Next
<1>3. QED
  BY <1>1, <1>2, InvariantHolds, PTL DEF Spec

\* In a run, a barrier event is before as many threads as its task has instances.
LEMMA VisitsOfEvent ==
  ASSUME IInv, SpawnInv, stage = "running", NEW idx, NEW n \in BarrierUses(idx)
  PROVE  /\ IsFiniteSet({v \in BarrierVisits(idx) : v[2] = n})
         /\ Cardinality({v \in BarrierVisits(idx) : v[2] = n})
              = tasks[events[n].task].num_instances
<1> DEFINE t == events[n].task
           visits == {v \in BarrierVisits(idx) : v[2] = n}
<1>1. t \in DOMAIN tasks
  BY DEF BarrierUses, SpawnInv, EventsInTasks
<1>2. Cardinality(Running(t)) = tasks[t].num_instances
  BY <1>1 DEF SpawnInv, AllSpawned
<1>3. visits = Running(t) \X {n}
  BY DEF BarrierVisits, Running
<1>4. IsFiniteSet(DOMAIN threads)
  <2>1. threads \in Seq(1..MaxTasks)
    BY DEF IInv, TypeOK
  <2>2. DOMAIN threads = 1..Len(threads) /\ Len(threads) \in Nat
    BY <2>1
  <2>3. QED
    BY <2>2, FS_Interval
<1>5. IsFiniteSet(Running(t)) /\ Cardinality(Running(t)) \in Nat
  BY <1>4, FS_Subset, FS_CardinalityType DEF Running
<1>6. IsFiniteSet({n}) /\ Cardinality({n}) = 1
  BY FS_Singleton
<1>7. /\ IsFiniteSet(Running(t) \X {n})
      /\ Cardinality(Running(t) \X {n}) = Cardinality(Running(t)) * Cardinality({n})
  BY <1>5, <1>6, FS_Product
<1> HIDE DEF t, visits
<1>8. Cardinality(visits) = Cardinality(Running(t))
  BY <1>3, <1>5, <1>6, <1>7
<1>9. QED
  BY <1>2, <1>3, <1>7, <1>8 DEF visits, t

\* The sum that a barrier is built for is the number of visits it gets.
LEMMA SumCountsVisits ==
  ASSUME IInv, SpawnInv, stage = "running", NEW idx
  PROVE  /\ IsFiniteSet(BarrierVisits(idx))
         /\ BarrierSum(idx) = Cardinality(BarrierVisits(idx))
<1> DEFINE S == BarrierUses(idx)
           P == BarrierVisits(idx)
           fun == [n \in DOMAIN events |-> tasks[events[n].task].num_instances]
<1>1. IsFiniteSet(DOMAIN threads) /\ IsFiniteSet(DOMAIN events)
  <2>1. threads \in Seq(1..MaxTasks) /\ events \in Seq(EventConfig)
    BY DEF IInv, TypeOK
  <2>2. /\ DOMAIN threads = 1..Len(threads) /\ Len(threads) \in Nat
        /\ DOMAIN events = 1..Len(events) /\ Len(events) \in Nat
    BY <2>1
  <2>3. QED
    BY <2>2, FS_Interval
<1>2. IsFiniteSet(S)
  BY <1>1, FS_Subset DEF BarrierUses
<1>3. IsFiniteSet(P) /\ P \subseteq (DOMAIN threads) \X S
  <2>1. IsFiniteSet((DOMAIN threads) \X S)
    BY <1>1, <1>2, FS_Product
  <2>2. P \subseteq (DOMAIN threads) \X S
    BY DEF BarrierVisits
  <2>3. QED
    BY <2>1, <2>2, FS_Subset
<1>4. \A n \in S : fun[n] = Cardinality({v \in P : v[2] = n})
  BY VisitsOfEvent DEF BarrierUses
<1>5. BarrierSum(idx) = SumFunctionOnSet(fun, S)
  BY DEF BarrierSum
<1> HIDE DEF S, P, fun
<1>6. SumFunctionOnSet(fun, S) = Cardinality(P)
  BY <1>2, <1>3, <1>4, SumCountsPairs
<1>7. QED
  BY <1>3, <1>5, <1>6 DEF P

\* A barrier expects as many arrivals as the running threads have events for
\* it, however many tasks, instances and events there are, as long as that
\* number fits the 32 bits it is counted in.
THEOREM BarriersExpectTheirThreads == Spec => [](SumsFit => BarriersCountThreads)
<1>1. IInv /\ SpawnInv => (SumsFit => BarriersCountThreads)
  <2> SUFFICES ASSUME IInv, SpawnInv, SumsFit, stage = "running",
                      NEW i \in 1..Len(handles),
                      handles[i].kind = "Barrier", BarrierVisits(i - 1) # {}
               PROVE  handles[i].total = Cardinality(BarrierVisits(i - 1))
    BY DEF BarriersCountThreads
  <2> DEFINE visits == Cardinality(BarrierVisits(i - 1))
  <2>1. IsFiniteSet(BarrierVisits(i - 1)) /\ BarrierSum(i - 1) = visits
    BY SumCountsVisits
  <2>2. visits \in Nat /\ visits # 0
    BY <2>1, FS_CardinalityType, FS_EmptySet
  <2>3. visits < U32
    BY <2>1 DEF SumsFit
  <2>4. i \in 1..Len(resources)
    <3>1. DOMAIN handles = 1..Len(resources) /\ Len(resources) \in Nat
      BY DEF IInv, HandlesBuilt, TypeOK
    <3>2. Len(handles) = Len(resources)
      BY <3>1
    <3>3. QED
      BY <3>2
  <2>5. handles[i] = Handle(i - 1, resources[i].type)
    BY <2>4 DEF SpawnInv, TotalsBuilt
  <2>6. HandleKind(resources[i].type) = "Barrier"
    BY <2>5 DEF Handle
  <2>7. resources[i].type = "Barrier"
    BY <2>6 DEF HandleKind
  <2>8. handles[i].total = BarrierTotal(i - 1)
    BY <2>5, <2>7 DEF Handle
  <2>9. BarrierCount(i - 1) = visits % U32
    BY <2>1 DEF BarrierCount
  <2> HIDE DEF visits
  <2>10. visits % U32 = visits
    BY <2>2, <2>3, WorkloadAssumption
  <2>11. BarrierTotal(i - 1) = visits
    BY <2>2, <2>9, <2>10 DEF BarrierTotal
  <2>12. QED
    BY <2>8, <2>11 DEF visits
<1>2. QED
  BY <1>1, InvariantHolds, SpawnInvHolds, PTL

----------------------------------------------------------------------------
(* Scheduling: what a task object is parsed to *)

LEMMA WidthFacts ==
  /\ Width \in Nat /\ THREAD_PRIORITY_UNCHANGED \in Int
  /\ \A v \in Int : AsI32(v) \in Int /\ AsU32(v) \in Nat
BY SchedulingAssumption DEF AsI32, AsU32, THREAD_PRIORITY_UNCHANGED

LEMMA GetIntFacts ==
  ASSUME NEW obj \in TaskObjects, NEW key, NEW default \in Int
  PROVE  GetInt(obj, key, default) \in Int
<1>1. IsObject(obj)
  BY SchedulingAssumption
<1> QED BY <1>1 DEF IsObject, GetInt

LEMMA ClampFacts ==
  ASSUME NEW obj \in TaskObjects, NEW key
  PROVE  /\ Clamp(obj, key) \in Nat \cup {NoClamp}
         /\ Clamp(obj, key) = NoClamp <=> GetInt(obj, key, -1) = -1
         /\ Clamp(obj, key) # NoClamp => Clamp(obj, key) = AsU32(GetInt(obj, key, -1))
<1>1. IsObject(obj)
  BY SchedulingAssumption
<1>2. CASE GetInt(obj, key, -1) = -1
  BY <1>2 DEF Clamp, NoClamp
<1>3. CASE GetInt(obj, key, -1) # -1
  <2>1. /\ key \in DOMAIN obj.ints /\ obj.ints[key] \in Int
        /\ GetInt(obj, key, -1) = obj.ints[key]
    BY <1>1, <1>3 DEF IsObject, GetInt
  <2>2. Clamp(obj, key) = AsU32(obj.ints[key]) /\ AsU32(obj.ints[key]) \in Nat
    BY <1>3, <2>1, WidthFacts DEF Clamp
  <2> QED BY <1>3, <2>1, <2>2 DEF NoClamp
<1> QED BY <1>2, <1>3

LEMMA DataFields ==
  ASSUME NEW data, NEW policy, NEW priority, NEW runtime, NEW period, NEW deadline,
         NEW util_min, NEW util_max,
         data = [policy |-> policy, priority |-> priority, runtime |-> runtime,
                 period |-> period, deadline |-> deadline,
                 util_min |-> util_min, util_max |-> util_max]
  PROVE  /\ data.policy = policy /\ data.priority = priority
         /\ data.runtime = runtime /\ data.deadline = deadline
         /\ data.period = period
         /\ data.util_min = util_min /\ data.util_max = util_max
OBVIOUS

ParsedFrom(obj, default, data) == data = parse_sched(obj, default, TRUE)

LEMMA ParseFacts ==
  ASSUME NEW obj \in TaskObjects, NEW default, NEW data, ParsedFrom(obj, default, data)
  PROVE  /\ data.policy = StatedPolicy(obj, default)
         /\ data.priority \in Int
         /\ "priority" \in DOMAIN obj.ints => data.priority = AsI32(obj.ints["priority"])
         /\ "priority" \notin DOMAIN obj.ints =>
              data.priority = default_priority_for(data.policy)
         /\ data.runtime \in Nat /\ data.deadline \in Nat /\ data.period \in Nat
         /\ data.util_min = Clamp(obj, "util_min")
         /\ data.util_max = Clamp(obj, "util_max")
<1> DEFINE int(key, value) == GetInt(obj, key, value)
           runtime0  == int("dl-runtime", 0)
           period0   == int("dl-period", runtime0)
           deadline0 == int("dl-deadline", period0)
           runtime   == IF runtime0 = 0 THEN int("runtime", 0) ELSE runtime0
           period    == IF period0 \in {0, runtime} THEN int("period", runtime) ELSE period0
           deadline  == IF deadline0 \in {0, period} THEN int("deadline", period) ELSE deadline0
           policy    == StatedPolicy(obj, default)
           priority  == IF "priority" \in DOMAIN obj.ints
                        THEN AsI32(obj.ints["priority"]) ELSE default_priority_for(policy)
<1>1. data = [policy |-> policy, priority |-> priority, runtime |-> Positive(runtime),
              period |-> Positive(period), deadline |-> Positive(deadline),
              util_min |-> Clamp(obj, "util_min"), util_max |-> Clamp(obj, "util_max")]
  BY DEF parse_sched, ParsedFrom
<1>2. \A v \in Int : \A key : int(key, v) \in Int
  BY GetIntFacts
<1>3. priority \in Int
  <2>1. IsObject(obj)
    BY SchedulingAssumption
  <2>2. default_priority_for(policy) \in Int
    BY WidthFacts DEF default_priority_for, DEFAULT_THREAD_PRIORITY, DEFAULT_THREAD_NICE
  <2> QED BY <2>1, <2>2, WidthFacts DEF IsObject
<1> HIDE DEF int
<1>4. runtime0 \in Int /\ period0 \in Int /\ deadline0 \in Int
  BY <1>2
<1> HIDE DEF runtime0, period0, deadline0
<1>5. runtime \in Int
  BY <1>2, <1>4
<1> HIDE DEF runtime
<1>6. period \in Int
  BY <1>2, <1>4, <1>5
<1> HIDE DEF period
<1>7. deadline \in Int
  BY <1>2, <1>4, <1>6
<1> HIDE DEF deadline
<1>8. Positive(runtime) \in Nat /\ Positive(deadline) \in Nat /\ Positive(period) \in Nat
  BY <1>5, <1>6, <1>7 DEF Positive
<1>9. /\ "priority" \in DOMAIN obj.ints => priority = AsI32(obj.ints["priority"])
      /\ "priority" \notin DOMAIN obj.ints => priority = default_priority_for(policy)
  OBVIOUS
<1> HIDE DEF policy, priority
<1>10. /\ data.policy = policy /\ data.priority = priority
       /\ data.runtime = Positive(runtime) /\ data.deadline = Positive(deadline)
       /\ data.period = Positive(period)
       /\ data.util_min = Clamp(obj, "util_min") /\ data.util_max = Clamp(obj, "util_max")
  BY <1>1, DataFields
<1> QED BY <1>3, <1>8, <1>9, <1>10 DEF policy

\* The durations as they are asked for, where the kernel accepts what they were
\* parsed to.
LEMMA ParsedDurations ==
  ASSUME NEW obj \in TaskObjects, NEW default, NEW data, ParsedFrom(obj, default, data),
         0 < data.runtime, data.runtime <= data.deadline,
         data.period = 0 \/ data.deadline <= data.period
  PROVE  LET p == Given(obj, "dl-period", "period")
             d == Given(obj, "dl-deadline", "deadline")
         IN  /\ data.runtime = Given(obj, "dl-runtime", "runtime")
             /\ OneSpelling(obj) =>
                  /\ p > 0 => data.period = p
                  /\ p = 0 => data.period \in {0, data.runtime}
                  /\ d > 0 => data.deadline = d
                  /\ d = 0 => data.period \in {0, data.deadline}
<1> DEFINE stated(key) == key \in DOMAIN obj.ints
           v(key) == GetInt(obj, key, 0)
           runtime0  == v("dl-runtime")
           period0   == GetInt(obj, "dl-period", runtime0)
           deadline0 == GetInt(obj, "dl-deadline", period0)
           runtime   == IF runtime0 = 0 THEN v("runtime") ELSE runtime0
           period    == IF period0 \in {0, runtime} THEN GetInt(obj, "period", runtime)
                        ELSE period0
           deadline  == IF deadline0 \in {0, period} THEN GetInt(obj, "deadline", period)
                        ELSE deadline0
<1>1. /\ data.runtime = Positive(runtime) /\ data.period = Positive(period)
      /\ data.deadline = Positive(deadline)
  BY DEF parse_sched, ParsedFrom
<1>2. \A key, x : GetInt(obj, key, x) = IF stated(key) THEN v(key) ELSE x
  BY DEF GetInt
<1>3. \A key : v(key) \in Int /\ (~stated(key) => v(key) = 0)
  BY GetIntFacts DEF GetInt
<1>4. \/ ~stated("runtime") /\ ~stated("period") /\ ~stated("deadline")
      \/ ~stated("dl-runtime") /\ ~stated("dl-period") /\ ~stated("dl-deadline")
      \/ ~OneSpelling(obj)
  BY DEF OneSpelling
<1>5. \A key, legacy : Given(obj, key, legacy) = IF v(key) # 0 THEN v(key) ELSE v(legacy)
  BY DEF Given
<1>6. period0 = IF stated("dl-period") THEN v("dl-period") ELSE runtime0
  BY <1>2
<1>7. deadline0 = IF stated("dl-deadline") THEN v("dl-deadline") ELSE period0
  BY <1>2
<1>8. period = IF period0 \in {0, runtime}
               THEN IF stated("period") THEN v("period") ELSE runtime
               ELSE period0
  BY <1>2
<1>9. deadline = IF deadline0 \in {0, period}
                 THEN IF stated("deadline") THEN v("deadline") ELSE period
                 ELSE deadline0
  BY <1>2
<1>10. runtime = Given(obj, "dl-runtime", "runtime")
  BY <1>5
<1> DEFINE p == Given(obj, "dl-period", "period")
           d == Given(obj, "dl-deadline", "deadline")
<1>11. /\ p = IF v("dl-period") # 0 THEN v("dl-period") ELSE v("period")
       /\ d = IF v("dl-deadline") # 0 THEN v("dl-deadline") ELSE v("deadline")
       /\ runtime = IF v("dl-runtime") # 0 THEN v("dl-runtime") ELSE v("runtime")
       /\ runtime0 = v("dl-runtime")
  BY <1>5
<1> HIDE DEF v, stated, period, deadline, runtime, period0, deadline0, runtime0, p, d
<1>12. runtime \in Int /\ period0 \in Int /\ deadline0 \in Int
  BY <1>3, <1>6, <1>7, <1>11
<1>13. period \in Int /\ deadline \in Int
  BY <1>3, <1>8, <1>9, <1>12
<1>14. /\ runtime > 0 /\ data.runtime = runtime /\ deadline > 0 /\ data.deadline = deadline
       /\ data.period = IF period > 0 THEN period ELSE 0
       /\ period <= 0 \/ deadline <= period
  BY <1>1, <1>12, <1>13 DEF Positive
<1>15. OneSpelling(obj) => /\ p > 0 => data.period = p
                           /\ p = 0 => data.period \in {0, data.runtime}
                           /\ d > 0 => data.deadline = d
                           /\ d = 0 => data.period \in {0, data.deadline}
  <2>1. CASE ~stated("runtime") /\ ~stated("period") /\ ~stated("deadline")
    BY <2>1, <1>3, <1>6, <1>7, <1>8, <1>9, <1>11, <1>12, <1>13, <1>14
  <2>2. CASE ~stated("dl-runtime") /\ ~stated("dl-period") /\ ~stated("dl-deadline")
    BY <2>2, <1>3, <1>6, <1>7, <1>8, <1>9, <1>11, <1>12, <1>13, <1>14
  <2> QED BY <1>4, <2>1, <2>2
<1> QED BY <1>10, <1>14, <1>15 DEF p, d

----------------------------------------------------------------------------
(* What the kernel makes of the two calls *)

\* A call that keeps all parameters changes the clamps that it states only.
LEMMA AfterClamps ==
  ASSUME kernel \in KernelParams, NEW attr, attr.keep_all = TRUE,
         attr.util_min \in Int, attr.util_max \in Int
  PROVE  /\ After(attr) \in KernelParams
         /\ \A field \in {"policy", "nice", "priority", "runtime", "deadline", "period"} :
              After(attr)[field] = kernel[field]
         /\ After(attr).util_min =
              IF attr.util_min = NoClamp THEN kernel.util_min ELSE attr.util_min
         /\ After(attr).util_max =
              IF attr.util_max = NoClamp THEN kernel.util_max ELSE attr.util_max
BY DEF After, KernelParams

\* One that does not sets what it states, and keeps the clamps.
SetsParams(attr) ==
  /\ attr.keep_all = FALSE
  /\ attr.util_min = NoClamp /\ attr.util_max = NoClamp
  /\ attr.policy \in KernelPolicies
  /\ attr.nice \in Int /\ attr.priority \in Int
  /\ attr.runtime \in Int /\ attr.deadline \in Int /\ attr.period \in Int

LEMMA AfterParams ==
  ASSUME kernel \in KernelParams, NEW attr, SetsParams(attr)
  PROVE  /\ After(attr) \in KernelParams
         /\ After(attr).policy = attr.policy /\ After(attr).nice = attr.nice
         /\ After(attr).priority = attr.priority /\ After(attr).runtime = attr.runtime
         /\ After(attr).deadline = attr.deadline
         /\ After(attr).period = IF attr.period = 0 THEN attr.deadline ELSE attr.period
<1> DEFINE period == IF attr.period = 0 THEN attr.deadline ELSE attr.period
           params == [policy |-> attr.policy, nice |-> attr.nice, priority |-> attr.priority,
                      runtime |-> attr.runtime, deadline |-> attr.deadline, period |-> period,
                      util_min |-> kernel.util_min, util_max |-> kernel.util_max]
<1>1. After(attr) = [params EXCEPT !.util_min = params.util_min, !.util_max = params.util_max]
  BY DEF After, SetsParams
<1>2. kernel.util_min \in Int /\ kernel.util_max \in Int /\ period \in Int
  BY DEF KernelParams, SetsParams
<1> HIDE DEF period
<1>3. After(attr) = params
  BY <1>1
<1>4. params \in KernelParams
  BY <1>2 DEF KernelParams, SetsParams
<1> QED BY <1>3, <1>4 DEF period

----------------------------------------------------------------------------
(* The two calls *)

\* What the attributes that set the parameters of a policy state.
LEMMA AttrFacts ==
  ASSUME NEW policy \in KernelPolicies, NEW prio \in Int
  PROVE  /\ SetsParams(Attr(policy, prio)) /\ Attr(policy, prio).policy = policy
         /\ Attr(policy, prio).priority = sched_priority_for(policy, prio)
<1> DEFINE priority == sched_priority_for(policy, prio)
           attr == Attr(policy, prio)
<1>1. priority \in Int
  BY DEF sched_priority_for
<1> HIDE DEF priority
<1>2. attr = [policy |-> policy, priority |-> priority, nice |-> 0,
              runtime |-> 0, deadline |-> 0, period |-> 0,
              util_min |-> NoClamp, util_max |-> NoClamp, keep_all |-> FALSE]
  BY DEF Attr, priority
<1> HIDE DEF attr
<1>3. /\ attr.keep_all = FALSE
      /\ attr.policy = policy /\ attr.priority = priority /\ attr.nice = 0
      /\ attr.runtime = 0 /\ attr.deadline = 0 /\ attr.period = 0
      /\ attr.util_min = NoClamp /\ attr.util_max = NoClamp
  BY <1>2
<1> QED BY <1>1, <1>3 DEF SetsParams, attr, priority

LEMMA CfsAttrFacts ==
  ASSUME NEW prio \in Int, NEW runtime \in Int
  PROVE  /\ SetsParams(build_cfs_attr(prio, runtime))
         /\ build_cfs_attr(prio, runtime).policy = "SCHED_OTHER"
         /\ build_cfs_attr(prio, runtime).nice = prio
<1> DEFINE base == Attr("SCHED_OTHER", prio)
           attr == [base EXCEPT !.nice = prio, !.runtime = runtime]
<1>1. build_cfs_attr(prio, runtime) = attr
  BY DEF build_cfs_attr
<1>2. DOMAIN base = {"policy", "priority", "nice", "runtime", "deadline", "period",
                     "util_min", "util_max", "keep_all"}
  BY DEF Attr
<1>3. SetsParams(base) /\ base.policy = "SCHED_OTHER"
  BY AttrFacts DEF KernelPolicies, CFS
<1> HIDE DEF base
<1>4. /\ attr.nice = prio /\ attr.runtime = runtime
      /\ \A field \in DOMAIN base \ {"nice", "runtime"} : attr[field] = base[field]
  BY <1>2
<1> HIDE DEF attr
<1>5. SetsParams(attr) /\ attr.policy = "SCHED_OTHER" /\ attr.nice = prio
  BY <1>2, <1>3, <1>4 DEF SetsParams
<1> QED BY <1>1, <1>5

LEMMA DeadlineAttrFacts ==
  ASSUME NEW data, data.runtime \in Int, data.deadline \in Int, data.period \in Int
  PROVE  /\ SetsParams(build_deadline_attr(data))
         /\ build_deadline_attr(data).policy = "SCHED_DEADLINE"
         /\ build_deadline_attr(data).runtime = data.runtime
         /\ build_deadline_attr(data).deadline = data.deadline
         /\ build_deadline_attr(data).period = data.period
<1> DEFINE base == Attr("SCHED_DEADLINE", 0)
           attr == [base EXCEPT !.runtime = data.runtime, !.deadline = data.deadline,
                                !.period = data.period]
<1>1. build_deadline_attr(data) = attr
  BY DEF build_deadline_attr
<1>2. DOMAIN base = {"policy", "priority", "nice", "runtime", "deadline", "period",
                     "util_min", "util_max", "keep_all"}
  BY DEF Attr
<1>3. SetsParams(base) /\ base.policy = "SCHED_DEADLINE"
  BY AttrFacts DEF KernelPolicies
<1> HIDE DEF base
<1>4. /\ attr.runtime = data.runtime /\ attr.deadline = data.deadline
      /\ attr.period = data.period
      /\ \A field \in DOMAIN base \ {"runtime", "deadline", "period"} :
           attr[field] = base[field]
  BY <1>2
<1> HIDE DEF attr
<1>5. SetsParams(attr) /\ attr.policy = "SCHED_DEADLINE"
  BY <1>2, <1>3, <1>4 DEF SetsParams
<1> QED BY <1>1, <1>4, <1>5

\* What the parsed parameters say of the policy and the priority asked for.
LEMMA AskedFacts ==
  ASSUME task_obj \in TaskObjects, Parsed
  PROVE  /\ Resolved(sched) = AskedPolicy /\ AskedPolicy \in KernelPolicies
         /\ sched.priority \in Int
         /\ AskedPolicy \in RT => sched.priority = AsI32(Asked("priority", 10))
         /\ AskedPolicy = "SCHED_OTHER" /\ sched.priority # THREAD_PRIORITY_UNCHANGED =>
              sched.priority = AsI32(Asked("priority", 0))
<1>1. /\ sched.policy = StatedPolicy(task_obj, DefaultPolicy)
      /\ sched.priority \in Int
      /\ "priority" \in DOMAIN task_obj.ints => sched.priority = AsI32(task_obj.ints["priority"])
      /\ "priority" \notin DOMAIN task_obj.ints =>
           sched.priority = default_priority_for(sched.policy)
  BY ParseFacts DEF Parsed, ParsedFrom
<1>2. Resolved(sched) = AskedPolicy /\ AskedPolicy \in KernelPolicies
  <2>1. Resolved(sched) = AskedPolicy
    BY <1>1 DEF Resolved, AskedPolicy
  <2>2. sched.policy \in KernelPolicies \cup {"SCHED_SAME"}
    BY DEF Parsed, Accepted, Policies
  <2>3. Resolved(sched) \in KernelPolicies
    BY <2>2 DEF Resolved, KernelPolicies, CFS
  <2> QED BY <2>1, <2>3
<1>3. AsI32(10) = 10 /\ AsI32(0) = 0
  BY SchedulingAssumption DEF AsI32
<1>4. CASE "priority" \in DOMAIN task_obj.ints
  BY <1>1, <1>2, <1>4 DEF Asked, GetInt
<1>5. CASE "priority" \notin DOMAIN task_obj.ints
  <2>1. Asked("priority", 10) = 10 /\ Asked("priority", 0) = 0
    BY <1>5 DEF Asked, GetInt
  <2>2. sched.priority = default_priority_for(sched.policy)
    BY <1>1, <1>5
  <2>3. AskedPolicy \in RT => sched.priority = 10
    BY <1>2, <2>2 DEF Resolved, RT, default_priority_for, DEFAULT_THREAD_PRIORITY
  <2>4. AskedPolicy = "SCHED_OTHER" /\ sched.priority # THREAD_PRIORITY_UNCHANGED =>
          sched.priority = 0
    BY <1>2, <2>2 DEF Resolved, RT, default_priority_for, DEFAULT_THREAD_NICE
  <2> QED BY <1>1, <1>2, <1>3, <2>1, <2>3, <2>4
<1> QED BY <1>4, <1>5

LEMMA SetParamsAsAsked ==
  ASSUME task_obj \in TaskObjects, Parsed, kernel \in KernelParams,
         SetParams(sched), task_obj' = task_obj, sched' = sched
  PROVE  kernel' \in KernelParams /\ ParamsAsAsked'
<1> DEFINE policy == Resolved(sched)
<1>1. /\ policy = AskedPolicy /\ policy \in KernelPolicies
      /\ sched.priority \in Int
      /\ policy \in RT => sched.priority = AsI32(Asked("priority", 10))
      /\ policy = "SCHED_OTHER" /\ sched.priority # THREAD_PRIORITY_UNCHANGED =>
           sched.priority = AsI32(Asked("priority", 0))
  BY AskedFacts
<1>2. /\ AskedPolicy' = policy
      /\ Asked("priority", 10)' = Asked("priority", 10)
      /\ Asked("priority", 0)' = Asked("priority", 0)
      /\ AskedRuntime' = AskedRuntime /\ AskedPeriod' = AskedPeriod
      /\ AskedDeadline' = AskedDeadline /\ OneSpelling(task_obj)' = OneSpelling(task_obj)
      /\ LeftUnchanged' <=>
           sched.priority = THREAD_PRIORITY_UNCHANGED /\ policy # "SCHED_DEADLINE"
  BY <1>1 DEF AskedPolicy, Asked, LeftUnchanged, AskedRuntime, AskedPeriod, AskedDeadline
<1>3. sched.runtime \in Nat /\ sched.deadline \in Nat /\ sched.period \in Nat
  BY ParseFacts DEF Parsed, ParsedFrom
<1> HIDE DEF policy
<1>4. CASE policy # "SCHED_DEADLINE" /\ sched.priority = THREAD_PRIORITY_UNCHANGED
  BY <1>2, <1>4 DEF SetParams, ParamsAsAsked, policy
<1>5. CASE policy # "SCHED_DEADLINE" /\ sched.priority # THREAD_PRIORITY_UNCHANGED
  <2>1. CASE policy \in RT
    <3> DEFINE attr == Attr(policy, sched.priority)
    <3>1. sched_setattr(attr)
      BY <1>5, <2>1, Zenon DEF SetParams, RT, policy
    <3>2. /\ SetsParams(attr) /\ attr.policy = policy
          /\ attr.priority = sched_priority_for(policy, sched.priority)
      BY <1>1, AttrFacts
    <3> HIDE DEF attr
    <3>3. /\ After(attr) \in KernelParams /\ After(attr).policy = policy
          /\ After(attr).priority = attr.priority
      BY <3>2, AfterParams
    <3>4. attr.priority \in 1..99
      BY <2>1, <3>1, <3>2 DEF sched_setattr, Permitted, SetsParams, RT, CFS
    <3>5. sched_priority_for(policy, sched.priority) \in {sched.priority, 0}
      BY DEF sched_priority_for
    <3>6. attr.priority # 0
      BY <3>4
    <3>7. attr.priority = sched.priority
      BY <3>2, <3>5, <3>6
    <3> QED
      BY <1>1, <1>2, <2>1, <3>1, <3>3, <3>7 DEF sched_setattr, ParamsAsAsked, RT
  <2>2. CASE policy = "SCHED_IDLE"
    <3> DEFINE attr == Attr(policy, 0)
    <3>1. sched_setattr(attr)
      BY <1>5, <2>2, Zenon DEF SetParams, RT, policy
    <3>2. SetsParams(attr) /\ attr.policy = policy
      BY <1>1, AttrFacts
    <3> HIDE DEF attr
    <3>3. After(attr) \in KernelParams /\ After(attr).policy = policy
      BY <3>2, AfterParams
    <3> QED
      BY <1>1, <1>2, <2>2, <3>1, <3>3 DEF sched_setattr, ParamsAsAsked, RT
  <2>3. CASE policy = "SCHED_OTHER"
    <3> DEFINE attr == build_cfs_attr(sched.priority, sched.runtime)
    <3>1. sched_setattr(attr)
      BY <1>5, <2>3, Zenon DEF SetParams, RT, policy
    <3>2. SetsParams(attr) /\ attr.policy = policy /\ attr.nice = sched.priority
      <4>1. sched.priority \in Int /\ sched.runtime \in Int
        BY <1>1, <1>3
      <4> QED BY <2>3, <4>1, CfsAttrFacts
    <3> HIDE DEF attr
    <3>3. /\ After(attr) \in KernelParams /\ After(attr).policy = policy
          /\ After(attr).nice = sched.priority
      BY <3>2, AfterParams
    <3> QED
      BY <1>1, <1>2, <1>5, <2>3, <3>1, <3>3 DEF sched_setattr, ParamsAsAsked, RT
  <2> QED BY <1>1, <1>5, <2>1, <2>2, <2>3 DEF KernelPolicies, CFS
<1>6. CASE policy = "SCHED_DEADLINE"
  <2> DEFINE attr == build_deadline_attr(sched)
  <2>1. sched_setattr(attr)
    BY <1>6 DEF SetParams, policy
  <2>2. /\ SetsParams(attr) /\ attr.policy = policy
        /\ attr.runtime = sched.runtime /\ attr.deadline = sched.deadline
        /\ attr.period = sched.period
    <3>1. sched.runtime \in Int /\ sched.deadline \in Int /\ sched.period \in Int
      BY <1>3
    <3> QED BY <1>6, <3>1, DeadlineAttrFacts
  <2> HIDE DEF attr
  <2>3. /\ After(attr) \in KernelParams /\ After(attr).policy = policy
        /\ After(attr).runtime = attr.runtime /\ After(attr).deadline = attr.deadline
        /\ After(attr).period = IF attr.period = 0 THEN attr.deadline ELSE attr.period
    BY <2>2, AfterParams
  <2>4. /\ 0 < attr.runtime /\ attr.runtime <= attr.deadline
        /\ attr.period = 0 \/ attr.deadline <= attr.period
    BY <1>6, <2>1, <2>2 DEF sched_setattr, Permitted, SetsParams, RT, CFS
  <2>5. kernel' = After(attr)
    BY <2>1 DEF sched_setattr
  <2> HIDE DEF policy
  <2>6. /\ kernel'.runtime = sched.runtime /\ kernel'.deadline = sched.deadline
        /\ kernel'.period = IF sched.period = 0 THEN sched.deadline ELSE sched.period
        /\ 0 < sched.runtime /\ sched.runtime <= sched.deadline
        /\ sched.period = 0 \/ sched.deadline <= sched.period
    BY <2>2, <2>3, <2>4, <2>5
  <2>7. DeadlineAsAsked'
    <3>1. /\ sched.runtime = AskedRuntime
          /\ OneSpelling(task_obj) =>
               /\ AskedPeriod > 0 => sched.period = AskedPeriod
               /\ AskedPeriod = 0 => sched.period \in {0, sched.runtime}
               /\ AskedDeadline > 0 => sched.deadline = AskedDeadline
               /\ AskedDeadline = 0 => sched.period \in {0, sched.deadline}
      BY <2>6, ParsedDurations
         DEF Parsed, ParsedFrom, AskedRuntime, AskedPeriod, AskedDeadline
    <3>2. AskedPeriod > 0 => AskedPeriod # 0
      <4>1. AskedPeriod \in Int
        BY GetIntFacts DEF AskedPeriod, Given
      <4> QED BY <4>1
    <3> QED BY <1>2, <2>6, <3>1, <3>2 DEF DeadlineAsAsked
  <2>8. policy \notin RT /\ policy # "SCHED_OTHER" /\ kernel'.policy = policy
    BY <1>6, <2>3, <2>5 DEF RT
  <2> QED BY <1>2, <2>3, <2>5, <2>7, <2>8 DEF ParamsAsAsked
<1> QED BY <1>4, <1>5, <1>6

LEMMA SetUclampAsAsked ==
  ASSUME task_obj \in TaskObjects, Parsed, kernel \in KernelParams, ParamsAsAsked,
         SetUclamp(sched), task_obj' = task_obj, sched' = sched
  PROVE  kernel' \in KernelParams /\ ParamsAsAsked' /\ ClampsAsAsked'
<1>1. /\ Resolved(sched) = AskedPolicy
  BY AskedFacts
<1>2. /\ AskedPolicy' = AskedPolicy /\ LeftUnchanged' = LeftUnchanged
      /\ \A key, default : Asked(key, default)' = Asked(key, default)
      /\ AskedRuntime' = AskedRuntime /\ AskedPeriod' = AskedPeriod
      /\ AskedDeadline' = AskedDeadline /\ OneSpelling(task_obj)' = OneSpelling(task_obj)
  BY DEF AskedPolicy, Asked, LeftUnchanged, AskedRuntime, AskedPeriod, AskedDeadline
<1>3. /\ sched.util_min = Clamp(task_obj, "util_min")
      /\ sched.util_max = Clamp(task_obj, "util_max")
  BY ParseFacts DEF Parsed, ParsedFrom
<1>4. \A key : /\ Clamp(task_obj, key) \in Int
               /\ Clamp(task_obj, key) = NoClamp <=> Asked(key, -1) = -1
               /\ Clamp(task_obj, key) # NoClamp => Clamp(task_obj, key) = AsU32(Asked(key, -1))
  BY ClampFacts DEF Asked, NoClamp
<1>5. CASE Resolved(sched) = "SCHED_DEADLINE" \/ {sched.util_min, sched.util_max} = {NoClamp}
  <2>1. kernel' = kernel
    BY <1>5 DEF SetUclamp
  <2>2. ParamsAsAsked'
    BY <1>2, <2>1 DEF ParamsAsAsked, DeadlineAsAsked
  <2>3. AskedPolicy # "SCHED_DEADLINE" =>
          Clamp(task_obj, "util_min") = NoClamp /\ Clamp(task_obj, "util_max") = NoClamp
    BY <1>1, <1>3, <1>5
  <2> QED BY <1>2, <1>4, <2>1, <2>2, <2>3 DEF ClampsAsAsked
<1>6. CASE ~(Resolved(sched) = "SCHED_DEADLINE" \/ {sched.util_min, sched.util_max} = {NoClamp})
  <2> DEFINE attr == build_uclamp_attr(sched)
  <2>1. sched_setattr(attr)
    BY <1>6 DEF SetUclamp
  <2>2. /\ attr.keep_all = TRUE
        /\ attr.util_min = sched.util_min /\ attr.util_max = sched.util_max
    BY DEF build_uclamp_attr, Attr
  <2> HIDE DEF attr
  <2>3. attr.util_min \in Int /\ attr.util_max \in Int
    BY <1>3, <1>4, <2>2
  <2>4. /\ kernel' \in KernelParams
        /\ \A field \in {"policy", "nice", "priority", "runtime", "deadline", "period"} :
             kernel'[field] = kernel[field]
        /\ kernel'.util_min =
             IF attr.util_min = NoClamp THEN kernel.util_min ELSE attr.util_min
        /\ kernel'.util_max =
             IF attr.util_max = NoClamp THEN kernel.util_max ELSE attr.util_max
    BY <2>1, <2>2, <2>3, AfterClamps DEF sched_setattr
  <2>5. ParamsAsAsked'
    BY <1>2, <2>4 DEF ParamsAsAsked, DeadlineAsAsked
  <2>6. ClampsAsAsked'
    BY <1>2, <1>3, <1>4, <2>2, <2>4 DEF ClampsAsAsked
  <2> QED BY <2>4, <2>5, <2>6
<1> QED BY <1>5, <1>6

----------------------------------------------------------------------------
(* The invariant *)

\* reset_to_default_scheduling leaves the kernel's parameters well typed.
LEMMA ResetTyped ==
  ASSUME kernel \in KernelParams, sched_setattr(build_cfs_attr(0, 0))
  PROVE  kernel' \in KernelParams
<1>1. SetsParams(build_cfs_attr(0, 0))
  BY CfsAttrFacts
<1> QED BY <1>1, AfterParams DEF sched_setattr

\* The properties of the second call say nothing of a step that leaves what the
\* thread applied, and the kernel, alone.
LEMMA AskedUnchanged ==
  ASSUME task_obj' = task_obj, sched' = sched, kernel' = kernel
  PROVE  /\ ParamsAsAsked' = ParamsAsAsked /\ ClampsAsAsked' = ClampsAsAsked
BY DEF ParamsAsAsked, DeadlineAsAsked, ClampsAsAsked, AskedPolicy, LeftUnchanged, Asked,
       AskedRuntime, AskedPeriod, AskedDeadline

LEMMA SchedStart == SchedInit => SchedIInv
<1>1. Default.policy = "SCHED_OTHER" /\ "SCHED_OTHER" \in KernelPolicies
  BY DEF Default, KernelPolicies, CFS
<1>2. Default \in KernelParams
  BY <1>1 DEF Default, KernelParams
<1> QED BY <1>2 DEF SchedInit, SchedIInv, SchedTypeOK, SchedOfTask

LEMMA SchedStep == SchedIInv /\ [SchedNext]_schedVars => SchedIInv'
<1> SUFFICES ASSUME SchedIInv, [SchedNext]_schedVars
             PROVE  SchedIInv'
  OBVIOUS
<1> USE DEF SchedIInv
<1>1. ASSUME Parse
      PROVE  SchedIInv'
  <2>1. /\ sched_at' = "params" /\ Parsed' /\ task_obj' = task_obj /\ kernel' = kernel
        /\ locked' = locked
    BY <1>1 DEF Parse, Parsed
  <2> QED BY <2>1 DEF SchedTypeOK, SchedOfTask
<1>2. ASSUME ParseRefused
      PROVE  SchedIInv'
  BY <1>2 DEF ParseRefused, configVars, SchedTypeOK, SchedOfTask
<1>3. ASSUME ApplyParams
      PROVE  SchedIInv'
  <2>1. /\ sched_at = "params" /\ sched_at' = "uclamp" /\ SetParams(sched)
        /\ task_obj' = task_obj /\ sched' = sched /\ locked' = locked
    BY <1>3 DEF ApplyParams, configVars
  <2>2. Parsed /\ task_obj \in TaskObjects /\ kernel \in KernelParams /\ locked \in BOOLEAN
    BY <2>1 DEF SchedOfTask, SchedTypeOK
  <2>3. kernel' \in KernelParams /\ ParamsAsAsked'
    BY <2>1, <2>2, SetParamsAsAsked
  <2>4. Parsed'
    BY <2>1, <2>2 DEF Parsed
  <2> QED BY <2>1, <2>2, <2>3, <2>4 DEF SchedTypeOK, SchedOfTask
<1>4. ASSUME ApplyUclamp
      PROVE  SchedIInv'
  <2>1. /\ sched_at = "uclamp" /\ sched_at' = "lock" /\ SetUclamp(sched)
        /\ task_obj' = task_obj /\ sched' = sched /\ locked' = locked
    BY <1>4 DEF ApplyUclamp, configVars
  <2>2. /\ Parsed /\ task_obj \in TaskObjects /\ kernel \in KernelParams /\ locked \in BOOLEAN
        /\ ParamsAsAsked
    BY <2>1 DEF SchedOfTask, SchedTypeOK
  <2>3. kernel' \in KernelParams /\ ParamsAsAsked' /\ ClampsAsAsked'
    BY <2>1, <2>2, SetUclampAsAsked
  <2>4. Parsed'
    BY <2>1, <2>2 DEF Parsed
  <2> QED BY <2>1, <2>2, <2>3, <2>4 DEF SchedTypeOK, SchedOfTask
<1>5. ASSUME ApplyFails
      PROVE  SchedIInv'
  <2>1. Parsed
    BY <1>5 DEF ApplyFails, SchedOfTask
  <2>2. Parsed'
    BY <1>5, <2>1 DEF ApplyFails, configVars, Parsed
  <2> QED BY <1>5, <2>2 DEF ApplyFails, configVars, SchedTypeOK, SchedOfTask
<1>6. ASSUME Lock
      PROVE  SchedIInv'
  <2>1. /\ sched_at = "lock" /\ sched_at' = "running" /\ locked' \in BOOLEAN
        /\ task_obj' = task_obj /\ sched' = sched /\ kernel' = kernel
    BY <1>6, SchedulingAssumption DEF Lock, configVars
  <2>2. Parsed /\ ParamsAsAsked /\ ClampsAsAsked
    BY <2>1 DEF SchedOfTask
  <2>3. Parsed'
    BY <2>1, <2>2 DEF Parsed
  <2>4. ParamsAsAsked' /\ ClampsAsAsked'
    BY <2>1, <2>2, AskedUnchanged
  <2> QED BY <2>1, <2>3, <2>4 DEF SchedTypeOK, SchedOfTask
<1>7. ASSUME NEW i \in DOMAIN phases, EnterPhase(i)
      PROVE  SchedIInv'
  <2>1. /\ sched_at = "running" /\ sched_at' = sched_at /\ locked' = locked
        /\ task_obj' = task_obj /\ sched' = sched /\ kernel' = kernel
    BY <1>7 DEF EnterPhase, configVars
  <2>2. Parsed /\ ParamsAsAsked /\ ClampsAsAsked
    BY <2>1 DEF SchedOfTask
  <2>3. Parsed'
    BY <2>1, <2>2 DEF Parsed
  <2>4. ParamsAsAsked' /\ ClampsAsAsked'
    BY <2>1, <2>2, AskedUnchanged
  <2> QED BY <2>1, <2>3, <2>4 DEF SchedTypeOK, SchedOfTask
<1>8. ASSUME Reset
      PROVE  SchedIInv'
  <2>1. /\ sched_at = "running" /\ sched_at' = "done" /\ locked' = locked
        /\ task_obj' = task_obj /\ sched' = sched
        /\ sched_setattr(build_cfs_attr(0, 0)) \/ kernel' = kernel
    BY <1>8 DEF Reset, configVars
  <2>2. kernel' \in KernelParams
    BY <2>1, ResetTyped DEF SchedTypeOK
  <2>3. Parsed'
    BY <2>1 DEF Parsed, SchedOfTask
  <2> QED BY <2>1, <2>2, <2>3 DEF SchedTypeOK, SchedOfTask
<1>9. ASSUME UNCHANGED schedVars
      PROVE  SchedIInv'
  <2>1. /\ sched_at' = sched_at /\ locked' = locked /\ task_obj' = task_obj /\ sched' = sched
        /\ kernel' = kernel
    BY <1>9 DEF schedVars
  <2>2. Parsed' = Parsed
    BY <2>1 DEF Parsed
  <2>3. ParamsAsAsked' = ParamsAsAsked /\ ClampsAsAsked' = ClampsAsAsked
    BY <2>1, AskedUnchanged
  <2> QED BY <2>1, <2>2, <2>3 DEF SchedTypeOK, SchedOfTask
<1> QED BY <1>1, <1>2, <1>3, <1>4, <1>5, <1>6, <1>7, <1>8, <1>9 DEF SchedNext

\* From the parse to the last phase the thread holds its task's own parameters,
\* and each of the two calls has left in the kernel what it is for.
THEOREM SchedulingKeepsInvariant == SchedSpec => []SchedIInv
BY SchedStart, SchedStep, PTL DEF SchedSpec

\* In whatever phase a thread is, as long as none states parameters of its own,
\* the kernel schedules it by the policy, the parameters and the clamps that its
\* task states.
THEOREM TasksScheduledAsAsked == SchedSpec => []InForce
<1>1. SchedIInv => InForce
  BY DEF SchedIInv, InForce
<1> QED BY <1>1, SchedulingKeepsInvariant, PTL
=============================================================================
