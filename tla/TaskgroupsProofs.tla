--------------------------- MODULE TaskgroupsProofs ---------------------------
(***************************************************************************)
(* Proofs about Taskgroups: whatever other processes make and remove       *)
(* between two system calls, the controller removes no directory that was  *)
(* there before the program, for every set of paths.                       *)
(***************************************************************************)
EXTENDS Taskgroups, SequenceTheorems, TLAPS

\* Components of a component are components of the path.
LEMMA ComponentFacts ==
  ASSUME NEW d \in Paths, NEW k \in 1..Len(d)
  PROVE  /\ Component(d, k) \in Paths
         /\ Len(Component(d, k)) = k
         /\ Component(d, Len(d)) = d
         /\ \A j \in 1..k : Component(Component(d, k), j) = Component(d, j)
<1> DEFINE Str == STRING
<1>1. d \in Seq(STRING) /\ Len(d) \in Nat
  BY TaskgroupsAssumption
<1> HIDE DEF Str
<1>2. d \in Seq(Str) /\ Len(d) \in Nat
  BY <1>1 DEF Str
<1>3. Component(d, k) \in Paths
  BY TaskgroupsAssumption DEF PrefixClosed
<1>4. \A i \in 1..k : d[i] \in Str
  BY <1>2, ElementOfSeq
<1>5. Component(d, k) \in Seq(Str) /\ Len(Component(d, k)) = k
  BY <1>2, <1>4, SubSeqProperties DEF Component
<1>6. Component(d, Len(d)) = d
  BY <1>2, SubSeqFull DEF Component
<1>7. ASSUME NEW j \in 1..k
      PROVE  Component(Component(d, k), j) = Component(d, j)
  <2>1. /\ 1 \in 1..Len(d) /\ k \in 1..Len(d)
        /\ 1 \in 1..(k - 1 + 1) /\ j \in 1..(k - 1 + 1)
    BY <1>2
  <2>2. SubSeq(SubSeq(d, 1, k), 1, j) = SubSeq(d, 1 + 1 - 1, 1 + j - 1)
    BY <1>2, <2>1, SubSeqOfSubSeq
  <2> QED BY <2>2 DEF Component
<1> QED BY <1>3, <1>5, <1>6, <1>7

LEMMA PathFacts ==
  ASSUME NEW d \in Paths
  PROVE  Len(d) \in Nat \ {0}
<1>1. d \in Seq(STRING) /\ d # <<>>
  BY TaskgroupsAssumption DEF Root
<1>2. Len(d) \in Nat /\ (Len(d) = 0 => d = <<>>)
  BY <1>1, EmptySeq
<1> QED BY <1>1, <1>2

\* A directory made under an existing one leaves the set closed.
LEMMA AddDirectory ==
  ASSUME NEW S, S \subseteq Paths, PrefixClosed(S), NEW d \in Paths,
         Len(d) > 1 => Component(d, Len(d) - 1) \in S
  PROVE  PrefixClosed(S \cup {d})
<1> SUFFICES ASSUME NEW e \in S \cup {d}, NEW k \in 1..Len(e)
             PROVE  Component(e, k) \in S \cup {d}
  BY DEF PrefixClosed
<1>1. CASE e \in S
  BY <1>1 DEF PrefixClosed
<1>2. CASE e = d /\ k = Len(d)
  BY <1>2, ComponentFacts
<1>3. CASE e = d /\ k # Len(d)
  <2>0. Len(d) \in Nat \ {0}
    BY PathFacts
  <2>1. Len(d) > 1 /\ Len(d) - 1 \in 1..Len(d) /\ k \in 1..(Len(d) - 1)
    BY <1>3, <2>0
  <2> DEFINE parent == Component(d, Len(d) - 1)
  <2>2. parent \in S /\ Len(parent) = Len(d) - 1
    BY <2>1, ComponentFacts
  <2>3. Component(parent, k) \in S
    BY <2>1, <2>2 DEF PrefixClosed
  <2>4. Component(parent, k) = Component(d, k)
    BY <2>1, ComponentFacts
  <2> QED BY <1>3, <2>3, <2>4
<1> QED BY <1>1, <1>2, <1>3

\* So does the removal of one that has no children.
LEMMA RemoveDirectory ==
  ASSUME NEW S, S \subseteq Paths, PrefixClosed(S), NEW d,
         \A e \in S : Within(d, e) => e = d
  PROVE  PrefixClosed(S \ {d})
<1> SUFFICES ASSUME NEW e \in S, e # d, NEW k \in 1..Len(e)
             PROVE  Component(e, k) \in S /\ Component(e, k) # d
  BY DEF PrefixClosed
<1>1. Component(e, k) \in S
  BY DEF PrefixClosed
<1>2. Len(Component(e, k)) = k /\ Len(e) \in Nat
  BY ComponentFacts, PathFacts
<1>3. Component(e, k) = d => Within(d, e)
  BY <1>2 DEF Within
<1> QED BY <1>1, <1>3

LEMMA TurnToKeeps ==
  ASSUME TypeOK, NEW g \in 0..Len(taskgroups), TurnTo(g), UNCHANGED taskgroups,
         stage \in {"added", "removing"}
  PROVE  /\ stage' \in {"removed", "removing"}
         /\ stage' = "removing" => /\ group' \in 1..Len(taskgroups)
                                   /\ component' = Len(taskgroups[group'].name)
                                   /\ component' \in 1..Len(taskgroups[group'].name)
                                   /\ taskgroups[group'].mkdir_offset <= component'
<1> SUFFICES ASSUME stage' = "removing"
             PROVE  /\ group' \in 1..Len(taskgroups)
                    /\ component' = Len(taskgroups[group'].name)
                    /\ component' \in 1..Len(taskgroups[group'].name)
                    /\ taskgroups[group'].mkdir_offset <= component'
  BY DEF TurnTo
<1>1. group' = g /\ g \in 1..Len(taskgroups) /\ component' = Len(taskgroups[g].name)
  BY DEF TurnTo, TypeOK
<1>2. taskgroups[g] \in TaskgroupData
  BY <1>1 DEF TypeOK
<1>3. /\ taskgroups[g].name \in Paths
      /\ taskgroups[g].mkdir_offset <= Len(taskgroups[g].name)
  BY <1>2, TaskgroupsAssumption DEF TaskgroupData
<1>4. Len(taskgroups[g].name) \in Nat \ {0}
  BY <1>3, PathFacts
<1> QED BY <1>1, <1>3, <1>4

\* In a call, the directory it is at is a path; and the entry of a taskgroup
\* has an offset within its path.
LEMMA CurrentFacts ==
  ASSUME TypeOK, stage \in {"adding", "removing"}
  PROVE  /\ taskgroups[group] \in TaskgroupData
         /\ group \in 1..Len(taskgroups)
         /\ taskgroups[group].name \in Paths
         /\ Len(taskgroups[group].name) \in Nat \ {0}
         /\ taskgroups[group].mkdir_offset \in 0..Len(taskgroups[group].name)
         /\ component \in 1..Len(taskgroups[group].name)
         /\ Current \in Paths
         /\ Len(Current) = component
         /\ \A j \in 1..component : Component(Current, j) = Component(taskgroups[group].name, j)
<1>1. group \in 1..Len(taskgroups) /\ component \in 1..Len(taskgroups[group].name)
  BY DEF TypeOK
<1>2. taskgroups[group] \in TaskgroupData
  BY <1>1 DEF TypeOK
<1>3. /\ taskgroups[group].name \in Paths
      /\ taskgroups[group].mkdir_offset \in Nat
      /\ taskgroups[group].mkdir_offset <= Len(taskgroups[group].name)
  BY <1>2, TaskgroupsAssumption DEF TaskgroupData
<1>4. Len(taskgroups[group].name) \in Nat \ {0}
  BY <1>3, PathFacts
<1>5. /\ Current \in Paths /\ Len(Current) = component
      /\ \A j \in 1..component : Component(Current, j) = Component(taskgroups[group].name, j)
  BY <1>1, <1>3, ComponentFacts DEF Current
<1> QED BY <1>1, <1>2, <1>3, <1>4, <1>5

\* The step to the next component of add_cgroups, when what it counts as
\* created was not there before.
LEMMA NextComponentKeeps ==
  ASSUME TypeOK, OffsetsSafe, stage = "adding",
         NEW first \in 0..component,
         first # 0 => Component(taskgroups[group].name, first) \notin pre,
         NextComponent(first), UNCHANGED <<pre, mounted, attached>>,
         dirs' \subseteq Paths, PrefixClosed(dirs')
  PROVE  TypeOK' /\ OffsetsSafe'
<1> DEFINE tg == taskgroups[group]
<1>1. /\ tg \in TaskgroupData /\ group \in 1..Len(taskgroups)
      /\ tg.name \in Paths /\ Len(tg.name) \in Nat \ {0}
      /\ component \in 1..Len(tg.name)
  BY CurrentFacts
<1>2. CASE component < Len(tg.name)
  <2>1. /\ component' = component + 1 /\ first_created' = first
        /\ UNCHANGED <<taskgroups, stage, complete, group>>
    BY <1>2 DEF NextComponent
  <2>2. TypeOK'
    BY <1>1, <1>2, <2>1 DEF TypeOK
  <2>3. OffsetsSafe'
    BY <2>1 DEF OffsetsSafe
  <2> QED BY <2>2, <2>3
<1>3. CASE ~(component < Len(tg.name))
  <2> DEFINE new == [tg EXCEPT !.mkdir_offset = first]
  <2>1. /\ taskgroups' = [taskgroups EXCEPT ![group] = new]
        /\ component' = 1 /\ first_created' = 0
        /\ \/ group < Len(taskgroups) /\ group' = group + 1 /\ UNCHANGED <<stage, complete>>
           \/ stage' = "added" /\ complete' = TRUE
    BY <1>3 DEF NextComponent
  <2>2. /\ new \in TaskgroupData
        /\ new.name = tg.name /\ new.mkdir_offset = first
    BY <1>1 DEF TaskgroupData
  <2>3. taskgroups \in Seq(TaskgroupData)
    BY DEF TypeOK
  <2> HIDE DEF new, tg
  <2>4. /\ taskgroups' \in Seq(TaskgroupData)
        /\ Len(taskgroups') = Len(taskgroups)
        /\ \A g \in 1..Len(taskgroups) : taskgroups'[g] = IF g = group THEN new ELSE taskgroups[g]
    BY <1>1, <2>1, <2>2, <2>3, ExceptSeq
  <2>5. \A g \in 1..Len(taskgroups) :
           taskgroups'[g].name = taskgroups[g].name /\ taskgroups[g] \in TaskgroupData
    BY <2>2, <2>3, <2>4 DEF tg
  <2>6. \A g \in 1..Len(taskgroups) : Len(taskgroups'[g].name) \in Nat \ {0}
    BY <2>5, PathFacts, TaskgroupsAssumption DEF TaskgroupData
  <2>7. /\ taskgroups' # <<>>
        /\ Len(taskgroups) \in Nat
    BY <1>1, <2>4, <2>3, EmptySeq
  <2>8. TypeOK'
    <3>1. /\ dirs' \subseteq Paths /\ PrefixClosed(dirs')
          /\ pre' \subseteq Paths /\ PrefixClosed(pre')
          /\ mounted' \in BOOLEAN
          /\ (mounted => taskgroups # <<>>)'
          /\ attached' \in [Threads -> Names \cup {Root}]
      BY <2>7 DEF TypeOK
    <3>2. complete' \in BOOLEAN
      BY <2>1 DEF TypeOK
    <3>3. /\ first_created' \in Nat /\ taskgroups' \in Seq(TaskgroupData)
          /\ stage' \in {"adding", "added"}
      BY <2>1, <2>4
    <3>4. stage' = "adding" => /\ group' \in 1..Len(taskgroups')
                               /\ component' \in 1..Len(taskgroups'[group'].name)
                               /\ first_created' < component'
      BY <1>1, <2>1, <2>4, <2>6, <2>7
    <3> QED BY <3>1, <3>2, <3>3, <3>4 DEF TypeOK
  <2>9. OffsetsSafe'
    <3>1. DOMAIN taskgroups = 1..Len(taskgroups) /\ DOMAIN taskgroups' = 1..Len(taskgroups)
      BY <2>3, <2>4
    <3>2. ASSUME NEW g \in 1..Len(taskgroups), taskgroups'[g].mkdir_offset # 0
          PROVE  Component(taskgroups'[g].name, taskgroups'[g].mkdir_offset) \notin pre
      BY <2>2, <2>4, <3>1, <3>2 DEF OffsetsSafe, tg
    <3> QED BY <2>1, <3>1, <3>2 DEF OffsetsSafe
  <2> QED BY <2>8, <2>9
<1> QED BY <1>2, <1>3

LEMMA InitEstablishes ==
  Init => IInv
<1> SUFFICES ASSUME Init PROVE IInv
  OBVIOUS
<1>1. taskgroups \in Seq(TaskgroupData) /\ DOMAIN taskgroups = {}
  BY EmptySeq DEF Init
<1>2. TypeOK
  BY <1>1, TaskgroupsAssumption DEF Init, TypeOK
<1> QED BY <1>1, <1>2 DEF Init, IInv, PreexistingKept, OffsetsSafe

LEMMA StepKeeps ==
  IInv /\ [Next]_vars => IInv'
<1> SUFFICES ASSUME IInv, [Next]_vars PROVE IInv'
  OBVIOUS
<1> USE DEF IInv
<1>1. ASSUME NEW name \in Names, Alloc(name) PROVE IInv'
  <2> DEFINE new == [name |-> name, mkdir_offset |-> 0]
  <2>1. /\ taskgroups \in Seq(TaskgroupData) /\ taskgroups' = Append(taskgroups, new)
        /\ UNCHANGED <<dirs, pre, mounted, stage, complete, callVars, attached>>
        /\ stage = "config"
    BY <1>1 DEF Alloc, TypeOK
  <2>2. Len(name) \in Nat \ {0}
    BY PathFacts, TaskgroupsAssumption
  <2>3. new \in TaskgroupData /\ new.mkdir_offset = 0
    BY <2>2 DEF TaskgroupData
  <2> HIDE DEF new
  <2>4. /\ taskgroups' \in Seq(TaskgroupData) /\ taskgroups' # <<>>
        /\ Len(taskgroups') = Len(taskgroups) + 1
        /\ \A i \in 1..Len(taskgroups) : taskgroups'[i] = taskgroups[i]
        /\ taskgroups'[Len(taskgroups) + 1] = new
    BY <2>1, <2>3, AppendProperties
  <2>5. TypeOK'
    BY <2>1, <2>4 DEF TypeOK, callVars
  <2>6. OffsetsSafe'
    <3>1. DOMAIN taskgroups = 1..Len(taskgroups) /\ DOMAIN taskgroups' = 1..(Len(taskgroups) + 1)
          /\ Len(taskgroups) \in Nat
      BY <2>1, <2>4
    <3>2. ASSUME NEW g \in 1..(Len(taskgroups) + 1), taskgroups'[g].mkdir_offset # 0
          PROVE  Component(taskgroups'[g].name, taskgroups'[g].mkdir_offset) \notin pre
      BY <2>3, <2>4, <3>1, <3>2 DEF OffsetsSafe
    <3> QED BY <2>1, <3>1, <3>2 DEF OffsetsSafe
  <2> QED BY <2>1, <2>5, <2>6 DEF PreexistingKept
<1>2. ASSUME Initialize PROVE IInv'
  BY <1>2 DEF Initialize, TypeOK, callVars, PreexistingKept, OffsetsSafe
<1>3. ASSUME AddCgroups PROVE IInv'
  <2>1. taskgroups \in Seq(TaskgroupData) /\ taskgroups # <<>>
    BY <1>3 DEF AddCgroups, TypeOK
  <2>2. Len(taskgroups) \in Nat \ {0}
    BY <2>1, EmptySeq
  <2>3. taskgroups[1] \in TaskgroupData
    BY <2>1, <2>2
  <2>4. Len(taskgroups[1].name) \in Nat \ {0}
    BY <2>3, PathFacts, TaskgroupsAssumption DEF TaskgroupData
  <2> QED BY <1>3, <2>2, <2>4 DEF AddCgroups, TypeOK, PreexistingKept, OffsetsSafe
<1>4. ASSUME MkdirCreates PROVE IInv'
  <2>1. /\ stage = "adding" /\ Current \notin dirs
        /\ component > 1 => Component(Current, component - 1) \in dirs
        /\ dirs' = dirs \cup {Current}
        /\ NextComponent(IF first_created = 0 THEN component ELSE first_created)
        /\ UNCHANGED <<pre, mounted, attached>>
    BY <1>4 DEF MkdirCreates
  <2>2. Current \in Paths /\ Len(Current) = component
    BY <2>1, CurrentFacts
  <2>3. dirs' \subseteq Paths /\ PrefixClosed(dirs')
    BY <2>1, <2>2, AddDirectory DEF TypeOK
  <2> DEFINE first == IF first_created = 0 THEN component ELSE first_created
  <2>4. first \in 0..component
    BY <2>1, CurrentFacts DEF TypeOK
  <2>5. first # 0 => Component(taskgroups[group].name, first) \notin pre
    BY <2>1 DEF OffsetsSafe, PreexistingKept, Current
  <2>6. TypeOK' /\ OffsetsSafe'
    <3> HIDE DEF first
    <3> QED BY <2>1, <2>3, <2>4, <2>5, NextComponentKeeps DEF first
  <2> QED BY <2>1, <2>6 DEF PreexistingKept
<1>5. ASSUME MkdirExists PROVE IInv'
  <2>1. /\ stage = "adding" /\ NextComponent(first_created)
        /\ UNCHANGED <<dirs, pre, mounted, attached>>
    BY <1>5 DEF MkdirExists
  <2>2. first_created \in 0..component
    BY <2>1, CurrentFacts DEF TypeOK
  <2>3. first_created # 0 => Component(taskgroups[group].name, first_created) \notin pre
    BY <2>1 DEF OffsetsSafe
  <2>4. dirs' \subseteq Paths /\ PrefixClosed(dirs')
    BY <2>1 DEF TypeOK
  <2>5. TypeOK' /\ OffsetsSafe'
    BY <2>1, <2>2, <2>3, <2>4, NextComponentKeeps
  <2> QED BY <2>1, <2>5 DEF PreexistingKept
<1>6. ASSUME MkdirFails PROVE IInv'
  BY <1>6 DEF MkdirFails, TypeOK, callVars, PreexistingKept, OffsetsSafe
<1>7. ASSUME NEW t \in Threads, NEW g \in DOMAIN taskgroups, Attach(t, g) PROVE IInv'
  <2>1. taskgroups[g] \in TaskgroupData
    BY DEF TypeOK
  <2>2. taskgroups[g].name \in Names
    BY <2>1 DEF TaskgroupData
  <2> QED BY <1>7, <2>2 DEF Attach, TypeOK, callVars, PreexistingKept, OffsetsSafe
<1>8. ASSUME NEW t \in Threads, Reset(t) PROVE IInv'
  BY <1>8 DEF Reset, TypeOK, callVars, PreexistingKept, OffsetsSafe
<1>9. ASSUME NEW g \in 0..Len(taskgroups), TurnTo(g), stage \in {"added", "removing"},
             dirs' \subseteq Paths, PrefixClosed(dirs'), pre \subseteq dirs',
             UNCHANGED <<pre, mounted, taskgroups, complete, attached>>
      PROVE  IInv'
  <2>1. /\ stage' \in {"removed", "removing"}
        /\ stage' = "removing" => /\ group' \in 1..Len(taskgroups)
                                  /\ component' \in 1..Len(taskgroups[group'].name)
                                  /\ taskgroups[group'].mkdir_offset <= component'
    BY <1>9, TurnToKeeps
  <2>2. first_created' = first_created
    BY <1>9 DEF TurnTo
  <2>3. TypeOK'
    BY <1>9, <2>1, <2>2 DEF TypeOK
  <2>4. stage' = "removing" => component' >= taskgroups[group'].mkdir_offset
    <3>1. ASSUME stage' = "removing" PROVE component' \in Int
                                          /\ taskgroups[group'].mkdir_offset \in Int
      <4>1. taskgroups[group'] \in TaskgroupData
        BY <2>1, <3>1 DEF TypeOK
      <4> QED BY <2>1, <3>1, <4>1 DEF TaskgroupData
    <3> QED BY <2>1, <3>1
  <2>5. OffsetsSafe'
    BY <1>9, <2>1, <2>4 DEF OffsetsSafe
  <2> QED BY <1>9, <2>3, <2>5 DEF PreexistingKept
<1>10. ASSUME RemoveCgroups PROVE IInv'
  <2>1. Len(taskgroups) \in Nat
    BY DEF TypeOK
  <2> QED BY <1>9, <1>10, <2>1 DEF RemoveCgroups, TypeOK, PreexistingKept
<1>11. ASSUME NothingCreated \/ RmdirRefused PROVE IInv'
  <2>1. stage = "removing" /\ TurnTo(group - 1)
        /\ UNCHANGED <<dirs, pre, mounted, taskgroups, complete, attached>>
    BY <1>11 DEF NothingCreated, RmdirRefused
  <2>2. group - 1 \in 0..Len(taskgroups)
    BY <2>1, CurrentFacts
  <2> QED BY <1>9, <2>1, <2>2 DEF TypeOK, PreexistingKept
<1>12. ASSUME Rmdir PROVE IInv'
  <2> DEFINE offset == taskgroups[group].mkdir_offset
  <2>1. /\ stage = "removing" /\ offset # 0 /\ Removable(Current)
        /\ dirs' = dirs \ {Current}
        /\ UNCHANGED <<pre, mounted, taskgroups, complete, attached>>
        /\ \/ /\ component > offset /\ component' = component - 1
              /\ UNCHANGED <<stage, group, first_created>>
           \/ TurnTo(group - 1)
    BY <1>12 DEF Rmdir
  <2>2. /\ offset \in 1..component /\ component \in 1..Len(taskgroups[group].name)
        /\ Component(Current, offset) = Component(taskgroups[group].name, offset)
        /\ Len(Current) = component
        /\ Len(taskgroups[group].name) \in Nat /\ group - 1 \in 0..Len(taskgroups)
    <3>1. component >= offset
      BY <2>1 DEF OffsetsSafe
    <3> QED BY <2>1, <3>1, CurrentFacts
  <2>3. Current \notin pre
    <3>1. Component(taskgroups[group].name, offset) \notin pre
      BY <2>1, CurrentFacts DEF OffsetsSafe, TypeOK
    <3>2. PrefixClosed(pre)
      BY DEF TypeOK
    <3> QED BY <2>2, <3>1, <3>2 DEF PrefixClosed
  <2>4. pre \subseteq dirs'
    BY <2>1, <2>3 DEF PreexistingKept
  <2>5. dirs' \subseteq Paths /\ PrefixClosed(dirs')
    BY <2>1, RemoveDirectory DEF TypeOK, Removable
  <2>6. CASE TurnTo(group - 1)
    BY <1>9, <2>1, <2>2, <2>4, <2>5, <2>6
  <2>7. CASE /\ component > offset /\ component' = component - 1
             /\ UNCHANGED <<stage, group, first_created>>
    <3>1. component' \in 1..Len(taskgroups[group].name) /\ component' >= offset
      BY <2>2, <2>7
    <3>2. TypeOK'
      BY <2>1, <2>5, <2>7, <3>1 DEF TypeOK
    <3>3. OffsetsSafe'
      BY <2>1, <2>7, <3>1 DEF OffsetsSafe
    <3> QED BY <2>1, <2>4, <3>2, <3>3 DEF PreexistingKept
  <2> QED BY <2>1, <2>6, <2>7
<1>13. ASSUME RmdirFails PROVE IInv'
  BY <1>13 DEF RmdirFails, TypeOK, callVars, PreexistingKept, OffsetsSafe
<1>14. ASSUME NEW d \in EnvPaths, EnvMkdir(d) PROVE IInv'
  <2>1. dirs' \subseteq Paths /\ PrefixClosed(dirs')
    BY <1>14, AddDirectory, TaskgroupsAssumption DEF EnvMkdir, TypeOK
  <2> QED BY <1>14, <2>1 DEF EnvMkdir, TypeOK, callVars, PreexistingKept, OffsetsSafe
<1>15. ASSUME NEW d \in EnvPaths, EnvRmdir(d) PROVE IInv'
  <2>1. /\ dirs' = dirs \ {d} /\ pre' = pre \ {d}
        /\ \A e \in dirs : Within(d, e) => e = d
        /\ UNCHANGED <<mounted, taskgroups, stage, complete, callVars, attached>>
    BY <1>15 DEF EnvRmdir, Removable
  <2>2. PrefixClosed(dirs')
    BY <2>1, RemoveDirectory DEF TypeOK
  <2>3. PrefixClosed(pre')
    BY <2>1, RemoveDirectory DEF TypeOK, PreexistingKept
  <2> QED BY <2>1, <2>2, <2>3 DEF TypeOK, callVars, PreexistingKept, OffsetsSafe
<1>16. ASSUME UNCHANGED vars PROVE IInv'
  BY <1>16 DEF vars, TypeOK, callVars, PreexistingKept, OffsetsSafe
<1> QED BY <1>1, <1>2, <1>3, <1>4, <1>5, <1>6, <1>7, <1>8, <1>10, <1>11, <1>12,
           <1>13, <1>14, <1>15, <1>16 DEF Next

\* The inductive invariant of Taskgroups.
THEOREM InvariantHolds == Spec => []IInv
<1>1. Init => IInv
  BY InitEstablishes
<1>2. IInv /\ [Next]_vars => IInv'
  BY StepKeeps
<1> QED BY <1>1, <1>2, PTL DEF Spec

\* remove_cgroups never removes a directory that was there before the program,
\* at whatever moment other processes make or remove the directories it is at.
THEOREM PreexistingIsKept == Spec => []PreexistingKept
<1>1. IInv => PreexistingKept
  BY DEF IInv
<1> QED BY <1>1, InvariantHolds, PTL

\* The offset a taskgroup records is above nothing that was there before.
THEOREM OffsetsAreSafe == Spec => []OffsetsSafe
<1>1. IInv => OffsetsSafe
  BY DEF IInv
<1> QED BY <1>1, InvariantHolds, PTL

----------------------------------------------------------------------------
(* What is left behind *)

\* "Is a prefix of" orders the paths, and the prefixes of a path by length.
LEMMA WithinFacts ==
  ASSUME NEW d \in Paths, NEW f \in Paths
  PROVE  /\ Within(d, d)
         /\ ~Within(d, Root)
         /\ \A e \in Paths : Within(d, e) /\ Within(e, f) => Within(d, f)
         /\ \A e \in Paths : Within(d, f) /\ Within(e, f) /\ Len(d) <= Len(e) => Within(d, e)
<1>1. Len(d) \in Nat \ {0} /\ Len(f) \in Nat \ {0}
  BY PathFacts
<1>2. Within(d, d)
  BY <1>1, ComponentFacts DEF Within
<1>3. ~Within(d, Root)
  BY <1>1 DEF Within, Root
<1>4. ASSUME NEW e \in Paths, Within(e, f), Len(d) <= Len(e)
      PROVE  Component(e, Len(d)) = Component(f, Len(d)) /\ Len(e) <= Len(f)
  <2>1. /\ Len(e) \in Nat \ {0} /\ Len(e) <= Len(f)
        /\ Component(f, Len(e)) = e
    BY <1>4, PathFacts DEF Within
  <2>2. Len(e) \in 1..Len(f) /\ Len(d) \in 1..Len(e)
    BY <1>1, <1>4, <2>1
  <2>3. Component(Component(f, Len(e)), Len(d)) = Component(f, Len(d))
    BY <2>2, ComponentFacts
  <2> QED BY <2>1, <2>3
<1>5. ASSUME NEW e \in Paths, Within(d, e), Within(e, f) PROVE Within(d, f)
  <2>1. Len(e) \in Nat
    BY PathFacts
  <2>2. Component(e, Len(d)) = d /\ Len(d) <= Len(e)
    BY <1>5 DEF Within
  <2>3. Component(f, Len(d)) = d /\ Len(e) <= Len(f)
    BY <1>4, <1>5, <2>2
  <2> QED BY <1>1, <2>1, <2>2, <2>3 DEF Within
<1>6. ASSUME NEW e \in Paths, Within(d, f), Within(e, f), Len(d) <= Len(e)
      PROVE  Within(d, e)
  <2>1. Component(f, Len(d)) = d
    BY <1>6 DEF Within
  <2> QED BY <1>4, <1>6, <2>1 DEF Within
<1> QED BY <1>2, <1>3, <1>5, <1>6

\* Two prefixes of a path that are as long as each other are the same.
LEMMA SameLength ==
  ASSUME NEW f, NEW d, NEW e, Within(d, f), Within(e, f), Len(d) = Len(e)
  PROVE  d = e
BY DEF Within

LEMMA ClosedUpwards ==
  ASSUME NEW S, S \subseteq Paths, PrefixClosed(S), NEW e \in S, NEW d \in Paths, Within(d, e)
  PROVE  d \in S
<1>1. Len(d) \in Nat \ {0} /\ Len(e) \in Nat
  BY PathFacts
<1>2. Component(e, Len(d)) = d /\ Len(d) \in 1..Len(e)
  BY <1>1 DEF Within
<1> QED BY <1>2 DEF PrefixClosed

\* What is inside an untouched directory is untouched.
LEMMA UntouchedInside ==
  ASSUME NEW d \in Paths, NEW e \in Paths, Within(d, e), Untouched(d)
  PROVE  Untouched(e)
<1> SUFFICES ASSUME NEW p \in EnvPaths, Within(e, p) PROVE FALSE
  BY DEF Untouched
<1>1. p \in Paths
  BY TaskgroupsAssumption
<1>2. Within(d, p)
  BY <1>1, WithinFacts
<1> QED BY <1>2 DEF Untouched

\* A directory that other processes make or remove is not untouched.
LEMMA EnvTouches ==
  ASSUME NEW d \in EnvPaths
  PROVE  ~Untouched(d) /\ d \in Paths
<1>1. d \in Paths
  BY TaskgroupsAssumption
<1> QED BY <1>1, WithinFacts DEF Untouched

\* The directory that a call is at is a prefix of its taskgroup's name.
LEMMA CurrentWithin ==
  ASSUME TypeOK, stage \in {"adding", "removing"}
  PROVE  /\ Within(Current, taskgroups[group].name)
         /\ \A d \in Paths : Len(d) <= component =>
              (Within(d, Current) <=> Within(d, taskgroups[group].name))
<1> DEFINE name == taskgroups[group].name
<1>1. /\ name \in Paths /\ Current \in Paths /\ Len(Current) = component
      /\ component \in 1..Len(name) /\ Len(name) \in Nat
  BY CurrentFacts
<1>2. Within(Current, name)
  BY <1>1 DEF Within, Current
<1> HIDE DEF name
<1>3. ASSUME NEW d \in Paths, Len(d) <= component
      PROVE  Within(d, Current) <=> Within(d, name)
  BY <1>1, <1>2, <1>3, WithinFacts
<1> QED BY <1>2, <1>3 DEF name

LEMMA GroupFacts ==
  ASSUME TypeOK
  PROVE  /\ Groups = 1..Len(taskgroups) /\ Len(taskgroups) \in Nat
         /\ \A g \in Groups : /\ taskgroups[g] \in TaskgroupData
                              /\ taskgroups[g].name \in Paths
                              /\ taskgroups[g].mkdir_offset \in Nat
<1>1. Groups = 1..Len(taskgroups) /\ Len(taskgroups) \in Nat
  BY DEF TypeOK, Groups
<1>2. ASSUME NEW g \in Groups
      PROVE  /\ taskgroups[g] \in TaskgroupData
             /\ taskgroups[g].name \in Paths
             /\ taskgroups[g].mkdir_offset \in Nat
  <2>1. taskgroups[g] \in TaskgroupData
    BY <1>1 DEF TypeOK
  <2> QED BY <2>1, TaskgroupsAssumption DEF TaskgroupData
<1> QED BY <1>1, <1>2

\* What a step of add_cgroups to the next component does to who owns what.
LEMMA NextOwns ==
  ASSUME TypeOK, TypeOK', NotYetAdded, stage = "adding",
         NEW first \in 0..component,
         \/ first = first_created
         \/ first_created = 0 /\ first = component,
         NextComponent(first)
  PROVE  /\ NotYetAdded' /\ Groups' = Groups /\ group \in Groups
         /\ \A g \in Groups : taskgroups'[g].name = taskgroups[g].name
         /\ \A g \in Groups, d \in Paths :
              /\ Owns(g, d)' <=> Owns(g, d) \/ (g = group /\ first # 0 /\ d = Current)
              /\ Owns(g, d) => g <= group
         /\ stage' \in {"adding", "added"}
         /\ stage' = "adding" /\ first_created' # 0 =>
              /\ group' = group /\ taskgroups' = taskgroups
              /\ component' = component + 1 /\ first_created' = first
<1> DEFINE tg == taskgroups[group]
<1>1. /\ tg \in TaskgroupData /\ group \in 1..Len(taskgroups)
      /\ tg.name \in Paths /\ Len(tg.name) \in Nat \ {0}
      /\ component \in 1..Len(tg.name) /\ tg.mkdir_offset \in Nat
      /\ Current \in Paths /\ Len(Current) = component /\ Within(Current, tg.name)
  BY CurrentFacts, CurrentWithin
<1>2. /\ Groups = 1..Len(taskgroups) /\ Len(taskgroups) \in Nat
      /\ \A g \in Groups : taskgroups[g].mkdir_offset \in Nat
      /\ first_created \in Nat /\ first_created < component
  BY GroupFacts DEF TypeOK
<1>3. \A g \in Groups : g >= group => taskgroups[g].mkdir_offset = 0
  BY DEF NotYetAdded
<1>4. \A d \in Paths : Len(d) = component => (Within(d, tg.name) <=> d = Current)
  BY <1>1, SameLength
<1>5. \A d \in Paths : Within(d, tg.name) => Len(d) <= Len(tg.name) /\ Len(d) \in Nat
  BY PathFacts DEF Within
<1>6. \A g \in Groups, d \in Paths : Owns(g, d) => g <= group
  BY <1>1, <1>2, <1>3 DEF Owns, Offset
<1>7. CASE component < Len(tg.name)
  <2>1. /\ component' = component + 1 /\ first_created' = first
        /\ UNCHANGED <<taskgroups, stage, complete, group>>
    BY <1>7 DEF NextComponent
  <2>2. NotYetAdded' /\ Groups' = Groups
    BY <2>1 DEF NotYetAdded, Groups
  <2>3. ASSUME NEW d \in Paths
        PROVE  Owns(group, d)' <=> Owns(group, d) \/ (first # 0 /\ d = Current)
    <3>1. Len(d) \in Nat
      BY PathFacts
    <3>2. Owns(group, d) <=> /\ Within(d, tg.name) /\ first_created # 0
                             /\ first_created <= Len(d) /\ Len(d) < component
      BY <1>2 DEF Owns, Offset
    <3>3. Owns(group, d)' <=> /\ Within(d, tg.name) /\ first # 0
                              /\ first <= Len(d) /\ Len(d) < component + 1
      BY <2>1 DEF Owns, Offset
    <3>4. d = Current => Within(d, tg.name) /\ Len(d) = component
      BY <1>1
    <3> HIDE DEF tg
    <3>5. CASE Len(d) = component
      BY <3>2, <3>3, <3>4, <3>5, <1>1, <1>4
    <3>6. CASE Len(d) # component
      BY <3>1, <3>2, <3>3, <3>4, <3>6, <1>1, <1>2
    <3> QED BY <3>5, <3>6
  <2>4. ASSUME NEW g \in Groups, g # group, NEW d \in Paths
        PROVE  Owns(g, d)' <=> Owns(g, d)
    BY <2>1, <2>4 DEF Owns, Offset
  <2> QED BY <1>1, <1>2, <1>6, <2>1, <2>2, <2>3, <2>4
<1>8. CASE ~(component < Len(tg.name))
  <2>1. /\ taskgroups' = [taskgroups EXCEPT ![group].mkdir_offset = first]
        /\ component' = 1 /\ first_created' = 0 /\ component = Len(tg.name)
        /\ \/ group < Len(taskgroups) /\ group' = group + 1 /\ UNCHANGED <<stage, complete>>
           \/ stage' = "added" /\ UNCHANGED group
    BY <1>1, <1>8 DEF NextComponent
  <2>2. /\ Groups' = Groups
        /\ \A g \in Groups : taskgroups'[g].name = taskgroups[g].name
        /\ \A g \in Groups : taskgroups'[g].mkdir_offset =
             IF g = group THEN first ELSE taskgroups[g].mkdir_offset
    <3>1. Groups' = Groups
      BY <1>1, <2>1 DEF Groups
    <3>2. ASSUME NEW g \in Groups
          PROVE  /\ taskgroups'[g].name = taskgroups[g].name
                 /\ taskgroups'[g].mkdir_offset =
                      IF g = group THEN first ELSE taskgroups[g].mkdir_offset
      <4>1. taskgroups[g] \in TaskgroupData
        BY GroupFacts
      <4>2. taskgroups'[g] = IF g = group THEN [taskgroups[g] EXCEPT !.mkdir_offset = first]
                             ELSE taskgroups[g]
        BY <2>1 DEF Groups
      <4> QED BY <4>1, <4>2 DEF TaskgroupData
    <3> QED BY <3>1, <3>2
  <2>3. NotYetAdded'
    BY <1>1, <1>2, <1>3, <2>1, <2>2 DEF NotYetAdded
  <2>4. ASSUME NEW g \in Groups, g = group, NEW d \in Paths
        PROVE  Owns(g, d)' <=> Owns(g, d) \/ (first # 0 /\ d = Current)
    <3>1. Len(d) \in Nat
      BY PathFacts
    <3>2. Owns(g, d) <=> /\ Within(d, tg.name) /\ first_created # 0
                         /\ first_created <= Len(d) /\ Len(d) < component
      BY <1>2, <2>4 DEF Owns, Offset
    <3>3. Owns(g, d)' <=> /\ Within(d, tg.name) /\ first # 0 /\ first <= Len(d)
      <4>1. /\ Offset(g)' = first /\ ~(stage' = "adding" /\ g = group')
            /\ stage' \in {"adding", "added"}
        BY <1>1, <1>2, <2>1, <2>2, <2>4 DEF Offset
      <4>2. taskgroups'[g].name = tg.name
        BY <1>1, <1>2, <2>2, <2>4
      <4> QED BY <4>1, <4>2 DEF Owns
    <3>4. d = Current => Within(d, tg.name) /\ Len(d) = component
      BY <1>1
    <3>5. Within(d, tg.name) => Len(d) <= component
      BY <1>5, <2>1
    <3> HIDE DEF tg
    <3>6. CASE Len(d) = component
      BY <3>2, <3>3, <3>4, <3>6, <1>1, <1>4
    <3>7. CASE Len(d) # component
      BY <3>1, <3>2, <3>3, <3>4, <3>5, <3>7, <1>1, <1>2
    <3> QED BY <3>6, <3>7
  <2>5. ASSUME NEW g \in Groups, g # group, NEW d \in Paths
        PROVE  Owns(g, d)' <=> Owns(g, d)
    <3>1. stage' = "adding" /\ g = group' => Offset(g)' = 0 /\ Offset(g) = 0
      BY <1>1, <1>2, <1>3, <2>1, <2>5 DEF Offset
    <3>2. ~(stage' = "adding" /\ g = group') => Offset(g)' = Offset(g)
      BY <2>1, <2>2, <2>5 DEF Offset
    <3>3. taskgroups'[g].name = taskgroups[g].name /\ stage' \in {"adding", "added"}
      BY <2>1, <2>2
    <3> QED BY <2>5, <3>1, <3>2, <3>3 DEF Owns
  <2> QED BY <1>1, <1>2, <1>6, <2>1, <2>2, <2>3, <2>4, <2>5
<1> QED BY <1>7, <1>8

\* A step of add_cgroups keeps the ownership, when the directory it is at is
\* there after it, and is its own only if it was not there before it.
LEMMA AddKeepsOwnership ==
  ASSUME IInv, IInv', Ownership, stage = "adding",
         NEW first \in 0..component, NextComponent(first), UNCHANGED pre,
         dirs' = dirs \cup {Current},
         \/ Current \in dirs /\ first = first_created
         \/ Current \notin dirs /\ first # 0 /\ first_created # 0 /\ first = first_created
         \/ Current \notin dirs /\ first_created = 0 /\ first = component
  PROVE  Ownership'
<1> DEFINE name == taskgroups[group].name
           c == Current
<1>1. /\ TypeOK /\ TypeOK' /\ NotYetAdded
      /\ AllOwned /\ OwnedThere /\ InsideLater /\ FreshBelow
  BY DEF IInv, Ownership
<1>2. /\ NotYetAdded' /\ Groups' = Groups /\ group \in Groups
      /\ \A g \in Groups, d \in Paths :
           /\ Owns(g, d)' <=> Owns(g, d) \/ (g = group /\ first # 0 /\ d = c)
           /\ Owns(g, d) => g <= group
      /\ stage' \in {"adding", "added"}
      /\ stage' = "adding" /\ first_created' # 0 =>
           /\ group' = group /\ taskgroups' = taskgroups
           /\ component' = component + 1 /\ first_created' = first
  BY <1>1, NextOwns
<1>3. /\ c \in Paths /\ Len(c) = component /\ component \in Nat \ {0} /\ name \in Paths
      /\ Component(c, component) = c /\ Within(c, name)
      /\ \A j \in 1..component : Component(c, j) = Component(name, j)
  BY <1>1, CurrentFacts, CurrentWithin, PathFacts, ComponentFacts
<1>4. dirs \subseteq Paths /\ PrefixClosed(dirs) /\ dirs' \subseteq Paths
  BY <1>1 DEF TypeOK
\* A directory that is there, although this taskgroup has created one above
\* it, is one that other processes have a hand in.
<1>5. Current \in dirs /\ first # 0 => ~Untouched(c)
  <2> SUFFICES ASSUME Current \in dirs, first # 0, Untouched(c) PROVE FALSE
    OBVIOUS
  <2>1. first_created = first /\ first \in 1..component
    BY <1>3
  <2>2. Component(name, first) = Component(c, first) /\ Len(Component(c, first)) = first
    BY <1>3, <2>1, ComponentFacts
  <2>3. Within(Component(name, first), c)
    BY <1>3, <2>1, <2>2 DEF Within
  <2>4. Len(c) < component
    BY <1>1, <2>1, <2>3 DEF FreshBelow
  <2> QED BY <1>3, <2>4
\* One that was not there has nothing inside it.
<1>6. ASSUME Current \notin dirs, NEW e \in Paths, e \in dirs PROVE ~Within(c, e)
  BY <1>3, <1>4, <1>6, ClosedUpwards
<1> HIDE DEF c, name
<1>7. AllOwned'
  <2> SUFFICES ASSUME NEW d \in dirs', d \notin pre, Untouched(d)
               PROVE  \E g \in Groups : Owns(g, d)'
    BY <1>2 DEF AllOwned, Untouched
  <2>1. CASE d \in dirs
    <3>1. PICK g \in Groups : Owns(g, d)
      BY <1>1, <2>1 DEF AllOwned
    <3> QED BY <1>2, <1>4, <3>1
  <2>2. CASE d \notin dirs
    <3>1. d = c /\ first # 0
      BY <1>3, <2>2 DEF c
    <3> QED BY <1>2, <1>3, <3>1
  <2> QED BY <2>1, <2>2
<1>8. OwnedThere'
  <2> SUFFICES ASSUME NEW g \in Groups, NEW d \in Paths, Owns(g, d)', Untouched(d)
               PROVE  d \in dirs'
    BY <1>2 DEF OwnedThere, Untouched
  <2>1. Owns(g, d) \/ d = c
    BY <1>2
  <2> QED BY <1>1, <2>1 DEF OwnedThere, c
<1>9. InsideLater'
  <2> SUFFICES ASSUME NEW g \in Groups, NEW h \in Groups, NEW d \in Paths, NEW e \in Paths,
                      Owns(g, d)', Owns(h, e)', Within(d, e), Untouched(d)
               PROVE  g <= h
    BY <1>2 DEF InsideLater, Untouched
  <2>1. g \in Int /\ h \in Int /\ group \in Int
    BY <1>1, <1>2, GroupFacts
  <2>2. CASE Owns(g, d) /\ Owns(h, e)
    BY <1>1, <2>2 DEF InsideLater
  <2>3. CASE h = group
    BY <1>2, <2>1, <2>3
  <2>4. CASE h # group /\ ~Owns(g, d)
    <3>1. Owns(h, e) /\ g = group /\ first # 0 /\ d = c
      BY <1>2, <2>4
    <3>2. Untouched(e)
      BY UntouchedInside
    <3>3. e \in dirs
      BY <1>1, <3>1, <3>2 DEF OwnedThere
    <3>4. Current \in dirs
      BY <1>6, <3>1, <3>3
    <3> QED BY <1>5, <3>1, <3>4
  <2>5. Owns(h, e) \/ h = group
    BY <1>2
  <2> QED BY <2>2, <2>3, <2>4, <2>5
<1>10. FreshBelow'
  <2> SUFFICES ASSUME stage' = "adding", first_created' # 0, NEW d \in dirs',
                      Within(Component(taskgroups'[group'].name, first_created'), d),
                      Untouched(d)
               PROVE  Within(d, Current') /\ Len(d) < component'
    BY DEF FreshBelow, Untouched
  <2>1. /\ group' = group /\ taskgroups' = taskgroups
        /\ component' = component + 1 /\ first_created' = first
    BY <1>2
  <2>2. d \in Paths /\ Len(d) \in Nat
    BY <1>4, PathFacts
  <2>3. SUFFICES Within(d, name) /\ Len(d) < component'
    <3>1. component' \in 1..Len(name) /\ Current' = Component(name, component')
      BY <1>1, <2>1 DEF TypeOK, Current, name
    <3>2. Len(d) \in 1..component' /\ Component(name, Len(d)) = d
      BY <1>3, <2>1, <2>2, <2>3, PathFacts DEF Within
    <3>3. Len(Current') = component' /\ Component(Current', Len(d)) = d
      BY <1>3, <3>1, <3>2, ComponentFacts
    <3> QED BY <2>3, <3>2, <3>3 DEF Within
  <2>4. CASE d = c
    BY <1>3, <2>1, <2>4
  <2>5. CASE d # c
    <3>1. d \in dirs
      BY <2>5 DEF c
    <3>2. CASE first = first_created
      <4>1. Within(d, Current) /\ Len(d) < component
        BY <1>1, <2>1, <3>1, <3>2 DEF FreshBelow
      <4> QED BY <1>1, <1>3, <2>1, <2>2, <4>1, CurrentWithin DEF name
    <3>3. CASE first # first_created
      <4>1. first = component /\ Current \notin dirs
        BY <3>3
      <4>2. Within(c, d)
        BY <2>1, <4>1 DEF c, Current
      <4> QED BY <1>6, <2>2, <3>1, <4>1, <4>2
    <3> QED BY <3>2, <3>3
  <2> QED BY <2>4, <2>5
<1> QED BY <1>2, <1>7, <1>8, <1>9, <1>10 DEF Ownership

\* In remove_cgroups, the taskgroup at hand owns prefixes of the directory the
\* call is at, none of which was there before; and later ones own nothing.
LEMMA RemovalOwns ==
  ASSUME IInv, stage = "removing", NEW g \in Groups, NEW d \in Paths, Owns(g, d)
  PROVE  /\ g <= group
         /\ g = group =>
              /\ taskgroups[group].mkdir_offset # 0
              /\ taskgroups[group].mkdir_offset <= Len(d) /\ Len(d) <= component
              /\ Within(d, Current) /\ d \notin pre /\ Current \notin pre
              /\ Owns(group, Current)
<1> DEFINE name == taskgroups[group].name
           offset == taskgroups[group].mkdir_offset
<1>1. g <= group
  BY DEF Owns
<1>2. ASSUME g = group
      PROVE  /\ offset # 0 /\ offset <= Len(d) /\ Len(d) <= component
             /\ Within(d, Current) /\ d \notin pre /\ Current \notin pre
             /\ Owns(group, Current)
  <2>1. /\ Current \in Paths /\ Len(Current) = component /\ component \in 1..Len(name)
        /\ name \in Paths /\ Within(Current, name) /\ offset \in Nat /\ Len(d) \in Nat
        /\ group \in Int
    BY CurrentFacts, CurrentWithin, PathFacts DEF IInv
  <2>2. /\ offset # 0 /\ offset <= Len(d) /\ Len(d) <= component /\ Within(d, name)
    BY <1>2 DEF Owns, Offset
  <2>3. Within(d, Current)
    BY <2>1, <2>2, CurrentWithin DEF IInv
  <2>4. Owns(group, Current)
    BY <2>1, <2>2 DEF Owns, Offset
  <2>5. Component(name, offset) \notin pre /\ PrefixClosed(pre)
    <3>1. group \in DOMAIN taskgroups
      BY <1>2 DEF Groups
    <3> QED BY <2>2, <3>1 DEF IInv, OffsetsSafe, TypeOK
  <2>6. ASSUME NEW e \in Paths, Within(e, name), offset <= Len(e) PROVE e \notin pre
    <3>1. Len(e) \in Nat /\ Len(e) <= Len(name) /\ e = Component(name, Len(e))
      BY <2>6, PathFacts DEF Within
    <3>2. Component(e, offset) = Component(name, offset) /\ offset \in 1..Len(e)
      <4>1. Len(name) \in Nat
        BY <2>1, PathFacts
      <4>2. Len(e) \in 1..Len(name) /\ offset \in 1..Len(e)
        BY <2>1, <2>2, <2>6, <3>1, <4>1
      <4>3. Component(Component(name, Len(e)), offset) = Component(name, offset)
        BY <2>1, <4>2, ComponentFacts
      <4> QED BY <3>1, <4>2, <4>3
    <3> QED BY <2>5, <3>2 DEF PrefixClosed
  <2> QED BY <2>1, <2>2, <2>3, <2>4, <2>6
<1> QED BY <1>1, <1>2

\* What a step of remove_cgroups has to respect to keep the ownership.
LEMMA RemovalKeepsOwnership ==
  ASSUME IInv, Ownership, complete, stage = "removing", stage' \in {"removing", "removed"},
         NotYetAdded', Groups' = Groups, UNCHANGED <<pre, attached>>,
         dirs' \subseteq dirs,
         \A g \in Groups, d \in Paths : Owns(g, d)' => Owns(g, d),
         \A g \in Groups, d \in Paths : Owns(g, d)' /\ Untouched(d) /\ d \in dirs => d \in dirs',
         \A g \in Groups, d \in Paths :
           Owns(g, d) /\ Untouched(d) /\ d \in dirs' =>
             Owns(g, d)' \/ \E t \in Threads : Within(d, attached[t])
  PROVE  Ownership'
<1>1. AllOwned /\ OwnedThere /\ InsideLater /\ dirs \subseteq Paths
  BY DEF Ownership, IInv, TypeOK
<1>2. AllOwned'
  <2> SUFFICES ASSUME NEW d \in dirs', d \notin pre, Untouched(d),
                      ~\E t \in Threads : Within(d, attached[t])
               PROVE  \E g \in Groups : Owns(g, d)'
    BY DEF AllOwned, Untouched
  <2>1. PICK g \in Groups : Owns(g, d)
    BY <1>1 DEF AllOwned
  <2> QED BY <1>1, <2>1
<1>3. OwnedThere'
  <2> SUFFICES ASSUME NEW g \in Groups, NEW d \in Paths, Owns(g, d)', Untouched(d)
               PROVE  d \in dirs'
    BY DEF OwnedThere, Untouched
  <2> QED BY <1>1 DEF OwnedThere
<1>4. InsideLater'
  <2> SUFFICES ASSUME NEW g \in Groups, NEW h \in Groups, NEW d \in Paths, NEW e \in Paths,
                      Owns(g, d)', Owns(h, e)', Within(d, e), Untouched(d)
               PROVE  g <= h
    BY DEF InsideLater, Untouched
  <2> QED BY <1>1 DEF InsideLater
<1>5. FreshBelow'
  BY DEF FreshBelow
<1> QED BY <1>2, <1>3, <1>4, <1>5 DEF Ownership

\* The turn to the taskgroup before: all of what that one owns is still to go.
LEMMA TurnOwns ==
  ASSUME TypeOK, NotYetAdded, stage = "removing", TurnTo(group - 1), UNCHANGED taskgroups
  PROVE  /\ NotYetAdded' /\ Groups' = Groups /\ stage' \in {"removing", "removed"}
         /\ \A g \in Groups, d \in Paths : Owns(g, d)' <=> Owns(g, d) /\ g # group
<1>1. /\ group \in 1..Len(taskgroups) /\ group \in Nat \ {0}
      /\ Groups = 1..Len(taskgroups) /\ Len(taskgroups) \in Nat
  BY CurrentFacts, GroupFacts
<1>2. /\ group' = group - 1
      /\ group' # 0 => component' = Len(taskgroups[group'].name)
      /\ stage' = IF group' = 0 THEN "removed" ELSE "removing"
  BY <1>1 DEF TurnTo
<1>3. NotYetAdded' /\ Groups' = Groups
  BY <1>2 DEF NotYetAdded, Groups
<1>4. ASSUME NEW g \in Groups, NEW d \in Paths
      PROVE  Owns(g, d)' <=> Owns(g, d) /\ g # group
  <2>1. g \in Int /\ Len(d) \in Int /\ taskgroups[g].name \in Paths
    BY <1>1, GroupFacts, PathFacts
  <2>2. Offset(g) = taskgroups[g].mkdir_offset /\ Offset(g)' = taskgroups[g].mkdir_offset
    BY <1>2 DEF Offset
  <2>3. Owns(g, d) <=> /\ Within(d, taskgroups[g].name)
                       /\ taskgroups[g].mkdir_offset # 0
                       /\ taskgroups[g].mkdir_offset <= Len(d)
                       /\ g = group => Len(d) <= component
                       /\ g <= group
    BY <2>2 DEF Owns
  <2>4. Owns(g, d)' <=> /\ Within(d, taskgroups[g].name)
                        /\ taskgroups[g].mkdir_offset # 0
                        /\ taskgroups[g].mkdir_offset <= Len(d)
                        /\ stage' = "removing" /\ g = group' => Len(d) <= component'
                        /\ g <= group'
    BY <1>2, <2>2 DEF Owns
  <2>5. Within(d, taskgroups[g].name) /\ g = group' /\ stage' = "removing" => Len(d) <= component'
    BY <1>1, <1>2 DEF Within
  <2>6. g <= group' <=> g <= group /\ g # group
    BY <1>1, <1>2, <2>1
  <2> QED BY <2>3, <2>4, <2>5, <2>6
<1> QED BY <1>2, <1>3, <1>4

\* NothingCreated: that taskgroup owns nothing.
LEMMA SkipKeepsOwnership ==
  ASSUME IInv, Ownership, complete, NothingCreated
  PROVE  Ownership'
<1>1. /\ stage = "removing" /\ taskgroups[group].mkdir_offset = 0 /\ TurnTo(group - 1)
      /\ UNCHANGED <<dirs, pre, mounted, taskgroups, complete, attached>>
  BY DEF NothingCreated
<1>2. /\ NotYetAdded' /\ Groups' = Groups /\ stage' \in {"removing", "removed"}
      /\ \A g \in Groups, d \in Paths : Owns(g, d)' <=> Owns(g, d) /\ g # group
  BY <1>1, TurnOwns DEF IInv, Ownership
<1>3. \A g \in Groups, d \in Paths : Owns(g, d) => g # group
  BY <1>1, RemovalOwns
<1> QED BY <1>1, <1>2, <1>3, RemovalKeepsOwnership

\* Rmdir: what the taskgroup at hand owned last is gone, and no earlier one
\* owned it.
LEMMA RmdirKeepsOwnership ==
  ASSUME IInv, Ownership, complete, Rmdir
  PROVE  Ownership'
<1> DEFINE offset == taskgroups[group].mkdir_offset
<1>1. /\ stage = "removing" /\ offset # 0 /\ dirs' = dirs \ {Current}
      /\ UNCHANGED <<pre, mounted, taskgroups, complete, attached>>
      /\ \/ /\ component > offset /\ component' = component - 1
            /\ UNCHANGED <<stage, group, first_created>>
         \/ ~(component > offset) /\ TurnTo(group - 1)
  BY DEF Rmdir
<1>2. /\ Current \in Paths /\ Len(Current) = component /\ component \in Nat /\ offset \in Nat
      /\ group \in Groups /\ group \in Int
      /\ Within(Current, Current)
  BY <1>1, CurrentFacts, GroupFacts, WithinFacts DEF IInv
<1>3. /\ NotYetAdded' /\ Groups' = Groups /\ stage' \in {"removing", "removed"}
      /\ \A g \in Groups, d \in Paths :
           Owns(g, d)' <=> Owns(g, d) /\ ~(g = group /\ d = Current)
  <2>1. \A d \in Paths :
          Owns(group, d) => /\ offset <= Len(d) /\ Len(d) <= component /\ Len(d) \in Nat
                            /\ Len(d) = component => d = Current
    <3>1. ASSUME NEW d \in Paths, Owns(group, d)
          PROVE  /\ offset <= Len(d) /\ Len(d) <= component /\ Within(d, Current)
      BY <1>1, <1>2, <3>1, RemovalOwns
    <3> QED BY <1>2, <3>1, SameLength, PathFacts
  <2>2. CASE /\ component > offset /\ component' = component - 1
             /\ UNCHANGED <<stage, group, first_created>>
    <3>1. NotYetAdded' /\ Groups' = Groups
      BY <1>1, <2>2 DEF NotYetAdded, Ownership, Groups
    <3>2. ASSUME NEW g \in Groups, NEW d \in Paths
          PROVE  Owns(g, d)' <=> Owns(g, d) /\ (g = group => Len(d) < component)
      <4>1. Len(d) \in Nat
        BY PathFacts
      <4> QED BY <1>1, <1>2, <2>2, <4>1 DEF Owns, Offset
    <3>3. \A d \in Paths : Owns(group, d) => (Len(d) < component <=> d # Current)
      BY <1>2, <2>1
    <3> QED BY <1>1, <2>2, <3>1, <3>2, <3>3
  <2>3. CASE ~(component > offset) /\ TurnTo(group - 1)
    <3>1. /\ NotYetAdded' /\ Groups' = Groups /\ stage' \in {"removing", "removed"}
          /\ \A g \in Groups, d \in Paths : Owns(g, d)' <=> Owns(g, d) /\ g # group
      BY <1>1, <2>3, TurnOwns DEF IInv, Ownership
    <3>2. \A d \in Paths : Owns(group, d) => d = Current
      BY <1>2, <2>1, <2>3
    <3> QED BY <3>1, <3>2
  <2> QED BY <1>1, <2>2, <2>3
<1>4. ASSUME NEW g \in Groups, NEW c \in Paths, c = Current, Owns(g, c)', Untouched(c)
      PROVE  FALSE
  <2>1. Owns(g, Current) /\ g # group
    BY <1>2, <1>3, <1>4
  <2>2. g <= group /\ g \in Int
    BY <1>1, <1>2, <2>1, RemovalOwns, GroupFacts DEF IInv
  <2>3. OwnedThere /\ InsideLater
    BY <1>1 DEF Ownership
  <2>4. Owns(group, Current)
    <3>1. offset <= component
      BY <1>1, <1>2 DEF IInv, OffsetsSafe
    <3>2. Within(Current, taskgroups[group].name)
      BY <1>1, CurrentWithin DEF IInv
    <3> QED BY <1>1, <1>2, <3>1, <3>2 DEF Owns, Offset
  <2>5. group <= g
    BY <1>2, <1>4, <2>1, <2>3, <2>4 DEF InsideLater
  <2> QED BY <1>2, <2>1, <2>2, <2>5
<1> HIDE DEF offset
<1>5. /\ stage = "removing" /\ dirs' = dirs \ {Current} /\ UNCHANGED <<pre, attached>>
      /\ dirs' \subseteq dirs
  BY <1>1
<1>6. \A g \in Groups, d \in Paths : Owns(g, d)' => Owns(g, d)
  BY <1>3
<1>7. \A g \in Groups, d \in Paths : Owns(g, d)' /\ Untouched(d) /\ d \in dirs => d \in dirs'
  BY <1>4, <1>5
<1>8. \A g \in Groups, d \in Paths : Owns(g, d) /\ d \in dirs' => Owns(g, d)'
  BY <1>3, <1>5
<1> QED BY <1>3, <1>5, <1>6, <1>7, <1>8, RemovalKeepsOwnership

\* RmdirRefused: the rest of the path stays, and every directory of it has a
\* thread, the one that keeps the kernel from removing the last.
LEMMA RefusalKeepsOwnership ==
  ASSUME IInv, Ownership, complete, RmdirRefused
  PROVE  Ownership'
<1>1. /\ stage = "removing" /\ ~Removable(Current) /\ TurnTo(group - 1)
      /\ UNCHANGED <<dirs, pre, mounted, taskgroups, complete, attached>>
  BY DEF RmdirRefused
<1>2. /\ NotYetAdded' /\ Groups' = Groups /\ stage' \in {"removing", "removed"}
      /\ \A g \in Groups, d \in Paths : Owns(g, d)' <=> Owns(g, d) /\ g # group
  BY <1>1, TurnOwns DEF IInv, Ownership
<1>3. /\ Current \in Paths /\ Len(Current) = component /\ group \in Groups
      /\ dirs \subseteq Paths /\ group \in Int /\ component \in Int
      /\ PrefixClosed(pre) /\ pre \subseteq Paths /\ Within(Current, Current)
      /\ AllOwned /\ OwnedThere /\ InsideLater
      /\ \A t \in Threads : attached[t] \in Paths \/ attached[t] = Root
  BY <1>1, CurrentFacts, GroupFacts, WithinFacts, TaskgroupsAssumption DEF IInv, Ownership, TypeOK
<1>4. ASSUME NEW d \in Paths, Owns(group, d), Untouched(d)
      PROVE  \E t \in Threads : Within(d, attached[t])
  <2>1. /\ Within(d, Current) /\ Current \notin pre /\ Owns(group, Current)
    BY <1>1, <1>3, <1>4, RemovalOwns
  <2>2. Untouched(Current)
    BY <1>3, <1>4, <2>1, UntouchedInside
  <2>3. Current \in dirs
    BY <1>3, <2>1, <2>2 DEF OwnedThere
  <2>4. \/ \E t \in Threads : attached[t] = Current
        \/ \E e \in dirs : Within(Current, e) /\ e # Current
    BY <1>1, <2>3 DEF Removable
  <2>5. CASE \E t \in Threads : attached[t] = Current
    BY <2>1, <2>5
  <2>6. ASSUME NEW e \in dirs, Within(Current, e), e # Current
        PROVE  \E t \in Threads : Within(d, attached[t])
    <3>1. e \in Paths /\ Untouched(e) /\ Within(d, e)
      BY <1>3, <2>1, <2>2, <2>6, UntouchedInside, WithinFacts
    <3>2. e \notin pre
      BY <1>3, <2>1, <2>6, ClosedUpwards
    <3>3. ASSUME NEW g \in Groups, Owns(g, e) PROVE FALSE
      <4>1. group <= g
        BY <1>3, <2>1, <2>2, <2>6, <3>1, <3>3 DEF InsideLater
      <4>2. g <= group /\ g \in Int
        BY <1>1, <1>3, <3>1, <3>3, RemovalOwns, GroupFacts DEF IInv
      <4>3. g = group
        BY <1>3, <4>1, <4>2
      <4>4. Len(e) <= component /\ Within(e, Current)
        BY <1>1, <3>1, <3>3, <4>3, RemovalOwns
      <4>5. Len(e) = component
        BY <1>3, <2>6, <3>1, <4>4, PathFacts DEF Within
      <4> QED BY <1>3, <2>6, <4>4, <4>5, SameLength
    <3>4. PICK t \in Threads : Within(e, attached[t])
      BY <3>1, <3>2, <3>3, <1>3 DEF AllOwned
    <3>5. Within(d, attached[t])
      BY <1>3, <3>1, <3>4, WithinFacts
    <3> QED BY <3>5
  <2> QED BY <2>4, <2>5, <2>6
<1> QED BY <1>1, <1>2, <1>4, RemovalKeepsOwnership

LEMMA InitOwnership ==
  Init => Ownership
<1> SUFFICES ASSUME Init PROVE Ownership
  OBVIOUS
<1>1. Groups = {} /\ stage = "config" /\ ~complete /\ dirs \ pre = {}
  BY EmptySeq DEF Init, Groups
<1> QED BY <1>1 DEF Ownership, NotYetAdded, AllOwned, OwnedThere, InsideLater, FreshBelow

\* The steps that leave the taskgroups, and what the call has done, as they were.
LEMMA ElsewhereKeepsOwnership ==
  ASSUME IInv, Ownership, UNCHANGED <<taskgroups, stage, complete, callVars>>,
         stage \in {"removing", "removed"} => UNCHANGED attached,
         dirs' \subseteq Paths,
         \A d \in dirs' \ pre' : Untouched(d) => d \in dirs \ pre,
         \A d \in dirs : Untouched(d) => d \in dirs',
         \A d \in dirs' : Untouched(d) => d \in dirs
  PROVE  Ownership'
<1>1. Groups' = Groups /\ NotYetAdded'
  BY DEF Groups, NotYetAdded, Ownership, callVars
<1>2. \A g \in Groups, d \in Paths : Owns(g, d)' <=> Owns(g, d)
  BY DEF Owns, Offset, callVars
<1>3. dirs \subseteq Paths
  BY DEF IInv, TypeOK
<1>4. ASSUME AllOwned PROVE AllOwned'
  <2> SUFFICES ASSUME NEW d \in dirs', d \notin pre', Untouched(d)
               PROVE  \/ \E g \in Groups : Owns(g, d)'
                      \/ /\ stage' \in {"removing", "removed"}
                         /\ \E t \in Threads : Within(d, attached'[t])
    BY <1>1 DEF AllOwned, Untouched
  <2>1. d \in dirs \ pre /\ d \in Paths
    OBVIOUS
  <2>2. \/ \E g \in Groups : Owns(g, d)
        \/ /\ stage \in {"removing", "removed"}
           /\ \E t \in Threads : Within(d, attached[t])
    BY <1>4, <2>1 DEF AllOwned
  <2> QED BY <1>2, <2>1, <2>2
<1>5. ASSUME OwnedThere PROVE OwnedThere'
  <2> SUFFICES ASSUME NEW g \in Groups, NEW d \in Paths, Owns(g, d)', Untouched(d)
               PROVE  d \in dirs'
    BY <1>1 DEF OwnedThere, Untouched
  <2> QED BY <1>2, <1>5 DEF OwnedThere
<1>6. ASSUME InsideLater PROVE InsideLater'
  <2> SUFFICES ASSUME NEW g \in Groups, NEW h \in Groups, NEW d \in Paths, NEW e \in Paths,
                      Owns(g, d)', Owns(h, e)', Within(d, e), Untouched(d)
               PROVE  g <= h
    BY <1>1 DEF InsideLater, Untouched
  <2> QED BY <1>2, <1>6 DEF InsideLater
<1>7. ASSUME FreshBelow PROVE FreshBelow'
  BY <1>7 DEF FreshBelow, Untouched, Current, callVars
<1> QED BY <1>1, <1>4, <1>5, <1>6, <1>7 DEF Ownership

LEMMA OwnershipStep ==
  IInv /\ IInv' /\ Ownership /\ [Next]_vars => Ownership'
<1> SUFFICES ASSUME IInv, IInv', Ownership, [Next]_vars PROVE Ownership'
  OBVIOUS
<1>0. TypeOK /\ TypeOK' /\ NotYetAdded /\ dirs' \subseteq Paths
  BY DEF IInv, Ownership, TypeOK
<1>1. ASSUME NEW name \in Names, Alloc(name) PROVE Ownership'
  <2>1. /\ stage = "config" /\ stage' = "config" /\ dirs' = dirs /\ pre' = pre /\ ~complete'
        /\ taskgroups' = Append(taskgroups, [name |-> name, mkdir_offset |-> 0])
        /\ taskgroups \in Seq(TaskgroupData)
    BY <1>0, <1>1 DEF Alloc, NotYetAdded, TypeOK
  <2>2. \A g \in Groups : taskgroups[g].mkdir_offset = 0
    BY <1>0, <2>1 DEF NotYetAdded
  <2>3. \A g \in Groups' : taskgroups'[g].mkdir_offset = 0
    BY <2>1, <2>2 DEF Groups
  <2>4. NotYetAdded'
    BY <2>1, <2>3 DEF NotYetAdded
  <2>5. /\ \A g \in Groups : \A d : ~Owns(g, d)
        /\ \A g \in Groups' : \A d : ~Owns(g, d)'
    BY <2>1, <2>2, <2>3 DEF Owns, Offset
  <2>6. AllOwned'
    BY <2>1, <2>5 DEF AllOwned, Ownership, Untouched
  <2>7. OwnedThere' /\ InsideLater' /\ FreshBelow'
    BY <2>1, <2>5 DEF OwnedThere, InsideLater, FreshBelow
  <2> QED BY <2>4, <2>6, <2>7 DEF Ownership
<1>2. ASSUME Initialize PROVE Ownership'
  BY <1>0, <1>2, ElsewhereKeepsOwnership DEF Initialize
<1>3. ASSUME AddCgroups PROVE Ownership'
  <2>1. /\ stage = "config" /\ stage' = "adding" /\ ~complete'
        /\ group' = 1 /\ first_created' = 0
        /\ UNCHANGED <<dirs, pre, mounted, taskgroups, complete, attached>>
    BY <1>0, <1>3 DEF AddCgroups, NotYetAdded
  <2>2. \A g \in Groups : taskgroups[g].mkdir_offset = 0
    BY <1>0, <2>1 DEF NotYetAdded
  <2>3. NotYetAdded' /\ Groups' = Groups
    BY <2>1, <2>2 DEF NotYetAdded, Groups
  <2>4. /\ \A g \in Groups : \A d : ~Owns(g, d)
        /\ \A g \in Groups : \A d : ~Owns(g, d)'
    BY <2>1, <2>2 DEF Owns, Offset
  <2>5. AllOwned'
    BY <2>1, <2>3, <2>4 DEF AllOwned, Ownership, Untouched
  <2>6. OwnedThere' /\ InsideLater' /\ FreshBelow'
    BY <2>1, <2>3, <2>4 DEF OwnedThere, InsideLater, FreshBelow
  <2> QED BY <2>3, <2>5, <2>6 DEF Ownership
<1>4. ASSUME MkdirCreates PROVE Ownership'
  <2> DEFINE first == IF first_created = 0 THEN component ELSE first_created
  <2>1. /\ stage = "adding" /\ Current \notin dirs /\ NextComponent(first)
        /\ dirs' = dirs \cup {Current} /\ UNCHANGED <<pre, mounted, attached>>
    BY <1>4 DEF MkdirCreates
  <2>2. /\ first \in 0..component /\ first # 0
        /\ \/ first_created # 0 /\ first = first_created
           \/ first_created = 0 /\ first = component
    BY <1>0, <2>1, CurrentFacts DEF TypeOK
  <2> HIDE DEF first
  <2> QED BY <2>1, <2>2, AddKeepsOwnership
<1>5. ASSUME MkdirExists PROVE Ownership'
  <2>1. /\ stage = "adding" /\ Current \in dirs /\ NextComponent(first_created)
        /\ UNCHANGED <<dirs, pre, mounted, attached>>
    BY <1>5 DEF MkdirExists
  <2>2. first_created \in 0..component /\ dirs' = dirs \cup {Current}
    BY <1>0, <2>1, CurrentFacts DEF TypeOK
  <2> QED BY <2>1, <2>2, AddKeepsOwnership
<1>6. ASSUME MkdirFails PROVE Ownership'
  <2>1. stage' = "added" /\ ~complete'
    BY <1>0, <1>6 DEF MkdirFails, NotYetAdded
  <2> QED BY <2>1 DEF Ownership, NotYetAdded
<1>7. ASSUME NEW t \in Threads, Reset(t) \/ \E g \in DOMAIN taskgroups : Attach(t, g)
      PROVE  Ownership'
  BY <1>0, <1>7, ElsewhereKeepsOwnership DEF Reset, Attach
<1>8. ASSUME RemoveCgroups PROVE Ownership'
  <2>1. /\ stage = "added" /\ TurnTo(Len(taskgroups))
        /\ UNCHANGED <<dirs, pre, mounted, taskgroups, complete, attached>>
    BY <1>8 DEF RemoveCgroups
  <2>2. /\ Groups = 1..Len(taskgroups) /\ Len(taskgroups) \in Nat
        /\ \A g \in Groups : taskgroups[g].name \in Paths
    BY <1>0, GroupFacts
  <2>3. /\ group' = Len(taskgroups)
        /\ group' # 0 => component' = Len(taskgroups[group'].name)
        /\ stage' = IF group' = 0 THEN "removed" ELSE "removing"
    BY <2>1, <2>2 DEF TurnTo
  <2>4. NotYetAdded' /\ Groups' = Groups
    BY <2>1, <2>3 DEF NotYetAdded, Groups
  <2>5. ASSUME NEW g \in Groups, NEW d \in Paths PROVE Owns(g, d)' <=> Owns(g, d)
    <3>1. Offset(g)' = Offset(g) /\ g <= group' /\ g \in Int
      BY <2>1, <2>2, <2>3 DEF Offset
    <3>2. stage' = "removing" /\ g = group' /\ Within(d, taskgroups[g].name) => Len(d) <= component'
      BY <2>2, <2>3 DEF Within
    <3> QED BY <2>1, <2>3, <3>1, <3>2 DEF Owns
  <2>6. ASSUME complete PROVE AllOwned' /\ OwnedThere' /\ InsideLater' /\ FreshBelow'
    <3>1. AllOwned /\ OwnedThere /\ InsideLater /\ dirs \subseteq Paths
      BY <1>0, <2>1, <2>6 DEF Ownership, TypeOK
    <3>2. AllOwned'
      BY <2>1, <2>4, <2>5, <3>1 DEF AllOwned, Untouched
    <3>3. OwnedThere'
      BY <2>1, <2>4, <2>5, <3>1 DEF OwnedThere, Untouched
    <3>4. InsideLater'
      BY <2>1, <2>4, <2>5, <3>1 DEF InsideLater, Untouched
    <3>5. FreshBelow'
      BY <2>3 DEF FreshBelow
    <3> QED BY <3>2, <3>3, <3>4, <3>5
  <2> QED BY <2>1, <2>3, <2>4, <2>6 DEF Ownership
<1>9. ASSUME NothingCreated \/ Rmdir \/ RmdirRefused PROVE Ownership'
  <2>1. CASE complete
    BY <1>9, <2>1, SkipKeepsOwnership, RmdirKeepsOwnership, RefusalKeepsOwnership
  <2>2. CASE ~complete
    <3>1. /\ stage = "removing" /\ ~complete' /\ UNCHANGED taskgroups
          /\ TurnTo(group - 1) \/ UNCHANGED <<stage, group>>
      BY <1>9, <2>2 DEF NothingCreated, Rmdir, RmdirRefused
    <3>2. NotYetAdded' /\ stage' \in {"removing", "removed"}
      BY <1>0, <3>1, TurnOwns DEF NotYetAdded
    <3> QED BY <3>1, <3>2 DEF Ownership
  <2> QED BY <2>1, <2>2
<1>10. ASSUME RmdirFails PROVE Ownership'
  BY <1>10 DEF RmdirFails, Ownership, NotYetAdded
<1>11. ASSUME NEW d \in EnvPaths, EnvMkdir(d) \/ EnvRmdir(d) PROVE Ownership'
  <2>1. ~Untouched(d)
    BY EnvTouches
  <2>2. /\ UNCHANGED <<taskgroups, stage, complete, callVars, attached>>
        /\ \/ dirs' = dirs \cup {d} /\ pre' = pre
           \/ dirs' = dirs \ {d} /\ pre' = pre \ {d}
    BY <1>11 DEF EnvMkdir, EnvRmdir
  <2> QED BY <1>0, <2>1, <2>2, ElsewhereKeepsOwnership
<1>12. ASSUME UNCHANGED vars PROVE Ownership'
  <2>1. UNCHANGED <<dirs, pre, taskgroups, stage, complete, callVars, attached>>
    BY <1>12 DEF vars
  <2> QED BY <1>0, <2>1, ElsewhereKeepsOwnership
<1> QED BY <1>1, <1>2, <1>3, <1>4, <1>5, <1>6, <1>7, <1>8, <1>9, <1>10, <1>11, <1>12 DEF Next

\* Every directory the program has made, and no other process has a hand in,
\* is owned by one taskgroup, or by none and has a thread inside, until
\* remove_cgroups returns.
THEOREM OwnershipHolds == Spec => []Ownership
<1>1. Init => Ownership
  BY InitOwnership
<1>2. IInv /\ IInv' /\ Ownership /\ [Next]_vars => Ownership'
  BY OwnershipStep
<1> QED BY <1>1, <1>2, InvariantHolds, PTL DEF Spec

\* Where add_cgroups made every directory, remove_cgroups leaves behind, of
\* those no other process has a hand in, only those that a thread is still in:
\* for every set of nested or repeated names, and every interleaving with the
\* other processes.
THEOREM RemovalCleansUp == Spec => []CleansUp
<1>1. IInv /\ Ownership => CleansUp
  <2> SUFFICES ASSUME IInv, Ownership, stage = "removed", complete,
                      NEW d \in dirs \ pre, Untouched(d)
               PROVE  \E t \in Threads : Within(d, attached[t])
    BY DEF CleansUp
  <2>1. AllOwned /\ group = 0
    BY DEF Ownership, NotYetAdded
  <2>2. \/ \E g \in Groups : Owns(g, d)
        \/ \E t \in Threads : Within(d, attached[t])
    BY <2>1 DEF AllOwned
  <2>3. \A g \in Groups : ~Owns(g, d)
    BY <2>1, GroupFacts DEF Owns, IInv
  <2> QED BY <2>2, <2>3
<1> QED BY <1>1, InvariantHolds, OwnershipHolds, PTL
=============================================================================
