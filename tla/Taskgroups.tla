----------------------------- MODULE Taskgroups -----------------------------
(***************************************************************************)
(* The taskgroups of taskgroups.rs: nested cgroup directories that         *)
(* add_cgroups creates, one mkdir at a time, and remove_cgroups removes.   *)
(*                                                                         *)
(* The directories belong to the kernel, and other processes make and      *)
(* remove some too, between any two system calls.  What the controller     *)
(* remembers of its own is one number per taskgroup: how much of the path  *)
(* was there already.                                                      *)
(*                                                                         *)
(* A path is the sequence of its components, the root the empty one.       *)
(***************************************************************************)
EXTENDS Integers, Sequences, FiniteSets

CONSTANTS
  Names,          \* the names of taskgroups
  Paths,          \* the directories there may be
  Preexisting,    \* those there are when the program starts
  EnvPaths,       \* those that other processes may make and remove
  Threads,
  MAX_TASKGROUPS

Root == <<>>

\* cumulative_components: the k-th is the prefix of length k.
Component(name, k) == SubSeq(name, 1, k)

Within(d, path) == /\ Len(d) <= Len(path)
                   /\ Component(path, Len(d)) = d

PrefixClosed(set) == \A d \in set : \A k \in 1..Len(d) : Component(d, k) \in set

ASSUME TaskgroupsAssumption ==
  /\ Paths \subseteq Seq(STRING) \ {Root}
  /\ PrefixClosed(Paths)
  /\ Names \subseteq Paths
  /\ Preexisting \subseteq Paths /\ PrefixClosed(Preexisting)
  /\ EnvPaths \subseteq Paths
  /\ MAX_TASKGROUPS \in Nat

VARIABLES
  dirs,        \* the directories under the mount point
  pre,         \* those of them that were there before the program
  mounted,     \* mount_point.is_some()
  taskgroups,  \* the taskgroups allocated: name and mkdir_offset, 0 for None
  stage,       \* the call in progress, or the last one that returned
  complete,    \* add_cgroups returned Ok
  group, component, first_created, \* the loop variables of that call
  attached     \* the directory each thread is in

callVars == <<group, component, first_created>>
vars == <<dirs, pre, mounted, taskgroups, stage, complete, callVars, attached>>

Init ==
  /\ dirs = Preexisting /\ pre = Preexisting
  /\ mounted = FALSE /\ taskgroups = <<>>
  /\ stage = "config" /\ complete = FALSE
  /\ group = 0 /\ component = 0 /\ first_created = 0
  /\ attached = [t \in Threads |-> Root]

\* alloc_taskgroup; a name may be allocated twice.
Alloc(name) ==
  /\ stage = "config"
  /\ Len(taskgroups) < MAX_TASKGROUPS
  /\ taskgroups' = Append(taskgroups, [name |-> name, mkdir_offset |-> 0])
  /\ UNCHANGED <<dirs, pre, mounted, stage, complete, callVars, attached>>

\* initialize finds the cpu controller and its mount point.
Initialize ==
  /\ stage = "config" /\ taskgroups # <<>>
  /\ mounted' = TRUE
  /\ UNCHANGED <<dirs, pre, taskgroups, stage, complete, callVars, attached>>

----------------------------------------------------------------------------
(* add_cgroups *)

AddCgroups ==
  /\ stage = "config" /\ mounted
  /\ stage' = "adding"
  /\ group' = 1 /\ component' = 1 /\ first_created' = 0
  /\ UNCHANGED <<dirs, pre, mounted, taskgroups, complete, attached>>

\* The directory the call is at.
Current == Component(taskgroups[group].name, component)

\* On to the next component; after the last one the offset is recorded and the
\* next taskgroup begins.
NextComponent(first) ==
  IF component < Len(taskgroups[group].name)
  THEN /\ component' = component + 1 /\ first_created' = first
       /\ UNCHANGED <<taskgroups, stage, complete, group>>
  ELSE /\ taskgroups' = [taskgroups EXCEPT ![group].mkdir_offset = first]
       /\ component' = 1 /\ first_created' = 0
       /\ IF group < Len(taskgroups)
          THEN group' = group + 1 /\ UNCHANGED <<stage, complete>>
          ELSE stage' = "added" /\ complete' = TRUE /\ UNCHANGED group

MkdirCreates ==
  /\ stage = "adding"
  /\ Current \notin dirs
  /\ component > 1 => Component(Current, component - 1) \in dirs
  /\ dirs' = dirs \cup {Current}
  /\ NextComponent(IF first_created = 0 THEN component ELSE first_created)
  /\ UNCHANGED <<pre, mounted, attached>>

\* Mutant: a directory that exists counts as created.
MkdirExistsCounts ==
  /\ stage = "adding"
  /\ Current \in dirs
  /\ NextComponent(IF first_created = 0 THEN component ELSE first_created)
  /\ UNCHANGED <<dirs, pre, mounted, attached>>

MkdirExists ==
  /\ stage = "adding"
  /\ Current \in dirs
  /\ NextComponent(first_created)
  /\ UNCHANGED <<dirs, pre, mounted, attached>>

\* Any other error: `?` leaves the offset of this taskgroup as it was.
MkdirFails ==
  /\ stage = "adding"
  /\ stage' = "added"
  /\ UNCHANGED <<dirs, pre, mounted, taskgroups, complete, callVars, attached>>

----------------------------------------------------------------------------
(* Threads in taskgroups: set_thread_taskgroup and reset_thread_taskgroup *)

Attach(t, g) ==
  /\ stage = "added" /\ taskgroups[g].name \in dirs
  /\ attached' = [attached EXCEPT ![t] = taskgroups[g].name]
  /\ UNCHANGED <<dirs, pre, mounted, taskgroups, stage, complete, callVars>>

Reset(t) ==
  /\ stage = "added"
  /\ attached' = [attached EXCEPT ![t] = Root]
  /\ UNCHANGED <<dirs, pre, mounted, taskgroups, stage, complete, callVars>>

----------------------------------------------------------------------------
(* remove_cgroups, from the last taskgroup to the first *)

\* The taskgroup that is next, at its deepest component.
TurnTo(g) ==
  /\ group' = g
  /\ component' = IF g = 0 THEN 0 ELSE Len(taskgroups[g].name)
  /\ stage' = IF g = 0 THEN "removed" ELSE "removing"
  /\ UNCHANGED first_created

RemoveCgroups ==
  /\ stage = "added"
  /\ TurnTo(Len(taskgroups))
  /\ UNCHANGED <<dirs, pre, mounted, taskgroups, complete, attached>>

\* cgroup_rmdir is done with this taskgroup: there was nothing to remove.
NothingCreated ==
  /\ stage = "removing" /\ taskgroups[group].mkdir_offset = 0
  /\ TurnTo(group - 1)
  /\ UNCHANGED <<dirs, pre, mounted, taskgroups, complete, attached>>

\* The kernel removes a directory that has neither children nor threads.
Removable(d) ==
  /\ d \in dirs
  /\ \A e \in dirs : Within(d, e) => e = d
  /\ \A t \in Threads : attached[t] # d

\* Mutant: the directory at the offset is not removed (what the comment of
\* cgroup_rmdir says).
RmdirStopsAbove ==
  /\ stage = "removing" /\ taskgroups[group].mkdir_offset # 0
  /\ Removable(Current)
  /\ dirs' = dirs \ {Current}
  /\ IF component > taskgroups[group].mkdir_offset + 1
     THEN component' = component - 1 /\ UNCHANGED <<stage, group, first_created>>
     ELSE TurnTo(group - 1)
  /\ UNCHANGED <<pre, mounted, taskgroups, complete, attached>>

Rmdir ==
  /\ stage = "removing" /\ taskgroups[group].mkdir_offset # 0
  /\ Removable(Current)
  /\ dirs' = dirs \ {Current}
  /\ IF component > taskgroups[group].mkdir_offset
     THEN component' = component - 1 /\ UNCHANGED <<stage, group, first_created>>
     ELSE TurnTo(group - 1)
  /\ UNCHANGED <<pre, mounted, taskgroups, complete, attached>>

\* ENOTEMPTY, EBUSY or ENOENT: the rest of this path stays.
RmdirRefused ==
  /\ stage = "removing" /\ taskgroups[group].mkdir_offset # 0
  /\ ~Removable(Current)
  /\ TurnTo(group - 1)
  /\ UNCHANGED <<dirs, pre, mounted, taskgroups, complete, attached>>

\* Any other error ends the call.
RmdirFails ==
  /\ stage = "removing" /\ taskgroups[group].mkdir_offset # 0
  /\ stage' = "failed"
  /\ UNCHANGED <<dirs, pre, mounted, taskgroups, complete, callVars, attached>>

----------------------------------------------------------------------------
(* Other processes *)

EnvMkdir(d) ==
  /\ d \notin dirs
  /\ Len(d) > 1 => Component(d, Len(d) - 1) \in dirs
  /\ dirs' = dirs \cup {d}
  /\ UNCHANGED <<pre, mounted, taskgroups, stage, complete, callVars, attached>>

EnvRmdir(d) ==
  /\ Removable(d)
  /\ dirs' = dirs \ {d} /\ pre' = pre \ {d}
  /\ UNCHANGED <<mounted, taskgroups, stage, complete, callVars, attached>>

Next ==
  \/ \E name \in Names : Alloc(name)
  \/ Initialize \/ AddCgroups
  \/ MkdirCreates \/ MkdirExists \/ MkdirFails
  \/ \E t \in Threads : Reset(t) \/ \E g \in DOMAIN taskgroups : Attach(t, g)
  \/ RemoveCgroups \/ NothingCreated \/ Rmdir \/ RmdirRefused \/ RmdirFails
  \/ \E d \in EnvPaths : EnvMkdir(d) \/ EnvRmdir(d)

Spec == Init /\ [][Next]_vars

----------------------------------------------------------------------------
(* Properties *)

TaskgroupData == {tg \in [name : Names, mkdir_offset : Nat] : tg.mkdir_offset <= Len(tg.name)}

TypeOK ==
  /\ dirs \subseteq Paths /\ PrefixClosed(dirs)
  /\ pre \subseteq Paths /\ PrefixClosed(pre)
  /\ mounted \in BOOLEAN /\ complete \in BOOLEAN
  /\ mounted => taskgroups # <<>>
  /\ taskgroups \in Seq(TaskgroupData)
  /\ stage \in {"config", "adding", "added", "removing", "removed", "failed"}
  /\ stage \in {"adding", "removing"} =>
       /\ group \in 1..Len(taskgroups)
       /\ component \in 1..Len(taskgroups[group].name)
  /\ first_created \in Nat
  /\ stage = "adding" => first_created < component
  /\ attached \in [Threads -> Names \cup {Root}]

\* tutorial.md:301: what was there before is not removed, whatever other
\* processes do meanwhile, and however often a name was allocated.
PreexistingKept == pre \subseteq dirs

\* What it rests on: nothing from the recorded offset on was there before.
OffsetsSafe ==
  /\ \A g \in DOMAIN taskgroups :
       taskgroups[g].mkdir_offset # 0 =>
         Component(taskgroups[g].name, taskgroups[g].mkdir_offset) \notin pre
  /\ stage = "adding" /\ first_created # 0 =>
       Component(taskgroups[group].name, first_created) \notin pre
  /\ stage = "removing" /\ taskgroups[group].mkdir_offset # 0 =>
       component >= taskgroups[group].mkdir_offset

IInv == TypeOK /\ PreexistingKept /\ OffsetsSafe

\* No other process has a hand in what is there.
Untouched(d) == ~\E e \in EnvPaths : Within(d, e)

\* If every directory could be made, what the program leaves behind, apart from
\* what other processes have a hand in, is only what a thread is still in.
CleansUp ==
  stage = "removed" /\ complete =>
    \A d \in dirs \ pre : Untouched(d) => \E t \in Threads : Within(d, attached[t])

\* What it rests on: whose a directory is.  A taskgroup answers for the part of
\* its path from its offset to how far its mkdirs have come, or its rmdirs have
\* still to go.
Offset(g) ==
  IF stage = "adding" /\ g = group THEN first_created ELSE taskgroups[g].mkdir_offset

Owns(g, d) ==
  /\ Within(d, taskgroups[g].name)
  /\ Offset(g) # 0 /\ Offset(g) <= Len(d)
  /\ stage = "adding" /\ g = group => Len(d) < component
  /\ stage = "removing" /\ g = group => Len(d) <= component
  /\ stage \in {"removing", "removed"} => g <= group

Groups == DOMAIN taskgroups

\* Every directory the program has made is some taskgroup's, or has a thread.
AllOwned ==
  \A d \in dirs \ pre : Untouched(d) =>
    \/ \E g \in Groups : Owns(g, d)
    \/ /\ stage \in {"removing", "removed"}
       /\ \E t \in Threads : Within(d, attached[t])

\* Everything a taskgroup answers for is there.
OwnedThere == \A g \in Groups, d \in Paths : Owns(g, d) /\ Untouched(d) => d \in dirs

\* The owner of a directory comes no later than those of what is in it, so what
\* is inside has been removed before.
InsideLater ==
  \A g, h \in Groups, d, e \in Paths :
    Owns(g, d) /\ Owns(h, e) /\ Within(d, e) /\ Untouched(d) => g <= h

\* In the first directory that this taskgroup created is only its own.
FreshBelow ==
  stage = "adding" /\ first_created # 0 =>
    \A d \in dirs :
      Within(Component(taskgroups[group].name, first_created), d) /\ Untouched(d) =>
        Within(d, Current) /\ Len(d) < component

NotYetAdded ==
  /\ stage \in {"config", "adding"} => ~complete
  /\ stage = "removed" => group = 0
  /\ \A g \in Groups :
       stage = "config" \/ (stage = "adding" /\ g >= group) => taskgroups[g].mkdir_offset = 0

Ownership ==
  /\ NotYetAdded
  /\ stage \in {"config", "adding"} \/ (complete /\ stage # "failed") =>
       AllOwned /\ OwnedThere /\ InsideLater /\ FreshBelow
============================================================================
