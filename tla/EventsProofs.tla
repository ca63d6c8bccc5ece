---------------------------- MODULE EventsProofs ----------------------------
(***************************************************************************)
(* Proofs about Events, for every set of threads and resources and every   *)
(* list of phases.                                                         *)
(***************************************************************************)
EXTENDS Events, FiniteSetTheorems, TLAPS

\* What a thread inside an event knows of the event.
LEMMA CurrentEvent ==
  ASSUME TypeOK, NEW t \in Threads, InsideEvent(t)
  PROVE  Current(t) \in Event
<1>1. phase[t] \in 1..Len(Phases[t]) /\ next[t] \in 1..Len(Events(t))
  BY DEF TypeOK, WellPlaced, InsideEvent
<1>2. Phases[t] \in Seq(Seq(Event))
  BY EventsAssumption
<1>3. Events(t) \in Seq(Event)
  BY <1>1, <1>2 DEF Events
<1>4. QED
  BY <1>1, <1>3 DEF Current

\* The resources of an event, by its type.
LEMMA EventFields ==
  ASSUME NEW e \in Event
  PROVE  /\ e.type \in {"Signal", "Broadcast"} => e.res \in Conds
         /\ e.type \in Sleepers \cup {"Resume"} => e.res \in Conds /\ e.dep \in Mutexes
         /\ e.type \in {"Lock", "Unlock"} => e.res \in Mutexes
         /\ e.type = "Barrier" => e.res \in Barriers
         /\ e.type \in Sleepers \cup {"Lock", "Resume"} => MutexOf(e) \in Mutexes
<1>1. CASE e \in [type : {"Run", "Fork"}]
  BY <1>1 DEF Sleepers
<1>2. CASE e \in [type : {"Lock", "Unlock"}, res : Mutexes]
  BY <1>2 DEF Sleepers, MutexOf
<1>3. CASE e \in [type : {"Signal", "Broadcast"}, res : Conds]
  BY <1>3 DEF Sleepers
<1>4. CASE e \in Sleeping
  BY <1>4 DEF Sleepers, Sleeping, MutexOf
<1>5. CASE e \in [type : {"Resume"}, res : Conds, dep : Mutexes]
  BY <1>5 DEF Sleepers, MutexOf
<1>6. CASE e \in [type : {"Barrier"}, res : Barriers]
  BY <1>6 DEF Sleepers
<1>7. QED
  BY <1>1, <1>2, <1>3, <1>4, <1>5, <1>6 DEF Event

\* A thread that does not move stays where it may be; so does one that wakes.
Still(u) == place'[u] = place[u] /\ phase'[u] = phase[u] /\ next'[u] = next[u]

LEMMA StillPlaced ==
  ASSUME NEW u \in Threads, WellPlaced(u), phase'[u] = phase[u], next'[u] = next[u],
         \/ place'[u] = place[u]
         \/ place[u] = "asleep" /\ place'[u] = "wake"
  PROVE  WellPlaced(u)' /\ Current(u)' = Current(u)
BY DEF WellPlaced, InsidePhase, InsideEvent, Events, Current

\* A step of one thread that neither sleeps nor holds a mutex before or after
\* it, and that leaves the resources alone, keeps what is said of them.
Quiet(t) ==
  /\ place[t] \notin {"asleep", "held"} /\ place'[t] \notin {"asleep", "held"}
  /\ \A u \in Threads \ {t} : Still(u)
  /\ UNCHANGED resourceVars

LEMMA QuietKeeps ==
  ASSUME IInv, NEW t \in Threads, Quiet(t)
  PROVE  /\ MutexesHeld' /\ SleepersQueued' /\ BarrierAccounting'
         /\ \A u \in Threads \ {t} : WellPlaced(u)'
<1>1. \A u \in Threads \ {t} : WellPlaced(u)' /\ Current(u)' = Current(u)
  BY StillPlaced DEF IInv, TypeOK, Quiet, Still
<1>2. MutexesHeld'
  BY <1>1 DEF IInv, MutexesHeld, Quiet, Still, resourceVars
<1>3. SleepersQueued'
  BY <1>1 DEF IInv, SleepersQueued, Quiet, Still, resourceVars
<1>4. BarrierAccounting'
  BY DEF IInv, BarrierAccounting, Quiet, resourceVars
<1>5. QED
  BY <1>1, <1>2, <1>3, <1>4

LEMMA InitInvariant == Init => IInv
<1> SUFFICES ASSUME Init PROVE IInv
  OBVIOUS
<1> USE EventsAssumption DEF Init
<1>1. TypeOK
  BY DEF TypeOK, WellPlaced, InsidePhase, InsideEvent, Places
<1>2. MutexesHeld
  BY DEF MutexesHeld
<1>3. SleepersQueued
  BY DEF SleepersQueued
<1>4. BarrierAccounting
  BY FS_EmptySet DEF BarrierAccounting, Queues
<1>5. NoLockCounted
  BY DEF NoLockCounted
<1>6. QED
  BY <1>1, <1>2, <1>3, <1>4, <1>5 DEF IInv

\* run_phase: steps between the events.
LEMMA PhaseSteps ==
  ASSUME IInv, NEW t \in Threads,
         \/ EnterPhase(t) \/ LeavePhase(t) \/ LeaveLoop(t)
         \/ CheckContinue(t) \/ BeginEvent(t) \/ DryRun(t)
  PROVE  IInv'
<1> USE DEF IInv, TypeOK
<1>1. Quiet(t)
  BY DEF Quiet, Still, EnterPhase, LeavePhase, LeaveLoop, CheckContinue,
         BeginEvent, DryRun, Goto, Done, resourceVars
<1>2. /\ place' \in [Threads -> Places] /\ phase' \in [Threads -> Nat]
      /\ next' \in [Threads -> Nat \ {0}] /\ lock_depth' \in [Threads -> Int]
      /\ continue_running' \in BOOLEAN
  <2>1. CASE EnterPhase(t)
    BY <2>1 DEF EnterPhase, Goto, Places
  <2>2. CASE LeavePhase(t) \/ LeaveLoop(t)
    BY <2>2 DEF LeavePhase, LeaveLoop, Goto, Places
  <2>3. CASE CheckContinue(t) \/ BeginEvent(t)
    BY <2>3 DEF CheckContinue, BeginEvent, Goto, Places
  <2>4. CASE DryRun(t)
    BY <2>4 DEF DryRun, Goto, Done, Places
  <2>5. QED
    BY <2>1, <2>2, <2>3, <2>4
<1>3. WellPlaced(t)'
  <2>1. WellPlaced(t) /\ t \in DOMAIN place /\ t \in DOMAIN next /\ t \in DOMAIN phase
    OBVIOUS
  <2>2. CASE EnterPhase(t)
    BY <2>1, <2>2 DEF EnterPhase, WellPlaced, InsidePhase, InsideEvent, Goto
  <2>3. CASE LeavePhase(t) \/ LeaveLoop(t)
    BY <2>1, <2>3 DEF LeavePhase, LeaveLoop, WellPlaced, InsidePhase, InsideEvent, Goto
  <2>4. CASE CheckContinue(t)
    BY <2>1, <2>4 DEF CheckContinue, WellPlaced, InsidePhase, InsideEvent, Goto, Events
  <2>5. CASE BeginEvent(t)
    BY <2>1, <2>5 DEF BeginEvent, WellPlaced, InsidePhase, InsideEvent, Goto, Events
  <2>6. CASE DryRun(t)
    BY <2>1, <2>6 DEF DryRun, WellPlaced, InsidePhase, InsideEvent, Goto, Done
  <2>7. QED
    BY <2>2, <2>3, <2>4, <2>5, <2>6
<1>4. NoLockCounted'
  BY DEF NoLockCounted, EnterPhase, LeavePhase, LeaveLoop, CheckContinue,
         BeginEvent, DryRun
<1>5. /\ owner' \in [Mutexes -> Threads \cup {Free}]
      /\ asleep' \in [Queues -> SUBSET Threads] /\ waiting' \in [Barriers -> Nat]
      /\ lost' \in [Barriers -> Nat]
  BY <1>1 DEF Quiet, resourceVars
<1>6. QED
  BY <1>1, <1>2, <1>3, <1>4, <1>5, QuietKeeps

\* Events without a resource, and the end of a wait.
LEMMA QuietEvents ==
  ASSUME IInv, NEW t \in Threads, Run(t) \/ Unlock(t) \/ Wake(t)
  PROVE  IInv'
<1> USE DEF IInv, TypeOK
<1>1. Quiet(t)
  BY DEF Quiet, Still, Run, Unlock, Wake, Running, Goto, Done, resourceVars
<1>2. /\ place' \in [Threads -> Places] /\ phase' \in [Threads -> Nat]
      /\ next' \in [Threads -> Nat \ {0}] /\ lock_depth' \in [Threads -> Int]
      /\ continue_running' \in BOOLEAN
  BY DEF Run, Unlock, Wake, Goto, Done, Places
<1>3. WellPlaced(t)'
  BY DEF WellPlaced, Run, Unlock, Wake, Running, InsidePhase, InsideEvent, Goto, Done
<1>4. NoLockCounted'
  BY DEF NoLockCounted, Run, Unlock, Wake
<1>5. /\ owner' \in [Mutexes -> Threads \cup {Free}]
      /\ asleep' \in [Queues -> SUBSET Threads] /\ waiting' \in [Barriers -> Nat]
      /\ lost' \in [Barriers -> Nat]
  BY <1>1 DEF Quiet, resourceVars
<1>6. QED
  BY <1>1, <1>2, <1>3, <1>4, <1>5, QuietKeeps

\* A notification of condition variable c moves some of its sleepers from
\* "asleep" to "wake", and the notifier somewhere where it neither sleeps nor
\* holds a mutex.
Notifies(t, c, set) ==
  /\ set \subseteq asleep[c]
  /\ asleep' = [asleep EXCEPT ![c] = @ \ set]
  /\ \A u \in Threads \ {t} : IF u \in set THEN place'[u] = "wake"
                                             ELSE place'[u] = place[u]
  /\ phase' = phase
  /\ \A u \in Threads \ {t} : next'[u] = next[u]

LEMMA NotifyOneNotifies ==
  ASSUME IInv, NEW t \in Threads, NEW c \in Conds, NEW where,
         NotifyOne(t, where, c), place[t] # "asleep", phase' = phase,
         \A u \in Threads \ {t} : next'[u] = next[u]
  PROVE  /\ \E set \in SUBSET asleep[c] : Notifies(t, c, set)
         /\ place' \in [Threads -> Places \cup {where}] /\ place'[t] = where
<1>1. PICK set \in SUBSET asleep[c] :
        /\ asleep' = [asleep EXCEPT ![c] = @ \ set]
        /\ GotoAndWake(t, where, set)
  BY DEF NotifyOne
<1>2. c \in Queues /\ t \notin set
  BY <1>1 DEF IInv, SleepersQueued, Queues
<1>3. QED
  BY <1>1, <1>2 DEF Notifies, GotoAndWake, IInv, TypeOK, Places

LEMMA NotifyAllNotifies ==
  ASSUME IInv, NEW t \in Threads, NEW c \in Queues, NEW where,
         NotifyAll(t, where, c), place[t] # "asleep", phase' = phase,
         \A u \in Threads \ {t} : next'[u] = next[u]
  PROVE  /\ Notifies(t, c, asleep[c])
         /\ place' \in [Threads -> Places \cup {where}] /\ place'[t] = where
<1>1. t \notin asleep[c]
  BY DEF IInv, SleepersQueued
<1>2. QED
  BY <1>1 DEF NotifyAll, Notifies, GotoAndWake, IInv, TypeOK, Places

LEMMA NotifyKeeps ==
  ASSUME IInv, NEW t \in Threads, NEW c \in Queues, NEW set, Notifies(t, c, set),
         place[t] # "asleep", place'[t] # "asleep"
  PROVE  /\ SleepersQueued'
         /\ asleep' \in [Queues -> SUBSET Threads]
         /\ \A u \in Threads \ {t} :
              /\ WellPlaced(u)' /\ Current(u)' = Current(u)
              /\ place'[u] = "held" <=> place[u] = "held"
         /\ c \in Conds => \A b \in Barriers : asleep'[b] = asleep[b]
<1> USE DEF IInv, TypeOK
<1>1. \A u \in set : u \in Threads /\ place[u] = "asleep" /\ Current(u).res = c
  BY DEF Notifies, SleepersQueued
<1>2. \A u \in Threads \ {t} :
        /\ phase'[u] = phase[u] /\ next'[u] = next[u]
        /\ u \in set => place[u] = "asleep" /\ place'[u] = "wake"
        /\ u \notin set => place'[u] = place[u]
  BY <1>1 DEF Notifies
<1>3. \A u \in Threads \ {t} : WellPlaced(u)' /\ Current(u)' = Current(u)
  BY <1>2, StillPlaced
<1>4. asleep' \in [Queues -> SUBSET Threads]
  BY DEF Notifies
<1>5. SleepersQueued'
  <2> SUFFICES ASSUME NEW q \in Queues
               PROVE  asleep'[q] = {u \in Threads : place'[u] = "asleep" /\ Current(u)'.res = q}
    BY DEF SleepersQueued
  <2>1. asleep'[q] = IF q = c THEN asleep[c] \ set ELSE asleep[q]
    BY DEF Notifies
  <2>2. \A u \in Threads : u \in asleep[q] <=> place[u] = "asleep" /\ Current(u).res = q
    BY DEF SleepersQueued
  <2>3. \A u \in Threads : u \in asleep'[q] <=> place'[u] = "asleep" /\ Current(u)'.res = q
    <3> SUFFICES ASSUME NEW u \in Threads
                 PROVE  u \in asleep'[q] <=> place'[u] = "asleep" /\ Current(u)'.res = q
      OBVIOUS
    <3>1. CASE u = t
      BY <1>1, <2>1, <2>2, <3>1
    <3>2. CASE u # t /\ u \in set
      BY <1>1, <1>2, <2>1, <2>2, <3>2
    <3>3. CASE u # t /\ u \notin set
      BY <1>2, <1>3, <2>1, <2>2, <3>3
    <3>4. QED
      BY <3>1, <3>2, <3>3
  <2>4. QED
    BY <1>4, <2>3
<1>6. ASSUME c \in Conds, NEW b \in Barriers PROVE asleep'[b] = asleep[b]
  BY <1>6, EventsAssumption DEF Notifies, Queues
<1>7. QED
  BY <1>2, <1>3, <1>4, <1>5, <1>6

\* signal, broadcast and the first half of sync.
LEMMA NotifyEvents ==
  ASSUME IInv, NEW t \in Threads, Signal(t) \/ Broadcast(t) \/ SigAndWait(t)
  PROVE  IInv'
<1> USE DEF IInv, TypeOK
<1> DEFINE c == Current(t).res
           where == IF SigAndWait(t) THEN "acquire" ELSE "check"
<1>1. place[t] = "run" /\ c \in Conds /\ c \in Queues
  <2>1. place[t] = "run" /\ Current(t).type \in {"Signal", "Broadcast", "SigAndWait"}
    BY DEF Signal, Broadcast, SigAndWait, Running
  <2>2. QED
    BY <2>1, CurrentEvent, EventFields DEF InsideEvent, InsidePhase, Queues, Sleepers
<1>2. /\ phase' = phase /\ next' \in [Threads -> Nat \ {0}]
      /\ \A u \in Threads \ {t} : next'[u] = next[u]
      /\ UNCHANGED <<lock_depth, owner, waiting, lost, continue_running>>
  BY DEF Signal, Broadcast, SigAndWait, Done
<1>3. /\ \E set \in SUBSET asleep[c] : Notifies(t, c, set)
      /\ place'[t] \in {"check", "acquire"} /\ place' \in [Threads -> Places]
  <2>1. CASE Signal(t)
    BY <1>1, <1>2, <2>1, NotifyOneNotifies DEF Signal, Places
  <2>2. CASE SigAndWait(t)
    BY <1>1, <1>2, <2>2, NotifyOneNotifies DEF SigAndWait, Places
  <2>3. CASE Broadcast(t)
    BY <1>1, <1>2, <2>3, NotifyAllNotifies DEF Broadcast, Places
  <2>4. QED
    BY <2>1, <2>2, <2>3
<1>4. WellPlaced(t)'
  <2>1. phase[t] \in 1..Len(Phases[t]) /\ next[t] \in 1..Len(Events(t))
    BY <1>1 DEF WellPlaced, InsidePhase, InsideEvent
  <2>2. CASE Signal(t) \/ Broadcast(t)
    <3>1. place'[t] = "check"
      BY <1>1, <1>2, <2>2, NotifyOneNotifies, NotifyAllNotifies DEF Signal, Broadcast
    <3>2. QED
      BY <1>2, <2>1, <3>1 DEF WellPlaced, InsidePhase, InsideEvent
  <2>3. CASE SigAndWait(t)
    <3>1. place'[t] = "acquire" /\ next' = next /\ Current(t).type = "SigAndWait"
      BY <1>1, <1>2, <2>3, NotifyOneNotifies DEF SigAndWait, Running
    <3>2. QED
      BY <1>2, <2>1, <3>1 DEF WellPlaced, InsidePhase, InsideEvent, Events, Current
  <2>4. QED
    BY <2>2, <2>3
<1>5. PICK set \in SUBSET asleep[c] : Notifies(t, c, set)
  BY <1>3
<1>6. /\ SleepersQueued' /\ asleep' \in [Queues -> SUBSET Threads]
      /\ \A u \in Threads \ {t} :
           /\ WellPlaced(u)' /\ Current(u)' = Current(u)
           /\ place'[u] = "held" <=> place[u] = "held"
      /\ \A b \in Barriers : asleep'[b] = asleep[b]
  <2> HIDE DEF c, IInv
  <2>1. place[t] # "asleep" /\ place'[t] # "asleep" /\ c \in Conds /\ c \in Queues
    BY <1>1, <1>3
  <2>2. QED
    BY <1>5, <2>1, NotifyKeeps
<1>7. MutexesHeld'
  BY <1>1, <1>2, <1>3, <1>6 DEF MutexesHeld
<1>8. BarrierAccounting'
  BY <1>2, <1>6 DEF BarrierAccounting
<1>9. NoLockCounted'
  BY <1>2 DEF NoLockCounted
<1>10. QED
  BY <1>2, <1>3, <1>4, <1>6, <1>7, <1>8, <1>9

\* The first half of wait, suspend, sync, resume and lock.
LEMMA TakeMutexStep ==
  ASSUME IInv, NEW t \in Threads, TakeMutex(t)
  PROVE  IInv'
<1> USE DEF IInv, TypeOK
<1> DEFINE m == MutexOf(Current(t))
<1>1. /\ place[t] \in {"run", "acquire"}
      /\ Current(t).type \in Sleepers \cup {"Lock", "Resume"}
      /\ owner[m] = Free /\ owner' = [owner EXCEPT ![m] = t]
      /\ place' = [place EXCEPT ![t] = "held"]
      /\ UNCHANGED <<phase, next, lock_depth, asleep, waiting, lost, continue_running>>
  BY DEF TakeMutex, Running, WellPlaced, Sleepers, Goto
<1>2. m \in Mutexes
  BY <1>1, CurrentEvent, EventFields DEF InsideEvent, InsidePhase
<1>3. \A u \in Threads : Current(u)' = Current(u) /\ (u # t => Still(u))
  BY <1>1 DEF Still, Current, Events
<1>4. \A u \in Threads : WellPlaced(u)'
  <2>1. WellPlaced(t)'
    BY <1>1, <1>3 DEF WellPlaced, InsideEvent, InsidePhase, Events
  <2>2. QED
    BY <1>3, <2>1, StillPlaced DEF Still
<1>5. TypeOK'
  BY <1>1, <1>2, <1>4 DEF Places
<1> HIDE DEF m
<1>6. MutexesHeld'
  <2> SUFFICES ASSUME NEW k \in Mutexes, NEW u \in Threads
               PROVE  owner'[k] = u <=> place'[u] = "held" /\ MutexOf(Current(u)') = k
    BY DEF MutexesHeld
  <2>1. owner[k] = u <=> place[u] = "held" /\ MutexOf(Current(u)) = k
    BY DEF MutexesHeld
  <2>2. owner[k] = Free => owner[k] # u
    BY EventsAssumption
  <2>3. CASE u = t
    BY <1>1, <1>2, <1>3, <2>1, <2>3 DEF m
  <2>4. CASE u # t
    BY <1>1, <1>2, <1>3, <2>1, <2>2, <2>4 DEF Still
  <2>5. QED
    BY <2>3, <2>4
<1>7. SleepersQueued'
  BY <1>1, <1>3 DEF SleepersQueued, Still
<1>8. BarrierAccounting' /\ NoLockCounted'
  BY <1>1 DEF BarrierAccounting, NoLockCounted
<1>9. QED
  BY <1>5, <1>6, <1>7, <1>8

\* Nobody waits in the barriers for a mutex that is released, and a thread
\* that goes to sleep is one more in its queue.
LEMMA QueueGrows ==
  ASSUME IInv, NEW t \in Threads, NEW q \in Queues,
         place[t] # "asleep", place'[t] = "asleep", Current(t).res = q,
         phase' = phase, next' = next,
         \A u \in Threads \ {t} : place'[u] = place[u],
         asleep' = [asleep EXCEPT ![q] = @ \cup {t}]
  PROVE  /\ SleepersQueued'
         /\ \A u \in Threads : Current(u)' = Current(u) /\ (u # t => WellPlaced(u)')
         /\ t \notin asleep[q] /\ IsFiniteSet(asleep[q])
<1> USE DEF IInv, TypeOK
<1>1. \A u \in Threads : Current(u)' = Current(u)
  BY DEF Current, Events
<1>2. \A u \in Threads \ {t} : WellPlaced(u)'
  BY StillPlaced
<1>3. t \notin asleep[q] /\ IsFiniteSet(asleep[q])
  BY EventsAssumption, FS_Subset DEF SleepersQueued
<1>4. SleepersQueued'
  BY <1>1 DEF SleepersQueued
<1>5. QED
  BY <1>1, <1>2, <1>3, <1>4

LEMMA SleepStep ==
  ASSUME IInv, NEW t \in Threads, Sleep(t)
  PROVE  IInv'
<1> USE DEF IInv, TypeOK
<1> DEFINE m == Current(t).dep
           c == Current(t).res
<1>1. /\ place[t] = "held" /\ Current(t).type \in Sleepers
      /\ owner' = [owner EXCEPT ![m] = Free]
      /\ asleep' = [asleep EXCEPT ![c] = @ \cup {t}]
      /\ place' = [place EXCEPT ![t] = "asleep"]
      /\ UNCHANGED <<phase, next, lock_depth, waiting, lost, continue_running>>
  BY DEF Sleep, Goto
<1>2. c \in Conds /\ c \in Queues /\ m \in Mutexes /\ MutexOf(Current(t)) = m
  BY <1>1, CurrentEvent, EventFields DEF InsideEvent, InsidePhase, Queues, MutexOf, Sleepers
<1> HIDE DEF m, c
<1>3. /\ SleepersQueued'
      /\ \A u \in Threads : Current(u)' = Current(u) /\ (u # t => WellPlaced(u)')
  BY <1>1, <1>2, QueueGrows DEF c
<1>4. TypeOK'
  <2>1. WellPlaced(t)'
    BY <1>1, <1>3 DEF WellPlaced, InsideEvent, InsidePhase, Events
  <2>2. QED
    BY <1>1, <1>2, <1>3, <2>1 DEF Places
<1>5. MutexesHeld'
  <2> SUFFICES ASSUME NEW k \in Mutexes, NEW u \in Threads
               PROVE  owner'[k] = u <=> place'[u] = "held" /\ MutexOf(Current(u)') = k
    BY DEF MutexesHeld
  <2>1. /\ owner[k] = u <=> place[u] = "held" /\ MutexOf(Current(u)) = k
        /\ owner[k] = t <=> MutexOf(Current(t)) = k
    BY <1>1 DEF MutexesHeld
  <2>2. owner'[k] = IF k = m THEN Free ELSE owner[k]
    BY <1>1
  <2>3. Free \notin Threads
    BY EventsAssumption
  <2>4. CASE u = t
    BY <1>1, <1>2, <2>1, <2>2, <2>3, <2>4
  <2>5. CASE u # t
    BY <1>1, <1>2, <1>3, <2>1, <2>2, <2>3, <2>5
  <2>6. QED
    BY <2>4, <2>5
<1>6. BarrierAccounting' /\ NoLockCounted'
  BY <1>1, <1>2, EventsAssumption DEF BarrierAccounting, NoLockCounted, Queues
<1>7. QED
  BY <1>3, <1>4, <1>5, <1>6

LEMMA ResumeStep ==
  ASSUME IInv, NEW t \in Threads, Resume(t)
  PROVE  IInv'
<1> USE DEF IInv, TypeOK
<1> DEFINE m == Current(t).dep
           c == Current(t).res
<1>1. /\ place[t] = "held" /\ Current(t).type = "Resume"
      /\ owner' = [owner EXCEPT ![m] = Free]
      /\ NotifyAll(t, "check", c)
      /\ next' = [next EXCEPT ![t] = @ + 1]
      /\ UNCHANGED <<phase, lock_depth, waiting, lost, continue_running>>
  BY DEF Resume, Done
<1>2. c \in Conds /\ c \in Queues /\ m \in Mutexes /\ MutexOf(Current(t)) = m
  BY <1>1, CurrentEvent, EventFields DEF InsideEvent, InsidePhase, Queues, MutexOf
<1> HIDE DEF m, c
<1>3. /\ Notifies(t, c, asleep[c])
      /\ place' \in [Threads -> Places] /\ place'[t] = "check"
  <2> HIDE DEF IInv
  <2>1. place[t] # "asleep" /\ phase' = phase
        /\ \A u \in Threads \ {t} : next'[u] = next[u]
    BY <1>1 DEF IInv
  <2>2. Places \cup {"check"} = Places
    BY DEF Places
  <2>3. QED
    BY <1>1, <1>2, <2>1, <2>2, NotifyAllNotifies
<1>4. /\ SleepersQueued' /\ asleep' \in [Queues -> SUBSET Threads]
      /\ \A u \in Threads \ {t} :
           /\ WellPlaced(u)' /\ Current(u)' = Current(u)
           /\ place'[u] = "held" <=> place[u] = "held"
      /\ \A b \in Barriers : asleep'[b] = asleep[b]
  <2> HIDE DEF IInv
  <2>1. QED
    BY <1>1, <1>2, <1>3, NotifyKeeps
<1>5. WellPlaced(t)'
  BY <1>1, <1>3 DEF WellPlaced, InsidePhase, InsideEvent
<1>6. TypeOK'
  <2>1. next' \in [Threads -> Nat \ {0}] /\ owner' \in [Mutexes -> Threads \cup {Free}]
    BY <1>1, <1>2
  <2>2. \A u \in Threads : WellPlaced(u)'
    BY <1>4, <1>5
  <2>3. QED
    BY <1>1, <1>3, <1>4, <2>1, <2>2
<1>7. MutexesHeld'
  <2> SUFFICES ASSUME NEW k \in Mutexes, NEW u \in Threads
               PROVE  owner'[k] = u <=> place'[u] = "held" /\ MutexOf(Current(u)') = k
    BY DEF MutexesHeld
  <2>1. /\ owner[k] = u <=> place[u] = "held" /\ MutexOf(Current(u)) = k
        /\ owner[k] = t <=> MutexOf(Current(t)) = k
    BY <1>1 DEF MutexesHeld
  <2>2. owner'[k] = IF k = m THEN Free ELSE owner[k]
    BY <1>1
  <2>3. Free \notin Threads
    BY EventsAssumption
  <2>4. CASE u = t
    BY <1>2, <1>3, <2>1, <2>2, <2>3, <2>4
  <2>5. CASE u # t
    BY <1>2, <1>4, <2>1, <2>2, <2>3, <2>5
  <2>6. QED
    BY <2>4, <2>5
<1>8. BarrierAccounting' /\ NoLockCounted'
  BY <1>1, <1>4 DEF BarrierAccounting, NoLockCounted
<1>9. QED
  BY <1>4, <1>6, <1>7, <1>8

LEMMA BarrierOpensStep ==
  ASSUME IInv, NEW t \in Threads, BarrierOpens(t)
  PROVE  IInv'
<1> USE DEF IInv, TypeOK
<1> DEFINE b == Current(t).res
<1>1. /\ place[t] = "run" /\ Current(t).type = "Barrier"
      /\ waiting' = [waiting EXCEPT ![b] = Total[b]]
      /\ lost' = [lost EXCEPT ![b] = 0]
      /\ NotifyAll(t, "check", b)
      /\ next' = [next EXCEPT ![t] = @ + 1]
      /\ UNCHANGED <<phase, lock_depth, owner, continue_running>>
  BY DEF BarrierOpens, Running, Done
<1>2. b \in Barriers /\ b \in Queues
  BY <1>1, CurrentEvent, EventFields DEF InsideEvent, InsidePhase, Queues
<1> HIDE DEF b
<1>3. /\ Notifies(t, b, asleep[b])
      /\ place' \in [Threads -> Places] /\ place'[t] = "check"
  <2> HIDE DEF IInv
  <2>1. place[t] # "asleep" /\ phase' = phase
        /\ \A u \in Threads \ {t} : next'[u] = next[u]
    BY <1>1 DEF IInv
  <2>2. Places \cup {"check"} = Places
    BY DEF Places
  <2>3. QED
    BY <1>1, <1>2, <2>1, <2>2, NotifyAllNotifies
<1>4. /\ SleepersQueued' /\ asleep' \in [Queues -> SUBSET Threads]
      /\ \A u \in Threads \ {t} :
           /\ WellPlaced(u)' /\ Current(u)' = Current(u)
           /\ place'[u] = "held" <=> place[u] = "held"
  <2> HIDE DEF IInv
  <2>1. QED
    BY <1>1, <1>2, <1>3, NotifyKeeps
<1>5. WellPlaced(t)'
  BY <1>1, <1>3 DEF WellPlaced, InsidePhase, InsideEvent
<1>6. TypeOK'
  <2>1. next' \in [Threads -> Nat \ {0}] /\ waiting' \in [Barriers -> Nat]
        /\ lost' \in [Barriers -> Nat]
    <3>1. Total[b] \in Nat
      BY <1>2, EventsAssumption
    <3>2. QED
      BY <1>1, <1>2, <3>1
  <2>2. \A u \in Threads : WellPlaced(u)'
    BY <1>4, <1>5
  <2>3. QED
    BY <1>1, <1>3, <1>4, <2>1, <2>2
<1>7. MutexesHeld'
  BY <1>1, <1>3, <1>4 DEF MutexesHeld
<1>8. BarrierAccounting'
  <2> SUFFICES ASSUME NEW k \in Barriers
               PROVE  waiting'[k] + Cardinality(asleep'[k]) + lost'[k] = Total[k]
    BY DEF BarrierAccounting
  <2>1. CASE k = b
    <3>1. asleep'[k] = {} /\ waiting'[k] = Total[k] /\ lost'[k] = 0
      BY <1>1, <1>2, <2>1 DEF NotifyAll
    <3>2. QED
      BY <3>1, FS_EmptySet, EventsAssumption
  <2>2. CASE k # b
    <3>1. asleep'[k] = asleep[k] /\ waiting'[k] = waiting[k] /\ lost'[k] = lost[k]
      BY <1>1, <1>2, <2>2 DEF NotifyAll, Queues
    <3>2. QED
      BY <3>1 DEF BarrierAccounting
  <2>3. QED
    BY <2>1, <2>2
<1>9. NoLockCounted'
  BY <1>1 DEF NoLockCounted
<1>10. QED
  BY <1>4, <1>6, <1>7, <1>8, <1>9

LEMMA BarrierSleepsStep ==
  ASSUME IInv, NEW t \in Threads, BarrierSleeps(t)
  PROVE  IInv'
<1> USE DEF IInv, TypeOK
<1> DEFINE b == Current(t).res
<1>1. /\ place[t] = "run" /\ Current(t).type = "Barrier" /\ waiting[b] # 0
      /\ waiting' = [waiting EXCEPT ![b] = @ - 1]
      /\ asleep' = [asleep EXCEPT ![b] = @ \cup {t}]
      /\ place' = [place EXCEPT ![t] = "asleep"]
      /\ UNCHANGED <<phase, next, lock_depth, owner, lost, continue_running>>
  BY DEF BarrierSleeps, Running, Goto
<1>2. b \in Barriers /\ b \in Queues
  BY <1>1, CurrentEvent, EventFields DEF InsideEvent, InsidePhase, Queues
<1> HIDE DEF b
<1>3. /\ SleepersQueued' /\ t \notin asleep[b] /\ IsFiniteSet(asleep[b])
      /\ \A u \in Threads : Current(u)' = Current(u) /\ (u # t => WellPlaced(u)')
  BY <1>1, <1>2, QueueGrows DEF b
<1>4. TypeOK'
  <2>1. WellPlaced(t)'
    BY <1>1, <1>3 DEF WellPlaced, InsideEvent, InsidePhase, Events
  <2>2. waiting' \in [Barriers -> Nat]
    BY <1>1, <1>2
  <2>3. QED
    BY <1>1, <1>2, <1>3, <2>1, <2>2 DEF Places
<1>5. MutexesHeld'
  BY <1>1, <1>3 DEF MutexesHeld
<1>6. BarrierAccounting'
  <2> SUFFICES ASSUME NEW k \in Barriers
               PROVE  waiting'[k] + Cardinality(asleep'[k]) + lost'[k] = Total[k]
    BY DEF BarrierAccounting
  <2>1. waiting[k] + Cardinality(asleep[k]) + lost[k] = Total[k] /\ lost[k] \in Nat
    BY DEF BarrierAccounting
  <2>2. CASE k = b
    <3>1. Cardinality(asleep'[k]) = Cardinality(asleep[k]) + 1
          /\ Cardinality(asleep[k]) \in Nat
      BY <1>1, <1>2, <1>3, <2>2, FS_AddElement, FS_CardinalityType
    <3>2. waiting'[k] = waiting[k] - 1 /\ waiting[k] \in Nat /\ Total[k] \in Nat
          /\ lost'[k] = lost[k]
      BY <1>1, <1>2, <2>2, EventsAssumption
    <3>3. QED
      BY <2>1, <3>1, <3>2
  <2>3. CASE k # b
    BY <1>1, <1>2, <2>1, <2>3 DEF Queues
  <2>4. QED
    BY <2>2, <2>3
<1>7. NoLockCounted'
  BY <1>1 DEF NoLockCounted
<1>8. QED
  BY <1>3, <1>4, <1>5, <1>6, <1>7

LEMMA SpuriousWakeStep ==
  ASSUME IInv, NEW t \in Threads, SpuriousWake(t)
  PROVE  IInv'
<1> USE DEF IInv, TypeOK
<1> DEFINE q == Current(t).res
<1>1. /\ place[t] = "asleep"
      /\ asleep' = [asleep EXCEPT ![q] = @ \ {t}]
      /\ lost' = [b \in Barriers |-> IF b = q THEN lost[b] + 1 ELSE lost[b]]
      /\ place' = [place EXCEPT ![t] = "wake"]
      /\ UNCHANGED <<phase, next, lock_depth, owner, waiting, continue_running>>
  BY DEF SpuriousWake, Goto
<1>2. q \in Queues
  <2>1. Current(t).type \in Sleepers \cup {"Barrier"}
    BY <1>1 DEF WellPlaced
  <2>2. QED
    BY <1>1, <2>1, CurrentEvent, EventFields DEF InsideEvent, InsidePhase, Queues
<1> HIDE DEF q
<1>3. \A u \in Threads : Current(u)' = Current(u) /\ WellPlaced(u)'
  BY <1>1, StillPlaced
<1>4. TypeOK'
  BY <1>1, <1>2, <1>3 DEF Places
<1>5. MutexesHeld'
  BY <1>1, <1>3 DEF MutexesHeld
<1>6. SleepersQueued'
  <2> SUFFICES ASSUME NEW k \in Queues
               PROVE  asleep'[k] = {u \in Threads : place'[u] = "asleep" /\ Current(u)'.res = k}
    BY DEF SleepersQueued
  <2>1. asleep[k] = {u \in Threads : place[u] = "asleep" /\ Current(u).res = k}
    BY DEF SleepersQueued
  <2>2. asleep'[k] = IF k = q THEN asleep[k] \ {t} ELSE asleep[k]
    BY <1>1, <1>2
  <2>3. k # q => t \notin asleep[k]
    BY <2>1 DEF q
  <2>4. asleep'[k] = asleep[k] \ {t}
    BY <2>2, <2>3
  <2>5. QED
    BY <1>1, <1>3, <2>1, <2>4
<1>7. BarrierAccounting'
  <2> SUFFICES ASSUME NEW b \in Barriers
               PROVE  waiting'[b] + Cardinality(asleep'[b]) + lost'[b] = Total[b]
    BY DEF BarrierAccounting
  <2>1. b \in Queues /\ IsFiniteSet(asleep[b])
    BY EventsAssumption, FS_Subset DEF Queues
  <2>2. waiting[b] + Cardinality(asleep[b]) + lost[b] = Total[b]
        /\ waiting'[b] = waiting[b] /\ lost[b] \in Nat /\ waiting[b] \in Nat
        /\ Total[b] \in Nat /\ Cardinality(asleep[b]) \in Nat
    BY <1>1, <2>1, FS_CardinalityType, EventsAssumption DEF BarrierAccounting
  <2>3. CASE b = q
    <3>1. t \in asleep[b]
      BY <1>1, <1>2, <2>3 DEF SleepersQueued, q
    <3>2. asleep'[b] = asleep[b] \ {t} /\ lost'[b] = lost[b] + 1
      BY <1>1, <1>2, <2>3
    <3>3. Cardinality(asleep[b] \ {t}) = Cardinality(asleep[b]) - 1
      <4> DEFINE S == asleep[b]
      <4>1. IsFiniteSet(S) /\ t \in S
        BY <2>1, <3>1
      <4> HIDE DEF S
      <4>2. Cardinality(S \ {t}) = Cardinality(S) - 1
        BY <4>1, FS_RemoveElement
      <4>3. QED
        BY <4>2 DEF S
    <3>4. QED
      BY <2>2, <3>2, <3>3
  <2>4. CASE b # q
    <3>1. asleep'[b] = asleep[b] /\ lost'[b] = lost[b]
      BY <1>1, <1>2, <2>1, <2>4
    <3>2. QED
      BY <2>2, <3>1
  <2>5. QED
    BY <2>3, <2>4
<1>8. NoLockCounted'
  BY <1>1 DEF NoLockCounted
<1>9. QED
  BY <1>4, <1>5, <1>6, <1>7, <1>8

LEMMA StopStep ==
  ASSUME IInv, Stop \/ UNCHANGED vars
  PROVE  IInv'
<1> USE DEF Stop, vars, threadVars, resourceVars
<1>1. \A u \in Threads : Current(u)' = Current(u) /\ WellPlaced(u)'
  BY StillPlaced DEF IInv, TypeOK
<1>2. TypeOK'
  BY <1>1 DEF IInv, TypeOK
<1>3. MutexesHeld' /\ SleepersQueued'
  BY <1>1 DEF IInv, MutexesHeld, SleepersQueued
<1>4. BarrierAccounting' /\ NoLockCounted'
  BY DEF IInv, BarrierAccounting, NoLockCounted
<1>5. QED
  BY <1>2, <1>3, <1>4 DEF IInv

LEMMA NextInvariant == IInv /\ [Next]_vars => IInv'
<1> SUFFICES ASSUME IInv, [Next]_vars PROVE IInv'
  OBVIOUS
<1>1. ASSUME NEW t \in Threads, ThreadStep(t) PROVE IInv'
  <2>1. CASE EnterPhase(t) \/ LeavePhase(t) \/ LeaveLoop(t)
             \/ CheckContinue(t) \/ BeginEvent(t) \/ DryRun(t)
    BY <2>1, PhaseSteps
  <2>2. CASE Run(t) \/ Unlock(t) \/ Wake(t)
    BY <2>2, QuietEvents
  <2>3. CASE Signal(t) \/ Broadcast(t) \/ SigAndWait(t)
    BY <2>3, NotifyEvents
  <2>4. CASE TakeMutex(t) \/ Sleep(t) \/ Resume(t)
    BY <2>4, TakeMutexStep, SleepStep, ResumeStep
  <2>5. CASE BarrierOpens(t) \/ BarrierSleeps(t)
    BY <2>5, BarrierOpensStep, BarrierSleepsStep
  <2>6. QED
    BY <1>1, <2>1, <2>2, <2>3, <2>4, <2>5 DEF ThreadStep, InPhase, InEvent
<1>2. ASSUME NEW t \in Threads, SpuriousWake(t) PROVE IInv'
  BY <1>2, SpuriousWakeStep
<1>3. CASE Stop \/ UNCHANGED vars
  BY <1>3, StopStep
<1>4. QED
  BY <1>1, <1>2, <1>3 DEF Next

\* The invariant all the others follow from.
THEOREM InvariantHolds == Spec => []IInv
BY InitInvariant, NextInvariant, PTL DEF Spec

\* The variables hold what their types allow, and every thread is at an event
\* of its phase that can be where the thread is.
THEOREM TypesHold == Spec => []TypeOK
BY InvariantHolds, PTL DEF IInv

\* Each mutex is held by the one thread that is between its lock and the end
\* of its critical section.
THEOREM MutexesAreHeld == Spec => []MutexesHeld
BY InvariantHolds, PTL DEF IInv

\* The queues of the condition variables and barriers are the sleeping threads.
THEOREM SleepersAreQueued == Spec => []SleepersQueued
BY InvariantHolds, PTL DEF IInv

\* However many threads use a barrier and whatever wakes them, what is missing
\* from its count are those that sleep in it and those it lost to a spurious
\* wakeup, no more and no fewer.
THEOREM BarriersCount == Spec => []BarrierAccounting
BY InvariantHolds, PTL DEF IInv

\* A resume wakes all that have locked the mutex to suspend themselves.
THEOREM ResumesMissNobody == Spec => ResumeMissesNobody
<1>1. ASSUME IInv, [Next]_vars, NEW t \in Threads, Resume(t),
             NEW u \in Threads \ {t}, place[u] \in {"held", "asleep"},
             Current(u) \in Sleeping,
             Current(u).res = Current(t).res, Current(u).dep = Current(t).dep
      PROVE  place'[u] = "wake"
  <2>1. place[t] = "held" /\ Current(t).type = "Resume"
        /\ NotifyAll(t, "check", Current(t).res)
    BY <1>1 DEF Resume
  <2>2. Current(t).dep \in Mutexes /\ Current(t).res \in Queues
    BY <1>1, <2>1, CurrentEvent, EventFields DEF IInv, InsideEvent, InsidePhase, Queues
  <2>3. MutexOf(Current(t)) = Current(t).dep /\ MutexOf(Current(u)) = Current(u).dep
    BY <1>1, <2>1 DEF MutexOf, Sleeping
  <2>4. place[u] # "held"
    BY <1>1, <2>1, <2>2, <2>3 DEF IInv, MutexesHeld
  <2>5. u \in asleep[Current(t).res]
    BY <1>1, <2>2, <2>4 DEF IInv, SleepersQueued
  <2>6. QED
    BY <2>1, <2>5 DEF NotifyAll, GotoAndWake
<1>2. IInv /\ [Next]_vars =>
        [\A t \in Threads : Resume(t) =>
           \A u \in Threads \ {t} :
             /\ place[u] \in {"held", "asleep"}
             /\ Current(u) \in Sleeping
             /\ Current(u).res = Current(t).res /\ Current(u).dep = Current(t).dep
             => place'[u] = "wake"]_vars
  BY <1>1
<1>3. QED
  BY <1>2, InvariantHolds, PTL DEF Spec, ResumeMissesNobody

\* What another thread's step can do to a thread that is not asleep: nothing.
LEMMA OthersStay ==
  ASSUME IInv, NEW t \in Threads, place[t] # "asleep",
         NEW u \in Threads \ {t}, ThreadStep(u) \/ SpuriousWake(u)
  PROVE  place'[t] = place[t]
<1> USE DEF IInv, TypeOK
<1>1. \A q \in Queues : t \notin asleep[q]
  BY DEF SleepersQueued
<1>2. CASE \E where : place' = [place EXCEPT ![u] = where]
  BY <1>2
<1>3. ASSUME NEW q \in Queues, NEW where,
             NotifyOne(u, where, q) \/ NotifyAll(u, where, q)
      PROVE  place'[t] = place[t]
  BY <1>1, <1>3 DEF NotifyOne, NotifyAll, GotoAndWake
<1>4. CASE Signal(u) \/ Broadcast(u) \/ SigAndWait(u) \/ Resume(u) \/ BarrierOpens(u)
  <2>1. /\ place[u] \in {"run", "held"}
        /\ Current(u).type \in {"Signal", "Broadcast", "SigAndWait", "Resume", "Barrier"}
    BY <1>4 DEF Signal, Broadcast, SigAndWait, Resume, BarrierOpens, Running
  <2>2. Current(u).res \in Queues
    <3> HIDE DEF IInv, TypeOK
    <3>1. Current(u) \in Event
      BY <2>1, CurrentEvent DEF InsideEvent, InsidePhase, IInv
    <3>2. QED
      BY <2>1, <3>1, EventFields DEF Sleepers, Queues
  <2>3. QED
    BY <1>3, <1>4, <2>2 DEF Signal, Broadcast, SigAndWait, Resume, BarrierOpens
<1>5. CASE ~(Signal(u) \/ Broadcast(u) \/ SigAndWait(u) \/ Resume(u) \/ BarrierOpens(u))
  BY <1>2, <1>5 DEF ThreadStep, InPhase, InEvent, EnterPhase, LeavePhase, LeaveLoop,
     CheckContinue, BeginEvent, DryRun, Run, Unlock, TakeMutex, Sleep,
     BarrierSleeps, Wake, SpuriousWake, Goto
<1>6. QED
  BY <1>4, <1>5

\* After the stop no thread begins another event.
THEOREM StopsCutShort == Spec => StopCutsShort
<1>1. ASSUME IInv, Next, NEW t \in Threads,
             ~continue_running, place[t] = "check", place'[t] # "check"
      PROVE  place'[t] = "outside"
  <2>1. lock_depth[t] <= 0 /\ lock_depth[t] \in Int /\ place \in [Threads -> Places]
    BY <1>1 DEF IInv, NoLockCounted, TypeOK
  <2>2. CASE ThreadStep(t) \/ SpuriousWake(t)
    BY <1>1, <2>1, <2>2 DEF ThreadStep, InPhase, InEvent, EnterPhase, LeavePhase,
       LeaveLoop, CheckContinue, BeginEvent, DryRun, Run, Unlock, Signal, Broadcast,
       SigAndWait, TakeMutex, Sleep, Resume, BarrierOpens, BarrierSleeps, Wake,
       SpuriousWake, Goto, Running
  <2>3. ASSUME NEW u \in Threads \ {t}, ThreadStep(u) \/ SpuriousWake(u)
        PROVE  FALSE
    BY <1>1, <2>3, OthersStay
  <2>4. CASE Stop
    BY <1>1, <2>4 DEF Stop
  <2>5. QED
    BY <1>1, <2>2, <2>3, <2>4 DEF Next
<1>2. IInv /\ [Next]_vars =>
        [\A t \in Threads :
           ~continue_running /\ place[t] = "check" /\ place'[t] # "check" =>
             place'[t] = "outside"]_vars
  BY <1>1
<1>3. QED
  BY <1>2, InvariantHolds, PTL DEF Spec, StopCutsShort
=============================================================================
