------------------------------- MODULE Events -------------------------------
(***************************************************************************)
(* The events of a phase, run by several worker threads on shared mutexes, *)
(* condition variables and barriers: run_phase, run_event and the handlers *)
(* run_event_* of engine/events.rs.                                        *)
(*                                                                         *)
(* run_phase reads continue_running twice for every event: first to leave  *)
(* the phase, then to choose a dry run, in which only lock and unlock are  *)
(* carried out.  The handlers block on std::sync::Mutex and Condvar.  A    *)
(* condition variable may wake a thread that nobody notified.              *)
(*                                                                         *)
(* Events that use no shared resource (run, runtime, sleep, yield, mem,    *)
(* iorun, timer) are all "Run" here: they take time and they end.  Which   *)
(* phase a thread runs next is left to Lifecycle; here it is any of its    *)
(* phases.                                                                 *)
(***************************************************************************)
EXTENDS Integers, Sequences, FiniteSets

CONSTANTS
  Threads,  \* the worker threads
  Mutexes,  \* resources of kind Mutex
  Conds,    \* resources of kind Condvar
  Barriers, \* resources of kind Barrier
  Total,    \* BarrierCounter::get of each barrier
  Phases,   \* the phases of each thread: sequences of events
  Free      \* the owner of a mutex nobody holds

Queues == Conds \cup Barriers

\* Events, by what they use: event.resource is res, event.dependency is dep.
Sleeping == [type : {"Wait", "Suspend", "SigAndWait"}, res : Conds, dep : Mutexes]
Event ==
  [type : {"Run", "Fork"}]
    \cup [type : {"Lock", "Unlock"}, res : Mutexes]
    \cup [type : {"Signal", "Broadcast"}, res : Conds]
    \cup Sleeping
    \cup [type : {"Resume"}, res : Conds, dep : Mutexes]
    \cup [type : {"Barrier"}, res : Barriers]

ASSUME EventsAssumption ==
  /\ IsFiniteSet(Threads) /\ Free \notin Threads
  /\ Conds \cap Barriers = {}
  /\ Total \in [Barriers -> Nat \ {0}]
  /\ Phases \in [Threads -> Seq(Seq(Event))]

VARIABLES
  place,           \* where each thread is
  phase,           \* the phase it runs, from 1
  next,            \* the event of the phase it is at, from 1
  lock_depth,      \* lock_depth of run_phase
  owner,           \* who holds each mutex
  asleep,          \* who sleeps in each condition variable
  waiting,         \* BarrierState::waiting
  lost,            \* history: the threads that a spurious wakeup has let out
                   \* of each barrier since it last opened
  continue_running \* EngineState::continue_running

threadVars   == <<place, phase, next, lock_depth>>
resourceVars == <<owner, asleep, waiting, lost>>
vars == <<threadVars, resourceVars, continue_running>>

Init ==
  /\ place = [t \in Threads |-> "outside"]
  /\ phase = [t \in Threads |-> 0]
  /\ next = [t \in Threads |-> 1]
  /\ lock_depth = [t \in Threads |-> 0]
  /\ owner = [m \in Mutexes |-> Free]
  /\ asleep = [q \in Queues |-> {}]
  /\ waiting = Total
  /\ lost = [b \in Barriers |-> 0]
  /\ continue_running = TRUE

Events(t)  == Phases[t][phase[t]]
Current(t) == Events(t)[next[t]]

Goto(t, where) == place' = [place EXCEPT ![t] = where]

\* Those of set wake up; t, if it is not among them, goes on to where.
GotoAndWake(t, where, set) ==
  place' = [u \in Threads |->
              IF u \in set THEN "wake" ELSE IF u = t THEN where ELSE place[u]]

\* The event has been run: on to the next one.
Done(t) == next' = [next EXCEPT ![t] = @ + 1]

Sleepers == {"Wait", "Suspend", "SigAndWait"}

\* The mutex the current event locks.
MutexOf(e) == IF e.type = "Lock" THEN e.res ELSE e.dep

----------------------------------------------------------------------------
(* run_phase *)

\* Mutant: the phase loop does not look at continue_running.
EnterPhaseAnyway(t) ==
  /\ place[t] = "outside"
  /\ phase' \in {[phase EXCEPT ![t] = k] : k \in 1..Len(Phases[t])}
  /\ next' = [next EXCEPT ![t] = 1]
  /\ lock_depth' = [lock_depth EXCEPT ![t] = 0]
  /\ Goto(t, "check")
  /\ UNCHANGED <<resourceVars, continue_running>>

EnterPhase(t) ==
  /\ place[t] = "outside" /\ continue_running
  /\ phase' \in {[phase EXCEPT ![t] = k] : k \in 1..Len(Phases[t])}
  /\ next' = [next EXCEPT ![t] = 1]
  /\ lock_depth' = [lock_depth EXCEPT ![t] = 0]
  /\ Goto(t, "check")
  /\ UNCHANGED <<resourceVars, continue_running>>

\* Mutant: a phase is left at its end only.
LeavePhaseAtEnd(t) ==
  /\ place[t] = "check"
  /\ next[t] > Len(Events(t))
  /\ Goto(t, "outside")
  /\ UNCHANGED <<phase, next, lock_depth, resourceVars, continue_running>>

\* The end of the list, or a stop while no lock is counted as held.
LeavePhase(t) ==
  /\ place[t] = "check"
  /\ \/ next[t] > Len(Events(t))
     \/ ~continue_running /\ lock_depth[t] <= 0
  /\ Goto(t, "outside")
  /\ UNCHANGED <<phase, next, lock_depth, resourceVars, continue_running>>

\* Mutant: only the lock depth decides, and not whether the run goes on.
CheckContinueBlind(t) ==
  /\ place[t] = "check" /\ next[t] <= Len(Events(t))
  /\ Goto(t, "dry")
  /\ UNCHANGED <<phase, next, lock_depth, resourceVars, continue_running>>

CheckContinue(t) ==
  /\ place[t] = "check" /\ next[t] <= Len(Events(t))
  /\ continue_running \/ lock_depth[t] > 0
  /\ Goto(t, "dry")
  /\ UNCHANGED <<phase, next, lock_depth, resourceVars, continue_running>>

\* dry_run is false, or the event is one a dry run carries out as well.
BeginEvent(t) ==
  /\ place[t] = "dry"
  /\ continue_running \/ Current(t).type \in {"Lock", "Unlock"}
  /\ Goto(t, "run")
  /\ UNCHANGED <<phase, next, lock_depth, resourceVars, continue_running>>

DryRun(t) ==
  /\ place[t] = "dry"
  /\ ~continue_running /\ Current(t).type \notin {"Lock", "Unlock"}
  /\ Goto(t, "check") /\ Done(t)
  /\ UNCHANGED <<phase, lock_depth, resourceVars, continue_running>>

\* The thread has left its phase loop for good.
LeaveLoop(t) ==
  /\ place[t] = "outside"
  /\ Goto(t, "left")
  /\ UNCHANGED <<phase, next, lock_depth, resourceVars, continue_running>>

----------------------------------------------------------------------------
(* run_event *)

Running(t, types) == place[t] = "run" /\ Current(t).type \in types

\* A fork event does nothing.
Run(t) ==
  /\ Running(t, {"Run", "Fork"})
  /\ Goto(t, "check") /\ Done(t)
  /\ UNCHANGED <<phase, lock_depth, resourceVars, continue_running>>

\* Nothing is unlocked, only counted.
Unlock(t) ==
  /\ Running(t, {"Unlock"})
  /\ lock_depth' = [lock_depth EXCEPT ![t] = @ - 1]
  /\ Goto(t, "check") /\ Done(t)
  /\ UNCHANGED <<phase, resourceVars, continue_running>>

\* notify_one, without the mutex: one of the sleepers, if there are any.
NotifyOne(t, where, c) ==
  \E set \in SUBSET asleep[c] :
    /\ Cardinality(set) = IF asleep[c] = {} THEN 0 ELSE 1
    /\ asleep' = [asleep EXCEPT ![c] = @ \ set]
    /\ GotoAndWake(t, where, set)

NotifyAll(t, where, c) ==
  /\ asleep' = [asleep EXCEPT ![c] = {}]
  /\ GotoAndWake(t, where, asleep[c])

Signal(t) ==
  /\ Running(t, {"Signal"})
  /\ NotifyOne(t, "check", Current(t).res) /\ Done(t)
  /\ UNCHANGED <<phase, lock_depth, owner, waiting, lost, continue_running>>

Broadcast(t) ==
  /\ Running(t, {"Broadcast"})
  /\ NotifyAll(t, "check", Current(t).res) /\ Done(t)
  /\ UNCHANGED <<phase, lock_depth, owner, waiting, lost, continue_running>>

\* run_event_sig_and_wait signals before it locks the mutex.
SigAndWait(t) ==
  /\ Running(t, {"SigAndWait"})
  /\ NotifyOne(t, "acquire", Current(t).res)
  /\ UNCHANGED <<phase, next, lock_depth, owner, waiting, lost, continue_running>>

\* m.lock() of wait, suspend, resume, sync, and the first of lock.  The second
\* m.lock() of lock is made by the owner of the mutex and never returns: there
\* is no step that leaves "held" with a lock event.
TakeMutex(t) ==
  /\ \/ Running(t, {"Lock", "Wait", "Suspend", "Resume"})
     \/ place[t] = "acquire"
  /\ owner[MutexOf(Current(t))] = Free
  /\ owner' = [owner EXCEPT ![MutexOf(Current(t))] = t]
  /\ Goto(t, "held")
  /\ UNCHANGED <<phase, next, lock_depth, asleep, waiting, lost, continue_running>>

\* cond.wait(guard) releases the mutex and sleeps, atomically.
Sleep(t) ==
  /\ place[t] = "held" /\ Current(t).type \in Sleepers
  /\ owner' = [owner EXCEPT ![Current(t).dep] = Free]
  /\ asleep' = [asleep EXCEPT ![Current(t).res] = @ \cup {t}]
  /\ Goto(t, "asleep")
  /\ UNCHANGED <<phase, next, lock_depth, waiting, lost, continue_running>>

\* Mutant: resume notifies without the mutex, as signal does.
ResumeUnlocked(t) ==
  /\ Running(t, {"Resume"})
  /\ NotifyAll(t, "check", Current(t).res) /\ Done(t)
  /\ UNCHANGED <<phase, lock_depth, owner, waiting, lost, continue_running>>

\* run_event_resume: notify_all under the mutex, which is then released.
Resume(t) ==
  /\ place[t] = "held" /\ Current(t).type = "Resume"
  /\ NotifyAll(t, "check", Current(t).res) /\ Done(t)
  /\ owner' = [owner EXCEPT ![Current(t).dep] = Free]
  /\ UNCHANGED <<phase, lock_depth, waiting, lost, continue_running>>

\* Mutant: the barrier is set up again but nobody is notified.
BarrierOpensSilently(t) ==
  /\ Running(t, {"Barrier"}) /\ waiting[Current(t).res] = 0
  /\ waiting' = [waiting EXCEPT ![Current(t).res] = Total[Current(t).res]]
  /\ lost' = [lost EXCEPT ![Current(t).res] = 0]
  /\ Goto(t, "check") /\ Done(t)
  /\ UNCHANGED <<phase, lock_depth, owner, asleep, continue_running>>

\* Mutant: the one that opens the barrier counts itself as one that waits.
BarrierOpensCounted(t) ==
  /\ Running(t, {"Barrier"}) /\ waiting[Current(t).res] = 0
  /\ waiting' = [waiting EXCEPT ![Current(t).res] = Total[Current(t).res] - 1]
  /\ lost' = [lost EXCEPT ![Current(t).res] = 0]
  /\ NotifyAll(t, "check", Current(t).res) /\ Done(t)
  /\ UNCHANGED <<phase, lock_depth, owner, continue_running>>

\* The last of those the barrier expects opens it, the others sleep; one
\* critical section of the barrier's own mutex.
BarrierOpens(t) ==
  /\ Running(t, {"Barrier"}) /\ waiting[Current(t).res] = 0
  /\ waiting' = [waiting EXCEPT ![Current(t).res] = Total[Current(t).res]]
  /\ lost' = [lost EXCEPT ![Current(t).res] = 0]
  /\ NotifyAll(t, "check", Current(t).res) /\ Done(t)
  /\ UNCHANGED <<phase, lock_depth, owner, continue_running>>

BarrierSleeps(t) ==
  /\ Running(t, {"Barrier"}) /\ waiting[Current(t).res] # 0
  /\ waiting' = [waiting EXCEPT ![Current(t).res] = @ - 1]
  /\ asleep' = [asleep EXCEPT ![Current(t).res] = @ \cup {t}]
  /\ Goto(t, "asleep")
  /\ UNCHANGED <<phase, next, lock_depth, owner, lost, continue_running>>

\* A woken thread locks the mutex again, once, and drops the guard.  The
\* condition is not tested again.
Wake(t) ==
  /\ place[t] = "wake"
  /\ Current(t).type \in Sleepers => owner[Current(t).dep] = Free
  /\ Goto(t, "check") /\ Done(t)
  /\ UNCHANGED <<phase, lock_depth, resourceVars, continue_running>>

\* Condvar::wait may return without a notification.
SpuriousWake(t) ==
  /\ place[t] = "asleep"
  /\ asleep' = [asleep EXCEPT ![Current(t).res] = @ \ {t}]
  /\ lost' = [b \in Barriers |->
                IF b = Current(t).res THEN lost[b] + 1 ELSE lost[b]]
  /\ Goto(t, "wake")
  /\ UNCHANGED <<phase, next, lock_depth, owner, waiting, continue_running>>

InEvent(t) ==
  \/ Run(t) \/ Unlock(t) \/ Signal(t) \/ Broadcast(t) \/ SigAndWait(t)
  \/ TakeMutex(t) \/ Sleep(t) \/ Resume(t)
  \/ BarrierOpens(t) \/ BarrierSleeps(t) \/ Wake(t)

InPhase(t) == CheckContinue(t) \/ BeginEvent(t) \/ DryRun(t) \/ InEvent(t)

ThreadStep(t) == EnterPhase(t) \/ LeavePhase(t) \/ LeaveLoop(t) \/ InPhase(t)

\* Another thread, or the main thread, ends the run.
Stop ==
  /\ continue_running
  /\ continue_running' = FALSE
  /\ UNCHANGED <<threadVars, resourceVars>>

Next ==
  \/ \E t \in Threads : ThreadStep(t) \/ SpuriousWake(t)
  \/ Stop

Spec == Init /\ [][Next]_vars

\* The kernel runs every thread that can run; nothing obliges the run to be
\* stopped or a sleeper to wake by itself.
FairSpec == Spec /\ \A t \in Threads : WF_vars(ThreadStep(t))

----------------------------------------------------------------------------
(* Properties *)

Places == {"outside", "check", "dry", "run", "acquire", "held", "asleep",
           "wake", "left"}

InsidePhase(t) == place[t] \notin {"outside", "left"}
InsideEvent(t) == InsidePhase(t) /\ place[t] # "check"

\* A thread inside an event is at an event of its phase, of a kind that can be
\* where the thread is.
WellPlaced(t) ==
  /\ InsidePhase(t) => phase[t] \in 1..Len(Phases[t])
  /\ InsideEvent(t) => next[t] \in 1..Len(Events(t))
  /\ place[t] = "acquire" => Current(t).type = "SigAndWait"
  /\ place[t] = "held" => Current(t).type \in Sleepers \cup {"Lock", "Resume"}
  /\ place[t] \in {"asleep", "wake"} => Current(t).type \in Sleepers \cup {"Barrier"}

\* The variables hold what their types allow, and the threads are well placed.
TypeOK ==
  /\ place \in [Threads -> Places]
  /\ phase \in [Threads -> Nat]
  /\ next \in [Threads -> Nat \ {0}]
  /\ lock_depth \in [Threads -> Int]
  /\ owner \in [Mutexes -> Threads \cup {Free}]
  /\ asleep \in [Queues -> SUBSET Threads]
  /\ waiting \in [Barriers -> Nat]
  /\ lost \in [Barriers -> Nat]
  /\ continue_running \in BOOLEAN
  /\ \A t \in Threads : WellPlaced(t)

\* A mutex is held by the thread that is between its lock and its wait, its
\* notification or its second lock, and by nobody else.
MutexesHeld ==
  \A m \in Mutexes : \A t \in Threads :
    owner[m] = t <=> place[t] = "held" /\ MutexOf(Current(t)) = m

\* A sleeping thread is in the queue of the resource it sleeps on and in no
\* other, so that a notification finds it.
SleepersQueued ==
  \A q \in Queues :
    asleep[q] = {t \in Threads : place[t] = "asleep" /\ Current(t).res = q}

\* What is missing from the count of a barrier are the threads that sleep in it
\* and those it lost to a spurious wakeup since it last opened, and no others:
\* it neither lets a thread through before the others have come nor expects one
\* that has.
BarrierAccounting ==
  \A b \in Barriers : waiting[b] + Cardinality(asleep[b]) + lost[b] = Total[b]

\* A lock event never returns, so a thread that runs a phase never counts a
\* lock as held.
NoLockCounted == \A t \in Threads : lock_depth[t] <= 0

\* What the properties below rest on.
IInv == TypeOK /\ MutexesHeld /\ SleepersQueued /\ BarrierAccounting /\ NoLockCounted

\* A resume misses nobody: whoever has locked the mutex to suspend itself
\* before is woken, also when it is just about to sleep.
ResumeMissesNobody ==
  [][\A t \in Threads : Resume(t) =>
       \A u \in Threads \ {t} :
         /\ place[u] \in {"held", "asleep"}
         /\ Current(u) \in Sleeping
         /\ Current(u).res = Current(t).res /\ Current(u).dep = Current(t).dep
         => place'[u] = "wake"]_vars

\* After the stop a thread finishes the event it is at and begins no other,
\* whatever it has locked and unlocked before.
StopCutsShort ==
  [][\A t \in Threads :
       ~continue_running /\ place[t] = "check" /\ place'[t] # "check" =>
         place'[t] = "outside"]_vars

\* A thread at the second lock of a lock event waits for itself, and with it
\* everyone who waits for that mutex.
Stuck(t) ==
  \E u \in Threads :
    /\ place[u] = "held" /\ Current(u).type = "Lock"
    /\ \/ u = t
       \/ /\ place[t] \in {"run", "acquire", "wake"}
          /\ Current(t).type \in Sleepers \cup {"Lock", "Resume"}
          /\ MutexOf(Current(t)) = Current(u).res

\* After the stop every thread leaves its phases, however many others use the
\* same mutexes, unless it is asleep or behind a lock event.
StopReachesAwake ==
  ~continue_running ~>
    \A t \in Threads : place[t] \in {"left", "asleep"} \/ Stuck(t)

\* "when the last user hits the barrier event, that thread will broadcast and
\* all continue": it never happens that all the users of a barrier sleep in it.
LastUserBroadcasts ==
  \A b \in Barriers : Cardinality(asleep[b]) < Total[b]
=============================================================================
