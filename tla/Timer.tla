------------------------------- MODULE Timer --------------------------------
(***************************************************************************)
(* A timer resource shared by several threads: run_event_timer of          *)
(* engine/events.rs and the clock (CLOCK_MONOTONIC, in any unit).          *)
(*                                                                         *)
(* An event advances the shared next_ns by its period under the timer's    *)
(* mutex, releases the mutex and sleeps until then.  When it wakes, it     *)
(* reads the clock, takes the mutex again and reads next_ns once more, for *)
(* the wakeup latency it logs; the other users of the timer may have       *)
(* advanced it in between.                                                 *)
(*                                                                         *)
(* due and true_latency are what the event was asked for and what a        *)
(* stopwatch would show; the program keeps neither.                        *)
(***************************************************************************)
EXTENDS Integers

CONSTANTS
  Users,    \* the threads that use the timer
  Unique,   \* those whose event names it "unique..." (type timer_unique)
  FirstUse, \* t_first_ns of each thread
  Periods,  \* the periods of the timer events; 0 where none is stated
  Relative, \* TimerState::relative; FALSE in every timer an event finds
  Horizon   \* bound: the clock and the deadlines stop there

ASSUME TimerAssumption ==
  /\ Unique \subseteq Users
  /\ FirstUse \in [Users -> Nat]
  /\ Periods \subseteq Nat
  /\ Relative \in BOOLEAN
  /\ Horizon \in Nat

VARIABLES
  now,          \* the clock
  initialized,  \* TimerState::initialized
  next_ns,      \* TimerState::next_ns
  place,        \* where each thread is
  after,        \* the clock as each thread read it on waking
  latency,      \* wakeup_latency of the phase each thread is in
  due,          \* when each thread's last timer event should return
  true_latency  \* the sum of what its wakeups were late, in this phase

timerVars   == <<initialized, next_ns>>
latencyVars == <<after, latency, true_latency>>
allVars     == <<now, timerVars, place, latencyVars, due>>

TimerInit ==
  /\ now = 0
  /\ initialized = FALSE /\ next_ns = 0
  /\ place = [t \in Users |-> "idle"]
  /\ after = [t \in Users |-> 0]
  /\ latency = [t \in Users |-> 0]
  /\ due = [t \in Users |-> 0]
  /\ true_latency = [t \in Users |-> 0]

\* Saturating subtraction.
SatSub(a, b) == IF a < b THEN 0 ELSE a - b

\* The deadline of an event: the first use of the timer starts it.
Deadline(t, period) ==
  (IF initialized THEN next_ns ELSE FirstUse[t]) + period

Tick ==
  /\ now < Horizon
  /\ now' = now + 1
  /\ UNCHANGED <<timerVars, place, latencyVars, due>>

\* Mutant: every event starts the timer again.
SleepRestarting(t, period) ==
  /\ place[t] = "idle" /\ t \notin Unique
  /\ now < FirstUse[t] + period /\ FirstUse[t] + period <= Horizon
  /\ initialized' = TRUE
  /\ next_ns' = FirstUse[t] + period
  /\ due' = [due EXCEPT ![t] = FirstUse[t] + period]
  /\ place' = [place EXCEPT ![t] = "sleeping"]
  /\ UNCHANGED <<now, latencyVars>>

\* The deadline lies ahead: the thread sleeps until then, without the mutex.
\* Bound: no deadline beyond Horizon.
Sleep(t, period) ==
  /\ place[t] = "idle" /\ t \notin Unique
  /\ now < Deadline(t, period) /\ Deadline(t, period) <= Horizon
  /\ initialized' = TRUE
  /\ next_ns' = Deadline(t, period)
  /\ due' = [due EXCEPT ![t] = Deadline(t, period)]
  /\ place' = [place EXCEPT ![t] = "sleeping"]
  /\ UNCHANGED <<now, latencyVars>>

\* The deadline has passed: a relative timer starts again from now; the
\* latency of the phase is set to zero.
Miss(t, period) ==
  /\ place[t] = "idle" /\ t \notin Unique
  /\ now >= Deadline(t, period)
  /\ initialized' = TRUE
  /\ next_ns' = IF Relative THEN now ELSE Deadline(t, period)
  /\ due' = [due EXCEPT ![t] = Deadline(t, period)]
  /\ latency' = [latency EXCEPT ![t] = 0]
  /\ UNCHANGED <<now, place, after, true_latency>>

\* The sleep is over, at its end or later, and the clock is read.
Awake(t) ==
  /\ place[t] = "sleeping" /\ now >= due[t]
  /\ after' = [after EXCEPT ![t] = now]
  /\ place' = [place EXCEPT ![t] = "awake"]
  /\ UNCHANGED <<now, timerVars, latency, true_latency, due>>

\* Mutant: the difference is taken the other way round.
MeasureReversed(t) ==
  /\ place[t] = "awake"
  /\ latency' = [latency EXCEPT ![t] = @ + SatSub(next_ns, after[t])]
  /\ true_latency' = [true_latency EXCEPT ![t] = @ + (after[t] - due[t])]
  /\ place' = [place EXCEPT ![t] = "idle"]
  /\ UNCHANGED <<now, timerVars, after, due>>

\* The latency is taken from what next_ns is by then.
Measure(t) ==
  /\ place[t] = "awake"
  /\ latency' = [latency EXCEPT ![t] = @ + SatSub(after[t], next_ns)]
  /\ true_latency' = [true_latency EXCEPT ![t] = @ + (after[t] - due[t])]
  /\ place' = [place EXCEPT ![t] = "idle"]
  /\ UNCHANGED <<now, timerVars, after, due>>

\* timer_unique looks into local_resources, which create_thread leaves empty,
\* and returns.
ReturnAtOnce(t, period) ==
  /\ place[t] = "idle" /\ t \in Unique
  /\ due[t] + period <= Horizon
  /\ due' = [due EXCEPT ![t] = (IF @ = 0 THEN FirstUse[t] ELSE @) + period]
  /\ UNCHANGED <<now, timerVars, place, latencyVars>>

\* The next phase starts with an empty LogData.
NewPhase(t) ==
  /\ place[t] = "idle"
  /\ latency' = [latency EXCEPT ![t] = 0]
  /\ true_latency' = [true_latency EXCEPT ![t] = 0]
  /\ UNCHANGED <<now, timerVars, place, after, due>>

TimerNext ==
  \/ Tick
  \/ \E t \in Users :
       \/ \E period \in Periods :
            Sleep(t, period) \/ Miss(t, period) \/ ReturnAtOnce(t, period)
       \/ Awake(t) \/ Measure(t) \/ NewPhase(t)

TimerSpec == TimerInit /\ [][TimerNext]_allVars

----------------------------------------------------------------------------
(* Properties *)

TimerTypeOK ==
  /\ now \in Nat /\ next_ns \in Nat
  /\ initialized \in BOOLEAN
  /\ place \in [Users -> {"idle", "sleeping", "awake"}]
  /\ after \in [Users -> Nat]
  /\ latency \in [Users -> Nat]
  /\ due \in [Users -> Nat]
  /\ true_latency \in [Users -> Nat]

\* No thread returns from an event of a shared timer before it is due, whoever
\* else uses the timer (run_event_timer sleeps for the difference to the
\* deadline it computed under the mutex).
NeverEarly == \A t \in Users \ Unique : place[t] # "sleeping" => due[t] <= now

\* The reference of a timer never moves backwards, so no thread is ever given
\* a deadline before one the timer has already given out.
NextNeverBack == [][initialized => next_ns' >= next_ns]_allVars

\* The latency that is logged is never more than the true one: what the other
\* users do to next_ns between the wakeup and the second reading can only hide
\* a part of it.
LatencyNotOver == \A t \in Users : latency[t] <= true_latency[t]

\* What these rest on: the timer is never behind a deadline it has given out,
\* and the clock was read after the sleep.
GivenOut ==
  \A t \in Users \ Unique :
    /\ place[t] # "idle" => initialized /\ due[t] <= next_ns
    /\ place[t] = "awake" => due[t] <= after[t] /\ after[t] <= now

\* A timer_unique event never sleeps.
UniqueIdle == \A t \in Unique : place[t] = "idle"

TimerIInv == TimerTypeOK /\ NeverEarly /\ LatencyNotOver /\ GivenOut /\ UniqueIdle
============================================================================
