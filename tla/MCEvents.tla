------------------------------ MODULE MCEvents ------------------------------
(***************************************************************************)
(* Instances of Events for TLC: two or three threads whose phases contend  *)
(* for two mutexes, the condition variable of a task and another, and a    *)
(* barrier.                                                                *)
(***************************************************************************)
EXTENDS Events

Ev(type, res)       == [type |-> type, res |-> res]
Ev2(type, res, dep) == [type |-> type, res |-> res, dep |-> dep]
Busy == [type |-> "Run"]
Fork == [type |-> "Fork"]

\* A suspender, a resumer that also syncs, and a signaller; the first and the
\* last meet at a barrier, and the last two have lock events of another mutex.
PhasesMixed ==
  [t \in Threads |->
     CASE t = "t1" -> <<<<Ev2("Suspend", "task", "m"), Ev("Unlock", "m")>>,
                        <<Ev("Barrier", "b"), Busy>>>>
       [] t = "t2" -> <<<<Ev2("Resume", "task", "m"), Ev2("SigAndWait", "c", "m")>>,
                        <<Fork, Ev("Unlock", "n"), Ev("Lock", "n"), Busy>>>>
       [] t = "t3" -> <<<<Ev("Barrier", "b"), Ev("Signal", "c")>>,
                        <<Ev2("Wait", "c", "m"), Ev("Broadcast", "c")>>,
                        <<Ev("Lock", "n"), Ev("Unlock", "n")>>>>]

\* Two users of a barrier, each once.
PhasesBarrier == [t \in Threads |-> <<<<Ev("Barrier", "b"), Busy>>>>]

TotalTwo == [b \in Barriers |-> 2]
=============================================================================
