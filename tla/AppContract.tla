---------------------------- MODULE AppContract ----------------------------
(***************************************************************************)
(* What one run of the program promises, whatever its threads do inside:   *)
(* all the threads are launched together; the process ends only after a    *)
(* stop was requested and every thread has left; its exit code tells       *)
(* whether a thread failed; and a run that never launched its threads      *)
(* reports a failure.  Module Lifecycle implements it.                     *)
(***************************************************************************)
EXTENDS Integers

CONSTANT Threads

VARIABLES
  launched,  \* every thread has been started
  live,      \* the threads that have not left
  stop,      \* the threads have been told to stop
  failed,    \* some thread failed
  exit_code  \* -1 while the process runs

contractVars == <<launched, live, stop, failed, exit_code>>

ContractInit ==
  /\ ~launched /\ live = {} /\ ~stop /\ ~failed /\ exit_code = -1

Launch ==
  /\ exit_code = -1 /\ ~launched
  /\ launched' = TRUE /\ live' = Threads
  /\ UNCHANGED <<stop, failed, exit_code>>

\* A thread fails while it is live, and leaves later.
Fail ==
  /\ exit_code = -1 /\ live # {}
  /\ failed' = TRUE
  /\ UNCHANGED <<launched, live, stop, exit_code>>

RequestStop ==
  /\ exit_code = -1
  /\ stop' = TRUE
  /\ UNCHANGED <<launched, live, failed, exit_code>>

\* A thread leaves; one that leaves because it failed stops the others too.
Leave ==
  /\ exit_code = -1
  /\ \E t \in live : live' = live \ {t}
  /\ stop' \in {stop, TRUE}
  /\ UNCHANGED <<launched, failed, exit_code>>

Finish ==
  /\ exit_code = -1
  /\ launched /\ stop /\ live = {}
  /\ exit_code' = IF failed THEN 1 ELSE 0
  /\ UNCHANGED <<launched, live, stop, failed>>

Abort ==
  /\ exit_code = -1 /\ ~launched
  /\ exit_code' = 1
  /\ UNCHANGED <<launched, live, stop, failed>>

ContractNext == Launch \/ Fail \/ RequestStop \/ Leave \/ Finish \/ Abort

ContractSpec == ContractInit /\ [][ContractNext]_contractVars
============================================================================
