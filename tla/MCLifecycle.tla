---------------------------- MODULE MCLifecycle ----------------------------
(***************************************************************************)
(* An instance of Lifecycle for TLC: a task of two phases that runs one of *)
(* them twice, an endless task and a task without phases.                  *)
(***************************************************************************)
EXTENDS Lifecycle

Finite  == [phases |-> <<2, 1>>, loop_count |-> 1]
Endless == [phases |-> <<1>>, loop_count |-> -1]
NoPhase == [phases |-> <<>>, loop_count |-> -1]

TasksMixed == [t \in Threads |-> <<Finite, Endless, NoPhase>>[t + 1]]
============================================================================
