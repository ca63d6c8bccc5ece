------------------------------ MODULE MCTimer -------------------------------
(* An instance of Timer for TLC: the users of the timer start at different *)
(* times.                                                                  *)
EXTENDS Timer

FirstAtTwo == [t \in Users |-> IF t = "t1" THEN 0 ELSE 2]
============================================================================
