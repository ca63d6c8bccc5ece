----------------------------- MODULE TimingLog -----------------------------
(***************************************************************************)
(* What the per-thread log promises: it keeps the newest Capacity timing   *)
(* points, in the order they were recorded, and writes those, or, when the *)
(* writer fails, the first of those.                                       *)
(***************************************************************************)
EXTENDS Integers, Sequences

CONSTANTS
  Capacity, \* how many points are kept; 0: logging is disabled
  Points    \* the timing points

VARIABLES
  recent,   \* the points kept, oldest first
  written,  \* what was written when the thread ended
  closed    \* the thread has ended

logVars == <<recent, written, closed>>

LogInit == recent = <<>> /\ written = <<>> /\ ~closed

\* A new point is kept and, when the log is full, the oldest is dropped.
Record(p) ==
  /\ ~closed
  /\ recent' = IF Capacity = 0 THEN recent
               ELSE IF Len(recent) < Capacity THEN Append(recent, p)
               ELSE Append(Tail(recent), p)
  /\ UNCHANGED <<written, closed>>

Write ==
  /\ ~closed
  /\ \E k \in 0..Len(recent) : written' = SubSeq(recent, 1, k)
  /\ closed' = TRUE
  /\ UNCHANGED recent

LogNext == (\E p \in Points : Record(p)) \/ Write

LogSpec == LogInit /\ [][LogNext]_logVars
============================================================================
