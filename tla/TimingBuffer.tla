--------------------------- MODULE TimingBuffer ----------------------------
(***************************************************************************)
(* The circular buffer of timing points of one worker thread               *)
(* (TimingBuffer of engine/timing.rs), as thread_body uses it: created     *)
(* with the configured capacity, pushed to after every phase, and flushed  *)
(* once, in chronological order, when the thread ends.                     *)
(***************************************************************************)
EXTENDS Integers, Sequences

CONSTANTS
  Capacity, \* log_capacity; 0: TimingBuffer::new returns None
  Points,   \* the timing points
  Default   \* TimingPoint::default(), what the buffer is filled with

ASSUME BufferAssumption ==
  /\ Capacity \in Nat
  /\ Default \notin Points

VARIABLES
  buf,        \* buf: the slots, from 0
  write_idx,  \* next write position
  wrapped,    \* the buffer has been filled at least once
  written,    \* what flush_to has written
  closed      \* the thread has flushed its log and ended

bufferVars == <<buf, write_idx, wrapped, written, closed>>

Slots == 0 .. Capacity - 1

\* vec![TimingPoint::default(); capacity]
New ==
  /\ buf = [i \in Slots |-> Default]
  /\ write_idx = 0
  /\ wrapped = FALSE

BufferInit == New /\ written = <<>> /\ closed = FALSE

\* Number of entries stored.
len == IF wrapped THEN Capacity ELSE write_idx

\* The slots in the order of their indexes, for the mutant below.
iter_by_index == [i \in 1 .. len |-> buf[i - 1]]

\* The slots from write_idx to the end, if the buffer has wrapped, then those
\* from 0 to write_idx.
iter_chronological ==
  LET older == IF wrapped THEN Capacity - write_idx ELSE 0
  IN  [i \in 1 .. older + write_idx |->
         IF i <= older THEN buf[write_idx + i - 1] ELSE buf[i - older - 1]]

\* Mutant: the index wraps one push too late.
PushLate(p) ==
  /\ ~closed /\ Capacity # 0
  /\ buf' = [buf EXCEPT ![write_idx] = p]
  /\ LET full == write_idx + 1 > Capacity
     IN  /\ wrapped'   = (wrapped \/ full)
         /\ write_idx' = IF full THEN 0 ELSE write_idx + 1
  /\ UNCHANGED <<written, closed>>

\* push overwrites the oldest point when the buffer is full; without a
\* buffer run_phase_loop drops the point.
Push(p) ==
  /\ ~closed /\ Capacity # 0
  /\ buf' = [buf EXCEPT ![write_idx] = p]
  /\ LET full == write_idx + 1 >= Capacity
     IN  /\ wrapped'   = (wrapped \/ full)
         /\ write_idx' = IF full THEN 0 ELSE write_idx + 1
  /\ UNCHANGED <<written, closed>>

\* Mutant: the slots are written in the order of their indexes.
FlushByIndex ==
  /\ ~closed
  /\ \E k \in 0..len : written' = SubSeq(iter_by_index, 1, k)
  /\ closed' = TRUE
  /\ UNCHANGED <<buf, write_idx, wrapped>>

\* flush_to stops at the first point the writer refuses.
Flush ==
  /\ ~closed
  /\ \E k \in 0..len : written' = SubSeq(iter_chronological, 1, k)
  /\ closed' = TRUE
  /\ UNCHANGED <<buf, write_idx, wrapped>>

BufferNext == (\E p \in Points : Push(p)) \/ Flush

BufferSpec == BufferInit /\ [][BufferNext]_bufferVars

----------------------------------------------------------------------------
(* Properties *)

BufferTypeOK ==
  /\ buf \in [Slots -> Points \cup {Default}]
  /\ write_idx \in Nat /\ (Capacity = 0 => write_idx = 0)
  /\ (Capacity # 0 => write_idx \in Slots)
  /\ wrapped \in BOOLEAN /\ closed \in BOOLEAN
  /\ (Capacity = 0 => ~wrapped)

\* What keeps the default points out of the log: the slots below write_idx,
\* and all of them once the buffer has wrapped, hold points that were pushed.
WrittenSlots ==
  \A i \in Slots : wrapped \/ i < write_idx => buf[i] \in Points

BufferInv == BufferTypeOK /\ WrittenSlots

\* The buffer is a log of the newest Capacity points.
Log == INSTANCE TimingLog WITH recent <- iter_chronological

ImplementsLog == Log!LogSpec
============================================================================
