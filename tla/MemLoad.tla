------------------------------ MODULE MemLoad -------------------------------
(***************************************************************************)
(* The events that work on a buffer (engine/events.rs): memload fills and  *)
(* ioload writes as many bytes as the event asks for, in chunks no larger  *)
(* than the buffer, whose size is mem_buffer_size.                         *)
(***************************************************************************)
EXTENDS Integers

VARIABLES
  buf_len, \* the length of the buffer, 0 before it is made
  load,    \* the loop that is under way
  count    \* the bytes that are left to it

memVars == <<buf_len, load, count>>

MemInit == buf_len = 0 /\ load = "none" /\ count = 0

\* run_event_mem, run_event_iorun
StartLoad(kind, bytes) ==
  /\ load = "none" /\ load' = kind
  /\ count' = bytes
  /\ UNCHANGED buf_len

\* Mutant: only whole buffers are taken off.
ChunkWhole ==
  /\ load \in {"mem", "iorun"} /\ count > 0
  /\ count' = IF buf_len <= count THEN count - buf_len ELSE count
  /\ UNCHANGED <<buf_len, load>>

\* The sink that iorun writes to takes all it is given, and never fails.
Chunk ==
  /\ load \in {"mem", "iorun"} /\ count > 0
  /\ count' = IF buf_len <= count THEN count - buf_len ELSE 0
  /\ UNCHANGED <<buf_len, load>>

LoadReturns ==
  /\ load \in {"mem", "iorun"} /\ count = 0
  /\ load' = "done"
  /\ UNCHANGED <<buf_len, count>>

memload == Chunk \/ LoadReturns
=============================================================================
