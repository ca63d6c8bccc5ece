---------------------------- MODULE PhaseCursor ----------------------------
(***************************************************************************)
(* The position of a worker thread in its workload: which phase it is in   *)
(* (phase_idx, from 0), how often it has run that phase (phase_loop) and   *)
(* how often it has run the whole list of phases (thread_loop).  The       *)
(* module holds the pure part of run_phase_loop and advance_phase_loop of  *)
(* engine/mod.rs; the modules that run threads use its operators.          *)
(*                                                                         *)
(* The loop counters are i32.  MaxInt is the largest i32; a release build  *)
(* wraps MaxInt + 1 around to -MaxInt - 1, which Inc does.                 *)
(***************************************************************************)
EXTENDS Integers, Sequences

CONSTANT MaxInt

ASSUME MaxIntAssumption == MaxInt \in Nat \ {0}

I32 == (-MaxInt - 1) .. MaxInt

\* A task as the engine sees it: the loop_count of each phase, in order, and
\* the loop_count of the task.
Task == [phases : Seq(I32), loop_count : I32]

Cursor == [phase_idx : Nat, phase_loop : I32, thread_loop : I32]

CursorStart == [phase_idx |-> 0, phase_loop |-> 0, thread_loop |-> 0]

\* Adding one to an i32 in a build without overflow checks.
Inc(n) == IF n = MaxInt THEN -MaxInt - 1 ELSE n + 1

\* Mutant: the counter is left negative when it overflows.
NextThreadLoopWraps(n) == Inc(n)

\* The thread loop counter is brought back to zero when it overflows.
NextThreadLoop(n) == IF Inc(n) < 0 THEN 0 ELSE Inc(n)

\* The loop condition of run_phase_loop that does not read shared state.
LoopsDone(task, cursor) == cursor.thread_loop = task.loop_count

\* Mutant: the loop counter of the phase is compared before it is incremented.
AdvanceOnceMore(task, cursor) ==
  LET last == cursor.phase_idx + 1 >= Len(task.phases)
  IN  IF cursor.phase_loop # task.phases[cursor.phase_idx + 1]
      THEN [cursor EXCEPT !.phase_loop = Inc(@)]
      ELSE [ phase_idx   |-> IF last THEN 0 ELSE cursor.phase_idx + 1,
             phase_loop  |-> 0,
             thread_loop |-> IF last THEN NextThreadLoop(cursor.thread_loop)
                                     ELSE cursor.thread_loop ]

\* Mutant: a new round over the phases is not counted.
AdvanceUncounted(task, cursor) ==
  LET last  == cursor.phase_idx + 1 >= Len(task.phases)
      again == Inc(cursor.phase_loop) # task.phases[cursor.phase_idx + 1]
  IN  IF again THEN [cursor EXCEPT !.phase_loop = Inc(@)]
      ELSE [cursor EXCEPT !.phase_idx = IF last THEN 0 ELSE @ + 1, !.phase_loop = 0]

\* advance_phase_loop, called once after every run of a phase.
Advance(task, cursor) ==
  LET last     == cursor.phase_idx + 1 >= Len(task.phases)
      again    == Inc(cursor.phase_loop) # task.phases[cursor.phase_idx + 1]
  IN  IF again THEN [cursor EXCEPT !.phase_loop = Inc(@)]
      ELSE [ phase_idx   |-> IF last THEN 0 ELSE cursor.phase_idx + 1,
             phase_loop  |-> 0,
             thread_loop |-> IF last THEN NextThreadLoop(cursor.thread_loop)
                                     ELSE cursor.thread_loop ]
============================================================================
