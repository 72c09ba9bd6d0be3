---------------------------- MODULE ProcessTable ----------------------------
(***************************************************************************)
(* The processes the simulator runs, as process.c defines them: each has   *)
(* CPU bursts and I/O requests in turn and ends with OP_TERMINATE.         *)
(***************************************************************************)
EXTENDS Integers, Sequences

(* The ops array with the given times, OP_CPU first. *)
Ops(times) ==
  [i \in 1 .. Len(times) + 1 |->
    IF i > Len(times) THEN [type |-> "terminate", time |-> 0]
    ELSE [type |-> IF i % 2 = 1 THEN "cpu" ELSE "io", time |-> times[i]]]

pid0_ops == Ops(<<2, 2, 3, 5, 1, 4, 2, 2, 3, 5, 1, 4, 2, 2, 3, 5, 1, 4, 2, 5,
  1, 4, 2, 2, 3, 5, 1, 4, 2>>)
pid1_ops == Ops(<<3, 4, 2, 6, 1, 3, 4, 4, 2, 6, 1, 3, 4, 4, 2, 6, 1, 3, 4, 3,
  4, 4, 2, 6, 1, 3, 4>>)
pid2_ops == Ops(<<1, 4, 2, 5, 1, 3, 3, 4, 2, 5, 1, 3, 3, 4, 2, 5, 1, 3, 3, 4,
  2, 5, 1, 3, 3>>)
pid3_ops == Ops(<<9, 1, 6, 1, 8, 1, 7, 1, 6, 1, 8, 1, 7, 1, 6, 1, 8, 1, 8>>)
pid4_ops == Ops(<<10, 1, 14, 1, 7, 2, 11, 1, 14, 1, 7, 2, 11, 1, 14, 1, 7, 2,
  11>>)
pid5_ops == Ops(<<9, 1, 10, 2, 15, 1, 8, 1, 10, 2, 15, 1, 8, 1, 10, 2, 15, 1,
  8>>)
pid6_ops == Ops(<<6, 3, 9, 1, 14, 1, 11, 3, 9, 1, 14, 1, 11, 3, 9, 1, 14, 1,
  11>>)
pid7_ops == Ops(<<6, 3, 12, 3, 7, 1, 9, 3, 12, 3, 7, 1, 9, 3, 12, 3, 7, 1,
  9>>)

(* processes[]: the program of each, and its initial time_remaining. *)
processes ==
  [p \in 0 .. 7 |->
    <<pid0_ops, pid1_ops, pid2_ops, pid3_ops, pid4_ops, pid5_ops, pid6_ops,
      pid7_ops>>[p + 1]]

time_remaining == [p \in 0 .. 7 |-> <<2, 3, 1, 9, 10, 9, 6, 6>>[p + 1]]

(* What OsSim makes of time_remaining before the first tick of a process. *)
ASSUME FirstBurstAssumption ==
  \A p \in 0 .. 7 : time_remaining[p] = processes[p][1].time
=============================================================================
