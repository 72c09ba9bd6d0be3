-------------------------- MODULE SchedulerOptions --------------------------
(***************************************************************************)
(* What main of student.c makes of "os-sim <# CPUs> [ -l | -r <slice> ]".  *)
(* An argument is its text and the number atoi and strtoul read in it.     *)
(***************************************************************************)
EXTENDS Integers, Sequences

Arg(text, value) == [text |-> text, value |-> value]

(* Anything else prints the usage. *)
Accepted(argv) == Len(argv) \in 1 .. 4

cpu_count(argv) == argv[2].value

(* The loop over all the arguments sets the algorithm for each of them, so *)
(* that the last one decides: after -r and its slice it is 'f' again, and  *)
(* only the slice makes a round robin of it.                               *)
scheduling_alg(argv) ==
  LET last == argv[Len(argv)].text
  IN  CASE last = "-r" -> "r" [] last = "-l" -> "l" [] OTHER -> "f"

time_slice(argv) ==
  LET slices == {i \in 1 .. Len(argv) : argv[i].text = "-r"}
  IN  IF slices = {} THEN -1
      ELSE argv[1 + CHOOSE i \in slices : \A j \in slices : j <= i].value
=============================================================================
