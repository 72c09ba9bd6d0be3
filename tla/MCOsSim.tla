------------------------------- MODULE MCOsSim ------------------------------
(* Constant values for the TLC runs of OsSim. *)
EXTENDS OsSimProperties, ProcessTable, SchedulerOptions

Cpu(t) == [type |-> "cpu", time |-> t]
Io(t)  == [type |-> "io", time |-> t]
End    == [type |-> "terminate", time |-> 0]

(* Short programs; ProcessTable has those of the program. *)
ThreePrograms ==
  [p \in 0 .. 2 |-> IF p = 1 THEN <<Cpu(1), Io(1), Cpu(1), End>> ELSE <<Cpu(2), End>>]

(* With 10 ticks left a process is beyond the scan of wake_up. *)
LongPrograms == [ThreePrograms EXCEPT ![0] = <<Cpu(10), End>>, ![2] = <<Cpu(11), End>>]

(* The three command lines: "os-sim 2", "os-sim 2 -l" and "os-sim 2 -r 1". *)
Fifo       == <<Arg("os-sim", 0), Arg("2", 2)>>
LongFirst  == Append(Fifo, Arg("-l", 0))
RoundRobin == Fifo \o <<Arg("-r", 0), Arg("1", 1)>>

ASSUME AcceptedAssumption == \A argv \in {Fifo, LongFirst, RoundRobin} : Accepted(argv)

Cpus2          == cpu_count(Fifo)
FifoLrtf       == scheduling_alg(Fifo) = "l"
FifoSlice      == time_slice(Fifo)
LongFirstLrtf  == scheduling_alg(LongFirst) = "l"
LongFirstSlice == time_slice(LongFirst)
RoundRobinLrtf  == scheduling_alg(RoundRobin) = "l"
RoundRobinSlice == time_slice(RoundRobin)
=============================================================================
