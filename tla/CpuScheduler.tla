---------------------------- MODULE CpuScheduler ----------------------------
(***************************************************************************)
(* What the CPU scheduler promises, without threads, locks or events.      *)
(*                                                                         *)
(* Every process runs its operations in order: each CPU burst for exactly  *)
(* its time, on one CPU at a time, each I/O in the order of the requests.  *)
(* Ready processes are dispatched in the order they became ready or, for   *)
(* LRTF, longest remaining time first.  A running process is interrupted   *)
(* only when its time slice is used up or, for LRTF, when some process has *)
(* more time remaining.                                                    *)
(***************************************************************************)
EXTENDS Integers, SequencesExt

CONSTANTS Cpus, Procs, Null, Program, Lrtf, TimeSlice

VARIABLES
  unborn,   \* processes that wait for their creation
  waking,   \* processes created, or whose I/O is done, on their way to ready
  ready,    \* the ready queue
  running,  \* the process of each CPU
  quantum,  \* ticks left in the slice of each CPU's process
  io,       \* the I/O requests
  op,       \* the current operation of each process
  left      \* ticks left in it

vars == <<unborn, waking, ready, running, quantum, io, op, left>>

Init ==
  /\ unborn = Procs /\ waking = {}
  /\ ready = <<>> /\ io = <<>>
  /\ running = [c \in Cpus |-> Null]
  /\ quantum = [c \in Cpus |-> TimeSlice]
  /\ op = [p \in Procs |-> 1]
  /\ left = [p \in Procs |-> Program[p][1].time]

(* A burst counts one tick more once it is under way. *)
Remaining(p) ==
  IF op[p] = 1 /\ left[p] = Program[p][1].time THEN left[p] ELSE left[p] + 1

Taken == {running[c] : c \in Cpus} \ {Null}

Expired(c) == TimeSlice > 0 /\ quantum[c] = 0

NextOp(p, type) ==
  /\ Program[p][op[p]].type = "cpu" /\ left[p] = 0
  /\ Program[p][op[p] + 1].type = type
  /\ op' = [op EXCEPT ![p] = @ + 1]
  /\ left' = [left EXCEPT ![p] = Program[p][op[p] + 1].time]

Free(c) ==
  /\ running' = [running EXCEPT ![c] = Null]
  /\ quantum' = [quantum EXCEPT ![c] = TimeSlice]

Create(p) ==
  /\ p \in unborn /\ \A q \in unborn : p <= q
  /\ unborn' = unborn \ {p}
  /\ waking' = waking \cup {p}
  /\ UNCHANGED <<ready, running, quantum, io, op, left>>

Ready(p) ==
  /\ p \in waking
  /\ waking' = waking \ {p}
  /\ ready' = Append(ready, p)
  /\ UNCHANGED <<unborn, running, quantum, io, op, left>>

Dispatch(c, i) ==
  /\ running[c] = Null
  /\ i \in DOMAIN ready
  /\ IF Lrtf THEN \A j \in DOMAIN ready : Remaining(ready[j]) <= Remaining(ready[i])
             ELSE i = 1
  /\ running' = [running EXCEPT ![c] = ready[i]]
  /\ ready' = RemoveAt(ready, i)
  /\ UNCHANGED <<unborn, waking, quantum, io, op, left>>

Run(c) ==
  LET p == running[c] IN
  /\ p # Null /\ ~Expired(c)
  /\ Program[p][op[p]].type = "cpu" /\ left[p] > 0
  /\ left' = [left EXCEPT ![p] = @ - 1]
  /\ quantum' = [quantum EXCEPT ![c] = IF TimeSlice > 0 THEN @ - 1 ELSE @]
  /\ UNCHANGED <<unborn, waking, ready, running, io, op>>

Preempt(c) ==
  LET p == running[c] IN
  /\ p # Null
  /\ Expired(c) \/ (Lrtf /\ \E q \in ToSet(ready) \cup Taken :
                              Remaining(q) > Remaining(p))
  /\ ready' = Append(ready, p)
  /\ Free(c)
  /\ UNCHANGED <<unborn, waking, io, op, left>>

Block(c) ==
  LET p == running[c] IN
  /\ p # Null /\ NextOp(p, "io")
  /\ io' = Append(io, [pcb |-> p, time |-> left'[p]])
  /\ Free(c)
  /\ UNCHANGED <<unborn, waking, ready>>

Finish(c) ==
  LET p == running[c] IN
  /\ p # Null /\ NextOp(p, "terminate")
  /\ Free(c)
  /\ UNCHANGED <<unborn, waking, ready, io>>

Serve ==
  /\ io # <<>> /\ Head(io).time > 0
  /\ io' = [io EXCEPT ![1].time = @ - 1]
  /\ UNCHANGED <<unborn, waking, ready, running, quantum, op, left>>

Complete ==
  LET p == Head(io).pcb IN
  /\ io # <<>> /\ Head(io).time = 0
  /\ io' = Tail(io)
  /\ waking' = waking \cup {p}
  /\ op' = [op EXCEPT ![p] = @ + 1]
  /\ left' = [left EXCEPT ![p] = Program[p][op[p] + 1].time]
  /\ UNCHANGED <<unborn, ready, running, quantum>>

Next ==
  \/ \E p \in Procs : Create(p) \/ Ready(p)
  \/ \E c \in Cpus : Run(c) \/ Preempt(c) \/ Block(c) \/ Finish(c)
  \/ \E c \in Cpus : \E i \in DOMAIN ready : Dispatch(c, i)
  \/ Serve \/ Complete

Spec == Init /\ [][Next]_vars

-----------------------------------------------------------------------------
(* Where the processes are. *)

Waiting == {io[i].pcb : i \in DOMAIN io}
Done    == {p \in Procs : Program[p][op[p]].type = "terminate"}

One(b) == IF b THEN 1 ELSE 0

(***************************************************************************)
(* Every process is in exactly one of its places, and there only once.     *)
(***************************************************************************)
OnePlace ==
  /\ \A p \in Procs :
       One(p \in unborn) + One(p \in waking) + One(p \in ToSet(ready))
         + One(p \in Taken) + One(p \in Waiting) + One(p \in Done) = 1
  /\ \A i, j \in DOMAIN ready : ready[i] = ready[j] => i = j
  /\ \A i, j \in DOMAIN io : io[i].pcb = io[j].pcb => i = j
  /\ \A c, d \in Cpus : running[c] = running[d] => c = d \/ running[c] = Null

-----------------------------------------------------------------------------
(* What the proofs need besides. *)

(* Bursts and I/O alternate, the last operation terminates. *)
Alternating ==
  /\ Null \notin Procs /\ TimeSlice \in Int
  /\ \A p \in Procs :
       /\ 1 \in DOMAIN Program[p] /\ Program[p][1].type = "cpu"
       /\ \A i \in DOMAIN Program[p] :
            /\ i \in Nat \ {0} /\ Program[p][i].time \in Nat
            /\ Program[p][i].type \in {"cpu", "io"} => i + 1 \in DOMAIN Program[p]
            /\ Program[p][i].type = "io" => Program[p][i + 1].type = "cpu"

TypeOK ==
  /\ unborn \in SUBSET Procs /\ waking \in SUBSET Procs
  /\ ready \in Seq(Procs) /\ io \in Seq([pcb : Procs, time : Nat])
  /\ running \in [Cpus -> Procs \cup {Null}]
  /\ quantum \in [Cpus -> Int]
  /\ op \in [Procs -> Nat \ {0}] /\ left \in [Procs -> Nat]

(* The operations stay inside the programs; a request is an I/O operation. *)
OpsInPlace ==
  /\ \A p \in Procs : op[p] \in DOMAIN Program[p]
  /\ \A p \in Waiting : Program[p][op[p]].type = "io"

IInv == TypeOK /\ OpsInPlace /\ OnePlace

=============================================================================
