--------------------------- MODULE OsSimProperties --------------------------
(***************************************************************************)
(* What the OS simulator must guarantee, stated over OsSim.                *)
(*                                                                         *)
(* An event posted to a CPU thread that is not waiting for it is lost (see *)
(* PostEvent); NoEventLost says that never happens, and the code breaks    *)
(* it.  What holds only up to the first lost event is guarded by ~lost.    *)
(***************************************************************************)
EXTENDS OsSim, FiniteSets

-----------------------------------------------------------------------------
(* Where a process is. *)

Handling == {"woken", "count", "wlock", "body", "push"}

(* The process a CPU answers for: chosen, running, or about to be pushed. *)
Bound(c) ==
  CASE cpuPc[c] \in {"dispatch", "csUnlock", "csSwitch"}          -> local[c]
    [] cpuPc[c] \in {"csLock", "wunlock", "top", "running"}       -> cpuCur[c]
    [] cpuPc[c] \in Handling /\ cpuState[c] = "preempt"           -> cpuCur[c]
    [] OTHER                                                      -> Null

(* wake_up has its argument in hand until push_to_queue has linked it. *)
InWakeUp(p) == supPc \in {"wakeLock", "wakeReady", "wakePush"} /\ supProc = p

(* processes_created is incremented only when wake_up has returned. *)
Creating(p) ==
  /\ supProc = p /\ supRet = "endTick"
  /\ supPc \in {"wakeLock", "wakeReady", "wakePush", "wakeScan", "fpUnlock", "fpCheck",
                "fpAwait", "fpReacquire", "fpLock", "wakeUnlock", "wakeReturn"}

Unborn(p) == p >= created /\ ~Creating(p)
Done(p)   == OpType(p) = "terminate"

Places(p) ==
       {<<"unborn", q>> : q \in {r \in {p} : Unborn(r)}}
  \cup {<<"waking", q>> : q \in {r \in {p} : InWakeUp(r)}}
  \cup {<<"done", q>>   : q \in {r \in {p} : Done(r)}}
  \cup {<<"ready", i>>  : i \in {j \in DOMAIN queue : queue[j] = p}}
  \cup {<<"io", i>>     : i \in {j \in DOMAIN ioq : ioq[j].pcb = p}}
  \cup {<<"cpu", c>>    : c \in {d \in Cpus : Bound(d) = p}}

(***************************************************************************)
(* No process is ever dropped or in two places: the ready list, the I/O    *)
(* queue, the CPUs and wake_up hand each PCB from one to the next, in      *)
(* several critical sections and by several threads, and at every moment   *)
(* exactly one of them has it.                                             *)
(***************************************************************************)
Placement == ~lost => \A p \in Procs : Cardinality(Places(p)) = 1

(***************************************************************************)
(* The state field the Gantt line counts agrees with where the process is: *)
(* listed processes are READY, the one a waiting CPU thread simulates is   *)
(* RUNNING and is the one in current[], and an I/O request belongs to a    *)
(* WAITING process once its CPU has handled the yield.                     *)
(***************************************************************************)
StateMatchesPlace ==
  ~lost =>
    /\ \A i \in DOMAIN queue : pstate[queue[i]] = "ready"
    /\ \A c \in Cpus : cpuPc[c] = "running" =>
         /\ pstate[cpuCur[c]] = "running"
         /\ current[c] = cpuCur[c]
    /\ \A i \in DOMAIN ioq :
         \/ pstate[ioq[i].pcb] = "waiting"
         \/ \E c \in Cpus : /\ cpuCur[c] = ioq[i].pcb /\ cpuState[c] = "yield"
                            /\ cpuPc[c] \in Handling

(***************************************************************************)
(* preempt, yield and terminate dereference current[cpu_id] unchecked; it  *)
(* is never NULL there, lost events included.                              *)
(***************************************************************************)
NoNullPcb == \A c \in Cpus : cpuPc[c] = "body" => current[c] # Null

(***************************************************************************)
(* No CPU sleeps in idle() while the ready list has a process: the test of *)
(* head, the wait and the broadcast leave no gap, with any number of CPUs  *)
(* racing for the process that woke them.                                  *)
(***************************************************************************)
NoLostWakeup ==
  queue # <<>> => \A c \in Cpus : cpuPc[c] # "idleBlocked"

-----------------------------------------------------------------------------
(* Refinement of the abstract scheduler. *)

(* The slice of a process starts when it is chosen. *)
Slice(c) ==
  IF Bound(c) = Null \/ cpuPc[c] \in {"dispatch", "csUnlock", "csSwitch"}
  THEN TimeSlice ELSE timer[c]

Sched == INSTANCE CpuScheduler WITH
  unborn  <- {p \in Procs : Unborn(p)},
  waking  <- {p \in Procs : InWakeUp(p)},
  ready   <- queue,
  running <- [c \in Cpus |-> Bound(c)],
  quantum <- [c \in Cpus |-> Slice(c)],
  io      <- ioq

(***************************************************************************)
(* Up to the first lost event the threads, with their locks and events,    *)
(* implement the abstract scheduler: each step is one of its steps or none *)
(* that it sees.                                                           *)
(***************************************************************************)
ImplementsScheduler == Sched!Init /\ [][lost' \/ Sched!Next]_(Sched!vars)

-----------------------------------------------------------------------------
(* The inverted readers-writers lock as the simulator uses it. *)

InHandler(c) ==
  \/ cpuPc[c] \in {"body", "push", "wunlock"}
  \/ cpuPc[c] \in {"pop", "dispatch", "csUnlock"} /\ handler[c] # "idle"

(* schedule() called from idle(), inside context_switch's unlock and lock *)
IdleSwitching(c) ==
  handler[c] = "idle" /\ cpuPc[c] \in {"csSwitch", "csLock"}

SupInHandler == supPc \in {"wakeReady", "wakePush", "wakeScan", "fpUnlock", "wakeUnlock"}

(***************************************************************************)
(* student_lock.writers is the number of handlers in progress less the     *)
(* number of idle CPUs inside context_switch, which unlock what they never *)
(* locked.                                                                 *)
(***************************************************************************)
WritersCount ==
  writers = Cardinality({c \in Cpus : InHandler(c)}) + (IF SupInHandler THEN 1 ELSE 0)
            - Cardinality({c \in Cpus : IdleSwitching(c)})

(* Steps of a CPU thread that take simulator_mutex *)
TakesSimMutex == {"top", "woken", "count", "csSwitch"}

(***************************************************************************)
(* print_gantt_line waits for the reader lock with simulator_mutex held.   *)
(* When it does, a handler has the writer lock and releases it without     *)
(* that mutex, for context_switch takes the mutex only after the unlock    *)
(* (os-sim.c:395): the two locks are never waited for in a circle, and the *)
(* reader does not miss the signal of the last writer, wrong as the count  *)
(* of writers may be.                                                      *)
(***************************************************************************)
ReaderIsReleased ==
  reader = "blocked" =>
    /\ writers > 0
    /\ \E c \in Cpus : InHandler(c) /\ cpuPc[c] \notin TakesSimMutex

(***************************************************************************)
(* The lock "is to protect the state variable of the PCB structures, which *)
(* is accessed both by the student's code and by print_gantt_line()"       *)
(* (os-sim.c:78): the states do not change while the supervisor holds the  *)
(* reader lock to count them.  The code breaks it: schedule() called from  *)
(* idle() sets PROCESS_RUNNING with no lock.                               *)
(***************************************************************************)
NoWriteWhileRead == [][reader = "in" => pstate' = pstate]_vars

(***************************************************************************)
(* That is the only way: handlers that hold the writer lock never run      *)
(* while the reader counts, although the unlocks of context_switch() make  *)
(* the count of writers too low.                                           *)
(***************************************************************************)
RacesFromIdle ==
  [][reader = "in" /\ pstate' # pstate =>
       \E c \in Cpus : cpuPc[c] = "dispatch" /\ cpuPc'[c] = "csUnlock" /\ handler[c] = "idle"]_vars

-----------------------------------------------------------------------------
(* The handshake between the supervisor and the CPU threads. *)

(***************************************************************************)
(* "Ensure the scheduler gets run before the simulator" (os-sim.c:484,     *)
(* 505, 516): the event is delivered to a CPU thread that waits for it.    *)
(* The code breaks it: simulate_cpus looks at .current, which is set       *)
(* before the thread that called context_switch from idle() waits.         *)
(***************************************************************************)
NoEventLost == ~lost

(***************************************************************************)
(* That is the only way: an event of simulate_cpus meets a thread that     *)
(* waits for it, or one that idle() has just given its process and that    *)
(* has not come to the top of its loop.  No event is ever posted to a CPU  *)
(* that still handles the one before, lost events included.                *)
(***************************************************************************)
LossesFromIdle ==
  [][supPc = "cpus" /\ supPc' # "cpus" /\ supN < CpuCount =>
       \/ cpuPc[supN] = "running"
       \/ cpuPc[supN] \in {"csLock", "top"} /\ handler[supN] = "idle"]_vars

(***************************************************************************)
(* A CPU thread between the event it woke up for and its signal at the top *)
(* of its loop is the one the supervisor waits for: at most one preempt,   *)
(* yield or terminate is in progress, and none while the supervisor        *)
(* simulates, prints or exits.                                             *)
(***************************************************************************)
InEvent(c) ==
  \/ cpuPc[c] \in Handling \cup {"wunlock"}
  \/ cpuPc[c] \in {"pop", "dispatch", "csUnlock", "csSwitch", "csLock", "top"}
       /\ handler[c] # "idle"

OneEvent ==
  \A c \in Cpus : InEvent(c) => supN = c /\ supPc \in {"await", "fpAwait"}

(***************************************************************************)
(* Every wait of the supervisor is answered: the CPU thread it waits for   *)
(* is on its way to the signal at the top of its loop, lost events         *)
(* included, and never itself waiting.                                     *)
(***************************************************************************)
AnsweredWait ==
  supPc \in {"await", "fpAwait"} =>
    cpuPc[supN] \notin {"running", "idle", "idleBlocked"}

(***************************************************************************)
(* The processes counted as terminated have reached OP_TERMINATE, each     *)
(* once, so the simulation never exits early, lost events included; and a  *)
(* simulation without lost events exits with every process TERMINATED.     *)
(***************************************************************************)
NoEarlyExit ==
  /\ terminated <= Cardinality({p \in Procs : Done(p)})
  /\ supPc = "exit" /\ ~lost => \A p \in Procs : pstate[p] = "terminated"

(***************************************************************************)
(* force_preempt acts on a CPU chosen before two locks were released and   *)
(* taken: up to the first lost event the process it interrupts is still    *)
(* the one that was chosen, with less time remaining than the one that     *)
(* woke up, which is in the ready list or already taken by a CPU that was  *)
(* idle.                                                                   *)
(***************************************************************************)
PreemptsShorter ==
  [][supPc = "fpCheck" /\ supPc' = "fpAwait" /\ ~lost' =>
       /\ TimeRemaining[cpuCur[supN]] < TimeRemaining[supProc]
       /\ \/ supProc \in ToSet(queue)
          \/ \E c \in Cpus \ {supN} : Bound(c) = supProc]_vars

(***************************************************************************)
(* "It is possible that the student's code calls force_preempt() at the    *)
(* same time the process was already going to yield or terminate"          *)
(* (os-sim.c:411): testing for CPU_RUNNING is enough for a forced          *)
(* preemption to reach a CPU thread that waits for it, even after other    *)
(* events were lost.                                                       *)
(***************************************************************************)
ForcedDelivered ==
  [][supPc = "fpCheck" /\ supPc' = "fpAwait" => cpuPc[supN] = "running"]_vars

(***************************************************************************)
(* wake_up "may need to preempt the CPU with lower remaining time left"    *)
(* (student.c:232): when every CPU runs a process and one of them has less *)
(* time remaining than the one that woke up, a CPU is preempted.           *)
(***************************************************************************)
LrtfPreempts ==
  [][supPc = "wakeScan" /\ supPc' # supPc
       /\ (\A c \in Cpus : current[c] # Null)
       /\ (\E c \in Cpus : TimeRemaining[current[c]] < TimeRemaining[supProc])
       => supPc' = "fpUnlock"]_vars

(***************************************************************************)
(* What the scan over all CPUs does instead, the search starting from 10   *)
(* (student.c:253): when every CPU runs a process, one is preempted        *)
(* exactly if some process has less than 10 ticks and less than the one    *)
(* that woke up, and then none has less than the one preempted.  A process *)
(* with 10 ticks or more is never chosen, whatever woke up.                *)
(***************************************************************************)
ScanPreempts ==
  [][supPc = "wakeScan" /\ supPc' # supPc /\ ScanCount = CpuCount
       /\ (\A c \in Cpus : current[c] # Null)
       => /\ supPc' = "fpUnlock" <=>
               \E c \in Cpus : /\ TimeRemaining[current[c]] < 10
                               /\ TimeRemaining[current[c]] < TimeRemaining[supProc]
          /\ supPc' = "fpUnlock" =>
               \A c \in Cpus : TimeRemaining[current[supN']] <= TimeRemaining[current[c]]]_vars

-----------------------------------------------------------------------------
(* Liveness. *)

(* Every simulation without a lost event runs every process to its end. *)
CompletesUnlessLost == <>(supPc = "exit" \/ lost)

(***************************************************************************)
(* The supervisor never stays in a tick: it gets the reader lock although  *)
(* it keeps simulator_mutex, which the handlers need, and every CPU thread *)
(* it waits for answers, lost events included.                             *)
(***************************************************************************)
TicksGoOn == []<>(supPc \in {"tick", "exit"})

-----------------------------------------------------------------------------
(* The inductive invariant behind the theorems of OsSimProofs. *)

(* pcb->pc stays inside the process's ops array. *)
PcInv == \A p \in Procs : op[p] \in DOMAIN Program[p]

(* A process has at most one request, and only while its operation is I/O. *)
IoInv ==
  /\ \A i \in DOMAIN ioq : OpType(ioq[i].pcb) = "io"
  /\ \A i, j \in DOMAIN ioq : ioq[i].pcb = ioq[j].pcb => i = j

(* current[] and the simulator's .current differ only in context_switch. *)
CurrentInv ==
  \A c \in Cpus :
    /\ IF cpuPc[c] \in {"csUnlock", "csSwitch"}
       THEN current[c] = local[c] ELSE current[c] = cpuCur[c]
    /\ cpuPc[c] \in Handling \cup {"running"} => cpuCur[c] # Null
    /\ cpuPc[c] = "push" => local[c] # Null /\ handler[c] # "idle"
    /\ cpuPc[c] \in {"idle", "idleBlocked"} => cpuCur[c] = Null /\ handler[c] = "idle"
    /\ cpuState[c] = "running" => cpuPc[c] = "running"

(* The CPU the supervisor deals with exists, and so does the new process. *)
SupInv ==
  /\ supPc \in {"await", "reacquire", "fpUnlock", "fpCheck", "fpAwait"} => supN \in Cpus
  /\ \A p \in Procs : Creating(p) => created < ProcCount

IInv ==
  /\ TypeOK /\ PcInv /\ IoInv /\ CurrentInv /\ SupInv
  /\ NoLostWakeup /\ AnsweredWait

-----------------------------------------------------------------------------
(* The invariants behind OsSimSchedulerProofs, on top of IInv. *)

Events == {"preempt", "yield", "terminate"}

(* Events are handled one at a time, and the handler a CPU thread runs is  *)
(* the one of the event in its state.                                      *)
EventInv ==
  /\ OneEvent
  /\ \A c \in Cpus :
      /\ cpuPc[c] \in Handling => cpuState[c] \in Events
      /\ cpuPc[c] \in Handling \ {"woken"} => handler[c] = cpuState[c]
      /\ cpuPc[c] = "count" => handler[c] = "terminate"
      /\ cpuPc[c] = "push" => handler[c] = "preempt" /\ local[c] = cpuCur[c]
      /\ cpuPc[c] = "wunlock" => handler[c] # "idle"
      /\ cpuPc[c] \in {"pop", "dispatch", "csUnlock", "csSwitch"} /\ handler[c] = "idle"
           => cpuCur[c] = Null

(* The process in creation is the next one to count. *)
CreateInv == \A p \in Procs : Creating(p) => p = created

(* A slice that is used up is being handled. *)
TimerInv ==
  \A c \in Cpus :
    Bound(c) # Null /\ cpuPc[c] \notin {"dispatch", "csUnlock", "csSwitch"} =>
      IF TimeSlice > 0
      THEN timer[c] \in 0 .. TimeSlice /\ (timer[c] = 0 => cpuPc[c] \in Handling)
      ELSE timer[c] = TimeSlice

(***************************************************************************)
(* From the scan of wake_up to the push of the preempted process, the      *)
(* process that woke up stays ready or on a CPU, and longer than the other.*)
(***************************************************************************)
ForceInv ==
  /\ supPc \in {"wakeScan", "fpUnlock", "fpCheck", "fpAwait"} =>
       Lrtf /\ (supProc \in ToSet(queue) \/ \E c \in Cpus : Bound(c) = supProc)
  /\ (supPc \in {"fpUnlock", "fpCheck"} \/ (supPc = "fpAwait" /\ cpuPc[supN] \in Handling))
       => Bound(supN) # Null /\ TimeRemaining[Bound(supN)] < TimeRemaining[supProc]
  /\ \A c \in Cpus :
       cpuPc[c] \in Handling /\ cpuState[c] = "preempt" /\ supPc = "await" =>
         TimeSlice > 0 /\ timer[c] = 0

HandlingFor(c, event, p) ==
  cpuPc[c] \in Handling /\ cpuState[c] = event /\ cpuCur[c] = p

(* The state of a PCB, at every step of its way from one place to the next. *)
StateInv ==
  /\ \A p \in ToSet(queue) : pstate[p] = "ready"
  /\ supPc = "wakePush" => pstate[supProc] = "ready"
  /\ \A c \in Cpus :
       /\ cpuPc[c] = "push" => pstate[local[c]] = "ready"
       /\ cpuPc[c] \in {"csUnlock", "csSwitch", "csLock", "wunlock", "top", "running"}
            /\ Bound(c) # Null => pstate[Bound(c)] = "running"
       /\ cpuPc[c] \in Handling /\ cpuState[c] = "yield" =>
            \E i \in DOMAIN ioq : ioq[i].pcb = cpuCur[c]
       /\ cpuPc[c] \in Handling /\ cpuState[c] = "terminate" => Done(cpuCur[c])
  /\ \A i \in DOMAIN ioq :
       \/ pstate[ioq[i].pcb] = "waiting"
       \/ \E c \in Cpus : HandlingFor(c, "yield", ioq[i].pcb)
  /\ \A p \in Procs : Done(p) =>
       \/ pstate[p] = "terminated"
       \/ \E c \in Cpus : HandlingFor(c, "terminate", p)

(* The end of the process is posted to the CPU thread, but not counted yet. *)
Counting(c) ==
  \/ cpuPc[c] = "woken" /\ cpuState[c] = "terminate"
  \/ cpuPc[c] = "count"

(* The end of a process is counted once, and the supervisor exits on it.   *)
(* No event has to be serial or to arrive for that.                        *)
CountInv ==
  /\ terminated + Cardinality({c \in Cpus : Counting(c)})
       <= Cardinality({p \in Procs : Done(p)})
  /\ supPc = "exit" => terminated >= ProcCount

(***************************************************************************)
(* What the threads and the simulator know of each other at every step: it *)
(* is inductive, so everything OsSimSchedulerProofs proves follows from it.*)
(* The last four parts hold up to the first lost event only.               *)
(***************************************************************************)
SchedulerInv ==
  /\ IInv /\ EventInv /\ CreateInv /\ CountInv
  /\ ~lost => Sched!OnePlace /\ TimerInv /\ ForceInv /\ StateInv

=============================================================================
