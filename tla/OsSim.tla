------------------------------- MODULE OsSim --------------------------------
(***************************************************************************)
(* The threaded OS simulator: the CPU scheduler (student.c) run by the     *)
(* simulator library (os-sim.c).                                           *)
(*                                                                         *)
(* One supervisor thread advances simulated time and posts events to the   *)
(* CPU threads; each CPU thread waits for an event, calls the scheduler's  *)
(* handler for it and reports back.  A step is one critical section, or    *)
(* the code between two of them; supPc and cpuPc say where a thread is.    *)
(*                                                                         *)
(* Locks.  Only the supervisor keeps simulator_mutex from one step to the  *)
(* next, so the mutex is free exactly when supPc is not in HoldsSimMutex.  *)
(* current_mutex and ready_mutex are never nested and each of their        *)
(* sections is one step.  A thread blocked in pthread_cond_wait is in      *)
(* a blocked label until a signal moves it on; the waits return only when  *)
(* signalled.                                                              *)
(*                                                                         *)
(* A definition marked "Variant" is a faulty version of the one after it.  *)
(* It is no part of the specification: it is there to show that a property *)
(* fails when the code has that fault.                                     *)
(***************************************************************************)
EXTENDS ReadyQueue, Irwl

CONSTANTS
  CpuCount,     \* cpu_count of os-sim.c: the number of CPU threads
  ProcCount,    \* PROCESS_COUNT
  Program,      \* the ops arrays of process.c, one sequence per process
  Lrtf,         \* scheduling_alg = 'l'
  TimeSlice,    \* time_slice: ticks, or -1 for no limit
  ScanCount,    \* cpu_count of student.c, as read by wake_up
  CreatePeriod  \* ticks between two process creations (10 in the code)

Cpus  == 0 .. CpuCount - 1
Procs == 0 .. ProcCount - 1
Null  == -1

OpTypes == {"cpu", "io", "terminate"}

(***************************************************************************)
(* The note at the head of process.c: operations alternate CPU and I/O,    *)
(* the first and the last before OP_TERMINATE are CPU.                     *)
(***************************************************************************)
WellFormed(prog) ==
  /\ prog \in Seq([type : OpTypes, time : Nat])
  /\ Len(prog) >= 2
  /\ prog[1].type = "cpu"
  /\ \A i \in 1 .. Len(prog) :
       /\ prog[i].type = "terminate" <=> i = Len(prog)
       /\ i < Len(prog) => (prog[i].type = "cpu" <=> prog[i + 1].type # "cpu")

ASSUME CountAssumption ==
  /\ CpuCount \in Nat \ {0}
  /\ ProcCount \in Nat \ {0}
  /\ CreatePeriod \in Nat \ {0}
  /\ ScanCount \in 0 .. CpuCount

ASSUME PolicyAssumption == Lrtf \in BOOLEAN /\ TimeSlice \in Int

ASSUME ProgramAssumption ==
  /\ DOMAIN Program = Procs
  /\ \A p \in Procs : WellFormed(Program[p])

VARIABLES
  \* student.c, with queue of ReadyQueue
  current,     \* current[]
  pstate,      \* pcb->state
  \* os-sim.c: simulator_cpu_data[] and the processes being simulated
  cpuCur,      \* .current
  cpuState,    \* .state
  timer,       \* .preemption_timer; values below 1 never expire
  op,          \* pcb->pc, as an index into Program[p]
  left,        \* pcb->pc->time, decremented in place
  ioq,         \* the I/O queue
  time,        \* simulator_time modulo CreatePeriod
  created,     \* processes_created
  terminated,  \* processes_terminated
  \* threads
  supPc,       \* supervisor: next step
  supN,        \* supervisor: the CPU it simulates or waits for
  supProc,     \* supervisor: the argument of wake_up
  supRet,      \* supervisor: the caller wake_up returns to
  cpuPc,       \* CPU threads: next step
  handler,     \* CPU threads: the event being handled
  local,       \* CPU threads: the PCB held in a local variable
  \* history
  lost         \* an event was posted to a CPU thread that did not wait for it

schedVars == <<queue, current, pstate>>
simVars   == <<cpuCur, cpuState, timer, op, left, ioq>>
tickVars  == <<time, created, terminated>>
supVars   == <<supPc, supN, supProc, supRet>>
cpuVars   == <<cpuPc, handler, local>>
vars      == <<schedVars, simVars, tickVars, supVars, cpuVars, irwlVars, lost>>

SupLabels == {"tick", "print", "gantt", "cpus", "await", "reacquire", "io",
              "creat", "endTick", "wakeLock", "wakeReady", "wakePush",
              "wakeScan", "fpUnlock", "fpCheck", "fpAwait", "fpReacquire",
              "fpLock", "wakeUnlock", "wakeReturn", "exit"}

CpuLabels == {"top", "running", "woken", "count", "wlock", "body", "push",
              "idle", "idleBlocked", "pop", "dispatch", "csUnlock",
              "csSwitch", "csLock", "wunlock"}

Handlers == {"idle", "preempt", "yield", "terminate"}

ProcOrNull == Procs \cup {Null}

SchedType ==
  /\ queue \in Seq(Procs)
  /\ current \in [Cpus -> ProcOrNull]
  /\ pstate \in [Procs -> {"new", "ready", "running", "waiting", "terminated"}]

SimType ==
  /\ cpuCur \in [Cpus -> ProcOrNull]
  /\ cpuState \in [Cpus -> Handlers \cup {"running"}]
  /\ timer \in [Cpus -> Int]
  /\ op \in [Procs -> Nat \ {0}]
  /\ left \in [Procs -> Nat]
  /\ ioq \in Seq([pcb : Procs, time : Nat])

TickType ==
  /\ time \in 0 .. CreatePeriod - 1
  /\ created \in 0 .. ProcCount
  /\ terminated \in Nat

SupType ==
  /\ supPc \in SupLabels
  /\ supN \in 0 .. CpuCount
  /\ supProc \in Procs
  /\ supRet \in {"creat", "endTick"}

CpuType ==
  /\ cpuPc \in [Cpus -> CpuLabels]
  /\ handler \in [Cpus -> Handlers]
  /\ local \in [Cpus -> ProcOrNull]

TypeOK == SchedType /\ SimType /\ TickType /\ SupType /\ CpuType /\ IrwlType

Init ==
  /\ queue = <<>>
  /\ current = [c \in Cpus |-> Null]
  /\ pstate = [p \in Procs |-> "new"]
  /\ cpuCur = [c \in Cpus |-> Null]
  /\ cpuState = [c \in Cpus |-> "idle"]
  /\ timer = [c \in Cpus |-> -1]
  /\ op = [p \in Procs |-> 1]
  /\ left = [p \in Procs |-> Program[p][1].time]
  /\ ioq = <<>>
  /\ time = 0
  /\ created = 0
  /\ terminated = 0
  /\ supPc = "tick"
  /\ supN = 0
  /\ supProc = 0
  /\ supRet = "creat"
  /\ cpuPc = [c \in Cpus |-> "top"]
  /\ handler = [c \in Cpus |-> "idle"]
  /\ local = [c \in Cpus |-> Null]
  /\ lost = FALSE
  /\ IrwlInit

-----------------------------------------------------------------------------
(* Helpers. *)

HoldsSimMutex == {"print", "gantt", "cpus", "io", "creat", "endTick"}
SimMutexFree  == supPc \notin HoldsSimMutex

OpType(p) == Program[p][op[p]].type

(***************************************************************************)
(* pcb->time_remaining.  process.c initialises it to the time of the first *)
(* operation; from the first simulated tick on it is pc->time + 1.         *)
(***************************************************************************)
NotStarted(p) == op[p] = 1 /\ left[p] = Program[p][1].time
TimeRemaining == [p \in Procs |-> IF NotStarted(p) THEN left[p] ELSE left[p] + 1]

SupGo(from, to)    == supPc = from /\ supPc' = to
CpuGo(c, from, to) == cpuPc[c] = from /\ cpuPc' = [cpuPc EXCEPT ![c] = to]

(* Variant: pthread_cond_signal instead of the broadcast. *)
WakeOneIdle(pcs) ==
  IF \E c \in Cpus : pcs[c] = "idleBlocked"
  THEN [pcs EXCEPT ![CHOOSE c \in Cpus : pcs[c] = "idleBlocked"] = "idle"]
  ELSE pcs

(* pthread_cond_broadcast(&not_idle) at the end of push_to_queue *)
WakeIdle(pcs) ==
  [c \in Cpus |-> IF pcs[c] = "idleBlocked" THEN "idle" ELSE pcs[c]]

(* Variant: the supervisor does not wait for the scheduler. *)
PostWithoutWait(n, event, await) ==
  /\ cpuState' = [cpuState EXCEPT ![n] = event]
  /\ cpuPc' = IF cpuPc[n] = "running" THEN [cpuPc EXCEPT ![n] = "woken"] ELSE cpuPc
  /\ lost' = (lost \/ cpuPc[n] # "running")
  /\ supPc' = "reacquire"

(***************************************************************************)
(* The supervisor sets a CPU's state, signals its condition variable and   *)
(* waits on the same variable.  The signal reaches the CPU thread only if  *)
(* the thread is already blocked; nothing in the code checks that it is.   *)
(***************************************************************************)
PostEvent(n, event, await) ==
  /\ cpuState' = [cpuState EXCEPT ![n] = event]
  /\ cpuPc' = IF cpuPc[n] = "running" THEN [cpuPc EXCEPT ![n] = "woken"] ELSE cpuPc
  /\ lost' = (lost \/ cpuPc[n] # "running")
  /\ supPc' = await

(* Variant: the CPU thread does not signal. *)
NoSignal(c) == UNCHANGED supPc

(* A CPU thread signals its condition variable at the top of its loop. *)
SignalSupervisor(c) ==
  supPc' = IF supN = c /\ supPc = "await" THEN "reacquire"
           ELSE IF supN = c /\ supPc = "fpAwait" THEN "fpReacquire"
           ELSE supPc

-----------------------------------------------------------------------------
(* The supervisor: simulator_supervisor_thread, lines 177-196. *)

(* Variant: exits one process early. *)
BeginTickEarlyExit ==
  /\ SupGo("tick", IF terminated >= ProcCount - 1 THEN "exit" ELSE "print")
  /\ UNCHANGED <<schedVars, simVars, tickVars, supN, supProc, supRet, cpuVars,
                 irwlVars, lost>>

BeginTick ==
  /\ SupGo("tick", IF terminated >= ProcCount THEN "exit" ELSE "print")
  /\ UNCHANGED <<schedVars, simVars, tickVars, supN, supProc, supRet, cpuVars,
                 irwlVars, lost>>

(* print_gantt_line: the reader lock is taken with simulator_mutex held. *)
LockGantt ==
  /\ supPc = "print"
  /\ ReaderLock
  /\ supPc' = IF reader' = "in" THEN "gantt" ELSE "print"
  /\ UNCHANGED <<schedVars, simVars, tickVars, supN, supProc, supRet, cpuVars, lost>>

UnlockGantt ==
  /\ SupGo("gantt", "cpus")
  /\ ReaderUnlock
  /\ supN' = 0
  /\ UNCHANGED <<schedVars, simVars, tickVars, supProc, supRet, cpuVars, lost>>

(* simulate_cpus: the loop over the CPUs *)
NextCpu == supN' = supN + 1 /\ UNCHANGED supPc

SkipCpu ==
  /\ supPc = "cpus" /\ supN < CpuCount
  /\ cpuCur[supN] = Null
  /\ NextCpu
  /\ UNCHANGED <<schedVars, simVars, tickVars, supProc, supRet, cpuVars, irwlVars, lost>>

EndCpus ==
  /\ supN = CpuCount
  /\ SupGo("cpus", "io")
  /\ UNCHANGED <<schedVars, simVars, tickVars, supN, supProc, supRet, cpuVars,
                 irwlVars, lost>>

(* simulate_process, OP_CPU with time left: run one tick, then the timer *)
RunTick(n, p) ==
  /\ OpType(p) = "cpu" /\ left[p] > 0
  /\ left' = [left EXCEPT ![p] = @ - 1]
  /\ timer' = [timer EXCEPT ![n] = IF @ > 0 THEN @ - 1 ELSE @]
  /\ IF timer[n] = 1
     THEN PostEvent(n, "preempt", "await") /\ UNCHANGED supN
     ELSE NextCpu /\ UNCHANGED <<cpuState, cpuPc, lost>>
  /\ UNCHANGED <<op, ioq>>

submit_io_request(p, execution_time) ==
  ioq' = Append(ioq, [pcb |-> p, time |-> execution_time])

(* simulate_process, OP_CPU at the end of the burst: the next operation *)
EndBurst(n, p) ==
  LET next == Program[p][op[p] + 1] IN
  /\ OpType(p) = "cpu" /\ left[p] = 0
  /\ op' = [op EXCEPT ![p] = @ + 1]
  /\ left' = [left EXCEPT ![p] = next.time]
  /\ \/ /\ next.type = "io"
        /\ submit_io_request(p, next.time)
        /\ PostEvent(n, "yield", "await")
     \/ /\ next.type = "terminate"
        /\ PostEvent(n, "terminate", "await")
        /\ UNCHANGED ioq
  /\ UNCHANGED <<timer, supN>>

(* simulate_process, OP_IO and OP_TERMINATE: only a message is printed *)
Misplaced(p) ==
  /\ OpType(p) \in {"io", "terminate"}
  /\ NextCpu
  /\ UNCHANGED <<timer, op, left, ioq, cpuState, cpuPc, lost>>

SimulateProcess ==
  /\ supPc = "cpus" /\ supN < CpuCount
  /\ cpuCur[supN] # Null
  /\ LET p == cpuCur[supN] IN
       RunTick(supN, p) \/ EndBurst(supN, p) \/ Misplaced(p)
  /\ UNCHANGED <<schedVars, cpuCur, tickVars, supProc, supRet, handler, local, irwlVars>>

(* The wait for the scheduler returns and the loop goes on. *)
Reacquire ==
  /\ SupGo("reacquire", "cpus")
  /\ supN' = supN + 1
  /\ UNCHANGED <<schedVars, simVars, tickVars, supProc, supRet, cpuVars, irwlVars, lost>>

-----------------------------------------------------------------------------
(* simulate_io and simulate_creat: wake_up is called without the mutex. *)

NoIo ==
  /\ ioq = <<>>
  /\ SupGo("io", "creat")
  /\ UNCHANGED <<schedVars, simVars, tickVars, supN, supProc, supRet, cpuVars,
                 irwlVars, lost>>

IoTick ==
  /\ ioq # <<>> /\ Head(ioq).time > 0
  /\ SupGo("io", "creat")
  /\ ioq' = [ioq EXCEPT ![1] = [pcb |-> @.pcb, time |-> @.time - 1]]
  /\ UNCHANGED <<schedVars, cpuCur, cpuState, timer, op, left, tickVars, supN,
                 supProc, supRet, cpuVars, irwlVars, lost>>

(* Variant: the request stays in the queue. *)
IoDoneKeepsRequest ==
  LET p == Head(ioq).pcb IN
  /\ ioq # <<>> /\ Head(ioq).time = 0
  /\ SupGo("io", "wakeLock")
  /\ op' = [op EXCEPT ![p] = @ + 1]
  /\ left' = [left EXCEPT ![p] = Program[p][op[p] + 1].time]
  /\ ioq' = ioq
  /\ supProc' = p
  /\ supRet' = "creat"
  /\ UNCHANGED <<schedVars, cpuCur, cpuState, timer, tickVars, supN, cpuVars,
                 irwlVars, lost>>

IoDone ==
  LET p == Head(ioq).pcb IN
  /\ ioq # <<>> /\ Head(ioq).time = 0
  /\ SupGo("io", "wakeLock")
  /\ op' = [op EXCEPT ![p] = @ + 1]
  /\ left' = [left EXCEPT ![p] = Program[p][op[p] + 1].time]
  /\ ioq' = Tail(ioq)
  /\ supProc' = p
  /\ supRet' = "creat"
  /\ UNCHANGED <<schedVars, cpuCur, cpuState, timer, tickVars, supN, cpuVars,
                 irwlVars, lost>>

Create ==
  /\ time = 0 /\ created < ProcCount
  /\ SupGo("creat", "wakeLock")
  /\ supProc' = created
  /\ supRet' = "endTick"
  /\ UNCHANGED <<schedVars, simVars, tickVars, supN, cpuVars, irwlVars, lost>>

NoCreate ==
  /\ ~(time = 0 /\ created < ProcCount)
  /\ SupGo("creat", "endTick")
  /\ UNCHANGED <<schedVars, simVars, tickVars, supN, supProc, supRet, cpuVars,
                 irwlVars, lost>>

(* simulator_time++, unlock, sleep *)
EndTick ==
  /\ SupGo("endTick", "tick")
  /\ time' = (time + 1) % CreatePeriod
  /\ UNCHANGED <<schedVars, simVars, created, terminated, supN, supProc, supRet,
                 cpuVars, irwlVars, lost>>

-----------------------------------------------------------------------------
(* wake_up, on the supervisor thread, between IRWL_WRITER_LOCK and UNLOCK *)

WakeLock ==
  /\ SupGo("wakeLock", "wakeReady")
  /\ WriterLock
  /\ UNCHANGED <<schedVars, simVars, tickVars, supN, supProc, supRet, cpuVars, lost>>

WakeReady ==
  /\ SupGo("wakeReady", "wakePush")
  /\ pstate' = [pstate EXCEPT ![supProc] = "ready"]
  /\ UNCHANGED <<queue, current, simVars, tickVars, supN, supProc, supRet, cpuVars,
                 irwlVars, lost>>

(* Variant: push_to_queue without the broadcast. *)
WakePushSilent ==
  /\ SupGo("wakePush", IF Lrtf THEN "wakeScan" ELSE "wakeUnlock")
  /\ Push(supProc)
  /\ UNCHANGED <<current, pstate, simVars, tickVars, supN, supProc, supRet,
                 cpuVars, irwlVars, lost>>

WakePush ==
  /\ SupGo("wakePush", IF Lrtf THEN "wakeScan" ELSE "wakeUnlock")
  /\ Push(supProc)
  /\ cpuPc' = WakeIdle(cpuPc)
  /\ UNCHANGED <<current, pstate, simVars, tickVars, supN, supProc, supRet,
                 handler, local, irwlVars, lost>>

(***************************************************************************)
(* The scan of current[0 .. cpu_count-1] under current_mutex.  It gives up *)
(* when a CPU is idle; otherwise it finds the CPU, the first of them, with *)
(* the least time_remaining below 10.                                      *)
(***************************************************************************)
Scanned == 0 .. ScanCount - 1

Low(i) == TimeRemaining[current[i]]

(* Variant: the comparison with 10 is not strict. *)
CandidatesUpToTen ==
  IF \E i \in Scanned : current[i] = Null THEN {}
  ELSE {i \in Scanned : Low(i) <= 10 /\
          \A j \in Scanned : Low(i) <= Low(j) /\ (Low(i) = Low(j) => i <= j)}

Candidates ==
  IF \E i \in Scanned : current[i] = Null THEN {}
  ELSE {i \in Scanned : Low(i) < 10 /\
          \A j \in Scanned : Low(i) <= Low(j) /\ (Low(i) = Low(j) => i <= j)}

(* Variant: a CPU is preempted also for a process as long as its own. *)
AsLongVictims == {i \in Candidates : Low(i) <= TimeRemaining[supProc]}

Victims == {i \in Candidates : Low(i) < TimeRemaining[supProc]}

WakeScan ==
  /\ SupGo("wakeScan", IF Victims # {} THEN "fpUnlock" ELSE "wakeUnlock")
  /\ supN' = IF Victims # {} THEN CHOOSE i \in Victims : TRUE ELSE supN
  /\ UNCHANGED <<schedVars, simVars, tickVars, supProc, supRet, cpuVars, irwlVars, lost>>

WakeUnlock ==
  /\ SupGo("wakeUnlock", "wakeReturn")
  /\ WriterUnlock
  /\ UNCHANGED <<schedVars, simVars, tickVars, supN, supProc, supRet, cpuVars, lost>>

(* Variant: processes_created counts every wake_up. *)
WakeReturnCountsAll ==
  /\ SupGo("wakeReturn", supRet)
  /\ created' = created + 1
  /\ UNCHANGED <<schedVars, simVars, time, terminated, supN, supProc, supRet,
                 cpuVars, irwlVars, lost>>

(* Back in simulate_io or simulate_creat, simulator_mutex taken again *)
WakeReturn ==
  /\ SupGo("wakeReturn", supRet)
  /\ created' = IF supRet = "endTick" THEN created + 1 ELSE created
  /\ UNCHANGED <<schedVars, simVars, time, terminated, supN, supProc, supRet,
                 cpuVars, irwlVars, lost>>

(* force_preempt(supN) *)
ForcePreemptUnlock ==
  /\ SupGo("fpUnlock", "fpCheck")
  /\ WriterUnlock
  /\ UNCHANGED <<schedVars, simVars, tickVars, supN, supProc, supRet, cpuVars, lost>>

(* Variant: the state of the CPU is not tested. *)
ForcePreemptUnchecked ==
  /\ supPc = "fpCheck"
  /\ PostEvent(supN, "preempt", "fpAwait")
  /\ UNCHANGED <<schedVars, cpuCur, timer, op, left, ioq, tickVars, supN, supProc,
                 supRet, handler, local, irwlVars>>

ForcePreemptCheck ==
  /\ supPc = "fpCheck"
  /\ IF cpuState[supN] = "running"
     THEN PostEvent(supN, "preempt", "fpAwait")
     ELSE supPc' = "fpLock" /\ UNCHANGED <<cpuState, cpuPc, lost>>
  /\ UNCHANGED <<schedVars, cpuCur, timer, op, left, ioq, tickVars, supN, supProc,
                 supRet, handler, local, irwlVars>>

ForcePreemptReacquire ==
  /\ SupGo("fpReacquire", "fpLock")
  /\ UNCHANGED <<schedVars, simVars, tickVars, supN, supProc, supRet, cpuVars,
                 irwlVars, lost>>

ForcePreemptLock ==
  /\ SupGo("fpLock", "wakeUnlock")
  /\ WriterLock
  /\ UNCHANGED <<schedVars, simVars, tickVars, supN, supProc, supRet, cpuVars, lost>>

-----------------------------------------------------------------------------
(* A CPU thread: simulator_cpu_thread, lines 228-288. *)

Top(c) ==
  /\ SimMutexFree
  /\ SignalSupervisor(c)
  /\ IF cpuCur[c] = Null
     THEN /\ CpuGo(c, "top", "idle")
          /\ cpuState' = [cpuState EXCEPT ![c] = "idle"]
          /\ handler' = [handler EXCEPT ![c] = "idle"]
     ELSE /\ CpuGo(c, "top", "running")
          /\ cpuState' = [cpuState EXCEPT ![c] = "running"]
          /\ UNCHANGED handler
  /\ UNCHANGED <<schedVars, cpuCur, timer, op, left, ioq, tickVars, supN, supProc,
                 supRet, local, irwlVars, lost>>

(* The wait returns: the loop ends unless the state still is CPU_RUNNING. *)
Woken(c) ==
  /\ SimMutexFree
  /\ cpuState[c] \in Handlers
  /\ CpuGo(c, "woken", IF cpuState[c] = "terminate" THEN "count" ELSE "wlock")
  /\ handler' = [handler EXCEPT ![c] = cpuState[c]]
  /\ UNCHANGED <<schedVars, simVars, tickVars, supVars, local, irwlVars, lost>>

Count(c) ==
  /\ SimMutexFree
  /\ CpuGo(c, "count", "wlock")
  /\ terminated' = terminated + 1
  /\ UNCHANGED <<schedVars, simVars, time, created, supVars, handler, local,
                 irwlVars, lost>>

HandlerLock(c) ==
  /\ CpuGo(c, "wlock", "body")
  /\ WriterLock
  /\ UNCHANGED <<schedVars, simVars, tickVars, supVars, handler, local, lost>>

(* preempt, yield and terminate: mark the PCB under current_mutex *)
MarkState(c, h, state, next) ==
  /\ handler[c] = h
  /\ CpuGo(c, "body", next)
  /\ local' = [local EXCEPT ![c] = current[c]]
  /\ pstate' = [pstate EXCEPT ![current[c]] = state]
  /\ UNCHANGED <<queue, current, simVars, tickVars, supVars, handler, irwlVars, lost>>

(* Variant: yield leaves the process READY. *)
YieldStaysReady(c) == MarkState(c, "yield", "ready", "pop")

Preempt(c)   == MarkState(c, "preempt", "ready", "push")
Yield(c)     == MarkState(c, "yield", "waiting", "pop")
Terminate(c) == MarkState(c, "terminate", "terminated", "pop")

PreemptPush(c) ==
  /\ cpuPc[c] = "push"
  /\ Push(local[c])
  /\ cpuPc' = WakeIdle([cpuPc EXCEPT ![c] = "pop"])
  /\ UNCHANGED <<current, pstate, simVars, tickVars, supVars, handler, local,
                 irwlVars, lost>>

(* idle: wait until the ready list has a process, then schedule *)
Idle(c) ==
  /\ CpuGo(c, "idle", IF queue = <<>> THEN "idleBlocked" ELSE "pop")
  /\ UNCHANGED <<schedVars, simVars, tickVars, supVars, handler, local, irwlVars, lost>>

-----------------------------------------------------------------------------
(* schedule and context_switch *)

Pop(c) ==
  /\ CpuGo(c, "pop", "dispatch")
  /\ \/ /\ queue = <<>>
        /\ local' = [local EXCEPT ![c] = Null]
        /\ UNCHANGED queue
     \/ \E i \in DOMAIN queue :
          /\ IsNext(i, Lrtf, TimeRemaining)
          /\ local' = [local EXCEPT ![c] = queue[i]]
          /\ queue' = RemoveAt(queue, i)
  /\ UNCHANGED <<current, pstate, simVars, tickVars, supVars, handler, irwlVars, lost>>

(* Variant: current[] is not updated. *)
DispatchForgetsCurrent(c) ==
  /\ CpuGo(c, "dispatch", "csUnlock")
  /\ pstate' = IF local[c] = Null THEN pstate
               ELSE [pstate EXCEPT ![local[c]] = "running"]
  /\ UNCHANGED <<queue, current, simVars, tickVars, supVars, handler, local,
                 irwlVars, lost>>

Dispatch(c) ==
  /\ CpuGo(c, "dispatch", "csUnlock")
  /\ pstate' = IF local[c] = Null THEN pstate
               ELSE [pstate EXCEPT ![local[c]] = "running"]
  /\ current' = [current EXCEPT ![c] = local[c]]
  /\ UNCHANGED <<queue, simVars, tickVars, supVars, handler, local, irwlVars, lost>>

(* Variant: context_switch waits for simulator_mutex with the lock held. *)
SwitchKeepsLock(c) ==
  /\ CpuGo(c, "csUnlock", "csSwitch")
  /\ UNCHANGED <<schedVars, simVars, tickVars, supVars, handler, local, irwlVars, lost>>

(* context_switch releases the writer lock, whoever called schedule *)
SwitchUnlock(c) ==
  /\ CpuGo(c, "csUnlock", "csSwitch")
  /\ WriterUnlock
  /\ UNCHANGED <<schedVars, simVars, tickVars, supVars, handler, local, lost>>

(* Variants: the time slice, or the process, is not handed over. *)
SwitchKeepsTimer(c) ==
  /\ SimMutexFree
  /\ CpuGo(c, "csSwitch", "csLock")
  /\ cpuCur' = [cpuCur EXCEPT ![c] = local[c]]
  /\ UNCHANGED <<schedVars, cpuState, timer, op, left, ioq, tickVars, supVars, handler,
                 local, irwlVars, lost>>

SwitchKeepsProcess(c) ==
  /\ SimMutexFree
  /\ CpuGo(c, "csSwitch", "csLock")
  /\ timer' = [timer EXCEPT ![c] = TimeSlice]
  /\ UNCHANGED <<schedVars, cpuCur, cpuState, op, left, ioq, tickVars, supVars, handler,
                 local, irwlVars, lost>>

Switch(c) ==
  /\ SimMutexFree
  /\ CpuGo(c, "csSwitch", "csLock")
  /\ cpuCur' = [cpuCur EXCEPT ![c] = local[c]]
  /\ timer' = [timer EXCEPT ![c] = TimeSlice]
  /\ UNCHANGED <<schedVars, cpuState, op, left, ioq, tickVars, supVars, handler,
                 local, irwlVars, lost>>

SwitchLock(c) ==
  /\ CpuGo(c, "csLock", IF handler[c] = "idle" THEN "top" ELSE "wunlock")
  /\ WriterLock
  /\ UNCHANGED <<schedVars, simVars, tickVars, supVars, handler, local, lost>>

(* Variant: the writer lock is not released. *)
HandlerKeepsLock(c) ==
  /\ CpuGo(c, "wunlock", "top")
  /\ UNCHANGED <<schedVars, simVars, tickVars, supVars, handler, local, irwlVars, lost>>

HandlerUnlock(c) ==
  /\ CpuGo(c, "wunlock", "top")
  /\ WriterUnlock
  /\ UNCHANGED <<schedVars, simVars, tickVars, supVars, handler, local, lost>>

-----------------------------------------------------------------------------
SupStep ==
  \/ BeginTick \/ LockGantt \/ UnlockGantt \/ SkipCpu \/ EndCpus
  \/ SimulateProcess \/ Reacquire \/ NoIo \/ IoTick \/ IoDone \/ Create
  \/ NoCreate \/ EndTick \/ WakeLock \/ WakeReady \/ WakePush \/ WakeScan
  \/ WakeUnlock \/ WakeReturn \/ ForcePreemptUnlock \/ ForcePreemptCheck
  \/ ForcePreemptReacquire \/ ForcePreemptLock

CpuStep(c) ==
  /\ supPc # "exit"     \* exit(0) ends every thread
  /\ \/ Top(c) \/ Woken(c) \/ Count(c) \/ HandlerLock(c) \/ Preempt(c)
     \/ Yield(c) \/ Terminate(c) \/ PreemptPush(c) \/ Idle(c) \/ Pop(c)
     \/ Dispatch(c) \/ SwitchUnlock(c) \/ Switch(c) \/ SwitchLock(c)
     \/ HandlerUnlock(c)

Exited == supPc = "exit" /\ UNCHANGED vars

Next == SupStep \/ (\E c \in Cpus : CpuStep(c)) \/ Exited

(***************************************************************************)
(* Every thread that can run infinitely often does.  Strong fairness is    *)
(* what a pthread mutex gives in practice here: the supervisor gives up    *)
(* simulator_mutex and sleeps between ticks, and no other thread keeps a   *)
(* mutex from one step to the next.                                        *)
(***************************************************************************)
Fairness == SF_vars(SupStep) /\ \A c \in Cpus : SF_vars(CpuStep(c))

Spec     == Init /\ [][Next]_vars
FairSpec == Spec /\ Fairness

=============================================================================
