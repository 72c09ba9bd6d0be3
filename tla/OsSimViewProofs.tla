--------------------------- MODULE OsSimViewProofs --------------------------
(***************************************************************************)
(* The steps of the simulator's threads, seen as steps of the abstract     *)
(* scheduler.                                                              *)
(*                                                                         *)
(* The threads' view of the processes (who is unborn, waking up, ready, on *)
(* a CPU or waiting for I/O) is the substitution of Sched.  In a state of  *)
(* SchedulerInv a step that loses no event is a step of CpuScheduler on    *)
(* that view, or none (SchedulerStep), so it preserves OnePlace, which     *)
(* CpuSchedulerProofs proves of CpuScheduler (OnePlaceStep).               *)
(***************************************************************************)
EXTENDS OsSimProofs, FiniteSetTheorems

Abstract == INSTANCE CpuSchedulerProofs WITH
  unborn  <- {p \in Procs : Unborn(p)},
  waking  <- {p \in Procs : InWakeUp(p)},
  ready   <- queue,
  running <- [c \in Cpus |-> Bound(c)],
  quantum <- [c \in Cpus |-> Slice(c)],
  io      <- ioq

-----------------------------------------------------------------------------
(***************************************************************************)
(* Events and handlers.                                                    *)
(***************************************************************************)
EventOf(c) ==
  /\ cpuPc[c] \in Handling => cpuState[c] \in Events
  /\ cpuPc[c] \in Handling \ {"woken"} => handler[c] = cpuState[c]
  /\ cpuPc[c] = "count" => handler[c] = "terminate"
  /\ cpuPc[c] = "push" => handler[c] = "preempt" /\ local[c] = cpuCur[c]
  /\ cpuPc[c] = "wunlock" => handler[c] # "idle"
  /\ cpuPc[c] \in {"pop", "dispatch", "csUnlock", "csSwitch"} /\ handler[c] = "idle"
       => cpuCur[c] = Null

LEMMA EventInvStep ==
  ASSUME IInv, EventInv, [Next]_vars
  PROVE  EventInv'
<1>0. /\ SchedType /\ SimType /\ CpuType /\ OneEvent
      /\ \A c \in Cpus : EventOf(c) /\ CurrentOf(c)
  BY DEF IInv, TypeOK, EventInv, EventOf, CurrentInv, CurrentOf
<1> SUFFICES ASSUME NEW d \in Cpus PROVE EventOf(d)'
  BY OneEventStep DEF EventInv, EventOf
<1> USE DEF EventOf, Handling, Events
<1>1. CASE UNCHANGED <<current, local, cpuCur, handler, cpuPc, cpuState>>
  BY <1>0, <1>1
<1>2. CASE SimulateProcess
  <2>1. ~InEvent(d)
    BY <1>0, <1>2, SimulateEffect DEF OneEvent
  <2> QED
    BY <1>0, <1>1, <1>2, <2>1, SimulateEffect, PostEventEffect DEF InEvent
<1>3. CASE ForcePreemptCheck
  <2>1. ~InEvent(d)
    BY <1>0, <1>3, ForceEffect DEF OneEvent
  <2> QED
    BY <1>0, <1>1, <1>3, <2>1, ForceEffect, PostEventEffect DEF InEvent
<1>4. CASE WakePush
  BY <1>0, <1>4 DEF WakePush, WakeIdle, simVars
<1>5. ASSUME NEW c \in Cpus, CpuStep(c)
      PROVE  EventOf(d)'
  <2> USE <1>0 DEF SchedType, SimType, CpuType, CpuGo
  <2>1. CASE Top(c)
    <3>1. CASE d = c
      BY <2>1, <3>1 DEF Top
    <3>2. CASE d # c
      <4>1. /\ cpuPc'[d] = cpuPc[d] /\ cpuState'[d] = cpuState[d] /\ handler'[d] = handler[d]
            /\ UNCHANGED <<local, cpuCur>>
        BY <2>1, <3>2 DEF Top
      <4> QED
        BY <4>1
    <3> QED
      BY <3>1, <3>2
  <2>2. CASE Woken(c) \/ Count(c) \/ HandlerLock(c)
    BY <2>2 DEF Woken, Count, HandlerLock, schedVars, simVars, Handlers
  <2>3. CASE Preempt(c) \/ Yield(c) \/ Terminate(c)
    <3>1. /\ cpuPc[c] = "body" /\ UNCHANGED <<current, cpuCur, handler, cpuState>>
          /\ \/ cpuPc' = [cpuPc EXCEPT ![c] = "push"] /\ handler[c] = "preempt"
             \/ cpuPc' = [cpuPc EXCEPT ![c] = "pop"]
          /\ local' = [local EXCEPT ![c] = current[c]]
      BY <2>3 DEF Preempt, Yield, Terminate, MarkState, simVars
    <3>2. current[c] = cpuCur[c] /\ handler[c] # "idle"
      BY <3>1 DEF CurrentOf
    <3> QED
      BY <3>1, <3>2
  <2>4. CASE PreemptPush(c)
    BY <2>4 DEF PreemptPush, WakeIdle, simVars
  <2>5. CASE Idle(c) \/ Pop(c)
    BY <2>5 DEF Idle, Pop, simVars, schedVars, CurrentOf
  <2>6. CASE Dispatch(c) \/ SwitchUnlock(c) \/ SwitchLock(c) \/ HandlerUnlock(c)
    BY <2>6 DEF Dispatch, SwitchUnlock, SwitchLock, HandlerUnlock, simVars, schedVars
  <2>7. CASE Switch(c)
    BY <2>7 DEF Switch, schedVars
  <2> QED
    BY <1>5, <2>1, <2>2, <2>3, <2>4, <2>5, <2>6, <2>7 DEF CpuStep
<1> QED
  BY <1>1, <1>2, <1>3, <1>4, <1>5, CpuViewFrame

-----------------------------------------------------------------------------
(***************************************************************************)
(* The supervisor's part of the view: the unborn and the waking.           *)
(***************************************************************************)
LEMMA CreateInvStep ==
  ASSUME IInv, CreateInv, [Next]_vars
  PROVE  CreateInv'
<1> USE DEF CreateInv, Creating, SupGo, tickVars
<1>0. CreateInv /\ SupType
  BY DEF IInv, TypeOK
<1>1. CASE UNCHANGED <<supVars, created>>
  BY <1>0, <1>1 DEF supVars
<1>2. ASSUME NEW c \in Cpus, Top(c)
      PROVE  CreateInv'
  BY <1>0, <1>2 DEF Top, SignalSupervisor
<1>3. CASE BeginTick \/ LockGantt \/ UnlockGantt \/ EndCpus \/ SkipCpu \/ Reacquire
           \/ NoIo \/ IoTick \/ NoCreate \/ EndTick
  BY <1>0, <1>3 DEF BeginTick, LockGantt, UnlockGantt, EndCpus, SkipCpu, Reacquire,
     NextCpu, NoIo, IoTick, NoCreate, EndTick
<1>4. CASE WakeLock \/ WakeReady \/ WakePush \/ WakeScan \/ WakeUnlock
           \/ ForcePreemptUnlock \/ ForcePreemptReacquire \/ ForcePreemptLock
  BY <1>0, <1>4 DEF WakeLock, WakeReady, WakePush, WakeScan, WakeUnlock,
     ForcePreemptUnlock, ForcePreemptReacquire, ForcePreemptLock
<1>5. CASE SimulateProcess
  BY <1>0, <1>5, SimulateEffect DEF SimulateProcess
<1>6. CASE IoDone \/ Create
  BY <1>0, <1>6 DEF IoDone, Create
<1>7. CASE ForcePreemptCheck
  BY <1>0, <1>7 DEF ForcePreemptCheck, PostEvent
<1>8. CASE WakeReturn
  BY <1>0, <1>8 DEF WakeReturn, SupType
<1>9. ASSUME NEW c \in Cpus, Count(c)
      PROVE  CreateInv'
  BY <1>0, <1>9 DEF Count, supVars
<1>10. \/ UNCHANGED <<supVars, created>> \/ SupStep
       \/ \E c \in Cpus : Top(c) \/ Count(c)
  BY SupFrame, TickFrame DEF SupStep
<1> QED
  BY <1>1, <1>2, <1>3, <1>4, <1>5, <1>6, <1>7, <1>8, <1>9, <1>10 DEF SupStep

LEMMA OriginKept ==
  ASSUME IInv, CreateInv, [Next]_vars, ~IoDone, ~Create, ~WakePush, NEW p \in Procs
  PROVE  (Unborn(p)' <=> Unborn(p)) /\ (InWakeUp(p)' <=> InWakeUp(p))
<1> USE DEF Unborn, Creating, InWakeUp, SupGo, tickVars
<1>0. SupType /\ TickType /\ p \in Nat
  BY ConstantFacts DEF IInv, TypeOK
<1>1. CASE UNCHANGED <<supVars, created>>
  BY <1>1 DEF supVars
<1>2. ASSUME NEW c \in Cpus, Top(c)
      PROVE  (Unborn(p)' <=> Unborn(p)) /\ (InWakeUp(p)' <=> InWakeUp(p))
  BY <1>2 DEF Top, SignalSupervisor
<1>3. CASE BeginTick \/ LockGantt \/ UnlockGantt \/ EndCpus \/ SkipCpu \/ Reacquire
           \/ NoIo \/ IoTick \/ NoCreate \/ EndTick
  BY <1>3, <1>0 DEF BeginTick, LockGantt, UnlockGantt, EndCpus, SkipCpu, Reacquire,
     NextCpu, NoIo, IoTick, NoCreate, EndTick, SupType
<1>4. CASE WakeLock \/ WakeReady \/ WakeScan \/ WakeUnlock
           \/ ForcePreemptUnlock \/ ForcePreemptReacquire \/ ForcePreemptLock
  BY <1>4 DEF WakeLock, WakeReady, WakeScan, WakeUnlock,
     ForcePreemptUnlock, ForcePreemptReacquire, ForcePreemptLock
<1>5. CASE SimulateProcess
  BY <1>5, SimulateEffect DEF SimulateProcess
<1>6. CASE ForcePreemptCheck
  BY <1>6 DEF ForcePreemptCheck, PostEvent
<1>7. CASE WakeReturn
  BY <1>0, <1>7 DEF WakeReturn, SupType, TickType, CreateInv
<1>8. ASSUME NEW c \in Cpus, Count(c)
      PROVE  (Unborn(p)' <=> Unborn(p)) /\ (InWakeUp(p)' <=> InWakeUp(p))
  BY <1>8 DEF Count, supVars
<1>9. \/ UNCHANGED <<supVars, created>> \/ SupStep
      \/ \E c \in Cpus : Top(c) \/ Count(c)
  BY SupFrame, TickFrame DEF SupStep
<1> QED
  BY <1>1, <1>2, <1>3, <1>4, <1>5, <1>6, <1>7, <1>8, <1>9 DEF SupStep

-----------------------------------------------------------------------------
(***************************************************************************)
(* The CPUs' part of the view: the process of each CPU and its slice.      *)
(***************************************************************************)
Choosing == {"dispatch", "csUnlock", "csSwitch"}

LEMMA BoundType ==
  ASSUME IInv, NEW c \in Cpus
  PROVE  Bound(c) \in ProcOrNull /\ Slice(c) \in Int
  BY PolicyAssumption, ConstantFacts DEF IInv, TypeOK, CpuType, SimType, Bound, Slice

(* What the supervisor simulates is what the CPU answers for. *)
LEMMA SimulatedBound ==
  ASSUME IInv, EventInv, supPc \notin {"await", "fpAwait"}, NEW c \in Cpus
  PROVE  /\ ~InEvent(c) /\ cpuPc[c] \notin Handling
         /\ cpuCur[c] # Null => Bound(c) = cpuCur[c] /\ cpuPc[c] \notin Choosing
         /\ cpuPc[c] \notin Choosing => Bound(c) = cpuCur[c]
<1>1. ~InEvent(c)
  BY DEF EventInv, OneEvent
<1>2. /\ EventOf(c) /\ CurrentOf(c) /\ cpuPc[c] \in CpuLabels
  BY DEF EventInv, EventOf, IInv, CurrentInv, CurrentOf, TypeOK, CpuType
<1> QED
  BY <1>1, <1>2 DEF EventOf, CurrentOf, Bound, InEvent, Handling, CpuLabels, Choosing

LEMMA CpuBound ==
  ASSUME IInv, EventInv, NEW c \in Cpus, CpuStep(c), ~Pop(c), ~PreemptPush(c), NEW d \in Cpus
  PROVE  Bound(d)' = Bound(d) /\ Slice(d)' = Slice(d)
<1>0. /\ SchedType /\ SimType /\ CpuType
      /\ EventOf(c) /\ CurrentOf(c)
  BY DEF IInv, TypeOK, EventInv, EventOf, CurrentInv, CurrentOf
<1>1. CASE d # c
  <2>1. /\ cpuPc'[d] = cpuPc[d] /\ cpuState'[d] = cpuState[d] /\ local'[d] = local[d]
        /\ cpuCur'[d] = cpuCur[d] /\ timer'[d] = timer[d]
    BY <1>0, <1>1 DEF CpuStep, SchedType, SimType, CpuType, CpuGo, Top, Woken, Count,
       HandlerLock, Preempt, Yield, Terminate, MarkState, Idle, Dispatch, SwitchUnlock,
       Switch, SwitchLock, HandlerUnlock, simVars
  <2> QED
    BY <2>1 DEF Bound, Slice
<1>2. CASE d = c
  <2> USE <1>0, <1>2 DEF Bound, Slice, Handling, SimType, CpuType, CpuGo
  <2>1. CASE Top(c)
    BY <2>1 DEF Top
  <2>2. CASE Woken(c) \/ Count(c) \/ HandlerLock(c) \/ Idle(c)
    BY <2>2 DEF Woken, Count, HandlerLock, Idle, simVars
  <2>3. CASE Preempt(c)
    BY <2>3 DEF Preempt, MarkState, simVars, EventOf
  <2>4. CASE Yield(c) \/ Terminate(c)
    <3>1. /\ cpuPc[c] = "body" /\ cpuPc'[c] = "pop" /\ cpuState[c] # "preempt"
      BY <2>4 DEF Yield, Terminate, MarkState, EventOf
    <3> QED
      BY <3>1
  <2>5. CASE Dispatch(c) \/ SwitchUnlock(c)
    BY <2>5 DEF Dispatch, SwitchUnlock, simVars
  <2>6. CASE Switch(c)
    BY <2>6 DEF Switch
  <2>7. CASE SwitchLock(c) \/ HandlerUnlock(c)
    BY <2>7 DEF SwitchLock, HandlerUnlock, simVars
  <2> QED
    BY <2>1, <2>2, <2>3, <2>4, <2>5, <2>6, <2>7 DEF CpuStep
<1> QED
  BY <1>1, <1>2

LEMMA PopBound ==
  ASSUME IInv, NEW c \in Cpus, Pop(c), NEW d \in Cpus
  PROVE  /\ Bound(c) = Null /\ Slice(d)' = Slice(d)
         /\ Bound(d)' = IF d = c THEN local'[c] ELSE Bound(d)
<1>0. SimType /\ CpuType
  BY DEF IInv, TypeOK
<1>1. /\ cpuPc[c] = "pop" /\ cpuPc' = [cpuPc EXCEPT ![c] = "dispatch"]
      /\ \E p : local' = [local EXCEPT ![c] = p]
      /\ UNCHANGED <<cpuCur, cpuState, timer>>
  BY DEF Pop, CpuGo, simVars
<1> QED
  BY <1>0, <1>1 DEF CpuType, SimType, Bound, Slice, Handling

LEMMA PushBound ==
  ASSUME IInv, EventInv, NEW c \in Cpus, PreemptPush(c), NEW d \in Cpus
  PROVE  /\ Bound(c) = local[c] /\ local[c] \in Procs
         /\ Slice(d)' = IF d = c THEN TimeSlice ELSE Slice(d)
         /\ Bound(d)' = IF d = c THEN Null ELSE Bound(d)
<1>0. SimType /\ CpuType /\ EventOf(c)
  BY DEF IInv, TypeOK, EventInv, EventOf
<1>1. /\ cpuPc[c] = "push" /\ cpuPc' = WakeIdle([cpuPc EXCEPT ![c] = "pop"])
      /\ UNCHANGED <<cpuCur, cpuState, timer, local>>
  BY DEF PreemptPush, simVars
<1>2. local[c] \in Procs
  BY <1>1, NotNull
<1> QED
  BY <1>0, <1>1, <1>2 DEF CpuType, SimType, Bound, Slice, Handling, WakeIdle, EventOf

(* Only an event, or a tick of the timer, shows at a step of the supervisor. *)
LEMMA SupBound ==
  ASSUME IInv, EventInv, SupStep, ~SimulateProcess, ~lost', NEW d \in Cpus
  PROVE  Bound(d)' = Bound(d) /\ Slice(d)' = Slice(d)
<1>0. SimType /\ CpuType /\ CurrentOf(d)
  BY DEF IInv, TypeOK, CurrentInv, CurrentOf
<1>1. CASE ForcePreemptCheck
  <2>1. UNCHANGED <<local, cpuCur, timer>>
    BY <1>1 DEF ForcePreemptCheck
  <2> QED
    BY <1>0, <1>1, <2>1, ForceEffect, PostEventEffect
       DEF PostEvent, Bound, Slice, Handling, CurrentOf
<1>2. CASE ~ForcePreemptCheck
  <2>1. /\ UNCHANGED <<local, cpuCur, timer, cpuState>>
        /\ cpuPc'[d] = cpuPc[d] \/ (cpuPc[d] = "idleBlocked" /\ cpuPc'[d] = "idle")
    <3>1. cpuPc'[d] = cpuPc[d] \/ (cpuPc[d] = "idleBlocked" /\ cpuPc'[d] = "idle")
      BY <1>2, QuietSupStep
    <3>2. UNCHANGED <<local, cpuCur, timer, cpuState>>
      BY <1>2 DEF SupStep, BeginTick, LockGantt, UnlockGantt, SkipCpu, EndCpus, Reacquire,
         NoIo, IoTick, IoDone, Create, NoCreate, EndTick, WakeLock, WakeReady, WakePush,
         WakeScan, WakeUnlock, WakeReturn, ForcePreemptUnlock, ForcePreemptReacquire,
         ForcePreemptLock, simVars, cpuVars
    <3> QED
      BY <3>1, <3>2
  <2> QED
    BY <1>0, <2>1 DEF Bound, Slice, Handling
<1> QED
  BY <1>1, <1>2

LEMMA SimulateBound ==
  ASSUME IInv, EventInv, SimulateProcess, ~lost'
  PROVE  /\ supN \in Cpus /\ Bound(supN) = cpuCur[supN] /\ cpuCur[supN] \in Procs
         /\ cpuPc[supN] \notin Choosing
         /\ \/ RunTick(supN, cpuCur[supN])
               /\ \A d \in Cpus :
                    /\ Bound(d)' = Bound(d)
                    /\ Slice(d)' = IF d = supN THEN timer'[d] ELSE Slice(d)
            \/ EndBurst(supN, cpuCur[supN])
               /\ \A d \in Cpus :
                    /\ Bound(d)' = IF d = supN THEN Null ELSE Bound(d)
                    /\ Slice(d)' = IF d = supN THEN TimeSlice ELSE Slice(d)
            \/ Misplaced(cpuCur[supN])
               /\ \A d \in Cpus : Bound(d)' = Bound(d) /\ Slice(d)' = Slice(d)
<1> DEFINE n == supN
           p == cpuCur[supN]
<1>0. /\ SimType /\ CpuType /\ n \in Cpus /\ p \in Procs /\ p # Null
      /\ UNCHANGED <<local, cpuCur>>
  BY Simulated DEF IInv, TypeOK, SimulateProcess
<1>1. Bound(n) = p /\ cpuPc[n] \notin Choosing /\ cpuPc[n] \notin Handling
  BY <1>0, SimulatedBound DEF SimulateProcess
<1>2. CASE RunTick(n, p)
  <2>1. timer' = [timer EXCEPT ![n] = IF @ > 0 THEN @ - 1 ELSE @]
    BY <1>2 DEF RunTick
  <2>2. CASE UNCHANGED <<cpuState, cpuPc>>
    BY <1>0, <1>1, <1>2, <2>1, <2>2 DEF Bound, Slice, Handling, Choosing, SimType
  <2>3. CASE PostEvent(n, "preempt", "await")
    <3>1. cpuPc[n] = "running" /\ cpuPc'[n] = "woken" /\ cpuState'[n] = "preempt"
      BY <1>0, <2>3 DEF PostEvent, CpuType, SimType
    <3>2. \A d \in Cpus \ {n} : /\ cpuPc'[d] = cpuPc[d] /\ cpuState'[d] = cpuState[d]
                                /\ timer'[d] = timer[d]
      BY <1>0, <2>1, <2>3 DEF PostEvent, CpuType, SimType
    <3> QED
      BY <1>0, <1>1, <1>2, <3>1, <3>2 DEF Bound, Slice, Handling, Choosing
  <2> QED
    BY <1>2, <2>2, <2>3 DEF RunTick
<1>3. CASE EndBurst(n, p)
  <2>1. PICK event \in {"yield", "terminate"} : PostEvent(n, event, "await")
    BY <1>3 DEF EndBurst
  <2>2. cpuPc[n] = "running" /\ cpuPc'[n] = "woken" /\ cpuState'[n] # "preempt"
    BY <1>0, <2>1 DEF PostEvent, CpuType, SimType
  <2>3. \A d \in Cpus \ {n} : /\ cpuPc'[d] = cpuPc[d] /\ cpuState'[d] = cpuState[d]
                              /\ timer'[d] = timer[d]
    BY <1>0, <1>3, <2>1 DEF EndBurst, PostEvent, CpuType, SimType
  <2> QED
    BY <1>0, <1>1, <1>3, <2>2, <2>3 DEF Bound, Slice, Handling, Choosing
<1>4. CASE Misplaced(p)
  BY <1>0, <1>1, <1>4 DEF Misplaced, Bound, Slice, Handling
<1> QED
  BY <1>0, <1>1, <1>2, <1>3, <1>4 DEF SimulateProcess

-----------------------------------------------------------------------------
(***************************************************************************)
(* The steps of the threads are steps of the abstract scheduler.           *)
(***************************************************************************)
LEMMA ProgramsAlternate == Sched!Alternating
<1>1. Null \notin Procs /\ TimeSlice \in Int
  BY ConstantFacts, PolicyAssumption
<1>2. ASSUME NEW p \in Procs
      PROVE  /\ 1 \in DOMAIN Program[p] /\ Program[p][1].type = "cpu"
             /\ \A i \in DOMAIN Program[p] :
                  /\ i \in Nat \ {0} /\ Program[p][i].time \in Nat
                  /\ Program[p][i].type \in {"cpu", "io"} => i + 1 \in DOMAIN Program[p]
                  /\ Program[p][i].type = "io" => Program[p][i + 1].type = "cpu"
  <2> DEFINE prog == Program[p]
  <2>1. /\ WellFormed(prog) /\ prog \in Seq([type : OpTypes, time : Nat])
        /\ DOMAIN prog = 1 .. Len(prog) /\ Len(prog) \in Nat /\ Len(prog) >= 2
    <3>1. WellFormed(prog)
      BY ProgramAssumption
    <3>2. prog \in Seq([type : OpTypes, time : Nat]) /\ Len(prog) >= 2
      BY <3>1 DEF WellFormed
    <3> QED
      BY <3>1, <3>2
  <2>2. 1 \in DOMAIN prog /\ prog[1].type = "cpu"
    BY <2>1 DEF WellFormed
  <2>3. ASSUME NEW i \in DOMAIN prog
        PROVE  /\ i \in Nat \ {0} /\ prog[i].time \in Nat
               /\ prog[i].type \in {"cpu", "io"} => i + 1 \in DOMAIN prog
               /\ prog[i].type = "io" => prog[i + 1].type = "cpu"
    <3>1. i \in Nat \ {0} /\ prog[i].time \in Nat /\ i \in 1 .. Len(prog)
      BY <2>1, ProgramFacts
    <3>2. prog[i].type # "terminate" => i + 1 \in DOMAIN prog /\ i < Len(prog)
      BY <2>1, <3>1, ProgramFacts
    <3>3. prog[i].type = "io" => prog[i + 1].type = "cpu"
      BY <2>1, <3>1, <3>2 DEF WellFormed
    <3> QED
      BY <3>1, <3>2, <3>3
  <2> QED
    BY <2>2, <2>3
<1> QED
  BY <1>1, <1>2 DEF Sched!Alternating

LEMMA RequestOf ==
  ASSUME IInv, NEW i \in DOMAIN ioq
  PROVE  /\ ioq[i] \in [pcb : Procs, time : Nat]
         /\ ioq[i].pcb \in Procs /\ ioq[i].time \in Nat
<1>1. ioq \in Seq([pcb : Procs, time : Nat])
  BY DEF IInv, TypeOK, SimType
<1>2. ioq[i] \in [pcb : Procs, time : Nat]
  BY <1>1, SeqElement
<1> QED
  BY <1>2

LEMMA ViewTyped ==
  ASSUME IInv
  PROVE  Sched!TypeOK /\ Sched!OpsInPlace
<1>1. Sched!TypeOK
  BY BoundType DEF Sched!TypeOK, IInv, TypeOK, SchedType, SimType, ProcOrNull
<1>2. Sched!OpsInPlace
  BY RequestOf DEF Sched!OpsInPlace, Sched!Waiting, IInv, PcInv, IoInv, OpType
<1> QED
  BY <1>1, <1>2

LEMMA ViewKept ==
  ASSUME \A p \in Procs : (Unborn(p)' <=> Unborn(p)) /\ (InWakeUp(p)' <=> InWakeUp(p)),
         \A c \in Cpus : Bound(c)' = Bound(c) /\ Slice(c)' = Slice(c),
         UNCHANGED <<queue, ioq, op, left>>
  PROVE  UNCHANGED Sched!vars
<1>1. {p \in Procs : Unborn(p)}' = {p \in Procs : Unborn(p)}
  OBVIOUS
<1>2. {p \in Procs : InWakeUp(p)}' = {p \in Procs : InWakeUp(p)}
  OBVIOUS
<1>3. [c \in Cpus |-> Bound(c)]' = [c \in Cpus |-> Bound(c)]
  OBVIOUS
<1>4. [c \in Cpus |-> Slice(c)]' = [c \in Cpus |-> Slice(c)]
  OBVIOUS
<1> QED
  BY <1>1, <1>2, <1>3, <1>4 DEF Sched!vars

(* OnePlace, for one process. *)
LEMMA OnlyPlace ==
  ASSUME Sched!OnePlace, NEW p \in Procs
  PROVE  /\ Unborn(p) => ~InWakeUp(p) /\ p \notin ToSet(queue) /\ ~Done(p)
         /\ InWakeUp(p) => p \notin ToSet(queue) /\ ~Done(p)
         /\ \A c \in Cpus : Bound(c) = p =>
              /\ ~Unborn(p) /\ ~InWakeUp(p) /\ p \notin ToSet(queue) /\ ~Done(p)
              /\ \A d \in Cpus : Bound(d) = p => d = c
         /\ \A i \in DOMAIN ioq : ioq[i].pcb = p =>
              /\ ~Unborn(p) /\ ~InWakeUp(p) /\ p \notin ToSet(queue) /\ ~Done(p)
              /\ \A c \in Cpus : Bound(c) # p
         /\ p \in ToSet(queue) => ~Done(p)
         /\ \/ Unborn(p) \/ InWakeUp(p) \/ p \in ToSet(queue) \/ Done(p)
            \/ \E c \in Cpus : Bound(c) = p
            \/ \E i \in DOMAIN ioq : ioq[i].pcb = p
<1>1. p # Null
  BY ConstantFacts
<1>2. p \in Sched!Taken <=> \E c \in Cpus : Bound(c) = p
  BY <1>1 DEF Sched!Taken
<1>3. p \in Sched!Waiting <=> \E i \in DOMAIN ioq : ioq[i].pcb = p
  BY DEF Sched!Waiting
<1>4. p \in Sched!Done <=> Done(p)
  BY DEF Sched!Done, Done, OpType
<1> DEFINE B(b) == IF b THEN 1 ELSE 0
<1>5. B(Unborn(p)) + B(InWakeUp(p)) + B(p \in ToSet(queue)) + B(p \in Sched!Taken)
        + B(p \in Sched!Waiting) + B(p \in Sched!Done) = 1
  BY DEF Sched!OnePlace, Sched!One, Sched!ToSet, ToSet
<1>6. \A c, d \in Cpus : Bound(c) = p /\ Bound(d) = p => c = d
  BY <1>1 DEF Sched!OnePlace
<1> QED
  BY <1>2, <1>3, <1>4, <1>5, <1>6

LEMMA LostStays ==
  ASSUME [Next]_vars, ~lost'
  PROVE  ~lost
<1>1. CASE UNCHANGED lost
  BY <1>1
<1>2. CASE SimulateProcess
  BY <1>2 DEF SimulateProcess, RunTick, EndBurst, Misplaced, PostEvent
<1>3. CASE ForcePreemptCheck
  BY <1>3 DEF ForcePreemptCheck, PostEvent
<1>4. UNCHANGED lost \/ SimulateProcess \/ ForcePreemptCheck
  BY DEF Next, vars, SupStep, CpuStep, Exited, BeginTick, LockGantt, UnlockGantt,
     SkipCpu, EndCpus, Reacquire, NoIo, IoTick, IoDone, Create,
     NoCreate, EndTick, WakeLock, WakeReady, WakePush, WakeScan, WakeUnlock, WakeReturn,
     ForcePreemptUnlock, ForcePreemptReacquire, ForcePreemptLock,
     Top, Woken, Count, HandlerLock, MarkState, Preempt, Yield, Terminate, PreemptPush,
     Idle, Pop, Dispatch, SwitchUnlock, Switch, SwitchLock, HandlerUnlock
<1> QED
  BY <1>1, <1>2, <1>3, <1>4

(***************************************************************************)
(* What a step of a CPU thread other than a pop or a push leaves alone.    *)
(***************************************************************************)
LEMMA CpuKept ==
  ASSUME IInv, CreateInv, EventInv, NEW c \in Cpus, CpuStep(c)
  PROVE  /\ UNCHANGED <<ioq, op, left>>
         /\ Pop(c) \/ PreemptPush(c) \/ UNCHANGED queue
         /\ \A p \in Procs : (Unborn(p)' <=> Unborn(p)) /\ (InWakeUp(p)' <=> InWakeUp(p))
<1>1. UNCHANGED <<ioq, op, left>> /\ (Pop(c) \/ PreemptPush(c) \/ UNCHANGED queue)
  BY DEF CpuStep, Top, Woken, Count, HandlerLock, MarkState, Preempt, Yield, Terminate,
     PreemptPush, Idle, Pop, Dispatch, SwitchUnlock, Switch, SwitchLock, HandlerUnlock,
     simVars, schedVars
<1>2. ~IoDone /\ ~Create /\ ~WakePush
  <2>1. supPc' = supPc \/ supPc' \in {"reacquire", "fpReacquire"}
    BY DEF CpuStep, Top, SignalSupervisor, Woken, Count, HandlerLock, MarkState, Preempt,
       Yield, Terminate, PreemptPush, Idle, Pop, Dispatch, SwitchUnlock, Switch, SwitchLock,
       HandlerUnlock, supVars
  <2>2. IoDone \/ Create \/ WakePush =>
          supPc \in {"io", "creat", "wakePush"} /\ supPc' \in {"wakeLock", "wakeScan", "wakeUnlock"}
    BY DEF IoDone, Create, WakePush, SupGo
  <2> QED
    BY <2>1, <2>2
<1>3. [Next]_vars
  BY DEF Next
<1> QED
  BY <1>1, <1>2, <1>3, OriginKept

LEMMA SupKept ==
  ASSUME IInv, EventInv, CreateInv, SupStep, ~lost', ~SimulateProcess, ~IoDone, ~Create,
         ~WakePush, ~IoTick
  PROVE  UNCHANGED Sched!vars
<1>1. UNCHANGED <<queue, ioq, op, left>>
  BY DEF SupStep, BeginTick, LockGantt, UnlockGantt, SkipCpu, EndCpus, Reacquire,
     NoIo, NoCreate, EndTick, WakeLock, WakeReady, WakeScan, WakeUnlock, WakeReturn,
     ForcePreemptUnlock, ForcePreemptCheck, ForcePreemptReacquire, ForcePreemptLock,
     schedVars, simVars
<1>2. [Next]_vars
  BY DEF Next
<1> QED
  BY <1>1, <1>2, OriginKept, SupBound, ViewKept

(***************************************************************************)
(* simulate_cpus, simulate_io, simulate_creat and wake_up's push_to_queue. *)
(***************************************************************************)
LEMMA RunStep ==
  ASSUME SchedulerInv, SimulateProcess, ~lost'
  PROVE  Sched!Next \/ UNCHANGED Sched!vars
<1> DEFINE n == supN
           p == cpuCur[supN]
<1>0. IInv /\ EventInv /\ CreateInv /\ ~lost /\ TimerInv /\ SimType /\ [Next]_vars
  BY LostStays DEF SchedulerInv, IInv, TypeOK, Next, SupStep
<1>1. /\ n \in Cpus /\ Bound(n) = p /\ p \in Procs /\ p # Null
      /\ cpuPc[n] \notin Choosing /\ cpuPc[n] \notin Handling
      /\ UNCHANGED queue
  BY <1>0, SimulateBound, SimulatedBound, ConstantFacts DEF SimulateProcess, schedVars
<1>2. \A q \in Procs : (Unborn(q)' <=> Unborn(q)) /\ (InWakeUp(q)' <=> InWakeUp(q))
  <2>1. ~IoDone /\ ~Create /\ ~WakePush
    BY DEF SimulateProcess, IoDone, Create, WakePush, SupGo
  <2> QED
    BY <1>0, <2>1, OriginKept
<1>3. UNCHANGED <<{q \in Procs : Unborn(q)}, {q \in Procs : InWakeUp(q)}>>
  BY <1>2
<1>4. CASE RunTick(n, p) /\ \A d \in Cpus :
                              /\ Bound(d)' = Bound(d)
                              /\ Slice(d)' = IF d = n THEN timer'[d] ELSE Slice(d)
  <2>1. /\ OpType(p) = "cpu" /\ left[p] > 0
        /\ left' = [left EXCEPT ![p] = @ - 1]
        /\ timer' = [timer EXCEPT ![n] = IF @ > 0 THEN @ - 1 ELSE @]
        /\ UNCHANGED <<op, ioq>>
    BY <1>4 DEF RunTick
  <2>2. Slice(n) = timer[n]
    BY <1>1 DEF Slice, Choosing
  <2>3. IF TimeSlice > 0 THEN timer[n] > 0 ELSE timer[n] = TimeSlice
    BY <1>0, <1>1, PolicyAssumption DEF TimerInv, Choosing
  <2>4. timer'[n] = IF TimeSlice > 0 THEN Slice(n) - 1 ELSE Slice(n)
    BY <1>0, <1>1, <2>1, <2>2, <2>3, PolicyAssumption DEF SimType
  <2>5. [d \in Cpus |-> Slice(d)]' =
          [[d \in Cpus |-> Slice(d)] EXCEPT ![n] = IF TimeSlice > 0 THEN @ - 1 ELSE @]
    BY <1>1, <1>4, <2>4
  <2>6. [d \in Cpus |-> Bound(d)]' = [d \in Cpus |-> Bound(d)]
    BY <1>4
  <2>7. ~Sched!Expired(n)
    BY <1>1, <2>2, <2>3 DEF Sched!Expired
  <2>8. Sched!Run(n)
    BY <1>1, <1>3, <2>1, <2>5, <2>6, <2>7 DEF Sched!Run, OpType
  <2> QED
    BY <1>1, <2>8 DEF Sched!Next
<1>5. CASE EndBurst(n, p) /\ \A d \in Cpus :
                               /\ Bound(d)' = IF d = n THEN Null ELSE Bound(d)
                               /\ Slice(d)' = IF d = n THEN TimeSlice ELSE Slice(d)
  <2>1. /\ OpType(p) = "cpu" /\ left[p] = 0
        /\ op' = [op EXCEPT ![p] = @ + 1]
        /\ left' = [left EXCEPT ![p] = Program[p][op[p] + 1].time]
        /\ \/ Program[p][op[p] + 1].type = "io"
              /\ ioq' = Append(ioq, [pcb |-> p, time |-> Program[p][op[p] + 1].time])
           \/ Program[p][op[p] + 1].type = "terminate" /\ UNCHANGED ioq
    BY <1>5 DEF EndBurst, submit_io_request
  <2>2. left'[p] = Program[p][op[p] + 1].time
    BY <1>0, <1>1, <2>1 DEF SimType
  <2>3. Sched!Free(n)
    BY <1>1, <1>5 DEF Sched!Free
  <2>4. CASE Program[p][op[p] + 1].type = "io"
    <3>1. Sched!Block(n)
      BY <1>1, <1>3, <2>1, <2>2, <2>3, <2>4 DEF Sched!Block, Sched!NextOp, OpType
    <3> QED
      BY <1>1, <3>1 DEF Sched!Next
  <2>5. CASE Program[p][op[p] + 1].type = "terminate"
    <3>1. Sched!Finish(n)
      BY <1>1, <1>3, <2>1, <2>2, <2>3, <2>5 DEF Sched!Finish, Sched!NextOp, OpType
    <3> QED
      BY <1>1, <3>1 DEF Sched!Next
  <2> QED
    BY <2>1, <2>4, <2>5
<1>6. CASE Misplaced(p) /\ \A d \in Cpus : Bound(d)' = Bound(d) /\ Slice(d)' = Slice(d)
  BY <1>1, <1>2, <1>6, ViewKept DEF Misplaced
<1> QED
  BY <1>0, <1>4, <1>5, <1>6, SimulateBound

LEMMA IoDoneStep ==
  ASSUME SchedulerInv, IoDone, ~lost'
  PROVE  Sched!Next
<1>0. IInv /\ EventInv /\ ~SimulateProcess /\ SupStep
  BY DEF SchedulerInv, SupStep, SimulateProcess, IoDone, SupGo
<1> DEFINE p == Head(ioq).pcb
<1>1. /\ supPc = "io" /\ supPc' = "wakeLock" /\ supProc' = p /\ supRet' = "creat"
      /\ ioq # <<>> /\ Head(ioq).time = 0 /\ ioq' = Tail(ioq)
      /\ op' = [op EXCEPT ![p] = @ + 1]
      /\ left' = [left EXCEPT ![p] = Program[p][op[p] + 1].time]
      /\ UNCHANGED <<queue, created>>
  BY DEF IoDone, SupGo, schedVars, tickVars
<1>2. p \in Procs
  BY <1>0, <1>1, IoHead
<1>3. {q \in Procs : Unborn(q)}' = {q \in Procs : Unborn(q)}
  BY <1>1 DEF Unborn, Creating
<1>4. {q \in Procs : InWakeUp(q)}' = {q \in Procs : InWakeUp(q)} \cup {p}
  BY <1>1, <1>2 DEF InWakeUp
<1>5. \A c \in Cpus : Bound(c)' = Bound(c) /\ Slice(c)' = Slice(c)
  BY <1>0, SupBound
<1>6. Sched!Complete
  BY <1>1, <1>3, <1>4, <1>5 DEF Sched!Complete
<1> QED
  BY <1>6 DEF Sched!Next

LEMMA CreateStep ==
  ASSUME SchedulerInv, Create, ~lost'
  PROVE  Sched!Next
<1>0. IInv /\ EventInv /\ ~SimulateProcess /\ SupStep
  BY DEF SchedulerInv, SupStep, SimulateProcess, Create, SupGo
<1>1. /\ supPc = "creat" /\ supPc' = "wakeLock" /\ supProc' = created /\ supRet' = "endTick"
      /\ UNCHANGED <<queue, ioq, op, left, created>>
      /\ created < ProcCount
  BY DEF Create, SupGo, schedVars, simVars, tickVars
<1>2. created \in Procs /\ created \in Nat /\ Procs \subseteq Nat
  BY <1>0, <1>1, ConstantFacts DEF IInv, TypeOK, TickType
<1>3. Unborn(created) /\ \A q \in Procs : Unborn(q) => created <= q
  BY <1>1, <1>2 DEF Unborn, Creating
<1>4. {q \in Procs : Unborn(q)}' = {q \in Procs : Unborn(q)} \ {created}
  BY <1>1 DEF Unborn, Creating
<1>5. {q \in Procs : InWakeUp(q)}' = {q \in Procs : InWakeUp(q)} \cup {created}
  BY <1>1, <1>2 DEF InWakeUp
<1>6. \A c \in Cpus : Bound(c)' = Bound(c) /\ Slice(c)' = Slice(c)
  BY <1>0, SupBound
<1>7. Sched!Create(created)
  BY <1>1, <1>2, <1>3, <1>4, <1>5, <1>6 DEF Sched!Create
<1> QED
  BY <1>2, <1>7 DEF Sched!Next

LEMMA ReadyStep ==
  ASSUME SchedulerInv, WakePush, ~lost', ~lost
  PROVE  Sched!Next /\ queue' = Append(queue, supProc)
<1>0. IInv /\ EventInv /\ ~SimulateProcess /\ SupStep /\ Sched!OnePlace
  BY DEF SchedulerInv, SupStep, SimulateProcess, WakePush, SupGo
<1>1. /\ supPc = "wakePush" /\ supPc' \in {"wakeScan", "wakeUnlock"}
      /\ Push(supProc) /\ UNCHANGED <<ioq, op, left, created, supProc, supRet>>
  BY DEF WakePush, SupGo, simVars, tickVars
<1>2. supProc \in Procs /\ InWakeUp(supProc)
  BY <1>0, <1>1 DEF IInv, TypeOK, SupType, InWakeUp
<1>3. supProc \notin ToSet(queue)
  BY <1>0, <1>2, OnlyPlace
<1>4. queue' = Append(queue, supProc)
  BY <1>1, <1>3 DEF Push, ToSet
<1>5. {q \in Procs : Unborn(q)}' = {q \in Procs : Unborn(q)}
  BY <1>1 DEF Unborn, Creating
<1>6. {q \in Procs : InWakeUp(q)}' = {q \in Procs : InWakeUp(q)} \ {supProc}
  BY <1>1 DEF InWakeUp
<1>7. \A c \in Cpus : Bound(c)' = Bound(c) /\ Slice(c)' = Slice(c)
  BY <1>0, SupBound
<1>8. Sched!Ready(supProc)
  BY <1>1, <1>2, <1>4, <1>5, <1>6, <1>7 DEF Sched!Ready
<1> QED
  BY <1>2, <1>4, <1>8 DEF Sched!Next

LEMMA ServeStep ==
  ASSUME SchedulerInv, IoTick, ~lost'
  PROVE  Sched!Next
<1>0. /\ IInv /\ EventInv /\ CreateInv /\ ~SimulateProcess /\ SupStep /\ [Next]_vars
      /\ ~IoDone /\ ~Create /\ ~WakePush
  BY DEF SchedulerInv, Next, SupStep, SimulateProcess, IoTick, IoDone, Create, WakePush, SupGo
<1>1. /\ ioq # <<>> /\ Head(ioq).time > 0 /\ UNCHANGED <<queue, op, left>>
      /\ ioq' = [ioq EXCEPT ![1] = [pcb |-> @.pcb, time |-> @.time - 1]]
  BY DEF IoTick, schedVars
<1>2. ioq[1] \in [pcb : Procs, time : Nat]
  BY <1>0, <1>1, IoHead, RequestOf
<1>3. [pcb |-> ioq[1].pcb, time |-> ioq[1].time - 1] = [ioq[1] EXCEPT !.time = @ - 1]
  BY <1>2
<1>4. ioq' = [ioq EXCEPT ![1].time = @ - 1]
  BY <1>1, <1>3
<1>5. \A p \in Procs : (Unborn(p)' <=> Unborn(p)) /\ (InWakeUp(p)' <=> InWakeUp(p))
  BY <1>0, OriginKept
<1>6. UNCHANGED <<{q \in Procs : Unborn(q)}, {q \in Procs : InWakeUp(q)}>>
  BY <1>5
<1>7. \A c \in Cpus : Bound(c)' = Bound(c) /\ Slice(c)' = Slice(c)
  BY <1>0, SupBound
<1>8. Sched!Serve
  BY <1>1, <1>4, <1>6, <1>7 DEF Sched!Serve
<1> QED
  BY <1>8 DEF Sched!Next

(***************************************************************************)
(* The CPU threads: pop_from_queue and preempt's push_to_queue.            *)
(***************************************************************************)
LEMMA RemainingTime ==
  ASSUME NEW p \in Procs
  PROVE  TimeRemaining[p] = Sched!Remaining(p)
  BY DEF TimeRemaining, NotStarted, Sched!Remaining

LEMMA PopStep ==
  ASSUME SchedulerInv, NEW c \in Cpus, CpuStep(c), Pop(c), ~lost'
  PROVE  \/ Sched!Next
            /\ \E i \in DOMAIN queue : queue' = RemoveAt(queue, i) /\ local'[c] = queue[i]
         \/ UNCHANGED Sched!vars /\ UNCHANGED queue /\ local'[c] = Null
<1>0. IInv /\ EventInv /\ CreateInv /\ SchedType /\ CpuType
  BY DEF SchedulerInv, IInv, TypeOK
<1>1. /\ UNCHANGED <<ioq, op, left>>
      /\ \A p \in Procs : (Unborn(p)' <=> Unborn(p)) /\ (InWakeUp(p)' <=> InWakeUp(p))
  BY <1>0, CpuKept
<1>2. /\ Bound(c) = Null
      /\ \A d \in Cpus : /\ Slice(d)' = Slice(d)
                         /\ Bound(d)' = IF d = c THEN local'[c] ELSE Bound(d)
  BY <1>0, PopBound
<1>3. CASE queue = <<>> /\ local' = [local EXCEPT ![c] = Null] /\ UNCHANGED queue
  <2>1. local'[c] = Null
    BY <1>0, <1>3 DEF CpuType
  <2>2. \A d \in Cpus : Bound(d)' = Bound(d)
    BY <1>2, <2>1
  <2> QED
    BY <1>1, <1>2, <1>3, <2>1, <2>2, ViewKept
<1>4. ASSUME NEW i \in DOMAIN queue, IsNext(i, Lrtf, TimeRemaining),
             local' = [local EXCEPT ![c] = queue[i]], queue' = RemoveAt(queue, i)
      PROVE  Sched!Next /\ local'[c] = queue[i]
  <2>1. local'[c] = queue[i]
    BY <1>0, <1>4 DEF CpuType
  <2>2. \A j \in DOMAIN queue : queue[j] \in Procs
    BY <1>0, SeqElement DEF SchedType
  <2>3. IF Lrtf THEN \A j \in DOMAIN queue :
                       Sched!Remaining(queue[j]) <= Sched!Remaining(queue[i])
                ELSE i = 1
    BY <1>4, <2>2, RemainingTime DEF IsNext
  <2>4. [d \in Cpus |-> Bound(d)]' = [[d \in Cpus |-> Bound(d)] EXCEPT ![c] = queue[i]]
    BY <1>2, <2>1
  <2>5. UNCHANGED <<{q \in Procs : Unborn(q)}, {q \in Procs : InWakeUp(q)}>>
    BY <1>1
  <2>6. UNCHANGED [d \in Cpus |-> Slice(d)]
    BY <1>2
  <2>7. queue' = Sched!RemoveAt(queue, i)
    BY <1>4 DEF RemoveAt, Sched!RemoveAt
  <2>8. Sched!Dispatch(c, i)
    BY <1>1, <1>2, <2>3, <2>4, <2>5, <2>6, <2>7 DEF Sched!Dispatch
  <2> QED
    BY <2>1, <2>8 DEF Sched!Next
<1> QED
  BY <1>3, <1>4 DEF Pop

(* Whatever preempt takes from its CPU, it had the reason to take it. *)
LEMMA PreemptReason ==
  ASSUME SchedulerInv, ~lost, NEW c \in Cpus, cpuPc[c] = "push"
  PROVE  \/ TimeSlice > 0 /\ Slice(c) = 0
         \/ Lrtf /\ \E q \in Procs :
              /\ TimeRemaining[q] > TimeRemaining[Bound(c)]
              /\ q \in ToSet(queue) \/ \E d \in Cpus : Bound(d) = q
<1>0. /\ IInv /\ OneEvent /\ EventInv /\ ForceInv /\ SupType /\ SimType
  BY DEF SchedulerInv, EventInv, IInv, TypeOK
<1>1. /\ InEvent(c) /\ cpuPc[c] \in Handling /\ cpuState[c] = "preempt"
      /\ supN = c /\ supPc \in {"await", "fpAwait"}
  BY <1>0 DEF OneEvent, InEvent, Handling, EventInv
<1>2. Bound(c) = cpuCur[c] /\ cpuCur[c] \in Procs
  BY <1>0, <1>1 DEF Bound, Handling, IInv, CurrentInv, SimType, ProcOrNull
<1>3. CASE supPc = "await"
  <2>1. TimeSlice > 0 /\ timer[c] = 0
    BY <1>0, <1>1, <1>3 DEF ForceInv
  <2> QED
    BY <1>2, <2>1, ConstantFacts DEF Slice
<1>4. CASE supPc = "fpAwait"
  <2>1. TimeRemaining[Bound(c)] < TimeRemaining[supProc]
    BY <1>0, <1>1, <1>4 DEF ForceInv
  <2>2. Lrtf /\ (supProc \in ToSet(queue) \/ \E d \in Cpus : Bound(d) = supProc)
    BY <1>0, <1>4 DEF ForceInv
  <2>3. /\ supProc \in Procs
        /\ TimeRemaining[supProc] \in Int /\ TimeRemaining[Bound(c)] \in Int
    BY <1>0, <1>2 DEF SupType, SimType, TimeRemaining
  <2> QED
    BY <2>1, <2>2, <2>3
<1> QED
  BY <1>1, <1>3, <1>4

LEMMA PushStep ==
  ASSUME SchedulerInv, NEW c \in Cpus, CpuStep(c), PreemptPush(c), ~lost', ~lost
  PROVE  Sched!Next /\ queue' = Append(queue, local[c]) /\ local[c] = Bound(c)
<1>0. IInv /\ EventInv /\ CreateInv /\ Sched!OnePlace
  BY DEF SchedulerInv
<1>1. /\ UNCHANGED <<ioq, op, left>>
      /\ \A p \in Procs : (Unborn(p)' <=> Unborn(p)) /\ (InWakeUp(p)' <=> InWakeUp(p))
  BY <1>0, CpuKept
<1> DEFINE p == Bound(c)
<1>2. /\ p = local[c] /\ p \in Procs /\ p # Null
      /\ \A d \in Cpus : /\ Slice(d)' = IF d = c THEN TimeSlice ELSE Slice(d)
                         /\ Bound(d)' = IF d = c THEN Null ELSE Bound(d)
  BY <1>0, PushBound, ConstantFacts
<1>3. p \notin ToSet(queue)
  BY <1>0, <1>2, OnlyPlace
<1>4. queue' = Append(queue, p)
  BY <1>2, <1>3 DEF PreemptPush, Push, ToSet
<1>5. \/ Sched!Expired(c)
      \/ Lrtf /\ \E q \in Sched!ToSet(queue) \cup Sched!Taken :
                   Sched!Remaining(q) > Sched!Remaining(p)
  <2>1. CASE TimeSlice > 0 /\ Slice(c) = 0
    BY <2>1 DEF Sched!Expired
  <2>2. ASSUME Lrtf, NEW q \in Procs, TimeRemaining[q] > TimeRemaining[p],
               q \in ToSet(queue) \/ \E d \in Cpus : Bound(d) = q
        PROVE  \E r \in Sched!ToSet(queue) \cup Sched!Taken :
                 Sched!Remaining(r) > Sched!Remaining(p)
    <3>1. Sched!Remaining(q) > Sched!Remaining(p)
      BY <1>2, <2>2, RemainingTime
    <3>2. q \in Sched!ToSet(queue) \cup Sched!Taken
      BY <2>2, ConstantFacts DEF ToSet, Sched!ToSet, Sched!Taken
    <3> QED
      BY <3>1, <3>2
  <2> QED
    BY <2>1, <2>2, PreemptReason DEF PreemptPush
<1>6. Sched!Free(c)
  BY <1>2 DEF Sched!Free
<1>7. UNCHANGED <<{q \in Procs : Unborn(q)}, {q \in Procs : InWakeUp(q)}>>
  BY <1>1
<1>8. Sched!Preempt(c)
  BY <1>1, <1>2, <1>4, <1>5, <1>6, <1>7 DEF Sched!Preempt
<1> QED
  BY <1>2, <1>4, <1>8 DEF Sched!Next

(***************************************************************************)
(* Every step of the simulator that loses no event is a step of the        *)
(* abstract scheduler or leaves its state alone.                           *)
(***************************************************************************)
LEMMA SchedulerStep ==
  ASSUME SchedulerInv, [Next]_vars, ~lost'
  PROVE  Sched!Next \/ UNCHANGED Sched!vars
<1>0. IInv /\ EventInv /\ CreateInv /\ ~lost
  BY LostStays DEF SchedulerInv
<1>1. CASE SupStep
  BY <1>0, <1>1, RunStep, IoDoneStep, CreateStep, ReadyStep, ServeStep, SupKept
<1>2. ASSUME NEW c \in Cpus, CpuStep(c)
      PROVE  Sched!Next \/ UNCHANGED Sched!vars
  <2>1. CASE Pop(c)
    BY <1>2, <2>1, PopStep
  <2>2. CASE PreemptPush(c)
    BY <1>0, <1>2, <2>2, PushStep
  <2>3. CASE ~Pop(c) /\ ~PreemptPush(c)
    <3>1. \A d \in Cpus : Bound(d)' = Bound(d) /\ Slice(d)' = Slice(d)
      BY <1>0, <1>2, <2>3, CpuBound
    <3>2. /\ UNCHANGED <<queue, ioq, op, left>>
          /\ \A p \in Procs : (Unborn(p)' <=> Unborn(p)) /\ (InWakeUp(p)' <=> InWakeUp(p))
      BY <1>0, <1>2, <2>3, CpuKept
    <3> QED
      BY <3>1, <3>2, ViewKept
  <2> QED
    BY <2>1, <2>2, <2>3
<1>3. CASE UNCHANGED vars
  <2>1. /\ UNCHANGED <<queue, ioq, op, left>>
        /\ UNCHANGED <<supPc, supProc, supRet, created, cpuPc, cpuState, cpuCur, local, timer>>
    BY <1>3 DEF vars, schedVars, simVars, tickVars, supVars, cpuVars
  <2>2. \A d \in Cpus : Bound(d)' = Bound(d) /\ Slice(d)' = Slice(d)
    BY <2>1 DEF Bound, Slice
  <2>3. \A p \in Procs : (Unborn(p)' <=> Unborn(p)) /\ (InWakeUp(p)' <=> InWakeUp(p))
    BY <2>1 DEF Unborn, Creating, InWakeUp
  <2> QED
    BY <2>1, <2>2, <2>3, ViewKept
<1> QED
  BY <1>1, <1>2, <1>3 DEF Next, Exited

(* CpuSchedulerProofs: such a step leaves every process in one place. *)
LEMMA OnePlaceStep ==
  ASSUME SchedulerInv, [Next]_vars, ~lost'
  PROVE  Sched!OnePlace'
<1>1. Sched!TypeOK /\ Sched!OpsInPlace /\ Sched!OnePlace
  BY ViewTyped, LostStays DEF SchedulerInv
<1>2. Sched!Next \/ UNCHANGED Sched!vars
  BY SchedulerStep
<1>3. Sched!Next => Abstract!Next
  BY DEF Sched!Next, Sched!Create, Sched!Ready, Sched!Dispatch, Sched!Run, Sched!Preempt,
     Sched!Block, Sched!Finish, Sched!Serve, Sched!Complete, Sched!NextOp, Sched!Free,
     Sched!Expired, Sched!Remaining, Sched!Taken, Sched!ToSet, Sched!RemoveAt,
     Abstract!Next, Abstract!Create, Abstract!Ready, Abstract!Dispatch, Abstract!Run,
     Abstract!Preempt, Abstract!Block, Abstract!Finish, Abstract!Serve, Abstract!Complete,
     Abstract!NextOp, Abstract!Free, Abstract!Expired, Abstract!Remaining, Abstract!Taken,
     Abstract!ToSet, Abstract!RemoveAt
<1>4. UNCHANGED Sched!vars => UNCHANGED Abstract!vars
  BY DEF Sched!vars, Abstract!vars
<1>5. Abstract!IInv
  BY <1>1 DEF Sched!TypeOK, Sched!OpsInPlace, Sched!OnePlace, Sched!One, Sched!ToSet,
     Sched!Taken, Sched!Waiting, Sched!Done, Abstract!IInv, Abstract!TypeOK,
     Abstract!OpsInPlace, Abstract!OnePlace, Abstract!One, Abstract!ToSet, Abstract!Taken,
     Abstract!Waiting, Abstract!Done
<1>6. Abstract!Alternating
  BY ProgramsAlternate DEF Sched!Alternating, Abstract!Alternating
<1>7. Abstract!OnePlace'
  BY <1>2, <1>3, <1>4, <1>5, <1>6, Abstract!PlaceStep
<1> QED
  BY <1>7 DEF Sched!OnePlace, Sched!One, Sched!ToSet, Sched!Taken, Sched!Waiting,
     Sched!Done, Abstract!OnePlace, Abstract!One, Abstract!ToSet, Abstract!Taken,
     Abstract!Waiting, Abstract!Done

=============================================================================
