------------------------ MODULE OsSimSchedulerProofs ------------------------
(***************************************************************************)
(* The OS simulator implements the abstract scheduler up to the first lost *)
(* event, for all values of its constants, and what follows from it: where *)
(* every process is, what its state says, and when the simulation ends.    *)
(*                                                                         *)
(* SchedulerInv of OsSimProperties is shown to be inductive: OsSimProofs   *)
(* has its part IInv, OsSimViewProofs its parts EventInv, CreateInv and    *)
(* OnePlace; this module has the others, and the theorems.                 *)
(***************************************************************************)
EXTENDS OsSimViewProofs, WellFoundedInduction

-----------------------------------------------------------------------------
(***************************************************************************)
(* Time slices and forced preemptions.                                     *)
(***************************************************************************)
Claimed(p) == p \in ToSet(queue) \/ \E c \in Cpus : Bound(c) = p

LEMMA ClaimedMeans ==
  ASSUME Sched!OnePlace, NEW p \in Procs
  PROVE  Claimed(p) <=> ~Unborn(p) /\ ~InWakeUp(p) /\ ~Done(p)
                        /\ \A i \in DOMAIN ioq : ioq[i].pcb # p
  BY OnlyPlace DEF Claimed

LEMMA ClaimedMeansNext ==
  ASSUME Sched!OnePlace', NEW p \in Procs
  PROVE  Claimed(p)' <=> ~Unborn(p)' /\ ~InWakeUp(p)' /\ ~Done(p)'
                         /\ \A i \in DOMAIN ioq' : ioq'[i].pcb # p
<1>1. p # Null
  BY ConstantFacts
<1>2. p \in (Sched!Taken)' <=> \E c \in Cpus : Bound(c)' = p
  BY <1>1 DEF Sched!Taken
<1>3. p \in (Sched!Waiting)' <=> \E i \in DOMAIN ioq' : ioq'[i].pcb = p
  BY DEF Sched!Waiting
<1>4. p \in (Sched!Done)' <=> Done(p)'
  BY DEF Sched!Done, Done, OpType
<1> DEFINE B(b) == IF b THEN 1 ELSE 0
<1>5. B(Unborn(p)') + B(InWakeUp(p)') + B(p \in ToSet(queue)') + B(p \in (Sched!Taken)')
        + B(p \in (Sched!Waiting)') + B(p \in (Sched!Done)') = 1
  BY DEF Sched!OnePlace, Sched!One, Sched!ToSet, ToSet
<1> QED
  BY <1>2, <1>3, <1>4, <1>5 DEF Claimed

(* The CPU threads pass processes between the ready list and the CPUs. *)
LEMMA ClaimedKept ==
  ASSUME SchedulerInv, NEW c \in Cpus, CpuStep(c), ~lost', NEW p \in Procs
  PROVE  Claimed(p)' <=> Claimed(p)
<1>1. [Next]_vars
  BY DEF Next
<1>2. Sched!OnePlace /\ Sched!OnePlace' /\ IInv /\ EventInv /\ CreateInv
  BY <1>1, LostStays, OnePlaceStep DEF SchedulerInv
<1>3. /\ (Unborn(p)' <=> Unborn(p)) /\ (InWakeUp(p)' <=> InWakeUp(p))
      /\ UNCHANGED <<ioq, op>>
  BY <1>2, CpuKept
<1>4. Done(p)' <=> Done(p)
  BY <1>3 DEF Done, OpType
<1> QED
  BY <1>2, <1>3, <1>4, ClaimedMeans, ClaimedMeansNext

(* Only an event makes a CPU thread handle one. *)
LEMMA HandlingStep ==
  ASSUME IInv, NEW c \in Cpus, CpuStep(c), NEW d \in Cpus
  PROVE  /\ cpuPc'[d] \in Handling => /\ cpuPc[d] \in Handling
                                      /\ cpuState'[d] = cpuState[d] /\ timer'[d] = timer[d]
         /\ cpuCur'[d] = cpuCur[d] \/ (d = c /\ Switch(c))
<1>0. CpuType /\ SimType
  BY DEF IInv, TypeOK
<1> USE <1>0 DEF CpuType, SimType, Handling, CpuGo
<1>1. CASE Top(c)
  BY <1>1 DEF Top
<1>2. CASE Woken(c) \/ Count(c) \/ HandlerLock(c)
  BY <1>2 DEF Woken, Count, HandlerLock, simVars
<1>3. CASE Preempt(c) \/ Yield(c) \/ Terminate(c)
  BY <1>3 DEF Preempt, Yield, Terminate, MarkState, simVars
<1>4. CASE PreemptPush(c)
  BY <1>4 DEF PreemptPush, WakeIdle, simVars
<1>5. CASE Idle(c) \/ Pop(c) \/ Dispatch(c) \/ SwitchUnlock(c)
  BY <1>5 DEF Idle, Pop, Dispatch, SwitchUnlock, simVars
<1>6. CASE Switch(c)
  BY <1>6 DEF Switch
<1>7. CASE SwitchLock(c) \/ HandlerUnlock(c)
  BY <1>7 DEF SwitchLock, HandlerUnlock, simVars
<1> QED
  BY <1>1, <1>2, <1>3, <1>4, <1>5, <1>6, <1>7 DEF CpuStep

(* What a tick does to the slices, and when it posts the end of one. *)
SliceOk(t, pc) ==
  IF TimeSlice > 0 THEN t \in 0 .. TimeSlice /\ (t = 0 => pc \in Handling)
                   ELSE t = TimeSlice

LEMMA SliceEnd ==
  ASSUME SchedulerInv, SimulateProcess, ~lost', ~lost, NEW d \in Cpus
  PROVE  /\ d # supN => /\ cpuPc'[d] = cpuPc[d] /\ timer'[d] = timer[d]
                        /\ cpuPc[d] \notin Handling
         /\ d = supN /\ Bound(d)' # Null => SliceOk(timer'[d], cpuPc'[d])
         /\ d = supN /\ cpuPc'[d] \in Handling /\ cpuState'[d] = "preempt" =>
              timer'[d] = 0 /\ TimeSlice > 0
<1> DEFINE p == cpuCur[supN]
<1>0. /\ IInv /\ EventInv /\ TimerInv /\ SimType /\ CpuType
      /\ supN \in Cpus /\ supPc = "cpus"
  BY SimulateEffect DEF SchedulerInv, IInv, TypeOK
<1>1. /\ Bound(supN) = p /\ p # Null /\ cpuPc[supN] \notin Choosing
      /\ cpuPc[supN] \notin Handling /\ cpuPc[d] \notin Handling
  BY <1>0, SimulatedBound, SimulateBound, ConstantFacts
<1>2. IF TimeSlice > 0 THEN timer[supN] \in 1 .. TimeSlice ELSE timer[supN] = TimeSlice
  BY <1>0, <1>1, PolicyAssumption DEF TimerInv, Choosing
<1>3. CASE RunTick(supN, p)
  <2>1. timer' = [timer EXCEPT ![supN] = IF @ > 0 THEN @ - 1 ELSE @]
    BY <1>3 DEF RunTick
  <2>2. timer'[supN] = IF TimeSlice > 0 THEN timer[supN] - 1 ELSE timer[supN]
    BY <1>0, <1>2, <2>1, PolicyAssumption DEF SimType
  <2>3. CASE timer[supN] = 1
    <3>1. PostEvent(supN, "preempt", "await")
      BY <1>3, <2>3 DEF RunTick
    <3>2. cpuPc[supN] = "running" /\ cpuPc' = [cpuPc EXCEPT ![supN] = "woken"]
      BY <3>1 DEF PostEvent
    <3>3. TimeSlice > 0 /\ timer'[supN] = 0
      BY <1>2, <2>2, <2>3, PolicyAssumption
    <3>4. CASE d = supN
      BY <1>0, <2>3, <3>2, <3>3, <3>4, PolicyAssumption DEF CpuType, SliceOk, Handling
    <3>5. CASE d # supN
      BY <1>0, <1>1, <2>1, <3>2, <3>5 DEF CpuType, SimType
    <3> QED
      BY <3>4, <3>5
  <2>4. CASE timer[supN] # 1
    <3>1. UNCHANGED cpuPc
      BY <1>3, <2>4 DEF RunTick
    <3>2. CASE d = supN
      BY <1>0, <1>1, <1>2, <2>2, <2>4, <3>1, <3>2, PolicyAssumption DEF SliceOk
    <3>3. CASE d # supN
      BY <1>0, <1>1, <2>1, <3>1, <3>3 DEF SimType
    <3> QED
      BY <3>2, <3>3
  <2> QED
    BY <2>3, <2>4
<1>4. CASE EndBurst(supN, p)
  <2>1. PICK event \in {"yield", "terminate"} : PostEvent(supN, event, "await")
    BY <1>4 DEF EndBurst
  <2>2. /\ cpuPc' = [cpuPc EXCEPT ![supN] = "woken"] /\ cpuState'[supN] # "preempt"
        /\ UNCHANGED timer
    BY <1>0, <1>4, <2>1 DEF PostEvent, SimType, EndBurst
  <2>3. CASE d = supN
    <3>1. cpuPc'[d] = "woken" /\ cpuState'[d] # "preempt"
      BY <1>0, <2>2, <2>3 DEF CpuType
    <3>2. Bound(d)' = Null
      BY <3>1 DEF Bound
    <3> QED
      BY <2>3, <3>1, <3>2
  <2>4. CASE d # supN
    BY <1>0, <1>1, <2>2, <2>4 DEF CpuType
  <2> QED
    BY <2>3, <2>4
<1>5. CASE Misplaced(p)
  <2>1. UNCHANGED <<timer, cpuPc>>
    BY <1>5 DEF Misplaced
  <2> QED
    BY <1>0, <1>1, <1>2, <2>1, PolicyAssumption DEF SliceOk
<1> QED
  BY <1>3, <1>4, <1>5 DEF SimulateProcess

LEMMA TimerStep ==
  ASSUME SchedulerInv, [Next]_vars, ~lost'
  PROVE  TimerInv'
<1> USE DEF Handling
<1>0. /\ IInv /\ EventInv /\ TimerInv /\ ~lost /\ SimType /\ CpuType
  BY LostStays DEF SchedulerInv, IInv, TypeOK
<1> SUFFICES ASSUME NEW d \in Cpus, Bound(d)' # Null, cpuPc'[d] \notin Choosing
             PROVE  SliceOk(timer'[d], cpuPc'[d])
  BY DEF TimerInv, Choosing, SliceOk
<1>1. ASSUME Bound(d) = Bound(d)', cpuPc[d] \notin Choosing, timer'[d] = timer[d],
             cpuPc[d] \in Handling => cpuPc'[d] \in Handling
      PROVE  SliceOk(timer'[d], cpuPc'[d])
  BY <1>0, <1>1 DEF TimerInv, Choosing, SliceOk
<1>2. CASE SimulateProcess
  <2>1. CASE d = supN
    BY <1>0, <1>2, <2>1, SliceEnd
  <2>2. CASE d # supN
    <3>1. Bound(d)' = Bound(d)
      BY <1>0, <1>2, <2>2, SimulateBound
    <3> QED
      BY <1>0, <1>1, <1>2, <2>2, <3>1, SliceEnd
  <2> QED
    BY <2>1, <2>2
<1>3. CASE SupStep /\ ~SimulateProcess
  <2>1. Bound(d)' = Bound(d)
    BY <1>0, <1>3, SupBound
  <2>2. UNCHANGED timer
    BY <1>3 DEF SupStep, BeginTick, LockGantt, UnlockGantt, SkipCpu, EndCpus, Reacquire,
       NoIo, IoTick, IoDone, Create, NoCreate, EndTick, WakeLock, WakeReady, WakePush,
       WakeScan, WakeUnlock, WakeReturn, ForcePreemptUnlock, ForcePreemptCheck,
       ForcePreemptReacquire, ForcePreemptLock, simVars
  <2>3. \/ cpuPc'[d] = cpuPc[d] \/ cpuPc'[d] = "woken"
        \/ (cpuPc[d] = "idleBlocked" /\ cpuPc'[d] = "idle")
    BY <1>0, <1>3, QuietSupStep, ForceEffect, PostEventEffect
  <2>4. cpuPc[d] \in Choosing => cpuPc'[d] # "woken"
    <3>1. CASE ForcePreemptCheck
      BY <1>0, <3>1, ForceEffect, PostEventEffect DEF Choosing
    <3>2. CASE ~ForcePreemptCheck
      BY <1>0, <1>3, <3>2, QuietSupStep DEF Choosing
    <3> QED
      BY <3>1, <3>2
  <2> QED
    BY <1>1, <2>1, <2>2, <2>3, <2>4 DEF Choosing
<1>4. ASSUME NEW c \in Cpus, CpuStep(c)
      PROVE  SliceOk(timer'[d], cpuPc'[d])
  <2>1. CASE Switch(c) /\ d = c
    BY <1>0, <2>1, PolicyAssumption DEF Switch, SimType, SliceOk
  <2>2. CASE ~(Switch(c) /\ d = c)
    <3>1. timer'[d] = timer[d]
      BY <1>0, <1>4, <2>2 DEF CpuStep, SimType, Top, Woken, Count, HandlerLock, MarkState,
         Preempt, Yield,
         Terminate, PreemptPush, Idle, Pop, Dispatch, SwitchUnlock, Switch, SwitchLock,
         HandlerUnlock, simVars
    <3>2. cpuPc[d] \notin Choosing
      BY <1>0, <1>4, <2>2 DEF CpuStep, CpuType, CpuGo, Choosing, Top, Woken, Count,
         HandlerLock, MarkState, Preempt, Yield, Terminate, PreemptPush, WakeIdle, Idle, Pop,
         Dispatch, SwitchUnlock, Switch, SwitchLock, HandlerUnlock
    <3>3. ~(Pop(c) /\ d = c) /\ ~(PreemptPush(c) /\ d = c)
      BY <1>0, PushBound DEF Pop, CpuGo, CpuType, Choosing
    <3>4. Bound(d)' = Bound(d)
      BY <1>0, <1>4, <3>3, CpuBound, PopBound, PushBound
    <3>5. cpuPc[d] \in Handling => cpuPc'[d] \in Handling
      <4>1. CASE d = c
        <5>1. cpuPc[c] \in Handling => cpuPc'[c] \in Handling \/ cpuPc'[c] = "pop"
          BY <1>0, <1>4 DEF CpuStep, CpuType, CpuGo, Top, Woken, Count, HandlerLock,
             MarkState, Preempt, Yield, Terminate, PreemptPush, WakeIdle, Idle, Pop,
             Dispatch, SwitchUnlock, Switch, SwitchLock, HandlerUnlock
        <5>2. cpuPc'[c] = "pop" => Bound(c)' = Null
          BY DEF Bound
        <5> QED
          BY <4>1, <5>1, <5>2
      <4>2. CASE d # c
        BY <1>0, <1>4, <4>2 DEF CpuStep, CpuType, CpuGo, Top, Woken, Count, HandlerLock,
           MarkState, Preempt, Yield, Terminate, PreemptPush, WakeIdle, Idle, Pop,
           Dispatch, SwitchUnlock, Switch, SwitchLock, HandlerUnlock
      <4> QED
        BY <4>1, <4>2
    <3> QED
      BY <1>1, <3>1, <3>2, <3>4, <3>5
  <2> QED
    BY <2>1, <2>2
<1>5. CASE UNCHANGED vars
  <2>1. UNCHANGED <<cpuPc, cpuState, cpuCur, local, timer>>
    BY <1>5 DEF vars, simVars, cpuVars
  <2>2. Bound(d)' = Bound(d)
    BY <2>1 DEF Bound
  <2> QED
    BY <1>1, <2>1, <2>2
<1> QED
  BY <1>2, <1>3, <1>4, <1>5 DEF Next, Exited

LEMMA VictimIs ==
  ASSUME NEW i \in Victims
  PROVE  /\ i \in Cpus /\ current[i] # Null
         /\ TimeRemaining[current[i]] < TimeRemaining[supProc]
<1>1. i \in Candidates /\ Low(i) < TimeRemaining[supProc]
  BY DEF Victims
<1>2. i \in Scanned /\ \A j \in Scanned : current[j] # Null
  BY <1>1 DEF Candidates
<1> QED
  BY <1>1, <1>2, VictimType DEF Low

LEMMA RemainingKept ==
  ASSUME UNCHANGED <<op, left>>
  PROVE  UNCHANGED TimeRemaining
  BY DEF TimeRemaining, NotStarted

LEMMA ForceStep ==
  ASSUME SchedulerInv, [Next]_vars, ~lost'
  PROVE  ForceInv'
<1>0. /\ IInv /\ EventInv /\ CreateInv /\ TimerInv /\ ForceInv /\ ~lost
      /\ SimType /\ CpuType /\ SupType /\ SchedType /\ OneEvent /\ SupInv
  BY LostStays DEF SchedulerInv, EventInv, IInv, TypeOK
<1> DEFINE ForcePcs == {"wakeScan", "fpUnlock", "fpCheck", "fpAwait"}
           Caught(n) == \/ supPc \in {"fpUnlock", "fpCheck"}
                        \/ supPc = "fpAwait" /\ cpuPc[n] \in Handling
<1>r. ASSUME supPc' \in ForcePcs => Lrtf /\ Claimed(supProc)',
             Caught(supN)' => /\ Bound(supN)' # Null
                              /\ (TimeRemaining[Bound(supN)] < TimeRemaining[supProc])',
             \A d \in Cpus : cpuPc'[d] \in Handling /\ cpuState'[d] = "preempt"
                               /\ supPc' = "await" => TimeSlice > 0 /\ timer'[d] = 0
      PROVE  ForceInv'
  BY <1>r DEF ForceInv, Claimed
<1>s. /\ supPc \in ForcePcs => Lrtf /\ Claimed(supProc)
      /\ Caught(supN) => Bound(supN) # Null /\ TimeRemaining[Bound(supN)] < TimeRemaining[supProc]
      /\ \A d \in Cpus : cpuPc[d] \in Handling /\ cpuState[d] = "preempt" /\ supPc = "await"
                           => TimeSlice > 0 /\ timer[d] = 0
      /\ supPc \in {"fpUnlock", "fpCheck", "fpAwait"} => supN \in Cpus
  BY <1>0 DEF ForceInv, Claimed, SupInv
<1> HIDE DEF ForceInv
<1>1. CASE SimulateProcess
  <2>1. supPc' \in {"cpus", "await"}
    BY <1>0, <1>1, SimulateEffect
  <2>2. ASSUME NEW d \in Cpus, cpuPc'[d] \in Handling, cpuState'[d] = "preempt"
        PROVE  TimeSlice > 0 /\ timer'[d] = 0
    BY <1>0, <1>1, <2>2, SliceEnd
  <2> QED
    BY <1>r, <2>1, <2>2
<1>2. CASE ForcePreemptCheck
  <2>1. /\ supPc = "fpCheck" /\ supN \in Cpus /\ supPc' \in {"fpLock", "fpAwait"}
        /\ UNCHANGED <<queue, op, left, supN, supProc>> /\ SupStep /\ ~SimulateProcess
    BY <1>2, <1>0, ForceEffect DEF ForcePreemptCheck, SupStep, SimulateProcess, schedVars
  <2>2. \A d \in Cpus : Bound(d)' = Bound(d)
    BY <1>0, <2>1, SupBound
  <2>3. Claimed(supProc)' <=> Claimed(supProc)
    BY <2>1, <2>2 DEF Claimed
  <2>4. Bound(supN)' = Bound(supN)
    BY <2>1, <2>2
  <2>5. UNCHANGED TimeRemaining
    BY <2>1, RemainingKept
  <2> QED
    BY <1>r, <1>s, <2>1, <2>3, <2>4, <2>5
<1>3. CASE WakePush
  <2>1. supPc' \in {"wakeScan", "wakeUnlock"} /\ (supPc' = "wakeScan" => Lrtf)
    BY <1>3 DEF WakePush, SupGo
  <2>2. queue' = Append(queue, supProc) /\ supProc' = supProc /\ queue \in Seq(Procs)
        /\ supProc \in Procs
    BY <1>0, <1>3, ReadyStep DEF WakePush, SchedType, SupType
  <2>3. Len(queue) + 1 \in DOMAIN queue' /\ queue'[Len(queue) + 1] = supProc
    BY <2>2
  <2>4. Claimed(supProc)'
    BY <2>2, <2>3 DEF Claimed, ToSet
  <2> QED
    BY <1>r, <2>1, <2>4
<1>4. CASE WakeScan
  <2>1. /\ supPc = "wakeScan" /\ supPc' \in {"fpUnlock", "wakeUnlock"}
        /\ UNCHANGED <<queue, op, left, supProc, current>> /\ SupStep /\ ~SimulateProcess
        /\ supPc' = "fpUnlock" => supN' \in Victims
    BY <1>4 DEF WakeScan, SupGo, SupStep, SimulateProcess, schedVars, simVars
  <2>2. \A d \in Cpus : Bound(d)' = Bound(d)
    BY <1>0, <2>1, SupBound
  <2>3. Claimed(supProc)' <=> Claimed(supProc)
    BY <2>1, <2>2 DEF Claimed
  <2>4. UNCHANGED TimeRemaining
    BY <2>1, RemainingKept
  <2>5. ASSUME NEW i \in Victims
        PROVE  i \in Cpus /\ Bound(i)' # Null /\ TimeRemaining[Bound(i)'] < TimeRemaining[supProc]
    <3>1. i \in Cpus /\ current[i] # Null /\ TimeRemaining[current[i]] < TimeRemaining[supProc]
      BY VictimIs
    <3>2. CASE cpuPc[i] \in Choosing
      <4>1. handler[i] = "idle" /\ cpuCur[i] = Null
        BY <1>0, <2>1, <3>1, <3>2, SimulatedBound DEF InEvent, Choosing, EventInv
      <4>2. CurrentOf(i)
        BY <1>0, <3>1 DEF IInv, CurrentInv, CurrentOf
      <4>3. cpuPc[i] \in {"csUnlock", "csSwitch"}
        BY <3>1, <3>2, <4>1, <4>2 DEF CurrentOf, Choosing
      <4>4. current[i] = local[i]
        BY <4>2, <4>3 DEF CurrentOf
      <4>5. Bound(i) = local[i]
        BY <4>3 DEF Bound, Handling
      <4> QED
        BY <2>2, <3>1, <4>4, <4>5
    <3>3. CASE cpuPc[i] \notin Choosing
      <4>1. current[i] = cpuCur[i] /\ Bound(i) = cpuCur[i]
        BY <1>0, <2>1, <3>1, <3>3, SimulatedBound DEF IInv, CurrentInv, Choosing
      <4> QED
        BY <2>2, <3>1, <4>1
    <3> QED
      BY <3>2, <3>3
  <2>6. supPc' = "fpUnlock" =>
          /\ Bound(supN)' # Null
          /\ (TimeRemaining[Bound(supN)] < TimeRemaining[supProc])'
    <3> SUFFICES ASSUME supPc' = "fpUnlock"
                 PROVE  /\ Bound(supN)' # Null
                        /\ (TimeRemaining[Bound(supN)] < TimeRemaining[supProc])'
      OBVIOUS
    <3>1. PICK i \in Victims : i = supN'
      BY <2>1
    <3>2. Bound(supN)' = Bound(i)'
      BY <3>1 DEF Bound
    <3> QED
      BY <2>1, <2>4, <2>5, <3>2
  <2> QED
    BY <1>r, <1>s, <2>1, <2>3, <2>6
<1>5. CASE ForcePreemptUnlock
  <2>1. /\ supPc = "fpUnlock" /\ supPc' = "fpCheck" /\ supN \in Cpus
        /\ UNCHANGED <<queue, op, left, supN, supProc>> /\ SupStep /\ ~SimulateProcess
    BY <1>0, <1>5 DEF ForcePreemptUnlock, SupGo, SupStep, SimulateProcess, schedVars,
       simVars, SupInv
  <2>2. \A d \in Cpus : Bound(d)' = Bound(d)
    BY <1>0, <2>1, SupBound
  <2>3. Claimed(supProc)' <=> Claimed(supProc)
    BY <2>1, <2>2 DEF Claimed
  <2>4. Bound(supN)' = Bound(supN)
    BY <2>1, <2>2
  <2>5. UNCHANGED TimeRemaining
    BY <2>1, RemainingKept
  <2> QED
    BY <1>r, <1>s, <2>1, <2>3, <2>4, <2>5
<1>6. CASE SupStep /\ ~SimulateProcess /\ ~ForcePreemptCheck /\ ~WakePush /\ ~WakeScan
           /\ ~ForcePreemptUnlock
  <2>1. supPc' \notin ForcePcs \cup {"await"}
    BY <1>0, <1>6 DEF SupStep, BeginTick, LockGantt, UnlockGantt, SkipCpu, EndCpus, Reacquire,
       NextCpu, NoIo, IoTick, IoDone, Create, NoCreate, EndTick, WakeLock, WakeReady,
       WakeUnlock, WakeReturn, ForcePreemptReacquire, ForcePreemptLock, SupGo, SupType
  <2> QED
    BY <1>r, <2>1
<1>7. ASSUME NEW c \in Cpus, CpuStep(c)
      PROVE  ForceInv'
  <2>1. /\ UNCHANGED <<supN, supProc>>
        /\ supPc' = supPc \/ supPc' \in {"reacquire", "fpReacquire"}
    BY <1>7 DEF CpuStep, Top, SignalSupervisor, Woken, Count, HandlerLock, MarkState, Preempt,
       Yield, Terminate, PreemptPush, Idle, Pop, Dispatch, SwitchUnlock, Switch, SwitchLock,
       HandlerUnlock, supVars
  <2>2. UNCHANGED TimeRemaining
    BY <1>0, <1>7, CpuKept, RemainingKept
  <2>3. supPc' \in ForcePcs => Lrtf /\ Claimed(supProc)'
    <3>1. supProc \in Procs
      BY <1>0 DEF SupType
    <3>2. Claimed(supProc)' <=> Claimed(supProc)
      <4>1. \A p \in Procs : Claimed(p)' <=> Claimed(p)
        BY <1>7, ClaimedKept
      <4>2. PICK p \in Procs : p = supProc
        BY <3>1
      <4> QED
        BY <2>1, <4>1, <4>2 DEF Claimed
    <3> QED
      BY <1>s, <2>1, <3>2
  <2>4. \A d \in Cpus : cpuPc'[d] \in Handling /\ cpuState'[d] = "preempt"
                          /\ supPc' = "await" => TimeSlice > 0 /\ timer'[d] = 0
    BY <1>0, <1>s, <1>7, <2>1, HandlingStep
  <2>5. ASSUME Caught(supN)'
        PROVE  Bound(supN)' # Null /\ (TimeRemaining[Bound(supN)] < TimeRemaining[supProc])'
    <3>1. supN \in Cpus /\ supPc' = supPc /\ supPc \in {"fpUnlock", "fpCheck", "fpAwait"}
      BY <1>s, <2>1, <2>5
    <3>2. Caught(supN)
      BY <1>0, <1>7, <2>1, <2>5, <3>1, HandlingStep
    <3>3. Bound(supN) # Null /\ TimeRemaining[Bound(supN)] < TimeRemaining[supProc]
      BY <1>s, <3>2
    <3>4. ~(Pop(c) /\ supN = c)
      BY <1>0, <3>3, PopBound
    <3>5. ~(PreemptPush(c) /\ supN = c)
      <4> SUFFICES ASSUME PreemptPush(c), supN = c PROVE FALSE
        OBVIOUS
      <4>1. cpuPc[c] = "push" /\ cpuPc'[c] = "pop"
        BY <1>0 DEF PreemptPush, WakeIdle, CpuType
      <4>2. InEvent(c)
        BY <4>1 DEF InEvent, Handling
      <4>3. supPc = "fpAwait"
        BY <1>0, <3>1, <4>2 DEF OneEvent
      <4> QED
        BY <2>1, <2>5, <3>1, <4>1, <4>3 DEF Handling
    <3>6. PICK d \in Cpus : d = supN
      BY <3>1
    <3>7. Bound(d)' = Bound(d)
      BY <1>0, <1>7, <3>4, <3>5, <3>6, CpuBound, PopBound, PushBound
    <3>8. Bound(supN)' = Bound(supN)
      BY <2>1, <3>6, <3>7 DEF Bound
    <3> QED
      BY <2>1, <2>2, <3>3, <3>8
  <2> QED
    BY <1>r, <2>3, <2>4, <2>5
<1>8. CASE UNCHANGED vars
  <2>1. UNCHANGED <<queue, supPc, supN, supProc, cpuPc, cpuState, cpuCur, local, timer, op, left>>
    BY <1>8 DEF vars, schedVars, simVars, supVars, cpuVars
  <2>2. /\ \A d \in Cpus : Bound(d)' = Bound(d)
        /\ Bound(supN)' = Bound(supN)
    BY <2>1 DEF Bound
  <2>3. Claimed(supProc)' <=> Claimed(supProc)
    BY <2>1, <2>2 DEF Claimed
  <2>4. UNCHANGED TimeRemaining
    BY <2>1, RemainingKept
  <2> QED
    BY <1>r, <1>s, <2>1, <2>2, <2>3, <2>4
<1> QED
  BY <1>1, <1>2, <1>3, <1>4, <1>5, <1>6, <1>7, <1>8 DEF Next, Exited

-----------------------------------------------------------------------------
(***************************************************************************)
(* The state of every PCB.                                                 *)
(***************************************************************************)
Held == {"csUnlock", "csSwitch", "csLock", "wunlock", "top", "running"}

StateOf(c) ==
  /\ cpuPc[c] = "push" => pstate[local[c]] = "ready"
  /\ cpuPc[c] \in Held /\ Bound(c) # Null => pstate[Bound(c)] = "running"
  /\ cpuPc[c] \in Handling /\ cpuState[c] = "yield" =>
       \E i \in DOMAIN ioq : ioq[i].pcb = cpuCur[c]
  /\ cpuPc[c] \in Handling /\ cpuState[c] = "terminate" => Done(cpuCur[c])

Requested(i) ==
  pstate[ioq[i].pcb] = "waiting" \/ \E c \in Cpus : HandlingFor(c, "yield", ioq[i].pcb)

Ended(p) ==
  Done(p) => pstate[p] = "terminated" \/ \E c \in Cpus : HandlingFor(c, "terminate", p)

LEMMA StateParts ==
  StateInv <=> /\ \A p \in ToSet(queue) : pstate[p] = "ready"
               /\ supPc = "wakePush" => pstate[supProc] = "ready"
               /\ \A c \in Cpus : StateOf(c)
               /\ \A i \in DOMAIN ioq : Requested(i)
               /\ \A p \in Procs : Ended(p)
  BY DEF StateInv, StateOf, Requested, Ended, Held

LEMMA StatePartsNext ==
  ASSUME \A p \in ToSet(queue)' : pstate'[p] = "ready",
         supPc' = "wakePush" => pstate'[supProc'] = "ready",
         \A c \in Cpus : StateOf(c)',
         \A i \in DOMAIN ioq' : Requested(i)',
         \A p \in Procs : Ended(p)'
  PROVE  StateInv'
  BY DEF StateInv, StateOf, Requested, Ended, Held

(* A CPU thread that takes no step, but may wake up in idle(). *)
SameCpu(c) ==
  /\ cpuPc'[c] = cpuPc[c] \/ (cpuPc[c] = "idleBlocked" /\ cpuPc'[c] = "idle")
  /\ local'[c] = local[c] /\ cpuCur'[c] = cpuCur[c] /\ cpuState'[c] = cpuState[c]

LEMMA SameCpuState ==
  ASSUME NEW c \in Cpus, SameCpu(c)
  PROVE  /\ Bound(c)' = Bound(c)
         /\ StateOf(c)
              /\ (cpuPc[c] = "push" => pstate'[local[c]] = pstate[local[c]])
              /\ (Bound(c) # Null => pstate'[Bound(c)] = pstate[Bound(c)])
              /\ (cpuPc[c] \in Handling =>
                    /\ Done(cpuCur[c]) => Done(cpuCur[c])'
                    /\ \A i \in DOMAIN ioq : \E j \in DOMAIN ioq' : ioq'[j].pcb = ioq[i].pcb)
              => StateOf(c)'
         /\ \A event \in Events, p \in Procs :
              HandlingFor(c, event, p)' <=> HandlingFor(c, event, p)
<1>1. Bound(c)' = Bound(c)
  BY DEF SameCpu, Bound, Handling
<1> QED
  BY <1>1 DEF SameCpu, StateOf, Held, HandlingFor, Handling, Events

(* No PCB changes its state and no process its place, as far as states go. *)
LEMMA StateFrame ==
  ASSUME IInv, StateInv, UNCHANGED <<pstate, op>>,
         \A c \in Cpus : SameCpu(c),
         ToSet(queue)' \subseteq ToSet(queue),
         DOMAIN ioq' = DOMAIN ioq, \A i \in DOMAIN ioq : ioq'[i].pcb = ioq[i].pcb,
         supPc' = "wakePush" => supPc = "wakePush" /\ supProc' = supProc
  PROVE  StateInv'
<1>1. ASSUME NEW c \in Cpus
      PROVE  StateOf(c)'
  <2>1. StateOf(c)
    BY StateParts
  <2>2. Done(cpuCur[c]) => Done(cpuCur[c])'
    BY DEF SameCpu, Done, OpType
  <2> QED
    BY <2>1, <2>2, SameCpuState
<1>2. ASSUME NEW i \in DOMAIN ioq'
      PROVE  Requested(i)'
  <2>1. i \in DOMAIN ioq /\ ioq'[i].pcb = ioq[i].pcb /\ ioq[i].pcb \in Procs
    BY <1>2, RequestOf
  <2>2. Requested(i)
    BY <2>1, StateParts
  <2> QED
    BY <2>1, <2>2, SameCpuState DEF Requested, HandlingFor, Events
<1>3. ASSUME NEW p \in Procs
      PROVE  Ended(p)'
  BY StateParts, SameCpuState DEF Ended, Done, OpType, Events
<1> QED
  BY <1>1, <1>2, <1>3, StateParts, StatePartsNext

(***************************************************************************)
(* A step of a CPU thread: what its own PCB must satisfy, and which PCBs   *)
(* may change their state.                                                 *)
(***************************************************************************)
LEMMA StateRule ==
  ASSUME SchedulerInv, ~lost, NEW c \in Cpus, CpuStep(c),
         StateOf(c)',
         \A p \in ToSet(queue)' : pstate'[p] = "ready",
         \A p \in Procs : pstate'[p] # pstate[p] =>
           /\ ~InWakeUp(p) /\ \A d \in Cpus \ {c} : Bound(d) # p
           /\ Done(p) => pstate'[p] = "terminated"
           /\ (\E i \in DOMAIN ioq : ioq[i].pcb = p) => pstate'[p] = "waiting",
         \A p \in Procs :
           /\ HandlingFor(c, "yield", p) => HandlingFor(c, "yield", p)' \/ pstate'[p] = "waiting"
           /\ HandlingFor(c, "terminate", p) =>
                HandlingFor(c, "terminate", p)' \/ pstate'[p] = "terminated"
  PROVE  StateInv'
<1>0. /\ IInv /\ EventInv /\ CreateInv /\ StateInv
      /\ SchedType /\ SimType /\ CpuType /\ SupType
  BY DEF SchedulerInv, IInv, TypeOK
<1>1. UNCHANGED <<ioq, op>>
  BY <1>0, CpuKept
<1>2. ASSUME NEW d \in Cpus \ {c}
      PROVE  SameCpu(d)
  BY <1>0 DEF CpuStep, SimType, CpuType, CpuGo, SameCpu, Top, Woken, Count, HandlerLock,
     MarkState, Preempt, Yield, Terminate, PreemptPush, WakeIdle, Idle, Pop, Dispatch,
     SwitchUnlock, Switch, SwitchLock, HandlerUnlock, simVars
<1>3. supPc' = "wakePush" => pstate'[supProc'] = "ready"
  <2>1. supPc' \in {supPc, "reacquire", "fpReacquire"} /\ supProc' = supProc
    BY DEF CpuStep, Top, SignalSupervisor, Woken, Count, HandlerLock, MarkState, Preempt,
       Yield, Terminate, PreemptPush, Idle, Pop, Dispatch, SwitchUnlock, Switch, SwitchLock,
       HandlerUnlock, supVars
  <2>2. supPc = "wakePush" => InWakeUp(supProc) /\ pstate[supProc] = "ready" /\ supProc \in Procs
    BY <1>0, StateParts DEF InWakeUp, SupType
  <2> QED
    BY <2>1, <2>2
<1>4. ASSUME NEW d \in Cpus
      PROVE  StateOf(d)'
  <2>1. CASE d # c
    <3>1. StateOf(d) /\ SameCpu(d)
      BY <1>0, <1>2, <2>1, StateParts
    <3>2. cpuPc[d] = "push" => local[d] = Bound(d) /\ Bound(d) \in Procs
      <4>1. cpuPc[d] = "push" => local[d] = cpuCur[d] /\ cpuState[d] = "preempt"
        BY <1>0 DEF EventInv, Handling
      <4>2. cpuPc[d] = "push" => local[d] \in Procs
        BY <1>0 DEF IInv, CurrentInv, CpuType, ProcOrNull
      <4> QED
        BY <4>1, <4>2 DEF Bound, Handling
    <3>3. Bound(d) # Null => Bound(d) \in Procs
      BY <1>0, BoundType DEF ProcOrNull
    <3>4. Bound(d) \in Procs => pstate'[Bound(d)] = pstate[Bound(d)]
      BY <2>1
    <3>5. Done(cpuCur[d]) => Done(cpuCur[d])'
      BY <1>1, <3>1 DEF SameCpu, Done, OpType
    <3> QED
      BY <1>1, <3>1, <3>2, <3>3, <3>4, <3>5, SameCpuState
  <2> QED
    BY <2>1
<1>5. ASSUME NEW p \in Procs, NEW event \in {"yield", "terminate"}, NEW d \in Cpus,
             HandlingFor(d, event, p)
      PROVE  \/ \E e \in Cpus : HandlingFor(e, event, p)'
             \/ pstate'[p] = IF event = "yield" THEN "waiting" ELSE "terminated"
  <2>1. CASE d = c
    BY <1>5, <2>1
  <2>2. CASE d # c
    BY <1>2, <1>5, <2>2, SameCpuState DEF Events
  <2> QED
    BY <2>1, <2>2
<1>6. ASSUME NEW i \in DOMAIN ioq'
      PROVE  Requested(i)'
  <2>1. i \in DOMAIN ioq /\ ioq' = ioq /\ ioq[i].pcb \in Procs
    BY <1>0, <1>1, <1>6, RequestOf
  <2>2. pstate'[ioq[i].pcb] # pstate[ioq[i].pcb] => pstate'[ioq[i].pcb] = "waiting"
    BY <2>1
  <2>3. pstate[ioq[i].pcb] = "waiting" \/ \E d \in Cpus : HandlingFor(d, "yield", ioq[i].pcb)
    BY <1>0, <2>1, StateParts DEF Requested
  <2>4. \/ pstate'[ioq[i].pcb] = "waiting"
        \/ \E d \in Cpus : HandlingFor(d, "yield", ioq[i].pcb)'
    BY <1>5, <2>1, <2>2, <2>3
  <2> QED
    BY <2>1, <2>4 DEF Requested, HandlingFor
<1>7. ASSUME NEW p \in Procs
      PROVE  Ended(p)'
  <2>1. Done(p)' <=> Done(p)
    BY <1>1 DEF Done, OpType
  <2> QED
    BY <1>0, <1>5, <2>1, StateParts DEF Ended
<1> QED
  BY <1>3, <1>4, <1>6, <1>7, StatePartsNext

LEMMA StateCpuStep ==
  ASSUME SchedulerInv, NEW c \in Cpus, CpuStep(c), ~lost'
  PROVE  StateInv'
<1>0. /\ IInv /\ EventInv /\ CreateInv /\ StateInv /\ Sched!OnePlace /\ ~lost /\ [Next]_vars
      /\ SchedType /\ SimType /\ CpuType
      /\ StateOf(c) /\ CurrentOf(c) /\ EventOf(c)
      /\ \A p \in ToSet(queue) : pstate[p] = "ready"
  <2>1. [Next]_vars
    BY DEF Next
  <2>2. ~lost /\ SchedulerInv
    BY <2>1, LostStays
  <2> QED
    BY <2>1, <2>2, StateParts DEF SchedulerInv, IInv, TypeOK, CurrentInv, CurrentOf,
       EventInv, EventOf
(* The steps that leave the states alone. *)
<1>1. ASSUME UNCHANGED pstate, StateOf(c)',
             \A p \in ToSet(queue)' : p \in ToSet(queue) \/ pstate[p] = "ready",
             cpuPc[c] \in Handling /\ cpuState[c] \in {"yield", "terminate"} =>
               cpuPc'[c] \in Handling /\ UNCHANGED <<cpuState, cpuCur>>
      PROVE  StateInv'
  <2>1. \A p \in Procs, event \in {"yield", "terminate"} :
          HandlingFor(c, event, p) => HandlingFor(c, event, p)'
    BY <1>1 DEF HandlingFor
  <2> QED
    BY <1>0, <1>1, <2>1, StateRule
<1>2. CASE Top(c)
  <2>1. /\ cpuPc[c] = "top" /\ cpuPc'[c] \in {"idle", "running"}
        /\ UNCHANGED <<pstate, queue, cpuCur, ioq, op>>
    BY <1>0, <1>2 DEF Top, CpuGo, CpuType, schedVars
  <2>2. Bound(c)' = Bound(c) \/ cpuPc'[c] = "idle"
    BY <2>1 DEF Bound, Handling
  <2> QED
    BY <1>0, <1>1, <2>1, <2>2 DEF StateOf, Held, Handling
<1>3. CASE Woken(c) \/ Count(c) \/ HandlerLock(c)
  <2>1. /\ cpuPc[c] \in {"woken", "count", "wlock"} /\ cpuPc'[c] \in {"count", "wlock", "body"}
        /\ UNCHANGED <<pstate, queue, cpuCur, cpuState, ioq, op>>
    BY <1>0, <1>3 DEF Woken, Count, HandlerLock, CpuGo, CpuType, schedVars, simVars
  <2>2. Done(cpuCur[c]) => Done(cpuCur[c])'
    BY <2>1 DEF Done, OpType
  <2> QED
    BY <1>0, <1>1, <2>1, <2>2 DEF StateOf, Held, Handling
<1>4. CASE Idle(c) \/ SwitchUnlock(c) \/ SwitchLock(c) \/ HandlerUnlock(c)
  <2>1. /\ \/ cpuPc[c] = "idle" /\ cpuPc'[c] \in {"idleBlocked", "pop"}
           \/ cpuPc[c] = "csUnlock" /\ cpuPc'[c] = "csSwitch"
           \/ cpuPc[c] \in {"csLock", "wunlock"} /\ cpuPc'[c] \in {"wunlock", "top"}
        /\ UNCHANGED <<pstate, queue, cpuCur, cpuState, local, ioq, op>>
    BY <1>0, <1>4 DEF Idle, SwitchUnlock, SwitchLock, HandlerUnlock, CpuGo, CpuType,
       schedVars, simVars
  <2>2. Bound(c)' = Bound(c)
    BY <2>1 DEF Bound, Handling
  <2> QED
    BY <1>0, <1>1, <2>1, <2>2 DEF StateOf, Held, Handling
<1>5. CASE Switch(c)
  <2>1. /\ cpuPc[c] = "csSwitch" /\ cpuPc'[c] = "csLock" /\ cpuCur'[c] = local[c]
        /\ UNCHANGED <<pstate, queue, cpuState, local, ioq, op>>
    BY <1>0, <1>5 DEF Switch, CpuGo, CpuType, SimType, schedVars
  <2>2. Bound(c)' = Bound(c)
    BY <2>1 DEF Bound, Handling
  <2> QED
    BY <1>0, <1>1, <2>1, <2>2 DEF StateOf, Held, Handling
<1>6. CASE Pop(c)
  <2>1. /\ cpuPc[c] = "pop" /\ cpuPc'[c] = "dispatch" /\ UNCHANGED pstate
    BY <1>0, <1>6 DEF Pop, CpuGo, CpuType
  <2>2. ToSet(queue)' \subseteq ToSet(queue)
    <3>1. ASSUME NEW i \in DOMAIN queue, queue' = RemoveAt(queue, i)
          PROVE  ToSet(queue)' \subseteq ToSet(queue)
      <4>1. /\ queue' = Abstract!RemoveAt(queue, i) /\ queue \in Seq(Procs)
        BY <1>0, <3>1 DEF SchedType, RemoveAt, Abstract!RemoveAt
      <4>2. \A j \in DOMAIN queue' : Abstract!Shift(i, j) \in DOMAIN queue
                                    /\ queue'[j] = queue[Abstract!Shift(i, j)]
        BY <3>1, <4>1, Abstract!RemoveElements
      <4> QED
        BY <4>2 DEF ToSet
    <3> QED
      BY <1>6, <3>1 DEF Pop
  <2> QED
    BY <1>0, <1>1, <2>1, <2>2 DEF StateOf, Held, Handling
<1>7. CASE PreemptPush(c)
  <2>1. /\ cpuPc[c] = "push" /\ cpuPc'[c] = "pop" /\ UNCHANGED pstate
    BY <1>0, <1>7 DEF PreemptPush, WakeIdle, CpuType
  <2>2. queue' = Append(queue, local[c]) /\ queue \in Seq(Procs) /\ local[c] \in Procs
    BY <1>0, <1>7, PushStep, PushBound DEF SchedType
  <2>3. ToSet(queue)' = ToSet(queue) \cup {local[c]}
    BY <2>2, Abstract!AppendElements DEF ToSet, Abstract!ToSet
  <2> QED
    BY <1>0, <1>1, <2>1, <2>3 DEF StateOf, EventOf, Held, Handling
(* The steps that mark a PCB. *)
<1>m. ASSUME NEW q \in Procs, NEW s, pstate' = [pstate EXCEPT ![q] = s], UNCHANGED queue,
             ~InWakeUp(q), q \notin ToSet(queue), \A d \in Cpus \ {c} : Bound(d) # q,
             Done(q) => s = "terminated",
             (\E i \in DOMAIN ioq : ioq[i].pcb = q) => s = "waiting",
             StateOf(c)',
             cpuPc[c] \in Handling =>
               /\ cpuCur[c] = q
               /\ cpuState[c] = "yield" => s = "waiting"
               /\ cpuState[c] = "terminate" => s = "terminated"
      PROVE  StateInv'
  <2>1. \A p \in Procs : pstate'[p] = IF p = q THEN s ELSE pstate[p]
    BY <1>0, <1>m DEF SchedType
  <2>2. \A p \in ToSet(queue)' : p \in Procs /\ pstate'[p] = "ready"
    BY <1>0, <1>m, <2>1, SeqElement DEF SchedType, ToSet
  <2>3. \A p \in Procs :
          /\ HandlingFor(c, "yield", p) => HandlingFor(c, "yield", p)' \/ pstate'[p] = "waiting"
          /\ HandlingFor(c, "terminate", p) =>
               HandlingFor(c, "terminate", p)' \/ pstate'[p] = "terminated"
    BY <1>m, <2>1 DEF HandlingFor
  <2>4. \A p \in Procs : pstate'[p] # pstate[p] =>
          /\ ~InWakeUp(p) /\ \A d \in Cpus \ {c} : Bound(d) # p
          /\ Done(p) => pstate'[p] = "terminated"
          /\ (\E i \in DOMAIN ioq : ioq[i].pcb = p) => pstate'[p] = "waiting"
    BY <1>m, <2>1
  <2> QED
    BY <1>0, <1>m, <2>2, <2>3, <2>4, StateRule
<1>b. ASSUME cpuPc[c] = "body"
      PROVE  /\ current[c] = cpuCur[c] /\ cpuCur[c] \in Procs /\ cpuPc[c] \in Handling
             /\ handler[c] = cpuState[c]
  BY <1>0, <1>b DEF CurrentOf, EventOf, Handling, SimType, ProcOrNull
<1>8. CASE Preempt(c)
  <2> DEFINE q == cpuCur[c]
  <2>1. /\ cpuPc[c] = "body" /\ cpuPc'[c] = "push" /\ cpuState[c] = "preempt"
        /\ pstate' = [pstate EXCEPT ![q] = "ready"] /\ local'[c] = q
        /\ UNCHANGED <<queue, cpuCur, cpuState>> /\ q \in Procs
    BY <1>0, <1>b, <1>8 DEF Preempt, MarkState, CpuGo, CpuType, simVars
  <2>2. Bound(c) = q
    BY <2>1 DEF Bound, Handling
  <2>3. StateOf(c)'
    BY <1>0, <2>1 DEF StateOf, Held, Handling, SchedType
  <2>4. /\ ~InWakeUp(q) /\ q \notin ToSet(queue) /\ ~Done(q)
        /\ \A d \in Cpus \ {c} : Bound(d) # q
        /\ \A i \in DOMAIN ioq : ioq[i].pcb # q
    BY <1>0, <2>1, <2>2, OnlyPlace
  <2> QED
    BY <1>m, <2>1, <2>3, <2>4
<1>9. CASE Yield(c)
  <2> DEFINE q == cpuCur[c]
  <2>1. /\ cpuPc[c] = "body" /\ cpuPc'[c] = "pop" /\ cpuState[c] = "yield"
        /\ pstate' = [pstate EXCEPT ![q] = "waiting"]
        /\ UNCHANGED <<queue, cpuCur, cpuState>> /\ q \in Procs
    BY <1>0, <1>b, <1>9 DEF Yield, MarkState, CpuGo, CpuType, simVars
  <2>2. \E i \in DOMAIN ioq : ioq[i].pcb = q
    BY <1>0, <2>1 DEF StateOf, Handling
  <2>3. StateOf(c)'
    BY <2>1 DEF StateOf, Held, Handling
  <2> QED
    BY <1>0, <1>m, <2>1, <2>2, <2>3, OnlyPlace
<1>10. CASE Terminate(c)
  <2> DEFINE q == cpuCur[c]
  <2>1. /\ cpuPc[c] = "body" /\ cpuPc'[c] = "pop" /\ cpuState[c] = "terminate"
        /\ pstate' = [pstate EXCEPT ![q] = "terminated"]
        /\ UNCHANGED <<queue, cpuCur, cpuState>> /\ q \in Procs
    BY <1>0, <1>b, <1>10 DEF Terminate, MarkState, CpuGo, CpuType, simVars
  <2>2. Done(q)
    BY <1>0, <2>1 DEF StateOf, Handling
  <2>3. StateOf(c)'
    BY <2>1 DEF StateOf, Held, Handling
  <2> QED
    BY <1>0, <1>m, <2>1, <2>2, <2>3, OnlyPlace
<1>11. CASE Dispatch(c)
  <2> DEFINE q == local[c]
  <2>1. /\ cpuPc[c] = "dispatch" /\ cpuPc'[c] = "csUnlock"
        /\ UNCHANGED <<queue, local>> /\ q \in ProcOrNull
        /\ pstate' = IF q = Null THEN pstate ELSE [pstate EXCEPT ![q] = "running"]
    BY <1>0, <1>11 DEF Dispatch, CpuGo, CpuType
  <2>2. Bound(c) = q /\ Bound(c)' = q
    BY <2>1 DEF Bound, Handling
  <2>3. StateOf(c)'
    BY <1>0, <2>1, <2>2 DEF StateOf, Held, Handling, SchedType, ProcOrNull
  <2>4. CASE q = Null
    BY <1>0, <1>1, <2>1, <2>3, <2>4 DEF Handling
  <2>5. CASE q # Null
    <3>1. q \in Procs /\ cpuPc[c] \notin Handling
      BY <2>1, <2>5 DEF ProcOrNull, Handling
    <3>2. /\ ~InWakeUp(q) /\ q \notin ToSet(queue) /\ ~Done(q)
          /\ \A d \in Cpus \ {c} : Bound(d) # q
          /\ \A i \in DOMAIN ioq : ioq[i].pcb # q
      BY <1>0, <2>2, <3>1, OnlyPlace
    <3> QED
      BY <1>m, <2>1, <2>3, <2>5, <3>1, <3>2
  <2> QED
    BY <2>4, <2>5
<1> QED
  BY <1>2, <1>3, <1>4, <1>5, <1>6, <1>7, <1>8, <1>9, <1>10, <1>11 DEF CpuStep

LEMMA StateSupStep ==
  ASSUME SchedulerInv, SupStep, ~lost'
  PROVE  StateInv'
<1>0. /\ IInv /\ EventInv /\ CreateInv /\ StateInv /\ Sched!OnePlace /\ ~lost /\ [Next]_vars
      /\ SchedType /\ SimType /\ CpuType /\ SupType /\ OneEvent /\ SchedulerInv
      /\ \A p \in ToSet(queue) : p \in Procs /\ pstate[p] = "ready"
      /\ \A i \in DOMAIN ioq : Requested(i) /\ ioq[i].pcb \in Procs
      /\ \A p \in Procs : Ended(p)
      /\ \A c \in Cpus : StateOf(c) /\ EventOf(c)
  <2>1. [Next]_vars
    BY DEF Next
  <2>2. ~lost
    BY <2>1, LostStays
  <2>3. \A p \in ToSet(queue) : p \in Procs
    BY SeqElement DEF SchedulerInv, IInv, TypeOK, SchedType, ToSet
  <2> QED
    BY <2>1, <2>2, <2>3, StateParts, RequestOf
       DEF SchedulerInv, IInv, TypeOK, EventInv, EventOf
<1>1. CASE ~SimulateProcess /\ ~ForcePreemptCheck
  <2>1. \A d \in Cpus : SameCpu(d)
    <3>1. UNCHANGED <<local, cpuCur, cpuState>>
      BY <1>1 DEF SupStep, BeginTick, LockGantt, UnlockGantt, SkipCpu, EndCpus, Reacquire,
         NoIo, IoTick, IoDone, Create, NoCreate, EndTick, WakeLock, WakeReady, WakePush,
         WakeScan, WakeUnlock, WakeReturn, ForcePreemptUnlock, ForcePreemptReacquire,
         ForcePreemptLock, simVars, cpuVars
    <3> QED
      BY <1>0, <1>1, <3>1, QuietSupStep DEF SameCpu
  <2>2. \A d \in Cpus : ~InEvent(d) /\ cpuPc[d] \notin Handling
    BY <1>0, <1>1, QuietSupStep DEF OneEvent, InEvent
  <2>3. CASE WakeReady
    <3>1. /\ supPc = "wakeReady" /\ UNCHANGED <<queue, ioq, op, supProc>>
          /\ pstate' = [pstate EXCEPT ![supProc] = "ready"]
      BY <2>3 DEF WakeReady, SupGo, simVars
    <3>2. \A p \in Procs : pstate'[p] = IF p = supProc THEN "ready" ELSE pstate[p]
      BY <1>0, <3>1 DEF SchedType
    <3>3. /\ supProc \in Procs /\ supProc \notin ToSet(queue) /\ ~Done(supProc)
          /\ \A d \in Cpus : Bound(d) # supProc
          /\ \A i \in DOMAIN ioq : ioq[i].pcb # supProc
      <4>1. supProc \in Procs /\ InWakeUp(supProc)
        BY <1>0, <3>1 DEF SupType, InWakeUp
      <4> QED
        BY <1>0, <4>1, OnlyPlace
    <3>4. ASSUME NEW d \in Cpus
          PROVE  StateOf(d)'
      <4>1. Bound(d) # Null => pstate'[Bound(d)] = pstate[Bound(d)]
        BY <1>0, <3>2, <3>3, BoundType DEF ProcOrNull
      <4>2. cpuPc[d] # "push"
        BY <2>2 DEF Handling
      <4> QED
        BY <1>0, <2>1, <2>2, <4>1, <4>2, SameCpuState
    <3>5. ASSUME NEW i \in DOMAIN ioq'
          PROVE  Requested(i)'
      <4>1. pstate[ioq[i].pcb] = "waiting" /\ ioq[i].pcb \in Procs
        BY <1>0, <2>2, <3>1, <3>5 DEF Requested, HandlingFor
      <4> QED
        BY <3>1, <3>2, <3>3, <3>5, <4>1 DEF Requested
    <3>6. ASSUME NEW p \in Procs
          PROVE  Ended(p)'
      <4>1. Done(p) => pstate[p] = "terminated"
        BY <1>0, <2>2 DEF Ended, HandlingFor
      <4> QED
        BY <3>1, <3>2, <3>3, <4>1 DEF Ended, Done, OpType
    <3> QED
      BY <1>0, <3>1, <3>2, <3>3, <3>4, <3>5, <3>6, StatePartsNext
  <2>4. CASE WakePush
    <3>1. /\ supPc = "wakePush" /\ UNCHANGED <<pstate, ioq, op>> /\ supPc' # "wakePush"
      BY <2>4 DEF WakePush, SupGo, simVars
    <3>2. ToSet(queue)' = ToSet(queue) \cup {supProc}
      <4>1. queue' = Append(queue, supProc) /\ queue \in Seq(Procs) /\ supProc \in Procs
        BY <1>0, <2>4, ReadyStep DEF SchedType, SupType
      <4> QED
        BY <4>1, Abstract!AppendElements DEF ToSet, Abstract!ToSet
    <3>3. pstate[supProc] = "ready"
      BY <1>0, <3>1, StateParts
    <3>4. ASSUME NEW d \in Cpus
          PROVE  StateOf(d)'
      BY <1>0, <2>1, <2>2, <3>1, SameCpuState
    <3>5. ASSUME NEW i \in DOMAIN ioq'
          PROVE  Requested(i)'
      BY <1>0, <2>2, <3>1, <3>5 DEF Requested, HandlingFor
    <3>6. ASSUME NEW p \in Procs
          PROVE  Ended(p)'
      BY <1>0, <2>2, <3>1 DEF Ended, HandlingFor, Done, OpType
    <3> QED
      BY <1>0, <3>1, <3>2, <3>3, <3>4, <3>5, <3>6, StatePartsNext
  <2>5. CASE IoDone
    <3> DEFINE p == Head(ioq).pcb
    <3>1. /\ supPc' = "wakeLock" /\ UNCHANGED <<pstate, queue>>
          /\ op' = [op EXCEPT ![p] = @ + 1] /\ ioq' = Tail(ioq) /\ ioq # <<>>
      BY <2>5 DEF IoDone, SupGo, schedVars
    <3>2. ASSUME NEW d \in Cpus
          PROVE  StateOf(d)'
      BY <1>0, <2>1, <2>2, <3>1, SameCpuState
    <3>3. ASSUME NEW i \in DOMAIN ioq'
          PROVE  Requested(i)'
      <4>1. i + 1 \in DOMAIN ioq /\ ioq'[i] = ioq[i + 1]
        BY <1>0, <3>1, <3>3, IoHead
      <4>2. pstate[ioq[i + 1].pcb] = "waiting"
        BY <1>0, <2>2, <4>1 DEF Requested, HandlingFor
      <4> QED
        BY <3>1, <4>1, <4>2 DEF Requested
    <3>4. ASSUME NEW q \in Procs
          PROVE  Ended(q)'
      <4>1. Done(q) => pstate'[q] = "terminated"
        BY <1>0, <2>2, <3>1 DEF Ended, HandlingFor
      <4>2. CASE q = p
        <5>1. OpType(p) = "io" /\ p \in Procs /\ op[p] \in DOMAIN Program[p]
          BY <1>0, <3>1, IoHead DEF IInv, IoInv, PcInv
        <5>2. op'[p] = op[p] + 1 /\ Program[p][op[p] + 1].type = "cpu"
          BY <1>0, <3>1, <5>1, ProgramsAlternate DEF Sched!Alternating, OpType, SimType
        <5>3. ~Done(q)'
          BY <4>2, <5>2 DEF Done, OpType
        <5> QED
          BY <5>3 DEF Ended
      <4>3. CASE q # p
        <5>1. op'[q] = op[q]
          BY <1>0, <3>1, <4>3 DEF SimType
        <5> QED
          BY <4>1, <5>1 DEF Ended, Done, OpType
      <4> QED
        BY <4>2, <4>3
    <3> QED
      BY <1>0, <3>1, <3>2, <3>3, <3>4, StatePartsNext
  <2>6. CASE ~WakeReady /\ ~WakePush /\ ~IoDone
    <3>1. UNCHANGED <<pstate, queue, op>>
      BY <1>1, <2>6 DEF SupStep, BeginTick, LockGantt, UnlockGantt, SkipCpu, EndCpus, Reacquire,
         NoIo, IoTick, Create, NoCreate, EndTick, WakeLock,
         WakeScan, WakeUnlock, WakeReturn, ForcePreemptUnlock, ForcePreemptReacquire,
         ForcePreemptLock, simVars, schedVars
    <3>2. DOMAIN ioq' = DOMAIN ioq /\ \A i \in DOMAIN ioq : ioq'[i].pcb = ioq[i].pcb
      <4>1. CASE IoTick
        BY <1>0, <4>1, IoHead DEF IoTick, SimType
      <4>2. CASE UNCHANGED ioq
        BY <4>2
      <4> QED
        BY <1>1, <2>6, <4>1, <4>2 DEF SupStep, BeginTick, LockGantt, UnlockGantt, SkipCpu,
           EndCpus, Reacquire,
           NoIo, Create, NoCreate, EndTick, WakeLock,
           WakeScan, WakeUnlock, WakeReturn, ForcePreemptUnlock, ForcePreemptReacquire,
           ForcePreemptLock, simVars
    <3>3. supPc' # "wakePush"
      BY <1>0, <1>1, <2>6 DEF SupStep, BeginTick, LockGantt, UnlockGantt, SkipCpu, EndCpus,
         Reacquire,
         NextCpu, NoIo, IoTick, Create, NoCreate, EndTick, WakeLock,
         WakeScan, WakeUnlock, WakeReturn, ForcePreemptUnlock, ForcePreemptReacquire,
         ForcePreemptLock, SupGo, SupType
    <3> QED
      BY <1>0, <2>1, <3>1, <3>2, <3>3, StateFrame
  <2> QED
    BY <2>3, <2>4, <2>5, <2>6
(* The steps that may post an event. *)
<1>e. ASSUME NEW n \in Cpus, NEW event \in Events, NEW await, PostEvent(n, event, await),
             UNCHANGED <<local, cpuCur>>
      PROVE  /\ cpuPc[n] = "running" /\ cpuPc'[n] = "woken" /\ cpuState'[n] = event
             /\ \A d \in Cpus \ {n} : SameCpu(d)
  <2>1. cpuPc[n] = "running"
    BY <1>e DEF PostEvent
  <2>2. \A d \in Cpus :
          /\ cpuPc'[d] = IF d = n /\ cpuPc[d] = "running" THEN "woken" ELSE cpuPc[d]
          /\ cpuState'[d] = IF d = n THEN event ELSE cpuState[d]
    BY <1>0, <1>e, PostEventEffect DEF Events
  <2> QED
    BY <1>e, <2>1, <2>2 DEF SameCpu
<1>q. ASSUME supPc \notin {"await", "fpAwait"}
      PROVE  /\ \A d \in Cpus : cpuPc[d] \notin Handling
             /\ \A i \in DOMAIN ioq : pstate[ioq[i].pcb] = "waiting"
             /\ \A p \in Procs : Done(p) => pstate[p] = "terminated"
  <2>1. \A d \in Cpus : cpuPc[d] \notin Handling
    BY <1>0, <1>q DEF OneEvent, InEvent
  <2> QED
    BY <1>0, <2>1 DEF Requested, Ended, HandlingFor
<1>2. CASE SimulateProcess
  <2> DEFINE n == supN
             p == cpuCur[supN]
  <2>1. /\ n \in Cpus /\ p \in Procs /\ supPc = "cpus" /\ supPc' # "wakePush"
        /\ UNCHANGED <<local, cpuCur, queue, pstate>>
    BY <1>0, <1>2, SimulateEffect, SimulateBound DEF SimulateProcess, schedVars
  <2>2. /\ \A d \in Cpus : cpuPc[d] \notin Handling
        /\ \A i \in DOMAIN ioq : pstate[ioq[i].pcb] = "waiting"
        /\ \A q \in Procs : Done(q) => pstate[q] = "terminated"
    BY <1>q, <2>1
  <2>3. CASE RunTick(n, p)
    <3>1. UNCHANGED <<ioq, op>>
      BY <2>3 DEF RunTick
    <3>2. CASE UNCHANGED <<cpuPc, cpuState>>
      BY <1>0, <2>1, <3>1, <3>2, StateFrame DEF SameCpu
    <3>3. CASE PostEvent(n, "preempt", "await")
      <4>1. /\ cpuPc'[n] = "woken" /\ cpuState'[n] = "preempt"
            /\ \A d \in Cpus \ {n} : SameCpu(d)
        BY <1>e, <2>1, <3>3 DEF Events
      <4>2. ASSUME NEW d \in Cpus
            PROVE  StateOf(d)'
        BY <1>0, <2>1, <2>2, <4>1, SameCpuState DEF StateOf, Held
      <4>3. \A i \in DOMAIN ioq' : Requested(i)'
        BY <2>1, <2>2, <3>1 DEF Requested
      <4>4. \A q \in Procs : Ended(q)'
        BY <2>1, <2>2, <3>1 DEF Ended, Done, OpType
      <4> QED
        BY <1>0, <2>1, <4>2, <4>3, <4>4, StatePartsNext
    <3> QED
      BY <2>3, <3>2, <3>3 DEF RunTick
  <2>4. ASSUME NEW m \in Cpus, m = supN, NEW r \in Procs, r = cpuCur[m], EndBurst(m, r)
        PROVE  StateInv'
    <3>1. /\ op' = [op EXCEPT ![r] = @ + 1]
          /\ \/ /\ ioq' = Append(ioq, [pcb |-> r, time |-> Program[r][op[r] + 1].time])
                /\ Program[r][op[r] + 1].type = "io" /\ PostEvent(m, "yield", "await")
             \/ /\ Program[r][op[r] + 1].type = "terminate" /\ UNCHANGED ioq
                /\ PostEvent(m, "terminate", "await")
      BY <2>4 DEF EndBurst, submit_io_request
    <3>2. PICK event \in {"yield", "terminate"} : PostEvent(m, event, "await")
      BY <3>1
    <3>3. /\ cpuPc'[m] = "woken" /\ cpuState'[m] = event /\ cpuPc[m] = "running"
          /\ \A d \in Cpus \ {m} : SameCpu(d)
      BY <1>e, <2>1, <3>2 DEF Events
    <3>4. HandlingFor(m, event, r)'
      BY <2>1, <2>4, <3>3 DEF HandlingFor, Handling
    <3>5. op'[r] = op[r] + 1 /\ \A q \in Procs \ {r} : op'[q] = op[q]
      BY <1>0, <2>1, <3>1 DEF SimType
    <3>6. Done(r)' <=> Program[r][op[r] + 1].type = "terminate"
      BY <2>1, <3>5 DEF Done, OpType
    <3>7. \A q \in Procs \ {r} : Done(q)' <=> Done(q)
      BY <3>5 DEF Done, OpType
    <3>8. ASSUME NEW d \in Cpus \ {m}
          PROVE  StateOf(d)'
      BY <1>0, <2>1, <2>2, <3>3, SameCpuState
    <3>9. CASE Program[r][op[r] + 1].type = "io"
      <4>1. /\ ioq' = Append(ioq, [pcb |-> r, time |-> Program[r][op[r] + 1].time])
            /\ PostEvent(m, "yield", "await")
        BY <1>0, <2>1, <3>1, <3>9 DEF PostEvent, SimType
      <4>2. cpuState'[m] = "yield" /\ HandlingFor(m, "yield", r)'
        <5>1. cpuState'[m] = "yield"
          BY <1>0, <2>1, <4>1 DEF PostEvent, SimType
        <5> QED
          BY <3>4, <5>1 DEF HandlingFor
      <4>3. /\ DOMAIN ioq' = 1 .. Len(ioq) + 1 /\ Len(ioq) \in Nat
            /\ ioq'[Len(ioq) + 1].pcb = r
            /\ \A i \in DOMAIN ioq' : (i \in DOMAIN ioq /\ ioq'[i] = ioq[i]) \/ ioq'[i].pcb = r
        BY <1>0, <4>1 DEF SimType
      <4>4. StateOf(m)'
        <5>1. Len(ioq) + 1 \in DOMAIN ioq' /\ ioq'[Len(ioq) + 1].pcb = cpuCur'[m]
          BY <2>1, <2>4, <4>3
        <5> QED
          BY <3>3, <4>2, <5>1 DEF StateOf, Held, HandlingFor
      <4>5. \A i \in DOMAIN ioq' : Requested(i)'
        BY <2>1, <2>2, <4>2, <4>3 DEF Requested, HandlingFor
      <4>6. \A q \in Procs : Ended(q)'
        BY <2>1, <2>2, <3>6, <3>7, <3>9 DEF Ended
      <4> QED
        BY <1>0, <2>1, <3>8, <4>4, <4>5, <4>6, StatePartsNext
    <3>10. CASE Program[r][op[r] + 1].type = "terminate"
      <4>1. UNCHANGED ioq /\ PostEvent(m, "terminate", "await")
        BY <3>1, <3>10
      <4>2. cpuState'[m] = "terminate" /\ HandlingFor(m, "terminate", r)'
        <5>1. cpuState'[m] = "terminate"
          BY <1>0, <2>1, <4>1 DEF PostEvent, SimType
        <5> QED
          BY <3>4, <5>1 DEF HandlingFor
      <4>3. StateOf(m)'
        BY <2>1, <2>4, <3>3, <3>6, <3>10, <4>2 DEF StateOf, Held, Done, OpType
      <4>4. \A i \in DOMAIN ioq' : Requested(i)'
        BY <2>1, <2>2, <4>1 DEF Requested
      <4>5. ASSUME NEW q \in Procs
            PROVE  Ended(q)'
        <5>1. CASE q = r
          BY <2>1, <4>2, <5>1 DEF Ended, HandlingFor
        <5>2. CASE q # r
          BY <2>1, <2>2, <3>7, <5>2 DEF Ended
        <5> QED
          BY <5>1, <5>2
      <4> QED
        BY <1>0, <2>1, <3>8, <4>3, <4>4, <4>5, StatePartsNext
    <3> QED
      BY <3>1, <3>9, <3>10
  <2>5. CASE Misplaced(p)
    BY <1>0, <2>1, <2>5, StateFrame DEF Misplaced, SameCpu
  <2> QED
    BY <1>2, <2>1, <2>3, <2>4, <2>5 DEF SimulateProcess
<1>3. CASE ForcePreemptCheck
  <2>1. /\ supN \in Cpus /\ supPc = "fpCheck" /\ supPc' # "wakePush"
        /\ UNCHANGED <<local, cpuCur, queue, pstate, ioq, op>>
    BY <1>0, <1>3, ForceEffect DEF ForcePreemptCheck, schedVars
  <2>2. CASE UNCHANGED <<cpuPc, cpuState>>
    BY <1>0, <2>1, <2>2, StateFrame DEF SameCpu
  <2>3. CASE PostEvent(supN, "preempt", "fpAwait")
    <3>1. /\ cpuPc'[supN] = "woken" /\ cpuState'[supN] = "preempt"
          /\ \A d \in Cpus \ {supN} : SameCpu(d)
      BY <1>e, <2>1, <2>3 DEF Events
    <3>2. ASSUME NEW d \in Cpus
          PROVE  StateOf(d)'
      BY <1>0, <1>q, <2>1, <3>1, SameCpuState DEF StateOf, Held
    <3>3. \A i \in DOMAIN ioq' : Requested(i)'
      BY <1>q, <2>1 DEF Requested
    <3>4. \A q \in Procs : Ended(q)'
      BY <1>q, <2>1 DEF Ended, Done, OpType
    <3> QED
      BY <1>0, <2>1, <3>2, <3>3, <3>4, StatePartsNext
  <2> QED
    BY <1>0, <1>3, <2>2, <2>3, ForceEffect
<1> QED
  BY <1>1, <1>2, <1>3

LEMMA StateStep ==
  ASSUME SchedulerInv, [Next]_vars, ~lost'
  PROVE  StateInv'
<1>1. CASE UNCHANGED vars
  <2>1. UNCHANGED <<queue, pstate, ioq, op, cpuPc, local, cpuCur, cpuState, supPc, supProc>>
    BY <1>1 DEF vars, schedVars, simVars, supVars, cpuVars
  <2>2. IInv /\ StateInv
    BY LostStays DEF SchedulerInv
  <2> QED
    BY <2>1, <2>2, StateFrame DEF SameCpu
<1> QED
  BY <1>1, StateCpuStep, StateSupStep DEF Next, Exited

-----------------------------------------------------------------------------
(***************************************************************************)
(* Ends of processes, each counted once.                                   *)
(***************************************************************************)
DoneProcs == {p \in Procs : Done(p)}
Counters  == {c \in Cpus : Counting(c)}

LEMMA SubsetOfProcs ==
  ASSUME NEW S, S \subseteq Procs
  PROVE  IsFiniteSet(S) /\ Cardinality(S) \in Nat /\ Cardinality(S) <= ProcCount
<1>1. ProcCount \in Nat \ {0} /\ Procs = 0 .. ProcCount - 1
  BY CountAssumption DEF Procs
<1>2. IsFiniteSet(Procs) /\ Cardinality(Procs) = ProcCount
  BY <1>1, FS_Interval
<1> QED
  BY <1>2, FS_Subset, FS_CardinalityType

LEMMA SubsetOfCpus ==
  ASSUME NEW S, S \subseteq Cpus
  PROVE  IsFiniteSet(S) /\ Cardinality(S) \in Nat
<1>1. CpuCount \in Nat \ {0} /\ Cpus = 0 .. CpuCount - 1
  BY CountAssumption DEF Cpus
<1>2. IsFiniteSet(Cpus)
  BY <1>1, FS_Interval
<1> QED
  BY <1>2, FS_Subset, FS_CardinalityType

LEMMA DoneStays ==
  ASSUME IInv, [Next]_vars
  PROVE  \A p \in Procs : Done(p) => Done(p)'
<1>0. SimType /\ PcInv
  BY DEF IInv, TypeOK
<1>1. CASE UNCHANGED op
  BY <1>1 DEF Done, OpType
<1>2. ASSUME NEW q \in Procs, OpType(q) # "terminate", op' = [op EXCEPT ![q] = @ + 1]
      PROVE  \A p \in Procs : Done(p) => Done(p)'
  BY <1>0, <1>2 DEF Done, OpType, SimType
<1>3. CASE SimulateProcess
  BY <1>1, <1>2, <1>3, Simulated DEF SimulateProcess, RunTick, EndBurst, Misplaced
<1>4. CASE IoDone
  BY <1>2, <1>4, IoHead DEF IoDone
<1>5. UNCHANGED op \/ SimulateProcess \/ IoDone
  BY SimFrame DEF simVars, ForcePreemptCheck, IoTick, Top, Switch
<1> QED
  BY <1>1, <1>3, <1>4, <1>5

LEMMA CountStep ==
  ASSUME IInv, CountInv, [Next]_vars
  PROVE  CountInv'
<1> DEFINE D == DoneProcs
           C == Counters
<1>0. /\ SimType /\ CpuType /\ terminated \in Nat
      /\ terminated + Cardinality(C) <= Cardinality(D)
      /\ supPc = "exit" => terminated >= ProcCount
  BY DEF IInv, TypeOK, TickType, CountInv, DoneProcs, Counters
<1>1. /\ D \subseteq D' /\ D' \subseteq Procs
      /\ Cardinality(D) \in Nat /\ Cardinality(D') \in Nat /\ Cardinality(D) <= Cardinality(D')
  <2>1. D \subseteq D' /\ D' \subseteq Procs
    BY DoneStays DEF DoneProcs
  <2> QED
    BY <2>1, SubsetOfProcs, FS_Subset
<1>2. /\ IsFiniteSet(C) /\ Cardinality(C) \in Nat
      /\ IsFiniteSet(C') /\ Cardinality(C') \in Nat
  BY SubsetOfCpus DEF Counters
<1>r. ASSUME \/ UNCHANGED terminated /\ C' \subseteq C
             \/ /\ UNCHANGED terminated /\ Cardinality(D') > Cardinality(D)
                /\ \E n : C' \subseteq C \cup {n}
             \/ terminated' = terminated + 1 /\ \E c \in C : C' \subseteq C \ {c},
             supPc' = "exit" => supPc = "exit" \/ terminated >= ProcCount
      PROVE  CountInv'
  <2>1. CASE UNCHANGED terminated /\ C' \subseteq C
    <3>1. Cardinality(C') <= Cardinality(C)
      BY <1>2, <2>1, FS_Subset
    <3> QED
      BY <1>0, <1>1, <1>2, <1>r, <2>1, <3>1 DEF CountInv, DoneProcs, Counters
  <2>2. ASSUME UNCHANGED terminated, Cardinality(D') > Cardinality(D),
               NEW n, C' \subseteq C \cup {n}
        PROVE  CountInv'
    <3>1. Cardinality(C') <= Cardinality(C) + 1
      <4>1. /\ IsFiniteSet(C \cup {n})
            /\ Cardinality(C \cup {n}) \in {Cardinality(C), Cardinality(C) + 1}
        <5> HIDE DEF C
        <5> QED
          BY <1>2, FS_AddElement
      <4>2. Cardinality(C \cup {n}) \in Nat /\ Cardinality(C') <= Cardinality(C \cup {n})
        BY <2>2, <4>1, FS_Subset, FS_CardinalityType
      <4> QED
        BY <1>2, <4>1, <4>2
    <3> QED
      BY <1>0, <1>1, <1>2, <1>r, <2>2, <3>1 DEF CountInv, DoneProcs, Counters
  <2>3. ASSUME terminated' = terminated + 1, NEW c \in C, C' \subseteq C \ {c}
        PROVE  CountInv'
    <3>1. Cardinality(C') <= Cardinality(C) - 1
      <4>1. IsFiniteSet(C \ {c}) /\ Cardinality(C \ {c}) = Cardinality(C) - 1
        BY <1>2, <2>3, FS_RemoveElement
      <4> QED
        BY <2>3, <4>1, FS_Subset
    <3>2. ProcCount \in Nat
      BY CountAssumption
    <3> QED
      BY <1>0, <1>1, <1>2, <1>r, <2>3, <3>1, <3>2 DEF CountInv, DoneProcs, Counters
  <2> QED
    BY <1>r, <2>1, <2>2, <2>3
<1>3. CASE SimulateProcess
  <2> DEFINE n == supN
             p == cpuCur[supN]
  <2>1. supPc' # "exit" /\ n \in Cpus /\ p \in Procs /\ UNCHANGED terminated
    BY <1>3, SimulateEffect, Simulated DEF SimulateProcess, tickVars
  <2>2. ASSUME NEW event \in {"preempt", "yield"}, PostEvent(n, event, "await")
        PROVE  C' \subseteq C
    BY <1>0, <2>1, <2>2, PostEventEffect DEF Counters, Counting
  <2>3. CASE RunTick(n, p) \/ Misplaced(p)
    <3>1. CASE UNCHANGED <<cpuPc, cpuState>>
      BY <1>r, <2>1, <3>1 DEF Counters, Counting
    <3> QED
      BY <1>r, <2>1, <2>2, <2>3, <3>1 DEF RunTick, Misplaced
  <2>4. CASE EndBurst(n, p)
    <3>1. /\ op' = [op EXCEPT ![p] = @ + 1] /\ OpType(p) = "cpu"
          /\ \/ PostEvent(n, "yield", "await")
             \/ Program[p][op[p] + 1].type = "terminate" /\ PostEvent(n, "terminate", "await")
      BY <2>4 DEF EndBurst
    <3>2. CASE PostEvent(n, "yield", "await")
      BY <1>r, <2>1, <2>2, <3>2
    <3>3. CASE Program[p][op[p] + 1].type = "terminate" /\ PostEvent(n, "terminate", "await")
      <4>1. PICK q \in Procs : q = p
        BY <2>1
      <4>2. op'[q] = op[q] + 1
        BY <1>0, <3>1, <4>1 DEF SimType
      <4>3. q \notin D /\ q \in D'
        BY <3>1, <3>3, <4>1, <4>2 DEF DoneProcs, Done, OpType
      <4>4. Cardinality(D) # Cardinality(D')
        BY <1>1, <4>3, SubsetOfProcs, FS_Subset
      <4>5. C' \subseteq C \cup {n}
        BY <1>0, <2>1, <3>3, PostEventEffect DEF Counters, Counting
      <4> QED
        BY <1>1, <1>r, <2>1, <4>4, <4>5
    <3> QED
      BY <3>1, <3>2, <3>3
  <2> QED
    BY <1>3, <2>3, <2>4 DEF SimulateProcess
<1>4. CASE ForcePreemptCheck
  <2>1. supPc' # "exit" /\ supN \in Cpus /\ UNCHANGED terminated
    BY <1>4, ForceEffect DEF ForcePreemptCheck, tickVars
  <2>2. C' \subseteq C
    BY <1>0, <1>4, <2>1, ForceEffect, PostEventEffect DEF Counters, Counting
  <2> QED
    BY <1>r, <2>1, <2>2
<1>5. CASE SupStep /\ ~SimulateProcess /\ ~ForcePreemptCheck
  <2>1. C' \subseteq C
    <3>1. UNCHANGED cpuState
      BY <1>5 DEF SupStep, BeginTick, LockGantt, UnlockGantt, SkipCpu, EndCpus, Reacquire,
         NoIo, IoTick, IoDone, Create, NoCreate, EndTick, WakeLock, WakeReady, WakePush,
         WakeScan, WakeUnlock, WakeReturn, ForcePreemptUnlock, ForcePreemptReacquire,
         ForcePreemptLock, simVars
    <3> QED
      BY <1>5, <3>1, QuietSupStep DEF Counters, Counting
  <2>2. UNCHANGED terminated /\ (supPc' = "exit" => terminated >= ProcCount)
    BY <1>0, <1>5 DEF IInv, TypeOK, SupType, SupStep, BeginTick, LockGantt, UnlockGantt,
       SkipCpu, EndCpus, Reacquire,
       NextCpu, NoIo, IoTick, IoDone, Create, NoCreate, EndTick, WakeLock, WakeReady, WakePush,
       WakeScan, WakeUnlock, WakeReturn, ForcePreemptUnlock, ForcePreemptReacquire,
       ForcePreemptLock, SupGo, tickVars
  <2> QED
    BY <1>r, <2>1, <2>2
<1>6. ASSUME NEW c \in Cpus, CpuStep(c)
      PROVE  CountInv'
  <2>1. supPc # "exit" /\ supPc' # "exit"
    BY <1>6 DEF CpuStep, Top, SignalSupervisor, Woken, Count, HandlerLock, MarkState, Preempt,
       Yield, Terminate, PreemptPush, Idle, Pop, Dispatch, SwitchUnlock, Switch, SwitchLock,
       HandlerUnlock, supVars
  <2>2. CASE Count(c)
    <3>1. /\ cpuPc[c] = "count" /\ cpuPc' = [cpuPc EXCEPT ![c] = "wlock"]
          /\ terminated' = terminated + 1 /\ UNCHANGED cpuState
      BY <2>2 DEF Count, CpuGo, simVars
    <3>2. c \in C /\ C' \subseteq C \ {c}
      BY <1>0, <3>1 DEF Counters, Counting, CpuType
    <3> QED
      BY <1>r, <2>1, <3>1, <3>2
  <2>3. CASE ~Count(c)
    <3>1. UNCHANGED terminated
      BY <1>6, <2>3 DEF CpuStep, Top, Woken, HandlerLock, MarkState, Preempt,
         Yield, Terminate, PreemptPush, Idle, Pop, Dispatch, SwitchUnlock, Switch, SwitchLock,
         HandlerUnlock, tickVars
    <3>2. \A d \in Cpus : Counting(d)' => Counting(d)
      BY <1>0, <1>6, <2>3 DEF Counting, CpuStep, CpuType, SimType, CpuGo, Top, Woken,
         HandlerLock, MarkState, Preempt,
         Yield, Terminate, PreemptPush, WakeIdle, Idle, Pop, Dispatch, SwitchUnlock,
         Switch, SwitchLock,
         HandlerUnlock, simVars
    <3> QED
      BY <1>r, <2>1, <3>1, <3>2 DEF Counters
  <2> QED
    BY <2>2, <2>3
<1>7. CASE UNCHANGED vars
  <2>1. UNCHANGED <<terminated, supPc, C>>
    BY <1>7 DEF vars, tickVars, supVars, cpuVars, simVars, Counters, Counting
  <2> QED
    BY <1>r, <2>1
<1> QED
  BY <1>3, <1>4, <1>5, <1>6, <1>7 DEF Next, Exited

(* What the count says of the end, by itself and with SchedulerInv. *)
LEMMA NoneUncounted ==
  ASSUME IInv, CountInv
  PROVE  /\ terminated \in Nat /\ terminated <= Cardinality(DoneProcs)
         /\ supPc = "exit" => DoneProcs = Procs
<1>1. /\ terminated \in Nat
      /\ terminated + Cardinality(Counters) <= Cardinality(DoneProcs)
      /\ supPc = "exit" => terminated >= ProcCount
  BY DEF CountInv, IInv, TypeOK, TickType, DoneProcs, Counters
<1>2. Cardinality(Counters) \in Nat /\ Cardinality(DoneProcs) \in Nat
      /\ DoneProcs \subseteq Procs /\ Cardinality(DoneProcs) <= ProcCount
  BY SubsetOfCpus, SubsetOfProcs DEF Counters, DoneProcs
<1>3. IsFiniteSet(Procs) /\ Cardinality(Procs) = ProcCount /\ ProcCount \in Nat
  <2>1. ProcCount \in Nat \ {0} /\ Procs = 0 .. ProcCount - 1
    BY CountAssumption DEF Procs
  <2> QED
    BY <2>1, FS_Interval
<1>4. ASSUME supPc = "exit"
      PROVE  DoneProcs = Procs
  <2>1. Cardinality(DoneProcs) = Cardinality(Procs)
    BY <1>1, <1>2, <1>3, <1>4
  <2> QED
    BY <1>2, <1>3, <2>1, FS_Subset
<1> QED
  BY <1>1, <1>2, <1>4

LEMMA CountInit ==
  ASSUME Init
  PROVE  CountInv
<1>1. {p \in Procs : Done(p)} = {} /\ {c \in Cpus : Counting(c)} = {}
  BY ProgramsAlternate DEF Init, Sched!Alternating, Done, OpType, Counting
<1>2. terminated = 0 /\ supPc # "exit" /\ Cardinality({}) = 0
  BY FS_EmptySet DEF Init
<1> QED
  BY <1>1, <1>2 DEF CountInv
-----------------------------------------------------------------------------
(***************************************************************************)
(* SchedulerInv is inductive.                                              *)
(***************************************************************************)
LEMMA SchedulerInit ==
  ASSUME Init
  PROVE  SchedulerInv /\ Sched!Init
<1>0. IInv
  BY InitInv
<1> USE DEF Init
<1>1. /\ \A p \in Procs : Unborn(p) /\ ~InWakeUp(p) /\ ~Creating(p)
      /\ \A c \in Cpus : Bound(c) = Null /\ Slice(c) = TimeSlice
  BY ConstantFacts DEF Unborn, InWakeUp, Creating, Bound, Slice, Handling
<1>2. Sched!Init
  BY <1>1 DEF Sched!Init
<1>3. Sched!OnePlace
  <2>1. Sched!Alternating
    BY ProgramsAlternate
  <2>2. Abstract!Init /\ Abstract!Alternating
    BY <1>2, <2>1 DEF Sched!Init, Abstract!Init, Sched!Alternating, Abstract!Alternating
  <2>3. Abstract!IInv
    BY <2>2, Abstract!InitInv
  <2> QED
    BY <2>3 DEF Abstract!IInv, Sched!OnePlace, Sched!One, Sched!ToSet, Sched!Taken,
       Sched!Waiting, Sched!Done, Abstract!OnePlace, Abstract!One, Abstract!ToSet,
       Abstract!Taken, Abstract!Waiting, Abstract!Done
<1>4. EventInv /\ CreateInv
  BY <1>1 DEF EventInv, OneEvent, InEvent, CreateInv, Handling
<1>5. TimerInv /\ ForceInv
  BY <1>1 DEF TimerInv, ForceInv, Handling
<1>6. \A p \in Procs : ~Done(p)
  BY ProgramsAlternate DEF Sched!Alternating, Done, OpType
<1>7. StateInv
  BY <1>1, <1>6 DEF StateInv, Handling, ToSet
<1>8. CountInv
  BY CountInit
<1> QED
  BY <1>0, <1>2, <1>3, <1>4, <1>5, <1>7, <1>8 DEF SchedulerInv

LEMMA SchedulerInvStep ==
  ASSUME SchedulerInv, [Next]_vars
  PROVE  SchedulerInv'
<1>1. IInv'
  BY StepIInv DEF SchedulerInv
<1>2. EventInv' /\ CreateInv' /\ CountInv'
  BY EventInvStep, CreateInvStep, CountStep DEF SchedulerInv
<1>3. ~lost' => Sched!OnePlace' /\ TimerInv' /\ ForceInv' /\ StateInv'
  BY OnePlaceStep, TimerStep, ForceStep, StateStep
<1> QED
  BY <1>1, <1>2, <1>3 DEF SchedulerInv

(***************************************************************************)
(* The inductive invariant holds in every state of every execution, for    *)
(* any numbers of CPUs and processes, programs and policy; its last four   *)
(* parts up to the first lost event.                                       *)
(***************************************************************************)
THEOREM SchedulerInvariance == Spec => []SchedulerInv
<1>1. SchedulerInv /\ [Next]_vars => SchedulerInv'
  BY SchedulerInvStep
<1> QED
  BY <1>1, SchedulerInit, PTL DEF Spec

(***************************************************************************)
(* The threads, with their locks, events and several critical sections per *)
(* operation, implement the abstract scheduler up to the first lost event. *)
(***************************************************************************)
THEOREM Refinement == Spec => ImplementsScheduler
<1>1. Init => Sched!Init
  BY SchedulerInit
<1>2. SchedulerInv /\ [Next]_vars => [lost' \/ Sched!Next]_(Sched!vars)
  BY SchedulerStep
<1> QED
  BY <1>1, <1>2, SchedulerInvariance, PTL DEF Spec, ImplementsScheduler

(* The PCBs are never dropped, nor ever in two places, by any thread. *)
LEMMA PlacesAre ==
  ASSUME IInv, Sched!OnePlace, NEW p \in Procs
  PROVE  \E x : Places(p) = {x}
<1> DEFINE U == {<<"unborn", q>> : q \in {r \in {p} : Unborn(r)}}
           W == {<<"waking", q>> : q \in {r \in {p} : InWakeUp(r)}}
           D == {<<"done", q>>   : q \in {r \in {p} : Done(r)}}
           R == {<<"ready", i>>  : i \in {j \in DOMAIN queue : queue[j] = p}}
           I == {<<"io", i>>     : i \in {j \in DOMAIN ioq : ioq[j].pcb = p}}
           C == {<<"cpu", c>>    : c \in {d \in Cpus : Bound(d) = p}}
<1>0. Places(p) = U \cup W \cup D \cup R \cup I \cup C
  BY DEF Places
<1>1. /\ U = IF Unborn(p) THEN {<<"unborn", p>>} ELSE {}
      /\ W = IF InWakeUp(p) THEN {<<"waking", p>>} ELSE {}
      /\ D = IF Done(p) THEN {<<"done", p>>} ELSE {}
  OBVIOUS
<1>2. p \notin ToSet(queue) => R = {}
  BY DEF ToSet
<1>3. p \in ToSet(queue) => \E x : R = {x}
  <2> SUFFICES ASSUME p \in ToSet(queue) PROVE \E x : R = {x}
    OBVIOUS
  <2>1. PICK i \in DOMAIN queue : queue[i] = p
    BY DEF ToSet
  <2>2. \A j \in DOMAIN queue : queue[j] = p => j = i
    BY <2>1 DEF Sched!OnePlace
  <2>3. R = {<<"ready", i>>}
    BY <2>1, <2>2
  <2> QED
    BY <2>3
<1>4. (\A i \in DOMAIN ioq : ioq[i].pcb # p) => I = {}
  OBVIOUS
<1>5. ASSUME NEW i \in DOMAIN ioq, ioq[i].pcb = p
      PROVE  I = {<<"io", i>>}
  <2>1. \A j \in DOMAIN ioq : ioq[j].pcb = p => j = i
    BY <1>5 DEF IInv, IoInv
  <2> QED
    BY <1>5, <2>1
<1>6. (\A c \in Cpus : Bound(c) # p) => C = {}
  OBVIOUS
<1>7. ASSUME NEW c \in Cpus, Bound(c) = p
      PROVE  C = {<<"cpu", c>>}
  <2>1. \A d \in Cpus : Bound(d) = p => d = c
    BY <1>7, OnlyPlace
  <2> QED
    BY <1>7, <2>1
<1> HIDE DEF U, W, D, R, I, C
<1>8. CASE Unborn(p) \/ InWakeUp(p) \/ Done(p)
  <2>1. R = {} /\ I = {} /\ C = {}
    BY <1>2, <1>4, <1>6, <1>8, OnlyPlace
  <2>2. /\ Unborn(p) => ~InWakeUp(p) /\ ~Done(p)
        /\ InWakeUp(p) => ~Done(p)
    BY OnlyPlace
  <2>3. CASE Unborn(p)
    BY <1>0, <1>1, <2>1, <2>2, <2>3
  <2>4. CASE InWakeUp(p)
    BY <1>0, <1>1, <2>1, <2>2, <2>4
  <2>5. CASE Done(p)
    BY <1>0, <1>1, <2>1, <2>2, <2>5
  <2> QED
    BY <1>8, <2>3, <2>4, <2>5
<1>9. CASE p \in ToSet(queue)
  <2>1. U = {} /\ W = {} /\ D = {} /\ I = {} /\ C = {}
    BY <1>1, <1>4, <1>6, <1>9, OnlyPlace
  <2> QED
    BY <1>0, <1>3, <1>9, <2>1
<1>10. ASSUME NEW i \in DOMAIN ioq, ioq[i].pcb = p
       PROVE  \E x : Places(p) = {x}
  <2>1. U = {} /\ W = {} /\ D = {} /\ R = {} /\ C = {}
    BY <1>1, <1>2, <1>6, <1>10, OnlyPlace
  <2> QED
    BY <1>0, <1>5, <1>10, <2>1
<1>11. ASSUME NEW c \in Cpus, Bound(c) = p
       PROVE  \E x : Places(p) = {x}
  <2>1. U = {} /\ W = {} /\ D = {} /\ R = {} /\ I = {}
    BY <1>1, <1>2, <1>4, <1>11, OnlyPlace
  <2> QED
    BY <1>0, <1>7, <1>11, <2>1
<1> QED
  BY <1>8, <1>9, <1>10, <1>11, OnlyPlace

LEMMA PlacementKnown ==
  ASSUME SchedulerInv
  PROVE  Placement
<1> SUFFICES ASSUME SchedulerInv, ~lost, NEW p \in Procs
             PROVE  Cardinality(Places(p)) = 1
  BY DEF Placement
<1>1. PICK x : Places(p) = {x}
  BY PlacesAre DEF SchedulerInv
<1> QED
  BY <1>1, FS_Singleton

(***************************************************************************)
(* Up to the first lost event each PCB is in exactly one place: unborn, in *)
(* wake_up, in the ready list, on a CPU, in the I/O queue or ended.        *)
(***************************************************************************)
THEOREM ProcessesHavePlaces == Spec => []Placement
<1>1. SchedulerInv => Placement
  BY PlacementKnown
<1> QED
  BY <1>1, SchedulerInvariance, PTL

LEMMA StatesKnown ==
  ASSUME SchedulerInv
  PROVE  StateMatchesPlace
<1> SUFFICES ASSUME SchedulerInv, ~lost PROVE StateMatchesPlace
  BY DEF StateMatchesPlace
<1>1. IInv /\ StateInv /\ \A c \in Cpus : CurrentOf(c)
  BY DEF SchedulerInv, IInv, CurrentInv, CurrentOf
<1>2. \A i \in DOMAIN queue : pstate[queue[i]] = "ready"
  BY <1>1 DEF StateInv, ToSet
<1>3. ASSUME NEW c \in Cpus, cpuPc[c] = "running"
      PROVE  pstate[cpuCur[c]] = "running" /\ current[c] = cpuCur[c]
  <2>1. current[c] = cpuCur[c] /\ cpuCur[c] # Null
    BY <1>1, <1>3 DEF CurrentOf
  <2>2. Bound(c) = cpuCur[c]
    BY <1>3 DEF Bound, Handling
  <2> QED
    BY <1>1, <1>3, <2>1, <2>2 DEF StateInv
<1>4. ASSUME NEW i \in DOMAIN ioq
      PROVE  \/ pstate[ioq[i].pcb] = "waiting"
             \/ \E c \in Cpus : /\ cpuCur[c] = ioq[i].pcb /\ cpuState[c] = "yield"
                                /\ cpuPc[c] \in Handling
  BY <1>1 DEF StateInv, HandlingFor
<1> QED
  BY <1>2, <1>3, <1>4 DEF StateMatchesPlace

(***************************************************************************)
(* The state field of a PCB says where the process is, up to the first     *)
(* lost event, although it is written in other critical sections.          *)
(***************************************************************************)
THEOREM StatesMatchPlaces == Spec => []StateMatchesPlace
<1>1. SchedulerInv => StateMatchesPlace
  BY StatesKnown
<1> QED
  BY <1>1, SchedulerInvariance, PTL

LEMMA EndKnown ==
  ASSUME SchedulerInv, ~lost, supPc = "exit", NEW p \in Procs
  PROVE  pstate[p] = "terminated"
<1>1. Done(p)
  BY NoneUncounted DEF SchedulerInv, DoneProcs
<1>2. \A c \in Cpus : cpuPc[c] \notin Handling
  BY DEF SchedulerInv, EventInv, OneEvent, InEvent
<1> QED
  BY <1>1, <1>2 DEF SchedulerInv, StateInv, HandlingFor

(***************************************************************************)
(* The simulation does not exit early, lost events included; without one   *)
(* it exits with every process TERMINATED.                                 *)
(***************************************************************************)
THEOREM ExitsAfterTheLast == Spec => []NoEarlyExit
<1>1. SchedulerInv => NoEarlyExit
  BY NoneUncounted, EndKnown DEF SchedulerInv, NoEarlyExit, DoneProcs
<1> QED
  BY <1>1, SchedulerInvariance, PTL

LEMMA ForcedRuns ==
  ASSUME IInv, [Next]_vars, supPc = "fpCheck", supPc' = "fpAwait"
  PROVE  cpuPc[supN] = "running"
<1>1. ForcePreemptCheck
  BY QuietSupStep DEF Next, Exited, vars, supVars, CpuStep, SimulateProcess,
     Top, SignalSupervisor, Woken, Count, HandlerLock, MarkState, Preempt, Yield,
     Terminate, PreemptPush, Idle, Pop, Dispatch, SwitchUnlock, Switch, SwitchLock,
     HandlerUnlock
<1>2. cpuState[supN] = "running" /\ supN \in Cpus
  BY <1>1, ForceEffect
<1> QED
  BY <1>2 DEF IInv, CurrentInv

LEMMA JustifiedStep ==
  ASSUME SchedulerInv, [Next]_vars, supPc = "fpCheck", supPc' = "fpAwait", ~lost'
  PROVE  /\ TimeRemaining[cpuCur[supN]] < TimeRemaining[supProc]
         /\ \/ supProc \in ToSet(queue)
            \/ \E c \in Cpus \ {supN} : Bound(c) = supProc
<1>1. IInv /\ EventInv /\ ForceInv /\ SupType /\ SimType /\ supN \in Cpus
  BY LostStays DEF SchedulerInv, IInv, TypeOK, SupInv
<1>2. /\ supProc \in ToSet(queue) \/ \E c \in Cpus : Bound(c) = supProc
      /\ Bound(supN) # Null /\ TimeRemaining[Bound(supN)] < TimeRemaining[supProc]
  BY <1>1 DEF ForceInv
<1>3. cpuPc[supN] = "running"
  BY <1>1, ForcedRuns
<1>4. Bound(supN) = cpuCur[supN]
  BY <1>3 DEF Bound, Handling
<1>5. Bound(supN) # supProc
  <2>1. TimeRemaining[supProc] \in Int
    BY <1>1 DEF SupType, SimType, TimeRemaining
  <2> QED
    BY <1>2, <2>1
<1> QED
  BY <1>2, <1>4, <1>5

(***************************************************************************)
(* force_preempt interrupts the process wake_up chose, with less time      *)
(* remaining than the one that woke up, and that one can run instead.      *)
(***************************************************************************)
THEOREM ForcedPreemptionsAreJustified == Spec => PreemptsShorter
<1>1. SchedulerInv /\ [Next]_vars =>
        [supPc = "fpCheck" /\ supPc' = "fpAwait" /\ ~lost' =>
           /\ TimeRemaining[cpuCur[supN]] < TimeRemaining[supProc]
           /\ \/ supProc \in ToSet(queue)
              \/ \E c \in Cpus \ {supN} : Bound(c) = supProc]_vars
  BY JustifiedStep
<1> QED
  BY <1>1, SchedulerInvariance, PTL DEF Spec, PreemptsShorter

(***************************************************************************)
(* force_preempt tests for CPU_RUNNING: its event always finds the CPU     *)
(* thread waiting for it, whatever was lost before.                        *)
(***************************************************************************)
THEOREM ForcedPreemptionsArrive == Spec => ForcedDelivered
<1>1. IInv /\ [Next]_vars =>
        [supPc = "fpCheck" /\ supPc' = "fpAwait" => cpuPc[supN] = "running"]_vars
  BY ForcedRuns
<1> QED
  BY <1>1, Invariance, PTL DEF Spec, ForcedDelivered
-----------------------------------------------------------------------------
(***************************************************************************)
(* The scan of wake_up.                                                    *)
(***************************************************************************)
LEMMA LeastNumber ==
  ASSUME NEW S, S \subseteq Nat, S # {}
  PROVE  \E n \in S : \A m \in S : n <= m
<1> DEFINE R == {ss \in Nat \X Nat : ss[1] < ss[2]}
<1>1. IsWellFoundedOn(R, Nat)
  BY NatLessThanWellFounded DEF OpToRel
<1>2. ASSUME NEW m \in Nat, NEW n \in Nat, m < n
      PROVE  <<m, n>> \in R
  <2> DEFINE x == <<m, n>>
  <2>1. x \in Nat \X Nat /\ x[1] = m /\ x[2] = n
    OBVIOUS
  <2> QED
    BY <1>2, <2>1
<1> HIDE DEF R
<1>3. PICK n \in S : \A m \in S : <<m, n>> \notin R
  BY <1>1, WFMin
<1>4. ASSUME NEW m \in S
      PROVE  n <= m
  <2>1. m \in Nat /\ n \in Nat /\ ~(m < n)
    BY <1>2, <1>3
  <2> QED
    BY <2>1
<1> QED
  BY <1>4

(* When no CPU is idle and one has less than 10 ticks left, the search     *)
(* ends at one with the least.                                             *)
LEMMA ScanFinds ==
  ASSUME IInv, ScanCount = CpuCount, \A c \in Cpus : current[c] # Null,
         NEW d \in Cpus, TimeRemaining[current[d]] < 10
  PROVE  \E i \in Candidates : Low(i) <= Low(d)
<1> DEFINE T == {Low(i) : i \in Cpus}
<1>1. Scanned = Cpus /\ Cpus \subseteq Nat
  BY CountAssumption DEF Scanned, Cpus
<1>2. \A i \in Cpus : Low(i) \in Nat
  <2>1. \A i \in Cpus : current[i] \in Procs
    BY DEF IInv, TypeOK, SchedType, ProcOrNull
  <2>2. \A p \in Procs : TimeRemaining[p] \in Nat
    BY DEF IInv, TypeOK, SimType, TimeRemaining
  <2> QED
    BY <2>1, <2>2 DEF Low
<1>3. PICK t \in T : \A u \in T : t <= u
  <2>1. T \subseteq Nat /\ T # {}
    BY <1>2
  <2> QED
    BY <2>1, LeastNumber
<1> DEFINE L == {i \in Cpus : Low(i) = t}
<1>4. PICK i \in L : \A j \in L : i <= j
  <2>1. L \subseteq Nat /\ L # {}
    BY <1>1
  <2> QED
    BY <2>1, LeastNumber
<1>5. Low(i) = t /\ t \in Nat /\ \A j \in Cpus : t <= Low(j)
  BY <1>2, <1>3, <1>4
<1>6. Low(d) \in Nat /\ Low(d) < 10 /\ Low(i) <= Low(d)
  BY <1>2, <1>5 DEF Low
<1>7. i \in Candidates
  <2>1. Low(i) < 10
    BY <1>2, <1>5, <1>6
  <2>2. \A j \in Cpus : Low(i) <= Low(j) /\ (Low(i) = Low(j) => i <= j)
    BY <1>4, <1>5
  <2> QED
    BY <1>1, <1>4, <2>1, <2>2 DEF Candidates
<1> QED
  BY <1>6, <1>7

LEMMA ScanStep ==
  ASSUME IInv, [Next]_vars, supPc = "wakeScan", supPc' # supPc, ScanCount = CpuCount,
         \A c \in Cpus : current[c] # Null
  PROVE  /\ supPc' = "fpUnlock" <=>
              \E c \in Cpus : /\ TimeRemaining[current[c]] < 10
                              /\ TimeRemaining[current[c]] < TimeRemaining[supProc]
         /\ supPc' = "fpUnlock" =>
              \A c \in Cpus : TimeRemaining[current[supN']] <= TimeRemaining[current[c]]
<1>1. WakeScan
  BY DEF Next, Exited, vars, supVars, SupStep, SupGo, SimulateProcess, BeginTick, LockGantt,
     UnlockGantt, SkipCpu, EndCpus, Reacquire, NextCpu, NoIo, IoTick, IoDone, Create, NoCreate,
     EndTick, WakeLock, WakeReady, WakePush, WakeUnlock, WakeReturn, ForcePreemptUnlock,
     ForcePreemptCheck, ForcePreemptReacquire, ForcePreemptLock, CpuStep,
     Top, SignalSupervisor, Woken, Count, HandlerLock, MarkState, Preempt, Yield,
     Terminate, PreemptPush, Idle, Pop, Dispatch, SwitchUnlock, Switch, SwitchLock,
     HandlerUnlock
<1>2. Scanned = Cpus
  BY CountAssumption DEF Scanned, Cpus
<1>3. \A i \in Victims : /\ i \in Cpus /\ Low(i) < 10 /\ Low(i) < TimeRemaining[supProc]
                         /\ \A j \in Cpus : Low(i) <= Low(j)
  BY <1>2 DEF Victims, Candidates
<1>4. ASSUME NEW d \in Cpus, Low(d) < 10, Low(d) < TimeRemaining[supProc]
      PROVE  Victims # {}
  <2>1. PICK i \in Candidates : Low(i) <= Low(d)
    BY <1>4, ScanFinds DEF Low
  <2>2. i \in Cpus /\ current[i] \in Procs /\ current[d] \in Procs /\ supProc \in Procs
    BY <1>2, <2>1 DEF IInv, TypeOK, SchedType, SupType, ProcOrNull, Candidates
  <2>3. \A p \in Procs : TimeRemaining[p] \in Nat
    BY DEF IInv, TypeOK, SimType, TimeRemaining
  <2>4. Low(i) < TimeRemaining[supProc]
    BY <1>4, <2>1, <2>2, <2>3 DEF Low
  <2> QED
    BY <2>1, <2>4 DEF Victims
<1>5. supPc' = "fpUnlock" => supN' \in Victims
  BY <1>1 DEF WakeScan, SupGo
<1>6. supPc' = "fpUnlock" <=> Victims # {}
  BY <1>1 DEF WakeScan, SupGo
<1> QED
  BY <1>3, <1>4, <1>5, <1>6 DEF Low

(***************************************************************************)
(* With the scan on and all CPUs busy, wake_up preempts exactly when some  *)
(* process has less time remaining than the one that woke up and less than *)
(* 10 ticks, and then it is one with the least.                            *)
(***************************************************************************)
THEOREM ScanPreemptsShort == Spec => ScanPreempts
<1>1. IInv /\ [Next]_vars =>
        [supPc = "wakeScan" /\ supPc' # supPc /\ ScanCount = CpuCount
           /\ (\A c \in Cpus : current[c] # Null)
           => /\ supPc' = "fpUnlock" <=>
                   \E c \in Cpus : /\ TimeRemaining[current[c]] < 10
                                   /\ TimeRemaining[current[c]] < TimeRemaining[supProc]
              /\ supPc' = "fpUnlock" =>
                   \A c \in Cpus :
                     TimeRemaining[current[supN']] <= TimeRemaining[current[c]]]_vars
  BY ScanStep
<1> QED
  BY <1>1, Invariance, PTL DEF Spec, ScanPreempts

-----------------------------------------------------------------------------
(***************************************************************************)
(* The two races of the code, and that they are the only ones.             *)
(***************************************************************************)
LEMMA PostedTo ==
  ASSUME SchedulerInv, [Next]_vars, supPc = "cpus", supPc' # "cpus", supN < CpuCount
  PROVE  \/ cpuPc[supN] = "running"
         \/ cpuPc[supN] \in {"csLock", "top"} /\ handler[supN] = "idle"
<1>1. supN \in Cpus /\ cpuCur[supN] # Null
  <2>1. supN \in Cpus
    BY CountAssumption DEF SchedulerInv, IInv, TypeOK, SupType, Cpus
  <2>2. supN # CpuCount
    BY <2>1, CountAssumption DEF Cpus
  <2>3. SupStep
    BY EventStep DEF SchedulerInv, Next, Exited, vars, supVars, Top, SignalSupervisor
  <2>4. SimulateProcess
    BY <2>2, <2>3 DEF SupStep, SupGo, BeginTick, LockGantt, UnlockGantt, SkipCpu, EndCpus,
       Reacquire, NextCpu, NoIo, IoTick, IoDone, Create, NoCreate, EndTick, WakeLock,
       WakeReady, WakePush, WakeScan, WakeUnlock, WakeReturn, ForcePreemptUnlock,
       ForcePreemptCheck, ForcePreemptReacquire, ForcePreemptLock
  <2> QED
    BY <2>1, <2>4 DEF SimulateProcess
<1>2. ~InEvent(supN)
  BY <1>1 DEF SchedulerInv, EventInv, OneEvent
<1>3. cpuPc[supN] \in CpuLabels
  BY <1>1 DEF SchedulerInv, IInv, TypeOK, CpuType
<1>4. /\ cpuPc[supN] \in {"idle", "idleBlocked"} => cpuCur[supN] = Null
      /\ cpuPc[supN] \in {"pop", "dispatch", "csUnlock", "csSwitch"} /\ handler[supN] = "idle"
           => cpuCur[supN] = Null
  BY <1>1 DEF SchedulerInv, IInv, CurrentInv, EventInv
<1> QED
  BY <1>1, <1>2, <1>3, <1>4 DEF InEvent, Handling, CpuLabels

(***************************************************************************)
(* An event of simulate_cpus is lost only to a CPU thread that idle() has  *)
(* given its process and that does not wait yet.                           *)
(***************************************************************************)
THEOREM LostOnlyFromIdle == Spec => LossesFromIdle
<1>1. SchedulerInv /\ [Next]_vars =>
        [supPc = "cpus" /\ supPc' # "cpus" /\ supN < CpuCount =>
           \/ cpuPc[supN] = "running"
           \/ cpuPc[supN] \in {"csLock", "top"} /\ handler[supN] = "idle"]_vars
  BY PostedTo
<1> QED
  BY <1>1, SchedulerInvariance, PTL DEF Spec, LossesFromIdle

ReaderCounts == reader = "in" => supPc = "gantt"

LEMMA ReaderStep ==
  ASSUME IInv, ReaderCounts, [Next]_vars
  PROVE  ReaderCounts'
<1> USE DEF ReaderCounts, SupGo
<1>1. CASE LockGantt \/ UnlockGantt
  BY <1>1 DEF LockGantt, UnlockGantt, ReaderUnlock
<1>2. CASE SimulateProcess \/ ForcePreemptCheck
  BY <1>2, SimulateEffect, ForceEffect DEF SimulateProcess, ForcePreemptCheck, irwlVars
<1>3. CASE BeginTick \/ SkipCpu \/ EndCpus \/ Reacquire \/ NoIo \/ IoTick \/ IoDone \/ Create
           \/ NoCreate \/ EndTick \/ WakeReady \/ WakePush \/ WakeScan \/ WakeReturn
           \/ ForcePreemptReacquire
  BY <1>3 DEF BeginTick, SkipCpu, EndCpus, Reacquire, NextCpu, NoIo, IoTick, IoDone, Create,
     NoCreate, EndTick, WakeReady, WakePush, WakeScan, WakeReturn, ForcePreemptReacquire, irwlVars
<1>4. CASE WakeLock \/ WakeUnlock \/ ForcePreemptUnlock \/ ForcePreemptLock
  BY <1>4 DEF WakeLock, WakeUnlock, ForcePreemptUnlock, ForcePreemptLock, WriterLock, WriterUnlock
<1>5. ASSUME NEW c \in Cpus, CpuStep(c)
      PROVE  ReaderCounts'
  <2>1. supPc = "gantt" => supPc' = "gantt"
    BY <1>5, EventStep DEF Top, SignalSupervisor
  <2>2. reader' = "in" => reader = "in"
    BY <1>5 DEF CpuStep, Top, Woken, Count, HandlerLock, MarkState, Preempt, Yield,
       Terminate, PreemptPush, Idle, Pop, Dispatch, SwitchUnlock, Switch, SwitchLock,
       HandlerUnlock, WriterLock, WriterUnlock, irwlVars
  <2> QED
    BY <2>1, <2>2
<1>6. CASE UNCHANGED vars
  BY <1>6 DEF vars, supVars, irwlVars
<1> QED
  BY <1>1, <1>2, <1>3, <1>4, <1>5, <1>6 DEF Next, Exited, SupStep

LEMMA WrittenBy ==
  ASSUME SchedulerInv, ReaderCounts, [Next]_vars, reader = "in", pstate' # pstate
  PROVE  \E c \in Cpus : cpuPc[c] = "dispatch" /\ cpuPc'[c] = "csUnlock" /\ handler[c] = "idle"
<1>1. supPc = "gantt" /\ \A c \in Cpus : ~InEvent(c)
  BY DEF ReaderCounts, SchedulerInv, EventInv, OneEvent
<1>2. PICK c \in Cpus : CpuStep(c)
  BY <1>1 DEF Next, Exited, vars, schedVars, SupStep, SupGo, SimulateProcess, BeginTick, LockGantt,
     UnlockGantt, SkipCpu, EndCpus, Reacquire, NoIo, IoTick, IoDone, Create, NoCreate,
     EndTick, WakeLock, WakeReady, WakePush, WakeScan, WakeUnlock, WakeReturn,
     ForcePreemptUnlock, ForcePreemptCheck, ForcePreemptReacquire, ForcePreemptLock
<1>3. Preempt(c) \/ Yield(c) \/ Terminate(c) \/ Dispatch(c)
  BY <1>2 DEF CpuStep, Top, Woken, Count, HandlerLock, PreemptPush, Idle, Pop, SwitchUnlock,
     Switch, SwitchLock, HandlerUnlock, schedVars
<1>4. ~Preempt(c) /\ ~Yield(c) /\ ~Terminate(c)
  BY <1>1 DEF Preempt, Yield, Terminate, MarkState, CpuGo, InEvent, Handling
<1>5. CpuType
  BY DEF SchedulerInv, IInv, TypeOK
<1> QED
  BY <1>1, <1>3, <1>4, <1>5 DEF Dispatch, CpuGo, CpuType, InEvent

(***************************************************************************)
(* While the Gantt line is printed, schedule() called from idle() is what  *)
(* writes the states; no handler with the writer lock does.                *)
(***************************************************************************)
THEOREM RacesOnlyFromIdle == Spec => RacesFromIdle
<1>1. Init => ReaderCounts
  BY DEF Init, IrwlInit, ReaderCounts
<1>2. SchedulerInv /\ ReaderCounts /\ [Next]_vars => ReaderCounts'
  BY ReaderStep DEF SchedulerInv
<1>3. SchedulerInv /\ ReaderCounts /\ [Next]_vars =>
        [reader = "in" /\ pstate' # pstate =>
           \E c \in Cpus : cpuPc[c] = "dispatch" /\ cpuPc'[c] = "csUnlock"
                          /\ handler[c] = "idle"]_vars
  BY WrittenBy
<1> QED
  BY <1>1, <1>2, <1>3, SchedulerInvariance, PTL DEF Spec, RacesFromIdle

-----------------------------------------------------------------------------
(***************************************************************************)
(* The writers of the inverted lock.                                       *)
(***************************************************************************)
InHandlers == {c \in Cpus : InHandler(c)}
Switching  == {c \in Cpus : IdleSwitching(c)}

LEMMA WritersStep ==
  ASSUME IInv, WritersCount, [Next]_vars
  PROVE  WritersCount'
<1> DEFINE S == IF SupInHandler THEN 1 ELSE 0
           h == Cardinality(InHandlers)
           i == Cardinality(Switching)
<1>0. /\ CpuType /\ SimType /\ SupType /\ writers \in Int
      /\ writers = h + S - i
      /\ h \in Nat /\ i \in Nat /\ IsFiniteSet(InHandlers) /\ IsFiniteSet(Switching)
      /\ \A c \in Cpus : CurrentOf(c)
  BY SubsetOfCpus DEF IInv, TypeOK, IrwlType, WritersCount, InHandlers, Switching,
     CurrentInv, CurrentOf
<1>r. ASSUME writers' = h' + S' - i'
      PROVE  WritersCount'
  BY <1>r DEF WritersCount, InHandlers, Switching
<1>f. ASSUME \A c \in Cpus : (InHandler(c)' <=> InHandler(c)) /\ (IdleSwitching(c)' <=> IdleSwitching(c))
      PROVE  InHandlers' = InHandlers /\ Switching' = Switching
  BY <1>f DEF InHandlers, Switching
<1> HIDE DEF InHandlers
<1>1. CASE SupStep
  <2>1. InHandlers' = InHandlers /\ Switching' = Switching
    <3>1. UNCHANGED handler /\
          \A c \in Cpus : \/ cpuPc'[c] = cpuPc[c]
                          \/ cpuPc[c] = "idleBlocked" /\ cpuPc'[c] = "idle"
                          \/ cpuPc[c] = "running" /\ cpuPc'[c] = "woken"
      BY <1>0, <1>1, QuietSupStep, SimulateEffect, ForceEffect, PostEventEffect
    <3> QED
      BY <1>f, <3>1 DEF InHandler, IdleSwitching
  <2>2. CASE WakeLock \/ ForcePreemptLock
    BY <1>0, <1>r, <2>1, <2>2 DEF WakeLock, ForcePreemptLock, SupGo, WriterLock, SupInHandler
  <2>3. CASE WakeUnlock \/ ForcePreemptUnlock
    BY <1>0, <1>r, <2>1, <2>3 DEF WakeUnlock, ForcePreemptUnlock, SupGo, WriterUnlock, SupInHandler
  <2>4. CASE WakeReady \/ WakePush \/ WakeScan
    BY <1>0, <1>r, <2>1, <2>4 DEF WakeReady, WakePush, WakeScan, SupGo, irwlVars, SupInHandler
  <2>5. CASE SimulateProcess
    <3>1. /\ supPc = "cpus" /\ supPc' \in {"cpus", "await"} /\ UNCHANGED writers
      BY <1>0, <2>5, SimulateEffect DEF SimulateProcess, irwlVars
    <3> QED
      BY <1>0, <1>r, <2>1, <3>1 DEF SupInHandler
  <2>6. CASE ForcePreemptCheck
    <3>1. /\ supPc = "fpCheck" /\ supPc' \in {"fpLock", "fpAwait"} /\ UNCHANGED writers
      BY <1>0, <2>6, ForceEffect DEF ForcePreemptCheck, irwlVars
    <3> QED
      BY <1>0, <1>r, <2>1, <3>1 DEF SupInHandler
  <2>7. CASE LockGantt \/ UnlockGantt
    <3>1. /\ UNCHANGED writers /\ supPc \in {"print", "gantt"}
          /\ supPc' \in {"print", "gantt", "cpus"}
      BY <2>7 DEF LockGantt, UnlockGantt, ReaderLock, ReaderUnlock, SupGo
    <3> QED
      BY <1>0, <1>r, <2>1, <3>1 DEF SupInHandler
  <2>8. CASE BeginTick \/ SkipCpu \/ EndCpus \/ Reacquire \/ NoIo \/ IoTick \/ IoDone
             \/ Create \/ NoCreate \/ EndTick \/ WakeReturn \/ ForcePreemptReacquire
    <3>1. UNCHANGED writers /\ ~SupInHandler /\ ~SupInHandler'
      BY <1>0, <2>8 DEF BeginTick, SkipCpu, EndCpus, Reacquire, NextCpu, NoIo, IoTick, IoDone,
         Create, NoCreate, EndTick, WakeReturn, ForcePreemptReacquire, SupGo, SupType,
         irwlVars, SupInHandler
    <3> QED
      BY <1>0, <1>r, <2>1, <3>1
  <2> QED
    BY <1>1, <2>2, <2>3, <2>4, <2>5, <2>6, <2>7, <2>8 DEF SupStep
<1>2. ASSUME NEW c \in Cpus, CpuStep(c)
      PROVE  WritersCount'
  <2>1. S' = S
    <3>1. supPc' = supPc \/ (supPc \in {"await", "fpAwait"} /\ supPc' \in {"reacquire", "fpReacquire"})
      BY <1>2 DEF CpuStep, Top, SignalSupervisor, Woken, Count, HandlerLock, MarkState, Preempt,
         Yield, Terminate, PreemptPush, Idle, Pop, Dispatch, SwitchUnlock, Switch, SwitchLock,
         HandlerUnlock, supVars
    <3> QED
      BY <3>1 DEF SupInHandler
  <2>2. ASSUME NEW d \in Cpus \ {c}
        PROVE  (InHandler(d)' <=> InHandler(d)) /\ (IdleSwitching(d)' <=> IdleSwitching(d))
    <3>1. /\ handler'[d] = handler[d]
          /\ cpuPc'[d] = cpuPc[d] \/ (cpuPc[d] = "idleBlocked" /\ cpuPc'[d] = "idle")
      BY <1>0, <1>2 DEF CpuStep, CpuType, CpuGo, Top, Woken, Count, HandlerLock, MarkState,
         Preempt, Yield, Terminate, PreemptPush, WakeIdle, Idle, Pop, Dispatch, SwitchUnlock,
         Switch, SwitchLock, HandlerUnlock
    <3> QED
      BY <3>1 DEF InHandler, IdleSwitching
  <2>a. ASSUME InHandler(c)' <=> InHandler(c), IdleSwitching(c)' <=> IdleSwitching(c),
               UNCHANGED writers
        PROVE  WritersCount'
    <3>1. InHandlers' = InHandlers /\ Switching' = Switching
      BY <1>f, <2>2, <2>a
    <3> QED
      BY <1>0, <1>r, <2>1, <2>a, <3>1
  <2>b. ASSUME ~InHandler(c), InHandler(c)', IdleSwitching(c)' <=> IdleSwitching(c),
               writers' = writers + 1
        PROVE  WritersCount'
    <3>1. InHandlers' = InHandlers \cup {c} /\ c \notin InHandlers /\ Switching' = Switching
      BY <2>2, <2>b DEF InHandlers, Switching
    <3>2. h' = h + 1
      BY <1>0, <3>1, FS_AddElement
    <3> QED
      BY <1>0, <1>r, <2>1, <2>b, <3>1, <3>2
  <2>c. ASSUME InHandler(c), ~InHandler(c)', IdleSwitching(c)' <=> IdleSwitching(c),
               writers' = writers - 1
        PROVE  WritersCount'
    <3>1. InHandlers' = InHandlers \ {c} /\ c \in InHandlers /\ Switching' = Switching
      BY <2>2, <2>c DEF InHandlers, Switching
    <3>2. h' = h - 1
      BY <1>0, <3>1, FS_RemoveElement
    <3> QED
      BY <1>0, <1>r, <2>1, <2>c, <3>1, <3>2
  <2>d. ASSUME InHandler(c)' <=> InHandler(c), ~IdleSwitching(c), IdleSwitching(c)',
               writers' = writers - 1
        PROVE  WritersCount'
    <3>1. Switching' = Switching \cup {c} /\ c \notin Switching /\ InHandlers' = InHandlers
      BY <2>2, <2>d DEF InHandlers, Switching
    <3>2. i' = i + 1
      BY <1>0, <3>1, FS_AddElement
    <3> QED
      BY <1>0, <1>r, <2>1, <2>d, <3>1, <3>2
  <2>e. ASSUME InHandler(c)' <=> InHandler(c), IdleSwitching(c), ~IdleSwitching(c)',
               writers' = writers + 1
        PROVE  WritersCount'
    <3>1. Switching' = Switching \ {c} /\ c \in Switching /\ InHandlers' = InHandlers
      BY <2>2, <2>e DEF InHandlers, Switching
    <3>2. i' = i - 1
      BY <1>0, <3>1, FS_RemoveElement
    <3> QED
      BY <1>0, <1>r, <2>1, <2>e, <3>1, <3>2
  <2> USE <1>0 DEF CpuType, CpuGo, InHandler, IdleSwitching
  <2>3. CASE Top(c)
    BY <2>a, <2>3 DEF Top, irwlVars
  <2>4. CASE Woken(c) \/ Count(c)
    BY <2>a, <2>4 DEF Woken, Count, irwlVars
  <2>5. CASE HandlerLock(c)
    BY <2>b, <2>5 DEF HandlerLock, WriterLock
  <2>6. CASE Preempt(c) \/ Yield(c) \/ Terminate(c)
    BY <2>a, <2>6 DEF Preempt, Yield, Terminate, MarkState, irwlVars
  <2>7. CASE PreemptPush(c)
    BY <2>a, <2>7 DEF PreemptPush, WakeIdle, irwlVars, CurrentOf
  <2>8. CASE Idle(c)
    BY <2>a, <2>8 DEF Idle, irwlVars, CurrentOf
  <2>9. CASE Pop(c) \/ Dispatch(c) \/ Switch(c)
    BY <2>a, <2>9 DEF Pop, Dispatch, Switch, irwlVars
  <2>10. CASE SwitchUnlock(c)
    <3>1. CASE handler[c] = "idle"
      BY <2>d, <2>10, <3>1 DEF SwitchUnlock, WriterUnlock
    <3>2. CASE handler[c] # "idle"
      BY <2>c, <2>10, <3>2 DEF SwitchUnlock, WriterUnlock
    <3> QED
      BY <3>1, <3>2
  <2>11. CASE SwitchLock(c)
    <3>1. CASE handler[c] = "idle"
      BY <2>e, <2>11, <3>1 DEF SwitchLock, WriterLock
    <3>2. CASE handler[c] # "idle"
      BY <2>b, <2>11, <3>2 DEF SwitchLock, WriterLock
    <3> QED
      BY <3>1, <3>2
  <2>12. CASE HandlerUnlock(c)
    BY <2>c, <2>12 DEF HandlerUnlock, WriterUnlock
  <2> QED
    BY <1>2, <2>3, <2>4, <2>5, <2>6, <2>7, <2>8, <2>9, <2>10, <2>11, <2>12 DEF CpuStep
<1>3. CASE UNCHANGED vars
  <2>1. UNCHANGED <<cpuPc, handler, supPc, writers>>
    BY <1>3 DEF vars, cpuVars, supVars, irwlVars
  <2>2. InHandlers' = InHandlers /\ Switching' = Switching
    BY <1>f, <2>1 DEF InHandler, IdleSwitching
  <2> QED
    BY <1>0, <1>r, <2>1, <2>2 DEF SupInHandler
<1> QED
  BY <1>1, <1>2, <1>3 DEF Next, Exited

LEMMA WritersInit == Init => WritersCount
<1> SUFFICES ASSUME Init PROVE WritersCount
  OBVIOUS
<1>1. InHandlers = {} /\ Switching = {}
  BY DEF Init, InHandlers, Switching, InHandler, IdleSwitching
<1>2. Cardinality(InHandlers) = 0 /\ Cardinality(Switching) = 0
  BY <1>1, FS_EmptySet
<1>3. writers = 0 /\ ~SupInHandler
  BY DEF Init, IrwlInit, SupInHandler
<1>4. writers = Cardinality(InHandlers) + 0 - Cardinality(Switching)
  BY <1>2, <1>3
<1> QED
  BY <1>3, <1>4 DEF WritersCount, InHandlers, Switching

(***************************************************************************)
(* The writers field is what the handlers in progress make it, less the    *)
(* unlocks without a lock of context_switch() when idle() calls schedule().*)
(***************************************************************************)
THEOREM WritersAreCounted == Spec => []WritersCount
<1>1. IInv /\ WritersCount /\ [Next]_vars => WritersCount'
  BY WritersStep
<1> QED
  BY <1>1, WritersInit, Invariance, PTL DEF Spec

(* The reader sleeps only while the count says that a writer is there: the *)
(* unlock that makes it 0 wakes it, whoever calls it.                      *)
ReaderSleeps == reader = "blocked" => writers > 0 /\ supPc = "print"

LEMMA SleepStep ==
  ASSUME IInv, ReaderSleeps, [Next]_vars
  PROVE  ReaderSleeps'
<1>0. writers \in Int
  BY DEF IInv, TypeOK, IrwlType
<1> USE <1>0 DEF ReaderSleeps, SupGo
<1>1. CASE LockGantt \/ UnlockGantt
  BY <1>1 DEF LockGantt, UnlockGantt, ReaderLock, ReaderUnlock
<1>2. CASE SimulateProcess \/ ForcePreemptCheck
  BY <1>2 DEF SimulateProcess, ForcePreemptCheck, irwlVars
<1>3. CASE BeginTick \/ SkipCpu \/ EndCpus \/ Reacquire \/ NoIo \/ IoTick \/ IoDone \/ Create
           \/ NoCreate \/ EndTick \/ WakeReady \/ WakePush \/ WakeScan \/ WakeReturn
           \/ ForcePreemptReacquire
  BY <1>3 DEF BeginTick, SkipCpu, EndCpus, Reacquire, NoIo, IoTick, IoDone, Create,
     NoCreate, EndTick, WakeReady, WakePush, WakeScan, WakeReturn, ForcePreemptReacquire, irwlVars
<1>4. CASE WakeLock \/ WakeUnlock \/ ForcePreemptUnlock \/ ForcePreemptLock
  BY <1>4 DEF WakeLock, WakeUnlock, ForcePreemptUnlock, ForcePreemptLock, WriterLock, WriterUnlock
<1>5. ASSUME NEW c \in Cpus, CpuStep(c)
      PROVE  ReaderSleeps'
  <2>1. supPc = "print" => supPc' = "print"
    BY <1>5, EventStep DEF Top, SignalSupervisor
  <2>2. UNCHANGED irwlVars \/ WriterLock \/ WriterUnlock
    BY <1>5 DEF CpuStep, Top, Woken, Count, HandlerLock, MarkState, Preempt, Yield,
       Terminate, PreemptPush, Idle, Pop, Dispatch, SwitchUnlock, Switch, SwitchLock,
       HandlerUnlock
  <2> QED
    BY <2>1, <2>2 DEF irwlVars, WriterLock, WriterUnlock
<1>6. CASE UNCHANGED vars
  BY <1>6 DEF vars, supVars, irwlVars
<1> QED
  BY <1>1, <1>2, <1>3, <1>4, <1>5, <1>6 DEF Next, Exited, SupStep

(* More writers than none, so more handlers than idle CPUs that switch *)
LEMMA SleeperHasHandler ==
  ASSUME WritersCount, ReaderSleeps
  PROVE  ReaderIsReleased
<1> SUFFICES ASSUME reader = "blocked" PROVE InHandlers # {} /\ writers > 0
  BY DEF ReaderIsReleased, InHandlers, InHandler, TakesSimMutex
<1>1. writers > 0 /\ ~SupInHandler
  BY DEF ReaderSleeps, SupInHandler
<1>2. Cardinality(Switching) \in Nat
  BY SubsetOfCpus DEF Switching
<1>3. writers = Cardinality(InHandlers) - Cardinality(Switching)
  <2>1. Cardinality(InHandlers) \in Nat
    BY SubsetOfCpus DEF InHandlers
  <2> QED
    BY <1>1, <1>2, <2>1 DEF WritersCount, InHandlers, Switching
<1>4. InHandlers # {}
  BY <1>1, <1>2, <1>3, FS_EmptySet
<1> QED
  BY <1>1, <1>4

(***************************************************************************)
(* The Gantt printer, which keeps simulator_mutex while it waits for the   *)
(* reader lock, waits for a handler that can go on without that mutex.     *)
(***************************************************************************)
THEOREM ReaderReleased == Spec => []ReaderIsReleased
<1>1. Init => ReaderSleeps
  BY DEF Init, IrwlInit, ReaderSleeps
<1>2. IInv /\ ReaderSleeps /\ [Next]_vars => ReaderSleeps'
  BY SleepStep
<1>3. WritersCount /\ ReaderSleeps => ReaderIsReleased
  BY SleeperHasHandler
<1> QED
  BY <1>1, <1>2, <1>3, WritersAreCounted, Invariance, PTL DEF Spec

=============================================================================
