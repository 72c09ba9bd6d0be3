----------------------------- MODULE OsSimProofs ----------------------------
(***************************************************************************)
(* Proofs about the OS simulator, for all values of its constants.         *)
(*                                                                         *)
(* The invariant IInv of OsSimProperties is shown to be inductive: a frame *)
(* lemma per group of variables says which actions change it, and a lemma  *)
(* per conjunct of IInv goes through those actions.                        *)
(***************************************************************************)
EXTENDS OsSimProperties, SequenceTheorems, TLAPS

LEMMA SeqElement ==
  ASSUME NEW S, NEW s \in Seq(S), NEW i \in DOMAIN s
  PROVE  s[i] \in S /\ i \in Nat \ {0}
  OBVIOUS

LEMMA ProgramFacts ==
  ASSUME NEW p \in Procs, NEW i \in DOMAIN Program[p]
  PROVE  /\ 1 \in DOMAIN Program[p]
         /\ i \in Nat \ {0}
         /\ Program[p][i].type \in OpTypes
         /\ Program[p][i].time \in Nat
         /\ Program[p][i].type # "terminate" => i + 1 \in DOMAIN Program[p]
         /\ Program[p][1].type = "cpu"
<1> DEFINE prog == Program[p]
<1>1. WellFormed(prog)
  BY ProgramAssumption
<1>2. prog \in Seq([type : OpTypes, time : Nat]) /\ Len(prog) >= 2 /\ Len(prog) \in Nat
  BY <1>1 DEF WellFormed
<1>3. DOMAIN prog = 1 .. Len(prog)
  BY <1>2
<1>4. prog[i] \in [type : OpTypes, time : Nat]
  BY <1>2, SeqElement
<1>5. prog[i].type = "terminate" <=> i = Len(prog)
  BY <1>1, <1>3 DEF WellFormed
<1>6. prog[1].type = "cpu"
  BY <1>1 DEF WellFormed
<1>7. i \in 1 .. Len(prog) /\ 1 \in 1 .. Len(prog)
  BY <1>2, <1>3
<1>8. prog[i].type # "terminate" => i + 1 \in 1 .. Len(prog)
  BY <1>2, <1>5, <1>7
<1>9. prog[i].type \in OpTypes /\ prog[i].time \in Nat
  BY <1>4
<1> QED
  BY <1>3, <1>6, <1>7, <1>8, <1>9

LEMMA ConstantFacts ==
  /\ 0 \in Procs /\ Procs \subseteq Nat /\ Cpus \subseteq Nat
  /\ Null \notin Procs /\ Null \in ProcOrNull
  /\ \A n \in 0 .. CpuCount : n < CpuCount => n \in Cpus /\ n + 1 \in 0 .. CpuCount
  /\ \A n \in Cpus : n \in 0 .. CpuCount /\ n + 1 \in 0 .. CpuCount
  /\ 0 \in 0 .. CpuCount /\ 0 \in 0 .. ProcCount /\ 0 \in 0 .. CreatePeriod - 1
  /\ \A n \in 0 .. ProcCount : n < ProcCount => n \in Procs /\ n + 1 \in 0 .. ProcCount
  /\ ScanCount \in Nat /\ ScanCount <= CpuCount
  BY CountAssumption DEF Procs, Cpus, Null, ProcOrNull

LEMMA InitInv == Init => IInv
<1> SUFFICES ASSUME Init PROVE IInv
  OBVIOUS
<1>1. \A p \in Procs : 1 \in DOMAIN Program[p] /\ Program[p][1].time \in Nat
  <2> TAKE p \in Procs
  <2>1. 1 \in DOMAIN Program[p]
    BY ProgramAssumption DEF WellFormed
  <2> QED
    BY <2>1, ProgramFacts
<1>2. TypeOK
  <2> USE ConstantFacts DEF Init
  <2>1. SchedType
    BY DEF SchedType
  <2>2. SimType
    BY <1>1 DEF SimType, Handlers
  <2>3. TickType /\ SupType
    BY DEF TickType, SupType, SupLabels
  <2>4. CpuType /\ IrwlType
    BY DEF CpuType, CpuLabels, Handlers, IrwlInit, IrwlType
  <2> QED
    BY <2>1, <2>2, <2>3, <2>4 DEF TypeOK
<1>3. PcInv /\ IoInv
  BY <1>1 DEF Init, PcInv, IoInv
<1>4. CurrentInv
  BY DEF Init, CurrentInv, Handling
<1>5. SupInv /\ NoLostWakeup /\ AnsweredWait
  BY DEF Init, SupInv, Creating, NoLostWakeup, AnsweredWait
<1> QED
  BY <1>2, <1>3, <1>4, <1>5 DEF IInv

(***************************************************************************)
(* Which steps change which group of variables.                            *)
(***************************************************************************)
LEMMA SchedFrame ==
  ASSUME [Next]_vars
  PROVE  \/ UNCHANGED schedVars
         \/ WakeReady \/ WakePush
         \/ \E c \in Cpus : \/ Preempt(c) \/ Yield(c) \/ Terminate(c)
                          \/ PreemptPush(c) \/ Pop(c) \/ Dispatch(c)
  BY DEF Next, vars, SupStep, CpuStep, Exited, BeginTick, LockGantt, UnlockGantt,
     SkipCpu, EndCpus, SimulateProcess, Reacquire, NoIo, IoTick, IoDone, Create,
     NoCreate, EndTick, WakeLock, WakeScan, WakeUnlock, WakeReturn,
     ForcePreemptUnlock, ForcePreemptCheck, ForcePreemptReacquire, ForcePreemptLock,
     Top, Woken, Count, HandlerLock, Idle, SwitchUnlock, Switch, SwitchLock, HandlerUnlock

LEMMA SimFrame ==
  ASSUME [Next]_vars
  PROVE  \/ UNCHANGED simVars
         \/ SimulateProcess \/ IoTick \/ IoDone \/ ForcePreemptCheck
         \/ \E c \in Cpus : Top(c) \/ Switch(c)
  BY DEF Next, vars, SupStep, CpuStep, Exited, BeginTick, LockGantt, UnlockGantt,
     SkipCpu, EndCpus, Reacquire, NoIo, Create,
     NoCreate, EndTick, WakeLock, WakeReady, WakePush, WakeScan, WakeUnlock, WakeReturn,
     ForcePreemptUnlock, ForcePreemptReacquire, ForcePreemptLock,
     Woken, Count, HandlerLock, MarkState, Preempt, Yield, Terminate, PreemptPush,
     Idle, Pop, Dispatch, SwitchUnlock, SwitchLock, HandlerUnlock

LEMMA TickFrame ==
  ASSUME [Next]_vars
  PROVE  \/ UNCHANGED tickVars
         \/ EndTick \/ WakeReturn \/ \E c \in Cpus : Count(c)
  BY DEF Next, vars, SupStep, CpuStep, Exited, BeginTick, LockGantt, UnlockGantt,
     SkipCpu, EndCpus, SimulateProcess, Reacquire, NoIo, IoTick, IoDone, Create,
     NoCreate, WakeLock, WakeReady, WakePush, WakeScan, WakeUnlock,
     ForcePreemptUnlock, ForcePreemptCheck, ForcePreemptReacquire, ForcePreemptLock,
     Top, Woken, HandlerLock, MarkState, Preempt, Yield, Terminate, PreemptPush,
     Idle, Pop, Dispatch, SwitchUnlock, Switch, SwitchLock, HandlerUnlock

LEMMA CpuFrame ==
  ASSUME [Next]_vars
  PROVE  \/ UNCHANGED cpuVars
         \/ SimulateProcess \/ ForcePreemptCheck \/ WakePush
         \/ \E c \in Cpus : CpuStep(c)
  BY DEF Next, vars, SupStep, Exited, BeginTick, LockGantt, UnlockGantt,
     SkipCpu, EndCpus, Reacquire, NoIo, IoTick, IoDone, Create,
     NoCreate, EndTick, WakeLock, WakeReady, WakeScan, WakeUnlock, WakeReturn,
     ForcePreemptUnlock, ForcePreemptReacquire, ForcePreemptLock

LEMMA SupFrame ==
  ASSUME [Next]_vars
  PROVE  UNCHANGED supVars \/ SupStep \/ \E c \in Cpus : Top(c)
  BY DEF Next, vars, CpuStep, Exited,
     Woken, Count, HandlerLock, MarkState, Preempt, Yield, Terminate, PreemptPush,
     Idle, Pop, Dispatch, SwitchUnlock, Switch, SwitchLock, HandlerUnlock

-----------------------------------------------------------------------------
(***************************************************************************)
(* Type correctness, one lemma per group of variables.                     *)
(***************************************************************************)
LEMMA NotNull ==
  ASSUME IInv, NEW c \in Cpus
  PROVE  /\ cpuPc[c] = "body" => current[c] \in Procs
         /\ cpuPc[c] = "push" => local[c] \in Procs
  BY DEF IInv, TypeOK, SchedType, SimType, CpuType, CurrentInv, Handling, ProcOrNull

LEMMA AppendType ==
  ASSUME NEW S, NEW s \in Seq(S), NEW e \in S
  PROVE  Append(s, e) \in Seq(S)
  BY AppendProperties

LEMMA PushType ==
  ASSUME queue \in Seq(Procs), NEW p \in Procs, Push(p)
  PROVE  queue' \in Seq(Procs)
<1>1. CASE queue' = Append(queue, p)
  BY <1>1
<1>2. ASSUME NEW i \in DOMAIN queue, queue' = SubSeq(queue, 1, i)
      PROVE  queue' \in Seq(Procs)
  <2>1. i \in Int /\ \A j \in 1 .. i : queue[j] \in Procs
    OBVIOUS
  <2> QED
    BY <1>2, <2>1, SubSeqProperties
<1> QED
  BY <1>1, <1>2 DEF Push

LEMMA RemoveAtType ==
  ASSUME NEW S, NEW s \in Seq(S), NEW i \in DOMAIN s
  PROVE  RemoveAt(s, i) \in Seq(S)
<1>1. /\ i \in Int /\ i - 1 \in Int /\ i + 1 \in Int /\ Len(s) \in Int
      /\ \A j \in 1 .. i - 1 : s[j] \in S
      /\ \A j \in i + 1 .. Len(s) : s[j] \in S
  OBVIOUS
<1>2. SubSeq(s, 1, i - 1) \in Seq(S)
  BY <1>1, SubSeqProperties
<1>3. SubSeq(s, i + 1, Len(s)) \in Seq(S)
  BY <1>1, SubSeqProperties
<1> QED
  BY <1>2, <1>3, ConcatProperties DEF RemoveAt

LEMMA SchedTypeStep ==
  ASSUME IInv, [Next]_vars
  PROVE  SchedType'
<1> USE DEF SchedType
<1>0. SchedType /\ SupType /\ CpuType
  BY DEF IInv, TypeOK
<1>1. CASE UNCHANGED schedVars
  BY <1>0, <1>1 DEF schedVars
<1>2. CASE WakeReady
  BY <1>0, <1>2 DEF WakeReady, SupType
<1>3. CASE WakePush
  BY <1>0, <1>3, PushType DEF WakePush, SupType
<1>4. ASSUME NEW c \in Cpus, Preempt(c) \/ Yield(c) \/ Terminate(c)
      PROVE  SchedType'
  BY <1>0, <1>4 DEF Preempt, Yield, Terminate, MarkState
<1>5. ASSUME NEW c \in Cpus, PreemptPush(c)
      PROVE  SchedType'
  <2>1. local[c] \in Procs
    BY <1>5, NotNull DEF PreemptPush
  <2> QED
    BY <1>0, <1>5, <2>1, PushType DEF PreemptPush
<1>6. ASSUME NEW c \in Cpus, Pop(c)
      PROVE  SchedType'
  BY <1>0, <1>6, RemoveAtType DEF Pop
<1>7. ASSUME NEW c \in Cpus, Dispatch(c)
      PROVE  SchedType'
  BY <1>0, <1>7 DEF Dispatch, CpuType
<1> QED
  BY <1>1, <1>2, <1>3, <1>4, <1>5, <1>6, <1>7, SchedFrame

LEMMA TickTypeStep ==
  ASSUME IInv, [Next]_vars
  PROVE  TickType'
<1> USE DEF TickType
<1>0. TickType /\ SupType /\ SupInv
  BY DEF IInv, TypeOK
<1>1. CASE UNCHANGED tickVars
  BY <1>0, <1>1 DEF tickVars
<1>2. CASE EndTick
  BY <1>0, <1>2, CountAssumption DEF EndTick
<1>3. CASE WakeReturn
  BY <1>0, <1>3, ConstantFacts DEF WakeReturn, SupGo, SupInv, SupType, Creating
<1>4. ASSUME NEW c \in Cpus, Count(c)
      PROVE  TickType'
  BY <1>0, <1>4 DEF Count
<1> QED
  BY <1>1, <1>2, <1>3, <1>4, TickFrame

LEMMA IrwlTypeStep ==
  ASSUME IrwlType, [Next]_vars
  PROVE  IrwlType'
<1>1. CASE UNCHANGED irwlVars
  BY <1>1 DEF irwlVars, IrwlType
<1>2. CASE WriterLock \/ WriterUnlock \/ ReaderLock \/ ReaderUnlock
  BY <1>2 DEF IrwlType, WriterLock, WriterUnlock, ReaderLock, ReaderUnlock
<1>3. \/ UNCHANGED irwlVars
      \/ WriterLock \/ WriterUnlock \/ ReaderLock \/ ReaderUnlock
  BY DEF Next, vars, SupStep, CpuStep, Exited, BeginTick, LockGantt, UnlockGantt,
     SkipCpu, EndCpus, SimulateProcess, Reacquire, NoIo, IoTick, IoDone, Create,
     NoCreate, EndTick, WakeLock, WakeReady, WakePush, WakeScan, WakeUnlock, WakeReturn,
     ForcePreemptUnlock, ForcePreemptCheck, ForcePreemptReacquire, ForcePreemptLock,
     Top, Woken, Count, HandlerLock, MarkState, Preempt, Yield, Terminate, PreemptPush,
     Idle, Pop, Dispatch, SwitchUnlock, Switch, SwitchLock, HandlerUnlock
<1> QED
  BY <1>1, <1>2, <1>3

LEMMA CurrentOp ==
  ASSUME IInv, NEW p \in Procs
  PROVE  /\ OpType(p) \in OpTypes
         /\ OpType(p) # "terminate" =>
              /\ op[p] + 1 \in DOMAIN Program[p]
              /\ op[p] + 1 \in Nat \ {0}
              /\ Program[p][op[p] + 1].type \in OpTypes
              /\ Program[p][op[p] + 1].time \in Nat
<1>1. op[p] \in DOMAIN Program[p] /\ op[p] \in Nat \ {0}
  BY DEF IInv, PcInv, TypeOK, SimType
<1>2. OpType(p) # "terminate" => op[p] + 1 \in DOMAIN Program[p]
  BY <1>1, ProgramFacts DEF OpType
<1> QED
  BY <1>1, <1>2, ProgramFacts DEF OpType

(* The process simulated on a CPU, and the CPU. *)
LEMMA Simulated ==
  ASSUME IInv, supPc = "cpus", supN < CpuCount, cpuCur[supN] # Null
  PROVE  supN \in Cpus /\ cpuCur[supN] \in Procs
  BY ConstantFacts DEF IInv, TypeOK, SupType, SimType, ProcOrNull

(* The process at the head of the I/O queue, and the queue after it. *)
LEMMA IoHead ==
  ASSUME IInv, ioq # <<>>
  PROVE  /\ 1 \in DOMAIN ioq /\ Head(ioq) = ioq[1]
         /\ Head(ioq).pcb \in Procs /\ Head(ioq).time \in Nat
         /\ OpType(Head(ioq).pcb) = "io"
         /\ Tail(ioq) \in Seq([pcb : Procs, time : Nat])
         /\ DOMAIN Tail(ioq) = 1 .. Len(ioq) - 1
         /\ \A i \in DOMAIN Tail(ioq) : i + 1 \in DOMAIN ioq /\ Tail(ioq)[i] = ioq[i + 1]
<1>1. ioq \in Seq([pcb : Procs, time : Nat]) /\ IoInv
  BY DEF IInv, TypeOK, SimType
<1>2. 1 \in DOMAIN ioq /\ Head(ioq) = ioq[1]
  BY <1>1
<1>3. Head(ioq) \in [pcb : Procs, time : Nat]
  BY <1>1, HeadTailProperties
<1>4. Head(ioq).pcb \in Procs /\ Head(ioq).time \in Nat
  BY <1>3
<1>5. OpType(Head(ioq).pcb) = "io"
  BY <1>1, <1>2 DEF IoInv
<1>6. /\ Tail(ioq) \in Seq([pcb : Procs, time : Nat])
      /\ Len(Tail(ioq)) = Len(ioq) - 1
      /\ \A i \in 1 .. Len(Tail(ioq)) : Tail(ioq)[i] = ioq[i + 1]
  BY <1>1, HeadTailProperties
<1>7. /\ DOMAIN Tail(ioq) = 1 .. Len(ioq) - 1
      /\ \A i \in DOMAIN Tail(ioq) : i + 1 \in DOMAIN ioq
  BY <1>1, <1>6
<1> QED
  BY <1>2, <1>4, <1>5, <1>6, <1>7

LEMMA SimTypeStep ==
  ASSUME IInv, [Next]_vars
  PROVE  SimType'
<1> USE DEF SimType
<1>0. SimType /\ SupType /\ CpuType
  BY DEF IInv, TypeOK
<1>1. CASE UNCHANGED simVars
  BY <1>0, <1>1 DEF simVars
<1>2. CASE SimulateProcess
  <2> DEFINE p == cpuCur[supN]
  <2>0. supN \in Cpus /\ p \in Procs /\ cpuCur' = cpuCur
    BY <1>2, Simulated DEF SimulateProcess
  <2>1. CASE RunTick(supN, p)
    <3>1. left[p] > 0 /\ left' = [left EXCEPT ![p] = @ - 1] /\ UNCHANGED <<op, ioq>>
      BY <2>1 DEF RunTick
    <3>2. left' \in [Procs -> Nat]
      BY <1>0, <2>0, <3>1
    <3>3. timer' \in [Cpus -> Int]
      <4>1. timer' = [timer EXCEPT ![supN] = IF @ > 0 THEN @ - 1 ELSE @]
        BY <2>1 DEF RunTick
      <4> QED
        BY <1>0, <2>0, <4>1
    <3>4. cpuState' \in [Cpus -> Handlers \cup {"running"}]
      BY <1>0, <2>1 DEF RunTick, PostEvent, Handlers
    <3> QED
      BY <1>0, <2>0, <3>1, <3>2, <3>3, <3>4
  <2>2. CASE EndBurst(supN, p)
    <3>1. OpType(p) # "terminate"
      BY <2>2 DEF EndBurst, submit_io_request
    <3> DEFINE next == Program[p][op[p] + 1]
    <3>2. op[p] + 1 \in Nat \ {0} /\ next.time \in Nat
      BY <2>0, <3>1, CurrentOp
    <3>3. op' \in [Procs -> Nat \ {0}] /\ left' \in [Procs -> Nat] /\ timer' \in [Cpus -> Int]
      BY <1>0, <2>2, <3>2 DEF EndBurst, submit_io_request
    <3>4. cpuState' \in [Cpus -> Handlers \cup {"running"}]
      BY <1>0, <2>2 DEF EndBurst, PostEvent, Handlers
    <3> DEFINE r == [pcb |-> p, time |-> next.time]
    <3>5. r \in [pcb : Procs, time : Nat]
      BY <2>0, <3>2
    <3>6. ioq' \in Seq([pcb : Procs, time : Nat])
      <4>1. ioq' = ioq \/ ioq' = Append(ioq, r)
        BY <2>2 DEF EndBurst, submit_io_request
      <4>2. ioq \in Seq([pcb : Procs, time : Nat])
        BY <1>0
      <4> HIDE DEF r
      <4> QED
        BY <3>5, <4>1, <4>2, AppendType, Zenon
    <3> QED
      BY <1>0, <2>0, <3>3, <3>4, <3>6
  <2>3. CASE Misplaced(p)
    BY <1>0, <2>0, <2>3 DEF Misplaced
  <2> QED
    BY <1>2, <2>1, <2>2, <2>3 DEF SimulateProcess
<1>3. CASE IoTick
  <2>1. ioq # <<>> /\ Head(ioq).time > 0 /\ UNCHANGED <<cpuCur, cpuState, timer, op, left>>
    BY <1>3 DEF IoTick
  <2>2. [pcb |-> ioq[1].pcb, time |-> ioq[1].time - 1] \in [pcb : Procs, time : Nat]
    BY <2>1, IoHead
  <2>3. ioq' \in Seq([pcb : Procs, time : Nat])
    BY <1>0, <1>3, <2>1, <2>2, IoHead DEF IoTick
  <2> QED
    BY <1>0, <2>1, <2>3
<1>4. CASE IoDone
  <2> DEFINE p == Head(ioq).pcb
  <2>1. ioq # <<>>
    BY <1>4 DEF IoDone
  <2>2. p \in Procs /\ OpType(p) # "terminate" /\ Tail(ioq) \in Seq([pcb : Procs, time : Nat])
    BY <2>1, IoHead
  <2>3. op[p] + 1 \in Nat \ {0} /\ Program[p][op[p] + 1].time \in Nat
    BY <2>2, CurrentOp
  <2> QED
    BY <1>0, <1>4, <2>2, <2>3 DEF IoDone
<1>5. CASE ForcePreemptCheck
  BY <1>0, <1>5 DEF ForcePreemptCheck, PostEvent, Handlers
<1>6. ASSUME NEW c \in Cpus, Top(c)
      PROVE  SimType'
  BY <1>0, <1>6 DEF Top, Handlers
<1>7. ASSUME NEW c \in Cpus, Switch(c)
      PROVE  SimType'
  BY <1>0, <1>7, PolicyAssumption DEF Switch, CpuType
<1> QED
  BY <1>1, <1>2, <1>3, <1>4, <1>5, <1>6, <1>7, SimFrame

LEMMA PostEventType ==
  ASSUME CpuType, NEW n, NEW event, NEW await, PostEvent(n, event, await)
  PROVE  cpuPc' \in [Cpus -> CpuLabels]
  BY DEF CpuType, PostEvent, CpuLabels

LEMMA CpuStepType ==
  ASSUME IInv, NEW c \in Cpus, CpuStep(c)
  PROVE  CpuType'
<1> USE DEF CpuType
<1>0. CpuType /\ SchedType
  BY DEF IInv, TypeOK
<1>1. CASE Top(c)
  BY <1>0, <1>1 DEF Top, CpuGo, CpuLabels, Handlers
<1>2. CASE Woken(c)
  BY <1>0, <1>2 DEF Woken, CpuGo, CpuLabels
<1>3. CASE Count(c) \/ HandlerLock(c) \/ Idle(c) \/ SwitchUnlock(c) \/ Switch(c)
           \/ SwitchLock(c) \/ HandlerUnlock(c)
  BY <1>0, <1>3 DEF Count, HandlerLock, Idle, SwitchUnlock, Switch, SwitchLock,
     HandlerUnlock, CpuGo, CpuLabels
<1>4. CASE Preempt(c) \/ Yield(c) \/ Terminate(c)
  BY <1>0, <1>4 DEF Preempt, Yield, Terminate, MarkState, SchedType, CpuGo, CpuLabels
<1>5. CASE PreemptPush(c)
  BY <1>0, <1>5 DEF PreemptPush, WakeIdle, CpuLabels
<1>6. CASE Pop(c)
  BY <1>0, <1>6, ConstantFacts DEF Pop, SchedType, CpuGo, CpuLabels, ProcOrNull
<1>7. CASE Dispatch(c)
  BY <1>0, <1>7 DEF Dispatch, CpuGo, CpuLabels
<1> QED
  BY <1>1, <1>2, <1>3, <1>4, <1>5, <1>6, <1>7 DEF CpuStep

LEMMA CpuTypeStep ==
  ASSUME IInv, [Next]_vars
  PROVE  CpuType'
<1>0. CpuType
  BY DEF IInv, TypeOK
<1>1. CASE UNCHANGED cpuVars
  BY <1>0, <1>1 DEF CpuType, cpuVars
<1>2. CASE SimulateProcess
  <2>1. cpuPc' \in [Cpus -> CpuLabels]
    BY <1>0, <1>2, PostEventType
       DEF SimulateProcess, RunTick, EndBurst, submit_io_request, Misplaced, CpuType
  <2> QED
    BY <1>0, <1>2, <2>1 DEF SimulateProcess, CpuType
<1>3. CASE ForcePreemptCheck
  <2>1. cpuPc' \in [Cpus -> CpuLabels]
    BY <1>0, <1>3, PostEventType DEF ForcePreemptCheck, CpuType
  <2> QED
    BY <1>0, <1>3, <2>1 DEF ForcePreemptCheck, CpuType
<1>4. CASE WakePush
  BY <1>0, <1>4 DEF WakePush, WakeIdle, CpuType, CpuLabels
<1> QED
  BY <1>1, <1>2, <1>3, <1>4, CpuStepType, CpuFrame

LEMMA VictimType == Victims \subseteq Cpus
  BY ConstantFacts, CountAssumption DEF Victims, Candidates, Scanned, Cpus

LEMMA SupTypeStep ==
  ASSUME IInv, [Next]_vars
  PROVE  SupType'
<1> USE DEF SupType
<1>0. SupType /\ SimType /\ TickType
  BY DEF IInv, TypeOK
<1>1. CASE UNCHANGED supVars
  BY <1>0, <1>1 DEF supVars
<1>2. ASSUME NEW c \in Cpus, Top(c)
      PROVE  SupType'
  BY <1>0, <1>2 DEF Top, SignalSupervisor, SupLabels
<1>3. CASE BeginTick \/ LockGantt \/ UnlockGantt \/ EndCpus \/ NoIo \/ IoTick
           \/ NoCreate \/ EndTick \/ WakeLock \/ WakeReady \/ WakePush \/ WakeUnlock
           \/ WakeReturn \/ ForcePreemptUnlock \/ ForcePreemptReacquire \/ ForcePreemptLock
  BY <1>0, <1>3, ConstantFacts DEF BeginTick, LockGantt, UnlockGantt, EndCpus, NoIo, IoTick,
     NoCreate, EndTick, WakeLock, WakeReady, WakePush, WakeUnlock, WakeReturn,
     ForcePreemptUnlock, ForcePreemptReacquire, ForcePreemptLock, SupGo, SupLabels
<1>4. CASE SkipCpu \/ Reacquire
  BY <1>0, <1>4, ConstantFacts DEF SkipCpu, Reacquire, NextCpu, SupGo, SupLabels, IInv, SupInv
<1>5. CASE SimulateProcess
  BY <1>0, <1>5, ConstantFacts DEF SimulateProcess, RunTick, EndBurst, Misplaced,
     PostEvent, NextCpu, SupLabels
<1>6. CASE IoDone
  BY <1>0, <1>6, IoHead DEF IoDone, SupGo, SupLabels
<1>7. CASE Create
  BY <1>0, <1>7, ConstantFacts DEF Create, SupGo, SupLabels, TickType
<1>8. CASE WakeScan
  BY <1>0, <1>8, VictimType, ConstantFacts DEF WakeScan, SupGo, SupLabels
<1>9. CASE ForcePreemptCheck
  BY <1>0, <1>9 DEF ForcePreemptCheck, PostEvent, SupLabels
<1> QED
  BY <1>1, <1>2, <1>3, <1>4, <1>5, <1>6, <1>7, <1>8, <1>9, SupFrame DEF SupStep

LEMMA TypeStep ==
  ASSUME IInv, [Next]_vars
  PROVE  TypeOK'
  BY SchedTypeStep, SimTypeStep, TickTypeStep, SupTypeStep, CpuTypeStep, IrwlTypeStep
     DEF IInv, TypeOK

-----------------------------------------------------------------------------
(***************************************************************************)
(* The program counters and the I/O queue: only the end of a burst and the *)
(* end of an I/O move pcb->pc.                                             *)
(***************************************************************************)
LEMMA BurstEnd ==
  ASSUME IInv, SimulateProcess
  PROVE  \/ UNCHANGED <<op, ioq>>
         \/ \E p \in Procs :
              /\ OpType(p) = "cpu"
              /\ op[p] + 1 \in DOMAIN Program[p]
              /\ op' = [op EXCEPT ![p] = @ + 1]
              /\ \/ UNCHANGED ioq
                 \/ /\ Program[p][op[p] + 1].type = "io"
                    /\ ioq' = Append(ioq, [pcb |-> p, time |-> Program[p][op[p] + 1].time])
<1> DEFINE p == cpuCur[supN]
<1>1. p \in Procs
  BY Simulated DEF SimulateProcess
<1>2. CASE EndBurst(supN, p)
  <2>1. OpType(p) = "cpu" /\ op' = [op EXCEPT ![p] = @ + 1]
    BY <1>2 DEF EndBurst, submit_io_request
  <2>2. op[p] + 1 \in DOMAIN Program[p]
    BY <1>1, <2>1, CurrentOp
  <2> QED
    BY <1>1, <1>2, <2>1, <2>2 DEF EndBurst, submit_io_request
<1>3. CASE RunTick(supN, p) \/ Misplaced(p)
  BY <1>3 DEF RunTick, Misplaced
<1> QED
  BY <1>2, <1>3 DEF SimulateProcess

LEMMA PcStep ==
  ASSUME IInv, [Next]_vars
  PROVE  PcInv'
<1>0. PcInv /\ op \in [Procs -> Nat \ {0}]
  BY DEF IInv, TypeOK, SimType
<1>1. CASE UNCHANGED op
  BY <1>0, <1>1 DEF PcInv
<1>2. ASSUME NEW p \in Procs, op[p] + 1 \in DOMAIN Program[p], op' = [op EXCEPT ![p] = @ + 1]
      PROVE  PcInv'
  BY <1>0, <1>2 DEF PcInv
<1>3. CASE SimulateProcess
  BY <1>1, <1>2, <1>3, BurstEnd
<1>4. CASE IoDone
  <2> DEFINE p == Head(ioq).pcb
  <2>1. p \in Procs /\ OpType(p) = "io" /\ op' = [op EXCEPT ![p] = @ + 1]
    BY <1>4, IoHead DEF IoDone
  <2>2. op[p] + 1 \in DOMAIN Program[p]
    BY <2>1, CurrentOp
  <2> QED
    BY <1>2, <2>1, <2>2
<1> QED
  BY <1>1, <1>3, <1>4, SimFrame DEF simVars, IoTick, ForcePreemptCheck, Top, Switch

LEMMA IoStep ==
  ASSUME IInv, [Next]_vars
  PROVE  IoInv'
<1>0. /\ IoInv /\ op \in [Procs -> Nat \ {0}] /\ ioq \in Seq([pcb : Procs, time : Nat])
      /\ \A i \in DOMAIN ioq : ioq[i].pcb \in Procs
  <2>1. ioq \in Seq([pcb : Procs, time : Nat])
    BY DEF IInv, TypeOK, SimType
  <2>2. ASSUME NEW i \in DOMAIN ioq PROVE ioq[i].pcb \in Procs
    <3>1. ioq[i] \in [pcb : Procs, time : Nat]
      BY <2>1, SeqElement
    <3> QED
      BY <3>1
  <2> QED
    BY <2>1, <2>2 DEF IInv, TypeOK, SimType
<1>1. CASE UNCHANGED <<op, ioq>>
  BY <1>0, <1>1 DEF IoInv, OpType
<1>2. CASE SimulateProcess
  <2>1. SUFFICES
          ASSUME NEW p \in Procs, OpType(p) = "cpu",
                 op' = [op EXCEPT ![p] = @ + 1],
                 \/ UNCHANGED ioq
                 \/ /\ Program[p][op[p] + 1].type = "io"
                    /\ ioq' = Append(ioq, [pcb |-> p, time |-> Program[p][op[p] + 1].time])
          PROVE  IoInv'
    BY <1>1, <1>2, BurstEnd
  <2>2. \A i \in DOMAIN ioq : ioq[i].pcb # p
    BY <1>0, <2>1 DEF IoInv
  <2>3. \A i \in DOMAIN ioq : Program[ioq[i].pcb][op'[ioq[i].pcb]].type = "io"
    BY <1>0, <2>1, <2>2 DEF IoInv, OpType
  <2>4. CASE UNCHANGED ioq
    BY <1>0, <2>3, <2>4 DEF IoInv, OpType
  <2> DEFINE r == [pcb |-> p, time |-> Program[p][op[p] + 1].time]
  <2>5. CASE Program[p][op[p] + 1].type = "io" /\ ioq' = Append(ioq, r)
    <3>1. r.pcb = p /\ Program[p][op'[p]].type = "io"
      BY <1>0, <2>1, <2>5
    <3> HIDE DEF r
    <3>2. /\ DOMAIN ioq = 1 .. Len(ioq) /\ Len(ioq) \in Nat
          /\ DOMAIN ioq' = 1 .. Len(ioq) + 1
          /\ ioq'[Len(ioq) + 1] = r
          /\ \A i \in DOMAIN ioq : ioq'[i] = ioq[i]
      BY <1>0, <2>5
    <3>3. ASSUME NEW i \in DOMAIN ioq'
          PROVE  \/ i \in DOMAIN ioq /\ ioq'[i] = ioq[i]
                 \/ i = Len(ioq) + 1 /\ ioq'[i] = r
      BY <3>2
    <3>4. \A i \in DOMAIN ioq' : Program[ioq'[i].pcb][op'[ioq'[i].pcb]].type = "io"
      BY <2>3, <3>1, <3>3
    <3>5. \A i, j \in DOMAIN ioq' : ioq'[i].pcb = ioq'[j].pcb => i = j
      BY <1>0, <2>2, <3>1, <3>3 DEF IoInv
    <3> QED
      BY <3>4, <3>5 DEF IoInv, OpType
  <2> QED
    BY <2>1, <2>4, <2>5
<1>3. CASE IoTick
  <2>1. ioq # <<>> /\ UNCHANGED op
    BY <1>3 DEF IoTick
  <2>2. /\ DOMAIN ioq' = DOMAIN ioq
        /\ \A i \in DOMAIN ioq : ioq'[i].pcb = ioq[i].pcb
    BY <1>0, <1>3, <2>1 DEF IoTick
  <2> QED
    BY <1>0, <2>1, <2>2 DEF IoInv, OpType
<1>4. CASE IoDone
  <2> DEFINE p == Head(ioq).pcb
  <2>1. ioq # <<>> /\ ioq' = Tail(ioq) /\ op' = [op EXCEPT ![p] = @ + 1]
    BY <1>4 DEF IoDone
  <2>2. \A i \in DOMAIN Tail(ioq) :
          /\ i + 1 \in DOMAIN ioq /\ Tail(ioq)[i] = ioq[i + 1]
          /\ ioq[i + 1].pcb # p
    BY <1>0, <2>1, IoHead DEF IoInv
  <2>3. \A i \in DOMAIN Tail(ioq) : op'[Tail(ioq)[i].pcb] = op[Tail(ioq)[i].pcb]
    BY <1>0, <2>1, <2>2
  <2>4. \A i, j \in DOMAIN Tail(ioq) : i + 1 = j + 1 => i = j
    BY <2>1, IoHead
  <2> HIDE DEF p
  <2>5. ASSUME NEW i \in DOMAIN Tail(ioq)
        PROVE  Program[Tail(ioq)[i].pcb][op'[Tail(ioq)[i].pcb]].type = "io"
    BY <1>0, <2>2, <2>3 DEF IoInv, OpType
  <2>6. ASSUME NEW i \in DOMAIN Tail(ioq), NEW j \in DOMAIN Tail(ioq),
               Tail(ioq)[i].pcb = Tail(ioq)[j].pcb
        PROVE  i = j
    BY <1>0, <2>2, <2>4, <2>6 DEF IoInv
  <2> QED
    BY <2>1, <2>5, <2>6 DEF IoInv, OpType
<1> QED
  BY <1>1, <1>2, <1>3, <1>4, SimFrame DEF simVars, ForcePreemptCheck, Top, Switch

-----------------------------------------------------------------------------
(***************************************************************************)
(* What a CPU thread and the simulator know of each other.                 *)
(***************************************************************************)
CurrentOf(c) ==
  /\ IF cpuPc[c] \in {"csUnlock", "csSwitch"}
     THEN current[c] = local[c] ELSE current[c] = cpuCur[c]
  /\ cpuPc[c] \in Handling \cup {"running"} => cpuCur[c] # Null
  /\ cpuPc[c] = "push" => local[c] # Null /\ handler[c] # "idle"
  /\ cpuPc[c] \in {"idle", "idleBlocked"} => cpuCur[c] = Null /\ handler[c] = "idle"
  /\ cpuState[c] = "running" => cpuPc[c] = "running"

(* An event wakes the CPU thread if it waits, and nobody else. *)
LEMMA PostEventEffect ==
  ASSUME CpuType, SimType, NEW n \in Cpus, NEW event \in {"preempt", "yield", "terminate"},
         NEW await, PostEvent(n, event, await)
  PROVE  \A c \in Cpus :
           /\ cpuPc'[c] = IF c = n /\ cpuPc[c] = "running" THEN "woken" ELSE cpuPc[c]
           /\ cpuState'[c] = IF c = n THEN event ELSE cpuState[c]
  BY DEF PostEvent, CpuType, SimType

LEMMA SimulateEffect ==
  ASSUME IInv, SimulateProcess
  PROVE  /\ UNCHANGED <<current, local, cpuCur, handler, queue>>
         /\ supPc = "cpus" /\ supN \in Cpus /\ cpuCur[supN] # Null
         /\ \/ UNCHANGED <<cpuPc, cpuState, supPc>> /\ supN' = supN + 1
            \/ /\ supPc' = "await" /\ UNCHANGED supN
               /\ \E event \in {"preempt", "yield", "terminate"} :
                    PostEvent(supN, event, "await")
<1>1. /\ UNCHANGED <<current, local, cpuCur, handler, queue>>
      /\ supPc = "cpus" /\ supN \in Cpus /\ cpuCur[supN] # Null
  BY Simulated DEF SimulateProcess, schedVars
<1>2. CASE RunTick(supN, cpuCur[supN])
  BY <1>1, <1>2 DEF RunTick, NextCpu, PostEvent
<1>3. CASE EndBurst(supN, cpuCur[supN])
  BY <1>1, <1>3 DEF EndBurst, PostEvent
<1>4. CASE Misplaced(cpuCur[supN])
  BY <1>1, <1>4 DEF Misplaced, NextCpu
<1> QED
  BY <1>1, <1>2, <1>3, <1>4 DEF SimulateProcess

LEMMA ForceEffect ==
  ASSUME IInv, ForcePreemptCheck
  PROVE  /\ UNCHANGED <<current, local, cpuCur, handler, queue, supN>>
         /\ supPc = "fpCheck" /\ supN \in Cpus
         /\ \/ UNCHANGED <<cpuPc, cpuState>> /\ supPc' = "fpLock"
            \/ /\ supPc' = "fpAwait" /\ cpuState[supN] = "running"
               /\ PostEvent(supN, "preempt", "fpAwait")
  BY DEF ForcePreemptCheck, IInv, SupInv, schedVars, PostEvent

LEMMA CpuViewFrame ==
  ASSUME [Next]_vars
  PROVE  \/ UNCHANGED <<queue, current, local, cpuCur, handler, cpuPc, cpuState>>
         \/ SimulateProcess \/ ForcePreemptCheck \/ WakePush
         \/ \E c \in Cpus : CpuStep(c)
<1>1. CASE SupStep
  BY <1>1 DEF SupStep, BeginTick, LockGantt, UnlockGantt, SkipCpu, EndCpus, Reacquire,
     NoIo, IoTick, IoDone, Create, NoCreate, EndTick, WakeLock, WakeReady, WakeScan,
     WakeUnlock, WakeReturn, ForcePreemptUnlock, ForcePreemptReacquire,
     ForcePreemptLock, schedVars, simVars, cpuVars
<1> QED
  BY <1>1 DEF Next, Exited, vars, schedVars, simVars, cpuVars

LEMMA CurrentStep ==
  ASSUME IInv, [Next]_vars
  PROVE  CurrentInv'
<1>0. /\ SchedType /\ SimType /\ CpuType
      /\ \A c \in Cpus : CurrentOf(c)
  BY DEF IInv, TypeOK, CurrentInv, CurrentOf
<1> SUFFICES ASSUME NEW d \in Cpus PROVE CurrentOf(d)'
  BY DEF CurrentInv, CurrentOf
<1> USE DEF CurrentOf, Handling
<1>1. CASE UNCHANGED <<current, local, cpuCur, handler, cpuPc, cpuState>>
  BY <1>0, <1>1
<1>2. CASE SimulateProcess
  BY <1>0, <1>1, <1>2, SimulateEffect, PostEventEffect
<1>3. CASE ForcePreemptCheck
  BY <1>0, <1>1, <1>3, ForceEffect, PostEventEffect
<1>4. CASE WakePush
  BY <1>0, <1>4 DEF WakePush, WakeIdle, simVars
<1>5. ASSUME NEW c \in Cpus, CpuStep(c)
      PROVE  CurrentOf(d)'
  <2> USE <1>0 DEF SchedType, SimType, CpuType, CpuGo
  <2>1. CASE Top(c)
    BY <2>1 DEF Top, schedVars
  <2>2. CASE Woken(c) \/ Count(c) \/ HandlerLock(c) \/ SwitchUnlock(c) \/ SwitchLock(c)
             \/ HandlerUnlock(c) \/ Idle(c)
    BY <2>2 DEF Woken, Count, HandlerLock, SwitchUnlock, SwitchLock,
       HandlerUnlock, Idle, schedVars, simVars
  <2>3. CASE Preempt(c) \/ Yield(c) \/ Terminate(c)
    <3>1. /\ cpuPc[c] = "body"
          /\ \/ cpuPc' = [cpuPc EXCEPT ![c] = "push"] /\ handler[c] = "preempt"
             \/ cpuPc' = [cpuPc EXCEPT ![c] = "pop"]
          /\ local' = [local EXCEPT ![c] = current[c]]
          /\ UNCHANGED <<current, cpuCur, handler, cpuState>>
      BY <2>3 DEF Preempt, Yield, Terminate, MarkState, simVars
    <3> QED
      BY <3>1
  <2>4. CASE PreemptPush(c)
    BY <2>4 DEF PreemptPush, WakeIdle, simVars
  <2>5. CASE Pop(c)
    BY <2>5 DEF Pop, simVars
  <2>6. CASE Dispatch(c)
    BY <2>6 DEF Dispatch, simVars
  <2>7. CASE Switch(c)
    BY <2>7 DEF Switch, schedVars
  <2> QED
    BY <1>5, <2>1, <2>2, <2>3, <2>4, <2>5, <2>6, <2>7 DEF CpuStep
<1> QED
  BY <1>1, <1>2, <1>3, <1>4, <1>5, CpuViewFrame

LEMMA SupInvStep ==
  ASSUME IInv, [Next]_vars
  PROVE  SupInv'
<1> DEFINE WaitLabels == {"await", "reacquire", "fpUnlock", "fpCheck", "fpAwait"}
<1> USE DEF SupInv, Creating
<1>0. SupInv /\ SupType /\ TickType
  BY DEF IInv, TypeOK
<1>1. CASE UNCHANGED <<supVars, created>>
  BY <1>0, <1>1 DEF supVars
<1>2. ASSUME NEW c \in Cpus, Top(c)
      PROVE  SupInv'
  BY <1>0, <1>2 DEF Top, SignalSupervisor, tickVars
<1>3. CASE BeginTick \/ LockGantt \/ UnlockGantt \/ EndCpus \/ SkipCpu \/ Reacquire
           \/ NoIo \/ IoTick \/ NoCreate \/ EndTick
  BY <1>0, <1>3 DEF BeginTick, LockGantt, UnlockGantt, EndCpus, SkipCpu, Reacquire,
     NextCpu, NoIo, IoTick, NoCreate, EndTick, SupGo, tickVars
<1>4. CASE WakeLock \/ WakeReady \/ WakePush \/ WakeUnlock \/ ForcePreemptUnlock
           \/ ForcePreemptReacquire \/ ForcePreemptLock
  BY <1>0, <1>4 DEF WakeLock, WakeReady, WakePush, WakeUnlock, ForcePreemptUnlock,
     ForcePreemptReacquire, ForcePreemptLock, SupGo, tickVars
<1>5. CASE SimulateProcess
  BY <1>0, <1>5, SimulateEffect DEF SimulateProcess, PostEvent, tickVars
<1>6. CASE IoDone \/ Create
  BY <1>0, <1>6 DEF IoDone, Create, SupGo, tickVars, TickType
<1>7. CASE WakeScan
  BY <1>0, <1>7, VictimType DEF WakeScan, SupGo, tickVars
<1>8. CASE ForcePreemptCheck
  BY <1>0, <1>8 DEF ForcePreemptCheck, PostEvent, tickVars
<1>9. CASE WakeReturn
  BY <1>0, <1>9 DEF WakeReturn, SupGo, SupType
<1>10. ASSUME NEW c \in Cpus, Count(c)
       PROVE  SupInv'
  BY <1>0, <1>10 DEF Count, supVars
<1>11. \/ UNCHANGED <<supVars, created>> \/ SupStep
       \/ \E c \in Cpus : Top(c) \/ Count(c)
  BY SupFrame, TickFrame DEF tickVars, SupStep
<1> QED
  BY <1>1, <1>2, <1>3, <1>4, <1>5, <1>6, <1>7, <1>8, <1>9, <1>10, <1>11 DEF SupStep

-----------------------------------------------------------------------------
(***************************************************************************)
(* Waiting and waking: idle CPUs, and the supervisor with the CPU threads. *)
(***************************************************************************)
LEMMA WakeupStep ==
  ASSUME IInv, [Next]_vars
  PROVE  NoLostWakeup'
<1> USE DEF NoLostWakeup
<1>0. NoLostWakeup /\ SchedType /\ CpuType /\ SimType
  BY DEF IInv, TypeOK
<1>1. CASE UNCHANGED <<queue, cpuPc>>
  BY <1>0, <1>1
<1>2. CASE SimulateProcess
  BY <1>0, <1>2, SimulateEffect, PostEventEffect
<1>3. CASE ForcePreemptCheck
  BY <1>0, <1>3, ForceEffect, PostEventEffect
<1>4. CASE WakePush
  BY <1>0, <1>4 DEF WakePush, WakeIdle
<1>5. ASSUME NEW c \in Cpus, CpuStep(c)
      PROVE  NoLostWakeup'
  <2> USE <1>0 DEF CpuType, CpuGo
  <2>1. CASE PreemptPush(c)
    BY <2>1 DEF PreemptPush, WakeIdle
  <2>2. CASE Pop(c)
    BY <2>2 DEF Pop
  <2>3. CASE Idle(c)
    BY <2>3 DEF Idle, schedVars
  <2>4. CASE UNCHANGED queue /\ \A d \in Cpus : cpuPc'[d] = "idleBlocked" => cpuPc[d] = "idleBlocked"
    BY <2>4
  <2>5. CASE Top(c) \/ Woken(c) \/ Count(c) \/ HandlerLock(c) \/ Preempt(c) \/ Yield(c)
             \/ Terminate(c) \/ Dispatch(c) \/ SwitchUnlock(c) \/ Switch(c) \/ SwitchLock(c)
             \/ HandlerUnlock(c)
    BY <2>4, <2>5 DEF Top, Woken, Count, HandlerLock, Preempt, Yield, Terminate, MarkState,
       Dispatch, SwitchUnlock, Switch, SwitchLock, HandlerUnlock, schedVars
  <2> QED
    BY <1>5, <2>1, <2>2, <2>3, <2>5 DEF CpuStep
<1> QED
  BY <1>1, <1>2, <1>3, <1>4, <1>5, CpuViewFrame

(***************************************************************************)
(* A step of a CPU thread: only the supervisor's event puts it inside an   *)
(* event, and until the top of its loop it neither waits nor idles.        *)
(***************************************************************************)
LEMMA EventStep ==
  ASSUME IInv, NEW c \in Cpus, CpuStep(c), NEW d \in Cpus
  PROVE  /\ InEvent(d)' => InEvent(d)
         /\ Top(c) => ~InEvent(c)' /\ cpuPc[c] = "top"
         /\ Top(c) \/ UNCHANGED <<supPc, supN>>
         /\ cpuPc[d] \notin {"running", "idle", "idleBlocked"} /\ (d = c => ~Top(c))
              => cpuPc'[d] \notin {"running", "idle", "idleBlocked"}
<1> USE DEF InEvent, Handling, CpuGo
<1>0. CpuType /\ (cpuPc[c] = "idle" => handler[c] = "idle")
      /\ (Top(c) => cpuPc[c] = "top")
  BY DEF IInv, TypeOK, CurrentInv, Top
<1> USE <1>0 DEF CpuType
<1>1. CASE Top(c)
  BY <1>1 DEF Top
<1>2. CASE Woken(c) \/ Count(c) \/ HandlerLock(c) \/ Preempt(c) \/ Yield(c) \/ Terminate(c)
  BY <1>2 DEF Woken, Count, HandlerLock, Preempt, Yield, Terminate, MarkState, supVars
<1>3. CASE PreemptPush(c)
  BY <1>3 DEF PreemptPush, WakeIdle, supVars
<1>4. CASE Idle(c) \/ Pop(c) \/ Dispatch(c)
  BY <1>4 DEF Idle, Pop, Dispatch, supVars
<1>5. CASE SwitchUnlock(c) \/ Switch(c) \/ SwitchLock(c) \/ HandlerUnlock(c)
  BY <1>5 DEF SwitchUnlock, Switch, SwitchLock, HandlerUnlock, supVars
<1> QED
  BY <1>1, <1>2, <1>3, <1>4, <1>5 DEF CpuStep

(***************************************************************************)
(* A step of the supervisor: it never moves while it waits, and it waits   *)
(* only for the CPU thread to which it has just posted an event.           *)
(***************************************************************************)
LEMMA QuietSupStep ==
  ASSUME IInv, SupStep, ~SimulateProcess, ~ForcePreemptCheck
  PROVE  /\ supPc \notin {"await", "fpAwait"} /\ supPc' \notin {"await", "fpAwait"}
         /\ UNCHANGED handler
         /\ \A d \in Cpus : \/ cpuPc'[d] = cpuPc[d]
                            \/ cpuPc[d] = "idleBlocked" /\ cpuPc'[d] = "idle"
<1> USE DEF SupGo
<1>0. CpuType /\ SupType
  BY DEF IInv, TypeOK
<1>1. CASE WakePush
  BY <1>0, <1>1 DEF WakePush, WakeIdle, CpuType
<1>2. CASE BeginTick \/ LockGantt \/ UnlockGantt \/ SkipCpu \/ EndCpus \/ Reacquire
           \/ NoIo \/ IoTick \/ IoDone \/ Create \/ NoCreate \/ EndTick
  BY <1>0, <1>2 DEF BeginTick, LockGantt, UnlockGantt, SkipCpu, EndCpus, Reacquire, NextCpu,
     NoIo, IoTick, IoDone, Create, NoCreate, EndTick, cpuVars
<1>3. CASE WakeLock \/ WakeReady \/ WakeScan \/ WakeUnlock \/ WakeReturn
           \/ ForcePreemptUnlock \/ ForcePreemptReacquire \/ ForcePreemptLock
  BY <1>0, <1>3 DEF WakeLock, WakeReady, WakeScan, WakeUnlock, WakeReturn,
     ForcePreemptUnlock, ForcePreemptReacquire, ForcePreemptLock, cpuVars, SupType
<1> QED
  BY <1>1, <1>2, <1>3 DEF SupStep

LEMMA AnsweredStep ==
  ASSUME IInv, [Next]_vars
  PROVE  AnsweredWait'
<1> USE DEF AnsweredWait
<1>0. /\ AnsweredWait /\ SupInv /\ CurrentInv
      /\ SupType /\ CpuType /\ SimType
  BY DEF IInv, TypeOK
<1>1. CASE UNCHANGED <<cpuPc, supPc, supN>>
  BY <1>0, <1>1
<1>2. ASSUME NEW c \in Cpus, CpuStep(c)
      PROVE  AnsweredWait'
  <2>1. CASE Top(c)
    <3>1. supPc' \in {"await", "fpAwait"} => supPc' = supPc /\ supN # c
      BY <1>0, <2>1 DEF Top, SignalSupervisor, SupType
    <3>2. supN' = supN /\ (supPc \in {"await", "fpAwait"} => supN \in Cpus)
      BY <1>0, <2>1 DEF Top, SupInv
    <3> QED
      BY <1>0, <1>2, <2>1, <3>1, <3>2, EventStep
  <2>2. CASE UNCHANGED <<supPc, supN>> /\ ~Top(c)
    BY <1>0, <1>2, <2>2, EventStep DEF SupInv
  <2> QED
    BY <1>2, <2>1, <2>2, EventStep
<1>3. CASE SupStep /\ ~SimulateProcess /\ ~ForcePreemptCheck
  BY <1>3, QuietSupStep
<1>4. CASE SimulateProcess
  <2>1. cpuPc[supN] \notin {"idle", "idleBlocked"}
    BY <1>0, <1>4, SimulateEffect DEF CurrentInv
  <2>2. CASE supPc' = "cpus"
    BY <2>2
  <2>3. ASSUME NEW event \in {"preempt", "yield", "terminate"}, PostEvent(supN, event, "await"),
               supPc' = "await", UNCHANGED supN
        PROVE  AnsweredWait'
    BY <1>0, <1>4, <2>1, <2>3, SimulateEffect, PostEventEffect
  <2> QED
    BY <1>4, <2>2, <2>3, SimulateEffect
<1>5. CASE ForcePreemptCheck
  <2>1. CASE supPc' = "fpLock"
    BY <2>1
  <2>2. CASE /\ supPc' = "fpAwait" /\ cpuState[supN] = "running"
             /\ PostEvent(supN, "preempt", "fpAwait")
    <3>1. cpuPc[supN] = "running" /\ supN \in Cpus /\ UNCHANGED supN
      BY <1>0, <1>5, <2>2, ForceEffect DEF CurrentInv
    <3> QED
      BY <1>0, <2>2, <3>1, PostEventEffect
  <2> QED
    BY <1>5, <2>1, <2>2, ForceEffect
<1> QED
  BY <1>1, <1>2, <1>3, <1>4, <1>5 DEF Next, Exited, vars, cpuVars, supVars

LEMMA OneEventStep ==
  ASSUME IInv, OneEvent, [Next]_vars
  PROVE  OneEvent'
<1> USE DEF OneEvent
<1>0. /\ SupInv /\ CurrentInv
      /\ SupType /\ CpuType /\ SimType
  BY DEF IInv, TypeOK
<1>1. CASE UNCHANGED <<cpuPc, handler, supPc, supN>>
  BY <1>1 DEF InEvent
<1>2. ASSUME NEW c \in Cpus, CpuStep(c)
      PROVE  OneEvent'
  <2>1. CASE Top(c)
    <3>1. supPc' \in {"await", "fpAwait"} => supPc' = supPc /\ supN # c
      BY <1>0, <2>1 DEF Top, SignalSupervisor, SupType
    <3>2. supN' = supN
      BY <2>1 DEF Top
    <3>3. supN = c \/ supPc' = supPc
      BY <2>1 DEF Top, SignalSupervisor
    <3> QED
      BY <1>0, <1>2, <2>1, <3>1, <3>2, <3>3, EventStep
  <2>2. CASE UNCHANGED <<supPc, supN>> /\ ~Top(c)
    BY <1>2, <2>2, EventStep
  <2> QED
    BY <1>2, <2>1, <2>2, EventStep
<1>3. CASE SupStep /\ ~SimulateProcess /\ ~ForcePreemptCheck
  BY <1>0, <1>3, QuietSupStep DEF InEvent, Handling
<1>4. CASE SimulateProcess
  <2>1. \A d \in Cpus : ~InEvent(d)
    BY <1>0, <1>4, SimulateEffect
  <2>2. CASE UNCHANGED cpuPc
    BY <1>4, <2>1, <2>2, SimulateEffect DEF InEvent
  <2>3. ASSUME NEW event \in {"preempt", "yield", "terminate"}, PostEvent(supN, event, "await"),
               supPc' = "await", UNCHANGED supN
        PROVE  OneEvent'
    BY <1>0, <1>4, <2>1, <2>3, SimulateEffect, PostEventEffect DEF InEvent, Handling
  <2> QED
    BY <1>4, <2>2, <2>3, SimulateEffect
<1>5. CASE ForcePreemptCheck
  <2>1. \A d \in Cpus : ~InEvent(d)
    BY <1>0, <1>5, ForceEffect
  <2>2. CASE UNCHANGED cpuPc
    BY <1>5, <2>1, <2>2, ForceEffect DEF InEvent
  <2>3. CASE supPc' = "fpAwait" /\ PostEvent(supN, "preempt", "fpAwait")
    BY <1>0, <1>5, <2>1, <2>3, ForceEffect, PostEventEffect DEF InEvent, Handling
  <2> QED
    BY <1>5, <2>2, <2>3, ForceEffect
<1> QED
  BY <1>1, <1>2, <1>3, <1>4, <1>5 DEF Next, Exited, vars, cpuVars, supVars

-----------------------------------------------------------------------------
LEMMA StepIInv ==
  ASSUME IInv, [Next]_vars
  PROVE  IInv'
  BY TypeStep, PcStep, IoStep, CurrentStep, SupInvStep, WakeupStep, AnsweredStep DEF IInv

(***************************************************************************)
(* IInv holds in every state of every execution, for any numbers of CPUs   *)
(* and processes, any well-formed programs and any policy, whether or not  *)
(* events are lost.                                                        *)
(***************************************************************************)
THEOREM Invariance == Spec => []IInv
<1>1. Init => IInv
  BY InitInv
<1>2. IInv /\ [Next]_vars => IInv'
  BY StepIInv
<1> QED
  BY <1>1, <1>2, PTL DEF Spec

(* Every variable keeps its type: list and queue operations included. *)
THEOREM TypeCorrect == Spec => []TypeOK
<1>1. IInv => TypeOK
  BY DEF IInv
<1> QED
  BY <1>1, Invariance, PTL

(***************************************************************************)
(* idle(): no CPU stays asleep while the ready list has a process.         *)
(***************************************************************************)
THEOREM IdleCpusWake == Spec => []NoLostWakeup
<1>1. IInv => NoLostWakeup
  BY DEF IInv
<1> QED
  BY <1>1, Invariance, PTL

(***************************************************************************)
(* simulate_process and force_preempt: a CPU thread the supervisor waits   *)
(* for is on its way to the signal that ends the wait.                     *)
(***************************************************************************)
THEOREM WaitsAreAnswered == Spec => []AnsweredWait
<1>1. IInv => AnsweredWait
  BY DEF IInv
<1> QED
  BY <1>1, Invariance, PTL

(***************************************************************************)
(* At most one preempt, yield or terminate is in progress, and the         *)
(* supervisor waits for it.                                                *)
(***************************************************************************)
THEOREM EventsAreSerial == Spec => []OneEvent
<1>1. Init => OneEvent
  BY DEF Init, OneEvent, InEvent, Handling
<1>2. IInv /\ OneEvent /\ [Next]_vars => OneEvent'
  BY OneEventStep
<1> QED
  BY <1>1, <1>2, Invariance, PTL DEF Spec

(* preempt, yield and terminate never dereference a NULL current[cpu_id]. *)
THEOREM NoNullDereference == Spec => []NoNullPcb
<1>1. IInv => NoNullPcb
  <2> SUFFICES ASSUME IInv, NEW c \in Cpus, cpuPc[c] = "body" PROVE current[c] # Null
    BY DEF NoNullPcb
  <2> QED
    BY NotNull, ConstantFacts
<1> QED
  BY <1>1, Invariance, PTL

=============================================================================
