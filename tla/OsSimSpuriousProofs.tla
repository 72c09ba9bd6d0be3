------------------------ MODULE OsSimSpuriousProofs -------------------------
(***************************************************************************)
(* The theorems of OsSimProofs and OsSimSchedulerProofs that survive waits *)
(* of the supervisor that return without a signal.                         *)
(*                                                                         *)
(* IInv says nothing of the events in progress but that every wait is      *)
(* answered, so a wait that ends early keeps it.  SchedulerInv does not    *)
(* survive: with two events in progress at once, a CPU thread may run the  *)
(* handler of one with the state of the other.  Until the first such wait  *)
(* the steps are those of Next, and it holds.                              *)
(***************************************************************************)
EXTENDS OsSimSpurious, OsSimSchedulerProofs

LEMMA SpuriousIInv ==
  ASSUME IInv, SupervisorWakes
  PROVE  IInv'
<1>1. /\ supPc \in {"await", "fpAwait"} /\ supPc' \in {"reacquire", "fpReacquire"}
      /\ supPc' = IF supPc = "await" THEN "reacquire" ELSE "fpReacquire"
      /\ lost' = TRUE
      /\ UNCHANGED <<schedVars, simVars, tickVars, supN, supProc, supRet, cpuVars,
                     irwlVars>>
  BY DEF SupervisorWakes, SupGo
<1>2. TypeOK'
  <2> USE <1>1 DEF IInv, TypeOK
  <2>1. SchedType' /\ CpuType'
    BY DEF SchedType, CpuType, schedVars, cpuVars
  <2>2. SimType' /\ TickType' /\ IrwlType'
    BY DEF SimType, TickType, IrwlType, simVars, tickVars, irwlVars
  <2>3. SupType'
    BY DEF SupType, SupLabels
  <2> QED
    BY <2>1, <2>2, <2>3
<1>3. PcInv' /\ IoInv' /\ CurrentInv'
  BY <1>1 DEF IInv, PcInv, IoInv, OpType, CurrentInv, schedVars, simVars, cpuVars
<1>4. SupInv' /\ NoLostWakeup' /\ AnsweredWait'
  BY <1>1 DEF IInv, SupInv, Creating, NoLostWakeup, AnsweredWait, schedVars, tickVars, cpuVars
<1> QED
  BY <1>2, <1>3, <1>4 DEF IInv

LEMMA SpuriousStep ==
  ASSUME [SNext]_vars
  PROVE  SupervisorWakes \/ [Next]_vars
BY DEF SNext

(* What the threads know of each other, spurious wake-ups included *)
THEOREM SpuriousInvariance == SSpec => []IInv
<1>1. IInv /\ [SNext]_vars => IInv'
  BY SpuriousStep, SpuriousIInv, StepIInv
<1> QED
  BY <1>1, InitInv, PTL DEF SSpec

(***************************************************************************)
(* Up to the first wait that ends early, or event that is lost, everything *)
(* SchedulerInv says is true.                                              *)
(***************************************************************************)
SoundUnlessLost == ~lost => SchedulerInv

LEMMA SoundStep ==
  ASSUME SoundUnlessLost, [SNext]_vars, ~lost'
  PROVE  SchedulerInv /\ [Next]_vars
<1>1. [Next]_vars
  BY SpuriousStep DEF SupervisorWakes
<1> QED
  BY <1>1, LostStays DEF SoundUnlessLost

THEOREM SoundUntilLost == SSpec => []SoundUnlessLost
<1>1. Init => SoundUnlessLost
  BY SchedulerInit DEF SoundUnlessLost
<1>2. SoundUnlessLost /\ [SNext]_vars => SoundUnlessLost'
  BY SoundStep, SchedulerInvStep DEF SoundUnlessLost
<1> QED
  BY <1>1, <1>2, PTL DEF SSpec

(* Each PCB is in exactly one place up to the first lost event or wake-up. *)
THEOREM SpuriousPlaces == SSpec => []Placement
<1>1. SoundUnlessLost => Placement
  BY PlacementKnown DEF SoundUnlessLost, Placement
<1> QED
  BY <1>1, SoundUntilLost, PTL

(* Its state field agrees with its place up to there. *)
THEOREM SpuriousStates == SSpec => []StateMatchesPlace
<1>1. SoundUnlessLost => StateMatchesPlace
  BY StatesKnown DEF SoundUnlessLost, StateMatchesPlace
<1> QED
  BY <1>1, SoundUntilLost, PTL

(* The abstract scheduler is implemented up to there. *)
THEOREM SpuriousRefinement == SSpec => ImplementsScheduler
<1>1. Init => Sched!Init
  BY SchedulerInit
<1>2. SoundUnlessLost /\ [SNext]_vars => [lost' \/ Sched!Next]_(Sched!vars)
  BY SoundStep, SchedulerStep
<1> QED
  BY <1>1, <1>2, SoundUntilLost, PTL DEF SSpec, ImplementsScheduler

(* Forced preemptions are justified up to there. *)
THEOREM SpuriousPreemptsShorter == SSpec => PreemptsShorter
<1>1. SoundUnlessLost /\ [SNext]_vars =>
        [supPc = "fpCheck" /\ supPc' = "fpAwait" /\ ~lost' =>
           /\ TimeRemaining[cpuCur[supN]] < TimeRemaining[supProc]
           /\ \/ supProc \in ToSet(queue)
              \/ \E c \in Cpus \ {supN} : Bound(c) = supProc]_vars
  BY SoundStep, JustifiedStep
<1> QED
  BY <1>1, SoundUntilLost, PTL DEF SSpec, PreemptsShorter

(***************************************************************************)
(* The rest holds for good, however many waits end early: no CPU sleeps    *)
(* while the ready list has a process, no handler dereferences NULL,       *)
(* forced preemptions reach a thread that waits, and writers is exact.     *)
(***************************************************************************)
THEOREM SpuriousIdleCpusWake == SSpec => []NoLostWakeup
<1>1. IInv => NoLostWakeup
  BY DEF IInv
<1> QED
  BY <1>1, SpuriousInvariance, PTL

THEOREM SpuriousWaitsAreAnswered == SSpec => []AnsweredWait
<1>1. IInv => AnsweredWait
  BY DEF IInv
<1> QED
  BY <1>1, SpuriousInvariance, PTL

THEOREM SpuriousNoNull == SSpec => []NoNullPcb
<1>1. IInv => NoNullPcb
  BY NotNull, ConstantFacts DEF NoNullPcb
<1> QED
  BY <1>1, SpuriousInvariance, PTL

THEOREM SpuriousArrives == SSpec => ForcedDelivered
<1>1. IInv /\ [SNext]_vars =>
        [supPc = "fpCheck" /\ supPc' = "fpAwait" => cpuPc[supN] = "running"]_vars
  <2>1. SupervisorWakes => supPc # "fpCheck"
    BY DEF SupervisorWakes, SupGo
  <2> QED
    BY <2>1, SpuriousStep, ForcedRuns
<1> QED
  BY <1>1, SpuriousInvariance, PTL DEF SSpec, ForcedDelivered

THEOREM SpuriousScan == SSpec => ScanPreempts
<1>1. IInv /\ [SNext]_vars =>
        [supPc = "wakeScan" /\ supPc' # supPc /\ ScanCount = CpuCount
           /\ (\A c \in Cpus : current[c] # Null)
           => /\ supPc' = "fpUnlock" <=>
                   \E c \in Cpus : /\ TimeRemaining[current[c]] < 10
                                   /\ TimeRemaining[current[c]] < TimeRemaining[supProc]
              /\ supPc' = "fpUnlock" =>
                   \A c \in Cpus :
                     TimeRemaining[current[supN']] <= TimeRemaining[current[c]]]_vars
  <2>1. SupervisorWakes => supPc # "wakeScan"
    BY DEF SupervisorWakes, SupGo
  <2> QED
    BY <2>1, SpuriousStep, ScanStep
<1> QED
  BY <1>1, SpuriousInvariance, PTL DEF SSpec, ScanPreempts

THEOREM SpuriousWriters == SSpec => []WritersCount
<1>1. ASSUME WritersCount, SupervisorWakes
      PROVE  WritersCount'
  <2>1. UNCHANGED <<writers, cpuPc, handler>> /\ ~SupInHandler /\ ~SupInHandler'
    BY <1>1 DEF SupervisorWakes, SupGo, cpuVars, irwlVars, SupInHandler
  <2>2. UNCHANGED <<{c \in Cpus : InHandler(c)}, {c \in Cpus : IdleSwitching(c)}>>
    BY <2>1 DEF InHandler, IdleSwitching
  <2> QED
    BY <1>1, <2>1, <2>2 DEF WritersCount
<1>2. IInv /\ WritersCount /\ [SNext]_vars => WritersCount'
  BY <1>1, SpuriousStep, WritersStep
<1> QED
  BY <1>2, WritersInit, SpuriousInvariance, PTL DEF SSpec

(* A handler that still runs when the next Gantt line is due: the printer  *)
(* waits for it, and is released.                                          *)
THEOREM SpuriousReader == SSpec => []ReaderIsReleased
<1>1. Init => ReaderSleeps
  BY DEF Init, IrwlInit, ReaderSleeps
<1>2. ReaderSleeps /\ SupervisorWakes => ReaderSleeps'
  BY DEF SupervisorWakes, SupGo, ReaderSleeps, irwlVars
<1>3. IInv /\ ReaderSleeps /\ [SNext]_vars => ReaderSleeps'
  BY <1>2, SpuriousStep, SleepStep
<1>4. WritersCount /\ ReaderSleeps => ReaderIsReleased
  BY SleeperHasHandler
<1> QED
  BY <1>1, <1>3, <1>4, SpuriousWriters, SpuriousInvariance, PTL DEF SSpec

(***************************************************************************)
(* Nor does the simulation exit early: however many events are in progress *)
(* at once, the end of a process is counted by one handler, once.          *)
(***************************************************************************)
THEOREM SpuriousExit == SSpec => []NoEarlyExit
<1>1. ASSUME CountInv, SupervisorWakes
      PROVE  CountInv'
  <2>1. UNCHANGED <<op, terminated, cpuPc, cpuState>> /\ supPc' # "exit"
    BY <1>1 DEF SupervisorWakes, SupGo, cpuVars, simVars, tickVars
  <2>2. UNCHANGED <<{c \in Cpus : Counting(c)}, {p \in Procs : Done(p)}>>
    BY <2>1 DEF Counting, Done, OpType
  <2> QED
    BY <1>1, <2>1, <2>2 DEF CountInv
<1>2. IInv /\ CountInv /\ [SNext]_vars => CountInv'
  BY <1>1, SpuriousStep, CountStep
<1>3. SSpec => []CountInv
  BY <1>2, CountInit, SpuriousInvariance, PTL DEF SSpec
<1>4. IInv /\ CountInv /\ SoundUnlessLost => NoEarlyExit
  BY NoneUncounted, EndKnown DEF SoundUnlessLost, NoEarlyExit, DoneProcs
<1> QED
  BY <1>3, <1>4, SpuriousInvariance, SoundUntilLost, PTL
=============================================================================
