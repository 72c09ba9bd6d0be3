# Verification of the computer-systems simulators

This directory holds TLA+ models of the simulators in `src/`, the TLC runs that
check them on small instances, and theorems about them that the TLA+ proof
system checks for every instance.

The repository holds four independent programs:

| directory | program | here |
|---|---|---|
| `OS_Threaded_Scheduling` | a CPU scheduler (`student.c`) run by a threaded OS simulator (`os-sim.c`) | modelled, checked, proved, refinement proved |
| `Virtual_Memory` | demand paging with swap, driven by a trace | modelled, checked, proved, refinement proved |
| `Multi_Level_Cache` | split L1 caches and an LRU L2, driven by a trace | modelled, checked, proved, refinement proved |
| `Pipelined_MIPS_Processor` | a five-stage MIPS pipeline in VHDL | modelled, checked, proved, refinement proved |

They share no code. The models take them in the order of how much can go wrong
that a test does not show: real threads first, then a sequential program with
many pieces of related state, then a smaller one, then the hardware.

## 1. Inventory

### 1.1 OS_Threaded_Scheduling

**Parts and state.**

* *Supervisor thread* (`simulator_supervisor_thread`). It advances the simulated
  time: print a Gantt line, simulate one tick on each CPU, one tick of the I/O
  device, create a process every tenth tick. State: `simulator_time`,
  `processes_created`, `processes_terminated`, the I/O queue, and per process the
  current operation and the time left in it.
* *CPU threads* (`simulator_cpu_thread`), one per simulated CPU. Each waits on a
  condition variable of its own for an event and calls the scheduler's handler
  for it. State: `simulator_cpu_data[]` (state, current process, preemption timer).
* *Scheduler* (`student.c`): `idle`, `preempt`, `yield`, `terminate`, `wake_up`,
  `schedule`; FIFO, round robin or longest remaining time first (LRTF). State:
  the ready list and `current[]`.
* *Student API* (`context_switch`, `force_preempt`), called by the scheduler.
* *Inverted readers-writers lock* (`IRWL_*`) around the handlers: many writers
  (handlers) or one reader (the Gantt printer).
* *Process programs* (`process.c`): constant lists of CPU and I/O bursts.
* *Command line* (`main` of `student.c`): number of CPUs, policy, time slice.

**Interaction.** Calls go both ways: the supervisor and the CPU threads call
the handlers, the handlers call `context_switch` and `force_preempt`, which
release and take the locks the caller holds. Threads meet through
`simulator_mutex`, `current_mutex`, `ready_mutex`, the lock above, `not_idle`, and
the condition variable of each CPU, on which *both* the CPU thread and the
supervisor wait.

**What is hard.** Events signalled to a thread that is not waiting; state read
under one lock and used under another; a lock released that was never taken;
several CPUs racing for one process; the supervisor waiting, with or without
`simulator_mutex`, on threads that need it; termination.

**What makes it correct.** No process is lost or duplicated, each runs its
program; the supervisor's waits end; idle CPUs wake; forced preemption hits
what it was meant for; the simulation ends, and not before all processes do.

### 1.2 Virtual_Memory

**Parts and state.** The *driver* (`pagesim.c`) reads START, STOP, and memory
accesses, and keeps PCBs, `current_process` and PTBR. *Paging* (`paging.c`) sets up
and tears down page tables and performs accesses; *page faults*
(`page_fault.c`) and *replacement* (`page_replacement.c`) move pages between
frames and *swap* (`swap.c`, `swapops.c`: a queue of entries and a token counter).
The frame table, the page tables and the pages share one array `mem`.

**Interaction.** Plain calls: `mem_access` → `page_fault` → `free_frame` →
`select_victim_frame`, `swap_write`; `proc_init` → `free_frame`; `proc_cleanup` →
`swap_free`. `check_validity` inspects everything after each line with `-c`.

**What is hard.** Page table entries, the frame table, the swap queue and
PTBR must agree through any sequence of lines: an eviction changes another process's
table, a STOP must find everything, a cached PTBR may be stale.

**What makes it correct.** `check_validity` never panics; swap entries have one
owner and are freed; a panic happens only when memory really is full; and, above
all, each process sees private memory in which a read returns the last write.

### 1.3 Multi_Level_Cache

**Parts and state.** `l1_cachesim_access` (direct-mapped `i_cache` and `d_cache`: tag,
valid and dirty bits) calls `l2_cachesim_access` (sets of ways with LRU counters)
on a miss; `main.c` feeds it a trace; `cachesim_print_stats` prints counters.

**What is hard.** LRU counters updated in place must stay a permutation;
`get_LRU_index` returns -1, used as an index, when they are not; dirty bits decide which
write-backs are counted; tags are compared with lines never filled.

**What makes it correct.** The counted hits, misses and write-backs are those
of caches with true LRU lists.

### 1.4 Pipelined_MIPS_Processor

**Parts and state.** Fetch (`PC` and the instruction memory), decode (the
register file), execute (the ALU and its forwarding unit), memory (the data memory),
control (a truth table and the stall), and the four pipeline registers.

**Interaction.** Signals. `control` looks at the instructions in decode and in
execute and stops fetch and `pipe_reg1` while it flushes `pipe_reg2`; execute takes
operands from the instructions in MEM and WB; fetch takes the branch from MEM.

**What is hard.** Five instructions are in flight: which value an operand gets
depends on the three before it, on stalls, and on a branch taken in MEM when its
three successors are already behind it.

**What makes it correct.** Registers and memory evolve as those of a machine
that executes one instruction at a time, for the programs that keep clear of what
the hardware does not handle.

### 1.5 The rest

Makefiles, the PDF, compiled objects and the recorded wave (`spim_pipe.vcd`).
There is nothing to model in them.

## 2. Modules

| module | models | role |
|---|---|---|
| `ReadyQueue` | `push_to_queue`, `pop_from_queue` | the ready list |
| `Irwl` | the four `IRWL_*` macros | the lock |
| `OsSim` | `os-sim.c` and `student.c` together, one action per step of a thread | detailed specification |
| `CpuScheduler` | what the scheduler promises, without threads | abstract specification |
| `OsSimProperties` | the properties, the refinement mapping, `IInv` and `SchedulerInv` | |
| `OsSimSpurious` | the same threads when the supervisor's waits may return without a signal | environment added to `OsSim` |
| `ProcessTable` | the programs of `process.c` | input of `OsSim` |
| `SchedulerOptions` | what `main` makes of its arguments | constants of `OsSim` |
| `MCOsSim`, `MCOsSimSpurious` | command lines and short programs for the runs | |
| `OsSimProofs` | locks, waits, `current[]` | theorems about `OsSim` |
| `CpuSchedulerProofs` | every process is in one place | theorem about `CpuScheduler` |
| `OsSimViewProofs` | the steps of the threads as steps of `CpuScheduler` | lemmas |
| `OsSimSchedulerProofs` | slices, forced preemptions, PCB states, the end, the lock | theorems about `OsSim` |
| `OsSimSpuriousProofs` | what survives waits that end early | theorems about `OsSimSpurious` |
| `Paging` | the virtual memory simulator, one step per trace line | detailed specification |
| `FlatMemory` | a private zeroed memory per process | abstract specification |
| `PagingProperties`, `MCPaging`, `PagingProofs` | as above | |
| `CacheSizes` | what `cachesim_init` computes from the command line | constants of the next two |
| `CacheGeometry` | sizes, indices and tags | shared by the next two |
| `CacheSim` | the cache simulator, one step per trace line | detailed specification |
| `RecencyCache` | lists of recently used blocks | abstract specification |
| `CacheProperties`, `MCCache`, `CacheProofs` | as above | |
| `Pipeline` | the processor, one step per rising edge of the clock | detailed specification |
| `SequentialMips` | a machine that executes one instruction at a time | abstract specification |
| `PipelineProperties`, `MCPipeline`, `PipelineProofs` | as above | |

Definitions keep the source's names where they can. A definition marked
*Variant* is a faulty version of the one after it: no specification uses it, it
shows that a property notices that fault.

### 2.1 OsSim and the code

`supPc` and `cpuPc[c]` say where each thread is. A step is the code between two
points where another thread can get in between, so one function may be several actions:

| code | actions |
|---|---|
| `simulator_supervisor_thread` | `BeginTick`, `EndTick` around the rows below |
| `print_gantt_line` | `LockGantt`, `UnlockGantt` |
| `simulate_cpus`, `simulate_process` | `SkipCpu`, `SimulateProcess` (`RunTick`, `EndBurst`, `Misplaced`), `Reacquire`, `EndCpus` |
| `simulate_io` | `NoIo`, `IoTick`, `IoDone` |
| `simulate_creat` | `NoCreate`, `Create` |
| `wake_up` and its caller's locks | `WakeLock`, `WakeReady`, `WakePush`, `WakeScan`, `WakeUnlock`, `WakeReturn` |
| `force_preempt` | `ForcePreemptUnlock`, `ForcePreemptCheck`, `ForcePreemptReacquire`, `ForcePreemptLock` |
| `simulator_cpu_thread` | `Top`, `Woken`, `Count`, `HandlerLock`, `HandlerUnlock` |
| `preempt`, `yield`, `terminate` | `Preempt` + `PreemptPush`, `Yield`, `Terminate` |
| `idle`, `schedule` | `Idle`, `Pop`, `Dispatch` |
| `context_switch` | `SwitchUnlock`, `Switch`, `SwitchLock` |

`simulator_mutex` is no variable: only the supervisor keeps it from one step to
the next, so it is taken exactly when `supPc` is in `HoldsSimMutex`. A wait on a
condition variable is a label with no action (`running`, `idleBlocked`, `await`,
`fpAwait`) that the signalling step moves on. `PostEvent` shows the heart of the
protocol: the CPU's state is overwritten in any case, but the signal arrives only if
the thread is waiting; otherwise the history variable `lost` becomes true.

### 2.2 Paging and the code

A step is a line of the trace: `Start` (`proc_init`), `Stop` (`proc_cleanup`), `Read` and
`Write` (`context_switch` if the process changed, then `mem_access` with `Hit` or `Fault`).
`select_victim_frame` is the *set* of frames the code may return: the lowest
free one, or any unprotected one, for the random walk can end on each of them.
`TablesAfter`, `QueueAfter`, `PagesAfter`, `TokenAfter` are the state after `free_frame`, on
which `page_fault` goes on working, in the order of the code. `panicked` is the end of
the program in `panic`.

### 2.3 CacheSim and the code

A step is a line of the trace: a hit or a miss in one of the first-level caches, a
miss including the whole of `l2_cachesim_access`. The sums that the program prints
grow without bound, so the model keeps what each access adds to them
(`counted`).

### 2.4 Pipeline and the code

`id`, `ex`, `mem` and `wb` are what the four `pipe_reg` components hold. The
combinational signals are operators of their own names (`pc_Stall`, `Ainput`,
`Binput`, `ALU_ctl`, `Next_PC`, ...); `Fetch`, `IfId`, `IdEx`, `ExMem`, `MemWb` are the five clocked
processes, and `Clock` is all of them at one edge. The data memory and the
register file have no clock: they are written by concurrent assignments as soon as
the store is in MEM or the writer in WB, so their new values depend on the
*primed* pipeline registers, and decode reads at the next edge what WB has
written before it. A flushed `pipe_reg2` holds the word 0, which is an R-format
instruction with all control signals off (`Bubble`). The field `at` of `id`, `ex`, `mem` and `wb` is a
history variable: the address its instruction was fetched from. The refinement needs it in `id` and
`ex`, the proof about scheduled programs in all four.
An instruction is a record of its fields; `funct` is the set of the bits that are 1, because the
equations of `ALU_ctl` look at single bits.

## 3. Abstract specifications

* `CpuScheduler`: processes are created, become ready, are dispatched in order
  (FIFO, round robin) or by remaining time (LRTF), run their bursts, are
  interrupted only when the slice is used up or a longer process exists, queue
  for I/O, finish. `Sched` in `OsSimProperties` maps the threads onto it: a process is
  *running on c* from the moment `pop_from_queue` has taken it until the handler
  of its next event gives it up (`Bound`). The property allows any step
  once an event has been lost.
* `FlatMemory`: `contents[p][a]`, zero at START, changed by writes of `p` only.
  `Contents` reads a page from its frame, else from swap, else as zeros.
* `RecencyCache`: the set is the list of the blocks used last, cut to `Ways`; an access takes its
  block from its `Place` in the list, or the last place, and those before it move back.
  `Recent` maps a set onto the list: the k-th block is the one in the valid way with the k-th
  highest LRU counter (`NthUsed`). The last trace line is part of
  the abstract state, so the abstract step has to be the one for *this* access.
* `SequentialMips`: add, sub, and, or, lw, sw, beq; register 0 reads as zero; the three
  instructions behind a branch are executed in any case. Its state is registers, memory and the next
  four addresses. An instruction of the pipeline counts as executed when it enters MEM: `regs` is
  the register file with the result of the instruction in MEM, `pcs` the instructions in EX, ID
  and IF and those to come. `ImplementsSequential` allows any step in four situations,
  which are what the hardware does not handle: an instruction other than an R-format one uses
  the register loaded just before it (`UsesLoadTooEarly`), a store of a register still in flight
  (`StoresStaleData`), a branch taken in the cycle of a stall (`LosesBranch`), a
  read of register 0 after it was written (`ReadsWrittenZero`). After such a step the
  implementation must go on correctly from the state it got into. `Scheduled` says
  which programs cannot meet the four, whatever their data, as rules on neighbouring
  instructions: loads, stores and stalls near their producers, and no branch in the three places
  behind a branch (the delay slots of the two would overlap). `ScheduledProgramsAreExact` says that they do not.

## 4. Runs

All bounds are constants in the `.cfg` files.

| run | instance | shows |
|---|---|---|
| `round_robin` | 2 CPUs, 3 processes, slice 1, fair threads | exactly one place holds each process (`Placement`), its state agrees with it, events are handled one at a time from the signal to the next wait, waits are answered, no early exit, the invariant of the proofs (`SchedulerInv`); events are lost, and states written while the Gantt line is counted, only by way of a CPU in `idle()`; every tick ends, and without a lost event so does the simulation; refinement of `CpuScheduler` |
| `lrtf_scan` | 2 CPUs, 3 processes with bursts of 1, 10 and 11 ticks, LRTF, scan of `wake_up` on, spurious wakeups | refinement of `CpuScheduler` under LRTF until the first event that is lost or not waited for; the process forcibly preempted is the one chosen, no process is in two places or none up to there; and, spurious wakeups or not, the scan preempts exactly when and whom its bound of 10 lets it, the Gantt printer waits only for handlers that can go on, a forced event is never lost, the simulation does not exit early, the writer count is exact, `current[]` is not NULL in a handler, idle CPUs are woken |
| `event_lost` | the 8 processes of `process.c`, 2 CPUs, FIFO | *violated*: an event meets a thread that does not wait |
| `gantt_race` | as `event_lost` | *violated*: a PCB state changes while the reader counts |
| `lrtf_as_built` | the 8 processes, LRTF, scan off as in `main` | *violated*: `wake_up` preempts nobody |
| `vm_pages` | 2 processes of 2 pages, 4 frames | `check_validity` passes after every line, swap entries have one owner, no panic, at most one eviction per line and only when memory is full, own page table used |
| `vm_full` | 3 processes of 1 page of 2 bytes, 4 frames | panics only when every frame is protected, clean pages may be dropped, the invariant of the proofs, refinement of `FlatMemory` |
| `vm_restart` | 2 processes, restart of the last one allowed | *violated*: an access through a stale PTBR |
| `cache_lru` | 3 ways, 3 sets allocated of which 2 are used, one-line L1, 5 blocks | LRU counters are a permutation, empty ways go first, no duplicates, refinement of `RecencyCache` |
| `cache_tag_zero` | 2 ways, addresses with L1 tag 0 | *violated*: a hit in a line never filled |
| `pipeline` | 3 registers, words of 2 bits, 2 words of data, every program of 5 words over 10 instructions | refinement of `SequentialMips` outside the four hazards, which no `Scheduled` program meets; types, and control signals that agree with their instruction |
| `pipeline_load_use` | as `pipeline` | *violated*: a load, store or branch behind a load of its register is not stalled |

**Why the bounds are enough.** *OS*: a tick involves the supervisor and the CPU
it deals with; two CPUs give a CPU in `idle()` racing with one in a handler and
with the supervisor, and two idle CPUs racing for one process. Two processes
give contention for CPUs and for the I/O queue; a third is needed for a
preempted process to meet a ready one while both CPUs are busy. Bursts of one
or two ticks cover every operation and every timer value the
code tells apart (0, 1, more); `lrtf_scan` has bursts of 10 and 11 ticks for the 10 that the scan of `wake_up` starts from. The runs that show what the shipped program does use
its own processes and period (`event_lost`, `gantt_race`, `lrtf_as_built`); in the others `CreatePeriod` is 2 instead of 10: creations
then overlap with the life of earlier processes, as they do in ten longer ticks.
*Paging*: 4 frames with 2 page tables leave one frame for pages, so every access
to another page evicts, from the own and from the other process; 3 page tables
fill memory. With three tokens each page goes to swap, comes back and goes again.
`Byte = {0}` in `vm_pages` because its properties do not read bytes; `vm_full` has
two values and two offsets. Processes are interchangeable, so symmetry is
sound; neither run checks liveness. *Cache*: 4 blocks in 3 ways is the
smallest set where an LRU order of the others matters; the second set and the
one-line L1 make the two levels' indices and tags differ; a size that gives 3 sets
makes the rounding of `log2` matter. *Pipeline*: the instructions write and read
registers 1 and 2 in every kind of pair (R-format, load, store, branch), one
writes register 0, and the two branches jump to different places. The five words are fetched in a circle, so that
every sequence of five occurs, and five is what the pipeline holds; each of the four
hazards and each rule of `Scheduled` occurs in it. Three registers and 2-bit
words are enough for two different values to be told apart wherever one is forwarded.

**Deadlock** is checked except in `vm_full`, where the program ends in a panic.
`OsSim` has a step `Exited` for the finished program.

**Bounds in guards.** `MaxToken` (Paging) stops the swap code from handing out
tokens without end: `Victims` leaves out victims that would need a token beyond
it. `simulator_time` is kept modulo `CreatePeriod`. No other guard is bounded.

### Fairness

`FairSpec` asks strong fairness of the supervisor and of each CPU thread, each as
one action. Threads are scheduled by the operating system, so one that can run
runs. Strong rather than weak: a thread waiting for `simulator_mutex` is enabled
again and again but not always. Pthread mutexes make no promise of their own;
the supervisor releases the mutex and sleeps at the end of each tick, and no
other thread holds it for more than one step, which gives the waiting thread
its turn. Nothing is assumed of conditions: a lost signal stays lost.

## 5. Proofs

Every proof is complete; TLAPS checks each leaf. The theorems hold for all values of the constants
that satisfy the named assumptions of the modules, which TLC evaluates for the values of each run.

### 5.1 The scheduler and its simulator

Any numbers of CPUs and processes, any well-formed programs, any time slice, LRTF or not, any scan of
`wake_up`.

**`OsSimProofs`.** The runs' `NoLostWakeup` and `AnsweredWait` are not inductive: that the supervisor's partner answers
depends on which event is handled, and that a handler exists depends on `current[]`. `IInv` adds the
types, the range of each process's operation (`PcInv`), the I/O queue holding a process at most once, in
an I/O operation (`IoInv`), what `current[]`, `.current` and the thread's place say of one another (`CurrentInv`), and the range of `supN` and
`created` (`SupInv`). One lemma per conjunct shows that a step keeps it; `Invariance` joins
them. `OneEvent` covers a CPU thread from the signal to the top of its loop (`InEvent`). `IInv` does not mention `lost`: these results survive lost events. Theorems: `Invariance`, `TypeCorrect`,
`IdleCpusWake`, `WaitsAreAnswered`, `EventsAreSerial`, `NoNullDereference`.

**`CpuSchedulerProofs`.** In the abstract scheduler every process is in one of six places (unborn, waking, ready,
running, in I/O, done). `OnePlace` counts them for each process, with a queue holding nothing twice; `Invariance` shows
that every abstract step keeps it. The lemmas on queues (what an append, a removal and a `Tail`
do to the elements) are proved here, by cases on the index, because induction over sequences is out of reach.

**`OsSimViewProofs`** looks at the threads through the substitution of `Sched`. `SchedulerStep` goes through the
actions of `OsSim`: the ones that hand a process on are one abstract step each (`PopStep`, `PushStep`, `RunStep`,
`IoDoneStep`, `CreateStep`, `ReadyStep`), the others change nothing of the view. With the step lemma of `CpuSchedulerProofs`
the threads keep `OnePlace` as well (`OnePlaceStep`): that no PCB is dropped or duplicated is proved
once, for the abstract scheduler, and carried over by the refinement.

**`OsSimSchedulerProofs`** proves `SchedulerInv`, the whole invariant. It is needed because the refinement depends on
everything at once: that `preempt` takes a process for a reason depends on the timer or on the choice
`wake_up` made two locks earlier (`TimerInv`, `ForceInv`); that a handler belongs to the event posted depends on events
being serial (`EventInv`); that the process in creation is the next one depends on `CreateInv`. `StateInv` follows the state
field along a process's way. `CountInv` counts the CPU threads to which the end of a process is posted and which have not
counted it; they and `processes_terminated` never exceed the processes that have ended, for which `IInv` is enough. `IInv`, `EventInv`, `CreateInv` and
`CountInv` hold whatever is lost; `OnePlace`, `TimerInv`, `ForceInv` and `StateInv` only up to the first lost event, which
`event_lost` shows to be unavoidable. Theorems: `SchedulerInvariance`, `Refinement` (`ImplementsScheduler`), `ProcessesHavePlaces`
(`Placement`), `StatesMatchPlaces`, `ExitsAfterTheLast` (`NoEarlyExit`), `ForcedPreemptionsAreJustified`
(`PreemptsShorter`), `ForcedPreemptionsArrive` (`ForcedDelivered`), and `WritersAreCounted`, which needs only `IInv`: each step
moves at most one CPU into or out of the two sets `WritersCount` counts. From it follows `ReaderReleased`
(`ReaderIsReleased`): the printer sleeps only while the count is positive (`ReaderSleeps`), and then there are more handlers than
idle CPUs in `context_switch`, so at least one.

Three theorems say how far the code keeps what three of the violated properties ask for. `LostOnlyFromIdle` (`LossesFromIdle`)
and `RacesOnlyFromIdle` (`RacesFromIdle`): a lost event and a state written while the reader counts both
come from a CPU that `idle()` has just served. `ScanPreemptsShort` (`ScanPreempts`): the scan, once on and with all
CPUs busy, preempts exactly if one runs a process with less than 10 ticks and less than the one that wakes, and then one with the
least; a least remaining time among the CPUs exists because
`Nat` is well-founded (`LeastNumber`, from the library's theorem on minimal elements).

**`OsSimSpuriousProofs`** does the same for `OsSimSpurious`. `IInv` was chosen so that an early return keeps it: it says that
waits are answered, not that events are serial, which fails there. So what follows from `IInv` alone holds for good
(`SpuriousInvariance`, `SpuriousIdleCpusWake`, `SpuriousWaitsAreAnswered`, `SpuriousNoNull`, `SpuriousArrives`, `SpuriousWriters`,
`SpuriousScan`, `SpuriousReader`), and so does `SpuriousExit`, which adds `CountInv`: a wait that ends early moves no event. The rest holds up to
the first early return (`SpuriousPlaces`, `SpuriousStates`, `SpuriousRefinement`, `SpuriousPreemptsShorter`, all from
`SoundUnlessLost == ~lost => SchedulerInv`).

### 5.2 Paging

**`PagingProofs`**: any processes, pages, frames, page size, byte values; traces
that do not restart the process that accessed last, `~RestartCurrent`. `IInv` says that a
mapped frame and the entry it names point at each other
(`FramesMatchTables`, `TablesMatchFrames`), protected frames are exactly frame 0 and
the page tables, all different (`TablesApart`), swap tokens have one owner and lie below `TOKEN`
(`SwapOwned`, `SwapMatchesTables`), and PTBR is right for a running current process
(`PtbrCurrent`). `free_frame` is treated once (the `Victims` lemmas), then each line of the trace.
From `IInv` follow `ValidityCorrect` (`check_validity`), `PanicsOnlyWhenFull` and `NoPanic` (these two with random
replacement; `NoPanic` also needs more frames than processes plus one), `OwnTableUsed`, `CleanCorrect`,
`OneLineEvictsOne` (`EvictsOneWhenFull`: the mappings a line removes are those of one victim, for `IInv` gives a frame one
owner), and `MemoryImplemented`: `Spec => Flat!Spec`, each line being one abstract step or a stutter.

### 5.3 Caches

**`CacheProofs`**: any geometry of at least one line, set and way, any trace. The LRU lemma:
moving way `b` to `Ways - 1` and shifting those above it down keeps a permutation
and keeps the order of the others; with it the empty ways stay the oldest and
a block is found before it is filled again. Theorems: `Invariance`, `TypeCorrect`,
`LruCorrect`, `EmptyWaysFirst`, `BlocksOnce`.

`RecencyImplemented` proves `ImplementsRecency` from `NoTagZero`: no address has the first-level tag 0, the value lines are initialised
with. `cache_tag_zero` shows why it is needed; the run `cache_lru` has such a trace. The counters being a
permutation, each place in the order of use has one way (`NthUsed`); `AccessedPlaces` says how an access permutes the places,
`AccessedRecent` that this is what `Used` does to the list, `AccessedDirty` the same for dirty blocks and write-backs.
`FirstLevel` (a line never filled has tag 0) gives that a lookup hits exactly when the line holds the block; `HitsAreReal`
(`HitsAreFilled`) follows from it too.

### 5.4 The pipeline

**`PipelineProofs`**: any program, width of word, number of registers, sizes of the memories, any functions for
`and` and `or`. `SupportedAssumption` limits the R-format function fields to the four operations of the ALU that
have a meaning, and the word 0. `TypeCorrect` needs the types alone. `IInv` adds that each
pipeline register holds the instruction of the address it carries (`Decoded`), that what EX read in decode is
older than the write of the instruction now in WB and than no other (`ReadInDecode`), and that no R-format
instruction is right behind the load it needs (`LoadsAhead`). `Refinement` (`ImplementsSequential`) goes through the instructions
EX may hold. `Newest` shows that the forwarding unit gives the registers of `regs`, `RegsStep` and `DramStep` what
the concurrent writes leave, `PcsStep` that the addresses move on by one, over a taken branch as well. The
arithmetic modulo `IramSize` and `WordSize` is in lemmas of its own (`WrapSum`, ...).

`ScheduledIsExact` shows that a scheduled program never meets the four hazards. Its invariant `Path` says that the
instructions in flight follow one another in the program (`InOrder`, `MemAt`, `WbAt`), that the three places behind a branch are consecutive
(`BehindBranch`), and that register 0 stays 0 (`ZeroKept`). `ScheduledRefinement` joins the two: a scheduled program is
executed exactly as the sequential machine does.

### 5.5 Only model-checked

* `CompletesUnlessLost` and `TicksGoOn`: liveness under fairness is out of the prover's reach.
* The findings of the six `violation` runs, which are counterexamples.
* `SchedulerOptions` and `CacheSizes`, which turn command lines into constants, are evaluated only. That a size has a
  logarithm at all takes an induction; TLC checks `SetsAllocatedAssumption` for small sizes.

## 6. What the checks found

1. **Lost events** (`event_lost`). `context_switch` called from `idle()` sets `.current` before
   its thread waits again; `simulate_cpus` looks only at `.current` and
   signals a thread that does not listen. `Top` then overwrites the event. A lost
   CPU_TERMINATE leaves `processes_terminated` short and the simulation never
   ends. `round_robin` shows that nothing else goes wrong: up to the first such
   event the threads implement the abstract scheduler, and after it waits and locks still work.
   `LostOnlyFromIdle` proves that there is no other way to lose one.
2. **Gantt race** (`gantt_race`). `schedule()` in `idle()` runs outside the lock whose
   purpose is to protect the PCB states. The handlers that take it never write during a count (`RacesOnlyFromIdle`).
3. **LRTF never preempts** (`lrtf_as_built`). A local `cpu_count` in `main` shadows
   the file's. With the scan on (`lrtf_scan`) the preemption works for processes with
   less than ten ticks left (`ScanPreempts`); those with ten or more are never chosen.
4. **Stale PTBR** (`vm_restart`). STOP leaves `current_process` alone.
5. **Tag 0** (`cache_tag_zero`). First-level lookups ignore the valid bit.
6. **Load-use** (`pipeline_load_use`). `control` stalls only R-format instructions,
   against the comment above it. `pipeline` shows that with the other three limits of
   section 3 this is all that separates the pipeline from a sequential machine with
   three delay slots. The rule of `Scheduled` against a branch behind a branch came out of the
   proof for all programs: such a pair sends the three places behind it to addresses that no rule on
   neighbours covers. The run has two different branches, and without the rule it finds the counterexample.

What a spurious wakeup of the supervisor would do: the waits of the CPU threads and of
`idle()` test again in a loop, the supervisor's do not. If one of them
returned early, the tick would go on before the handler has run. `lrtf_scan` and
`OsSimSpuriousProofs` show what survives that: no NULL is dereferenced, every wait is answered, forced
preemptions reach a waiting thread, the simulation does not exit early, and the locks and idle CPUs are right. Up to the first such return
the abstract scheduler is implemented. Only such a return lets the Gantt printer meet a handler in progress and wait for it; `ReaderIsReleased`
is therefore checked in `lrtf_scan`, and `TicksGoOn` in `round_robin` says nothing of it. Not stated there, for it no longer holds: events are no longer
handled one at a time (`OneEvent`), and what rests on that.

## 7. Limits

*OS*: `current[]` starts as all NULL (main uses `malloc`; every entry is written by
`schedule()` before a handler reads it, but the scan of `wake_up` could read one earlier when it is on);
`context_switches` and the Gantt counters are left out; both walks of LRTF's
`pop_from_queue` are one step; the limit of 16 CPUs and the refusal of more are left out; all timer values below 1 mean no limit.
`SchedulerOptions` keeps the loop of `main`, by which the *last* argument decides the
algorithm: after `-r 1` it is FIFO again, and the slice alone makes a round robin of it. Bad
numbers and the usage text are left out.

*Paging*: the referenced bit (never read), statistics, option and trace parsing
are left out. Traces are well formed: a process is started when it is stopped,
and stopped or accessed when it runs. A frame read as a page table and the same frame
read as bytes are two variables; they can only differ in behaviours with a
stale PTBR, which the theorems exclude. The clock sweep is modelled as the code
has it (no victim, hence a panic at the first replacement), but no run selects it.

*Cache*: the size must allow at least one set; trace lines have
the letters `r`, `w`, `i`; counters that nobody prints and the final rates are left out. A write that hits in L1
never reaches L2 and is never counted as a write-back: `RecencyCache` says so as
the code does; a comment (`cachesim.c:107`) speaks of counting it.

*Pipeline*: a state is what signals have settled to between two edges; delta cycles are
left out. Only bits 4 to 2 of `PC` are used, so PCs are the index of the
word they fetch; the instruction memory's last four of twelve words are never
reached. The reset lasts one edge (`ps_clock.vhd`), which leaves the first state.
Opcodes other than the four of the truth table, and function fields that
give an `ALU_ctl` without a meaning, are in the model but in no program of the run.

**Not modelled**: the statistics of `Virtual_Memory` (counters and one floating-point formula, read
only when printed), option and trace parsing of the two trace-driven programs, all
printing, Makefiles, and the recorded wave.

## 8. Plan

Every safety property of the passing runs is a theorem, and so are the four refinements. What is left:

1. `CpuScheduler` and `SequentialMips`: theorems about the abstract specifications that their
   implementations inherit, such as a bound on what a slice lets others wait.
2. `OsSimSpurious`: which parts of `StateInv` survive a wait that returns early.
3. Liveness stays with TLC; a run with three CPUs would add to it.
