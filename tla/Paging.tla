------------------------------- MODULE Paging -------------------------------
(***************************************************************************)
(* The virtual memory simulator: the trace driver (pagesim.c), the paging  *)
(* code (paging.c, page_fault.c, page_replacement.c) and the swap queue    *)
(* (swap.c, swapops.c).                                                    *)
(*                                                                         *)
(* The program is sequential: a step is one line of the trace, START pid,  *)
(* STOP pid or one memory access, run to its end.                          *)
(*                                                                         *)
(* Physical memory.  A frame holds a page table or a page of data, and     *)
(* mem keeps the two apart: page_tables[f] is frame f read as an array of  *)
(* pte_t, data[f] is frame f read as bytes.  Only a stale PTBR makes the   *)
(* program read one as the other, and the run that shows one ends there.   *)
(*                                                                         *)
(* Trace.  A process is started when it is stopped, and stopped and        *)
(* accessed when it is running.                                            *)
(*                                                                         *)
(* Left out: the referenced bit, which the program sets and never reads,   *)
(* the statistics and the printed lines.                                   *)
(*                                                                         *)
(* A definition marked "Variant" is a faulty version of the one after it.  *)
(* It is no part of the specification: it is there to show that a property *)
(* fails when the code has that fault.                                     *)
(***************************************************************************)
EXTENDS Integers

CONSTANTS
  Pids,            \* the processes of the trace, at most MAX_PID
  Null,            \* a null pcb_t pointer
  NumPages,        \* NUM_PAGES
  NumFrames,       \* NUM_FRAMES
  PageSize,        \* PAGE_SIZE
  Byte,            \* the values of a byte
  Replacement,     \* replacement: "random" or "clocksweep"
  RestartCurrent,  \* may the trace restart the process that accessed last?
  MaxToken         \* bound: the last token the swap code hands out

ASSUME ProcessAssumption == Null \notin Pids

ASSUME SizeAssumption ==
  /\ NumPages \in Nat \ {0}
  /\ NumFrames \in Nat \ {0}
  /\ PageSize \in Nat \ {0}
  /\ MaxToken \in Nat

ASSUME ByteAssumption == 0 \in Byte /\ Null \notin Byte

ASSUME OptionAssumption ==
  /\ Replacement \in {"random", "clocksweep"}
  /\ RestartCurrent \in BOOLEAN

Pages   == 0 .. NumPages - 1
Frames  == 0 .. NumFrames - 1
Offsets == 0 .. PageSize - 1
Tokens  == 1 .. MaxToken
Addresses == 0 .. NumPages * PageSize - 1

VARIABLES
  procs,            \* the PCBs: state and saved_ptbr
  current_process,
  PTBR,
  frame_table,
  page_tables,      \* mem, each frame as a page table
  data,             \* mem, each frame as bytes
  swap_queue,       \* the tokens of the entries in the swap queue
  page_data,        \* the page each swap entry holds
  TOKEN,            \* the next token
  result,           \* what the last mem_access returned
  panicked          \* panic has ended the program

cpu  == <<procs, current_process, PTBR>>
swap == <<swap_queue, page_data, TOKEN>>
vars == <<procs, current_process, PTBR, frame_table, page_tables, data,
          swap_queue, page_data, TOKEN, result, panicked>>

PTE == [valid : BOOLEAN, dirty : BOOLEAN, pfn : Frames, swap : Tokens \cup {0}]
FTE == [protected : BOOLEAN, mapped : BOOLEAN, process : Pids \cup {Null},
        vpn : Pages]
PCB == [state : {"running", "stopped"}, saved_ptbr : Frames]

TypeOK ==
  /\ procs \in [Pids -> PCB]
  /\ current_process \in Pids \cup {Null}
  /\ PTBR \in Frames
  /\ frame_table \in [Frames -> FTE]
  /\ page_tables \in [Frames -> [Pages -> PTE]]
  /\ data \in [Frames -> [Offsets -> Byte]]
  /\ swap_queue \in SUBSET Tokens
  /\ page_data \in [Tokens -> [Offsets -> Byte]]
  /\ TOKEN \in Tokens \cup {MaxToken + 1}
  /\ result \in Byte \cup {Null}
  /\ panicked \in BOOLEAN

NoMapping  == [valid |-> FALSE, dirty |-> FALSE, pfn |-> 0, swap |-> 0]
EmptyTable == [v \in Pages |-> NoMapping]
ZeroPage   == [o \in Offsets |-> 0]

(* main up to the trace loop: calloc of mem and procs, then system_init. *)
Init ==
  /\ procs = [p \in Pids |-> [state |-> "stopped", saved_ptbr |-> 0]]
  /\ current_process = Null
  /\ PTBR = 0
  /\ frame_table = [f \in Frames |-> [protected |-> f = 0, mapped |-> FALSE,
                                      process |-> Null, vpn |-> 0]]
  /\ page_tables = [f \in Frames |-> EmptyTable]
  /\ data = [f \in Frames |-> ZeroPage]
  /\ swap_queue = {}
  /\ page_data = [t \in Tokens |-> ZeroPage]
  /\ TOKEN = 1
  /\ result = Null
  /\ panicked = FALSE

Running == {p \in Pids : procs[p].state = "running"}

(***************************************************************************)
(* Addresses                                                               *)
(***************************************************************************)
vaddr_vpn(address)    == address \div PageSize
vaddr_offset(address) == address % PageSize

(***************************************************************************)
(* Page replacement                                                        *)
(***************************************************************************)
Unprotected == {f \in Frames : ~frame_table[f].protected}
FreeFrames  == {f \in Unprotected : ~frame_table[f].mapped}

(* Variant: the replacement runs although frames are free. *)
VictimsAlways == Unprotected

(* Variant: the loops leave out the last frame. *)
VictimsButTheLast ==
  LET unprotected == Unprotected \ {NumFrames - 1}
      free == FreeFrames \ {NumFrames - 1}
  IN  IF free # {} THEN {f \in free : \A g \in free : f <= g}
      ELSE unprotected

(* The frames select_victim_frame may return; none when it panics.  RANDOM *)
(* tosses a coin at each unprotected frame and may end on any of them.     *)
select_victim_frame ==
  IF FreeFrames # {} THEN {f \in FreeFrames : \A g \in FreeFrames : f <= g}
  ELSE IF Replacement = "random" THEN Unprotected
  ELSE {}

(* The page table entry that maps the page in frame f *)
Home(f)  == procs[frame_table[f].process].saved_ptbr
Entry(f) == page_tables[Home(f)][frame_table[f].vpn]

Evicts(f)     == frame_table[f].mapped
WritesBack(f) == Evicts(f) /\ Entry(f).dirty

(* The swap entry swap_write stores the page of frame f in *)
Slot(f) == IF Entry(f).swap \in swap_queue THEN Entry(f).swap ELSE TOKEN

(* Variant: the owner's entry stays valid after the eviction. *)
StaleTablesAfter(f) ==
  IF WritesBack(f)
    THEN [page_tables EXCEPT ![Home(f)][frame_table[f].vpn] =
            [@ EXCEPT !.dirty = FALSE, !.swap = Slot(f)]]
  ELSE page_tables

(* The page tables after free_frame has taken frame f *)
TablesAfter(f) ==
  IF WritesBack(f)
    THEN [page_tables EXCEPT ![Home(f)][frame_table[f].vpn] =
            [@ EXCEPT !.valid = FALSE, !.dirty = FALSE, !.swap = Slot(f)]]
  ELSE IF Evicts(f)
    THEN [page_tables EXCEPT ![Home(f)][frame_table[f].vpn] =
            [@ EXCEPT !.valid = FALSE]]
  ELSE page_tables

(* The swap queue after free_frame has taken frame f *)
QueueAfter(f) ==
  IF WritesBack(f) THEN swap_queue \cup {Slot(f)} ELSE swap_queue

PagesAfter(f) ==
  IF WritesBack(f) THEN [page_data EXCEPT ![Slot(f)] = data[f]] ELSE page_data

TokenAfter(f) ==
  IF WritesBack(f) /\ Slot(f) = TOKEN THEN TOKEN + 1 ELSE TOKEN

SwapAfter(f) ==
  /\ swap_queue' = QueueAfter(f)
  /\ page_data' = PagesAfter(f)
  /\ TOKEN' = TokenAfter(f)

(* The frames free_frame may return within the bound on tokens *)
Victims == {f \in select_victim_frame : TokenAfter(f) <= MaxToken + 1}

(* panic: the message is printed and the program ends. *)
Panic ==
  /\ panicked' = TRUE
  /\ UNCHANGED <<cpu, frame_table, page_tables, data, swap, result>>

(***************************************************************************)
(* START pid                                                               *)
(***************************************************************************)
CanStart(pid) ==
  /\ ~panicked
  /\ procs[pid].state = "stopped"
  /\ RestartCurrent \/ pid # current_process

TableFrame(f) ==
  frame_table' = [frame_table EXCEPT
                    ![f] = [@ EXCEPT !.mapped = FALSE, !.protected = TRUE]]

ClearedTable(f) == page_tables' = [TablesAfter(f) EXCEPT ![f] = EmptyTable]

(* proc_init *)
Start(pid) ==
  /\ CanStart(pid)
  /\ \/ select_victim_frame = {} /\ Panic
     \/ \E f \in Victims :
          /\ TableFrame(f)
          /\ ClearedTable(f)
          /\ data' = [data EXCEPT ![f] = ZeroPage]
          /\ SwapAfter(f)
          /\ procs' = [procs EXCEPT ![pid] =
                         [state |-> "running", saved_ptbr |-> f]]
          /\ UNCHANGED <<current_process, PTBR, result, panicked>>

(***************************************************************************)
(* STOP pid                                                                *)
(***************************************************************************)
Table(pid) == page_tables[procs[pid].saved_ptbr]

Mapped(pid)  == {Table(pid)[v].pfn : v \in {w \in Pages : Table(pid)[w].valid}}
Swapped(pid) == {Table(pid)[v].swap : v \in Pages} \ {0}

(* swap_free panics on a token that is not, or no longer, in the queue. *)
FreesNothing(pid) ==
  \E v, w \in Pages :
    LET token == Table(pid)[v].swap IN
      /\ token # 0
      /\ token \notin swap_queue \/ (v # w /\ token = Table(pid)[w].swap)

(* Variant: the frames of the pages stay mapped. *)
OnlyTableReleased(pid) ==
  frame_table' = [frame_table EXCEPT ![procs[pid].saved_ptbr] =
                    [@ EXCEPT !.protected = FALSE, !.mapped = FALSE]]

(* Variant: the frame of the page table stays protected. *)
OnlyPagesReleased(pid) ==
  frame_table' = [f \in Frames |->
    [frame_table[f] EXCEPT !.mapped = @ /\ f \notin Mapped(pid)]]

Released(pid) ==
  frame_table' = [f \in Frames |->
    [frame_table[f] EXCEPT
       !.mapped = @ /\ f \notin Mapped(pid) \cup {procs[pid].saved_ptbr},
       !.protected = @ /\ f # procs[pid].saved_ptbr]]

(* Variant: swap entries are freed only for the pages that are in memory. *)
ResidentSwapFreed(pid) ==
  /\ swap_queue' = swap_queue \
       {Table(pid)[v].swap : v \in {w \in Pages : Table(pid)[w].valid}}
  /\ page_tables' = page_tables
  /\ UNCHANGED <<page_data, TOKEN>>

SwapFreed(pid) ==
  /\ swap_queue' = swap_queue \ Swapped(pid)
  /\ page_data' = [t \in Tokens |->
       IF t \in Swapped(pid) THEN ZeroPage ELSE page_data[t]]
  /\ page_tables' = [page_tables EXCEPT ![procs[pid].saved_ptbr] =
       [v \in Pages |-> [@[v] EXCEPT !.swap = 0]]]
  /\ UNCHANGED TOKEN

(* proc_cleanup *)
Stop(pid) ==
  /\ ~panicked
  /\ procs[pid].state = "running"
  /\ Released(pid)
  /\ SwapFreed(pid)
  /\ procs' = [procs EXCEPT ![pid] = [state |-> "stopped", saved_ptbr |-> 0]]
  /\ panicked' = FreesNothing(pid)
  /\ UNCHANGED <<current_process, PTBR, data, result>>

(***************************************************************************)
(* A memory access                                                         *)
(***************************************************************************)

(* Variant: PTBR is loaded only for the first process. *)
FirstPtbr(pid) ==
  IF current_process = Null THEN procs[pid].saved_ptbr ELSE PTBR

(* context_switch, when the last access was another process's *)
PtbrFor(pid) ==
  IF current_process = pid THEN PTBR ELSE procs[pid].saved_ptbr

ReadByte(tables, pages, ptbr, vpn, offset) ==
  /\ result' = pages[tables[ptbr][vpn].pfn][offset]
  /\ page_tables' = tables
  /\ data' = pages

(* Variant: a write leaves the dirty bit alone. *)
CleanWrite(tables, pages, ptbr, vpn, offset, datum) ==
  /\ data' = [pages EXCEPT ![tables[ptbr][vpn].pfn][offset] = datum]
  /\ page_tables' = tables
  /\ result' = datum

WriteByte(tables, pages, ptbr, vpn, offset, datum) ==
  /\ data' = [pages EXCEPT ![tables[ptbr][vpn].pfn][offset] = datum]
  /\ page_tables' = [tables EXCEPT ![ptbr][vpn].dirty = TRUE]
  /\ result' = datum

(* The rest of mem_access, with the page table entry valid *)
Transfer(tables, pages, ptbr, address, rw, datum) ==
  LET vpn    == vaddr_vpn(address)
      offset == vaddr_offset(address)
  IN  \/ rw = "r" /\ ReadByte(tables, pages, ptbr, vpn, offset)
      \/ rw = "w" /\ WriteByte(tables, pages, ptbr, vpn, offset, datum)

(* Variant: the page keeps its old swap entry but is taken for a new one. *)
UnreadPage(f, token) == ZeroPage

(* What page_fault fills frame f with *)
LoadedPage(f, token) ==
  IF token # 0 THEN PagesAfter(f)[token] ELSE ZeroPage

(* page_fault, with frame f from free_frame *)
TablesLoaded(f, pid, vpn) ==
  [TablesAfter(f) EXCEPT
     ![f] = EmptyTable,
     ![procs[pid].saved_ptbr][vpn] = [@ EXCEPT
        !.valid = TRUE, !.dirty = FALSE, !.pfn = f]]

(* Variant: the frame table keeps the PTBR in place of the process. *)
FrameLoadedForPtbr(f, pid, vpn) ==
  [frame_table EXCEPT ![f] =
     [protected |-> FALSE, mapped |-> TRUE, process |-> procs[pid].saved_ptbr,
      vpn |-> vpn]]

FrameLoaded(f, pid, vpn) ==
  [frame_table EXCEPT ![f] =
     [protected |-> FALSE, mapped |-> TRUE, process |-> pid, vpn |-> vpn]]

Hit(pid, address, rw, datum) ==
  /\ page_tables[PtbrFor(pid)][vaddr_vpn(address)].valid
  /\ Transfer(page_tables, data, PtbrFor(pid), address, rw, datum)
  /\ UNCHANGED <<procs, frame_table, swap, panicked>>

Fault(pid, address, rw, datum) ==
  LET vpn   == vaddr_vpn(address)
      token == Table(pid)[vpn].swap
  IN  /\ ~page_tables[PtbrFor(pid)][vpn].valid
      /\ \E f \in Victims :
           /\ Transfer(TablesLoaded(f, pid, vpn),
                       [data EXCEPT ![f] = LoadedPage(f, token)],
                       PtbrFor(pid), address, rw, datum)
           /\ frame_table' = FrameLoaded(f, pid, vpn)
           /\ SwapAfter(f)
           /\ panicked' = (token # 0 /\ token \notin QueueAfter(f))
           /\ UNCHANGED procs

Access(pid, address, rw, datum) ==
  /\ ~panicked
  /\ procs[pid].state = "running"
  /\ \/ /\ \/ Hit(pid, address, rw, datum)
           \/ Fault(pid, address, rw, datum)
        /\ current_process' = pid
        /\ PTBR' = PtbrFor(pid)
     \/ /\ ~page_tables[PtbrFor(pid)][vaddr_vpn(address)].valid
        /\ select_victim_frame = {}
        /\ Panic

Read(pid)  == \E a \in Addresses : Access(pid, a, "r", 0)
Write(pid) == \E a \in Addresses, b \in Byte : Access(pid, a, "w", b)

Next == \E pid \in Pids : Start(pid) \/ Stop(pid) \/ Read(pid) \/ Write(pid)

Spec == Init /\ [][Next]_vars
=============================================================================
