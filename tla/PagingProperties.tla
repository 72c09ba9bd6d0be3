-------------------------- MODULE PagingProperties --------------------------
(***************************************************************************)
(* What the virtual memory simulator must satisfy, and the invariant that  *)
(* its proofs rest on.                                                     *)
(***************************************************************************)
EXTENDS Paging, FiniteSets

(***************************************************************************)
(* check_validity, which -c runs after every line of the trace.  Each part *)
(* is false where the code panics.                                         *)
(***************************************************************************)
TableFrames == {procs[p].saved_ptbr : p \in Running}

Resident(p) == {v \in Pages : Table(p)[v].valid}

PtbrsChecked ==
  \A p \in Running :
    /\ procs[p].saved_ptbr > 0 /\ procs[p].saved_ptbr <= NumFrames
    /\ frame_table[procs[p].saved_ptbr].protected

ProtectionChecked ==
  \A f \in Frames :
    IF f = 0 THEN frame_table[f].protected
             ELSE frame_table[f].protected => f \in TableFrames

MappingChecked(p, v) ==
  LET f == Table(p)[v].pfn IN
    /\ f > 0 /\ f <= NumFrames - 1
    /\ f \notin TableFrames
    /\ frame_table[f].mapped
    /\ frame_table[f].process = p
    /\ frame_table[f].vpn = v

TablesChecked ==
  \A p \in Running :
    /\ \A v \in Resident(p) : MappingChecked(p, v)
    /\ \A v \in Pages : Table(p)[v].swap \in swap_queue \cup {0}

NoDuplicatePfn ==
  \A p, q \in Running : \A v \in Resident(p), w \in Resident(q) :
    Table(p)[v].pfn = Table(q)[w].pfn => p = q /\ v = w

FramesChecked ==
  \A f \in Unprotected :
    frame_table[f].mapped =>
      \E p \in Running : \E v \in Resident(p) : Table(p)[v].pfn = f

(* The strict corruption checking of -c never panics: page tables and the  *)
(* frame table agree after every line of the trace, whatever was evicted,  *)
(* swapped in or stopped before.                                           *)
CheckValidity ==
  ~panicked =>
    /\ PtbrsChecked /\ ProtectionChecked /\ TablesChecked
    /\ NoDuplicatePfn /\ FramesChecked

(***************************************************************************)
(* Further invariants                                                      *)
(***************************************************************************)

(* Every entry of the swap queue belongs to one page of one running        *)
(* process: swap_free finds what it frees, no two pages share an entry,    *)
(* and stopped processes leave nothing in swap ("Swap Not Freed").         *)
SwapOwned ==
  /\ \A t \in swap_queue : \E p \in Running : \E v \in Pages :
                           Table(p)[v].swap = t
  /\ \A p, q \in Running : \A v, w \in Pages :
       Table(p)[v].swap = Table(q)[w].swap /\ Table(p)[v].swap # 0
         => p = q /\ v = w

(* free_frame may drop a page whose dirty bit is clear: what the frame     *)
(* holds is what the next fault on the page would load.                    *)
CleanPagesAreSaved ==
  \A p \in Running : \A v \in Resident(p) :
    LET entry == Table(p)[v] IN
      ~entry.dirty => data[entry.pfn] = IF entry.swap # 0 THEN page_data[entry.swap]
                                        ELSE ZeroPage

(* "If every frame is protected, give up": select_victim_frame panics only *)
(* when page tables fill the memory (page_replacement.c:100).              *)
PanicsOnlyWhenAllProtected == panicked => Unprotected = {}

(* With a frame for the frame table, one for each page table and one for   *)
(* pages, no trace ends in a panic.                                        *)
NeverPanics == ~panicked

(***************************************************************************)
(* Steps                                                                   *)
(***************************************************************************)
InMemory == {x \in Pids \X Pages : x[1] \in Running /\ x[2] \in Resident(x[1])}

(* A page of a process that keeps running leaves memory only when no frame *)
(* was free, and alone: one line of the trace evicts at most one page.     *)
EvictsOneWhenFull ==
  [][LET gone == {x \in InMemory : x[1] \in Running' /\ x \notin InMemory'}
     IN  /\ Cardinality(gone) <= 1
         /\ gone # {} => FreeFrames = {}]_vars

(* An access goes through the page table of its own process, which is      *)
(* where PTBR "tells the paging hardware ... to look" (pagesim.h:51).     *)
AccessUsesOwnTable ==
  [][procs' = procs /\ ~panicked' => PTBR' = procs[current_process'].saved_ptbr]_vars

(***************************************************************************)
(* Refinement                                                              *)
(***************************************************************************)
PageOf(p, v) ==
  LET entry == Table(p)[v] IN
    IF entry.valid THEN data[entry.pfn]
    ELSE IF entry.swap # 0 THEN page_data[entry.swap]
    ELSE ZeroPage

Contents ==
  [p \in Pids |-> [a \in Addresses |->
     IF p \in Running THEN PageOf(p, vaddr_vpn(a))[vaddr_offset(a)] ELSE 0]]

Flat == INSTANCE FlatMemory WITH
          running <- Running, contents <- Contents, Zero <- 0

(* The simulator implements private, zero-initialised memory per process:  *)
(* no eviction, swap or reuse of a frame loses a byte or shows it to       *)
(* another process.                                                        *)
ImplementsFlatMemory == Flat!Spec

(***************************************************************************)
(* The inductive invariant: TypeOK and what follows.  It holds when the    *)
(* trace does not restart the process that accessed last.                  *)
(***************************************************************************)

(* While the process that accessed last runs, PTBR is its page table. *)
PtbrCurrent ==
  current_process \in Running => PTBR = procs[current_process].saved_ptbr

(* The protected frames are the frame table and the page tables of the     *)
(* running processes, each in a frame of its own.                          *)
TablesApart ==
  /\ \A f \in Frames : frame_table[f].protected <=> f = 0 \/ f \in TableFrames
  /\ \A p \in Running : procs[p].saved_ptbr # 0
  /\ \A p, q \in Running : procs[p].saved_ptbr = procs[q].saved_ptbr => p = q

(* A mapped frame and the page table entry it names point at each other. *)
FramesMatchTables ==
  \A f \in Frames : frame_table[f].mapped =>
    /\ ~frame_table[f].protected
    /\ frame_table[f].process \in Running
    /\ Entry(f).valid
    /\ Entry(f).pfn = f

TablesMatchFrames ==
  \A p \in Running : \A v \in Resident(p) :
    LET f == Table(p)[v].pfn IN
      /\ frame_table[f].mapped
      /\ frame_table[f].process = p
      /\ frame_table[f].vpn = v

(* What page tables say of swap is true, and tokens are used once. *)
SwapMatchesTables ==
  /\ \A p \in Running : \A v \in Pages : Table(p)[v].swap \in swap_queue \cup {0}
  /\ \A t \in swap_queue : t < TOKEN

IInv ==
  /\ TypeOK
  /\ PtbrCurrent
  /\ TablesApart
  /\ FramesMatchTables
  /\ TablesMatchFrames
  /\ SwapMatchesTables
  /\ SwapOwned
=============================================================================
