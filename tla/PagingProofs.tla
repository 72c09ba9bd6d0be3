---------------------------- MODULE PagingProofs ----------------------------
(***************************************************************************)
(* Proofs about Paging for every number of processes, pages and frames.    *)
(*                                                                         *)
(* The inductive invariant IInv says that page tables, the frame table and *)
(* the swap queue agree.  free_frame takes a page away from any process in *)
(* the middle of a line of the trace, so what the page tables look like    *)
(* after it (TablesAfter, QueueAfter) is described once, by the lemmas on  *)
(* evictions, and used for START and for page faults.                      *)
(***************************************************************************)
EXTENDS PagingProperties, FiniteSetTheorems, WellFoundedInduction, TLAPS

USE ProcessAssumption, SizeAssumption, ByteAssumption, OptionAssumption

(* vaddr_vpn and vaddr_offset of an address are a page and an offset. *)
LEMMA AddressSplit ==
  ASSUME NEW a \in Addresses
  PROVE  vaddr_vpn(a) \in Pages /\ vaddr_offset(a) \in Offsets
<1>1. a \in Nat /\ a < NumPages * PageSize
  BY DEF Addresses
<1>2. PageSize \in Nat /\ PageSize > 0 /\ NumPages \in Nat
  OBVIOUS
<1>3. a \div PageSize \in Nat /\ a % PageSize \in 0 .. PageSize - 1
  BY <1>1, <1>2, SMT
<1>4. a = PageSize * (a \div PageSize) + (a % PageSize)
  BY <1>1, <1>2, SMT
<1>5. a \div PageSize < NumPages
  BY <1>1, <1>2, <1>3, <1>4, SMTT(30)
<1> QED BY <1>3, <1>5 DEF vaddr_vpn, vaddr_offset, Pages, Offsets

(* An empty page table and a page of zeros are what memset leaves. *)
LEMMA ClearedFrame ==
  EmptyTable \in [Pages -> PTE] /\ ZeroPage \in [Offsets -> Byte]
BY DEF EmptyTable, NoMapping, PTE, ZeroPage, Frames

THEOREM InitIInv == Init => IInv
<1> SUFFICES ASSUME Init PROVE IInv
  OBVIOUS
<1> USE DEF Init
<1>1. Running = {}
  BY DEF Running
<1>2. TypeOK
  <2>1. \A f \in Frames : page_tables[f] \in [Pages -> PTE]
    BY ClearedFrame
  <2>2. page_data \in [Tokens -> [Offsets -> Byte]] /\ data \in [Frames -> [Offsets -> Byte]]
    BY ClearedFrame
  <2>3. frame_table \in [Frames -> FTE]
    BY DEF FTE, Pages
  <2>4. procs \in [Pids -> PCB] /\ PTBR \in Frames
    BY DEF PCB, Frames
  <2>5. TOKEN \in Tokens \cup {MaxToken + 1}
    BY DEF Tokens
  <2> QED BY <2>1, <2>2, <2>3, <2>4, <2>5 DEF TypeOK, Tokens
<1>3. TablesApart
  BY <1>1 DEF TablesApart, TableFrames
<1>4. FramesMatchTables
  BY DEF FramesMatchTables
<1> QED
  BY <1>1, <1>2, <1>3, <1>4
  DEF IInv, PtbrCurrent, TablesMatchFrames, SwapMatchesTables, SwapOwned

(***************************************************************************)
(* What free_frame leaves behind                                           *)
(***************************************************************************)

(* The frame free_frame returns is unprotected, hence neither the frame    *)
(* table nor the page table of a running process.                          *)
LEMMA VictimUnprotected ==
  ASSUME IInv, NEW f \in Victims
  PROVE  /\ f \in Frames /\ ~frame_table[f].protected
         /\ f # 0 /\ f \notin TableFrames
         /\ TokenAfter(f) <= MaxToken + 1
<1>1. f \in Unprotected /\ TokenAfter(f) <= MaxToken + 1
  BY DEF Victims, select_victim_frame, FreeFrames
<1> QED BY <1>1 DEF Unprotected, IInv, TablesApart

(* An evicted frame names its owner, whose entry maps the frame. *)
LEMMA EvictedEntry ==
  ASSUME IInv, NEW f \in Victims, Evicts(f)
  PROVE  /\ frame_table[f].process \in Running
         /\ frame_table[f].vpn \in Pages
         /\ Home(f) \in Frames
         /\ Entry(f) \in PTE
         /\ Entry(f) = Table(frame_table[f].process)[frame_table[f].vpn]
         /\ Entry(f).valid /\ Entry(f).pfn = f
<1>1. f \in Frames
  BY VictimUnprotected
<1>2. /\ frame_table[f].process \in Running
      /\ Entry(f).valid /\ Entry(f).pfn = f
  BY <1>1 DEF IInv, FramesMatchTables, Evicts
<1>3. frame_table[f].vpn \in Pages
  BY <1>1 DEF IInv, TypeOK, FTE
<1>4. Home(f) \in Frames
  BY <1>2 DEF IInv, TypeOK, PCB, Home, Running
<1> QED
  BY <1>2, <1>3, <1>4 DEF IInv, TypeOK, Entry, Home, Table

(* A write-back goes to an entry of the queue or to a fresh one. *)
LEMMA SlotType ==
  ASSUME IInv, NEW f \in Victims, WritesBack(f)
  PROVE  /\ Slot(f) \in Tokens
         /\ Slot(f) \in swap_queue => Slot(f) = Entry(f).swap
         /\ Slot(f) \notin swap_queue => Slot(f) = TOKEN
         /\ Slot(f) < TokenAfter(f)
         /\ TOKEN <= TokenAfter(f)
<1>1. swap_queue \subseteq Tokens /\ TOKEN \in 1 .. MaxToken + 1
  BY DEF IInv, TypeOK, Tokens
<1>2. TokenAfter(f) <= MaxToken + 1
  BY VictimUnprotected
<1>3. \A t \in swap_queue : t < TOKEN
  BY DEF IInv, SwapMatchesTables
<1>4. CASE Entry(f).swap \in swap_queue
  <2>1. Slot(f) = Entry(f).swap
    BY <1>4 DEF Slot
  <2>2. Slot(f) \in Tokens /\ Slot(f) < TOKEN
    BY <1>1, <1>3, <1>4, <2>1
  <2>3. TokenAfter(f) = TOKEN
    BY <1>1, <2>2 DEF TokenAfter, Tokens
  <2> QED BY <1>1, <1>4, <2>1, <2>2, <2>3 DEF Tokens
<1>5. CASE Entry(f).swap \notin swap_queue
  BY <1>1, <1>2, <1>3, <1>5 DEF Slot, TokenAfter, Tokens
<1> QED BY <1>4, <1>5

(* The updates that evictions make of an entry give an entry. *)
LEMMA EntryUpdates ==
  ASSUME NEW e \in PTE
  PROVE  /\ [e EXCEPT !.valid = FALSE] \in PTE
         /\ \A t \in Tokens :
              [e EXCEPT !.valid = FALSE, !.dirty = FALSE, !.swap = t] \in PTE
BY DEF PTE

(* free_frame keeps the types. *)
LEMMA EvictionType ==
  ASSUME IInv, NEW f \in Victims
  PROVE  /\ TablesAfter(f) \in [Frames -> [Pages -> PTE]]
         /\ QueueAfter(f) \in SUBSET Tokens
         /\ PagesAfter(f) \in [Tokens -> [Offsets -> Byte]]
         /\ TokenAfter(f) \in Tokens \cup {MaxToken + 1}
<1>1. /\ page_tables \in [Frames -> [Pages -> PTE]]
      /\ swap_queue \in SUBSET Tokens
      /\ page_data \in [Tokens -> [Offsets -> Byte]]
      /\ TOKEN \in Tokens \cup {MaxToken + 1}
      /\ data[f] \in [Offsets -> Byte]
  BY VictimUnprotected DEF IInv, TypeOK
<1>2. CASE WritesBack(f)
  <2>1. Slot(f) \in Tokens /\ Evicts(f)
    BY <1>2, SlotType DEF WritesBack
  <2> DEFINE new == [Entry(f) EXCEPT !.valid = FALSE, !.dirty = FALSE, !.swap = Slot(f)]
  <2>2. new \in PTE
    BY <2>1, EvictedEntry, EntryUpdates
  <2>3. TablesAfter(f) = [page_tables EXCEPT ![Home(f)][frame_table[f].vpn] = new]
    BY <1>1, <1>2, <2>1, EvictedEntry DEF TablesAfter, Entry
  <2> HIDE DEF new
  <2>4. TablesAfter(f) \in [Frames -> [Pages -> PTE]]
    BY <1>1, <2>1, <2>2, <2>3, EvictedEntry
  <2>5. PagesAfter(f) \in [Tokens -> [Offsets -> Byte]]
    BY <1>1, <1>2, <2>1 DEF PagesAfter
  <2>6. TokenAfter(f) \in Tokens \cup {MaxToken + 1}
    BY <1>1, <1>2, VictimUnprotected DEF TokenAfter, Tokens
  <2> QED BY <1>1, <1>2, <2>1, <2>4, <2>5, <2>6 DEF QueueAfter
<1>3. CASE ~WritesBack(f)
  <2>1. TablesAfter(f) \in [Frames -> [Pages -> PTE]]
    <3>1. CASE Evicts(f)
      <4> DEFINE new == [Entry(f) EXCEPT !.valid = FALSE]
      <4>1. new \in PTE
        BY <3>1, EvictedEntry, EntryUpdates
      <4>2. TablesAfter(f) = [page_tables EXCEPT ![Home(f)][frame_table[f].vpn] = new]
        BY <1>1, <1>3, <3>1, EvictedEntry DEF TablesAfter, Entry
      <4> HIDE DEF new
      <4> QED BY <1>1, <3>1, <4>1, <4>2, EvictedEntry
    <3>2. CASE ~Evicts(f)
      BY <1>1, <1>3, <3>2 DEF TablesAfter
    <3> QED BY <3>1, <3>2
  <2> QED BY <1>1, <1>3, <2>1 DEF QueueAfter, PagesAfter, TokenAfter
<1> QED BY <1>2, <1>3

(* No other entry changes, and the evicted one only in valid, dirty, swap. *)
LEMMA EvictionLeaves ==
  ASSUME IInv, NEW f \in Victims, NEW g \in Frames, NEW v \in Pages,
         Evicts(f) => g # Home(f) \/ v # frame_table[f].vpn
  PROVE  TablesAfter(f)[g][v] = page_tables[g][v]
BY EvictedEntry DEF TablesAfter, WritesBack, IInv, TypeOK

LEMMA EvictionEntry ==
  ASSUME IInv, NEW f \in Victims, Evicts(f)
  PROVE  LET old == Entry(f)
             new == TablesAfter(f)[Home(f)][frame_table[f].vpn]
         IN  /\ ~new.valid
             /\ new.pfn = f
             /\ new.swap = IF WritesBack(f) THEN Slot(f) ELSE old.swap
<1>1. page_tables \in [Frames -> [Pages -> PTE]]
  BY DEF IInv, TypeOK
<1>2. Entry(f) = page_tables[Home(f)][frame_table[f].vpn]
  BY DEF Entry
<1>3. CASE WritesBack(f)
  BY <1>1, <1>2, <1>3, EvictedEntry DEF TablesAfter, PTE
<1>4. CASE ~WritesBack(f)
  BY <1>1, <1>2, <1>4, EvictedEntry DEF TablesAfter, PTE
<1> QED BY <1>3, <1>4

(* The entries of a running process lie in its own table. *)
LEMMA OwnTable ==
  ASSUME IInv, NEW p \in Running
  PROVE  /\ p \in Pids
         /\ procs[p].saved_ptbr \in Frames
         /\ Table(p) = page_tables[procs[p].saved_ptbr]
         /\ Table(p) \in [Pages -> PTE]
         /\ frame_table[procs[p].saved_ptbr].protected
BY DEF IInv, TypeOK, Running, PCB, Table, TablesApart, TableFrames

(* Is the entry of page v of process p the one that eviction of f changes? *)
Evicted(f, p, v) ==
  Evicts(f) /\ p = frame_table[f].process /\ v = frame_table[f].vpn

LEMMA EvictedTable ==
  ASSUME IInv, NEW f \in Victims, NEW p \in Running, NEW v \in Pages
  PROVE  LET old == Table(p)[v]
             new == TablesAfter(f)[procs[p].saved_ptbr][v]
         IN  /\ Evicted(f, p, v) =>
                  /\ old = Entry(f)
                  /\ ~new.valid
                  /\ new.pfn = f
                  /\ new.swap = IF WritesBack(f) THEN Slot(f) ELSE old.swap
             /\ ~Evicted(f, p, v) => new = old
<1>1. CASE Evicted(f, p, v)
  <2>1. Home(f) = procs[p].saved_ptbr /\ Evicts(f)
    BY <1>1 DEF Evicted, Home
  <2>2. Table(p)[v] = Entry(f)
    BY <1>1, <2>1, EvictedEntry DEF Evicted
  <2> QED BY <1>1, <2>1, <2>2, EvictionEntry DEF Evicted
<1>2. CASE ~Evicted(f, p, v)
  <2>1. ASSUME Evicts(f), procs[p].saved_ptbr = Home(f)
        PROVE  p = frame_table[f].process
    BY <2>1, EvictedEntry DEF Home, IInv, TablesApart
  <2>2. Evicts(f) => procs[p].saved_ptbr # Home(f) \/ v # frame_table[f].vpn
    BY <1>2, <2>1 DEF Evicted
  <2>3. TablesAfter(f)[procs[p].saved_ptbr][v] = page_tables[procs[p].saved_ptbr][v]
    BY <2>2, OwnTable, EvictionLeaves
  <2> QED BY <1>2, <2>3, OwnTable
<1> QED BY <1>1, <1>2

(* After an eviction no table maps frame f, and nothing else changed.      *)
LEMMA EvictionResident ==
  ASSUME IInv, NEW f \in Victims, NEW p \in Running, NEW v \in Pages
  PROVE  LET old == Table(p)[v]
             new == TablesAfter(f)[procs[p].saved_ptbr][v]
         IN  /\ new.valid <=> old.valid /\ old.pfn # f
             /\ new.pfn = old.pfn
<1>1. CASE Evicted(f, p, v)
  <2>1. Evicts(f)
    BY <1>1 DEF Evicted
  <2> QED BY <1>1, <2>1, EvictedTable, EvictedEntry
<1>2. CASE ~Evicted(f, p, v)
  <2>1. ASSUME Table(p)[v].valid, Table(p)[v].pfn = f
        PROVE  FALSE
    <3>1. frame_table[f].mapped /\ frame_table[f].process = p /\ frame_table[f].vpn = v
      BY <2>1 DEF IInv, TablesMatchFrames, Resident
    <3> QED BY <1>2, <3>1 DEF Evicted, Evicts
  <2> QED BY <1>2, <2>1, EvictedTable, OwnTable DEF PTE
<1> QED BY <1>1, <1>2

(* After an eviction the swap queue and the tables agree again. *)
LEMMA EvictionSwap ==
  ASSUME IInv, NEW f \in Victims
  PROVE  /\ \A p \in Running : \A v \in Pages :
              TablesAfter(f)[procs[p].saved_ptbr][v].swap \in QueueAfter(f) \cup {0}
         /\ \A t \in QueueAfter(f) : t < TokenAfter(f)
<1>1. ASSUME NEW p \in Running, NEW v \in Pages
      PROVE  TablesAfter(f)[procs[p].saved_ptbr][v].swap \in QueueAfter(f) \cup {0}
  <2>1. Table(p)[v].swap \in swap_queue \cup {0}
    BY DEF IInv, SwapMatchesTables
  <2> QED BY <2>1, EvictedTable DEF QueueAfter
<1>2. \A t \in QueueAfter(f) : t < TokenAfter(f)
  <2>1. \A t \in swap_queue : t < TOKEN /\ t \in Int
    BY DEF IInv, SwapMatchesTables, TypeOK, Tokens
  <2>2. TOKEN \in Int
    BY DEF IInv, TypeOK, Tokens
  <2>3. CASE WritesBack(f)
    <3>1. TokenAfter(f) \in Int
      BY <2>2 DEF TokenAfter
    <3> QED BY <2>1, <2>2, <2>3, <3>1, SlotType DEF QueueAfter
  <2>4. CASE ~WritesBack(f)
    BY <2>1, <2>4 DEF QueueAfter, TokenAfter
  <2> QED BY <2>3, <2>4
<1> QED BY <1>1, <1>2

(* After an eviction every swap entry belongs to one page again. *)
LEMMA EvictionOwned ==
  ASSUME IInv, NEW f \in Victims
  PROVE  /\ \A t \in QueueAfter(f) : \E p \in Running : \E v \in Pages :
              TablesAfter(f)[procs[p].saved_ptbr][v].swap = t
         /\ \A p, q \in Running : \A v, w \in Pages :
              LET new == TablesAfter(f)[procs[p].saved_ptbr][v].swap IN
                new = TablesAfter(f)[procs[q].saved_ptbr][w].swap /\ new # 0
                  => p = q /\ v = w
<1> DEFINE New(p, v) == TablesAfter(f)[procs[p].saved_ptbr][v].swap
           Moved(p, v) == Evicted(f, p, v) /\ WritesBack(f)
<1>1. ASSUME NEW p \in Running, NEW v \in Pages
      PROVE  New(p, v) = IF Moved(p, v) THEN Slot(f) ELSE Table(p)[v].swap
  BY EvictedTable
<1>2. ASSUME WritesBack(f)
      PROVE  \E p \in Running : \E v \in Pages : Moved(p, v) /\ Table(p)[v] = Entry(f)
  BY <1>2, EvictedEntry DEF WritesBack, Evicted
<1> HIDE DEF New
<1>3. ASSUME NEW t \in QueueAfter(f)
      PROVE  \E p \in Running : \E v \in Pages : New(p, v) = t
  <2>1. CASE t \in swap_queue
    <3>1. PICK p \in Running : \E v \in Pages : Table(p)[v].swap = t
      BY <2>1 DEF IInv, SwapOwned
    <3>2. PICK v \in Pages : Table(p)[v].swap = t
      BY <3>1
    <3>3. Moved(p, v) => Slot(f) = t
      BY <2>1, <3>2, EvictedTable DEF Slot
    <3> QED BY <1>1, <3>2, <3>3
  <2>2. CASE WritesBack(f) /\ t = Slot(f)
    BY <1>1, <1>2, <2>2
  <2> QED BY <2>1, <2>2 DEF QueueAfter
<1>4. ASSUME NEW p \in Running, NEW q \in Running, NEW v \in Pages, NEW w \in Pages,
             New(p, v) = New(q, w), New(p, v) # 0
      PROVE  p = q /\ v = w
  <2>1. ASSUME NEW p1 \in Running, NEW v1 \in Pages, NEW p2 \in Running, NEW v2 \in Pages,
               Moved(p1, v1), ~Moved(p2, v2), New(p2, v2) = Slot(f), Slot(f) # 0
        PROVE  p1 = p2 /\ v1 = v2
    <3>1. Table(p2)[v2].swap = Slot(f)
      BY <1>1, <2>1
    <3>2. Slot(f) \in swap_queue
      BY <2>1, <3>1 DEF IInv, SwapMatchesTables
    <3>3. Table(p1)[v1].swap = Slot(f)
      BY <2>1, <3>2, SlotType, EvictedTable
    <3> QED BY <2>1, <3>1, <3>3 DEF IInv, SwapOwned
  <2>2. CASE Moved(p, v) /\ Moved(q, w)
    BY <2>2 DEF Evicted
  <2>3. CASE Moved(p, v) /\ ~Moved(q, w)
    BY <1>1, <1>4, <2>1, <2>3
  <2>4. CASE ~Moved(p, v) /\ Moved(q, w)
    BY <1>1, <1>4, <2>1, <2>4
  <2>5. CASE ~Moved(p, v) /\ ~Moved(q, w)
    BY <1>1, <1>4, <2>5 DEF IInv, SwapOwned
  <2> QED BY <2>2, <2>3, <2>4, <2>5
<1> QED BY <1>3, <1>4 DEF New

(***************************************************************************)
(* START                                                                   *)
(***************************************************************************)

(* The effect of a START that found frame f *)
StartsIn(pid, f) ==
  /\ CanStart(pid)
  /\ TableFrame(f)
  /\ ClearedTable(f)
  /\ data' = [data EXCEPT ![f] = ZeroPage]
  /\ SwapAfter(f)
  /\ procs' = [procs EXCEPT ![pid] = [state |-> "running", saved_ptbr |-> f]]
  /\ UNCHANGED <<current_process, PTBR, result, panicked>>

LEMMA StartType ==
  ASSUME IInv, NEW pid \in Pids, NEW f \in Victims, StartsIn(pid, f)
  PROVE  TypeOK'
<1> USE DEF StartsIn
<1>1. f \in Frames
  BY VictimUnprotected
<1>2. procs' \in [Pids -> PCB]
  BY <1>1 DEF IInv, TypeOK, PCB
<1>3. frame_table' \in [Frames -> FTE]
  <2>1. \A e \in FTE : [e EXCEPT !.mapped = FALSE, !.protected = TRUE] \in FTE
    BY DEF FTE
  <2> QED BY <1>1, <2>1 DEF IInv, TypeOK, TableFrame
<1>4. page_tables' \in [Frames -> [Pages -> PTE]]
  BY <1>1, EvictionType, ClearedFrame DEF ClearedTable
<1>5. data' \in [Frames -> [Offsets -> Byte]]
  BY <1>1, ClearedFrame DEF IInv, TypeOK
<1>6. /\ swap_queue' \in SUBSET Tokens
      /\ page_data' \in [Tokens -> [Offsets -> Byte]]
      /\ TOKEN' \in Tokens \cup {MaxToken + 1}
  BY EvictionType DEF SwapAfter
<1> QED BY <1>2, <1>3, <1>4, <1>5, <1>6 DEF IInv, TypeOK

(* The tables of the processes that ran are those the eviction left. *)
LEMMA StartTables ==
  ASSUME IInv, NEW pid \in Pids, NEW f \in Victims, StartsIn(pid, f)
  PROVE  /\ pid \notin Running /\ Running' = Running \cup {pid}
         /\ procs[pid]' = [state |-> "running", saved_ptbr |-> f]
         /\ Table(pid)' = EmptyTable
         /\ \A p \in Running :
              /\ procs[p]' = procs[p]
              /\ Table(p)' = TablesAfter(f)[procs[p].saved_ptbr]
<1>1. f \in Frames /\ f \notin TableFrames
  BY VictimUnprotected
<1>2. procs \in [Pids -> PCB] /\ procs[pid].state = "stopped"
  BY DEF IInv, TypeOK, StartsIn, CanStart
<1>3. pid \notin Running /\ Running' = Running \cup {pid}
  BY <1>2 DEF Running, StartsIn
<1>4. procs[pid]' = [state |-> "running", saved_ptbr |-> f]
  BY <1>2 DEF StartsIn
<1>5. TablesAfter(f) \in [Frames -> [Pages -> PTE]]
  BY EvictionType
<1>6. Table(pid)' = EmptyTable
  BY <1>1, <1>4, <1>5 DEF Table, StartsIn, ClearedTable
<1>7. ASSUME NEW p \in Running
      PROVE  procs[p]' = procs[p] /\ Table(p)' = TablesAfter(f)[procs[p].saved_ptbr]
  <2>1. p # pid /\ procs[p]' = procs[p]
    BY <1>2, <1>3 DEF StartsIn, Running
  <2>2. procs[p].saved_ptbr \in Frames /\ procs[p].saved_ptbr # f
    BY <1>1, OwnTable DEF TableFrames
  <2> QED BY <1>5, <2>1, <2>2 DEF Table, StartsIn, ClearedTable
<1> QED BY <1>3, <1>4, <1>6, <1>7

LEMMA StartIInv ==
  ASSUME IInv, ~RestartCurrent, NEW pid \in Pids, NEW f \in Victims, StartsIn(pid, f)
  PROVE  IInv'
<1>f. f \in Frames /\ f # 0 /\ f \notin TableFrames /\ ~frame_table[f].protected
  BY VictimUnprotected
<1>t. frame_table \in [Frames -> FTE]
  BY DEF IInv, TypeOK
<1>g. ASSUME NEW g \in Frames
      PROVE  /\ g # f => frame_table'[g] = frame_table[g]
             /\ frame_table'[f].protected /\ ~frame_table'[f].mapped
  BY <1>f, <1>t DEF StartsIn, TableFrame, FTE
<1>s. /\ pid \notin Running /\ Running' = Running \cup {pid}
      /\ procs'[pid] = [state |-> "running", saved_ptbr |-> f]
      /\ Table(pid)' = EmptyTable
      /\ \A p \in Running :
           /\ procs'[p] = procs[p]
           /\ Table(p)' = TablesAfter(f)[procs[p].saved_ptbr]
  BY StartTables
<1>1. TypeOK'
  BY StartType
<1>2. PtbrCurrent'
  BY <1>s DEF PtbrCurrent, IInv, StartsIn, CanStart
<1>3. TablesApart'
  <2>1. TableFrames' = TableFrames \cup {f}
    BY <1>s DEF TableFrames
  <2>2. \A g \in Frames : frame_table'[g].protected <=> g = 0 \/ g \in TableFrames'
    BY <1>f, <1>g, <2>1 DEF IInv, TablesApart
  <2>3. \A p \in Running' : procs'[p].saved_ptbr # 0
    BY <1>f, <1>s DEF IInv, TablesApart
  <2>4. ASSUME NEW p \in Running', NEW q \in Running',
               procs'[p].saved_ptbr = procs'[q].saved_ptbr
        PROVE  p = q
    BY <1>f, <2>4, <1>s DEF IInv, TablesApart, TableFrames
  <2> QED BY <2>2, <2>3, <2>4 DEF TablesApart
<1>4. FramesMatchTables'
  <2> SUFFICES ASSUME NEW g \in Frames, frame_table'[g].mapped
               PROVE  /\ ~frame_table'[g].protected
                      /\ frame_table'[g].process \in Running'
                      /\ Entry(g)'.valid
                      /\ Entry(g)'.pfn = g
    BY DEF FramesMatchTables
  <2>1. g # f /\ frame_table'[g] = frame_table[g] /\ frame_table[g].mapped
    BY <1>g
  <2> DEFINE p == frame_table[g].process
             v == frame_table[g].vpn
  <2>2. p \in Running /\ v \in Pages /\ ~frame_table[g].protected
    BY <1>t, <2>1 DEF IInv, FramesMatchTables, FTE
  <2>3. Table(p)[v].valid /\ Table(p)[v].pfn = g
    BY <2>1 DEF IInv, FramesMatchTables, Entry, Home, Table
  <2>4. Entry(g)' = TablesAfter(f)[procs[p].saved_ptbr][v]
    BY <2>1, <2>2, <1>s DEF Entry, Home, Table
  <2> QED BY <2>1, <2>2, <2>3, <2>4, EvictionResident, <1>s
<1>5. TablesMatchFrames'
  <2> SUFFICES ASSUME NEW p \in Running', NEW v \in Pages, Table(p)'[v].valid
               PROVE  LET g == Table(p)'[v].pfn IN
                        /\ frame_table'[g].mapped
                        /\ frame_table'[g].process = p
                        /\ frame_table'[g].vpn = v
    BY DEF TablesMatchFrames, Resident
  <2>1. p \in Running
    BY <1>s DEF EmptyTable, NoMapping
  <2>2. Table(p)'[v] = TablesAfter(f)[procs[p].saved_ptbr][v]
    BY <2>1, <1>s
  <2>3. /\ Table(p)[v].valid /\ Table(p)[v].pfn # f
        /\ Table(p)'[v].pfn = Table(p)[v].pfn
    BY <2>1, <2>2, EvictionResident
  <2>4. Table(p)[v].pfn \in Frames
    BY <2>1, OwnTable DEF PTE
  <2> QED BY <1>g, <2>1, <2>3, <2>4 DEF IInv, TablesMatchFrames, Resident
<1>6. SwapMatchesTables'
  <2>1. swap_queue' = QueueAfter(f) /\ TOKEN' = TokenAfter(f)
    BY DEF StartsIn, SwapAfter
  <2>2. ASSUME NEW p \in Running', NEW v \in Pages
        PROVE  Table(p)'[v].swap \in swap_queue' \cup {0}
    BY <2>1, EvictionSwap, <1>s DEF EmptyTable, NoMapping
  <2> QED BY <2>1, <2>2, EvictionSwap DEF SwapMatchesTables
<1>7. SwapOwned'
  <2>1. swap_queue' = QueueAfter(f)
    BY DEF StartsIn, SwapAfter
  <2>2. \A t \in swap_queue' : \E p \in Running' : \E v \in Pages : Table(p)'[v].swap = t
    BY <2>1, EvictionOwned, <1>s
  <2>3. ASSUME NEW p \in Running', NEW q \in Running', NEW v \in Pages, NEW w \in Pages,
               Table(p)'[v].swap = Table(q)'[w].swap, Table(p)'[v].swap # 0
        PROVE  p = q /\ v = w
    <3>1. p \in Running /\ q \in Running
      BY <2>3, <1>s DEF EmptyTable, NoMapping
    <3> QED BY <2>3, <3>1, EvictionOwned, <1>s
  <2> QED BY <2>2, <2>3 DEF SwapOwned
<1> QED BY <1>1, <1>2, <1>3, <1>4, <1>5, <1>6, <1>7 DEF IInv

(***************************************************************************)
(* STOP                                                                    *)
(***************************************************************************)

(* Every token of a running process is in the queue and is its page's      *)
(* alone, so swap_free never panics.                                       *)
LEMMA StopFrees ==
  ASSUME IInv, NEW pid \in Running
  PROVE  ~FreesNothing(pid)
BY DEF FreesNothing, IInv, SwapMatchesTables, SwapOwned

LEMMA StopType ==
  ASSUME IInv, NEW pid \in Pids, Stop(pid)
  PROVE  TypeOK'
<1>1. pid \in Running
  BY DEF Stop, Running
<1>2. procs' \in [Pids -> PCB]
  BY DEF IInv, TypeOK, PCB, Stop, Frames
<1>3. frame_table' \in [Frames -> FTE]
  <2>1. \A e \in FTE : \A x, y \in BOOLEAN :
          [e EXCEPT !.mapped = x, !.protected = y] \in FTE
    BY DEF FTE
  <2>2. ASSUME NEW f \in Frames
        PROVE  [frame_table[f] EXCEPT
                  !.mapped = @ /\ f \notin Mapped(pid) \cup {procs[pid].saved_ptbr},
                  !.protected = @ /\ f # procs[pid].saved_ptbr] \in FTE
    BY <2>1 DEF IInv, TypeOK, FTE
  <2> QED BY <2>2 DEF Stop, Released
<1>4. page_tables' \in [Frames -> [Pages -> PTE]]
  <2>1. \A e \in PTE : [e EXCEPT !.swap = 0] \in PTE
    BY DEF PTE
  <2>2. [v \in Pages |-> [Table(pid)[v] EXCEPT !.swap = 0]] \in [Pages -> PTE]
    BY <1>1, <2>1, OwnTable
  <2>3. page_tables' = [page_tables EXCEPT ![procs[pid].saved_ptbr] =
                          [v \in Pages |-> [Table(pid)[v] EXCEPT !.swap = 0]]]
    BY <1>1, OwnTable DEF Stop, SwapFreed, IInv, TypeOK
  <2> QED BY <1>1, <2>2, <2>3, OwnTable DEF IInv, TypeOK
<1>5. page_data' \in [Tokens -> [Offsets -> Byte]]
  <2>1. page_data' = [t \in Tokens |->
                        IF t \in Swapped(pid) THEN ZeroPage ELSE page_data[t]]
    BY DEF Stop, SwapFreed
  <2> QED BY <2>1, ClearedFrame DEF IInv, TypeOK
<1>6. /\ swap_queue' \in SUBSET Tokens
      /\ TOKEN' = TOKEN
  BY DEF Stop, SwapFreed, IInv, TypeOK
<1>7. panicked' \in BOOLEAN
  <2>1. panicked' = FreesNothing(pid)
    BY DEF Stop
  <2> QED BY <2>1, Zenon DEF FreesNothing
<1> QED BY <1>2, <1>3, <1>4, <1>5, <1>6, <1>7 DEF IInv, TypeOK, Stop

(* The frame table and the tables of the other processes after a STOP *)
LEMMA StopTables ==
  ASSUME IInv, NEW pid \in Pids, Stop(pid)
  PROVE  /\ pid \in Running /\ Running' = Running \ {pid}
         /\ \A p \in Running' : procs'[p] = procs[p] /\ Table(p)' = Table(p)
         /\ \A g \in Frames :
              /\ frame_table'[g].mapped <=>
                   /\ frame_table[g].mapped
                   /\ g \notin Mapped(pid) /\ g # procs[pid].saved_ptbr
              /\ frame_table'[g].protected <=>
                   frame_table[g].protected /\ g # procs[pid].saved_ptbr
              /\ frame_table'[g].process = frame_table[g].process
              /\ frame_table'[g].vpn = frame_table[g].vpn
<1>1. pid \in Running
  BY DEF Stop, Running
<1>2. Running' = Running \ {pid}
  BY <1>1 DEF Stop, Running, IInv, TypeOK
<1>3. ASSUME NEW p \in Running'
      PROVE  procs'[p] = procs[p] /\ Table(p)' = Table(p)
  <2>1. p \in Running /\ p # pid
    BY <1>2
  <2>2. procs[p].saved_ptbr # procs[pid].saved_ptbr
    BY <1>1, <2>1 DEF IInv, TablesApart
  <2>3. procs'[p] = procs[p]
    BY <2>1 DEF Stop
  <2> QED BY <2>1, <2>2, <2>3, OwnTable DEF Stop, SwapFreed, Table, IInv, TypeOK
<1>4. ASSUME NEW g \in Frames
      PROVE  /\ frame_table'[g].mapped <=>
                  /\ frame_table[g].mapped
                  /\ g \notin Mapped(pid) /\ g # procs[pid].saved_ptbr
             /\ frame_table'[g].protected <=>
                  frame_table[g].protected /\ g # procs[pid].saved_ptbr
             /\ frame_table'[g].process = frame_table[g].process
             /\ frame_table'[g].vpn = frame_table[g].vpn
  <2>1. frame_table[g] \in FTE
    BY DEF IInv, TypeOK
  <2>2. frame_table'[g] = [frame_table[g] EXCEPT
          !.mapped = @ /\ g \notin Mapped(pid) \cup {procs[pid].saved_ptbr},
          !.protected = @ /\ g # procs[pid].saved_ptbr]
    BY DEF Stop, Released
  <2> DEFINE m == frame_table[g].mapped /\ g \notin Mapped(pid) \cup {procs[pid].saved_ptbr}
             q == frame_table[g].protected /\ g # procs[pid].saved_ptbr
  <2>3. \A e \in FTE : \A x, y \in BOOLEAN :
          LET n == [e EXCEPT !.mapped = x, !.protected = y] IN
            n.mapped = x /\ n.protected = y /\ n.process = e.process /\ n.vpn = e.vpn
    BY DEF FTE
  <2>4. m \in BOOLEAN /\ q \in BOOLEAN
    OBVIOUS
  <2>5. frame_table'[g] = [frame_table[g] EXCEPT !.mapped = m, !.protected = q]
    BY <2>2
  <2>6. /\ frame_table'[g].mapped = m /\ frame_table'[g].protected = q
        /\ frame_table'[g].process = frame_table[g].process
        /\ frame_table'[g].vpn = frame_table[g].vpn
    <3> HIDE DEF m, q
    <3> QED BY <2>1, <2>3, <2>4, <2>5
  <2> QED BY <2>6
<1> QED BY <1>1, <1>2, <1>3, <1>4

LEMMA StopIInv ==
  ASSUME IInv, NEW pid \in Pids, Stop(pid)
  PROVE  IInv'
<1>s. /\ pid \in Running /\ Running' = Running \ {pid}
      /\ \A p \in Running' : procs'[p] = procs[p] /\ Table(p)' = Table(p)
  BY StopTables
<1>f. \A g \in Frames :
        /\ frame_table'[g].mapped <=>
             /\ frame_table[g].mapped
             /\ g \notin Mapped(pid) /\ g # procs[pid].saved_ptbr
        /\ frame_table'[g].protected <=>
             frame_table[g].protected /\ g # procs[pid].saved_ptbr
        /\ frame_table'[g].process = frame_table[g].process
        /\ frame_table'[g].vpn = frame_table[g].vpn
  BY StopTables
<1>q. swap_queue' = swap_queue \ Swapped(pid) /\ TOKEN' = TOKEN
  BY DEF Stop, SwapFreed
<1>1. TypeOK'
  BY StopType
<1>2. PtbrCurrent'
  BY <1>s DEF PtbrCurrent, IInv, Stop
<1>3. TablesApart'
  <2>1. TableFrames' = TableFrames \ {procs[pid].saved_ptbr}
    BY <1>s DEF TableFrames, IInv, TablesApart
  <2> QED BY <1>s, <1>f, <2>1 DEF IInv, TablesApart
<1>4. FramesMatchTables'
  <2> SUFFICES ASSUME NEW g \in Frames, frame_table'[g].mapped
               PROVE  /\ ~frame_table'[g].protected
                      /\ frame_table'[g].process \in Running'
                      /\ Entry(g)'.valid
                      /\ Entry(g)'.pfn = g
    BY DEF FramesMatchTables
  <2> DEFINE p == frame_table[g].process
             v == frame_table[g].vpn
  <2>1. /\ frame_table[g].mapped /\ g \notin Mapped(pid)
        /\ p = frame_table'[g].process /\ v = frame_table'[g].vpn
    BY <1>f
  <2>2. p \in Running /\ v \in Pages /\ ~frame_table[g].protected
    BY <2>1 DEF IInv, TypeOK, FramesMatchTables, FTE
  <2>3. Table(p)[v].valid /\ Table(p)[v].pfn = g
    BY <2>1 DEF IInv, FramesMatchTables, Entry, Home, Table
  <2>4. p # pid
    BY <2>1, <2>2, <2>3 DEF Mapped
  <2>5. Entry(g)' = Table(p)[v]
    BY <1>s, <2>1, <2>2, <2>4 DEF Entry, Home, Table
  <2> QED BY <1>s, <1>f, <2>1, <2>2, <2>3, <2>4, <2>5
<1>5. TablesMatchFrames'
  <2> SUFFICES ASSUME NEW p \in Running', NEW v \in Pages, Table(p)'[v].valid
               PROVE  LET g == Table(p)'[v].pfn IN
                        /\ frame_table'[g].mapped
                        /\ frame_table'[g].process = p
                        /\ frame_table'[g].vpn = v
    BY DEF TablesMatchFrames, Resident
  <2> DEFINE g == Table(p)[v].pfn
  <2>1. p \in Running /\ p # pid /\ Table(p)' = Table(p) /\ Table(p)[v].valid
    BY <1>s
  <2>2. g \in Frames
    BY <2>1, OwnTable DEF PTE
  <2>3. frame_table[g].mapped /\ frame_table[g].process = p /\ frame_table[g].vpn = v
    BY <2>1 DEF IInv, TablesMatchFrames, Resident
  <2>4. g # procs[pid].saved_ptbr
    BY <1>s, <2>2, <2>3, OwnTable DEF IInv, FramesMatchTables
  <2>5. g \notin Mapped(pid)
    BY <1>s, <2>1, <2>3 DEF Mapped, IInv, TablesMatchFrames, Resident
  <2> QED BY <1>f, <2>1, <2>2, <2>3, <2>4, <2>5
<1>6. SwapMatchesTables'
  <2>1. ASSUME NEW p \in Running', NEW v \in Pages
        PROVE  Table(p)'[v].swap \in swap_queue' \cup {0}
    <3>1. p \in Running /\ p # pid /\ Table(p)'[v] = Table(p)[v]
      BY <1>s
    <3>2. Table(p)[v].swap \in swap_queue \cup {0}
      BY <3>1 DEF IInv, SwapMatchesTables
    <3>3. Table(p)[v].swap \notin Swapped(pid)
      BY <1>s, <3>1 DEF IInv, SwapOwned, Swapped
    <3> QED BY <1>q, <3>1, <3>2, <3>3
  <2> QED BY <1>q, <2>1 DEF IInv, SwapMatchesTables
<1>7. SwapOwned'
  <2>1. ASSUME NEW t \in swap_queue'
        PROVE  \E p \in Running' : \E v \in Pages : Table(p)'[v].swap = t
    <3>1. t \in swap_queue /\ t \notin Swapped(pid) /\ t # 0
      BY <1>q DEF IInv, TypeOK, Tokens
    <3>2. PICK p \in Running : \E v \in Pages : Table(p)[v].swap = t
      BY <3>1 DEF IInv, SwapOwned
    <3>3. p # pid
      BY <3>1, <3>2 DEF Swapped
    <3> QED BY <1>s, <3>2, <3>3
  <2>2. \A p, q \in Running' : \A v, w \in Pages :
          Table(p)'[v].swap = Table(q)'[w].swap /\ Table(p)'[v].swap # 0
            => p = q /\ v = w
    BY <1>s DEF IInv, SwapOwned
  <2> QED BY <2>1, <2>2 DEF SwapOwned
<1> QED BY <1>1, <1>2, <1>3, <1>4, <1>5, <1>6, <1>7 DEF IInv

(***************************************************************************)
(* A memory access                                                         *)
(***************************************************************************)

(* mem_access changes no entry but for its dirty bit. *)
LEMMA TransferEffect ==
  ASSUME NEW tables \in [Frames -> [Pages -> PTE]],
         NEW pages \in [Frames -> [Offsets -> Byte]],
         NEW ptbr \in Frames, NEW a \in Addresses, NEW rw, NEW datum \in Byte,
         Transfer(tables, pages, ptbr, a, rw, datum)
  PROVE  /\ page_tables' \in [Frames -> [Pages -> PTE]]
         /\ data' \in [Frames -> [Offsets -> Byte]]
         /\ result' \in Byte
         /\ \A g \in Frames : \A v \in Pages :
              /\ page_tables'[g][v].valid = tables[g][v].valid
              /\ page_tables'[g][v].pfn = tables[g][v].pfn
              /\ page_tables'[g][v].swap = tables[g][v].swap
<1> DEFINE vpn == vaddr_vpn(a)
           offset == vaddr_offset(a)
           pfn == tables[ptbr][vpn].pfn
<1>1. vpn \in Pages /\ offset \in Offsets
  BY AddressSplit
<1>2. tables[ptbr][vpn] \in PTE /\ pfn \in Frames
  BY <1>1 DEF PTE
<1> HIDE DEF vpn, offset, pfn
<1>3. CASE ReadByte(tables, pages, ptbr, vpn, offset)
  BY <1>1, <1>2, <1>3 DEF ReadByte, pfn
<1>4. CASE WriteByte(tables, pages, ptbr, vpn, offset, datum)
  <2>1. \A e \in PTE : LET n == [e EXCEPT !.dirty = TRUE] IN
          n \in PTE /\ n.valid = e.valid /\ n.pfn = e.pfn /\ n.swap = e.swap
    BY DEF PTE
  <2> DEFINE new == [tables[ptbr][vpn] EXCEPT !.dirty = TRUE]
  <2>2. /\ new \in PTE /\ new.valid = tables[ptbr][vpn].valid
        /\ new.pfn = tables[ptbr][vpn].pfn /\ new.swap = tables[ptbr][vpn].swap
    BY <1>2, <2>1
  <2>3. page_tables' = [tables EXCEPT ![ptbr][vpn] = new]
    BY <1>1, <1>4 DEF WriteByte
  <2>4. data' = [pages EXCEPT ![pfn][offset] = datum] /\ result' = datum
    BY <1>4 DEF WriteByte, pfn
  <2> HIDE DEF new
  <2> QED BY <1>1, <1>2, <2>2, <2>3, <2>4
<1> QED BY <1>3, <1>4 DEF Transfer, vpn, offset

(* The page table an access goes through is its process's own. *)
LEMMA OwnPtbr ==
  ASSUME IInv, NEW pid \in Running
  PROVE  PtbrFor(pid) = procs[pid].saved_ptbr
BY DEF PtbrFor, IInv, PtbrCurrent

(* An access that finds its page changes no invariant. *)
LEMMA HitIInv ==
  ASSUME IInv, NEW pid \in Running, NEW a \in Addresses, NEW rw, NEW datum \in Byte,
         Hit(pid, a, rw, datum), current_process' = pid, PTBR' = PtbrFor(pid)
  PROVE  IInv'
<1>1. /\ page_tables' \in [Frames -> [Pages -> PTE]]
      /\ data' \in [Frames -> [Offsets -> Byte]]
      /\ result' \in Byte
      /\ \A g \in Frames : \A v \in Pages :
           /\ page_tables'[g][v].valid = page_tables[g][v].valid
           /\ page_tables'[g][v].pfn = page_tables[g][v].pfn
           /\ page_tables'[g][v].swap = page_tables[g][v].swap
  BY OwnPtbr, OwnTable, TransferEffect DEF Hit, IInv, TypeOK
<1>2. UNCHANGED <<procs, frame_table, swap_queue, page_data, TOKEN, panicked>>
  BY DEF Hit, swap
<1>3. Running' = Running
  BY <1>2 DEF Running
<1>4. ASSUME NEW p \in Running, NEW v \in Pages
      PROVE  /\ Table(p)'[v].valid = Table(p)[v].valid
             /\ Table(p)'[v].pfn = Table(p)[v].pfn
             /\ Table(p)'[v].swap = Table(p)[v].swap
  BY <1>1, <1>2, OwnTable DEF Table
<1>5. TypeOK'
  BY <1>1, <1>2, OwnPtbr, OwnTable DEF IInv, TypeOK
<1>6. PtbrCurrent'
  BY <1>2, <1>3, OwnPtbr DEF PtbrCurrent
<1>7. TablesApart'
  BY <1>2, <1>3 DEF IInv, TablesApart, TableFrames
<1>8. FramesMatchTables'
  <2> SUFFICES ASSUME NEW g \in Frames, frame_table[g].mapped
               PROVE  Entry(g)'.valid /\ Entry(g)'.pfn = g
    BY <1>2, <1>3 DEF IInv, FramesMatchTables
  <2> DEFINE p == frame_table[g].process
             v == frame_table[g].vpn
  <2>1. p \in Running /\ v \in Pages
    BY DEF IInv, TypeOK, FramesMatchTables, FTE
  <2>2. Table(p)[v].valid /\ Table(p)[v].pfn = g
    BY DEF IInv, FramesMatchTables, Entry, Home, Table
  <2>3. Entry(g)' = Table(p)'[v]
    BY <1>2 DEF Entry, Home, Table
  <2> QED BY <1>2, <1>4, <2>1, <2>2, <2>3
<1>9. TablesMatchFrames'
  BY <1>2, <1>3, <1>4 DEF IInv, TablesMatchFrames, Resident
<1>10. SwapMatchesTables'
  BY <1>2, <1>3, <1>4 DEF IInv, SwapMatchesTables
<1>11. SwapOwned'
  BY <1>2, <1>3, <1>4 DEF IInv, SwapOwned
<1> QED BY <1>5, <1>6, <1>7, <1>8, <1>9, <1>10, <1>11 DEF IInv

(* The effect of a page fault that found frame f, and of the access *)
FaultsIn(pid, f, a, rw, datum) ==
  LET vpn   == vaddr_vpn(a)
      token == Table(pid)[vpn].swap
  IN  /\ ~panicked
      /\ ~page_tables[PtbrFor(pid)][vpn].valid
      /\ Transfer(TablesLoaded(f, pid, vpn),
                  [data EXCEPT ![f] = LoadedPage(f, token)],
                  PtbrFor(pid), a, rw, datum)
      /\ frame_table' = FrameLoaded(f, pid, vpn)
      /\ SwapAfter(f)
      /\ panicked' = (token # 0 /\ token \notin QueueAfter(f))
      /\ procs' = procs
      /\ current_process' = pid
      /\ PTBR' = PtbrFor(pid)

(* The tables page_fault hands to mem_access: the faulting entry maps f,   *)
(* the others are as the eviction left them.                               *)
LEMMA LoadedTables ==
  ASSUME IInv, NEW pid \in Running, NEW f \in Victims, NEW vpn \in Pages
  PROVE  /\ TablesLoaded(f, pid, vpn) \in [Frames -> [Pages -> PTE]]
         /\ \A p \in Running : \A v \in Pages :
              LET s   == procs[p].saved_ptbr
                  old == TablesAfter(f)[s][v]
                  new == TablesLoaded(f, pid, vpn)[s][v]
              IN  /\ new.swap = old.swap
                  /\ IF p = pid /\ v = vpn THEN new.valid /\ new.pfn = f
                     ELSE new.valid = old.valid /\ new.pfn = old.pfn
                  /\ p = pid /\ v = vpn => ~new.dirty
                  /\ p # pid \/ v # vpn => new = old
<1> DEFINE s == procs[pid].saved_ptbr
           T == TablesAfter(f)
           e == T[s][vpn]
           new == [e EXCEPT !.valid = TRUE, !.dirty = FALSE, !.pfn = f]
           U == [T EXCEPT ![f] = EmptyTable]
<1>1. T \in [Frames -> [Pages -> PTE]]
  BY EvictionType
<1>2. f \in Frames /\ f \notin TableFrames
  BY VictimUnprotected
<1>3. s \in Frames /\ s # f
  BY <1>2, OwnTable DEF TableFrames
<1>4. e \in PTE
  BY <1>1, <1>3
<1>5. \A x \in PTE : \A g \in Frames :
        LET n == [x EXCEPT !.valid = TRUE, !.dirty = FALSE, !.pfn = g] IN
          n \in PTE /\ n.valid /\ ~n.dirty /\ n.pfn = g /\ n.swap = x.swap
  BY DEF PTE
<1>6. /\ new \in PTE /\ new.valid /\ ~new.dirty
      /\ new.pfn = f /\ new.swap = e.swap
  BY <1>2, <1>4, <1>5
<1>7. U \in [Frames -> [Pages -> PTE]] /\ \A g \in Frames \ {f} : U[g] = T[g]
  BY <1>1, <1>2, ClearedFrame
<1>8. TablesLoaded(f, pid, vpn) = [U EXCEPT ![s][vpn] = new]
  BY <1>1, <1>2, <1>3 DEF TablesLoaded
<1>9. \A p \in Running : procs[p].saved_ptbr \in Frames \ {f}
  BY <1>2, OwnTable DEF TableFrames
<1>10. \A p \in Running : procs[p].saved_ptbr = s => p = pid
  BY DEF IInv, TablesApart
<1> HIDE DEF s, T, e, new, U
<1>11. TablesLoaded(f, pid, vpn) \in [Frames -> [Pages -> PTE]]
  BY <1>3, <1>6, <1>7, <1>8
<1>12. ASSUME NEW p \in Running, NEW v \in Pages
       PROVE  LET r == procs[p].saved_ptbr IN
                TablesLoaded(f, pid, vpn)[r][v] =
                  IF p = pid /\ v = vpn THEN new ELSE T[r][v]
  BY <1>3, <1>6, <1>7, <1>8, <1>9, <1>10 DEF s
<1> QED BY <1>6, <1>11, <1>12 DEF e, T, s

LEMMA FaultTables ==
  ASSUME IInv, NEW pid \in Running, NEW f \in Victims, NEW a \in Addresses,
         NEW rw, NEW datum \in Byte, FaultsIn(pid, f, a, rw, datum)
  PROVE  /\ page_tables' \in [Frames -> [Pages -> PTE]]
         /\ data' \in [Frames -> [Offsets -> Byte]]
         /\ result' \in Byte
         /\ \A p \in Running : \A v \in Pages :
              LET old == TablesAfter(f)[procs[p].saved_ptbr][v]
                  new == Table(p)'[v]
              IN  /\ new.swap = old.swap
                  /\ IF p = pid /\ v = vaddr_vpn(a) THEN new.valid /\ new.pfn = f
                     ELSE new.valid = old.valid /\ new.pfn = old.pfn
<1> DEFINE vpn == vaddr_vpn(a)
           page == LoadedPage(f, Table(pid)[vpn].swap)
           pages == [data EXCEPT ![f] = page]
           T == TablesLoaded(f, pid, vpn)
<1>1. vpn \in Pages /\ f \in Frames
  BY AddressSplit, VictimUnprotected
<1>2. Table(pid)[vpn].swap \in Tokens \cup {0}
  BY <1>1, OwnTable DEF PTE
<1>3. page \in [Offsets -> Byte]
  BY <1>2, EvictionType, ClearedFrame DEF LoadedPage
<1>4. pages \in [Frames -> [Offsets -> Byte]]
  BY <1>1, <1>3 DEF IInv, TypeOK
<1>5. T \in [Frames -> [Pages -> PTE]]
  BY <1>1, LoadedTables
<1>6. PtbrFor(pid) \in Frames
  BY OwnPtbr, OwnTable
<1>7. Transfer(T, pages, PtbrFor(pid), a, rw, datum) /\ procs' = procs
  BY DEF FaultsIn
<1> HIDE DEF T, pages
<1>8. /\ page_tables' \in [Frames -> [Pages -> PTE]]
      /\ data' \in [Frames -> [Offsets -> Byte]]
      /\ result' \in Byte
      /\ \A g \in Frames : \A v \in Pages :
           /\ page_tables'[g][v].valid = T[g][v].valid
           /\ page_tables'[g][v].pfn = T[g][v].pfn
           /\ page_tables'[g][v].swap = T[g][v].swap
  BY <1>4, <1>5, <1>6, <1>7, TransferEffect
<1>9. ASSUME NEW p \in Running, NEW v \in Pages
      PROVE  /\ Table(p)'[v].valid = T[procs[p].saved_ptbr][v].valid
             /\ Table(p)'[v].pfn = T[procs[p].saved_ptbr][v].pfn
             /\ Table(p)'[v].swap = T[procs[p].saved_ptbr][v].swap
  BY <1>7, <1>8, OwnTable DEF Table
<1>10. ASSUME NEW p \in Running, NEW v \in Pages
       PROVE  LET old == TablesAfter(f)[procs[p].saved_ptbr][v]
                  new == T[procs[p].saved_ptbr][v]
              IN  /\ new.swap = old.swap
                  /\ IF p = pid /\ v = vpn THEN new.valid /\ new.pfn = f
                     ELSE new.valid = old.valid /\ new.pfn = old.pfn
  <2> HIDE DEF vpn
  <2> QED BY <1>1, LoadedTables DEF T
<1>11. ASSUME NEW p \in Running, NEW v \in Pages
       PROVE  LET old == TablesAfter(f)[procs[p].saved_ptbr][v]
                  new == Table(p)'[v]
              IN  /\ new.swap = old.swap
                  /\ IF p = pid /\ v = vpn THEN new.valid /\ new.pfn = f
                     ELSE new.valid = old.valid /\ new.pfn = old.pfn
  <2> HIDE DEF vpn
  <2> QED BY <1>9, <1>10
<1> QED BY <1>8, <1>11

LEMMA FaultIInv ==
  ASSUME IInv, NEW pid \in Running, NEW f \in Victims, NEW a \in Addresses,
         NEW rw, NEW datum \in Byte, FaultsIn(pid, f, a, rw, datum)
  PROVE  IInv' /\ panicked' = FALSE
<1> DEFINE vpn == vaddr_vpn(a)
           Same(p, v) == p = pid /\ v = vpn
           Left(p, v) == TablesAfter(f)[procs[p].saved_ptbr][v]
<1>a. vpn \in Pages /\ pid \in Pids
  BY AddressSplit, OwnTable
<1>f. f \in Frames /\ f # 0 /\ f \notin TableFrames /\ ~frame_table[f].protected
  BY VictimUnprotected
<1>n. ~Table(pid)[vpn].valid
  BY OwnPtbr, OwnTable DEF FaultsIn
<1>t. /\ page_tables' \in [Frames -> [Pages -> PTE]]
      /\ data' \in [Frames -> [Offsets -> Byte]]
      /\ result' \in Byte
  BY FaultTables
<1>e. ASSUME NEW p \in Running, NEW v \in Pages
      PROVE  /\ Table(p)'[v].swap = Left(p, v).swap
             /\ Same(p, v) => Table(p)'[v].valid /\ Table(p)'[v].pfn = f
             /\ ~Same(p, v) => /\ Table(p)'[v].valid = Left(p, v).valid
                               /\ Table(p)'[v].pfn = Left(p, v).pfn
  BY FaultTables
<1>p. /\ procs' = procs /\ current_process' = pid /\ PTBR' = PtbrFor(pid)
      /\ swap_queue' = QueueAfter(f) /\ page_data' = PagesAfter(f)
      /\ TOKEN' = TokenAfter(f)
  BY DEF FaultsIn, SwapAfter
<1>g. /\ frame_table' \in [Frames -> FTE]
      /\ frame_table'[f] = [protected |-> FALSE, mapped |-> TRUE,
                            process |-> pid, vpn |-> vpn]
      /\ \A g \in Frames \ {f} : frame_table'[g] = frame_table[g]
  <2>1. frame_table' = [frame_table EXCEPT ![f] =
          [protected |-> FALSE, mapped |-> TRUE, process |-> pid, vpn |-> vpn]]
    BY DEF FaultsIn, FrameLoaded
  <2>2. [protected |-> FALSE, mapped |-> TRUE, process |-> pid, vpn |-> vpn] \in FTE
    BY <1>a DEF FTE
  <2> HIDE DEF vpn
  <2> QED BY <1>f, <2>1, <2>2 DEF IInv, TypeOK
<1>r. Running' = Running
  BY <1>p DEF Running
<1> HIDE DEF vpn
<1>0. panicked' = FALSE
  <2>1. panicked' = (Table(pid)[vpn].swap # 0 /\ Table(pid)[vpn].swap \notin QueueAfter(f))
    BY DEF FaultsIn, vpn
  <2>2. ~Evicted(f, pid, vpn)
    <3>1. Evicted(f, pid, vpn) => Evicts(f)
      BY DEF Evicted
    <3> QED BY <1>a, <1>n, <3>1, EvictedTable, EvictedEntry
  <2>3. Left(pid, vpn).swap = Table(pid)[vpn].swap
    BY <1>a, <2>2, EvictedTable
  <2>4. Left(pid, vpn).swap \in QueueAfter(f) \cup {0}
    BY <1>a, EvictionSwap
  <2> QED BY <2>1, <2>3, <2>4
<1>1. TypeOK'
  <2>1. PTBR' \in Frames
    BY <1>p, OwnPtbr, OwnTable
  <2> QED BY <1>a, <1>t, <1>p, <1>g, <1>0, <2>1, EvictionType DEF IInv, TypeOK
<1>2. PtbrCurrent'
  BY <1>p, OwnPtbr DEF PtbrCurrent
<1>3. TablesApart'
  <2>1. TableFrames' = TableFrames
    BY <1>p, <1>r DEF TableFrames
  <2> QED BY <1>p, <1>r, <1>f, <1>g, <2>1 DEF IInv, TablesApart
<1>4. FramesMatchTables'
  <2> SUFFICES ASSUME NEW g \in Frames, frame_table'[g].mapped
               PROVE  /\ ~frame_table'[g].protected
                      /\ frame_table'[g].process \in Running
                      /\ Entry(g)'.valid
                      /\ Entry(g)'.pfn = g
    BY <1>r DEF FramesMatchTables
  <2>1. CASE g = f
    <3>1. Entry(g)' = Table(pid)'[vpn]
      BY <1>g, <2>1 DEF Entry, Home, Table
    <3> QED BY <1>a, <1>e, <1>g, <2>1, <3>1
  <2>2. CASE g # f
    <3> DEFINE p == frame_table[g].process
               v == frame_table[g].vpn
    <3>1. frame_table'[g] = frame_table[g] /\ frame_table[g].mapped
      BY <1>g, <2>2
    <3>2. p \in Running /\ v \in Pages /\ ~frame_table[g].protected
      BY <3>1 DEF IInv, TypeOK, FramesMatchTables, FTE
    <3>3. Table(p)[v].valid /\ Table(p)[v].pfn = g
      BY <3>1 DEF IInv, FramesMatchTables, Entry, Home, Table
    <3>4. ~Same(p, v)
      BY <1>n, <3>3
    <3>5. Left(p, v).valid /\ Left(p, v).pfn = g
      BY <2>2, <3>2, <3>3, EvictionResident
    <3>6. Entry(g)' = page_tables'[procs[p].saved_ptbr][v]
      BY <1>p, <3>1 DEF Entry, Home
    <3>7. page_tables'[procs[p].saved_ptbr][v].valid
          /\ page_tables'[procs[p].saved_ptbr][v].pfn = g
      BY <1>e, <1>p, <3>2, <3>4, <3>5 DEF Table
    <3> QED BY <3>1, <3>2, <3>6, <3>7
  <2> QED BY <2>1, <2>2
<1>5. TablesMatchFrames'
  <2> SUFFICES ASSUME NEW p \in Running, NEW v \in Pages, Table(p)'[v].valid
               PROVE  LET g == Table(p)'[v].pfn IN
                        /\ frame_table'[g].mapped
                        /\ frame_table'[g].process = p
                        /\ frame_table'[g].vpn = v
    BY <1>r DEF TablesMatchFrames, Resident
  <2>1. CASE Same(p, v)
    BY <1>e, <1>g, <2>1
  <2>2. CASE ~Same(p, v)
    <3>1. Left(p, v).valid /\ Table(p)'[v].pfn = Left(p, v).pfn
      BY <1>e, <2>2
    <3>2. /\ Table(p)[v].valid /\ Table(p)[v].pfn # f
          /\ Left(p, v).pfn = Table(p)[v].pfn
      BY <3>1, EvictionResident
    <3>3. Table(p)[v].pfn \in Frames
      BY OwnTable DEF PTE
    <3> QED BY <1>g, <3>1, <3>2, <3>3 DEF IInv, TablesMatchFrames, Resident
  <2> QED BY <2>1, <2>2
<1>6. SwapMatchesTables'
  BY <1>e, <1>p, <1>r, EvictionSwap DEF SwapMatchesTables
<1>7. SwapOwned'
  <2>1. ASSUME NEW t \in swap_queue'
        PROVE  \E p \in Running : \E v \in Pages : Table(p)'[v].swap = t
    BY <1>e, <1>p, EvictionOwned
  <2>2. ASSUME NEW p \in Running, NEW q \in Running, NEW v \in Pages, NEW w \in Pages,
               Table(p)'[v].swap = Table(q)'[w].swap, Table(p)'[v].swap # 0
        PROVE  p = q /\ v = w
    BY <1>e, <2>2, EvictionOwned
  <2> QED BY <1>r, <2>1, <2>2 DEF SwapOwned
<1> QED BY <1>0, <1>1, <1>2, <1>3, <1>4, <1>5, <1>6, <1>7 DEF IInv

(***************************************************************************)
(* The theorems                                                            *)
(***************************************************************************)

(* What a line of the trace does, by its outcome *)
LEMMA StepCases ==
  ASSUME Next
  PROVE  \/ select_victim_frame = {} /\ Panic
         \/ \E pid \in Pids : Stop(pid)
         \/ \E pid \in Pids : \E f \in Victims : StartsIn(pid, f)
         \/ \E pid \in Running : \E a \in Addresses, rw \in {"r", "w"}, b \in Byte :
              /\ Hit(pid, a, rw, b) /\ current_process' = pid /\ PTBR' = PtbrFor(pid)
              /\ ~panicked
         \/ \E pid \in Running : \E f \in Victims :
              \E a \in Addresses, rw \in {"r", "w"}, b \in Byte :
                FaultsIn(pid, f, a, rw, b)
<1>1. PICK pid \in Pids : Start(pid) \/ Stop(pid) \/ Read(pid) \/ Write(pid)
  BY DEF Next
<1>2. CASE Start(pid)
  BY <1>2 DEF Start, StartsIn
<1>3. CASE Stop(pid)
  BY <1>3
<1>4. ASSUME NEW a \in Addresses, NEW rw \in {"r", "w"}, NEW b \in Byte,
             Access(pid, a, rw, b)
      PROVE  \/ select_victim_frame = {} /\ Panic
             \/ pid \in Running /\ Hit(pid, a, rw, b) /\ current_process' = pid
                  /\ PTBR' = PtbrFor(pid) /\ ~panicked
             \/ pid \in Running /\ \E f \in Victims : FaultsIn(pid, f, a, rw, b)
  <2>1. pid \in Running /\ ~panicked
    BY <1>4 DEF Access, Running
  <2>2. CASE Fault(pid, a, rw, b) /\ current_process' = pid /\ PTBR' = PtbrFor(pid)
    BY <2>1, <2>2 DEF Fault, FaultsIn
  <2> QED BY <1>4, <2>1, <2>2 DEF Access
<1>5. CASE Read(pid)
  <2>1. PICK a \in Addresses : Access(pid, a, "r", 0)
    BY <1>5 DEF Read
  <2> QED BY <1>4, <2>1
<1>6. CASE Write(pid)
  <2>1. PICK a \in Addresses, b \in Byte : Access(pid, a, "w", b)
    BY <1>6 DEF Write
  <2> QED BY <1>4, <2>1
<1> QED BY <1>1, <1>2, <1>3, <1>5, <1>6

(* A step that changes no more than panicked keeps the invariant. *)
LEMMA PanicIInv ==
  ASSUME IInv, panicked' \in BOOLEAN,
         UNCHANGED <<procs, current_process, PTBR, frame_table, page_tables, data,
                     swap_queue, page_data, TOKEN, result>>
  PROVE  IInv'
BY DEF IInv, TypeOK, PtbrCurrent, TablesApart, FramesMatchTables, TablesMatchFrames,
       SwapMatchesTables, SwapOwned, TableFrames, Resident, Running, Entry, Home, Table

LEMMA StepIInv ==
  ASSUME IInv, ~RestartCurrent, [Next]_vars
  PROVE  IInv'
<1>1. CASE Next
  <2>1. CASE Panic
    BY <2>1, PanicIInv DEF Panic, cpu, swap
  <2>2. ASSUME NEW pid \in Pids, Stop(pid)
        PROVE  IInv'
    BY <2>2, StopIInv
  <2>3. ASSUME NEW pid \in Pids, NEW f \in Victims, StartsIn(pid, f)
        PROVE  IInv'
    BY <2>3, StartIInv
  <2>4. ASSUME NEW pid \in Running, NEW a \in Addresses, NEW rw, NEW b \in Byte,
               Hit(pid, a, rw, b), current_process' = pid, PTBR' = PtbrFor(pid)
        PROVE  IInv'
    BY <2>4, HitIInv
  <2>5. ASSUME NEW pid \in Running, NEW f \in Victims, NEW a \in Addresses,
               NEW rw, NEW b \in Byte, FaultsIn(pid, f, a, rw, b)
        PROVE  IInv'
    BY <2>5, FaultIInv
  <2> QED BY <1>1, <2>1, <2>2, <2>3, <2>4, <2>5, StepCases
<1>2. CASE UNCHANGED vars
  BY <1>2, PanicIInv DEF vars, IInv, TypeOK
<1> QED BY <1>1, <1>2

(* The inductive invariant holds for every trace that does not restart the *)
(* process that accessed last.                                             *)
THEOREM Invariance ==
  ASSUME ~RestartCurrent
  PROVE  Spec => []IInv
<1>1. Init => IInv
  BY InitIInv
<1>2. IInv /\ [Next]_vars => IInv'
  BY StepIInv
<1> QED BY <1>1, <1>2, PTL DEF Spec

(* Every variable keeps its type. *)
THEOREM TypeCorrect ==
  ASSUME ~RestartCurrent
  PROVE  Spec => []TypeOK
<1>1. IInv => TypeOK
  BY DEF IInv
<1> QED BY <1>1, Invariance, PTL

(* The strict corruption checking of pagesim.c never fails. *)
THEOREM ValidityCorrect ==
  ASSUME ~RestartCurrent
  PROVE  Spec => []CheckValidity
<1>1. ASSUME IInv PROVE CheckValidity
  <2>1. ASSUME NEW p \in Running
        PROVE  /\ procs[p].saved_ptbr > 0 /\ procs[p].saved_ptbr <= NumFrames
               /\ frame_table[procs[p].saved_ptbr].protected
    BY <1>1, OwnTable DEF IInv, TablesApart, Frames
  <2>2. ProtectionChecked
    BY <1>1 DEF IInv, TablesApart, ProtectionChecked
  <2>3. ASSUME NEW p \in Running, NEW v \in Resident(p)
        PROVE  MappingChecked(p, v)
    <3> DEFINE f == Table(p)[v].pfn
    <3>1. v \in Pages /\ f \in Frames
      BY <1>1, OwnTable DEF PTE, Resident
    <3>2. frame_table[f].mapped /\ frame_table[f].process = p /\ frame_table[f].vpn = v
      BY <1>1 DEF IInv, TablesMatchFrames
    <3>3. ~frame_table[f].protected
      BY <1>1, <3>1, <3>2 DEF IInv, FramesMatchTables
    <3>4. f # 0 /\ f \notin TableFrames
      BY <1>1, <3>1, <3>3 DEF IInv, TablesApart
    <3> QED BY <3>1, <3>2, <3>4 DEF MappingChecked, Frames
  <2>4. TablesChecked
    BY <1>1, <2>3 DEF TablesChecked, IInv, SwapMatchesTables
  <2>5. NoDuplicatePfn
    BY <1>1 DEF NoDuplicatePfn, IInv, TablesMatchFrames
  <2>6. FramesChecked
    <3> SUFFICES ASSUME NEW f \in Unprotected, frame_table[f].mapped
                 PROVE  \E p \in Running : \E v \in Resident(p) : Table(p)[v].pfn = f
      BY DEF FramesChecked
    <3>1. f \in Frames
      BY DEF Unprotected
    <3>2. /\ frame_table[f].process \in Running
          /\ Entry(f).valid /\ Entry(f).pfn = f
          /\ frame_table[f].vpn \in Pages
      BY <1>1, <3>1 DEF IInv, TypeOK, FTE, FramesMatchTables
    <3> QED BY <3>2 DEF Entry, Home, Table, Resident
  <2> QED BY <2>1, <2>2, <2>4, <2>5, <2>6 DEF CheckValidity, PtbrsChecked
<1> QED BY <1>1, Invariance, PTL

(* Swap entries and pages correspond, and stopped processes hold no swap. *)
THEOREM SwapAccounted ==
  ASSUME ~RestartCurrent
  PROVE  Spec => []SwapOwned
<1>1. IInv => SwapOwned
  BY DEF IInv
<1> QED BY <1>1, Invariance, PTL

(***************************************************************************)
(* Running out of memory                                                   *)
(***************************************************************************)

(* A set of frames that is not empty has a lowest frame. *)
LEMMA LowestFrame ==
  ASSUME NEW S \in SUBSET Nat, S # {}
  PROVE  \E f \in S : \A g \in S : f <= g
<1> DEFINE R == {ss \in Nat \X Nat : ss[1] < ss[2]}
<1>1. IsWellFoundedOn(R, Nat)
  BY NatLessThanWellFounded DEF OpToRel
<1>3. ASSUME NEW f \in Nat, NEW g \in Nat, g < f
      PROVE  <<g, f>> \in R
  <2> DEFINE x == <<g, f>>
  <2>1. x \in Nat \X Nat /\ x[1] = g /\ x[2] = f
    OBVIOUS
  <2> QED BY <1>3, <2>1
<1> HIDE DEF R
<1>2. PICK f \in S : \A g \in S : <<g, f>> \notin R
  BY <1>1, WFMin
<1>4. ASSUME NEW g \in S
      PROVE  f <= g
  <2>1. f \in Nat /\ g \in Nat
    OBVIOUS
  <2>2. ~(g < f)
    BY <1>2, <1>3, <2>1
  <2> QED BY <2>1, <2>2
<1> QED BY <1>4

(* select_victim_frame finds a frame whenever one is unprotected. *)
LEMMA VictimFound ==
  ASSUME Replacement = "random", select_victim_frame = {}
  PROVE  Unprotected = {}
<1>1. FreeFrames \in SUBSET Nat
  BY DEF FreeFrames, Unprotected, Frames
<1>2. CASE FreeFrames # {}
  BY <1>1, <1>2, LowestFrame DEF select_victim_frame
<1>3. CASE FreeFrames = {}
  BY <1>3 DEF select_victim_frame
<1> QED BY <1>2, <1>3

(* A step that panics has found every frame protected. *)
LEMMA PanicStep ==
  ASSUME IInv, Replacement = "random", Next, panicked' # panicked
  PROVE  Unprotected = {} /\ frame_table' = frame_table
<1>1. CASE select_victim_frame = {} /\ Panic
  BY <1>1, VictimFound DEF Panic
<1>2. ASSUME NEW pid \in Pids, Stop(pid)
      PROVE  FALSE
  <2>1. pid \in Running /\ ~panicked /\ panicked' = FreesNothing(pid)
    BY <1>2 DEF Stop, Running
  <2>2. ~FreesNothing(pid)
    BY <2>1, StopFrees
  <2>3. panicked' = FALSE /\ panicked = FALSE
    BY <2>1, <2>2, Zenon DEF IInv, TypeOK, FreesNothing
  <2> QED BY <2>3
<1>3. ASSUME NEW pid \in Pids, NEW f \in Victims, StartsIn(pid, f)
      PROVE  FALSE
  BY <1>3 DEF StartsIn
<1>4. ASSUME NEW pid \in Running, NEW f \in Victims, NEW a \in Addresses,
             NEW rw, NEW b \in Byte, FaultsIn(pid, f, a, rw, b)
      PROVE  FALSE
  <2>1. panicked' = FALSE
    BY <1>4, FaultIInv
  <2>2. panicked = FALSE
    BY <1>4, Zenon DEF FaultsIn, IInv, TypeOK
  <2> QED BY <2>1, <2>2
<1> QED BY <1>1, <1>2, <1>3, <1>4, StepCases DEF Hit

LEMMA NextBeforePanic == Next => ~panicked
BY DEF Next, Start, CanStart, Stop, Read, Write, Access

(* "If every frame is protected, give up": with the random replacement the *)
(* simulator panics for no other reason, from no function that can panic.  *)
THEOREM PanicsOnlyWhenFull ==
  ASSUME ~RestartCurrent, Replacement = "random"
  PROVE  Spec => []PanicsOnlyWhenAllProtected
<1>1. Init => PanicsOnlyWhenAllProtected
  BY DEF Init, PanicsOnlyWhenAllProtected
<1>2. ASSUME IInv, PanicsOnlyWhenAllProtected, [Next]_vars
      PROVE  PanicsOnlyWhenAllProtected'
  <2>1. CASE UNCHANGED vars
    BY <1>2, <2>1 DEF vars, PanicsOnlyWhenAllProtected, Unprotected
  <2>2. CASE Next /\ panicked' # panicked
    BY <1>2, <2>2, PanicStep DEF PanicsOnlyWhenAllProtected, Unprotected
  <2>3. CASE Next /\ panicked' = panicked
    BY <1>2, <2>3, NextBeforePanic DEF PanicsOnlyWhenAllProtected
  <2> QED BY <1>2, <2>1, <2>2, <2>3
<1> QED BY <1>1, <1>2, Invariance, PTL DEF Spec

(* The page tables leave a frame for data when there are enough frames. *)
LEMMA FrameLeft ==
  ASSUME IInv, IsFiniteSet(Pids), NumFrames > Cardinality(Pids) + 1
  PROVE  Unprotected # {}
<1> SUFFICES ASSUME Unprotected = {} PROVE FALSE
  OBVIOUS
<1> DEFINE ptbr == [p \in Running |-> procs[p].saved_ptbr]
<1>1. IsFiniteSet(Running) /\ Cardinality(Running) <= Cardinality(Pids)
  BY FS_Subset DEF Running
<1>2. ptbr \in Surjection(Running, TableFrames)
  BY DEF Surjection, TableFrames
<1>3. IsFiniteSet(TableFrames) /\ Cardinality(TableFrames) <= Cardinality(Running)
  BY <1>1, <1>2, FS_Surjection
<1>4. /\ IsFiniteSet(TableFrames \cup {0})
      /\ Cardinality(TableFrames \cup {0}) <= Cardinality(TableFrames) + 1
  <2>1. Cardinality(TableFrames) \in Nat
    BY <1>3, FS_CardinalityType
  <2> QED BY <1>3, <2>1, FS_AddElement
<1>5. Frames \in SUBSET (TableFrames \cup {0})
  BY DEF Unprotected, IInv, TablesApart
<1>6. Cardinality(Frames) <= Cardinality(TableFrames \cup {0})
  BY <1>4, <1>5, FS_Subset
<1>7. Cardinality(Frames) = NumFrames
  BY FS_Interval DEF Frames
<1>8. /\ Cardinality(Pids) \in Nat /\ Cardinality(Running) \in Nat
      /\ Cardinality(TableFrames) \in Nat
      /\ Cardinality(TableFrames \cup {0}) \in Nat
  BY <1>1, <1>3, <1>4, FS_CardinalityType
<1> QED BY <1>1, <1>3, <1>4, <1>6, <1>7, <1>8

(* With a frame for the frame table, one for each page table and one more, *)
(* no trace ends in a panic.                                               *)
THEOREM NoPanic ==
  ASSUME ~RestartCurrent, Replacement = "random",
         IsFiniteSet(Pids), NumFrames > Cardinality(Pids) + 1
  PROVE  Spec => []NeverPanics
<1>1. Init => NeverPanics
  BY DEF Init, NeverPanics
<1>2. ASSUME IInv, NeverPanics, [Next]_vars
      PROVE  NeverPanics'
  <2>1. CASE UNCHANGED vars
    BY <1>2, <2>1 DEF vars, NeverPanics
  <2>2. CASE Next
    <3>1. panicked' = panicked
      BY <1>2, <2>2, PanicStep, FrameLeft
    <3> QED BY <1>2, <3>1 DEF NeverPanics
  <2> QED BY <1>2, <2>1, <2>2
<1> QED BY <1>1, <1>2, Invariance, PTL DEF Spec

(* Every access goes through the page table of its own process. *)
THEOREM OwnTableUsed ==
  ASSUME ~RestartCurrent
  PROVE  Spec => AccessUsesOwnTable
<1> DEFINE Own == procs' = procs /\ ~panicked' => PTBR' = procs[current_process'].saved_ptbr
<1>1. ASSUME IInv, Next
      PROVE  Own
  <2>1. CASE Panic
    BY <2>1 DEF Panic
  <2>2. ASSUME NEW pid \in Pids, Stop(pid)
        PROVE  procs' # procs
    BY <1>1, <2>2, StopTables DEF Running
  <2>3. ASSUME NEW pid \in Pids, NEW f \in Victims, StartsIn(pid, f)
        PROVE  procs' # procs
    <3>1. pid \notin Running /\ Running' = Running \cup {pid}
      BY <1>1, <2>3, StartTables
    <3>2. procs' = procs => Running' = Running
      BY DEF Running
    <3> QED BY <3>1, <3>2
  <2>4. ASSUME NEW pid \in Running, current_process' = pid, PTBR' = PtbrFor(pid)
        PROVE  Own
    BY <1>1, <2>4, OwnPtbr
  <2> QED BY <1>1, <2>1, <2>2, <2>3, <2>4, StepCases DEF FaultsIn
<1>2. IInv /\ [Next]_vars => [Own]_vars
  BY <1>1
<1> QED BY <1>2, Invariance, PTL DEF Spec, AccessUsesOwnTable

(***************************************************************************)
(* What leaves memory                                                      *)
(***************************************************************************)

(* The pages that a step takes out of memory although their process runs on *)
Gone == {x \in InMemory : x[1] \in Running' /\ x \notin InMemory'}

(* Two pages in memory are not in the same frame. *)
LEMMA FrameHoldsOne ==
  ASSUME IInv, NEW x \in InMemory, NEW y \in InMemory,
         Table(x[1])[x[2]].pfn = Table(y[1])[y[2]].pfn
  PROVE  x = y /\ frame_table[Table(x[1])[x[2]].pfn].mapped
<1>1. ASSUME NEW z \in InMemory
      PROVE  /\ z = <<z[1], z[2]>>
             /\ z[1] \in Running /\ z[2] \in Resident(z[1])
  BY DEF InMemory
<1>2. ASSUME NEW z \in InMemory
      PROVE  LET f == Table(z[1])[z[2]].pfn
             IN  /\ frame_table[f].mapped
                 /\ frame_table[f].process = z[1]
                 /\ frame_table[f].vpn = z[2]
  BY <1>1 DEF IInv, TablesMatchFrames
<1> QED BY <1>1, <1>2

(* When every page that leaves was in the frame that free_frame took, one  *)
(* leaves at most, and only when free_frame found no free frame.           *)
LEMMA OneGone ==
  ASSUME IInv, NEW f \in Victims,
         \A x \in Gone : Table(x[1])[x[2]].pfn = f
  PROVE  Cardinality(Gone) <= 1 /\ (Gone # {} => FreeFrames = {})
<1>1. CASE Gone = {}
  BY <1>1, FS_EmptySet
<1>2. CASE Gone # {}
  <2>1. PICK x \in Gone : TRUE
    BY <1>2
  <2>2. Gone = {x}
    BY <2>1, FrameHoldsOne DEF Gone
  <2>3. frame_table[f].mapped
    BY <2>1, FrameHoldsOne DEF Gone
  <2>4. FreeFrames = {}
    BY <2>3 DEF Victims, select_victim_frame, FreeFrames
  <2> QED BY <2>2, <2>4, FS_Singleton
<1> QED BY <1>1, <1>2

(* A step whose page tables keep what free_frame left valid loses only the *)
(* page in the frame that free_frame took.                                 *)
LEMMA OnlyEvictedGone ==
  ASSUME IInv, NEW f \in Victims,
         \A p \in Running : \A v \in Pages :
           TablesAfter(f)[procs[p].saved_ptbr][v].valid => Table(p)'[v].valid
  PROVE  \A x \in Gone : Table(x[1])[x[2]].pfn = f
<1> SUFFICES ASSUME NEW x \in Gone, Table(x[1])[x[2]].pfn # f
             PROVE  FALSE
  OBVIOUS
<1>1. /\ x \in Pids \X Pages /\ x[1] \in Running /\ x[1] \in Running'
      /\ x[2] \in Pages /\ Table(x[1])[x[2]].valid
  BY DEF Gone, InMemory, Resident
<1>2. TablesAfter(f)[procs[x[1]].saved_ptbr][x[2]].valid
  BY <1>1, EvictionResident
<1>3. x \in InMemory'
  BY <1>1, <1>2 DEF InMemory, Resident
<1> QED BY <1>3 DEF Gone

(* A step after which the tables of the processes that run on say the same *)
(* of validity takes no page away.                                         *)
LEMMA NoneGone ==
  ASSUME \A p \in Running : \A v \in Pages :
           p \in Running' /\ Table(p)[v].valid => Table(p)'[v].valid
  PROVE  Gone = {}
<1> SUFFICES ASSUME NEW x \in Gone PROVE FALSE
  OBVIOUS
<1>1. /\ x \in Pids \X Pages /\ x[1] \in Running /\ x[1] \in Running'
      /\ x[2] \in Pages /\ Table(x[1])[x[2]].valid
  BY DEF Gone, InMemory, Resident
<1>2. x \in InMemory'
  BY <1>1 DEF InMemory, Resident
<1> QED BY <1>2 DEF Gone

(* A page of a process that keeps running leaves memory alone, and only    *)
(* when no frame was free.                                                 *)
THEOREM OneLineEvictsOne ==
  ASSUME ~RestartCurrent
  PROVE  Spec => EvictsOneWhenFull
<1> DEFINE Bounded == Cardinality(Gone) <= 1 /\ (Gone # {} => FreeFrames = {})
<1>0. Gone = {} => Bounded
  BY FS_EmptySet
<1>1. ASSUME IInv, Next
      PROVE  Bounded
  <2>1. CASE Panic
    <3>1. \A p \in Running : Table(p)' = Table(p)
      BY <2>1 DEF Panic, cpu, Table
    <3> QED BY <3>1, <1>0, NoneGone
  <2>2. ASSUME NEW pid \in Pids, Stop(pid)
        PROVE  Bounded
    BY <1>0, <1>1, <2>2, StopTables, NoneGone
  <2>3. ASSUME NEW pid \in Pids, NEW f \in Victims, StartsIn(pid, f)
        PROVE  Bounded
    <3>1. \A p \in Running : Table(p)' = TablesAfter(f)[procs[p].saved_ptbr]
      BY <1>1, <2>3, StartTables
    <3> QED BY <1>1, <3>1, OnlyEvictedGone, OneGone
  <2>4. ASSUME NEW pid \in Running, NEW a \in Addresses, NEW rw \in {"r", "w"},
               NEW b \in Byte, Hit(pid, a, rw, b)
        PROVE  Bounded
    <3>1. PtbrFor(pid) \in Frames /\ page_tables \in [Frames -> [Pages -> PTE]]
          /\ data \in [Frames -> [Offsets -> Byte]]
      BY <1>1, OwnPtbr, OwnTable DEF IInv, TypeOK
    <3>2. \A g \in Frames : \A v \in Pages :
            page_tables'[g][v].valid = page_tables[g][v].valid
      BY <2>4, <3>1, TransferEffect DEF Hit
    <3>3. procs' = procs
      BY <2>4 DEF Hit
    <3>4. \A p \in Running : \A v \in Pages : Table(p)'[v].valid = Table(p)[v].valid
      BY <1>1, <3>2, <3>3, OwnTable DEF Table
    <3> QED BY <3>4, <1>0, NoneGone
  <2>5. ASSUME NEW pid \in Running, NEW f \in Victims, NEW a \in Addresses,
               NEW rw \in {"r", "w"}, NEW b \in Byte, FaultsIn(pid, f, a, rw, b)
        PROVE  Bounded
    <3>1. ASSUME NEW p \in Running, NEW v \in Pages,
                 TablesAfter(f)[procs[p].saved_ptbr][v].valid
          PROVE  Table(p)'[v].valid
      BY <1>1, <2>5, <3>1, FaultTables
    <3> QED BY <1>1, <3>1, OnlyEvictedGone, OneGone
  <2> QED BY <1>1, <2>1, <2>2, <2>3, <2>4, <2>5, StepCases
<1>2. IInv /\ [Next]_vars => [Bounded]_vars
  BY <1>1
<1>3. [Bounded]_vars =>
        [LET gone == {x \in InMemory : x[1] \in Running' /\ x \notin InMemory'}
         IN  /\ Cardinality(gone) <= 1
             /\ gone # {} => FreeFrames = {}]_vars
  BY DEF Gone
<1> QED BY <1>2, <1>3, Invariance, PTL DEF Spec, EvictsOneWhenFull

(***************************************************************************)
(* No byte is lost                                                         *)
(*                                                                         *)
(* View is PageOf for given page tables, frames and swap entries.  It is   *)
(* followed through a line of the trace: an eviction and the load of the   *)
(* faulting page change no view, the access changes one byte of one view.  *)
(***************************************************************************)
View(tables, pages, disk, ptbr, v) ==
  LET entry == tables[ptbr][v] IN
    IF entry.valid THEN pages[entry.pfn]
    ELSE IF entry.swap # 0 THEN disk[entry.swap]
    ELSE ZeroPage

LEMMA PageOfView ==
  ASSUME NEW p, NEW v
  PROVE  PageOf(p, v) = View(page_tables, data, page_data, procs[p].saved_ptbr, v)
BY DEF PageOf, View, Table

(* A page read back from swap is the page that was written there. *)
Saved(tables, pages, disk, ptbr, v) ==
  LET entry == tables[ptbr][v] IN
    entry.valid /\ ~entry.dirty =>
      pages[entry.pfn] = IF entry.swap # 0 THEN disk[entry.swap] ELSE ZeroPage

LEMMA CleanSaved ==
  CleanPagesAreSaved <=>
    \A p \in Running : \A v \in Pages :
      Saved(page_tables, data, page_data, procs[p].saved_ptbr, v)
BY DEF CleanPagesAreSaved, Saved, Resident, Table

(* Writing back a page leaves the swap entries of the other pages alone. *)
LEMMA EvictionKeepsSwap ==
  ASSUME IInv, NEW f \in Victims, NEW p \in Running, NEW v \in Pages,
         ~Evicted(f, p, v), Table(p)[v].swap # 0
  PROVE  PagesAfter(f)[Table(p)[v].swap] = page_data[Table(p)[v].swap]
<1> DEFINE t == Table(p)[v].swap
<1>1. t \in swap_queue /\ t \in Tokens
  BY DEF IInv, TypeOK, SwapMatchesTables
<1>2. CASE WritesBack(f)
  <2>1. PICK q \in Running, w \in Pages : Evicted(f, q, w) /\ Table(q)[w] = Entry(f)
    BY <1>2, EvictedEntry DEF WritesBack, Evicted
  <2>2. Slot(f) # t
    <3>1. CASE Slot(f) \in swap_queue
      <4>1. Slot(f) = Table(q)[w].swap
        BY <1>2, <2>1, <3>1, SlotType
      <4>2. p # q \/ v # w
        BY <2>1
      <4> QED BY <4>1, <4>2 DEF IInv, SwapOwned
    <3>2. CASE Slot(f) \notin swap_queue
      BY <1>1, <3>2
    <3> QED BY <3>1, <3>2
  <2> QED BY <1>1, <1>2, <2>2 DEF PagesAfter, IInv, TypeOK
<1>3. CASE ~WritesBack(f)
  BY <1>3 DEF PagesAfter
<1> QED BY <1>2, <1>3

(* An eviction changes no view. *)
LEMMA EvictionViews ==
  ASSUME IInv, CleanPagesAreSaved, NEW f \in Victims, NEW p \in Running, NEW v \in Pages
  PROVE  View(TablesAfter(f), data, PagesAfter(f), procs[p].saved_ptbr, v) = PageOf(p, v)
<1> DEFINE old == Table(p)[v]
           new == TablesAfter(f)[procs[p].saved_ptbr][v]
<1>1. CASE Evicted(f, p, v)
  <2>1. /\ old = Entry(f) /\ ~new.valid /\ Evicts(f)
        /\ new.swap = IF WritesBack(f) THEN Slot(f) ELSE old.swap
    BY <1>1, EvictedTable DEF Evicted
  <2>2. old.valid /\ old.pfn = f /\ PageOf(p, v) = data[f]
    BY <2>1, EvictedEntry DEF PageOf
  <2>3. CASE WritesBack(f)
    <3>1. new.swap = Slot(f) /\ Slot(f) \in Tokens /\ Slot(f) # 0
      BY <2>1, <2>3, SlotType DEF Tokens
    <3>2. PagesAfter(f)[Slot(f)] = data[f]
      BY <2>3, <3>1 DEF PagesAfter, IInv, TypeOK
    <3> QED BY <2>1, <2>2, <3>1, <3>2 DEF View
  <2>4. CASE ~WritesBack(f)
    <3>1. new.swap = old.swap /\ ~old.dirty /\ PagesAfter(f) = page_data
      BY <2>1, <2>4 DEF WritesBack, PagesAfter
    <3>2. data[f] = IF old.swap # 0 THEN page_data[old.swap] ELSE ZeroPage
      BY <2>2, <3>1 DEF CleanPagesAreSaved, Resident
    <3> QED BY <2>1, <2>2, <3>1, <3>2 DEF View
  <2> QED BY <2>3, <2>4
<1>2. CASE ~Evicted(f, p, v)
  <2>1. new = old
    BY <1>2, EvictedTable
  <2>2. old.swap # 0 => PagesAfter(f)[old.swap] = page_data[old.swap]
    BY <1>2, EvictionKeepsSwap
  <2> QED BY <2>1, <2>2 DEF View, PageOf
<1> QED BY <1>1, <1>2

(* The pages that stay in memory are saved if they were. *)
LEMMA EvictionSaved ==
  ASSUME IInv, CleanPagesAreSaved, NEW f \in Victims, NEW p \in Running, NEW v \in Pages
  PROVE  Saved(TablesAfter(f), data, PagesAfter(f), procs[p].saved_ptbr, v)
<1>1. CASE Evicted(f, p, v)
  BY <1>1, EvictedTable DEF Saved
<1>2. CASE ~Evicted(f, p, v)
  <2>1. TablesAfter(f)[procs[p].saved_ptbr][v] = Table(p)[v]
    BY <1>2, EvictedTable
  <2>2. Table(p)[v].swap # 0 =>
          PagesAfter(f)[Table(p)[v].swap] = page_data[Table(p)[v].swap]
    BY <1>2, EvictionKeepsSwap
  <2> QED BY <2>1, <2>2 DEF Saved, CleanPagesAreSaved, Resident
<1> QED BY <1>1, <1>2

(* Loading the faulting page changes no view. *)
LEMMA LoadedViews ==
  ASSUME IInv, CleanPagesAreSaved, NEW pid \in Running, NEW f \in Victims,
         NEW vpn \in Pages, ~Table(pid)[vpn].valid,
         NEW p \in Running, NEW v \in Pages
  PROVE  LET tables == TablesLoaded(f, pid, vpn)
             pages  == [data EXCEPT ![f] = LoadedPage(f, Table(pid)[vpn].swap)]
             s      == procs[p].saved_ptbr
         IN  /\ View(tables, pages, PagesAfter(f), s, v) = PageOf(p, v)
             /\ Saved(tables, pages, PagesAfter(f), s, v)
<1> DEFINE tables == TablesLoaded(f, pid, vpn)
           token == Table(pid)[vpn].swap
           page == LoadedPage(f, token)
           pages == [data EXCEPT ![f] = page]
           s == procs[p].saved_ptbr
           disk == PagesAfter(f)
           old == TablesAfter(f)[s][v]
           new == tables[s][v]
<1>1. f \in Frames
  BY VictimUnprotected
<1>2. pages[f] = page /\ \A g \in Frames \ {f} : pages[g] = data[g]
  BY <1>1 DEF IInv, TypeOK
<1>3. /\ new.swap = old.swap
      /\ IF p = pid /\ v = vpn THEN new.valid /\ new.pfn = f
         ELSE new.valid = old.valid /\ new.pfn = old.pfn
      /\ p # pid \/ v # vpn => new = old
  BY LoadedTables
<1>4. View(TablesAfter(f), data, disk, s, v) = PageOf(p, v)
  BY EvictionViews
<1>5. Saved(TablesAfter(f), data, disk, s, v)
  BY EvictionSaved
<1>6. page = IF token # 0 THEN disk[token] ELSE ZeroPage
  BY DEF LoadedPage
<1>7. CASE p = pid /\ v = vpn
  <2>1. old.swap = token /\ ~old.valid
    <3>1. ~Evicted(f, pid, vpn)
      <4>1. Evicted(f, pid, vpn) => Evicts(f)
        BY DEF Evicted
      <4> QED BY <4>1, EvictedTable, EvictedEntry
    <3> QED BY <1>7, <3>1, EvictedTable
  <2>2. new.valid /\ new.pfn = f /\ new.swap = token
    BY <1>3, <1>7, <2>1
  <2>3. View(tables, pages, disk, s, v) = PageOf(p, v) /\ Saved(tables, pages, disk, s, v)
    <3> HIDE DEF tables, token, page, pages, s, disk
    <3> QED BY <1>2, <1>4, <1>6, <2>1, <2>2 DEF View, Saved
  <2> QED BY <2>3
<1>8. CASE p # pid \/ v # vpn
  <2>1. new = old
    BY <1>3, <1>8
  <2>2. old.valid => old.pfn \in Frames \ {f}
    BY EvictionResident, OwnTable DEF PTE
  <2>3. View(tables, pages, disk, s, v) = PageOf(p, v) /\ Saved(tables, pages, disk, s, v)
    <3> HIDE DEF tables, token, page, pages, s, disk
    <3> QED BY <1>2, <1>4, <1>5, <2>1, <2>2 DEF View, Saved
  <2> QED BY <2>3
<1> QED BY <1>7, <1>8

(* What mem_access does to the view of page v of table s, and its result *)
ViewEffect(tables, pages, disk, ptbr, a, rw, datum, s, v) ==
  LET vpn == vaddr_vpn(a)
      offset == vaddr_offset(a)
      view == View(tables, pages, disk, s, v)
  IN  /\ View(page_tables', data', disk, s, v) =
           IF rw = "w" /\ s = ptbr /\ v = vpn
             THEN [view EXCEPT ![offset] = datum] ELSE view
      /\ Saved(page_tables', data', disk, s, v)
      /\ result' = IF rw = "w" THEN datum
                   ELSE View(tables, pages, disk, ptbr, vpn)[offset]

(* An access through a valid entry, the only one that maps its frame *)
ValidTransfer(tables, pages, disk, ptbr, a, rw, datum, s, v) ==
  /\ tables \in [Frames -> [Pages -> PTE]]
  /\ pages \in [Frames -> [Offsets -> Byte]]
  /\ ptbr \in Frames /\ s \in Frames /\ v \in Pages
  /\ a \in Addresses /\ rw \in {"r", "w"} /\ datum \in Byte
  /\ Transfer(tables, pages, ptbr, a, rw, datum)
  /\ tables[ptbr][vaddr_vpn(a)].valid
  /\ tables[s][v].valid /\ tables[s][v].pfn = tables[ptbr][vaddr_vpn(a)].pfn
       => s = ptbr /\ v = vaddr_vpn(a)
  /\ Saved(tables, pages, disk, s, v)

(* An access changes at most the byte it writes and returns that byte. *)
LEMMA TransferViews ==
  ASSUME NEW tables, NEW pages, NEW disk, NEW ptbr, NEW a, NEW rw, NEW datum,
         NEW s, NEW v, ValidTransfer(tables, pages, disk, ptbr, a, rw, datum, s, v)
  PROVE  ViewEffect(tables, pages, disk, ptbr, a, rw, datum, s, v)
<1>h. /\ tables \in [Frames -> [Pages -> PTE]]
      /\ pages \in [Frames -> [Offsets -> Byte]]
      /\ ptbr \in Frames /\ s \in Frames /\ v \in Pages
      /\ a \in Addresses /\ rw \in {"r", "w"} /\ datum \in Byte
      /\ Transfer(tables, pages, ptbr, a, rw, datum)
      /\ tables[ptbr][vaddr_vpn(a)].valid
      /\ tables[s][v].valid /\ tables[s][v].pfn = tables[ptbr][vaddr_vpn(a)].pfn
           => s = ptbr /\ v = vaddr_vpn(a)
      /\ Saved(tables, pages, disk, s, v)
  BY DEF ValidTransfer
<1> DEFINE vpn == vaddr_vpn(a)
           offset == vaddr_offset(a)
           entry == tables[ptbr][vpn]
           pfn == entry.pfn
<1>1. vpn \in Pages /\ offset \in Offsets
  BY <1>h, AddressSplit
<1>2. entry \in PTE /\ pfn \in Frames
  BY <1>h, <1>1 DEF PTE
<1>3. tables[s][v] \in PTE /\ tables[s][v].pfn \in Frames
  BY <1>h DEF PTE
<1> HIDE DEF vpn, offset, pfn
<1>4. CASE rw = "r"
  <2>1. ReadByte(tables, pages, ptbr, vpn, offset)
    BY <1>h, <1>4 DEF Transfer, vpn, offset
  <2> QED BY <1>h, <1>4, <2>1 DEF ReadByte, ViewEffect, View, vpn, offset
<1>5. CASE rw = "w"
  <2> DEFINE new == [entry EXCEPT !.dirty = TRUE]
  <2>1. WriteByte(tables, pages, ptbr, vpn, offset, datum)
    BY <1>h, <1>5 DEF Transfer, vpn, offset
  <2>2. \A e \in PTE : LET n == [e EXCEPT !.dirty = TRUE] IN
          n.valid = e.valid /\ n.pfn = e.pfn /\ n.swap = e.swap /\ n.dirty
    BY DEF PTE
  <2>3. /\ new.valid = entry.valid /\ new.pfn = entry.pfn
        /\ new.swap = entry.swap /\ new.dirty
    BY <1>h, <1>2, <2>2
  <2>4. page_tables' = [tables EXCEPT ![ptbr][vpn] = new]
    BY <1>h, <1>1, <2>1 DEF WriteByte
  <2>5. data' = [pages EXCEPT ![pfn][offset] = datum] /\ result' = datum
    BY <1>h, <2>1 DEF WriteByte, pfn
  <2> HIDE DEF new
  <2>6. CASE s = ptbr /\ v = vpn
    <3>1. page_tables'[s][v] = new
      BY <1>h, <1>1, <2>4, <2>6
    <3>2. data'[pfn] = [pages[pfn] EXCEPT ![offset] = datum]
      BY <1>h, <1>2, <2>5
    <3> QED BY <1>h, <1>5, <2>3, <2>5, <2>6, <3>1, <3>2 DEF ViewEffect, View, Saved, pfn, vpn, offset
  <2>7. CASE s # ptbr \/ v # vpn
    <3>1. page_tables'[s][v] = tables[s][v]
      BY <1>h, <1>1, <2>4, <2>7
    <3>2. tables[s][v].valid => data'[tables[s][v].pfn] = pages[tables[s][v].pfn]
      BY <1>h, <1>2, <1>3, <2>5, <2>7 DEF pfn, vpn
    <3> QED BY <1>h, <1>5, <2>5, <2>7, <3>1, <3>2 DEF ViewEffect, View, Saved, vpn
  <2> QED BY <1>h, <2>6, <2>7
<1> QED BY <1>h, <1>4, <1>5

(* What an access does to the pages, with or without a fault *)
AccessEffect(pid, a, rw, datum) ==
  LET vpn    == vaddr_vpn(a)
      offset == vaddr_offset(a)
  IN  /\ procs' = procs
      /\ \A p \in Running : \A v \in Pages :
           /\ PageOf(p, v)' =
                IF rw = "w" /\ p = pid /\ v = vpn
                  THEN [PageOf(p, v) EXCEPT ![offset] = datum] ELSE PageOf(p, v)
           /\ Saved(page_tables', data', page_data', procs'[p].saved_ptbr, v)
      /\ result' = IF rw = "w" THEN datum ELSE PageOf(pid, vpn)[offset]

LEMMA HitEffect ==
  ASSUME IInv, CleanPagesAreSaved, NEW pid \in Running, NEW a \in Addresses,
         NEW rw \in {"r", "w"}, NEW datum \in Byte, Hit(pid, a, rw, datum)
  PROVE  AccessEffect(pid, a, rw, datum)
<1> DEFINE s(p) == procs[p].saved_ptbr
           vpn == vaddr_vpn(a)
           offset == vaddr_offset(a)
<1>1. vpn \in Pages
  BY AddressSplit
<1>2. PtbrFor(pid) = s(pid)
  BY OwnPtbr
<1>3. /\ Transfer(page_tables, data, s(pid), a, rw, datum)
      /\ page_tables[s(pid)][vpn].valid
      /\ procs' = procs /\ page_data' = page_data
  BY <1>2 DEF Hit, swap
<1>4. ASSUME NEW p \in Running, NEW v \in Pages
      PROVE  ViewEffect(page_tables, data, page_data, s(pid), a, rw, datum, s(p), v)
  <2>1. s(p) \in Frames /\ s(pid) \in Frames
    BY OwnTable
  <2>2. Saved(page_tables, data, page_data, s(p), v)
    BY CleanSaved
  <2>3. page_tables[s(p)][v].valid
          /\ page_tables[s(p)][v].pfn = page_tables[s(pid)][vpn].pfn
          => s(p) = s(pid) /\ v = vpn
    BY <1>1, <1>3 DEF IInv, TablesMatchFrames, Resident, Table
  <2>4. page_tables \in [Frames -> [Pages -> PTE]] /\ data \in [Frames -> [Offsets -> Byte]]
    BY DEF IInv, TypeOK
  <2> HIDE DEF s
  <2>5. ValidTransfer(page_tables, data, page_data, s(pid), a, rw, datum, s(p), v)
    BY <1>3, <2>1, <2>2, <2>3, <2>4 DEF ValidTransfer
  <2> QED BY <2>5, TransferViews
<1>5. \A p \in Running : s(p) = s(pid) <=> p = pid
  BY DEF IInv, TablesApart
<1>6. \A p, v : PageOf(p, v)' = View(page_tables', data', page_data', procs'[p].saved_ptbr, v)
  BY DEF PageOf, View, Table
<1>7. ASSUME NEW p \in Running, NEW v \in Pages
      PROVE  /\ PageOf(p, v)' =
                  IF rw = "w" /\ p = pid /\ v = vpn
                    THEN [PageOf(p, v) EXCEPT ![offset] = datum] ELSE PageOf(p, v)
             /\ Saved(page_tables', data', page_data', procs'[p].saved_ptbr, v)
  BY <1>3, <1>4, <1>5, <1>6, PageOfView DEF ViewEffect
<1>8. result' = IF rw = "w" THEN datum ELSE PageOf(pid, vpn)[offset]
  BY <1>1, <1>4, PageOfView DEF ViewEffect
<1> QED BY <1>3, <1>7, <1>8 DEF AccessEffect

LEMMA FaultEffect ==
  ASSUME IInv, CleanPagesAreSaved, NEW pid \in Running, NEW f \in Victims,
         NEW a \in Addresses, NEW rw \in {"r", "w"}, NEW datum \in Byte,
         FaultsIn(pid, f, a, rw, datum)
  PROVE  AccessEffect(pid, a, rw, datum)
<1> DEFINE s(p) == procs[p].saved_ptbr
           vpn == vaddr_vpn(a)
           offset == vaddr_offset(a)
           tables == TablesLoaded(f, pid, vpn)
           page == LoadedPage(f, Table(pid)[vpn].swap)
           pages == [data EXCEPT ![f] = page]
           disk == PagesAfter(f)
<1>1. vpn \in Pages /\ f \in Frames
  BY AddressSplit, VictimUnprotected
<1>2. PtbrFor(pid) = s(pid) /\ ~Table(pid)[vpn].valid
  BY OwnPtbr, OwnTable DEF FaultsIn
<1>3. /\ Transfer(tables, pages, s(pid), a, rw, datum)
      /\ procs' = procs /\ page_data' = disk
  BY <1>2 DEF FaultsIn, SwapAfter
<1>4. tables \in [Frames -> [Pages -> PTE]]
  BY <1>1, LoadedTables
<1>5. pages \in [Frames -> [Offsets -> Byte]]
  <2>1. Table(pid)[vpn].swap \in Tokens \cup {0}
    BY <1>1, OwnTable DEF PTE
  <2>2. page \in [Offsets -> Byte]
    BY <2>1, EvictionType, ClearedFrame DEF LoadedPage
  <2> HIDE DEF page
  <2> QED BY <1>1, <2>2 DEF IInv, TypeOK
<1>6. ASSUME NEW p \in Running, NEW v \in Pages
      PROVE  /\ View(tables, pages, disk, s(p), v) = PageOf(p, v)
             /\ Saved(tables, pages, disk, s(p), v)
  BY <1>1, <1>2, LoadedViews
<1>7. ASSUME NEW p \in Running, NEW v \in Pages
      PROVE  IF p = pid /\ v = vpn
               THEN tables[s(p)][v].valid /\ tables[s(p)][v].pfn = f
               ELSE tables[s(p)][v].valid => tables[s(p)][v].pfn # f
  <2>1. LET old == TablesAfter(f)[s(p)][v]
            new == tables[s(p)][v]
        IN  IF p = pid /\ v = vpn THEN new.valid /\ new.pfn = f
            ELSE new.valid = old.valid /\ new.pfn = old.pfn
    BY <1>1, LoadedTables
  <2> HIDE DEF tables, vpn
  <2> QED BY <2>1, EvictionResident
<1>8. \A p \in Running : s(p) = s(pid) <=> p = pid
  BY DEF IInv, TablesApart
<1>9. \A p, v : PageOf(p, v)' = View(page_tables', data', page_data', procs'[p].saved_ptbr, v)
  BY DEF PageOf, View, Table
<1> HIDE DEF s, tables, pages, disk
<1>10. ASSUME NEW p \in Running, NEW v \in Pages
       PROVE  ViewEffect(tables, pages, disk, s(pid), a, rw, datum, s(p), v)
  <2>1. s(p) \in Frames /\ s(pid) \in Frames
    BY OwnTable DEF s
  <2>2. Saved(tables, pages, disk, s(p), v) /\ tables[s(pid)][vpn].valid
    BY <1>1, <1>6, <1>7
  <2>3. tables[s(p)][v].valid /\ tables[s(p)][v].pfn = tables[s(pid)][vpn].pfn
          => s(p) = s(pid) /\ v = vpn
    BY <1>1, <1>7
  <2>4. ValidTransfer(tables, pages, disk, s(pid), a, rw, datum, s(p), v)
    BY <1>3, <1>4, <1>5, <2>1, <2>2, <2>3 DEF ValidTransfer
  <2> QED BY <2>4, TransferViews
<1>11. ASSUME NEW p \in Running, NEW v \in Pages
       PROVE  /\ PageOf(p, v)' =
                   IF rw = "w" /\ p = pid /\ v = vpn
                     THEN [PageOf(p, v) EXCEPT ![offset] = datum] ELSE PageOf(p, v)
              /\ Saved(page_tables', data', page_data', procs'[p].saved_ptbr, v)
  BY <1>3, <1>6, <1>8, <1>9, <1>10 DEF ViewEffect, s
<1>12. result' = IF rw = "w" THEN datum ELSE PageOf(pid, vpn)[offset]
  BY <1>1, <1>6, <1>10 DEF ViewEffect
<1> QED BY <1>3, <1>11, <1>12 DEF AccessEffect

(* START gives its process zeros and leaves every other page alone. *)
LEMMA StartEffect ==
  ASSUME IInv, CleanPagesAreSaved, NEW pid \in Pids, NEW f \in Victims,
         StartsIn(pid, f)
  PROVE  /\ \A v \in Pages : PageOf(pid, v)' = ZeroPage
         /\ \A p \in Running : \A v \in Pages : PageOf(p, v)' = PageOf(p, v)
         /\ CleanPagesAreSaved'
<1>s. /\ pid \notin Running /\ Running' = Running \cup {pid}
      /\ Table(pid)' = EmptyTable
      /\ \A p \in Running : Table(p)' = TablesAfter(f)[procs[p].saved_ptbr]
  BY StartTables
<1>1. f \in Frames
  BY VictimUnprotected
<1>2. data' = [data EXCEPT ![f] = ZeroPage] /\ page_data' = PagesAfter(f)
  BY DEF StartsIn, SwapAfter
<1>3. ASSUME NEW v \in Pages
      PROVE  ~Table(pid)'[v].valid /\ Table(pid)'[v].swap = 0
  BY <1>s DEF EmptyTable, NoMapping
<1>4. ASSUME NEW p \in Running, NEW v \in Pages, Table(p)'[v].valid
      PROVE  data'[Table(p)'[v].pfn] = data[Table(p)'[v].pfn]
  <2>1. TablesAfter(f)[procs[p].saved_ptbr][v].valid
    BY <1>s, <1>4
  <2>2. /\ Table(p)'[v].pfn = Table(p)[v].pfn /\ Table(p)[v].pfn # f
        /\ Table(p)[v].pfn \in Frames
    BY <1>s, <2>1, EvictionResident, OwnTable DEF PTE
  <2> QED BY <1>1, <1>2, <2>2 DEF IInv, TypeOK
<1>5. ASSUME NEW p \in Running, NEW v \in Pages
      PROVE  PageOf(p, v)' = PageOf(p, v)
  <2>1. PageOf(p, v)' = View(TablesAfter(f), data, PagesAfter(f), procs[p].saved_ptbr, v)
    BY <1>s, <1>2, <1>4 DEF PageOf, View
  <2> QED BY <2>1, EvictionViews
<1>6. ASSUME NEW p \in Running', NEW v \in Pages, Table(p)'[v].valid, ~Table(p)'[v].dirty
      PROVE  data'[Table(p)'[v].pfn] =
               IF Table(p)'[v].swap # 0 THEN page_data'[Table(p)'[v].swap] ELSE ZeroPage
  <2>1. p \in Running
    BY <1>s, <1>3, <1>6
  <2>2. Saved(TablesAfter(f), data, PagesAfter(f), procs[p].saved_ptbr, v)
    BY <2>1, EvictionSaved
  <2>3. Table(p)'[v] = TablesAfter(f)[procs[p].saved_ptbr][v]
    BY <1>s, <2>1
  <2> QED BY <1>2, <1>4, <1>6, <2>1, <2>2, <2>3 DEF Saved
<1>7. CleanPagesAreSaved'
  BY <1>6 DEF CleanPagesAreSaved, Resident
<1>8. \A v \in Pages : PageOf(pid, v)' = ZeroPage
  BY <1>3 DEF PageOf
<1> QED BY <1>5, <1>7, <1>8

(* STOP leaves the pages of the other processes alone. *)
LEMMA StopEffect ==
  ASSUME IInv, CleanPagesAreSaved, NEW pid \in Pids, Stop(pid)
  PROVE  /\ \A p \in Running' : \A v \in Pages : PageOf(p, v)' = PageOf(p, v)
         /\ CleanPagesAreSaved'
<1>s. /\ pid \in Running /\ Running' = Running \ {pid}
      /\ \A p \in Running' : Table(p)' = Table(p)
  BY StopTables
<1>1. data' = data
  BY DEF Stop
<1>2. ASSUME NEW p \in Running', NEW v \in Pages, Table(p)[v].swap # 0
      PROVE  page_data'[Table(p)[v].swap] = page_data[Table(p)[v].swap]
  <2>1. p \in Running /\ p # pid
    BY <1>s
  <2>2. Table(p)[v].swap \in Tokens
    BY <1>2, <2>1, OwnTable DEF PTE
  <2>3. Table(p)[v].swap \notin Swapped(pid)
    BY <1>s, <1>2, <2>1 DEF IInv, SwapOwned, Swapped
  <2> QED BY <2>2, <2>3 DEF Stop, SwapFreed
<1>3. \A p \in Running' : \A v \in Pages : PageOf(p, v)' = PageOf(p, v)
  BY <1>s, <1>1, <1>2 DEF PageOf
<1>4. CleanPagesAreSaved'
  BY <1>s, <1>1, <1>2 DEF CleanPagesAreSaved, Resident
<1> QED BY <1>3, <1>4

LEMMA AccessSaved ==
  ASSUME IInv, CleanPagesAreSaved, NEW pid \in Running, NEW a \in Addresses,
         NEW rw \in {"r", "w"}, NEW datum \in Byte, AccessEffect(pid, a, rw, datum)
  PROVE  CleanPagesAreSaved'
<1>1. procs' = procs /\ Running' = Running
  BY DEF AccessEffect, Running
<1>2. \A p \in Running : \A v \in Pages :
        Saved(page_tables', data', page_data', procs'[p].saved_ptbr, v)
  BY DEF AccessEffect
<1> QED BY <1>1, <1>2 DEF CleanPagesAreSaved, Saved, Resident, Table

(* What a frame holds when its dirty bit is clear is safe to drop. *)
THEOREM CleanCorrect ==
  ASSUME ~RestartCurrent
  PROVE  Spec => []CleanPagesAreSaved
<1>1. Init => CleanPagesAreSaved
  BY DEF Init, CleanPagesAreSaved, Running
<1>2. ASSUME IInv, CleanPagesAreSaved, [Next]_vars
      PROVE  CleanPagesAreSaved'
  <2>1. CASE UNCHANGED <<procs, page_tables, data, page_data>>
    BY <1>2, <2>1 DEF CleanPagesAreSaved, Running, Resident, Table
  <2>2. CASE Next
    <3>1. CASE Panic
      BY <2>1, <3>1 DEF Panic, cpu, swap
    <3>2. ASSUME NEW pid \in Pids, Stop(pid)
          PROVE  CleanPagesAreSaved'
      BY <1>2, <3>2, StopEffect
    <3>3. ASSUME NEW pid \in Pids, NEW f \in Victims, StartsIn(pid, f)
          PROVE  CleanPagesAreSaved'
      BY <1>2, <3>3, StartEffect
    <3>4. ASSUME NEW pid \in Running, NEW a \in Addresses, NEW rw \in {"r", "w"},
                 NEW b \in Byte, Hit(pid, a, rw, b)
          PROVE  CleanPagesAreSaved'
      BY <1>2, <3>4, HitEffect, AccessSaved
    <3>5. ASSUME NEW pid \in Running, NEW f \in Victims, NEW a \in Addresses,
                 NEW rw \in {"r", "w"}, NEW b \in Byte, FaultsIn(pid, f, a, rw, b)
          PROVE  CleanPagesAreSaved'
      BY <1>2, <3>5, FaultEffect, AccessSaved
    <3> QED BY <2>2, <3>1, <3>2, <3>3, <3>4, <3>5, StepCases
  <2> QED BY <1>2, <2>1, <2>2 DEF vars
<1> QED BY <1>1, <1>2, Invariance, PTL DEF Spec

(***************************************************************************)
(* Refinement: the pages are the address spaces of FlatMemory              *)
(***************************************************************************)
LEMMA AddressInjective ==
  ASSUME NEW a \in Addresses, NEW b \in Addresses,
         vaddr_vpn(a) = vaddr_vpn(b), vaddr_offset(a) = vaddr_offset(b)
  PROVE  a = b
<1>1. a \in Nat /\ b \in Nat /\ PageSize \in Nat /\ PageSize > 0
  BY DEF Addresses
<1>2. /\ a = PageSize * (a \div PageSize) + (a % PageSize)
      /\ b = PageSize * (b \div PageSize) + (b % PageSize)
  BY <1>1, SMT
<1> QED BY <1>2 DEF vaddr_vpn, vaddr_offset

LEMMA PageOfType ==
  ASSUME IInv, NEW p \in Running, NEW v \in Pages
  PROVE  PageOf(p, v) \in [Offsets -> Byte]
<1>1. Table(p)[v] \in PTE
  BY OwnTable
<1>2. Table(p)[v].pfn \in Frames /\ Table(p)[v].swap \in Tokens \cup {0}
  BY <1>1 DEF PTE
<1>3. data \in [Frames -> [Offsets -> Byte]] /\ page_data \in [Tokens -> [Offsets -> Byte]]
  BY DEF IInv, TypeOK
<1> QED BY <1>2, <1>3, ClearedFrame DEF PageOf

(* The byte at an address of a process *)
Cell(p, a) == IF p \in Running THEN PageOf(p, vaddr_vpn(a))[vaddr_offset(a)] ELSE 0

LEMMA ContentsCells == Contents = [p \in Pids |-> [a \in Addresses |-> Cell(p, a)]]
BY DEF Contents, Cell

LEMMA ContentsCellsNext ==
  Contents' = [p \in Pids |-> [a \in Addresses |-> Cell(p, a)']]
BY DEF Contents, Cell

LEMMA ZeroByte == \A a \in Addresses : ZeroPage[vaddr_offset(a)] = 0
BY AddressSplit DEF ZeroPage

(* What leaves the pages alone leaves the flat memory alone. *)
LEMMA QuietStep ==
  ASSUME UNCHANGED <<procs, page_tables, data, page_data, result>>
  PROVE  UNCHANGED Flat!vars
BY DEF Flat!vars, Contents, Running, PageOf, Table

LEMMA StartFlat ==
  ASSUME IInv, CleanPagesAreSaved, NEW pid \in Pids, NEW f \in Victims,
         StartsIn(pid, f)
  PROVE  Flat!Start(pid)
<1>1. pid \notin Running /\ Running' = Running \cup {pid}
  BY StartTables
<1>2. /\ \A v \in Pages : PageOf(pid, v)' = ZeroPage
      /\ \A p \in Running : \A v \in Pages : PageOf(p, v)' = PageOf(p, v)
  BY StartEffect
<1>3. ASSUME NEW p \in Pids, NEW a \in Addresses
      PROVE  Cell(p, a)' = Cell(p, a)
  BY <1>1, <1>2, AddressSplit, ZeroByte DEF Cell
<1>4. Contents' = Contents
  BY <1>3, ContentsCells, ContentsCellsNext
<1>5. result' = result
  BY DEF StartsIn
<1> QED BY <1>1, <1>4, <1>5 DEF Flat!Start

LEMMA StopFlat ==
  ASSUME IInv, CleanPagesAreSaved, NEW pid \in Pids, Stop(pid)
  PROVE  Flat!Stop(pid)
<1>1. pid \in Running /\ Running' = Running \ {pid}
  BY StopTables
<1>2. \A p \in Running' : \A v \in Pages : PageOf(p, v)' = PageOf(p, v)
  BY StopEffect
<1>3. ASSUME NEW p \in Pids, NEW a \in Addresses
      PROVE  Cell(p, a)' = IF p = pid THEN 0 ELSE Cell(p, a)
  BY <1>1, <1>2, AddressSplit DEF Cell
<1>4. Contents' = [Contents EXCEPT ![pid] = [a \in Addresses |-> 0]]
  BY <1>3, ContentsCells, ContentsCellsNext
<1>5. result' = result
  BY DEF Stop
<1> QED BY <1>1, <1>4, <1>5 DEF Flat!Stop

LEMMA AccessFlat ==
  ASSUME IInv, NEW pid \in Running, NEW a \in Addresses,
         NEW rw \in {"r", "w"}, NEW datum \in Byte, AccessEffect(pid, a, rw, datum)
  PROVE  Flat!Read(pid, a) \/ Flat!Write(pid, a, datum)
<1>1. procs' = procs /\ Running' = Running
  BY DEF AccessEffect, Running
<1>2. pid \in Pids
  BY DEF Running
<1>3. CASE rw = "r"
  <2>1. \A p \in Running : \A v \in Pages : PageOf(p, v)' = PageOf(p, v)
    BY <1>3 DEF AccessEffect
  <2>2. ASSUME NEW p \in Pids, NEW b \in Addresses
        PROVE  Cell(p, b)' = Cell(p, b)
    BY <1>1, <2>1, AddressSplit DEF Cell
  <2>3. Contents' = Contents
    BY <2>2, ContentsCells, ContentsCellsNext
  <2>4. result' = Cell(pid, a)
    BY <1>3 DEF AccessEffect, Cell
  <2>5. result' = Contents[pid][a]
    BY <1>2, <2>4, ContentsCells
  <2> QED BY <1>1, <2>3, <2>5 DEF Flat!Read
<1>4. CASE rw = "w"
  <2>1. \A p \in Running : \A v \in Pages :
          PageOf(p, v)' = IF p = pid /\ v = vaddr_vpn(a)
                            THEN [PageOf(p, v) EXCEPT ![vaddr_offset(a)] = datum]
                            ELSE PageOf(p, v)
    BY <1>4 DEF AccessEffect
  <2>2. ASSUME NEW p \in Pids, NEW b \in Addresses
        PROVE  Cell(p, b)' = IF p = pid /\ b = a THEN datum ELSE Cell(p, b)
    <3>1. vaddr_vpn(b) \in Pages /\ vaddr_offset(b) \in Offsets
      BY AddressSplit
    <3>2. vaddr_vpn(b) = vaddr_vpn(a) /\ vaddr_offset(b) = vaddr_offset(a) => b = a
      BY AddressInjective
    <3>3. CASE p \in Running
      <4>1. PageOf(p, vaddr_vpn(b)) \in [Offsets -> Byte]
        BY <3>1, <3>3, PageOfType
      <4> QED BY <1>1, <2>1, <3>1, <3>2, <3>3, <4>1 DEF Cell
    <3> QED BY <1>1, <3>3 DEF Cell
  <2>3. Contents' = [Contents EXCEPT ![pid][a] = datum]
    BY <1>2, <2>2, ContentsCells, ContentsCellsNext
  <2>4. result' = datum
    BY <1>4 DEF AccessEffect
  <2> QED BY <1>1, <2>3, <2>4 DEF Flat!Write
<1> QED BY <1>3, <1>4

(* mem_access, page faults, evictions and swap implement a private zeroed  *)
(* memory for every process: no trace loses a byte or shows it to another. *)
THEOREM MemoryImplemented ==
  ASSUME ~RestartCurrent
  PROVE  Spec => ImplementsFlatMemory
<1>1. Init => Flat!Init
  BY DEF Init, Flat!Init, Running, Contents
<1>2. ASSUME IInv, CleanPagesAreSaved, [Next]_vars
      PROVE  [Flat!Next]_(Flat!vars)
  <2>1. CASE UNCHANGED <<procs, page_tables, data, page_data, result>>
    BY <2>1, QuietStep
  <2>2. CASE Next
    <3>1. CASE Panic
      BY <2>1, <3>1 DEF Panic, cpu, swap
    <3>2. ASSUME NEW pid \in Pids, Stop(pid)
          PROVE  Flat!Next
      BY <1>2, <3>2, StopFlat DEF Flat!Next
    <3>3. ASSUME NEW pid \in Pids, NEW f \in Victims, StartsIn(pid, f)
          PROVE  Flat!Next
      BY <1>2, <3>3, StartFlat DEF Flat!Next
    <3>4. ASSUME NEW pid \in Running, NEW a \in Addresses, NEW rw \in {"r", "w"},
                 NEW b \in Byte, AccessEffect(pid, a, rw, b)
          PROVE  Flat!Next
      <4>1. pid \in Pids
        BY DEF Running
      <4>2. Flat!Read(pid, a) \/ Flat!Write(pid, a, b)
        BY <1>2, <3>4, AccessFlat
      <4> QED BY <4>1, <4>2 DEF Flat!Next
    <3>5. ASSUME NEW pid \in Running, NEW a \in Addresses, NEW rw \in {"r", "w"},
                 NEW b \in Byte, Hit(pid, a, rw, b)
          PROVE  Flat!Next
      BY <1>2, <3>4, <3>5, HitEffect
    <3>6. ASSUME NEW pid \in Running, NEW f \in Victims, NEW a \in Addresses,
                 NEW rw \in {"r", "w"}, NEW b \in Byte, FaultsIn(pid, f, a, rw, b)
          PROVE  Flat!Next
      BY <1>2, <3>4, <3>6, FaultEffect
    <3> QED BY <2>2, <3>1, <3>2, <3>3, <3>5, <3>6, StepCases
  <2> QED BY <1>2, <2>1, <2>2 DEF vars
<1> QED BY <1>1, <1>2, Invariance, CleanCorrect, PTL DEF Spec, ImplementsFlatMemory, Flat!Spec
=============================================================================
