------------------------- MODULE PipelineProperties -------------------------
(* What the pipelined processor is checked for. *)
EXTENDS Pipeline, Sequences

ControlType ==
  [RegDst : BOOLEAN, ALUSrc : BOOLEAN, MemToReg : BOOLEAN, RegWrite : BOOLEAN,
   MemRead : BOOLEAN, MemWrite : BOOLEAN, Branch : BOOLEAN, ALUOp1 : BOOLEAN,
   ALUOp0 : BOOLEAN]

(* The signals have the values their types allow, and the flushed or       *)
(* decoded control signals agree with the instruction they travel with.    *)
TypeOK ==
  /\ iram \in [Pcs -> Instructions]
  /\ register_array \in [Regs -> Word]
  /\ dram \in [Dram -> Word]
  /\ PC \in Pcs
  /\ id \in [PC4 : Pcs, instruction : Instructions \cup {Nop}, at : Pcs \cup {None}]
  /\ ex \in [PC4 : Pcs, register_rs : Word, register_rt : Word,
             instruction : Instructions \cup {Nop}, control : ControlType,
             at : Pcs \cup {None}]
  /\ mem \in [control : ControlType, zero : BOOLEAN, alu_result : Word,
              register_rt : Word, branch_PC : Pcs, wreg_addr : Regs,
              at : Pcs \cup {None}]
  /\ wb \in [control : ControlType, memory_data : Word, alu_result : Word,
             wreg_addr : Regs, at : Pcs \cup {None}]
  /\ \/ ex.control = NoControl /\ ex.instruction = Nop
     \/ ex.control = Control(ex.instruction)

-----------------------------------------------------------------------------
(* The machine with one instruction at a time that the state stands for.   *)
(* An instruction counts as executed when it enters MEM: its result is in  *)
(* the registers already, what is behind it is still to come.              *)

Result == IF mem.control.MemToReg THEN read_data ELSE mem.alu_result

regs ==
  [r \in Regs |->
    IF r = 0 THEN 0
    ELSE IF mem.control.RegWrite /\ mem.wreg_addr = r THEN Result
    ELSE register_array[r]]

(* The instructions in EX and ID, the one being fetched, and the ones that *)
(* will be: behind a taken branch in MEM, its target.                      *)
pcs ==
  LET InFlight == (IF ex.at = None THEN << >> ELSE <<ex.at>>)
                    \o (IF id.at = None THEN << >> ELSE <<id.at>>)
      Fetched  == IF PCSource THEN mem.branch_PC ELSE (PC + 1) % IramSize
      Later    == <<PC, Fetched, (Fetched + 1) % IramSize, (Fetched + 2) % IramSize>>
  IN  SubSeq(InFlight \o Later, 1, 4)

(* ps_execute.vhd:3-4: of the R-format instructions add, sub, and, or are  *)
(* supported; the word 0 adds register 0 to itself.                        *)
ASSUME SupportedAssumption ==
  \A i \in Instructions :
    i.op = "rformat" => i.funct \in {{}, {5}, {5, 1}, {5, 2}, {5, 2, 0}}

Seq1 == INSTANCE SequentialMips WITH program <- iram, memory <- dram

(* What the instruction in EX takes from a load in MEM is the address of   *)
(* the load; only R-format instructions are kept away from that.           *)
UsesLoadTooEarly ==
  /\ ex.instruction.op # "rformat"
  /\ mem.control.MemToReg
  /\ FromMem(ex.instruction.rs) \/ (~ex.control.ALUSrc /\ FromMem(ex.instruction.rt))

(* A store whose register is still in flight writes the old value. *)
StoresStaleData ==
  /\ ex.control.MemWrite
  /\ FromMem(ex.instruction.rt) \/ FromWb(ex.instruction.rt)

(* A branch is taken in the very cycle fetch is stalled: PC stays, and the *)
(* branch is gone the next cycle.                                          *)
LosesBranch == PCSource /\ pc_Stall

(* Register 0 was written, and is read as an ordinary register. *)
ReadsWrittenZero ==
  \/ ex.instruction.rs = 0 /\ ex.register_rs # 0
  \/ ex.instruction.rt = 0 /\ ex.register_rt # 0

Hazard == UsesLoadTooEarly \/ StoresStaleData \/ LosesBranch \/ ReadsWrittenZero

(* Apart from the four situations above the pipeline executes programs as  *)
(* the sequential machine does, whatever is forwarded, stalled or behind a *)
(* branch: every clock edge is one of its steps or changes nothing of it.  *)
ImplementsSequential ==
  Seq1!Init /\ [][Hazard \/ Seq1!Next]_<<iram, regs, dram, pcs>>

-----------------------------------------------------------------------------
(* A programmer can keep clear of the four: the hazards are those of       *)
(* instructions that follow one another closely, be it across a branch.    *)

Destination(i) == IF i.op = "rformat" THEN i.rd ELSE IF i.op = "lw" THEN i.rt ELSE 0

Followers(a) ==
  LET b == (a + 3 * IramSize - 3) % IramSize
  IN  {(a + 1) % IramSize} \cup
        IF iram[b].op = "beq" THEN {(b + 1 + iram[b].imm) % IramSize} ELSE {}

(* No instruction but an R-format one uses a register the instruction      *)
(* before it loads.                                                        *)
LoadsEarly(i, j) ==
  i.op = "lw" /\ i.rt # 0 /\ j.op # "rformat"
    => i.rt # j.rs /\ (j.op = "beq" => i.rt # j.rt)

(* What is stored is not computed by one of the two instructions before.   *)
ComputesEarly(i, j) == j.op = "sw" /\ j.rt # 0 => Destination(i) # j.rt

(* No load whose register the next instruction needs is behind a branch.   *)
NoStallBehindBranch(i, j, k) ==
  i.op = "beq" /\ j.op = "lw" /\ k.op = "rformat" => j.rt \notin {k.rs, k.rt}

(* No branch is in one of the three places behind a branch.                *)
NoBranchBehindBranch(a) ==
  iram[a].op = "beq" => \A k \in 1 .. 3 : iram[(a + k) % IramSize].op # "beq"

Scheduled ==
  \A a \in Pcs :
    /\ NoBranchBehindBranch(a)
    /\ Destination(iram[a]) = 0 => iram[a].op \in {"sw", "beq"} \/ iram[a] = Nop
    /\ \A b \in Followers(a) :
         /\ LoadsEarly(iram[a], iram[b])
         /\ ComputesEarly(iram[a], iram[b])
         /\ \A c \in Followers(b) :
              /\ ComputesEarly(iram[a], iram[c])
              /\ NoStallBehindBranch(iram[a], iram[b], iram[c])

(* A program that keeps these rules and leaves register 0 alone never      *)
(* meets one of the four, so it is executed exactly (ps_control.vhd:46,    *)
(* ps_execute.vhd:48-70, ps_fetch.vhd:56).                                 *)
ScheduledProgramsAreExact == Scheduled => ~Hazard

(* ps_control.vhd:45: "pc_Stall gets true when the pipeline has a load     *)
(* instruction and load_to_use is asserted".                               *)
StallsBehindLoad == ex.instruction.op = "lw" /\ load_to_use => pc_Stall
=============================================================================
