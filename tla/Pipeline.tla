------------------------------ MODULE Pipeline ------------------------------
(***************************************************************************)
(* The pipelined MIPS processor (spim_pipe.vhd): fetch, decode, execute,   *)
(* memory and write-back, with the four pipeline registers between them.   *)
(* A step is one rising edge of the clock; a state is what the signals     *)
(* have settled to after it.  The first state is the one the single reset  *)
(* edge of ps_clock.vhd leaves.  Only bits 4 to 2 of a PC are ever looked  *)
(* at, so PCs are kept as indices of the instruction memory.               *)
(***************************************************************************)
EXTENDS Naturals

CONSTANTS
  NumRegs,        \* registers (32)
  WordSize,       \* 2 ^ the width of a word (2 ^ 32)
  WordBytes,      \* bytes of a word of the data memory (4)
  DramSize,       \* words of the data memory (32)
  IramSize,       \* words of the instruction memory that bits 4..2 of PC reach (8)
  Instructions,   \* the instructions programs are made of
  RegisterInit, DramInit,   \* the initial values of the two arrays
  BitAnd(_, _), BitOr(_, _),
  None            \* the address of what was not fetched

Word == 0 .. WordSize - 1
Regs == 0 .. NumRegs - 1
Pcs  == 0 .. IramSize - 1
Dram == 0 .. DramSize - 1

(* An instruction: its opcode, register fields, the set of the bits of its *)
(* function field that are 1, and its sign-extended immediate.             *)
Instruction ==
  [op : {"rformat", "lw", "sw", "beq"}, rs : Regs, rt : Regs, rd : Regs,
   funct : SUBSET (0 .. 5), imm : Word]

(* The word 0, which the pipeline registers hold after a reset. *)
Nop == [op |-> "rformat", rs |-> 0, rt |-> 0, rd |-> 0, funct |-> {}, imm |-> 0]

ASSUME SizesAssumption ==
  {NumRegs, WordSize, WordBytes, DramSize, IramSize} \subseteq Nat \ {0}
ASSUME InstructionsAssumption == Instructions \subseteq Instruction
ASSUME InitAssumption ==
  /\ RegisterInit \in [Regs -> Word] /\ RegisterInit[0] = 0
  /\ DramInit \in [Dram -> Word]
ASSUME BitsAssumption ==
  \A a, b \in Word : BitAnd(a, b) \in Word /\ BitOr(a, b) \in Word
ASSUME NoneAssumption == None \notin Pcs

VARIABLES
  iram, register_array, dram,   \* the three memories
  PC,
  id, ex, mem, wb               \* IF/ID, ID/EX, EX/MEM and MEM/WB; "at" is where the
                                \* instruction was fetched: it is read by no signal

vars == <<iram, register_array, dram, PC, id, ex, mem, wb>>

-----------------------------------------------------------------------------
(* control: the truth table, and the signals of a flushed register. *)
Control(i) ==
  [RegDst |-> i.op = "rformat", ALUSrc |-> i.op \in {"lw", "sw"},
   MemToReg |-> i.op = "lw", RegWrite |-> i.op \in {"rformat", "lw"},
   MemRead |-> i.op = "lw", MemWrite |-> i.op = "sw", Branch |-> i.op = "beq",
   ALUOp1 |-> i.op = "rformat", ALUOp0 |-> i.op = "beq"]

NoControl == [s \in DOMAIN Control(Nop) |-> FALSE]

(* execute: the mux of RegDst, which is also what control compares with. *)
ex_wreg_addr == IF ex.control.RegDst THEN ex.instruction.rd ELSE ex.instruction.rt

load_to_use == ex_wreg_addr \in {id.instruction.rs, id.instruction.rt}

(* Variant: every R-format instruction behind a load is stalled. *)
StallsAlways == id.instruction.op = "rformat" /\ ex.instruction.op = "lw"

pc_Stall ==
  /\ id.instruction.op = "rformat"
  /\ ex.instruction.op = "lw"
  /\ load_to_use

-----------------------------------------------------------------------------
(* execute: the forwarding unit, for the source register r. *)
FromMem(r) == mem.control.RegWrite /\ mem.wreg_addr # 0 /\ mem.wreg_addr = r

(* Variant: write-back is forwarded although MEM holds a newer value. *)
FromWbAlways(r) == wb.control.RegWrite /\ wb.wreg_addr # 0 /\ wb.wreg_addr = r

FromWb(r) == wb.control.RegWrite /\ wb.wreg_addr # 0 /\ wb.wreg_addr = r /\ ~FromMem(r)

WriteData == IF wb.control.MemToReg THEN wb.memory_data ELSE wb.alu_result

Forwarded(r, value) ==
  IF FromWb(r) THEN WriteData ELSE IF FromMem(r) THEN mem.alu_result ELSE value

Ainput == Forwarded(ex.instruction.rs, ex.register_rs)

Binput ==
  IF ex.control.ALUSrc THEN ex.instruction.imm
  ELSE Forwarded(ex.instruction.rt, ex.register_rt)

(* The three control bits of the ALU, as the set of those that are 1. *)
ALU_ctl ==
  LET F == ex.instruction.funct
  IN  {b \in 0 .. 2 :
        \/ b = 0 /\ (0 \in F \/ 3 \in F) /\ ex.control.ALUOp1
        \/ b = 1 /\ (2 \notin F \/ ~ex.control.ALUOp1)
        \/ b = 2 /\ ((1 \in F /\ ex.control.ALUOp1) \/ ex.control.ALUOp0)}

ALU_internal ==
  CASE ALU_ctl = {}     -> BitAnd(Ainput, Binput)
    [] ALU_ctl = {0}    -> BitOr(Ainput, Binput)
    [] ALU_ctl = {1}    -> (Ainput + Binput) % WordSize
    [] {1, 2} \subseteq ALU_ctl -> (Ainput + WordSize - Binput) % WordSize
    [] OTHER            -> 0

Branch_PC == (ex.PC4 + ex.instruction.imm) % IramSize

-----------------------------------------------------------------------------
(* memory *)
Index(address) == (address \div WordBytes) % DramSize

read_data == IF mem.control.MemRead THEN dram[Index(mem.alu_result)] ELSE WordSize - 1

(* fetch *)
PCSource == mem.control.Branch /\ mem.zero

PC4 == IF pc_Stall THEN PC ELSE (PC + 1) % IramSize

Next_PC ==
  IF pc_Stall THEN PC
  ELSE IF PCSource THEN mem.branch_PC
  ELSE (PC + 1) % IramSize

-----------------------------------------------------------------------------
Bubble ==
  [PC4 |-> 0, register_rs |-> 0, register_rt |-> 0, instruction |-> Nop,
   control |-> NoControl, at |-> None]

Init ==
  /\ iram \in [Pcs -> Instructions]
  /\ register_array = RegisterInit
  /\ dram = DramInit
  /\ PC = 0
  /\ id = [PC4 |-> 0, instruction |-> Nop, at |-> None]
  /\ ex = Bubble
  /\ mem = [control |-> NoControl, zero |-> FALSE, alu_result |-> 0,
            register_rt |-> 0, branch_PC |-> 0, wreg_addr |-> 0, at |-> None]
  /\ wb = [control |-> NoControl, memory_data |-> 0, alu_result |-> 0, wreg_addr |-> 0,
           at |-> None]

Fetch == PC' = Next_PC

(* pipe_reg1 keeps its contents during a stall. *)
IfId ==
  id' = IF pc_Stall THEN id
        ELSE [PC4 |-> PC4, instruction |-> iram[PC], at |-> PC]

(* Variant: a flush clears the control signals only. *)
IdExFlushesControl ==
  ex' = IF pc_Stall THEN [ex EXCEPT !.control = NoControl, !.at = None]
        ELSE [PC4 |-> id.PC4,
              register_rs |-> register_array[id.instruction.rs],
              register_rt |-> register_array[id.instruction.rt],
              instruction |-> id.instruction,
              control |-> Control(id.instruction),
              at |-> id.at]

(* pipe_reg2 is flushed by a stall; the registers are read as WB left them. *)
IdEx ==
  ex' = IF pc_Stall THEN Bubble
        ELSE [PC4 |-> id.PC4,
              register_rs |-> register_array[id.instruction.rs],
              register_rt |-> register_array[id.instruction.rt],
              instruction |-> id.instruction,
              control |-> Control(id.instruction),
              at |-> id.at]

(* pipe_reg3: the data of a store are rt as it was read in decode. *)
ExMem ==
  mem' = [control |-> ex.control, zero |-> ALU_internal = 0,
          alu_result |-> ALU_internal, register_rt |-> ex.register_rt,
          branch_PC |-> Branch_PC, wreg_addr |-> ex_wreg_addr, at |-> ex.at]

MemWb ==
  wb' = [control |-> mem.control, memory_data |-> read_data,
         alu_result |-> mem.alu_result, wreg_addr |-> mem.wreg_addr, at |-> mem.at]

(* The data memory and the register file are written by concurrent         *)
(* assignments: the store that has just entered MEM and the instruction    *)
(* that has just entered WB have written before the next edge.             *)
DataMemory ==
  dram' = IF mem'.control.MemWrite
          THEN [dram EXCEPT ![Index(mem'.alu_result)] = mem'.register_rt]
          ELSE dram

RegisterFile ==
  register_array' = IF wb'.control.RegWrite
                    THEN [register_array EXCEPT ![wb'.wreg_addr] = WriteData']
                    ELSE register_array

(* The components as spim_pipe.vhd wires them. *)
Clock ==
  /\ Fetch /\ IfId /\ IdEx /\ ExMem /\ MemWb
  /\ DataMemory /\ RegisterFile
  /\ UNCHANGED iram

Spec == Init /\ [][Clock]_vars
=============================================================================
