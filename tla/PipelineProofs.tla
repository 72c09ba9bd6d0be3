--------------------------- MODULE PipelineProofs ---------------------------
(***************************************************************************)
(* Proofs about the pipelined processor, for every program, every width    *)
(* and every size of the memories: the types of its signals, the length of *)
(* a stall, that outside the four hazards it executes one instruction      *)
(* after the other, and that a scheduled program meets no hazard.          *)
(***************************************************************************)
EXTENDS PipelineProperties, Integers, SequenceTheorems, TLAPS

-----------------------------------------------------------------------------
(* Arithmetic *)

(* The remainder and the quotient are where they should be. *)
LEMMA RemainderRange ==
  \A a \in Nat, n \in Nat \ {0} : a % n \in 0 .. n - 1 /\ a \div n \in Nat
OBVIOUS

LEMMA WrapWhole ==
  ASSUME NEW n \in Nat \ {0}, NEW b \in Nat
  PROVE  (n + b) % n = b % n
<1> DEFINE q == b \div n  r == b % n  p == (n + b) \div n  s == (n + b) % n
<1>1. q \in Int /\ p \in Int /\ r \in 0 .. n - 1 /\ s \in 0 .. n - 1
  BY RemainderRange
<1>2. b = n * q + r /\ n + b = n * p + s
  BY RemainderRange
<1> HIDE DEF q, r, p, s
<1>3. n * (p - q - 1) = r - s /\ r - s < n /\ r - s > 0 - n
  BY <1>1, <1>2
<1>4. p - q - 1 = 0
  <2> DEFINE d == p - q - 1
  <2>1. d \in Int BY <1>1
  <2>2. d >= 1 => n * d >= n BY <2>1
  <2>3. d <= -1 => n * d <= 0 - n BY <2>1
  <2> QED BY <2>1, <2>2, <2>3, <1>3, <1>1
<1>5. r = s BY <1>1, <1>3, <1>4
<1> QED BY <1>5 DEF r, s

LEMMA WrapOnce ==
  ASSUME NEW n \in Nat \ {0}, NEW a \in 0 .. n - 1, NEW b \in Nat
  PROVE  (((a + 1) % n) + b) % n = (a + 1 + b) % n
<1>1. CASE a + 1 < n
  BY <1>1, (a + 1) % n = a + 1
<1>2. CASE a + 1 = n
  <2>1. (a + 1) % n = 0 BY <1>2
  <2>2. (n + b) % n = b % n BY WrapWhole
  <2> QED BY <1>2, <2>1, <2>2
<1> QED BY <1>1, <1>2

LEMMA WrapMultiple ==
  ASSUME NEW n \in Nat \ {0}, NEW q \in Nat, NEW b \in Nat
  PROVE  (n * q + b) % n = b % n
<1> DEFINE a == n * q + b
           x == a \div n  r == a % n  y == b \div n  s == b % n
<1>0. a \in Nat
  OBVIOUS
<1>1. x \in Int /\ y \in Int /\ r \in 0 .. n - 1 /\ s \in 0 .. n - 1
  BY <1>0, RemainderRange
<1>2. a = n * x + r /\ b = n * y + s
  BY <1>0, RemainderRange
<1> DEFINE d == q + y - x
<1>3. a = n * q + b
  OBVIOUS
<1> HIDE DEF a, x, r, y, s
<1>4. d \in Int /\ n * d = r - s
  BY <1>1, <1>2, <1>3
<1> HIDE DEF d
<1>5. d >= 1 => n * d >= n
  BY <1>4
<1>6. d <= -1 => n * d <= 0 - n
  BY <1>4
<1>7. d = 0
  BY <1>1, <1>4, <1>5, <1>6
<1>8. r = s
  BY <1>1, <1>4, <1>7
<1> QED BY <1>8 DEF r, s, a

LEMMA WrapSum ==
  ASSUME NEW n \in Nat \ {0}, NEW a \in Nat, NEW b \in Nat
  PROVE  ((a % n) + b) % n = (a + b) % n
<1> DEFINE q == a \div n  c == (a % n) + b
<1>1. q \in Nat /\ c \in Nat /\ a + b = n * q + c
  <2>1. q \in Nat /\ a % n \in Nat
    BY RemainderRange
  <2>2. a = n * q + (a % n)
    BY RemainderRange
  <2> QED BY <2>1, <2>2
<1>2. (n * q + c) % n = c % n
  <2> HIDE DEF q, c
  <2> QED BY <1>1, WrapMultiple
<1> QED BY <1>1, <1>2

LEMMA DifferenceIsZero ==
  ASSUME NEW w \in Nat \ {0}, NEW a \in 0 .. w - 1, NEW b \in 0 .. w - 1
  PROVE  (a + w - b) % w = 0 <=> a = b
<1>1. CASE a < b
  BY <1>1, (a + w - b) % w = a + w - b
<1>2. CASE a >= b
  <2>1. a + w - b = w + (a - b) OBVIOUS
  <2>2. (w + (a - b)) % w = (a - b) % w BY <1>2
  <2> QED BY <1>2, <2>1, <2>2, (a - b) % w = a - b
<1> QED BY <1>1, <1>2

LEMMA Sizes ==
  /\ NumRegs \in Nat \ {0} /\ WordSize \in Nat \ {0} /\ WordBytes \in Nat \ {0}
  /\ DramSize \in Nat \ {0} /\ IramSize \in Nat \ {0}
BY SizesAssumption

LEMMA Wraps == 0 \in Pcs /\ \A a \in Nat : a % IramSize \in Pcs
BY Sizes, RemainderRange DEF Pcs

LEMMA ControlTyped ==
  /\ \A i \in Instruction : Control(i) \in ControlType
  /\ NoControl \in ControlType
  /\ Nop \in Instruction
<1>1. \A i \in Instruction : Control(i) \in ControlType
  BY DEF Control, ControlType, Instruction
<1>2. NoControl \in ControlType
  BY DEF Control, ControlType, NoControl
<1>3. Nop \in Instruction
  BY Sizes DEF Nop, Instruction, Regs, Word
<1> QED BY <1>1, <1>2, <1>3

LEMMA NoControlFields ==
  ~NoControl.RegDst /\ ~NoControl.ALUSrc /\ ~NoControl.MemToReg /\ ~NoControl.RegWrite
  /\ ~NoControl.MemRead /\ ~NoControl.MemWrite /\ ~NoControl.Branch /\ ~NoControl.ALUOp1 /\ ~NoControl.ALUOp0
BY DEF Control, NoControl
LEMMA ControlFields ==
  ASSUME NEW i
  PROVE  /\ Control(i).RegDst <=> i.op = "rformat"
         /\ Control(i).ALUSrc <=> i.op \in {"lw", "sw"}
         /\ Control(i).MemToReg <=> i.op = "lw"
         /\ Control(i).RegWrite <=> i.op \in {"rformat", "lw"}
         /\ Control(i).MemRead <=> i.op = "lw"
         /\ Control(i).MemWrite <=> i.op = "sw"
         /\ Control(i).Branch <=> i.op = "beq"
         /\ Control(i).ALUOp1 <=> i.op = "rformat"
         /\ Control(i).ALUOp0 <=> i.op = "beq"
BY DEF Control

-----------------------------------------------------------------------------
(* Types *)

LEMMA InstructionTyped ==
  \A i \in Instructions \cup {Nop} :
    /\ i \in Instruction
    /\ i.rs \in Regs /\ i.rt \in Regs /\ i.rd \in Regs /\ i.imm \in Word
BY InstructionsAssumption, ControlTyped DEF Instruction

(* What the stages compute from well-typed signals is well typed. *)
LEMMA SignalsTyped ==
  ASSUME TypeOK
  PROVE  /\ PC4 \in Pcs /\ Next_PC \in Pcs /\ Branch_PC \in Pcs
         /\ ex_wreg_addr \in Regs
         /\ WriteData \in Word /\ Ainput \in Word /\ Binput \in Word
         /\ ALU_internal \in Word /\ read_data \in Word
         /\ \A a \in Word : Index(a) \in Dram
<1> USE DEF TypeOK
<1>1. PC \in Nat /\ ex.PC4 \in Nat /\ ex.instruction.imm \in Nat
  BY InstructionTyped DEF Pcs, Word
<1>2. PC4 \in Pcs /\ Next_PC \in Pcs /\ Branch_PC \in Pcs
  BY <1>1, Wraps DEF PC4, Next_PC, Branch_PC
<1>3. ex_wreg_addr \in Regs
  BY InstructionTyped DEF ex_wreg_addr
<1>4. WriteData \in Word
  BY DEF WriteData
<1>5. Ainput \in Word /\ Binput \in Word
  BY <1>4, InstructionTyped DEF Ainput, Binput, Forwarded
<1>6. \A a \in Nat : a % WordSize \in Word
  BY Sizes, RemainderRange DEF Word
<1>7. \A a, b \in Word : a + b \in Nat /\ a + WordSize - b \in Nat /\ 0 \in Word
  BY Sizes DEF Word
<1>8. ALU_internal \in Word
  BY <1>5, <1>6, <1>7, BitsAssumption DEF ALU_internal
<1>9. \A a \in Word : Index(a) \in Dram
  BY Sizes, RemainderRange DEF Index, Dram, Word
<1>10. read_data \in Word
  BY <1>9, Sizes DEF read_data, Word
<1> QED BY <1>2, <1>3, <1>4, <1>5, <1>8, <1>9, <1>10

LEMMA InitTyped == Init => TypeOK
<1> SUFFICES ASSUME Init PROVE TypeOK
  OBVIOUS
<1> USE DEF Init, Bubble
<1>1. iram \in [Pcs -> Instructions] /\ register_array \in [Regs -> Word] /\ dram \in [Dram -> Word]
  BY InitAssumption
<1>2. 0 \in Word /\ 0 \in Regs /\ 0 \in Pcs
  BY Sizes, Wraps DEF Word, Regs
<1> QED BY <1>1, <1>2, ControlTyped DEF TypeOK

LEMMA StepTyped == TypeOK /\ [Clock]_vars => TypeOK'
<1> SUFFICES ASSUME TypeOK, [Clock]_vars PROVE TypeOK'
  OBVIOUS
<1>1. CASE UNCHANGED vars
  BY <1>1 DEF TypeOK, vars
<1>2. CASE Clock
  <2> USE <1>2, SignalsTyped, InstructionTyped, ControlTyped
  <2>1. PC' \in Pcs /\ iram' \in [Pcs -> Instructions]
    BY DEF Clock, Fetch, TypeOK
  <2>2. id' \in [PC4 : Pcs, instruction : Instructions \cup {Nop}, at : Pcs \cup {None}]
    BY DEF Clock, IfId, TypeOK
  <2>3. ex'.control \in ControlType /\ ex'.instruction \in Instructions \cup {Nop}
    BY DEF Clock, IdEx, TypeOK, Bubble
  <2>4. /\ ex' \in [PC4 : Pcs, register_rs : Word, register_rt : Word,
                    instruction : Instructions \cup {Nop}, control : ControlType,
                    at : Pcs \cup {None}]
        /\ \/ ex'.control = NoControl /\ ex'.instruction = Nop
           \/ ex'.control = Control(ex'.instruction)
    <3>1. CASE pc_Stall
      BY <3>1, Sizes, Wraps DEF Clock, IdEx, TypeOK, Bubble, Word
    <3>2. CASE ~pc_Stall
      BY <3>2 DEF Clock, IdEx, TypeOK
    <3> QED BY <3>1, <3>2
  <2>5. mem' \in [control : ControlType, zero : BOOLEAN, alu_result : Word,
                  register_rt : Word, branch_PC : Pcs, wreg_addr : Regs,
                  at : Pcs \cup {None}]
    BY DEF Clock, ExMem, TypeOK
  <2>6. wb' \in [control : ControlType, memory_data : Word, alu_result : Word,
                 wreg_addr : Regs, at : Pcs \cup {None}]
    BY DEF Clock, MemWb, TypeOK
  <2>7. register_array' \in [Regs -> Word]
    BY <2>6 DEF Clock, RegisterFile, WriteData, TypeOK
  <2>8. dram' \in [Dram -> Word]
    BY <2>5 DEF Clock, DataMemory, TypeOK
  <2> QED BY <2>1, <2>2, <2>4, <2>5, <2>6, <2>7, <2>8 DEF TypeOK
<1> QED BY <1>1, <1>2

(* The signals keep their types, and the control signals those of the      *)
(* instruction they travel with.                                           *)
THEOREM TypeCorrect == Spec => []TypeOK
<1> QED BY InitTyped, StepTyped, PTL DEF Spec

-----------------------------------------------------------------------------
(* The addresses the sequential machine holds *)

LEMMA FourElements ==
  ASSUME NEW S, NEW a \in S, NEW b \in S, NEW c \in S, NEW d \in S,
         NEW s \in Seq(S), Len(s) = 4, s[1] = a, s[2] = b, s[3] = c, s[4] = d
  PROVE  s = <<a, b, c, d>>
<1> DEFINE t == <<a, b, c, d>>
<1>1. t \in Seq(S) /\ Len(t) = 4 /\ t[1] = a /\ t[2] = b /\ t[3] = c /\ t[4] = d
  OBVIOUS
<1> HIDE DEF t
<1>2. \A i \in 1 .. 4 : i = 1 \/ i = 2 \/ i = 3 \/ i = 4
  OBVIOUS
<1>3. \A i \in 1 .. Len(s) : s[i] = t[i]
  BY <1>1, <1>2
<1>4. s = t
  BY <1>1, <1>3, SeqEqual
<1> QED BY <1>4 DEF t

LEMMA FirstFour ==
  ASSUME NEW S, NEW a \in S, NEW b \in S, NEW c \in S, NEW d \in S, NEW e \in S, NEW f \in S
  PROVE  /\ SubSeq((<<a>> \o <<b>>) \o <<c, d, e, f>>, 1, 4) = <<a, b, c, d>>
         /\ SubSeq((<< >> \o <<b>>) \o <<c, d, e, f>>, 1, 4) = <<b, c, d, e>>
         /\ SubSeq((<< >> \o << >>) \o <<c, d, e, f>>, 1, 4) = <<c, d, e, f>>
<1> DEFINE t == <<c, d, e, f>>
<1>1. t \in Seq(S) /\ Len(t) = 4 /\ t[1] = c /\ t[2] = d /\ t[3] = e /\ t[4] = f
  OBVIOUS
<1> HIDE DEF t
<1>2. ASSUME NEW s \in Seq(S), Len(s) >= 4
      PROVE  SubSeq(s, 1, 4) = <<s[1], s[2], s[3], s[4]>>
  <2> DEFINE x == SubSeq(s, 1, 4)
  <2>1. s[1] \in S /\ s[2] \in S /\ s[3] \in S /\ s[4] \in S
    BY <1>2
  <2>2. x \in Seq(S) /\ Len(x) = 4 /\ \A i \in 1 .. 4 : x[i] = s[i]
    BY <1>2
  <2> HIDE DEF x
  <2>3. x[1] = s[1] /\ x[2] = s[2] /\ x[3] = s[3] /\ x[4] = s[4]
    BY <2>2
  <2>4. x = <<s[1], s[2], s[3], s[4]>>
    BY <2>1, <2>2, <2>3, FourElements
  <2> QED BY <2>4 DEF x
<1>3. SubSeq((<<a>> \o <<b>>) \o t, 1, 4) = <<a, b, c, d>>
  <2> DEFINE u == (<<a>> \o <<b>>)
  <2>1. u \in Seq(S) /\ Len(u) = 2 /\ u[1] = a /\ u[2] = b
    OBVIOUS
  <2> HIDE DEF u
  <2>2. /\ u \o t \in Seq(S)
        /\ Len(u \o t) = Len(u) + Len(t)
        /\ \A i \in 1 .. Len(u) + Len(t) :
              (u \o t)[i] = IF i <= Len(u) THEN u[i] ELSE t[i - Len(u)]
    <3> u \in Seq(S) /\ t \in Seq(S) BY <1>1, <2>1
    <3> QED BY ONLY ConcatProperties, u \in Seq(S), t \in Seq(S)
  <2> DEFINE v == u \o t
  <2> HIDE DEF v
  <2>3. v[1] = a /\ v[2] = b /\ v[3] = c /\ v[4] = d
    BY <1>1, <2>1, <2>2 DEF v
  <2>4. v \in Seq(S) /\ Len(v) >= 4
    BY <1>1, <2>1, <2>2 DEF v
  <2>5. SubSeq(v, 1, 4) = <<a, b, c, d>>
    BY <1>2, <2>3, <2>4
  <2> QED BY <2>5 DEF u, v
<1>4. SubSeq((<< >> \o <<b>>) \o t, 1, 4) = <<b, c, d, e>>
  <2> DEFINE u == (<< >> \o <<b>>)
  <2>1. u \in Seq(S) /\ Len(u) = 1 /\ u[1] = b
    OBVIOUS
  <2> HIDE DEF u
  <2>2. /\ u \o t \in Seq(S)
        /\ Len(u \o t) = Len(u) + Len(t)
        /\ \A i \in 1 .. Len(u) + Len(t) :
              (u \o t)[i] = IF i <= Len(u) THEN u[i] ELSE t[i - Len(u)]
    <3> u \in Seq(S) /\ t \in Seq(S) BY <1>1, <2>1
    <3> QED BY ONLY ConcatProperties, u \in Seq(S), t \in Seq(S)
  <2> DEFINE v == u \o t
  <2> HIDE DEF v
  <2>3. v[1] = b /\ v[2] = c /\ v[3] = d /\ v[4] = e
    BY <1>1, <2>1, <2>2 DEF v
  <2>4. v \in Seq(S) /\ Len(v) >= 4
    BY <1>1, <2>1, <2>2 DEF v
  <2>5. SubSeq(v, 1, 4) = <<b, c, d, e>>
    BY <1>2, <2>3, <2>4
  <2> QED BY <2>5 DEF u, v
<1>5. SubSeq((<< >> \o << >>) \o t, 1, 4) = <<c, d, e, f>>
  <2>1. (<< >> \o << >>) \o t = t
    <3>1. << >> \in Seq(S) OBVIOUS
    <3>2. << >> \o << >> = << >>
      BY <3>1, ConcatEmptySeq
    <3>3. << >> \o t = t
      BY <1>1, ConcatEmptySeq
    <3> QED BY <3>2, <3>3
  <2> QED BY <1>1, <1>2, <2>1
<1> QED BY <1>3, <1>4, <1>5 DEF t

LEMMA ShiftFour ==
  ASSUME NEW S, NEW a \in S, NEW b \in S, NEW c \in S, NEW d \in S, NEW e \in S
  PROVE  Append(Tail(<<a, b, c, d>>), e) = <<b, c, d, e>>
<1> DEFINE t == Tail(<<a, b, c, d>>)
<1>1. t \in Seq(S) /\ Len(t) = 3 /\ t[1] = b /\ t[2] = c /\ t[3] = d
  OBVIOUS
<1> HIDE DEF t
<1>2. /\ Append(t, e) \in Seq(S)
      /\ Len(Append(t, e)) = Len(t) + 1
      /\ \A i \in 1 .. Len(t) : Append(t, e)[i] = t[i]
      /\ Append(t, e)[Len(t) + 1] = e
  <2> t \in Seq(S) BY <1>1
  <2> QED BY ONLY AppendProperties, t \in Seq(S), e \in S
<1> DEFINE x == Append(t, e)
<1> HIDE DEF x
<1>3. x \in Seq(S) /\ Len(x) = 4 /\ x[1] = b /\ x[2] = c /\ x[3] = d /\ x[4] = e
  BY <1>1, <1>2 DEF x
<1>4. x = <<b, c, d, e>>
  BY <1>3, FourElements
<1> QED BY <1>4 DEF t, x
-----------------------------------------------------------------------------
(* The inductive invariant *)

(* The registers behind fetch hold the instruction of the address they     *)
(* carry; what has no address is the word 0.                               *)
Decoded ==
  /\ IF id.at = None
     THEN id.instruction = Nop /\ ex.at = None
     ELSE id.instruction = iram[id.at] /\ id.PC4 = (id.at + 1) % IramSize
  /\ IF ex.at = None
     THEN ex.instruction = Nop
     ELSE /\ ex.instruction = iram[ex.at]
          /\ ex.control = Control(ex.instruction)
          /\ ex.PC4 = (ex.at + 1) % IramSize

(* The instruction in WB has written the register file; what the one in EX *)
(* read in decode is older than that write, and than no other.             *)
ReadBehind(r, value) ==
  ~(wb.control.RegWrite /\ wb.wreg_addr = r) => value = register_array[r]

ReadInDecode ==
  /\ wb.control.RegWrite => register_array[wb.wreg_addr] = WriteData
  /\ ex.at # None => /\ ReadBehind(ex.instruction.rs, ex.register_rs)
                     /\ ReadBehind(ex.instruction.rt, ex.register_rt)

(* What the stall is for: no R-format instruction needs what is loaded in  *)
(* MEM; and what reads memory there is what hands on the value read.       *)
LoadsAhead ==
  /\ mem.control.MemRead <=> mem.control.MemToReg
  /\ ex.instruction.op = "rformat" /\ mem.control.MemToReg
       => ~FromMem(ex.instruction.rs) /\ ~FromMem(ex.instruction.rt)

IInv == TypeOK /\ Decoded /\ ReadInDecode /\ LoadsAhead

LEMMA InitInv == Init => IInv
<1> SUFFICES ASSUME Init PROVE IInv
  OBVIOUS
<1>1. TypeOK
  BY InitTyped
<1>2. Decoded
  BY DEF Init, Decoded, Bubble
<1>3. ReadInDecode
  BY NoControlFields DEF Init, ReadInDecode, Bubble
<1>4. LoadsAhead
  BY NoControlFields DEF Init, LoadsAhead
<1> QED BY <1>1, <1>2, <1>3, <1>4 DEF IInv

LEMMA DecodedStep ==
  ASSUME TypeOK, Decoded, Clock
  PROVE  Decoded'
<1> USE NoneAssumption DEF Clock
<1>1. PC # None /\ iram' = iram
  BY DEF TypeOK
<1>2. CASE pc_Stall
  <2>1. id' = id /\ ex' = Bubble
    BY <1>2 DEF IfId, IdEx
  <2> QED BY <1>1, <1>2, <2>1 DEF Decoded, Bubble, pc_Stall, Nop
<1>3. CASE ~pc_Stall
  <2>1. id'.at = PC /\ id'.instruction = iram[PC] /\ id'.PC4 = (PC + 1) % IramSize
    BY <1>3 DEF IfId, PC4
  <2>2. /\ ex'.at = id.at /\ ex'.instruction = id.instruction
        /\ ex'.control = Control(id.instruction) /\ ex'.PC4 = id.PC4
    BY <1>3 DEF IdEx
  <2> QED BY <1>1, <2>1, <2>2 DEF Decoded
<1> QED BY <1>2, <1>3

LEMMA ReadInDecodeStep ==
  ASSUME TypeOK, ReadInDecode, Clock
  PROVE  ReadInDecode'
<1>1. wb' \in [control : ControlType, memory_data : Word, alu_result : Word,
               wreg_addr : Regs, at : Pcs \cup {None}]
  BY StepTyped DEF TypeOK
<1>2. ASSUME wb'.control.RegWrite
      PROVE  register_array' = [register_array EXCEPT ![wb'.wreg_addr] = WriteData']
  BY <1>2 DEF Clock, RegisterFile
<1>3. ASSUME ~wb'.control.RegWrite
      PROVE  register_array' = register_array
  BY <1>3 DEF Clock, RegisterFile
<1>4. wb'.control.RegWrite => register_array'[wb'.wreg_addr] = WriteData'
  BY <1>1, <1>2 DEF TypeOK
<1>5. \A r \in Regs : ~(wb'.control.RegWrite /\ wb'.wreg_addr = r)
                        => register_array'[r] = register_array[r]
  BY <1>1, <1>2, <1>3 DEF TypeOK
<1>6. ASSUME ex'.at # None
      PROVE  ReadBehind(ex.instruction.rs, ex.register_rs)' /\ ReadBehind(ex.instruction.rt, ex.register_rt)'
  <2>1. ~pc_Stall
    BY <1>6 DEF Clock, IdEx, Bubble
  <2>2. /\ ex'.instruction = id.instruction
        /\ ex'.register_rs = register_array[id.instruction.rs]
        /\ ex'.register_rt = register_array[id.instruction.rt]
    BY <2>1 DEF Clock, IdEx
  <2>3. id.instruction.rs \in Regs /\ id.instruction.rt \in Regs
    BY InstructionTyped DEF TypeOK
  <2> QED BY <1>5, <2>2, <2>3 DEF ReadBehind
<1> QED BY <1>4, <1>6 DEF ReadInDecode

LEMMA LoadsAheadStep ==
  ASSUME TypeOK, Clock
  PROVE  LoadsAhead'
<1>1. mem'.control = ex.control /\ mem'.wreg_addr = ex_wreg_addr
  BY DEF Clock, ExMem
<1>2. /\ ex.control.MemRead <=> ex.control.MemToReg
      /\ ex.control.MemToReg => ex.instruction.op = "lw"
  <2>1. CASE ex.control = NoControl
    BY <2>1, NoControlFields
  <2>2. CASE ex.control = Control(ex.instruction)
    BY <2>2, ControlFields
  <2> QED BY <2>1, <2>2 DEF TypeOK
<1>3. ASSUME ex'.instruction.op = "rformat", mem'.control.MemToReg
      PROVE  ~FromMem(ex.instruction.rs)' /\ ~FromMem(ex.instruction.rt)'
  <2>1. CASE pc_Stall
    BY <2>1 DEF Clock, IdEx, Bubble, Nop, FromMem
  <2>2. CASE ~pc_Stall
    <3>1. ex'.instruction = id.instruction
      BY <2>2 DEF Clock, IdEx
    <3>2. ex_wreg_addr \notin {id.instruction.rs, id.instruction.rt}
      BY <1>1, <1>2, <1>3, <2>2, <3>1 DEF pc_Stall, load_to_use
    <3> QED BY <1>1, <3>1, <3>2 DEF FromMem
  <2> QED BY <2>1, <2>2
<1> QED BY <1>1, <1>2, <1>3 DEF LoadsAhead

LEMMA StepInv == IInv /\ [Clock]_vars => IInv'
<1> SUFFICES ASSUME IInv, [Clock]_vars PROVE IInv'
  OBVIOUS
<1>1. TypeOK'
  BY StepTyped DEF IInv
<1>2. CASE UNCHANGED vars
  BY <1>2, <1>1 DEF IInv, vars, Decoded, ReadInDecode, ReadBehind, WriteData, LoadsAhead, FromMem
<1>3. CASE Clock
  BY <1>1, <1>3, DecodedStep, ReadInDecodeStep, LoadsAheadStep DEF IInv
<1> QED BY <1>2, <1>3

(* The instructions, the registers and the loads of the pipeline registers *)
(* belong together as the invariant says.                                  *)
THEOREM Invariance == Spec => []IInv
<1> QED BY InitInv, StepInv, PTL DEF Spec
-----------------------------------------------------------------------------
(* What the instruction in EX computes, and from what *)

LEMMA Decoding ==
  ASSUME IInv, ex.at # None
  PROVE  /\ ex.instruction \in Instructions /\ ex.instruction \in Instruction
         /\ ex.instruction = iram[ex.at] /\ ex.control = Control(ex.instruction)
         /\ ex.instruction.op \in {"rformat", "lw", "sw", "beq"}
         /\ ex.instruction.rs \in Regs /\ ex.instruction.rt \in Regs
         /\ ex.instruction.rd \in Regs /\ ex.instruction.imm \in Word
<1>1. ex.instruction \in Instructions
  BY DEF IInv, Decoded, TypeOK
<1>2. ex.instruction \in Instruction
  BY <1>1, InstructionTyped
<1>3. ex.instruction.op \in {"rformat", "lw", "sw", "beq"}
  BY <1>2 DEF Instruction
<1> QED BY <1>1, <1>2, <1>3, InstructionTyped DEF IInv, Decoded

(* A bubble, or the word 0 of a reset, changes register 0 at most. *)
LEMMA Idle ==
  ASSUME IInv, ex.at = None
  PROVE  /\ ~ex.control.MemToReg /\ ~ex.control.MemWrite /\ ~ex.control.Branch
         /\ ex.control.RegWrite => ex_wreg_addr = 0
<1>1. ex.instruction = Nop
  BY DEF IInv, Decoded
<1>2. CASE ex.control = NoControl
  BY <1>2, NoControlFields
<1>3. CASE ex.control = Control(Nop)
  BY <1>1, <1>3, ControlFields DEF Nop, ex_wreg_addr
<1> QED BY <1>1, <1>2, <1>3 DEF IInv, TypeOK

(* The forwarding unit: the newest value of the register, unless a load in *)
(* MEM is still to fetch it.                                               *)
LEMMA Newest ==
  ASSUME IInv, NEW r \in Regs, NEW value, ReadBehind(r, value), r = 0 => value = 0,
         ~(mem.control.MemToReg /\ FromMem(r))
  PROVE  Forwarded(r, value) = Seq1!Reg(r)
<1>1. CASE r = 0
  BY <1>1 DEF Forwarded, FromMem, FromWb, Seq1!Reg
<1>2. CASE r # 0
  <2>1. Seq1!Reg(r) = IF FromMem(r) THEN mem.alu_result ELSE register_array[r]
    BY <1>2 DEF Seq1!Reg, regs, Result, FromMem
  <2>2. FromWb(r) => register_array[r] = WriteData
    BY DEF IInv, ReadInDecode, FromWb
  <2>3. ~FromMem(r) /\ ~FromWb(r) => value = register_array[r]
    BY <1>2 DEF ReadBehind, FromWb
  <2>4. FromMem(r) => ~FromWb(r)
    BY DEF FromWb
  <2> QED BY <2>1, <2>2, <2>3, <2>4 DEF Forwarded
<1> QED BY <1>1, <1>2

LEMMA Operands ==
  ASSUME IInv, ex.at # None, ~Hazard
  PROVE  /\ Ainput = Seq1!Reg(ex.instruction.rs)
         /\ ex.instruction.op \in {"rformat", "beq"} => Binput = Seq1!Reg(ex.instruction.rt)
         /\ ex.instruction.op \in {"lw", "sw"} => Binput = ex.instruction.imm
         /\ ex.instruction.op = "sw" => ex.register_rt = Seq1!Reg(ex.instruction.rt)
<1> DEFINE rs == ex.instruction.rs  rt == ex.instruction.rt
<1>1. /\ ReadBehind(rs, ex.register_rs) /\ ReadBehind(rt, ex.register_rt)
      /\ rs = 0 => ex.register_rs = 0
      /\ rt = 0 => ex.register_rt = 0
  BY DEF IInv, ReadInDecode, Hazard, ReadsWrittenZero
<1>2. ex.control.ALUSrc <=> ex.instruction.op \in {"lw", "sw"}
  BY Decoding, ControlFields
<1>3. ex.control.MemWrite <=> ex.instruction.op = "sw"
  BY Decoding, ControlFields
<1>4. ~(mem.control.MemToReg /\ FromMem(rs))
  BY DEF IInv, LoadsAhead, Hazard, UsesLoadTooEarly
<1>5. Ainput = Seq1!Reg(rs)
  BY <1>1, <1>4, Newest, Decoding DEF Ainput
<1>6. ASSUME ex.instruction.op \in {"rformat", "beq"}
      PROVE  Binput = Seq1!Reg(rt)
  <2>1. ~(mem.control.MemToReg /\ FromMem(rt))
    BY <1>2, <1>6 DEF IInv, LoadsAhead, Hazard, UsesLoadTooEarly
  <2>2. Forwarded(rt, ex.register_rt) = Seq1!Reg(rt)
    BY <1>1, <2>1, Newest, Decoding
  <2> QED BY <1>2, <1>6, <2>2 DEF Binput
<1>7. ASSUME ex.instruction.op = "sw"
      PROVE  ex.register_rt = Seq1!Reg(rt)
  <2>1. ~FromMem(rt) /\ ~FromWb(rt)
    BY <1>3, <1>7 DEF Hazard, StoresStaleData
  <2>2. Forwarded(rt, ex.register_rt) = Seq1!Reg(rt)
    BY <1>1, <2>1, Newest, Decoding
  <2> QED BY <2>1, <2>2 DEF Forwarded
<1> QED BY <1>2, <1>5, <1>6, <1>7 DEF Binput

LEMMA AluAddress ==
  ASSUME IInv, ex.at # None, ex.instruction.op \in {"lw", "sw"}
  PROVE  ALU_internal = (Ainput + Binput) % WordSize
<1>1. ~ex.control.ALUOp1 /\ ~ex.control.ALUOp0
  BY Decoding, ControlFields
<1>2. ALU_ctl = {1}
  BY <1>1 DEF ALU_ctl
<1> QED BY <1>2 DEF ALU_internal

LEMMA AluBranch ==
  ASSUME IInv, ex.at # None, ex.instruction.op = "beq"
  PROVE  ALU_internal = (Ainput + WordSize - Binput) % WordSize
<1>1. ~ex.control.ALUOp1 /\ ex.control.ALUOp0
  BY Decoding, ControlFields
<1>2. ALU_ctl = {1, 2}
  BY <1>1 DEF ALU_ctl
<1> QED BY <1>2 DEF ALU_internal

LEMMA AluRformat ==
  ASSUME IInv, ex.at # None, ex.instruction.op = "rformat"
  PROVE  ALU_internal = Seq1!Apply(ex.instruction.funct, Ainput, Binput)
<1> DEFINE F == ex.instruction.funct
<1>1. ex.control.ALUOp1 /\ ~ex.control.ALUOp0
  BY Decoding, ControlFields
<1>2. F \in {{}, {5}, {5, 1}, {5, 2}, {5, 2, 0}}
  BY Decoding, SupportedAssumption
<1> USE DEF Seq1!Apply, Seq1!SubF, Seq1!AndF, Seq1!OrF
<1>3. CASE F = {} \/ F = {5}
  <2>1. ALU_ctl = {1}
    BY <1>1, <1>3 DEF ALU_ctl
  <2> QED BY <1>3, <2>1 DEF ALU_internal
<1>4. CASE F = {5, 1}
  <2>1. ALU_ctl = {1, 2}
    BY <1>1, <1>4 DEF ALU_ctl
  <2> QED BY <1>4, <2>1 DEF ALU_internal
<1>5. CASE F = {5, 2}
  <2>1. ALU_ctl = {}
    BY <1>1, <1>5 DEF ALU_ctl
  <2> QED BY <1>5, <2>1 DEF ALU_internal
<1>6. CASE F = {5, 2, 0}
  <2>1. ALU_ctl = {0}
    BY <1>1, <1>6 DEF ALU_ctl
  <2> QED BY <1>6, <2>1 DEF ALU_internal
<1> QED BY <1>2, <1>3, <1>4, <1>5, <1>6
-----------------------------------------------------------------------------
(* What a clock edge changes of the sequential machine *)

LEMMA RegsStep ==
  ASSUME IInv, Clock
  PROVE  regs' = [r \in Regs |->
                   IF r = 0 THEN 0
                   ELSE IF ex.control.RegWrite /\ ex_wreg_addr = r THEN Result'
                   ELSE regs[r]]
<1>1. /\ mem'.control = ex.control /\ mem'.wreg_addr = ex_wreg_addr
      /\ wb'.control = mem.control /\ wb'.wreg_addr = mem.wreg_addr
  BY DEF Clock, ExMem, MemWb
<1>2. WriteData' = Result
  BY DEF Clock, MemWb, WriteData, Result
<1>3. mem.wreg_addr \in Regs /\ register_array \in [Regs -> Word]
  BY DEF IInv, TypeOK
<1>4. ASSUME NEW r \in Regs, r # 0
      PROVE  register_array'[r] = regs[r]
  BY <1>1, <1>2, <1>3, <1>4 DEF Clock, RegisterFile, regs
<1> QED BY <1>1, <1>4 DEF regs

LEMMA DramStep ==
  ASSUME IInv, Clock
  PROVE  dram' = IF ex.control.MemWrite
                 THEN [dram EXCEPT ![Index(ALU_internal)] = ex.register_rt]
                 ELSE dram
<1>1. mem'.control = ex.control /\ mem'.alu_result = ALU_internal /\ mem'.register_rt = ex.register_rt
  BY DEF Clock, ExMem
<1> QED BY <1>1 DEF Clock, DataMemory, Index

(* An instruction that changes no register leaves the registers alone. *)
LEMMA RegsKept ==
  ASSUME IInv, Clock, ex.control.RegWrite => ex_wreg_addr = 0
  PROVE  regs' = regs
<1>1. \A r \in Regs : r = 0 \/ ~(ex.control.RegWrite /\ ex_wreg_addr = r)
  OBVIOUS
<1> DEFINE after == [r \in Regs |-> IF r = 0 THEN 0
                                    ELSE IF ex.control.RegWrite /\ ex_wreg_addr = r THEN Result'
                                    ELSE regs[r]]
<1>2. \A r \in Regs : after[r] = regs[r]
  BY <1>1 DEF regs
<1>3. after = regs
  BY <1>2 DEF regs
<1> QED BY <1>3, RegsStep

LEMMA RegsPut ==
  ASSUME IInv, Clock, ex.control.RegWrite
  PROVE  Seq1!Put(ex_wreg_addr, Result')
<1>1. ex_wreg_addr \in Regs
  BY SignalsTyped DEF IInv
<1> DEFINE after == [r \in Regs |-> IF r = 0 THEN 0
                                    ELSE IF ex.control.RegWrite /\ ex_wreg_addr = r THEN Result'
                                    ELSE regs[r]]
           put == [regs EXCEPT ![ex_wreg_addr] = IF ex_wreg_addr = 0 THEN 0 ELSE Result']
<1>2. \A r \in Regs : after[r] = put[r]
  BY <1>1 DEF regs
<1>3. after = put
  BY <1>2 DEF regs
<1> QED BY <1>3, RegsStep DEF Seq1!Put

(* The address after the one being fetched. *)
Fetched == IF PCSource THEN mem.branch_PC ELSE (PC + 1) % IramSize

(* The next four of the addresses e in EX, i in ID, p in fetch and then f. *)
NextFour(e, i, p, f) ==
  IF e # None THEN <<e, i, p, f>>
  ELSE IF i # None THEN <<i, p, f, (f + 1) % IramSize>>
  ELSE <<p, f, (f + 1) % IramSize, (f + 2) % IramSize>>

LEMMA NextFourTaken ==
  ASSUME NEW e, NEW i, NEW p, NEW f, i = None => e = None
  PROVE  SubSeq(((IF e = None THEN << >> ELSE <<e>>) \o (IF i = None THEN << >> ELSE <<i>>))
                  \o <<p, f, (f + 1) % IramSize, (f + 2) % IramSize>>, 1, 4)
           = NextFour(e, i, p, f)
<1> DEFINE g == (f + 1) % IramSize  h == (f + 2) % IramSize
           S == {e, i, p, f, g, h}
<1> HIDE DEF g, h
<1>1. e \in S /\ i \in S /\ p \in S /\ f \in S /\ g \in S /\ h \in S
  OBVIOUS
<1> HIDE DEF S
<1>2. /\ SubSeq((<<e>> \o <<i>>) \o <<p, f, g, h>>, 1, 4) = <<e, i, p, f>>
      /\ SubSeq((<< >> \o <<i>>) \o <<p, f, g, h>>, 1, 4) = <<i, p, f, g>>
      /\ SubSeq((<< >> \o << >>) \o <<p, f, g, h>>, 1, 4) = <<p, f, g, h>>
  BY <1>1, FirstFour
<1>3. CASE e # None
  BY <1>2, <1>3 DEF NextFour, g, h
<1>4. CASE e = None /\ i # None
  BY <1>2, <1>4 DEF NextFour, g, h
<1>5. CASE e = None /\ i = None
  BY <1>2, <1>5 DEF NextFour, g, h
<1> QED BY <1>3, <1>4, <1>5

LEMMA PcsAre ==
  /\ (id.at = None => ex.at = None) => pcs = NextFour(ex.at, id.at, PC, Fetched)
  /\ (id'.at = None => ex'.at = None) => pcs' = NextFour(ex'.at, id'.at, PC', Fetched')
BY NextFourTaken DEF pcs, Fetched

LEMMA PcsStep ==
  ASSUME IInv, Clock, ~LosesBranch
  PROVE  IF ex.at = None THEN pcs' = pcs
         ELSE /\ pcs = <<ex.at, id.at, PC, Fetched>>
              /\ pcs' = <<id.at, PC, Fetched,
                          IF ex.control.Branch /\ ALU_internal = 0 THEN Branch_PC
                          ELSE (Fetched + 1) % IramSize>>
<1>1. (id.at = None => ex.at = None) /\ (id'.at = None => ex'.at = None)
  BY DecodedStep DEF IInv, Decoded
<1>2. pcs = NextFour(ex.at, id.at, PC, Fetched) /\ pcs' = NextFour(ex'.at, id'.at, PC', Fetched')
  BY <1>1, PcsAre
<1>3. PCSource' <=> ex.control.Branch /\ ALU_internal = 0
  BY DEF Clock, ExMem, PCSource
<1>4. mem'.branch_PC = Branch_PC
  BY DEF Clock, ExMem
<1>5. PC \in Pcs /\ mem.branch_PC \in Pcs /\ PC # None
  BY NoneAssumption DEF IInv, TypeOK
<1>6. CASE pc_Stall
  <2>1. ex.at # None /\ ex.instruction.op = "lw"
    BY <1>6 DEF pc_Stall, IInv, Decoded, Nop
  <2>2. ~ex.control.Branch
    BY <2>1, Decoding, ControlFields
  <2>3. ~PCSource
    BY <1>6 DEF LosesBranch
  <2>4. PC' = PC /\ id'.at = id.at /\ ex'.at = None
    BY <1>6 DEF Clock, Fetch, Next_PC, IfId, IdEx, Bubble
  <2>5. Fetched' = Fetched
    BY <1>3, <2>2, <2>3, <2>4 DEF Fetched
  <2>6. id.at # None
    BY <1>1, <2>1
  <2> QED BY <1>2, <2>1, <2>2, <2>4, <2>5, <2>6 DEF NextFour
<1>7. CASE ~pc_Stall
  <2>1. PC' = Fetched /\ id'.at = PC /\ ex'.at = id.at
    BY <1>7 DEF Clock, Fetch, Next_PC, IfId, IdEx, Fetched
  <2>2. Fetched' = IF ex.control.Branch /\ ALU_internal = 0 THEN Branch_PC
                   ELSE (Fetched + 1) % IramSize
    BY <1>3, <1>4, <2>1 DEF Fetched
  <2>3. CASE ex.at # None
    BY <1>1, <1>2, <2>1, <2>2, <2>3 DEF NextFour
  <2>4. CASE ex.at = None
    <3>1. Fetched' = (Fetched + 1) % IramSize
      BY <2>2, <2>4, Idle
    <3>2. CASE id.at # None
      BY <1>2, <2>1, <2>4, <3>1, <3>2 DEF NextFour
    <3>3. CASE id.at = None
      <4>1. Fetched \in Pcs
        BY <1>5, Wraps DEF Fetched, Pcs
      <4>2. (((Fetched + 1) % IramSize) + 1) % IramSize = (Fetched + 2) % IramSize
        BY <4>1, Sizes, WrapOnce DEF Pcs
      <4> QED BY <1>2, <1>5, <2>1, <2>4, <3>1, <3>3, <4>2 DEF NextFour
    <3> QED BY <3>2, <3>3
  <2> QED BY <2>3, <2>4
<1> QED BY <1>6, <1>7
-----------------------------------------------------------------------------
(* The refinement: one lemma per instruction the EX stage may hold *)

LEMMA EffectiveAddress ==
  ASSUME IInv, ~Hazard, ex.at # None, ex.instruction.op \in {"lw", "sw"}
  PROVE  Index(ALU_internal) = Seq1!Address(ex.instruction)
BY Operands, AluAddress DEF Index, Seq1!Address

LEMMA IdleStep ==
  ASSUME IInv, Clock, ~LosesBranch, ex.at = None
  PROVE  UNCHANGED <<iram, regs, dram, pcs>>
<1>1. iram' = iram
  BY DEF Clock
<1>2. regs' = regs
  BY Idle, RegsKept
<1>3. dram' = dram
  BY Idle, DramStep
<1>4. pcs' = pcs
  BY PcsStep
<1> QED BY <1>1, <1>2, <1>3, <1>4

(* The four addresses once the instruction in EX is executed. *)
LEMMA GoStep ==
  ASSUME IInv, Clock, ~LosesBranch, ex.at # None
  PROVE  /\ pcs[1] = ex.at
         /\ Seq1!Go(IF ex.control.Branch /\ ALU_internal = 0 THEN Branch_PC
                    ELSE Seq1!Sequel)
<1> DEFINE last == IF ex.control.Branch /\ ALU_internal = 0 THEN Branch_PC
                   ELSE (Fetched + 1) % IramSize
           S == {ex.at, id.at, PC, Fetched, last}
<1>1. pcs = <<ex.at, id.at, PC, Fetched>> /\ pcs' = <<id.at, PC, Fetched, last>>
  BY PcsStep
<1>2. pcs[1] = ex.at /\ Seq1!Sequel = (Fetched + 1) % IramSize
  BY <1>1 DEF Seq1!Sequel
<1>3. Append(Tail(<<ex.at, id.at, PC, Fetched>>), last) = <<id.at, PC, Fetched, last>>
  <2>1. ex.at \in S /\ id.at \in S /\ PC \in S /\ Fetched \in S /\ last \in S
    OBVIOUS
  <2> HIDE DEF last, S
  <2> QED BY <2>1, ShiftFour
<1> QED BY <1>1, <1>2, <1>3 DEF Seq1!Go

LEMMA RformatStep ==
  ASSUME IInv, Clock, ~Hazard, ex.at # None, ex.instruction.op = "rformat"
  PROVE  Seq1!Rformat(ex.instruction)
<1>1. /\ ex.control.RegWrite /\ ex.control.RegDst /\ ~ex.control.MemToReg
      /\ ~ex.control.MemWrite /\ ~ex.control.Branch
  BY Decoding, ControlFields
<1>2. ex_wreg_addr = ex.instruction.rd
  BY <1>1 DEF ex_wreg_addr
<1>3. Result' = ALU_internal
  BY <1>1 DEF Clock, ExMem, Result
<1>4. ALU_internal = Seq1!Apply(ex.instruction.funct, Seq1!Reg(ex.instruction.rs),
                               Seq1!Reg(ex.instruction.rt))
  BY AluRformat, Operands
<1>5. Seq1!Put(ex.instruction.rd, ALU_internal)
  BY <1>1, <1>2, <1>3, RegsPut
<1>6. Seq1!Go(Seq1!Sequel)
  BY <1>1, GoStep DEF Hazard
<1>7. UNCHANGED <<iram, dram>>
  BY <1>1, DramStep DEF Clock
<1> QED BY <1>4, <1>5, <1>6, <1>7 DEF Seq1!Rformat

LEMMA LoadStep ==
  ASSUME IInv, Clock, ~Hazard, ex.at # None, ex.instruction.op = "lw"
  PROVE  Seq1!Load(ex.instruction)
<1>1. /\ ex.control.RegWrite /\ ~ex.control.RegDst /\ ex.control.MemToReg
      /\ ex.control.MemRead /\ ~ex.control.MemWrite /\ ~ex.control.Branch
  BY Decoding, ControlFields
<1>2. ex_wreg_addr = ex.instruction.rt
  BY <1>1 DEF ex_wreg_addr
<1>3. UNCHANGED <<iram, dram>>
  BY <1>1, DramStep DEF Clock
<1>4. Result' = dram[Index(ALU_internal)]
  BY <1>1, <1>3 DEF Clock, ExMem, Result, read_data, Index
<1>5. Seq1!Put(ex.instruction.rt, dram[Seq1!Address(ex.instruction)])
  BY <1>1, <1>2, <1>4, RegsPut, EffectiveAddress
<1>6. Seq1!Go(Seq1!Sequel)
  BY <1>1, GoStep DEF Hazard
<1> QED BY <1>3, <1>5, <1>6 DEF Seq1!Load

LEMMA StoreStep ==
  ASSUME IInv, Clock, ~Hazard, ex.at # None, ex.instruction.op = "sw"
  PROVE  Seq1!Store(ex.instruction)
<1>1. ~ex.control.RegWrite /\ ex.control.MemWrite /\ ~ex.control.Branch
  BY Decoding, ControlFields
<1>2. dram' = [dram EXCEPT ![Seq1!Address(ex.instruction)] = Seq1!Reg(ex.instruction.rt)]
  BY <1>1, DramStep, EffectiveAddress, Operands
<1>3. Seq1!Go(Seq1!Sequel)
  BY <1>1, GoStep DEF Hazard
<1>4. UNCHANGED <<iram, regs>>
  BY <1>1, RegsKept DEF Clock
<1> QED BY <1>2, <1>3, <1>4 DEF Seq1!Store

LEMMA BranchStep ==
  ASSUME IInv, Clock, ~Hazard, ex.at # None, ex.instruction.op = "beq"
  PROVE  Seq1!Branch(ex.instruction)
<1>1. ~ex.control.RegWrite /\ ~ex.control.MemWrite /\ ex.control.Branch
  BY Decoding, ControlFields
<1>2. ALU_internal = 0 <=> Seq1!Reg(ex.instruction.rs) = Seq1!Reg(ex.instruction.rt)
  <2>1. ALU_internal = (Ainput + WordSize - Binput) % WordSize
    BY AluBranch
  <2>2. Ainput \in 0 .. WordSize - 1 /\ Binput \in 0 .. WordSize - 1
    BY SignalsTyped DEF IInv, Word
  <2>3. ALU_internal = 0 <=> Ainput = Binput
    BY <2>1, <2>2, Sizes, DifferenceIsZero
  <2> QED BY <2>3, Operands
<1>3. Branch_PC = (pcs[1] + 1 + ex.instruction.imm) % IramSize
  <2>1. ex.PC4 = (ex.at + 1) % IramSize /\ ex.at \in 0 .. IramSize - 1
    BY DEF IInv, Decoded, TypeOK, Pcs
  <2>2. ex.instruction.imm \in Nat
    BY Decoding DEF Word
  <2>3. pcs[1] = ex.at
    BY GoStep DEF Hazard
  <2> QED BY <2>1, <2>2, <2>3, Sizes, WrapOnce DEF Branch_PC
<1>4. Seq1!Go(IF ALU_internal = 0 THEN Branch_PC ELSE Seq1!Sequel)
  BY <1>1, GoStep DEF Hazard
<1>5. UNCHANGED <<iram, regs, dram>>
  BY <1>1, RegsKept, DramStep DEF Clock
<1> QED BY <1>2, <1>3, <1>4, <1>5 DEF Seq1!Branch

LEMMA RefinementInit == Init => Seq1!Init
<1> SUFFICES ASSUME Init PROVE Seq1!Init
  OBVIOUS
<1>1. PCSource = FALSE /\ ~mem.control.RegWrite
  BY NoControlFields DEF Init, PCSource
<1>2. regs \in [Seq1!Regs -> Seq1!Word]
  <2>1. \A r \in Regs : register_array[r] \in Word /\ 0 \in Word
    BY InitAssumption, Sizes DEF Init, Word
  <2> QED BY <1>1, <2>1 DEF regs, Regs, Word, Seq1!Regs, Seq1!Word
<1>3. dram \in [0 .. DramSize - 1 -> Seq1!Word]
  BY InitAssumption DEF Init, Dram, Word, Seq1!Word
<1>4. pcs = <<0, 1 % IramSize, 2 % IramSize, 3 % IramSize>>
  <2>1. id.at = None /\ ex.at = None /\ PC = 0 /\ Fetched = 1 % IramSize
    BY <1>1 DEF Init, Bubble, Fetched
  <2>2. ((1 % IramSize) + 1) % IramSize = 2 % IramSize
    BY Sizes, WrapOnce
  <2>3. ((1 % IramSize) + 2) % IramSize = 3 % IramSize
    BY Sizes, WrapOnce
  <2> QED BY <2>1, <2>2, <2>3, PcsAre DEF NextFour
<1>5. pcs = [n \in 1 .. 4 |-> (n - 1) % IramSize]
  <2>1. 0 % IramSize = 0
    BY Sizes
  <2> QED BY <1>4, <2>1
<1> QED BY <1>2, <1>3, <1>5 DEF Seq1!Init

LEMMA RefinementStep ==
  IInv /\ [Clock]_vars => [Hazard \/ Seq1!Next]_<<iram, regs, dram, pcs>>
<1> SUFFICES ASSUME IInv, [Clock]_vars, ~Hazard
             PROVE  Seq1!Next \/ UNCHANGED <<iram, regs, dram, pcs>>
  OBVIOUS
<1>1. CASE UNCHANGED vars
  BY <1>1 DEF vars, regs, pcs, Result, read_data, PCSource, Index
<1>2. CASE Clock /\ ex.at = None
  BY <1>2, IdleStep DEF Hazard
<1>3. CASE Clock /\ ex.at # None
  <2>1. iram[pcs[1]] = ex.instruction
    BY <1>3, GoStep, Decoding DEF Hazard
  <2>2. \/ Seq1!Rformat(ex.instruction) \/ Seq1!Load(ex.instruction)
        \/ Seq1!Store(ex.instruction) \/ Seq1!Branch(ex.instruction)
    BY <1>3, Decoding, RformatStep, LoadStep, StoreStep, BranchStep
  <2> QED BY <2>1, <2>2 DEF Seq1!Next
<1> QED BY <1>1, <1>2, <1>3

(* Whatever is forwarded, stalled or behind a branch: outside the four     *)
(* hazards the instruction that leaves EX has read the registers as the    *)
(* instructions before it left them, and the ones fetched behind it are    *)
(* those the sequential machine goes on with.                              *)
THEOREM Refinement == Spec => ImplementsSequential
<1> QED BY RefinementInit, RefinementStep, Invariance, PTL DEF Spec, ImplementsSequential
-----------------------------------------------------------------------------
(* Scheduled programs *)

(* The register an instruction names as its destination. *)
Names(i) == IF i.op = "rformat" THEN i.rd ELSE i.rt

(* What is in MEM and in WB is the instruction of the address it carries;  *)
(* without an address it writes register 0 at most.                        *)
MemAt ==
  IF mem.at = None
  THEN ~mem.control.Branch /\ ~mem.control.MemToReg /\ (mem.control.RegWrite => mem.wreg_addr = 0)
  ELSE mem.control = Control(iram[mem.at]) /\ mem.wreg_addr = Names(iram[mem.at])

WbAt ==
  IF wb.at = None
  THEN wb.control.RegWrite => wb.wreg_addr = 0
  ELSE wb.control = Control(iram[wb.at]) /\ wb.wreg_addr = Names(iram[wb.at])

(* Each instruction in the pipeline is a follower of the one before it,    *)
(* which a bubble may separate from it.                                    *)
InOrder ==
  /\ id.at # None => PC \in Followers(id.at)
  /\ ex.at # None => id.at \in Followers(ex.at)
  /\ mem.at # None => (IF ex.at = None THEN id.at ELSE ex.at) \in Followers(mem.at)
  /\ wb.at # None => (IF mem.at = None THEN ex.at ELSE mem.at) \in Followers(wb.at)

(* Behind a branch, up to where it is decided, the next three follow.      *)
After(a, k) == (a + k) % IramSize

BehindBranch ==
  /\ id.at # None /\ iram[id.at].op = "beq" => PC = After(id.at, 1)
  /\ ex.at # None /\ iram[ex.at].op = "beq" => id.at = After(ex.at, 1) /\ PC = After(ex.at, 2)
  /\ mem.at # None /\ iram[mem.at].op = "beq"
       => /\ ex.at = After(mem.at, 1) /\ id.at = After(mem.at, 2) /\ PC = After(mem.at, 3)
          /\ mem.branch_PC = (mem.at + 1 + iram[mem.at].imm) % IramSize

(* Register 0 is 0, and so is all that is written to it or read from it.   *)
ZeroKept ==
  /\ register_array[0] = 0
  /\ mem.control.RegWrite /\ mem.wreg_addr = 0 => mem.alu_result = 0 /\ ~mem.control.MemToReg
  /\ ex.instruction.rs = 0 => ex.register_rs = 0
  /\ ex.instruction.rt = 0 => ex.register_rt = 0

Path == MemAt /\ WbAt /\ InOrder /\ BehindBranch /\ ZeroKept

ScheduledInv == Scheduled => Path

LEMMA InitPath == Init => Path
<1> SUFFICES ASSUME Init PROVE Path
  OBVIOUS
<1>1. MemAt /\ WbAt
  BY NoControlFields DEF Init, MemAt, WbAt
<1>2. InOrder /\ BehindBranch
  BY DEF Init, Bubble, InOrder, BehindBranch
<1>3. ZeroKept
  BY InitAssumption, NoControlFields DEF Init, Bubble, ZeroKept
<1> QED BY <1>1, <1>2, <1>3 DEF Path

(* The addresses in the pipeline and the instructions at them. *)
LEMMA Places ==
  ASSUME TypeOK
  PROVE  /\ PC \in Pcs /\ id.at \in Pcs \cup {None} /\ ex.at \in Pcs \cup {None}
         /\ mem.at \in Pcs \cup {None} /\ wb.at \in Pcs \cup {None} /\ None \notin Pcs
         /\ \A a \in Pcs : /\ iram[a] \in Instruction
                           /\ iram[a].op \in {"rformat", "lw", "sw", "beq"}
                           /\ iram[a].imm \in Nat
<1>1. \A a \in Pcs : iram[a] \in Instructions
  BY DEF TypeOK
<1>2. \A i \in Instruction : i.op \in {"rformat", "lw", "sw", "beq"} /\ i.imm \in Nat
  BY DEF Instruction, Word
<1> QED BY <1>1, <1>2, NoneAssumption, InstructionTyped DEF TypeOK

LEMMA MemAtStep ==
  ASSUME IInv, Clock
  PROVE  MemAt'
<1>1. mem'.at = ex.at /\ mem'.control = ex.control /\ mem'.wreg_addr = ex_wreg_addr /\ iram' = iram
  BY DEF Clock, ExMem
<1>2. CASE ex.at = None
  BY <1>1, <1>2, Idle DEF MemAt
<1>3. CASE ex.at # None
  BY <1>1, <1>3, Decoding, ControlFields DEF MemAt, Names, ex_wreg_addr
<1> QED BY <1>2, <1>3

LEMMA WbAtStep ==
  ASSUME MemAt, Clock
  PROVE  WbAt'
BY DEF Clock, MemWb, MemAt, WbAt

(* Wrapping round the instruction memory *)
LEMMA AfterAfter ==
  ASSUME NEW a \in Pcs
  PROVE  /\ After(a, 1) \in Pcs /\ After(a, 2) \in Pcs /\ After(a, 3) \in Pcs
         /\ After(After(a, 1), 1) = After(a, 2)
         /\ After(After(a, 2), 1) = After(a, 3)
<1>1. a \in 0 .. IramSize - 1 /\ IramSize \in Nat \ {0}
  BY Sizes DEF Pcs
<1>2. \A k \in Nat : (a + k) % IramSize \in Pcs
  BY <1>1, Wraps
<1>3. (((a + 1) % IramSize) + 1) % IramSize = (a + 2) % IramSize
  BY <1>1, WrapOnce
<1>4. (((a + 2) % IramSize) + 1) % IramSize = (a + 3) % IramSize
  BY <1>1, WrapSum
<1> QED BY <1>2, <1>3, <1>4 DEF After

LEMMA ThreeBack ==
  ASSUME NEW a \in Pcs
  PROVE  (After(a, 3) + 3 * IramSize - 3) % IramSize = a
<1> DEFINE n == IramSize
<1>1. a \in 0 .. n - 1 /\ n \in Nat \ {0}
  BY Sizes DEF Pcs
<1> HIDE DEF n
<1>2. After(a, 3) \in Nat
  BY AfterAfter DEF Pcs
<1>3. 3 * n - 3 \in Nat
  BY <1>1
<1>4. (((a + 3) % n) + (3 * n - 3)) % n = (a + 3 + (3 * n - 3)) % n
  BY <1>1, <1>3, WrapSum
<1>5. a + 3 + (3 * n - 3) = n + (n + (n + a))
  BY <1>1
<1>6. (n + (n + (n + a))) % n = a % n
  <2>1. a \in Nat /\ n + a \in Nat /\ n + (n + a) \in Nat
    BY <1>1
  <2>2. (n + (n + (n + a))) % n = (n + (n + a)) % n
    BY <1>1, <2>1, WrapWhole
  <2>3. (n + (n + a)) % n = (n + a) % n
    BY <1>1, <2>1, WrapWhole
  <2>4. (n + a) % n = a % n
    BY <1>1, <2>1, WrapWhole
  <2> QED BY <2>2, <2>3, <2>4
<1>7. a % n = a
  BY <1>1
<1>8. (((a + 3) % n) + (3 * n - 3)) % n = a
  BY <1>4, <1>5, <1>6, <1>7
<1> QED BY <1>1, <1>2, <1>8 DEF After, n

(* What is fetched next follows what is fetched now. *)
LEMMA FetchedFollows ==
  ASSUME TypeOK, MemAt, BehindBranch
  PROVE  Fetched \in Followers(PC)
<1>1. CASE ~PCSource
  BY <1>1 DEF Fetched, Followers
<1>2. CASE PCSource
  <2>1. mem.at \in Pcs /\ iram[mem.at].op = "beq"
    BY <1>2, Places, ControlFields DEF PCSource, MemAt
  <2>2. PC = After(mem.at, 3) /\ Fetched = (mem.at + 1 + iram[mem.at].imm) % IramSize
    BY <1>2, <2>1, Places DEF BehindBranch, Fetched
  <2>3. (PC + 3 * IramSize - 3) % IramSize = mem.at
    BY <2>1, <2>2, ThreeBack
  <2> QED BY <2>1, <2>2, <2>3 DEF Followers
<1> QED BY <1>1, <1>2

(* A stall moves the load on and keeps what is behind it. *)
LEMMA StallStep ==
  ASSUME IInv, Clock, pc_Stall, ~LosesBranch
  PROVE  /\ ex.at # None /\ ex.instruction.op = "lw" /\ id.instruction.op = "rformat"
         /\ PC' = PC /\ id' = id /\ ex' = Bubble /\ mem'.at = ex.at /\ wb'.at = mem.at
<1>1. ex.instruction.op = "lw" /\ id.instruction.op = "rformat" /\ ~PCSource
  BY DEF pc_Stall, LosesBranch
<1>2. ex.at # None
  BY <1>1 DEF IInv, Decoded, Nop
<1> QED BY <1>1, <1>2 DEF Clock, Fetch, Next_PC, IfId, IdEx, ExMem, MemWb

LEMMA MoveStep ==
  ASSUME Clock, ~pc_Stall
  PROVE  PC' = Fetched /\ id'.at = PC /\ ex'.at = id.at /\ mem'.at = ex.at /\ wb'.at = mem.at
BY DEF Clock, Fetch, Next_PC, IfId, IdEx, ExMem, MemWb, Fetched

LEMMA InOrderStep ==
  ASSUME IInv, Path, Clock, ~LosesBranch
  PROVE  InOrder'
<1>1. \A a : Followers(a)' = Followers(a)
  BY DEF Clock, Followers
<1>2. None \notin Pcs /\ \A a \in Pcs : Followers(a) \subseteq Pcs
  <2>1. \A a \in Pcs : a + 1 \in Nat /\ a + 3 * IramSize - 3 \in Nat
    BY Sizes DEF Pcs
  <2>2. \A b \in Pcs : (b + 1 + iram[b].imm) % IramSize \in Pcs
    <3>1. \A b \in Pcs : b + 1 + iram[b].imm \in Nat
      BY Places DEF IInv, Pcs
    <3> QED BY <3>1, Wraps
  <2> QED BY <2>1, <2>2, Wraps, NoneAssumption DEF Followers
<1>3. CASE pc_Stall
  <2>1. wb'.at # None => mem'.at \in Followers(wb'.at)
    BY <1>3, StallStep DEF Path, InOrder
  <2> QED BY <1>1, <1>3, <2>1, StallStep DEF Path, InOrder, Bubble
<1>4. CASE ~pc_Stall
  <2>1. PC' = Fetched /\ id'.at = PC /\ ex'.at = id.at /\ mem'.at = ex.at /\ wb'.at = mem.at
    BY <1>4, MoveStep
  <2>2. Fetched \in Followers(PC)
    BY FetchedFollows DEF IInv, Path
  <2>3. ex.at # None => id.at \in Followers(ex.at) /\ id.at # None
    BY <1>2, Places DEF Path, InOrder, IInv
  <2> QED BY <1>1, <2>1, <2>2, <2>3 DEF Path, InOrder
<1> QED BY <1>3, <1>4

LEMMA BehindBranchStep ==
  ASSUME IInv, Path, Scheduled, Clock, ~LosesBranch
  PROVE  BehindBranch'
<1>1. iram' = iram /\ TypeOK /\ Decoded
  BY DEF Clock, IInv
<1>2. ASSUME NEW a \in Pcs, iram[a].op = "beq"
      PROVE  /\ iram[After(a, 1)].op # "beq" /\ iram[After(a, 2)].op # "beq"
             /\ iram[After(a, 3)].op # "beq"
  BY <1>2 DEF Scheduled, NoBranchBehindBranch, After
<1>3. ASSUME PCSource
      PROVE  mem.at \in Pcs /\ iram[mem.at].op = "beq"
  BY <1>1, <1>3, Places, ControlFields DEF PCSource, Path, MemAt
<1>4. CASE pc_Stall
  BY <1>1, <1>4, StallStep, Decoding DEF BehindBranch, Decoded, Bubble
<1>5. CASE ~pc_Stall
  <2>1. PC' = Fetched /\ id'.at = PC /\ ex'.at = id.at /\ mem'.at = ex.at
    BY <1>5, MoveStep
  <2>2. ASSUME iram[PC].op = "beq" \/ (id.at # None /\ iram[id.at].op = "beq")
                 \/ (ex.at # None /\ iram[ex.at].op = "beq")
        PROVE  Fetched = After(PC, 1)
    <3>1. ~PCSource
      BY <1>1, <1>2, <1>3, <2>2, Places DEF Path, BehindBranch
    <3> QED BY <3>1 DEF Fetched, After
  <2>3. iram[PC].op = "beq" => Fetched = After(PC, 1)
    BY <2>2
  <2>4. id.at # None /\ iram[id.at].op = "beq" => PC = After(id.at, 1) /\ Fetched = After(id.at, 2)
    BY <1>1, <2>2, Places, AfterAfter DEF Path, BehindBranch
  <2>5. ASSUME ex.at # None, iram[ex.at].op = "beq"
        PROVE  /\ id.at = After(ex.at, 1) /\ PC = After(ex.at, 2) /\ Fetched = After(ex.at, 3)
               /\ mem'.branch_PC = (ex.at + 1 + iram[ex.at].imm) % IramSize
    <3>1. id.at = After(ex.at, 1) /\ PC = After(ex.at, 2)
      BY <2>5 DEF Path, BehindBranch
    <3>2. Fetched = After(ex.at, 3)
      BY <1>1, <2>2, <2>5, <3>1, Places, AfterAfter
    <3>3. mem'.branch_PC = Branch_PC
      BY DEF Clock, ExMem
    <3>4. Branch_PC = (ex.at + 1 + iram[ex.at].imm) % IramSize
      <4>1. ex.PC4 = (ex.at + 1) % IramSize /\ ex.instruction = iram[ex.at]
        BY <1>1, <2>5 DEF Decoded
      <4>2. ex.at \in 0 .. IramSize - 1 /\ iram[ex.at].imm \in Nat
        BY <1>1, <2>5, Places DEF Pcs
      <4> QED BY <4>1, <4>2, Sizes, WrapOnce DEF Branch_PC
    <3> QED BY <3>1, <3>2, <3>3, <3>4
  <2> QED BY <1>1, <2>1, <2>3, <2>4, <2>5 DEF BehindBranch
<1> QED BY <1>4, <1>5

(* A program that leaves register 0 alone computes 0 for it at most. *)
LEMMA ZeroComputed ==
  ASSUME IInv, ZeroKept, Scheduled, ex.control.RegWrite, ex_wreg_addr = 0
  PROVE  ALU_internal = 0 /\ ~ex.control.MemToReg
<1>1. ex.instruction = Nop
  <2>1. CASE ex.at = None
    BY <2>1 DEF IInv, Decoded
  <2>2. CASE ex.at # None
    <3>1. ex.at \in Pcs
      BY <2>2 DEF IInv, TypeOK
    <3>2. ex.instruction.op \in {"rformat", "lw"}
      BY <2>2, Decoding, ControlFields
    <3>3. Destination(ex.instruction) = 0
      BY <2>2, <3>2, Decoding, ControlFields DEF ex_wreg_addr, Destination
    <3> QED BY <2>2, <3>1, <3>2, <3>3, Decoding DEF Scheduled
  <2> QED BY <2>1, <2>2
<1>2. ex.control = Control(Nop)
  BY <1>1, NoControlFields DEF IInv, TypeOK
<1>3. ex.register_rs = 0 /\ ex.register_rt = 0
  BY <1>1 DEF ZeroKept, Nop
<1>4. Ainput = 0 /\ Binput = 0
  BY <1>1, <1>2, <1>3, ControlFields DEF Ainput, Binput, Forwarded, FromMem, FromWb, Nop
<1>5. ALU_ctl = {1}
  BY <1>1, <1>2, ControlFields DEF ALU_ctl, Nop
<1>6. ALU_internal = (0 + 0) % WordSize
  BY <1>4, <1>5 DEF ALU_internal
<1> QED BY <1>1, <1>2, <1>6, ControlFields, Sizes DEF Nop

LEMMA ZeroKeptStep ==
  ASSUME IInv, ZeroKept, Scheduled, Clock
  PROVE  ZeroKept'
<1>1. register_array'[0] = 0
  <2>1. /\ wb'.control = mem.control /\ wb'.wreg_addr = mem.wreg_addr
        /\ wb'.alu_result = mem.alu_result
    BY DEF Clock, MemWb
  <2>2. 0 \in Regs /\ register_array \in [Regs -> Word]
    BY Sizes DEF IInv, TypeOK, Regs
  <2>3. CASE mem.control.RegWrite /\ mem.wreg_addr = 0
    BY <2>1, <2>2, <2>3 DEF Clock, RegisterFile, WriteData, ZeroKept
  <2>4. CASE ~(mem.control.RegWrite /\ mem.wreg_addr = 0)
    BY <2>1, <2>2, <2>4 DEF Clock, RegisterFile, ZeroKept
  <2> QED BY <2>3, <2>4
<1>2. mem'.control.RegWrite /\ mem'.wreg_addr = 0 => mem'.alu_result = 0 /\ ~mem'.control.MemToReg
  BY ZeroComputed DEF Clock, ExMem
<1>3. (ex'.instruction.rs = 0 => ex'.register_rs = 0) /\ (ex'.instruction.rt = 0 => ex'.register_rt = 0)
  <2>1. CASE pc_Stall
    BY <2>1 DEF Clock, IdEx, Bubble
  <2>2. CASE ~pc_Stall
    BY <2>2 DEF Clock, IdEx, ZeroKept
  <2> QED BY <2>1, <2>2
<1> QED BY <1>1, <1>2, <1>3 DEF ZeroKept

(* On its path a scheduled program meets none of the four hazards. *)
LEMMA NoHazard ==
  ASSUME IInv, Path, Scheduled
  PROVE  ~Hazard
<1> DEFINE x == ex.instruction
<1>1. ~ReadsWrittenZero
  BY DEF Path, ZeroKept, ReadsWrittenZero
<1>2. /\ PC \in Pcs /\ id.at \in Pcs \cup {None} /\ ex.at \in Pcs \cup {None}
      /\ mem.at \in Pcs \cup {None} /\ wb.at \in Pcs \cup {None} /\ None \notin Pcs
  BY Places DEF IInv
<1>3. ex.at = None => x.op = "rformat" /\ ~ex.control.MemWrite
  BY Idle DEF IInv, Decoded, Nop
<1>4. ex.at # None => x = iram[ex.at] /\ ex.control = Control(x) /\ x.op \in {"rformat", "lw", "sw", "beq"}
  BY Decoding
<1>5. ASSUME NEW r, FromMem(r)
      PROVE  mem.at # None /\ r = Destination(iram[mem.at]) /\ r # 0
  BY <1>5, ControlFields DEF FromMem, Path, MemAt, Names, Destination
<1>6. ASSUME NEW r, FromWb(r)
      PROVE  wb.at # None /\ r = Destination(iram[wb.at]) /\ r # 0
  BY <1>6, ControlFields DEF FromWb, Path, WbAt, Names, Destination
<1>7. ~UsesLoadTooEarly
  <2> SUFFICES ASSUME UsesLoadTooEarly PROVE FALSE
    OBVIOUS
  <2>1. ex.at # None /\ mem.at # None /\ iram[mem.at].op = "lw"
    BY <1>3, ControlFields DEF UsesLoadTooEarly, Path, MemAt
  <2>2. LoadsEarly(iram[mem.at], iram[ex.at])
    BY <1>2, <2>1 DEF Path, InOrder, Scheduled
  <2>3. x.op # "rformat" /\ (FromMem(x.rs) \/ (x.op = "beq" /\ FromMem(x.rt)))
    BY <1>4, <2>1, ControlFields DEF UsesLoadTooEarly
  <2> QED BY <1>4, <1>5, <2>1, <2>2, <2>3 DEF LoadsEarly, Destination
<1>8. ~StoresStaleData
  <2> SUFFICES ASSUME StoresStaleData PROVE FALSE
    OBVIOUS
  <2>1. ex.at # None /\ iram[ex.at].op = "sw" /\ x = iram[ex.at]
    BY <1>3, <1>4, ControlFields DEF StoresStaleData
  <2>2. CASE FromMem(x.rt)
    <3>1. mem.at # None /\ x.rt = Destination(iram[mem.at]) /\ x.rt # 0
      BY <1>5, <2>2
    <3>2. ComputesEarly(iram[mem.at], iram[ex.at])
      BY <1>2, <2>1, <3>1 DEF Path, InOrder, Scheduled
    <3> QED BY <2>1, <3>1, <3>2 DEF ComputesEarly
  <2>3. CASE FromWb(x.rt)
    <3>1. wb.at # None /\ x.rt = Destination(iram[wb.at]) /\ x.rt # 0
      BY <1>6, <2>3
    <3>2. ComputesEarly(iram[wb.at], iram[ex.at])
      <4>1. CASE mem.at = None
        BY <1>2, <2>1, <3>1, <4>1 DEF Path, InOrder, Scheduled
      <4>2. CASE mem.at # None
        BY <1>2, <2>1, <3>1, <4>2 DEF Path, InOrder, Scheduled
      <4> QED BY <4>1, <4>2
    <3> QED BY <2>1, <3>1, <3>2 DEF ComputesEarly
  <2> QED BY <2>2, <2>3 DEF StoresStaleData
<1>9. ~LosesBranch
  <2> SUFFICES ASSUME LosesBranch PROVE FALSE
    OBVIOUS
  <2>1. /\ mem.control.Branch /\ x.op = "lw" /\ id.instruction.op = "rformat"
        /\ ex_wreg_addr \in {id.instruction.rs, id.instruction.rt}
    BY DEF LosesBranch, PCSource, pc_Stall, load_to_use
  <2>2. ex.at # None /\ mem.at # None /\ iram[mem.at].op = "beq"
    BY <1>3, <2>1, ControlFields DEF Path, MemAt
  <2>3. id.at # None /\ id.instruction = iram[id.at] /\ id.at \in Followers(ex.at)
    BY <2>2 DEF IInv, Decoded, Path, InOrder
  <2>4. ex_wreg_addr = x.rt
    BY <1>4, <2>1, <2>2, ControlFields DEF ex_wreg_addr
  <2>5. NoStallBehindBranch(iram[mem.at], iram[ex.at], iram[id.at])
    BY <1>2, <2>2, <2>3 DEF Path, InOrder, Scheduled
  <2> QED BY <1>4, <2>1, <2>2, <2>3, <2>4, <2>5 DEF NoStallBehindBranch
<1> QED BY <1>1, <1>7, <1>8, <1>9 DEF Hazard

LEMMA PathStep == IInv /\ ScheduledInv /\ [Clock]_vars => ScheduledInv'
<1> SUFFICES ASSUME IInv, Scheduled => Path, [Clock]_vars, Scheduled' PROVE Path'
  BY DEF ScheduledInv
<1>1. iram' = iram
  BY DEF Clock, vars
<1>2. Scheduled
  BY <1>1 DEF Scheduled, NoBranchBehindBranch, Followers
<1>3. Path
  BY <1>2
<1>4. CASE UNCHANGED vars
  BY <1>3, <1>4 DEF vars, Path, MemAt, WbAt, InOrder, BehindBranch, ZeroKept, Followers, After
<1>5. CASE Clock
  <2>1. ~LosesBranch
    BY <1>2, <1>3, NoHazard DEF Hazard
  <2>2. MemAt' /\ WbAt'
    BY <1>3, <1>5, MemAtStep, WbAtStep DEF Path
  <2>3. InOrder' /\ BehindBranch' /\ ZeroKept'
    BY <1>2, <1>3, <1>5, <2>1, InOrderStep, BehindBranchStep, ZeroKeptStep DEF Path
  <2> QED BY <2>2, <2>3 DEF Path
<1> QED BY <1>4, <1>5

(* A program of any length that keeps the scheduling rules never meets one *)
(* of the four hazards, whatever its branches do.                          *)
THEOREM ScheduledIsExact == Spec => []ScheduledProgramsAreExact
<1>1. Init => ScheduledInv
  BY InitPath DEF ScheduledInv
<1>2. IInv /\ ScheduledInv => ScheduledProgramsAreExact
  BY NoHazard DEF ScheduledInv, ScheduledProgramsAreExact
<1> QED BY <1>1, <1>2, PathStep, Invariance, PTL DEF Spec

(* What the processor promises its programmer: a scheduled program is      *)
(* executed one instruction after the other.                               *)
THEOREM ScheduledRefinement == Spec /\ Scheduled => Seq1!Spec
<1>1. Scheduled /\ [Clock]_vars => Scheduled'
  <2> SUFFICES ASSUME Scheduled, [Clock]_vars PROVE Scheduled'
    OBVIOUS
  <2>1. iram' = iram
    BY DEF Clock, vars
  <2> QED BY <2>1 DEF Scheduled, NoBranchBehindBranch, Followers
<1>2. IInv /\ Scheduled /\ ScheduledProgramsAreExact /\ [Clock]_vars
        => [Seq1!Next]_<<iram, regs, dram, pcs>>
  BY RefinementStep DEF ScheduledProgramsAreExact
<1>3. Spec /\ Scheduled => Seq1!Init /\ [][Seq1!Next]_<<iram, regs, dram, pcs>>
  BY <1>1, <1>2, RefinementInit, Invariance, ScheduledIsExact, PTL DEF Spec
<1> QED BY <1>3 DEF Seq1!Spec, Seq1!vars
=============================================================================
