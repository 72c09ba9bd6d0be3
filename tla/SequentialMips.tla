--------------------------- MODULE SequentialMips ---------------------------
(***************************************************************************)
(* What the pipeline promises: a machine that executes one instruction at  *)
(* a time.  It knows add, sub, and, or, lw, sw and beq; register 0 reads   *)
(* as zero; the three instructions behind a branch are executed whether it *)
(* is taken or not, so the machine holds the next four addresses to fetch. *)
(***************************************************************************)
EXTENDS Naturals, Sequences

CONSTANTS
  NumRegs, WordSize, WordBytes, DramSize, IramSize,
  BitAnd(_, _), BitOr(_, _)   \* and, or of two words

Word == 0 .. WordSize - 1
Regs == 0 .. NumRegs - 1
Pcs  == 0 .. IramSize - 1

(* The function fields, each as the set of its bits that are 1. *)
AddF == {5}
SubF == {5, 1}
AndF == {5, 2}
OrF  == {5, 2, 0}

VARIABLES
  program,   \* the instruction memory
  regs,      \* the registers
  memory,    \* the data memory
  pcs        \* the next four addresses to execute

vars == <<program, regs, memory, pcs>>

Reg(r) == IF r = 0 THEN 0 ELSE regs[r]

Address(i) == (((Reg(i.rs) + i.imm) % WordSize) \div WordBytes) % DramSize

Apply(f, a, b) ==
  CASE f = SubF -> (a + WordSize - b) % WordSize
    [] f = AndF -> BitAnd(a, b)
    [] f = OrF  -> BitOr(a, b)
    [] OTHER    -> (a + b) % WordSize

Put(r, v) == regs' = [regs EXCEPT ![r] = IF r = 0 THEN 0 ELSE v]

(* The addresses to execute once the first of them is done; `last` comes   *)
(* after the third instruction behind it.                                  *)
Go(last) == pcs' = Append(Tail(pcs), last)

Sequel == (pcs[4] + 1) % IramSize

Rformat(i) ==
  /\ i.op = "rformat"
  /\ Put(i.rd, Apply(i.funct, Reg(i.rs), Reg(i.rt)))
  /\ Go(Sequel)
  /\ UNCHANGED <<program, memory>>

Load(i) ==
  /\ i.op = "lw"
  /\ Put(i.rt, memory[Address(i)])
  /\ Go(Sequel)
  /\ UNCHANGED <<program, memory>>

Store(i) ==
  /\ i.op = "sw"
  /\ memory' = [memory EXCEPT ![Address(i)] = Reg(i.rt)]
  /\ Go(Sequel)
  /\ UNCHANGED <<program, regs>>

Branch(i) ==
  /\ i.op = "beq"
  /\ Go(IF Reg(i.rs) = Reg(i.rt) THEN (pcs[1] + 1 + i.imm) % IramSize ELSE Sequel)
  /\ UNCHANGED <<program, regs, memory>>

Init ==
  /\ regs \in [Regs -> Word]
  /\ memory \in [0 .. DramSize - 1 -> Word]
  /\ pcs = [n \in 1 .. 4 |-> (n - 1) % IramSize]

Next ==
  LET i == program[pcs[1]]
  IN  Rformat(i) \/ Load(i) \/ Store(i) \/ Branch(i)

Spec == Init /\ [][Next]_vars
=============================================================================
