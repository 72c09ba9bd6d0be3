----------------------------- MODULE MCPipeline -----------------------------
(* The TLC runs of Pipeline. *)
EXTENDS PipelineProperties, Bitwise, TLC

MCAnd(a, b) == a & b
MCOr(a, b) == a | b

R(f, d, s, t) == [op |-> "rformat", rs |-> s, rt |-> t, rd |-> d, funct |-> f, imm |-> 0]
I(o, t, s, n) == [op |-> o, rs |-> s, rt |-> t, rd |-> 0, funct |-> {}, imm |-> n]

(* Producers and consumers of registers 1 and 2 of every kind, a write of  *)
(* register 0, and a branch.                                               *)
MCInstructions ==
  {Nop, R({5}, 1, 1, 2), R({5, 1}, 2, 1, 2), R({5, 2}, 1, 2, 1), R({5, 2, 0}, 0, 1, 2),
   I("lw", 1, 0, 2), I("lw", 2, 1, 0), I("sw", 1, 0, 0), I("beq", 2, 1, 1), I("beq", 1, 1, 3)}

MCRegisters == 0 :> 0 @@ 1 :> 1 @@ 2 :> 3
MCDram == 0 :> 2 @@ 1 :> 3
=============================================================================
