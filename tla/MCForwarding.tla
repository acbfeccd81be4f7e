---------------------------- MODULE MCForwarding ----------------------------
(***************************************************************************)
(* Two registers beside x0; every kind of writer and of reader.            *)
(***************************************************************************)
EXTENDS Forwarding

Inst(kind, rd, rs1, rs2, imm) == [kind |-> kind, rd |-> rd, rs1 |-> rs1, rs2 |-> rs2, imm |-> imm]

MCProgram ==
  {Inst("arith", 1, 1, 2, 1), Inst("arith", 2, 1, 0, 0), Inst("arith", 0, 2, 1, 1),
   Inst("auipc", 1, 0, 0, 2), Inst("load", 2, 1, 0, 1), Inst("store", 0, 2, 1, 0), Inst("link", 1, 2, 0, 0)}
=============================================================================
