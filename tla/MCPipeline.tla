----------------------------- MODULE MCPipeline -----------------------------
(***************************************************************************)
(* Small instances of the pipeline for TLC: the instructions the memory    *)
(* may return, in any order and at any address.                            *)
(***************************************************************************)
EXTENDS PipelineHistory

Inst(kind, dest, flag) == [kind |-> kind, dest |-> dest, flag |-> flag]

AlignedLoad    == Inst("load", 0, TRUE)
MisalignedLoad == Inst("load", 0, FALSE)
EnableMie      == Inst("csr_mie", 0, TRUE)
Mret           == Inst("mret", 0, FALSE)
Ecall          == Inst("ecall", 0, FALSE)
JumpTo(p)      == Inst("jump", p, FALSE)

\* Everything but interrupts and the instructions that trap unnoticed.
SequentialInsts ==
  {Nop, AlignedLoad, MisalignedLoad, EnableMie, Inst("csr_mepc", 2, FALSE),
   Mret, Ecall, Inst("bad_sys", 0, FALSE), JumpTo(0), JumpTo(3)}

InterruptInsts == {Nop, AlignedLoad, EnableMie, Inst("csr_mpp", 0, TRUE), Mret, JumpTo(0)}

PendingInsts == {Nop, Mret}

IllegalInsts == {Nop, Inst("illegal", 0, FALSE), EnableMie}
=============================================================================
