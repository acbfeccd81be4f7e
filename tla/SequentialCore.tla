--------------------------- MODULE SequentialCore ---------------------------
(***************************************************************************)
(* What the pipeline promises to a program: it looks as if instructions    *)
(* were executed one after the other, each one completely, starting where  *)
(* the one before it said. There is no clock, no bus and no pipeline here. *)
(*                                                                         *)
(* Exceptions follow the rule of writeback.sv: in M mode with mstatus.MIE  *)
(* clear they are masked and the program falls through, except that ecall  *)
(* has updated the CSRs; after a masked misaligned jump target execution   *)
(* resumes at some aligned address.                                        *)
(***************************************************************************)
EXTENDS Instructions

VARIABLES
  npc,    \* address of the next instruction
  serial, \* number of the last one, modulo CounterMod
  mode, mie, mpie, mpp, mepc

vars == <<npc, serial, mode, mie, mpie, mpp, mepc>>

\* Saved address of a trap, with the exception csr.sv makes.
SavedPc(p) == IF p = PatchedPc THEN Plus4(p) ELSE p

Init ==
  /\ npc = PcInit
  /\ serial = 0
  /\ mode = "M" /\ mie = FALSE /\ mpie = FALSE /\ mpp = "U" /\ mepc = 0

Masked == mode = "M" /\ ~mie

EnterTrap ==
  /\ mode' = "M" /\ mpp' = mode
  /\ mpie' = mie /\ mie' = FALSE
  /\ mepc' = SavedPc(npc)

Raises(i) == (IsMemory(i) /\ ~AlignOk(i)) \/ IsIllegal(i) \/ i.kind = "ecall"

TrapTaken(i) ==
  /\ Raises(i) \/ ~Aligned(npc)
  /\ ~Masked
  /\ EnterTrap
  /\ npc' = Mtvec

MaskedException(i) ==
  /\ Aligned(npc)
  /\ Raises(i)
  /\ Masked
  /\ IF i.kind = "ecall" THEN EnterTrap ELSE UNCHANGED <<mode, mie, mpie, mpp, mepc>>
  /\ npc' = Plus4(npc)

MaskedTarget ==
  /\ ~Aligned(npc)
  /\ Masked
  /\ \E p \in Pcs : Aligned(p) /\ npc' = p
  /\ UNCHANGED <<mode, mie, mpie, mpp, mepc>>

FallThrough(i) ==
  /\ Aligned(npc)
  /\ ~Raises(i) /\ ~IsJump(i)
  /\ mie' = IF i.kind = "csr_mie" THEN i.flag ELSE mie
  /\ mpie' = IF i.kind = "csr_mpie" THEN i.flag ELSE mpie
  /\ mpp' = IF i.kind = "csr_mpp" THEN MppWritten(i) ELSE mpp
  /\ mepc' = IF i.kind = "csr_mepc" THEN i.dest ELSE mepc
  /\ npc' = Plus4(npc)
  /\ UNCHANGED mode

TakeJump(i) ==
  /\ Aligned(npc)
  /\ i.kind = "jump"
  /\ npc' = i.dest
  /\ UNCHANGED <<mode, mie, mpie, mpp, mepc>>

Mret(i) ==
  /\ Aligned(npc)
  /\ i.kind = "mret"
  /\ npc' = mepc
  /\ mode' = mpp /\ mpp' = "U"
  /\ mie' = mpie /\ mpie' = TRUE
  /\ UNCHANGED mepc

Step ==
  /\ serial' = Succ(serial)
  /\ \/ MaskedTarget
     \/ \E i \in Insts : \/ TrapTaken(i)
                         \/ MaskedException(i)
                         \/ FallThrough(i)
                         \/ TakeJump(i)
                         \/ Mret(i)

Spec == Init /\ [][Step]_vars

\* The program never stops.
Fairness == WF_vars(Step)
=============================================================================
