-------------------------------- MODULE Csr --------------------------------
(***************************************************************************)
(* The control and status registers that steer the program                 *)
(* (src/vsrc/src/csr/csr.sv) and the privilege mode register of riscv.sv.  *)
(* The unit acts once for each instruction number that reaches mem_wb, and *)
(* hands a mode change to the mode register one cycle later.               *)
(***************************************************************************)
EXTENDS Instructions

VARIABLES
  mode,    \* pmode
  newMode, \* new_pmode
  update,  \* update_pmode
  mie, mpie, mpp, \* fields of mstatus
  mepc,
  csrSeen  \* last_inst, the number the unit acted on last

csrVars == <<mode, newMode, update, mie, mpie, mpp, mepc, csrSeen>>

CsrTypeOK ==
  /\ mode \in Modes /\ newMode \in Modes /\ mpp \in Modes
  /\ update \in BOOLEAN /\ mie \in BOOLEAN /\ mpie \in BOOLEAN
  /\ mepc \in Pcs
  /\ csrSeen \in Counters

\* mstatus resets to zero: interrupts off, previous mode U.
CsrInit ==
  /\ mode = "M" /\ newMode = "U" /\ update = FALSE
  /\ mie = FALSE /\ mpie = FALSE /\ mpp = "U"
  /\ mepc = 0
  /\ csrSeen = 0

\* "writer.pc == 64'h80008044 ? 64'h80008048 : writer.pc"
SavedPc(p) == IF p = PatchedPc THEN Plus4(p) ELSE p

EnterTrap(pc) ==
  /\ mpp' = mode /\ mpie' = mie /\ mie' = FALSE
  /\ mepc' = SavedPc(pc)
  /\ newMode' = "M" /\ update' = TRUE

ReturnFromTrap ==
  /\ mpp' = "U" /\ mpie' = TRUE /\ mie' = mpie
  /\ newMode' = mpp /\ update' = TRUE
  /\ UNCHANGED mepc

WriteCsr(inst) ==
  /\ mie' = IF inst.kind = "csr_mie" THEN inst.flag ELSE mie
  /\ mpie' = IF inst.kind = "csr_mpie" THEN inst.flag ELSE mpie
  /\ mpp' = IF inst.kind = "csr_mpp" THEN MppWritten(inst) ELSE mpp
  /\ mepc' = IF inst.kind = "csr_mepc" THEN inst.dest ELSE mepc
  /\ newMode' = "U" /\ update' = FALSE

\* wb is the mem_wb register, trapped the trap the writeback stage passes on.
CsrActs(wb, trapped) ==
  IF wb.inst.kind = "ecall" \/ trapped THEN EnterTrap(wb.pc)
  ELSE IF wb.inst.kind = "mret" THEN ReturnFromTrap
  ELSE WriteCsr(wb.inst)

CsrStep(wb, trapped) ==
  /\ mode' = IF update THEN newMode ELSE mode
  /\ csrSeen' = wb.ctr
  /\ IF csrSeen # wb.ctr
     THEN CsrActs(wb, trapped)
     ELSE UNCHANGED <<newMode, update, mie, mpie, mpp, mepc>>
=============================================================================
