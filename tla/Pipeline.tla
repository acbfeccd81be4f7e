------------------------------ MODULE Pipeline ------------------------------
(***************************************************************************)
(* The five stages and the commit stage on one clock                       *)
(* (src/vsrc/src/riscv.sv). A step of this specification is a rising clock *)
(* edge; every register changes in it. The pipeline registers move, all    *)
(* together, in the cycles in which every stage says it is ok.             *)
(*                                                                         *)
(* Outside are the instruction and the data bus, which answer a pending    *)
(* request in any later cycle, and the interrupt lines, which may change   *)
(* in every cycle.                                                         *)
(***************************************************************************)
EXTENDS Fetch, MemoryStage, Csr, Writeback

VARIABLES
  if_id, id_ex, ex_mem, mem_wb, wb_commit,
  lines \* the interrupt lines that are high

pipeVars == <<if_id, id_ex, ex_mem, mem_wb, wb_commit>>
vars == <<fetchVars, memoryVars, csrVars, writebackVars, pipeVars, lines>>

TypeOK ==
  /\ FetchTypeOK
  /\ MemoryTypeOK
  /\ CsrTypeOK
  /\ WritebackTypeOK
  /\ if_id \in Entries /\ id_ex \in Entries /\ ex_mem \in Entries /\ mem_wb \in Entries
  /\ wb_commit \in Commits
  /\ lines \subseteq Lines

(***************************************************************************)
(* The state after the reset pulse of core.sv. The pipeline registers have *)
(* no reset: they power up as zero, which reads as a bubble numbered 0.    *)
(***************************************************************************)
Init ==
  /\ FetchInit /\ MemoryInit /\ CsrInit /\ WritebackInit
  /\ if_id = ZeroEntry /\ id_ex = ZeroEntry /\ ex_mem = ZeroEntry /\ mem_wb = ZeroEntry
  /\ wb_commit = ZeroCommit
  /\ lines = {}

(***************************************************************************)
(* What the stages hand to the next pipeline register.                     *)
(***************************************************************************)
\* An illegal instruction traps here; mret reads its target, mepc, here.
Decode(e) ==
  [e EXCEPT !.trap = IF IsIllegal(e.inst) THEN Exception ELSE @,
            !.inst.dest = IF e.inst.kind = "mret" THEN mepc ELSE @]

Execute(e) == [e EXCEPT !.trap = IF e.inst.kind = "ecall" THEN Exception ELSE @]

Retired(e) == [inst |-> e.inst, pc |-> e.pc, ctr |-> e.ctr, jump |-> Redirect(e, mode, mie)]

Shift ==
  /\ if_id' = fout
  /\ id_ex' = Decode(if_id)
  /\ ex_mem' = Execute(id_ex)
  /\ mem_wb' = MemoryResult(ex_mem)
  /\ wb_commit' = Retired(mem_wb)

(***************************************************************************)
(* One clock edge.                                                         *)
(***************************************************************************)
UnifiedOk == FetchOk /\ MemoryOk(ex_mem) /\ wbOk /\ CommitOk(wb_commit)

\* The blocks that run in every cycle.
EveryCycle(dresp) ==
  /\ dresp => dwaiting
  /\ MemoryStep(UnifiedOk, ex_mem, dresp)
  /\ CsrStep(mem_wb, Trapped(mem_wb, mode, mie))
  /\ WritebackStep(mem_wb, wb_commit, mode, mie)
  /\ lines' \in SUBSET Lines

FetchAdvances ==
  \/ TakeInterrupt(lines, mode, mie, wb_commit.ctr)
  \/ TrapMisalignedTarget(wb_commit.jump, lines, mode, mie, wb_commit.ctr)
  \/ IssueFetch(wb_commit.jump, lines, mode, mie, wb_commit.ctr)
  \/ SendBubble(lines, wb_commit.ctr)

Advance ==
  /\ UnifiedOk
  /\ FetchAdvances
  /\ Shift
  /\ EveryCycle(FALSE)

\* The pipeline holds; buses may answer.
InstructionArrives ==
  /\ waiting
  /\ \E i \in Insts : Receive(i)
  /\ UNCHANGED pipeVars
  /\ \E dresp \in BOOLEAN : EveryCycle(dresp)

DataArrives ==
  /\ dwaiting
  /\ FetchHolds
  /\ UNCHANGED pipeVars
  /\ EveryCycle(TRUE)

Hold ==
  /\ ~UnifiedOk
  /\ FetchHolds
  /\ UNCHANGED pipeVars
  /\ EveryCycle(FALSE)

Next == Advance \/ InstructionArrives \/ DataArrives \/ Hold

Spec == Init /\ [][Next]_vars

(***************************************************************************)
(* The clock keeps ticking and both buses answer: every memory the core is *)
(* wired to answers each request after a bounded number of cycles.         *)
(***************************************************************************)
Fairness ==
  /\ WF_vars(Next)
  /\ WF_vars(InstructionArrives)
  /\ WF_vars(DataArrives)

FairSpec == Spec /\ Fairness
=============================================================================
