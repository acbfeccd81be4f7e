------------------------- MODULE PipelineProperties -------------------------
(***************************************************************************)
(* The correctness properties of the pipeline control.                     *)
(***************************************************************************)
EXTENDS Pipeline

(***************************************************************************)
(* The sequential machine the pipeline implements. An instruction counts   *)
(* as executed when the CSR unit acts on it, one cycle after it enters     *)
(* mem_wb; the mode register follows another cycle later.                  *)
(***************************************************************************)
\* Where the last executed instruction sends the program, until fetch follows.
LastRedirect ==
  IF mem_wb.ctr # wb_commit.ctr THEN Redirect(mem_wb, mode, mie) ELSE wb_commit.jump

\* The address of the oldest instruction that has not been executed.
ArchNext ==
  IF csrSeen # mem_wb.ctr THEN mem_wb.pc
  ELSE IF csrSeen # ex_mem.ctr THEN ex_mem.pc
  ELSE IF csrSeen # id_ex.ctr THEN id_ex.pc
  ELSE IF csrSeen # if_id.ctr THEN if_id.pc
  ELSE IF csrSeen # fout.ctr THEN fout.pc
  ELSE IF waiting THEN lastPc
  ELSE IF LastRedirect.taken THEN LastRedirect.dest ELSE Plus4(fpc)

ArchMode == IF update THEN newMode ELSE mode

Sequential == INSTANCE SequentialCore
  WITH npc <- ArchNext, serial <- csrSeen, mode <- ArchMode

\* The pipeline executes a program as the sequential machine does, whatever
\* the buses' delays (riscv.sv, fetch.sv, csr.sv).
ImplementsSequential == Sequential!Spec

\* And it never stops doing so: no instruction waits for ever for a stage, a bus or
\* the commit that ends a stall (fetch.sv:75-161, memory.sv:130, commit.sv:28-43).
KeepsExecuting == Sequential!Fairness

(***************************************************************************)
(* Stalling.                                                               *)
(***************************************************************************)
\* The registers an instruction passes before it reaches wb_commit.
BeforeCommit == {fout, if_id, id_ex, ex_mem, mem_wb}

\* What the fetch unit stops behind: an instruction it stalls on and a fake
\* no-operation with a trap. (Any other illegal instruction traps unnoticed.)
Serializes(e) ==
  StallsFetch(e.inst) \/ (e.trap.valid /\ e.inst.kind # "illegal")

\* While such an instruction is on its way to commit, nothing younger is fetched
\* or in the pipeline: nothing has to be flushed when it redirects the program
\* (fetch.sv:75-113, 140-161; docs/lab3.md:25).
NothingBehindStall ==
  \A e \in BeforeCommit : Serializes(e) => e.ctr = counter /\ ~waiting

\* The instruction and the data port never have a request out together, so the
\* arbiter's choice between them never delays one for the other
\* (fetch.sv:131, visit_memory.sv:55, CBusArbiter.sv:60-69).
BusExclusive == ~(waiting /\ dwaiting)

\* The privilege mode and mstatus.MIE never change under a bus request: the MMU
\* and the interrupt test of the fetch unit read them when they like.
ModeStableUnderRequest ==
  [][mode' # mode \/ mie' # mie => ~waiting' /\ ~dwaiting' /\ ~waiting /\ ~dwaiting]_vars

\* Numbers commit one after the other, each with a pulse one cycle wide
\* (commit.sv:28-43; docs/lab3.md:75 claims just this).
CommitOnce ==
  [][/\ wb_commit'.ctr \in {wb_commit.ctr, Succ(wb_commit.ctr)}
     /\ CommitValid(wb_commit) => ~CommitValid(wb_commit)']_vars

(***************************************************************************)
(* The pipeline as a chain of numbers.                                     *)
(*                                                                         *)
(* Walking from wb_commit back to the fetch unit, a register has the       *)
(* number of the register before it or the next one. If it has the same    *)
(* number it is a bubble (or was shifted on already), which the fetch unit *)
(* never stops behind. So when wb_commit has the number of the youngest    *)
(* instruction nothing is left in between, provided the counter cannot     *)
(* wrap within the five registers: that is what its width is for.          *)
(***************************************************************************)
Follows(e, older) ==
  \/ e.ctr = older.ctr /\ ~Serializes(e)
  \/ e.ctr = Succ(older.ctr)

Chain ==
  /\ Follows(mem_wb, wb_commit)
  /\ Follows(ex_mem, mem_wb)
  /\ Follows(id_ex, ex_mem)
  /\ Follows(if_id, id_ex)
  /\ Follows(fout, if_id)
  /\ fout.ctr = counter

\* The fetch unit is stopped behind everything it must stop behind.
Stopped ==
  /\ waiting => fout.ctr = if_id.ctr
  /\ \A e \in BeforeCommit : Serializes(e) => e.ctr = counter /\ ~waiting /\ stall
  /\ stall => awokener = counter

\* The access of a memory instruction begins in the first cycle it spends in
\* the memory stage, and cur_mem_op_started is never left over from another.
Access ==
  /\ dwaiting => started
  /\ started => AlignOk(ex_mem.inst)
  /\ AlignOk(ex_mem.inst) /\ memSeen = ex_mem.ctr => started

(***************************************************************************)
(* Interrupts.                                                             *)
(***************************************************************************)
InterruptActs == csrSeen # mem_wb.ctr /\ mem_wb.trap.valid /\ ~mem_wb.trap.exc

\* The writeback stage lets interrupts through without a look at mstatus, since
\* the fetch unit looked several cycles before: nothing has closed the gate
\* since (writeback.sv:69, fetch.sv:76-77).
InterruptStillAllowed == InterruptActs => mode = "U" \/ mie
=============================================================================
