----------------------------- MODULE Writeback -----------------------------
(***************************************************************************)
(* The writeback stage (src/vsrc/src/writeback/writeback.sv) and the       *)
(* commit stage (src/vsrc/src/commit/commit.sv).                           *)
(*                                                                         *)
(* The combinational block of the writeback stage assigns csr.trap and     *)
(* wb_commit_state.jump on some paths only, so both are latches: on the    *)
(* other paths they keep what they last carried. trapLatch and jumpLatch   *)
(* are what they carried in the cycle before.                              *)
(***************************************************************************)
EXTENDS Instructions

VARIABLES
  wbOk,      \* _ok, which toggles every cycle
  trapLatch, \* csr.trap.trap_valid of the cycle before
  jumpLatch, \* wb_commit_state.jump of the cycle before
  commitSeen \* last_inst_counter of the commit stage

writebackVars == <<wbOk, trapLatch, jumpLatch, commitSeen>>

WritebackTypeOK ==
  /\ wbOk \in BOOLEAN
  /\ trapLatch \in BOOLEAN
  /\ jumpLatch \in Jumps
  /\ commitSeen \in Counters

WritebackInit ==
  /\ wbOk = TRUE
  /\ trapLatch = FALSE
  /\ jumpLatch = NoJump
  /\ commitSeen = 0

\* Exceptions are let through in U mode and, in M mode, while MIE is set;
\* interrupts, which the fetch unit has screened, always.
LetsTrapThrough(wb, mode, mie) ==
  \/ mode = "M" /\ mie
  \/ mode = "U"
  \/ ~wb.trap.exc /\ wb.inst.kind # "ecall"

\* csr.trap.trap_valid in this cycle.
Trapped(wb, mode, mie) ==
  wb.trap.valid /\ (LetsTrapThrough(wb, mode, mie) \/ trapLatch)

\* wb_commit_state.jump in this cycle.
Redirect(wb, mode, mie) ==
  IF ~wb.trap.valid THEN [taken |-> IsJump(wb.inst), dest |-> wb.inst.dest]
  ELSE IF LetsTrapThrough(wb, mode, mie) THEN [taken |-> TRUE, dest |-> Mtvec]
  ELSE jumpLatch

CommitOk(commit) == commitSeen = commit.ctr

\* The commit pulse difftest sees.
CommitValid(commit) == commitSeen # commit.ctr

\* Mutant: the commit stage notes the number only in cycles that are ok.
WritebackStepSlowCommit(wb, commit, mode, mie) ==
  /\ wbOk' = ~wbOk
  /\ trapLatch' = Trapped(wb, mode, mie)
  /\ jumpLatch' = Redirect(wb, mode, mie)
  /\ commitSeen' = IF wbOk THEN commit.ctr ELSE commitSeen

WritebackStep(wb, commit, mode, mie) ==
  /\ wbOk' = ~wbOk
  /\ trapLatch' = Trapped(wb, mode, mie)
  /\ jumpLatch' = Redirect(wb, mode, mie)
  /\ commitSeen' = commit.ctr
=============================================================================
