---------------------------- MODULE MemoryStage ----------------------------
(***************************************************************************)
(* The memory stage (src/vsrc/src/memory/memory.sv, visit_memory.sv): one  *)
(* bus request for each memory instruction whose address is aligned, and   *)
(* an exception for the others.                                            *)
(*                                                                         *)
(* dreq.valid rises and falls with waiting, so dwaiting stands for both.   *)
(***************************************************************************)
EXTENDS Instructions

VARIABLES
  dwaiting, \* visit_memory.waiting, and dreq.valid
  started,  \* cur_mem_op_started
  memSeen   \* last_inst_count, the number seen in ex_mem one cycle ago

memoryVars == <<dwaiting, started, memSeen>>

MemoryTypeOK ==
  /\ dwaiting \in BOOLEAN
  /\ started \in BOOLEAN
  /\ memSeen \in Counters

\* started and memSeen are not reset; they power up as zero.
MemoryInit ==
  /\ dwaiting = FALSE
  /\ started = FALSE
  /\ memSeen = 0

MemoryOk(ex) == ~dwaiting /\ memSeen = ex.ctr

\* A misaligned access traps instead of the trap the instruction came with.
MemoryResult(ex) ==
  [ex EXCEPT !.trap = IF IsMemory(ex.inst) /\ ~AlignOk(ex.inst) THEN Exception ELSE @]

Issues(ex) == AlignOk(ex.inst) /\ ~dwaiting /\ ~started

Answered(ex, dresp) == AlignOk(ex.inst) /\ ~Issues(ex) /\ dresp /\ started

\* Mutant: cur_mem_op_started is not cleared when the access advances.
MemoryStepStaysStarted(advance, ex, dresp) ==
  /\ memSeen' = ex.ctr
  /\ dwaiting' = IF Issues(ex) THEN TRUE ELSE IF Answered(ex, dresp) THEN FALSE ELSE dwaiting
  /\ started' = (Issues(ex) \/ started)

\* Nothing but the number moves unless ex_mem holds an aligned memory access.
\* An access that advances frees the stage for the next one, unless it issues.
MemoryStep(advance, ex, dresp) ==
  /\ memSeen' = ex.ctr
  /\ dwaiting' = IF Issues(ex) THEN TRUE ELSE IF Answered(ex, dresp) THEN FALSE ELSE dwaiting
  /\ started' = IF Issues(ex) THEN TRUE ELSE IF AlignOk(ex.inst) /\ advance THEN FALSE ELSE started
=============================================================================
