-------------------------- MODULE PipelineHistory --------------------------
(***************************************************************************)
(* The pipeline with two history variables, for properties that relate an  *)
(* instruction to what happened to it earlier.                             *)
(***************************************************************************)
EXTENDS PipelineProperties

VARIABLES
  nextPc,  \* where the instruction executed last sends the program
  accesses \* bus requests issued for the instruction in ex_mem

historyVars == <<vars, nextPc, accesses>>

HistoryInit == Init /\ nextPc = PcInit /\ accesses = 0

\* The instruction in mem_wb is executed in this cycle.
Executes == csrSeen # mem_wb.ctr

\* A masked misaligned target leaves the fetch unit where it was.
NextOf(e) ==
  LET jump == Redirect(e, mode, mie)
  IN  IF jump.taken THEN jump.dest
      ELSE IF ~Aligned(e.pc) THEN Plus4(fpc)
      ELSE Plus4(e.pc)

Record ==
  /\ nextPc' = IF Executes THEN NextOf(mem_wb) ELSE nextPc
  /\ accesses' = IF UnifiedOk THEN 0 ELSE IF ~dwaiting /\ dwaiting' THEN accesses + 1 ELSE accesses

HistoryNext == Next /\ Record

HistorySpec == HistoryInit /\ [][HistoryNext]_historyVars
HistoryFairSpec == HistorySpec /\ Fairness

\* Every instruction that is executed is the one the instruction before it
\* leads to, also after interrupts.
ExecutesInOrder ==
  Executes /\ ~InterruptActs => mem_wb.pc = nextPc

\* A memory instruction leaves the memory stage after exactly one bus access,
\* every other instruction after none (visit_memory.sv, memory.sv:130).
AccessExactlyOnce ==
  UnifiedOk => accesses = IF AlignOk(ex_mem.inst) THEN 1 ELSE 0

\* An interrupt saves the address of the instruction to resume with: the next
\* one to execute.
InterruptSavesNext ==
  [][InterruptActs => mepc' = nextPc]_historyVars

\* An enabled line that stays high is handled, if interrupts are allowed again
\* and again.
PendingIsHandled ==
  \A l \in EnabledLines :
    <>[](l \in lines) /\ []<>(UnifiedOk /\ Awake(wb_commit.ctr) /\ mode = "U")
      => []<>(handling = l)
=============================================================================
