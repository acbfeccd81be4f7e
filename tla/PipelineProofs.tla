--------------------------- MODULE PipelineProofs ---------------------------
(***************************************************************************)
(* Theorems about the pipeline control, for every address space, counter   *)
(* width, instruction alphabet and set of interrupt lines.                 *)
(***************************************************************************)
EXTENDS PipelineHistory, TLAPS

(***************************************************************************)
(* Facts about the operators.                                              *)
(***************************************************************************)

\* Addresses stay in the address space (fetch.sv:113, 131).
LEMMA Plus4Type == ASSUME NEW p \in Pcs PROVE Plus4(p) \in Pcs
BY WordsAssumption DEF Plus4, Pcs

\* Counter values stay counter values (fetch.sv:92, 150).
LEMMA SuccType == ASSUME NEW c \in Counters PROVE Succ(c) \in Counters
BY CounterAssumption DEF Succ, Counters

\* Types of the constants the registers power up with.
LEMMA ZeroTypes ==
  /\ Nop \in InstRecords /\ NoTrap \in Traps /\ Exception \in Traps
  /\ NoJump \in Jumps /\ ZeroEntry \in Entries /\ ZeroCommit \in Commits
  /\ PcInit \in Pcs /\ BeforePcInit \in Pcs
BY WordsAssumption, CounterAssumption
   DEF Nop, InstRecords, Kinds, NoTrap, Exception, Traps, NoJump, Jumps, ZeroEntry, ZeroCommit,
       Entries, Commits, PcInit, BeforePcInit, Pcs, Counters

\* A stage hands on a well-formed record (decoder.sv, execute.sv, memory.sv).
LEMMA StageTypes ==
  ASSUME NEW e \in Entries, mepc \in Pcs
  PROVE  /\ Decode(e) \in Entries
         /\ Execute(e) \in Entries
         /\ MemoryResult(e) \in Entries
BY ZeroTypes DEF Decode, Execute, MemoryResult, Entries, InstRecords, Traps, Exception

\* So does the writeback stage (writeback.sv:66-86).
LEMMA RedirectType ==
  ASSUME NEW e \in Entries, NEW m, NEW i, jumpLatch \in Jumps
  PROVE  Redirect(e, m, i) \in Jumps
BY VectorAssumption DEF Redirect, Entries, Jumps, InstRecords, IsJump

(***************************************************************************)
(* Type correctness.                                                       *)
(***************************************************************************)
LEMMA InitType == Init => TypeOK
BY ZeroTypes, CounterAssumption
   DEF Init, FetchInit, MemoryInit, CsrInit, WritebackInit, TypeOK, FetchTypeOK, MemoryTypeOK,
       CsrTypeOK, WritebackTypeOK, ZeroEntry, Entries, Counters, Pcs, Modes

LEMMA EveryCycleType ==
  ASSUME TypeOK, NEW dresp \in BOOLEAN, EveryCycle(dresp)
  PROVE  MemoryTypeOK' /\ CsrTypeOK' /\ WritebackTypeOK' /\ lines' \subseteq Lines
<1>1. MemoryTypeOK'
  BY DEF TypeOK, EveryCycle, MemoryTypeOK, MemoryStep, Entries
<1>2. CsrTypeOK'
  BY Plus4Type DEF TypeOK, EveryCycle, CsrTypeOK, CsrStep, CsrActs, EnterTrap, ReturnFromTrap, WriteCsr, SavedPc, MppWritten,
     Entries, InstRecords, Modes
<1>3. WritebackTypeOK'
  BY RedirectType DEF TypeOK, EveryCycle, WritebackTypeOK, WritebackStep, Trapped, LetsTrapThrough, Entries,
     Commits, Traps
<1> QED BY <1>1, <1>2, <1>3 DEF EveryCycle

LEMMA ShiftType ==
  ASSUME TypeOK, Shift
  PROVE  /\ if_id' \in Entries /\ id_ex' \in Entries /\ ex_mem' \in Entries /\ mem_wb' \in Entries
         /\ wb_commit' \in Commits
<1>1. Retired(mem_wb) \in Commits
  BY RedirectType DEF TypeOK, WritebackTypeOK, Retired, Entries, Commits
<1> QED BY <1>1, StageTypes DEF Shift, TypeOK, FetchTypeOK, CsrTypeOK

LEMMA FetchAdvancesType == ASSUME TypeOK, FetchAdvances PROVE FetchTypeOK'
<1> USE SuccType, Plus4Type, ZeroTypes, LinesAssumption
    DEF TypeOK, FetchTypeOK, Entries, Traps, NoTrap, Exception, StillHandling
<1>1. CASE TakeInterrupt(lines, mode, mie, wb_commit.ctr)
  BY <1>1 DEF TakeInterrupt, NumberFakeNop, InterruptPending, FirstInterrupt
<1>2. CASE TrapMisalignedTarget(wb_commit.jump, lines, mode, mie, wb_commit.ctr)
  BY <1>2 DEF TrapMisalignedTarget, NumberFakeNop, Commits, Jumps
<1>3. CASE IssueFetch(wb_commit.jump, lines, mode, mie, wb_commit.ctr)
  BY <1>3 DEF IssueFetch, Commits, Jumps
<1>4. CASE SendBubble(lines, wb_commit.ctr)
  BY <1>4 DEF SendBubble
<1> QED BY <1>1, <1>2, <1>3, <1>4 DEF FetchAdvances

LEMMA ReceiveType == ASSUME TypeOK, NEW i \in Insts, Receive(i) PROVE FetchTypeOK'
<1>1. stall' \in BOOLEAN
  BY DEF Receive, StallsFetch
<1>2. Succ(counter) \in Counters
  BY SuccType DEF TypeOK, FetchTypeOK
<1>3. fout' \in Entries
  BY <1>2, ZeroTypes, InstsAssumption DEF TypeOK, FetchTypeOK, Receive, Entries
<1> QED BY <1>1, <1>2, <1>3 DEF TypeOK, FetchTypeOK, Receive

LEMMA NextType == ASSUME TypeOK, [Next]_vars PROVE TypeOK'
<1>1. CASE Advance
  BY <1>1, ShiftType, FetchAdvancesType, EveryCycleType DEF Advance, TypeOK
<1>2. CASE InstructionArrives
  BY <1>2, ReceiveType, EveryCycleType DEF InstructionArrives, TypeOK, pipeVars
<1>3. CASE DataArrives
  BY <1>3, EveryCycleType DEF DataArrives, TypeOK, pipeVars, FetchHolds, fetchVars, FetchTypeOK
<1>4. CASE Hold
  BY <1>4, EveryCycleType DEF Hold, TypeOK, pipeVars, FetchHolds, fetchVars, FetchTypeOK
<1>5. CASE UNCHANGED vars
  BY <1>5 DEF vars, fetchVars, memoryVars, csrVars, writebackVars, pipeVars, TypeOK, FetchTypeOK,
     MemoryTypeOK, CsrTypeOK, WritebackTypeOK
<1> QED BY <1>1, <1>2, <1>3, <1>4, <1>5 DEF Next

\* Every register keeps its type.
THEOREM TypeCorrect == Spec => []TypeOK
<1>1. Init => TypeOK BY InitType
<1>2. TypeOK /\ [Next]_vars => TypeOK' BY NextType
<1> QED BY <1>1, <1>2, PTL DEF Spec

(***************************************************************************)
(* The inductive invariant.                                                *)
(***************************************************************************)
PipeInv == TypeOK /\ Chain /\ Stopped /\ Access

\* Five registers behind wb_commit cannot go once round the counter, so a
\* youngest instruction numbered like wb_commit leaves no other in between.
LEMMA NoWrap ==
  ASSUME NEW a \in Counters, NEW b \in Counters, NEW c \in Counters,
         NEW d \in Counters, NEW e \in Counters, NEW f \in Counters,
         b = a \/ b = Succ(a), c = b \/ c = Succ(b), d = c \/ d = Succ(c),
         e = d \/ e = Succ(d), f = e \/ f = Succ(e), f = a
  PROVE  b = a /\ c = a /\ d = a /\ e = a
BY CounterAssumption, SMTT(30) DEF Succ, Counters

\* Two neighbouring numbers differ (commit.sv:37, memory.sv:130).
LEMMA SuccDiffers == ASSUME NEW c \in Counters PROVE Succ(c) # c
BY CounterAssumption DEF Succ, Counters

\* When the awaited number commits, the registers before wb_commit are bubbles.
LEMMA Drained ==
  ASSUME TypeOK, Chain, wb_commit.ctr = counter
  PROVE  /\ \A e \in BeforeCommit : e.ctr = counter /\ ~Serializes(e)
         /\ fout.ctr = if_id.ctr
<1>1. /\ wb_commit.ctr \in Counters /\ mem_wb.ctr \in Counters /\ ex_mem.ctr \in Counters
      /\ id_ex.ctr \in Counters /\ if_id.ctr \in Counters /\ fout.ctr \in Counters
  BY DEF TypeOK, FetchTypeOK, Entries, Commits
<1>2. /\ mem_wb.ctr = counter /\ ex_mem.ctr = counter /\ id_ex.ctr = counter
      /\ if_id.ctr = counter /\ fout.ctr = counter
  BY <1>1, NoWrap DEF Chain, Follows
<1> QED BY <1>1, <1>2, SuccDiffers DEF Chain, Follows, BeforeCommit

\* No stage makes or hides an instruction the fetch unit stops behind, nor
\* touches its number: the traps that decode, execute and memory raise belong to
\* instructions it stalls on already, or to the illegal ones it does not know.
LEMMA StagesKeepNumbers ==
  ASSUME NEW e \in Entries, mepc \in Pcs
  PROVE  /\ Decode(e).ctr = e.ctr /\ Execute(e).ctr = e.ctr /\ MemoryResult(e).ctr = e.ctr
         /\ Serializes(Decode(e)) <=> Serializes(e)
         /\ Serializes(Execute(e)) <=> Serializes(e)
         /\ Serializes(MemoryResult(e)) <=> Serializes(e)
BY DEF Decode, Execute, MemoryResult, Serializes, StallsFetch, IsIllegal, IsMemory, AlignOk, Exception,
   Entries, InstRecords, Traps

\* The fetch unit only goes on when nothing it must stop behind is left.
LEMMA AwakeMeansFree ==
  ASSUME TypeOK, Chain, Stopped, Awake(wb_commit.ctr)
  PROVE  \A e \in BeforeCommit : ~Serializes(e)
BY Drained DEF Awake, Stopped

LEMMA InitInv == Init => PipeInv
<1> SUFFICES ASSUME Init PROVE PipeInv
  OBVIOUS
<1>1. TypeOK
  BY InitType
<1>2. \A e \in BeforeCommit : ~Serializes(e) /\ e.ctr = 0
  BY DEF Init, FetchInit, BeforeCommit, Serializes, StallsFetch, ZeroEntry, Nop, NoTrap
<1>3. Chain
  BY <1>2 DEF Chain, Follows, BeforeCommit, Init, FetchInit, ZeroCommit
<1>4. Stopped /\ Access
  BY <1>2 DEF Stopped, Access, Init, FetchInit, MemoryInit, ZeroEntry, Nop, AlignOk, IsMemory
<1> QED BY <1>1, <1>3, <1>4 DEF PipeInv

\* Moving all registers at once keeps the order of the numbers.
LEMMA ShiftChain ==
  ASSUME TypeOK, Chain, Shift
  PROVE  /\ Follows(mem_wb', wb_commit') /\ Follows(ex_mem', mem_wb')
         /\ Follows(id_ex', ex_mem') /\ Follows(if_id', id_ex')
<1>1. fout \in Entries /\ if_id \in Entries /\ id_ex \in Entries /\ ex_mem \in Entries /\ mepc \in Pcs
  BY DEF TypeOK, FetchTypeOK, CsrTypeOK
<1>2. wb_commit'.ctr = mem_wb.ctr
  BY DEF Shift, Retired
<1>3. /\ mem_wb'.ctr = ex_mem.ctr /\ (Serializes(mem_wb') <=> Serializes(ex_mem))
      /\ ex_mem'.ctr = id_ex.ctr /\ (Serializes(ex_mem') <=> Serializes(id_ex))
      /\ id_ex'.ctr = if_id.ctr /\ (Serializes(id_ex') <=> Serializes(if_id))
      /\ if_id' = fout
  BY <1>1, StagesKeepNumbers DEF Shift
<1> QED BY <1>2, <1>3 DEF Chain, Follows

\* What the registers behind the fetch unit hold after an edge came from the
\* registers before them.
LEMMA ShiftSerializes ==
  ASSUME TypeOK, Shift, NEW e \in {if_id', id_ex', ex_mem', mem_wb'}, Serializes(e)
  PROVE  \E o \in BeforeCommit : Serializes(o) /\ e.ctr = o.ctr
<1>1. fout \in Entries /\ if_id \in Entries /\ id_ex \in Entries /\ ex_mem \in Entries /\ mepc \in Pcs
  BY DEF TypeOK, FetchTypeOK, CsrTypeOK
<1> QED BY <1>1, StagesKeepNumbers DEF Shift, BeforeCommit

\* The three branches that go on, and the bubble.
LEMMA FetchAdvancesInv ==
  ASSUME PipeInv, UnifiedOk, FetchAdvances, Shift
  PROVE  Chain' /\ Stopped'
<1>1. TypeOK /\ Chain /\ Stopped /\ ~waiting
  BY DEF PipeInv, UnifiedOk, FetchOk
<1>2. /\ fout.ctr = counter /\ if_id' = fout /\ fout \in BeforeCommit /\ counter \in Counters
      /\ \A e \in {if_id', id_ex', ex_mem', mem_wb'} :
           Serializes(e) => \E o \in BeforeCommit : Serializes(o) /\ e.ctr = o.ctr
  BY <1>1, ShiftSerializes DEF Chain, Shift, BeforeCommit, TypeOK, FetchTypeOK
<1>3. BeforeCommit' = {fout', if_id', id_ex', ex_mem', mem_wb'}
  BY DEF BeforeCommit
<1>4. SUFFICES Follows(fout', if_id') /\ fout'.ctr = counter' /\ Stopped'
  BY <1>1, ShiftChain DEF Chain
<1>5. ASSUME NEW trap \in Traps, NEW pc, trap.valid, NumberFakeNop(trap, pc), Awake(wb_commit.ctr)
      PROVE  Follows(fout', if_id') /\ fout'.ctr = counter' /\ Stopped'
  <2>1. /\ fout'.ctr = Succ(fout.ctr) /\ counter' = fout'.ctr
        /\ stall' /\ awokener' = counter' /\ ~waiting'
    BY <1>1, <1>2, <1>5 DEF NumberFakeNop
  <2>2. \A e \in {if_id', id_ex', ex_mem', mem_wb'} : ~Serializes(e)
    BY <1>1, <1>2, <1>5, AwakeMeansFree
  <2> QED BY <1>2, <1>3, <2>1, <2>2 DEF Follows, Stopped
<1>6. CASE TakeInterrupt(lines, mode, mie, wb_commit.ctr)
  <2>1. [valid |-> TRUE, exc |-> fout.trap.exc] \in Traps
    BY <1>1 DEF TypeOK, FetchTypeOK, Entries, Traps
  <2> QED BY <1>5, <1>6, <2>1 DEF TakeInterrupt
<1>7. CASE TrapMisalignedTarget(wb_commit.jump, lines, mode, mie, wb_commit.ctr)
  <2>1. Exception \in Traps /\ Exception.valid
    BY DEF Exception, Traps
  <2> QED BY <1>5, <1>7, <2>1 DEF TrapMisalignedTarget
<1>8. CASE IssueFetch(wb_commit.jump, lines, mode, mie, wb_commit.ctr)
  <2>1. \A e \in {fout, if_id', id_ex', ex_mem', mem_wb'} : ~Serializes(e)
    BY <1>1, <1>2, <1>8, AwakeMeansFree DEF IssueFetch
  <2>2. fout'.inst = fout.inst /\ ~fout'.trap.valid /\ fout'.ctr = fout.ctr
    BY <1>1, <1>8 DEF IssueFetch, NoTrap, TypeOK, FetchTypeOK, Entries
  <2>3. ~Serializes(fout')
    BY <2>1, <2>2 DEF Serializes
  <2>4. counter' = counter /\ ~stall'
    BY <1>8 DEF IssueFetch
  <2> QED BY <1>2, <1>3, <2>1, <2>2, <2>3, <2>4 DEF Follows, Stopped
<1>9. CASE SendBubble(lines, wb_commit.ctr)
  <2>1. fout'.inst = Nop /\ ~fout'.trap.valid /\ fout'.ctr = fout.ctr
    BY <1>1, <1>9 DEF SendBubble, NoTrap, TypeOK, FetchTypeOK, Entries
  <2>2. ~Serializes(fout')
    BY <2>1 DEF Serializes, StallsFetch, Nop
  <2>3. counter' = counter /\ stall' = stall /\ awokener' = awokener /\ waiting' = waiting
    BY <1>9 DEF SendBubble
  <2>4. \A e \in BeforeCommit' : Serializes(e) => e.ctr = counter /\ ~waiting /\ stall
    BY <1>1, <1>2, <1>3, <2>2 DEF Stopped
  <2> QED BY <1>1, <1>2, <2>1, <2>2, <2>3, <2>4 DEF Follows, Stopped
<1> QED BY <1>6, <1>7, <1>8, <1>9 DEF FetchAdvances

\* The answer of the instruction bus: the fetch unit was not stopped.
LEMMA ReceiveInv ==
  ASSUME PipeInv, waiting, NEW i \in Insts, Receive(i), UNCHANGED pipeVars
  PROVE  Chain' /\ Stopped'
<1>1. /\ \A e \in BeforeCommit : ~Serializes(e)
      /\ if_id.ctr = counter
  BY DEF PipeInv, Stopped, Chain
<1>2. /\ fout'.inst = i /\ ~fout'.trap.valid /\ fout'.ctr = Succ(counter) /\ counter' = Succ(counter)
      /\ ~waiting' /\ (stall' <=> StallsFetch(i)) /\ (StallsFetch(i) => awokener' = Succ(counter))
  BY DEF Receive, NoTrap
<1>3. if_id' = if_id /\ id_ex' = id_ex /\ ex_mem' = ex_mem /\ mem_wb' = mem_wb /\ wb_commit' = wb_commit
  BY DEF pipeVars
<1>4. Chain'
  BY <1>1, <1>2, <1>3 DEF PipeInv, Chain, Follows
<1>5. Stopped'
  BY <1>1, <1>2, <1>3 DEF Stopped, BeforeCommit, Serializes
<1> QED BY <1>4, <1>5

\* The memory stage, in a cycle in which the pipeline holds.
LEMMA HoldAccess ==
  ASSUME PipeInv, NEW dresp \in BOOLEAN, EveryCycle(dresp), ~UnifiedOk, ex_mem' = ex_mem
  PROVE  Access'
BY DEF PipeInv, TypeOK, MemoryTypeOK, Access, EveryCycle, MemoryStep, Issues, Answered

\* The memory stage, in a cycle in which its instruction leaves.
LEMMA AdvanceAccess ==
  ASSUME PipeInv, UnifiedOk, Shift, EveryCycle(FALSE)
  PROVE  Access'
<1>1. ~dwaiting /\ memSeen = ex_mem.ctr
  BY DEF UnifiedOk, MemoryOk
<1>2. started <=> AlignOk(ex_mem.inst)
  BY <1>1 DEF PipeInv, Access
<1>3. ~started' /\ ~dwaiting' /\ memSeen' = ex_mem.ctr
  BY <1>1, <1>2 DEF EveryCycle, MemoryStep, Issues, Answered
<1>4. ASSUME AlignOk(ex_mem'.inst) PROVE ex_mem'.ctr # ex_mem.ctr
  <2>1. id_ex \in Entries /\ ex_mem \in Entries /\ mepc \in Pcs /\ ex_mem.ctr \in Counters
    BY DEF PipeInv, TypeOK, CsrTypeOK, Entries
  <2>2. ex_mem'.inst = id_ex.inst /\ ex_mem'.ctr = id_ex.ctr
    BY <2>1 DEF Shift, Execute, Entries
  <2>3. Serializes(id_ex)
    BY <1>4, <2>2 DEF AlignOk, IsMemory, Serializes, StallsFetch, Kinds
  <2>4. id_ex.ctr = Succ(ex_mem.ctr)
    BY <2>3 DEF PipeInv, Chain, Follows
  <2> QED BY <2>1, <2>2, <2>4, SuccDiffers
<1> QED BY <1>3, <1>4 DEF Access

LEMMA NextInv == ASSUME PipeInv, [Next]_vars PROVE PipeInv'
<1>1. TypeOK'
  BY NextType DEF PipeInv
<1>2. CASE Advance
  BY <1>1, <1>2, FetchAdvancesInv, AdvanceAccess DEF Advance, PipeInv
<1>3. CASE InstructionArrives
  <2>1. ~UnifiedOk /\ ex_mem' = ex_mem
    BY <1>3 DEF InstructionArrives, UnifiedOk, FetchOk, pipeVars
  <2> QED BY <1>1, <1>3, <2>1, ReceiveInv, HoldAccess DEF InstructionArrives, PipeInv
<1>4. ASSUME FetchHolds, UNCHANGED pipeVars PROVE Chain' /\ Stopped'
  BY <1>4 DEF FetchHolds, fetchVars, pipeVars, PipeInv, Chain, Stopped, BeforeCommit
<1>5. CASE DataArrives
  <2>1. ~UnifiedOk /\ ex_mem' = ex_mem
    BY <1>5 DEF DataArrives, UnifiedOk, MemoryOk, pipeVars
  <2> QED BY <1>1, <1>4, <1>5, <2>1, HoldAccess DEF DataArrives, PipeInv
<1>6. CASE Hold
  <2>1. ex_mem' = ex_mem
    BY <1>6 DEF Hold, pipeVars
  <2> QED BY <1>1, <1>4, <1>6, <2>1, HoldAccess DEF Hold, PipeInv
<1>7. CASE UNCHANGED vars
  BY <1>1, <1>4, <1>7 DEF vars, memoryVars, pipeVars, FetchHolds, PipeInv, Access
<1> QED BY <1>2, <1>3, <1>5, <1>6, <1>7 DEF Next

LEMMA Invariant == Spec => []PipeInv
<1>1. Init => PipeInv
  BY InitInv
<1>2. PipeInv /\ [Next]_vars => PipeInv'
  BY NextInv
<1> QED BY <1>1, <1>2, PTL DEF Spec

(***************************************************************************)
(* What follows from it.                                                   *)
(***************************************************************************)

\* Nothing younger is behind an instruction the fetch unit stops behind, so no
\* redirection has to flush the pipeline (fetch.sv:75-113, 140-161).
THEOREM NoFlushNeeded == Spec => []NothingBehindStall
<1>1. PipeInv => NothingBehindStall
  BY DEF PipeInv, Stopped, NothingBehindStall
<1> QED BY <1>1, Invariant, PTL

\* The two bus ports never have requests out together: a data request belongs to
\* an aligned access in ex_mem, and behind that one nothing is fetched.
THEOREM OnePortAtATime == Spec => []BusExclusive
<1>1. PipeInv => BusExclusive
  BY DEF PipeInv, Access, Stopped, BeforeCommit, Serializes, StallsFetch, Kinds, AlignOk, IsMemory, BusExclusive
<1> QED BY <1>1, Invariant, PTL

\* Every number commits, in order, with a pulse of one cycle (commit.sv:28-43).
THEOREM CommitsInOrder == Spec => CommitOnce
<1>1. ASSUME PipeInv, [Next]_vars
      PROVE  [/\ wb_commit'.ctr \in {wb_commit.ctr, Succ(wb_commit.ctr)}
              /\ CommitValid(wb_commit) => ~CommitValid(wb_commit)']_vars
  <2>1. CASE Advance
    <3>1. wb_commit'.ctr = mem_wb.ctr
      BY <2>1 DEF Advance, Shift, Retired
    <3>2. ~CommitValid(wb_commit)
      BY <2>1 DEF Advance, UnifiedOk, CommitOk, CommitValid
    <3> QED BY <1>1, <3>1, <3>2 DEF PipeInv, Chain, Follows
  <2>2. ASSUME UNCHANGED pipeVars, NEW dresp, EveryCycle(dresp)
        PROVE  wb_commit' = wb_commit /\ ~CommitValid(wb_commit)'
    BY <2>2 DEF pipeVars, EveryCycle, WritebackStep, CommitValid
  <2>3. CASE InstructionArrives \/ DataArrives \/ Hold
    BY <2>2, <2>3 DEF InstructionArrives, DataArrives, Hold
  <2> QED BY <1>1, <2>1, <2>3 DEF Next
<1> QED BY <1>1, Invariant, PTL DEF Spec, CommitOnce

(***************************************************************************)
(* Bus accesses of an instruction.                                         *)
(***************************************************************************)
Counted == accesses = IF started THEN 1 ELSE 0

LEMMA CountedNext ==
  ASSUME PipeInv, Counted, [HistoryNext]_historyVars
  PROVE  Counted'
<1>1. CASE Advance /\ Record
  <2>1. ~started'
    <3>1. ~dwaiting /\ memSeen = ex_mem.ctr
      BY <1>1 DEF Advance, UnifiedOk, MemoryOk
    <3> QED BY <1>1, <3>1 DEF Advance, PipeInv, Access, EveryCycle, MemoryStep, Issues
  <2> QED BY <1>1, <2>1 DEF Advance, Record, Counted
<1>2. ASSUME NEW dresp \in BOOLEAN, EveryCycle(dresp), ~UnifiedOk, Record PROVE Counted'
  <2>1. dwaiting \in BOOLEAN /\ started \in BOOLEAN /\ (dwaiting => started)
    BY DEF PipeInv, TypeOK, MemoryTypeOK, Access
  <2>2. CASE Issues(ex_mem)
    BY <1>2, <2>2 DEF EveryCycle, MemoryStep, Issues, Record, Counted
  <2>3. CASE ~Issues(ex_mem)
    BY <1>2, <2>1, <2>3 DEF EveryCycle, MemoryStep, Record, Counted
  <2> QED BY <2>2, <2>3
<1>3. CASE InstructionArrives /\ Record
  BY <1>2, <1>3 DEF InstructionArrives, UnifiedOk, FetchOk
<1>4. CASE DataArrives /\ Record
  BY <1>2, <1>4 DEF DataArrives, UnifiedOk, MemoryOk
<1>5. CASE Hold /\ Record
  BY <1>2, <1>5 DEF Hold
<1>6. CASE UNCHANGED historyVars
  BY <1>6 DEF historyVars, vars, memoryVars, Counted
<1> QED BY <1>1, <1>3, <1>4, <1>5, <1>6 DEF HistoryNext, Next

\* An aligned load or store leaves the memory stage after exactly one bus access
\* and any other instruction after none (visit_memory.sv:41-66, memory.sv:78-80, 130).
THEOREM OneAccessEach == HistorySpec => []AccessExactlyOnce
<1>1. HistoryInit => PipeInv /\ Counted
  BY InitInv DEF HistoryInit, Init, MemoryInit, Counted
<1>2. PipeInv /\ Counted /\ [HistoryNext]_historyVars => (PipeInv /\ Counted)'
  <2>1. [HistoryNext]_historyVars => [Next]_vars
    BY DEF HistoryNext, historyVars
  <2> QED BY <2>1, NextInv, CountedNext
<1>3. PipeInv /\ Counted => AccessExactlyOnce
  BY DEF PipeInv, Access, Counted, AccessExactlyOnce, UnifiedOk, MemoryOk
<1> QED BY <1>1, <1>2, <1>3, PTL DEF HistorySpec

(***************************************************************************)
(* The privilege mode and mstatus.MIE only change while the instruction    *)
(* that changes them is alone in the pipeline. That is what lets the MMU   *)
(* read the mode under a request, and the writeback stage trust the look   *)
(* the fetch unit took at them before it sent an interrupt. It fails with  *)
(* instructions that trap and that the fetch unit does not stall on, so    *)
(* the theorems assume that the program has none.                          *)
(***************************************************************************)
KnownOpcodes == \A i \in Insts : i.kind # "illegal"

\* The mode register has followed the last decision of the CSR unit.
Settled == update => mode = newMode

\* The CSR unit acts on an instruction in its first cycle in mem_wb, in which the
\* toggling _ok of the writeback stage holds it there, and the mode register follows
\* in the second.
Settling ==
  /\ csrSeen # mem_wb.ctr => ~wbOk
  /\ ~Settled => wbOk /\ csrSeen = mem_wb.ctr /\ Serializes(mem_wb)

NoneIllegal == \A e \in BeforeCommit : e.inst.kind # "illegal"

Interrupts(e) == e.trap.valid /\ ~e.trap.exc

Allowed == mode = "U" \/ mie

\* The gate stays open for an interrupt until the CSR unit acts on it.
Caught ==
  /\ \A e \in {fout, if_id, id_ex, ex_mem} : Interrupts(e) => Allowed
  /\ InterruptStillAllowed

ModeInv == PipeInv /\ Settling /\ NoneIllegal /\ Caught

(***************************************************************************)
(* Lemmas.                                                                 *)
(***************************************************************************)
\* An instruction the fetch unit stops behind is alone.
LEMMA Alone ==
  ASSUME PipeInv, Serializes(mem_wb), NEW e \in {fout, if_id, id_ex, ex_mem}
  PROVE  ~Serializes(e)
<1>1. TypeOK /\ Chain /\ Stopped
  BY DEF PipeInv
<1>2. /\ mem_wb.ctr \in Counters /\ ex_mem.ctr \in Counters
      /\ id_ex.ctr \in Counters /\ if_id.ctr \in Counters /\ fout.ctr \in Counters
  BY <1>1 DEF TypeOK, FetchTypeOK, Entries
<1>3. mem_wb.ctr = counter /\ fout.ctr = counter
  BY <1>1 DEF Stopped, Chain, BeforeCommit
<1>4. /\ ex_mem.ctr = counter /\ id_ex.ctr = counter /\ if_id.ctr = counter
  <2>1. /\ ex_mem.ctr = mem_wb.ctr \/ ex_mem.ctr = Succ(mem_wb.ctr)
        /\ id_ex.ctr = ex_mem.ctr \/ id_ex.ctr = Succ(ex_mem.ctr)
        /\ if_id.ctr = id_ex.ctr \/ if_id.ctr = Succ(id_ex.ctr)
        /\ fout.ctr = if_id.ctr \/ fout.ctr = Succ(if_id.ctr)
    BY <1>1 DEF Chain, Follows
  <2> QED
    BY <1>2, <1>3, <2>1, NoWrap
<1> QED
  BY <1>1, <1>2, <1>3, <1>4, SuccDiffers DEF Chain, Follows

\* No stage makes an interrupt, or another kind of instruction.
LEMMA StagesKeepKinds ==
  ASSUME NEW e \in Entries, mepc \in Pcs
  PROVE  /\ Decode(e).inst.kind = e.inst.kind /\ Execute(e).inst.kind = e.inst.kind
         /\ MemoryResult(e).inst.kind = e.inst.kind
         /\ Interrupts(Decode(e)) => Interrupts(e)
         /\ Interrupts(Execute(e)) => Interrupts(e)
         /\ Interrupts(MemoryResult(e)) => Interrupts(e)
BY DEF Decode, Execute, MemoryResult, Interrupts, Exception, Entries, InstRecords, Traps

\* What falls through neither traps nor touches mstatus.
LEMMA PlainActs ==
  ASSUME NoneIllegal, ~Serializes(mem_wb), CsrStep(mem_wb, Trapped(mem_wb, mode, mie)), TypeOK, Settled
  PROVE  mode' = mode /\ mie' = mie /\ Settled'
<1>1. mem_wb \in Entries /\ mem_wb.inst.kind # "illegal"
  BY DEF TypeOK, NoneIllegal, BeforeCommit
<1>2. mem_wb.inst.kind = "alu" /\ ~mem_wb.trap.valid
  BY <1>1 DEF Serializes, StallsFetch, Entries, InstRecords
<1>3. mode' = mode
  BY DEF CsrStep, Settled
<1>4. CASE csrSeen # mem_wb.ctr
  BY <1>2, <1>3, <1>4 DEF CsrStep, CsrActs, Trapped, WriteCsr, Settled
<1>5. CASE csrSeen = mem_wb.ctr
  BY <1>3, <1>5 DEF CsrStep, Settled
<1> QED
  BY <1>3, <1>4, <1>5

\* The gate moves only for an instruction that is alone in mem_wb.
LEMMA GateMoves ==
  ASSUME PipeInv, Settling, NoneIllegal, Next, mode' # mode \/ mie' # mie
  PROVE  Serializes(mem_wb)
<1>1. CsrStep(mem_wb, Trapped(mem_wb, mode, mie))
  BY DEF Next, Advance, InstructionArrives, DataArrives, Hold, EveryCycle
<1> QED
  BY <1>1, PlainActs DEF Settling, PipeInv

\* In a cycle in which the pipeline moves the CSR unit has acted already.
LEMMA AdvanceSettles ==
  ASSUME Settling, Advance
  PROVE  csrSeen = mem_wb.ctr /\ UNCHANGED <<mie, update, newMode>> /\ Settled' /\ ~wbOk'
<1>1. wbOk /\ csrSeen = mem_wb.ctr
  BY DEF Advance, UnifiedOk, Settling
<1> QED
  BY <1>1 DEF Advance, EveryCycle, CsrStep, WritebackStep, Settled

LEMMA SettlingKept ==
  ASSUME ModeInv, Next
  PROVE  Settling'
<1>1. CASE Advance
  BY <1>1, AdvanceSettles DEF ModeInv, Settling
<1>2. ASSUME NEW dresp, EveryCycle(dresp), UNCHANGED pipeVars
      PROVE  Settling'
  <2>1. /\ mem_wb' = mem_wb /\ csrSeen' = mem_wb.ctr /\ wbOk' = ~wbOk
        /\ CsrStep(mem_wb, Trapped(mem_wb, mode, mie))
    BY <1>2 DEF EveryCycle, pipeVars, CsrStep, WritebackStep
  <2>2. Serializes(mem_wb)' <=> Serializes(mem_wb)
    BY <2>1 DEF Serializes
  <2>3. CASE csrSeen # mem_wb.ctr
    <3>1. Settled /\ ~wbOk
      BY <2>3 DEF ModeInv, Settling
    <3>2. ~Serializes(mem_wb) => Settled'
      BY <2>1, <3>1, PlainActs DEF ModeInv, PipeInv
    <3> QED
      BY <2>1, <2>2, <3>1, <3>2 DEF Settling
  <2>4. CASE csrSeen = mem_wb.ctr
    <3>1. Settled'
      BY <2>1, <2>4 DEF CsrStep, Settled
    <3> QED
      BY <2>1, <3>1 DEF Settling
  <2> QED
    BY <2>3, <2>4
<1> QED
  BY <1>1, <1>2 DEF Next, InstructionArrives, DataArrives, Hold

\* What the fetch unit sends on is a no-operation, the word of the cycle before or a
\* word from memory; an interrupt it only sends while the gate is open.
LEMMA FetchSends ==
  ASSUME TypeOK, FetchAdvances
  PROVE  /\ fout'.inst \in {fout.inst, Nop}
         /\ Interrupts(fout') => Allowed /\ Awake(wb_commit.ctr)
<1> USE DEF Interrupts
<1>1. fout \in Entries
  BY DEF TypeOK, FetchTypeOK
<1>2. CASE TakeInterrupt(lines, mode, mie, wb_commit.ctr)
  BY <1>2 DEF TakeInterrupt, NumberFakeNop, InterruptPending, Allowed
<1>3. CASE TrapMisalignedTarget(wb_commit.jump, lines, mode, mie, wb_commit.ctr)
  BY <1>3 DEF TrapMisalignedTarget, NumberFakeNop, Exception
<1>4. CASE IssueFetch(wb_commit.jump, lines, mode, mie, wb_commit.ctr)
  BY <1>1, <1>4 DEF IssueFetch, NoTrap, Entries
<1>5. CASE SendBubble(lines, wb_commit.ctr)
  BY <1>1, <1>5 DEF SendBubble, NoTrap, Entries
<1> QED
  BY <1>2, <1>3, <1>4, <1>5 DEF FetchAdvances

LEMMA NoneIllegalKept ==
  ASSUME KnownOpcodes, ModeInv, Next
  PROVE  NoneIllegal'
<1>1. TypeOK
  BY DEF ModeInv, PipeInv
<1>2. CASE Advance
  <2>1. fout \in Entries /\ if_id \in Entries /\ id_ex \in Entries /\ ex_mem \in Entries /\ mepc \in Pcs
    BY <1>1 DEF TypeOK, FetchTypeOK, CsrTypeOK
  <2>2. fout'.inst.kind # "illegal"
    BY <1>1, <1>2, FetchSends DEF Advance, ModeInv, NoneIllegal, BeforeCommit, Nop
  <2> QED
    BY <1>2, <2>1, <2>2, StagesKeepKinds DEF Advance, Shift, ModeInv, NoneIllegal, BeforeCommit
<1>3. CASE InstructionArrives
  <2>1. fout'.inst.kind # "illegal"
    BY <1>3 DEF InstructionArrives, Receive, KnownOpcodes
  <2> QED
    BY <1>3, <2>1 DEF InstructionArrives, pipeVars, ModeInv, NoneIllegal, BeforeCommit
<1>4. CASE DataArrives \/ Hold
  BY <1>4 DEF DataArrives, Hold, FetchHolds, fetchVars, pipeVars, ModeInv, NoneIllegal, BeforeCommit
<1> QED
  BY <1>2, <1>3, <1>4 DEF Next

LEMMA CaughtKept ==
  ASSUME ModeInv, Next
  PROVE  Caught'
<1>1. PipeInv /\ Settling /\ NoneIllegal /\ TypeOK
  BY DEF ModeInv, PipeInv
<1>2. /\ fout \in Entries /\ if_id \in Entries /\ id_ex \in Entries /\ ex_mem \in Entries
      /\ mepc \in Pcs
  BY <1>1 DEF TypeOK, FetchTypeOK, CsrTypeOK
<1>3. \A e \in {fout, if_id, id_ex, ex_mem} : Interrupts(e) => Serializes(e) /\ Allowed
  BY <1>1 DEF ModeInv, NoneIllegal, BeforeCommit, Interrupts, Serializes, Caught
<1>4. \A e \in {fout, if_id, id_ex, ex_mem} : Interrupts(e) => Allowed'
  <2> SUFFICES ASSUME NEW e \in {fout, if_id, id_ex, ex_mem}, Interrupts(e)
               PROVE  Allowed'
    OBVIOUS
  <2>1. ~Serializes(mem_wb)
    BY <1>1, <1>3, Alone
  <2> QED
    BY <1>1, <1>3, <2>1, GateMoves DEF Allowed
<1>5. CASE Advance
  <2>1. Interrupts(fout') => Allowed'
    <3> SUFFICES ASSUME Interrupts(fout') PROVE Allowed'
      OBVIOUS
    <3>1. Allowed /\ Awake(wb_commit.ctr)
      BY <1>1, <1>5, FetchSends DEF Advance
    <3>2. ~Serializes(mem_wb)
      BY <1>1, <3>1, AwakeMeansFree DEF PipeInv, BeforeCommit
    <3> QED
      BY <1>1, <3>1, <3>2, GateMoves DEF Allowed
  <2>2. \A e \in {if_id', id_ex', ex_mem', mem_wb'} : Interrupts(e) => Allowed'
    BY <1>2, <1>4, <1>5, StagesKeepKinds DEF Advance, Shift
  <2> QED
    BY <2>1, <2>2 DEF Caught, InterruptStillAllowed, InterruptActs, Interrupts, Allowed
<1>6. ASSUME NEW dresp, EveryCycle(dresp), UNCHANGED pipeVars, fout' = fout \/ ~Interrupts(fout')
      PROVE  Caught'
  <2>1. csrSeen' = mem_wb'.ctr
    BY <1>6 DEF EveryCycle, CsrStep, pipeVars
  <2>2. if_id' = if_id /\ id_ex' = id_ex /\ ex_mem' = ex_mem
    BY <1>6 DEF pipeVars
  <2>3. \A e \in {fout', if_id', id_ex', ex_mem'} : Interrupts(e) => Allowed'
    BY <1>4, <1>6, <2>2
  <2> QED
    BY <2>1, <2>3 DEF Caught, InterruptStillAllowed, InterruptActs, Interrupts, Allowed
<1>7. CASE InstructionArrives
  BY <1>6, <1>7 DEF InstructionArrives, Receive, NoTrap, Interrupts
<1>8. CASE DataArrives \/ Hold
  BY <1>6, <1>8 DEF DataArrives, Hold, FetchHolds, fetchVars
<1> QED
  BY <1>5, <1>7, <1>8 DEF Next

LEMMA ModeInitially == Init => ModeInv
<1> SUFFICES ASSUME Init PROVE ModeInv
  OBVIOUS
<1>1. PipeInv
  BY InitInv
<1>2. \A e \in BeforeCommit : e.inst = Nop /\ ~e.trap.valid
  BY DEF Init, FetchInit, BeforeCommit, ZeroEntry, NoTrap
<1>3. Settling
  BY DEF Init, CsrInit, Settling, Settled, ZeroEntry
<1>4. NoneIllegal /\ Caught
  BY <1>2 DEF NoneIllegal, Nop, Caught, Interrupts, BeforeCommit, InterruptStillAllowed, InterruptActs
<1> QED
  BY <1>1, <1>3, <1>4 DEF ModeInv

LEMMA ModeStepKeeps ==
  ASSUME KnownOpcodes, ModeInv, [Next]_vars
  PROVE  ModeInv'
<1>1. PipeInv'
  BY NextInv DEF ModeInv
<1>2. CASE Next
  BY <1>1, <1>2, SettlingKept, NoneIllegalKept, CaughtKept DEF ModeInv
<1>3. CASE UNCHANGED vars
  BY <1>1, <1>3 DEF vars, fetchVars, csrVars, writebackVars, pipeVars, ModeInv, Settling, Settled, Serializes,
     NoneIllegal, BeforeCommit, Caught, Interrupts, Allowed, InterruptStillAllowed, InterruptActs
<1> QED
  BY <1>2, <1>3

(***************************************************************************)
(* Theorems.                                                               *)
(***************************************************************************)
\* The writeback stage may let an interrupt through without a second look: when the
\* CSR unit acts on it the gate is as open as it was when the fetch unit took it
\* (writeback.sv:69, fetch.sv:76-77).
THEOREM InterruptsStayAllowed == KnownOpcodes => (Spec => []InterruptStillAllowed)
<1> SUFFICES ASSUME KnownOpcodes PROVE Spec => []InterruptStillAllowed
  OBVIOUS
<1>1. Init => ModeInv
  BY ModeInitially
<1>2. ModeInv /\ [Next]_vars => ModeInv'
  BY ModeStepKeeps
<1>3. ModeInv => InterruptStillAllowed
  BY DEF ModeInv, Caught
<1> QED
  BY <1>1, <1>2, <1>3, PTL DEF Spec

\* Mode and mstatus.MIE never change under a bus request, so the MMU translates all
\* levels of a walk in one mode (csr.sv, riscv.sv, mmu.sv).
THEOREM ModeIsStable == KnownOpcodes => (Spec => ModeStableUnderRequest)
<1> SUFFICES ASSUME KnownOpcodes PROVE Spec => ModeStableUnderRequest
  OBVIOUS
<1>1. ASSUME ModeInv, Next, mode' # mode \/ mie' # mie
      PROVE  ~waiting' /\ ~dwaiting' /\ ~waiting /\ ~dwaiting
  <2>1. Serializes(mem_wb) /\ PipeInv
    BY <1>1, GateMoves DEF ModeInv
  <2>2. ~waiting
    BY <2>1 DEF PipeInv, Stopped, BeforeCommit
  <2>3. ~waiting'
    <3>1. ~Awake(wb_commit.ctr)
      BY <2>1, AwakeMeansFree DEF PipeInv, BeforeCommit
    <3> QED
      BY <1>1, <2>2, <3>1
      DEF Next, Advance, FetchAdvances, TakeInterrupt, TrapMisalignedTarget, IssueFetch, SendBubble,
          InstructionArrives, DataArrives, Hold, FetchHolds, fetchVars
  <2>4. ~AlignOk(ex_mem.inst)
    BY <2>1, Alone DEF Serializes, StallsFetch, Kinds, AlignOk, IsMemory
  <2>5. ~dwaiting
    BY <2>1, <2>4 DEF PipeInv, Access
  <2>6. ~dwaiting'
    BY <1>1, <2>4, <2>5
    DEF Next, Advance, InstructionArrives, DataArrives, Hold, EveryCycle, MemoryStep, Issues, Answered
  <2> QED
    BY <2>2, <2>3, <2>5, <2>6
<1>2. ModeInv /\ [Next]_vars
      => [mode' # mode \/ mie' # mie => ~waiting' /\ ~dwaiting' /\ ~waiting /\ ~dwaiting]_vars
  BY <1>1
<1>3. Init => ModeInv
  BY ModeInitially
<1>4. ModeInv /\ [Next]_vars => ModeInv'
  BY ModeStepKeeps
<1> QED
  BY <1>2, <1>3, <1>4, PTL DEF Spec, ModeStableUnderRequest
=============================================================================
