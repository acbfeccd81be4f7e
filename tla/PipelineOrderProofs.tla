------------------------ MODULE PipelineOrderProofs ------------------------
(***************************************************************************)
(* The pipeline executes the instructions of the program in the program's  *)
(* order. The inductive invariant says where every instruction on its way  *)
(* comes from: the oldest that is not executed is the one the last         *)
(* executed leads to, each other follows the one before it, and the fetch  *)
(* unit goes on where the youngest leads. As for the mode, the program may *)
(* not contain instructions that trap and that the fetch unit does not     *)
(* stall on.                                                               *)
(*                                                                         *)
(* From there it is not far to the refinement: each clock edge is a step   *)
(* of the sequential machine or none (end of the module).                  *)
(***************************************************************************)
EXTENDS PipelineProofs

\* A register holds an instruction the register before it does not hold.
New(e, older) == e.ctr # older.ctr

\* Where the program goes on after the youngest instruction up to a register.
After4 == IF Executes THEN Plus4(mem_wb.pc) ELSE nextPc
After3 == IF New(ex_mem, mem_wb) THEN Plus4(ex_mem.pc) ELSE After4
After2 == IF New(id_ex, ex_mem) THEN Plus4(id_ex.pc) ELSE After3
After1 == IF New(if_id, id_ex) THEN Plus4(if_id.pc) ELSE After2
After0 == IF New(fout, if_id) THEN Plus4(fout.pc) ELSE After1

At(e, pc) == Interrupts(e) \/ e.pc = pc

Addresses ==
  /\ Executes => At(mem_wb, nextPc)
  /\ New(ex_mem, mem_wb) => At(ex_mem, After4)
  /\ New(id_ex, ex_mem) => At(id_ex, After3)
  /\ New(if_id, id_ex) => At(if_id, After2)
  /\ New(fout, if_id) => At(fout, After1)

\* Only what traps has a misaligned address.
Straight(e) == Serializes(e) \/ Aligned(e.pc)

Alignment ==
  /\ Executes => Straight(mem_wb)
  /\ New(ex_mem, mem_wb) => Straight(ex_mem)
  /\ New(id_ex, ex_mem) => Straight(id_ex)
  /\ New(if_id, id_ex) => Straight(if_id)
  /\ New(fout, if_id) => Straight(fout)

\* An instruction the fetch unit stopped behind is the one it fetched last.
OwnAddress(e) == Serializes(e) /\ Aligned(e.pc) => Interrupts(e) \/ e.pc = fpc

\* Which instructions carry a trap, and which of them an interrupt.
Trapping(e) ==
  /\ e.trap.valid => e.inst.kind \in {"alu", "load", "store", "bad_sys", "ecall"}
  /\ Interrupts(e) => e.inst.kind = "alu"

Entry == \A e \in BeforeCommit : OwnAddress(e) /\ Trapping(e)

\* The address the fetch unit goes on with when wb_commit carries the jump j.
Chosen(j) == IF j.taken THEN j.dest ELSE Plus4(fpc)

Drained0 == \A e \in BeforeCommit : ~Serializes(e)

FetchAt ==
  /\ Aligned(fpc)
  /\ ~fout.trap.valid => ~fout.trap.exc
  /\ waiting => ~stall /\ lastPc = fpc /\ lastPc = After0
  /\ ~waiting /\ ~stall => Plus4(fpc) = After0
  /\ wb_commit.jump.taken => stall
  /\ stall /\ Drained0 => wb_commit.ctr = counter /\ Chosen(wb_commit.jump) = nextPc /\ ~Executes

\* What the latches of the writeback stage carry for an instruction that may redirect.
Latched ==
  Serializes(mem_wb) =>
    IF Executes
    THEN ~trapLatch /\ ~jumpLatch.taken
    ELSE /\ Chosen(Redirect(mem_wb, mode, mie)) = nextPc
         /\ mem_wb.trap.valid =>
              \/ jumpLatch = [taken |-> TRUE, dest |-> Mtvec]
              \/ ~LetsTrapThrough(mem_wb, mode, mie) /\ (update => newMode = "M")

OrderInv == ModeInv /\ Addresses /\ Alignment /\ Entry /\ FetchAt /\ Latched

(***************************************************************************)
(* Lemmas.                                                                 *)
(***************************************************************************)
\* Behind an instruction in mem_wb that may redirect there are only bubbles.
LEMMA NothingNew ==
  ASSUME PipeInv, Serializes(mem_wb)
  PROVE  /\ ~waiting /\ stall /\ awokener = counter /\ mem_wb.ctr = counter
         /\ ~New(ex_mem, mem_wb) /\ ~New(id_ex, ex_mem) /\ ~New(if_id, id_ex) /\ ~New(fout, if_id)
<1>1. TypeOK /\ Chain /\ Stopped
  BY DEF PipeInv
<1>2. ~waiting /\ stall /\ awokener = counter /\ mem_wb.ctr = counter /\ fout.ctr = counter
  BY <1>1 DEF Stopped, Chain, BeforeCommit
<1>3. /\ mem_wb.ctr \in Counters /\ ex_mem.ctr \in Counters
      /\ id_ex.ctr \in Counters /\ if_id.ctr \in Counters /\ fout.ctr \in Counters
  BY <1>1 DEF TypeOK, FetchTypeOK, Entries
<1>4. /\ ex_mem.ctr = mem_wb.ctr \/ ex_mem.ctr = Succ(mem_wb.ctr)
      /\ id_ex.ctr = ex_mem.ctr \/ id_ex.ctr = Succ(ex_mem.ctr)
      /\ if_id.ctr = id_ex.ctr \/ if_id.ctr = Succ(id_ex.ctr)
      /\ fout.ctr = if_id.ctr \/ fout.ctr = Succ(if_id.ctr)
  BY <1>1 DEF Chain, Follows
<1>5. ex_mem.ctr = counter /\ id_ex.ctr = counter /\ if_id.ctr = counter
  BY <1>2, <1>3, <1>4, NoWrap
<1> QED
  BY <1>2, <1>5 DEF New

\* A stage keeps address and number of an instruction, and what kind of trap it has.
LEMMA StageKeeps ==
  ASSUME NEW e \in Entries, mepc \in Pcs, Trapping(e), e.inst.kind # "illegal",
         NEW s \in {Decode(e), Execute(e), MemoryResult(e)}
  PROVE  /\ s.pc = e.pc /\ s.ctr = e.ctr
         /\ Interrupts(s) <=> Interrupts(e)
         /\ Serializes(s) <=> Serializes(e)
         /\ Trapping(s)
<1>1. s.pc = e.pc /\ s.ctr = e.ctr /\ (Serializes(s) <=> Serializes(e))
  <2>1. s.pc = e.pc
    BY DEF Decode, Execute, MemoryResult, Entries
  <2> QED
    BY <2>1, StagesKeepNumbers
<1>2. s.inst.kind = e.inst.kind /\ s.trap \in {e.trap, Exception}
  <2>1. Decode(e).inst.kind = e.inst.kind /\ Decode(e).trap \in {e.trap, Exception}
    BY DEF Decode, Entries, InstRecords
  <2>2. Execute(e).inst.kind = e.inst.kind /\ Execute(e).trap \in {e.trap, Exception}
    BY DEF Execute, Entries, InstRecords
  <2>3. MemoryResult(e).inst.kind = e.inst.kind /\ MemoryResult(e).trap \in {e.trap, Exception}
    BY DEF MemoryResult, Entries, InstRecords
  <2> QED
    BY <2>1, <2>2, <2>3
<1>3. s.trap # e.trap => e.inst.kind \in {"load", "store", "bad_sys", "ecall"}
  BY DEF Decode, Execute, MemoryResult, IsIllegal, IsMemory, Entries, InstRecords
<1>4. Exception.valid /\ Exception.exc
  BY DEF Exception
<1> QED
  BY <1>1, <1>2, <1>3, <1>4 DEF Interrupts, Trapping

\* An instruction that does not stop the fetch unit redirects nothing.
LEMMA PlainFallsThrough ==
  ASSUME TypeOK, NoneIllegal, ~Serializes(mem_wb)
  PROVE  /\ ~mem_wb.trap.valid
         /\ Redirect(mem_wb, mode, mie).taken = FALSE
         /\ Trapped(mem_wb, mode, mie) = FALSE
         /\ Straight(mem_wb) => NextOf(mem_wb) = Plus4(mem_wb.pc)
<1>1. mem_wb \in Entries /\ mem_wb.inst.kind # "illegal"
  BY DEF TypeOK, NoneIllegal, BeforeCommit
<1>2. mem_wb.inst.kind = "alu" /\ ~mem_wb.trap.valid
  BY <1>1 DEF Serializes, StallsFetch, Entries, InstRecords
<1>3. Redirect(mem_wb, mode, mie).taken = FALSE
  <2>1. Redirect(mem_wb, mode, mie) = [taken |-> IsJump(mem_wb.inst), dest |-> mem_wb.inst.dest]
    BY <1>2 DEF Redirect
  <2>2. IsJump(mem_wb.inst) = FALSE
    BY <1>2 DEF IsJump
  <2> QED
    BY <2>1, <2>2
<1> QED
  BY <1>2, <1>3 DEF Trapped, Straight, NextOf

(***************************************************************************)
(* The edges at which the pipeline moves.                                  *)
(***************************************************************************)
\* Each register takes over the place of the one before it.
LEMMA Moves ==
  ASSUME OrderInv, Advance, Record
  PROVE  /\ ~Executes /\ nextPc' = nextPc
         /\ Executes' <=> New(ex_mem, mem_wb)
         /\ New(ex_mem, mem_wb)' <=> New(id_ex, ex_mem)
         /\ New(id_ex, ex_mem)' <=> New(if_id, id_ex)
         /\ New(if_id, id_ex)' <=> New(fout, if_id)
         /\ After4' = After3 /\ After3' = After2 /\ After2' = After1 /\ After1' = After0
         /\ \A pair \in {<<mem_wb', ex_mem>>, <<ex_mem', id_ex>>, <<id_ex', if_id>>, <<if_id', fout>>} :
              /\ pair[1].pc = pair[2].pc
              /\ Interrupts(pair[1]) <=> Interrupts(pair[2])
              /\ Serializes(pair[1]) <=> Serializes(pair[2])
              /\ Trapping(pair[1])
<1>1. TypeOK /\ NoneIllegal /\ Entry /\ Settling
  BY DEF OrderInv, ModeInv, PipeInv
<1>2. fout \in Entries /\ if_id \in Entries /\ id_ex \in Entries /\ ex_mem \in Entries /\ mepc \in Pcs
  BY <1>1 DEF TypeOK, FetchTypeOK, CsrTypeOK
<1>3. \A e \in {fout, if_id, id_ex, ex_mem} : Trapping(e) /\ e.inst.kind # "illegal"
  BY <1>1 DEF Entry, NoneIllegal, BeforeCommit
<1>4. /\ mem_wb' = MemoryResult(ex_mem) /\ ex_mem' = Execute(id_ex)
      /\ id_ex' = Decode(if_id) /\ if_id' = fout /\ csrSeen' = mem_wb.ctr
  BY DEF Advance, Shift, EveryCycle, CsrStep
<1>5. ~Executes /\ nextPc' = nextPc
  BY <1>1, AdvanceSettles DEF Executes, Record
<1>6. /\ mem_wb'.ctr = ex_mem.ctr /\ ex_mem'.ctr = id_ex.ctr
      /\ id_ex'.ctr = if_id.ctr /\ if_id'.ctr = fout.ctr
      /\ mem_wb'.pc = ex_mem.pc /\ ex_mem'.pc = id_ex.pc
      /\ id_ex'.pc = if_id.pc /\ if_id'.pc = fout.pc
  BY <1>2, <1>3, <1>4, StageKeeps
<1>7. /\ Executes' <=> New(ex_mem, mem_wb)
      /\ New(ex_mem, mem_wb)' <=> New(id_ex, ex_mem)
      /\ New(id_ex, ex_mem)' <=> New(if_id, id_ex)
      /\ New(if_id, id_ex)' <=> New(fout, if_id)
  BY <1>4, <1>6 DEF Executes, New
<1>8. After4' = After3
  BY <1>5, <1>6, <1>7 DEF After4, After3
<1>9. After3' = After2
  BY <1>6, <1>7, <1>8 DEF After3, After2
<1>10. After2' = After1
  BY <1>6, <1>7, <1>9 DEF After2, After1
<1>11. After1' = After0
  BY <1>6, <1>7, <1>10 DEF After1, After0
<1>12. \A pair \in {<<mem_wb', ex_mem>>, <<ex_mem', id_ex>>, <<id_ex', if_id>>, <<if_id', fout>>} :
         /\ pair[1].pc = pair[2].pc
         /\ Interrupts(pair[1]) <=> Interrupts(pair[2])
         /\ Serializes(pair[1]) <=> Serializes(pair[2])
         /\ Trapping(pair[1])
  BY <1>2, <1>3, <1>4, StageKeeps
<1> QED
  BY <1>5, <1>7, <1>8, <1>9, <1>10, <1>11, <1>12

\* So what is known of the registers is known of the next ones.
LEMMA RegistersMove ==
  ASSUME OrderInv, Advance, Record
  PROVE  /\ Executes' => At(mem_wb', nextPc') /\ Straight(mem_wb')
         /\ New(ex_mem, mem_wb)' => At(ex_mem', After4') /\ Straight(ex_mem')
         /\ New(id_ex, ex_mem)' => At(id_ex', After3') /\ Straight(id_ex')
         /\ New(if_id, id_ex)' => At(if_id', After2') /\ Straight(if_id')
         /\ \A e \in {mem_wb', ex_mem', id_ex', if_id'} :
              Trapping(e) /\ (Serializes(e) /\ Aligned(e.pc) => Interrupts(e) \/ e.pc = fpc)
<1>1. After4 = nextPc /\ nextPc' = nextPc
  BY Moves DEF After4
<1>2. Executes' => At(mem_wb', nextPc') /\ Straight(mem_wb')
  BY <1>1, Moves DEF OrderInv, Addresses, Alignment, At, Straight
<1>3. New(ex_mem, mem_wb)' => At(ex_mem', After4') /\ Straight(ex_mem')
  BY Moves DEF OrderInv, Addresses, Alignment, At, Straight
<1>4. New(id_ex, ex_mem)' => At(id_ex', After3') /\ Straight(id_ex')
  BY Moves DEF OrderInv, Addresses, Alignment, At, Straight
<1>5. New(if_id, id_ex)' => At(if_id', After2') /\ Straight(if_id')
  BY Moves DEF OrderInv, Addresses, Alignment, At, Straight
<1>6. \A e \in {mem_wb', ex_mem', id_ex', if_id'} :
        Trapping(e) /\ (Serializes(e) /\ Aligned(e.pc) => Interrupts(e) \/ e.pc = fpc)
  BY Moves DEF OrderInv, Entry, OwnAddress, BeforeCommit
<1> QED
  BY <1>2, <1>3, <1>4, <1>5, <1>6

\* An instruction that may redirect finds the latches as an older one left them that
\* does not.
LEMMA LatchesAtEntry ==
  ASSUME OrderInv, Advance, Record
  PROVE  Latched'
<1>1. PipeInv /\ NoneIllegal /\ TypeOK
  BY DEF OrderInv, ModeInv, PipeInv
<1> SUFFICES ASSUME Serializes(mem_wb') PROVE Latched'
  BY DEF Latched
<1>2. Serializes(ex_mem)
  BY Moves
<1>3. ~Serializes(mem_wb)
  BY <1>1, <1>2, Alone
<1>4. New(ex_mem, mem_wb)
  BY <1>1, <1>2, <1>3, SuccDiffers DEF PipeInv, Chain, Follows, New, TypeOK, Entries
<1>5. trapLatch' = FALSE /\ jumpLatch'.taken = FALSE
  BY <1>1, <1>3, PlainFallsThrough DEF Advance, EveryCycle, WritebackStep
<1> QED
  BY <1>4, <1>5, Moves DEF Latched

\* When the fetch unit goes on, it does where the youngest instruction leads.
LEMMA GoesOn ==
  ASSUME OrderInv, Advance, Record, Awake(wb_commit.ctr)
  PROVE  /\ Drained0 /\ Chosen(wb_commit.jump) = After0
         /\ ~fout.trap.valid /\ ~fout.trap.exc
<1>1. TypeOK /\ Chain /\ Stopped /\ NoneIllegal /\ FetchAt /\ ~waiting
  BY DEF OrderInv, ModeInv, PipeInv, Advance, UnifiedOk, FetchOk
<1>2. Drained0
  BY <1>1, AwakeMeansFree DEF Drained0
<1>3. ~fout.trap.valid /\ ~fout.trap.exc
  BY <1>1, <1>2 DEF Drained0, BeforeCommit, Serializes, NoneIllegal, FetchAt
<1>4. CASE ~stall
  BY <1>1, <1>2, <1>3, <1>4 DEF FetchAt, Chosen
<1>5. CASE stall
  <2>1. wb_commit.ctr = counter /\ Chosen(wb_commit.jump) = nextPc /\ ~Executes
    BY <1>1, <1>2, <1>5 DEF FetchAt
  <2>2. \A e \in BeforeCommit : e.ctr = counter
    BY <1>1, <2>1, Drained
  <2>3. After0 = nextPc
    BY <2>1, <2>2 DEF BeforeCommit, New, After0, After1, After2, After3, After4
  <2> QED
    BY <1>2, <1>3, <2>1, <2>3
<1> QED
  BY <1>4, <1>5

\* wb_commit gets the jump of what was in mem_wb.
LEMMA CommitMoves ==
  ASSUME OrderInv, Advance
  PROVE  /\ wb_commit'.jump.taken => Serializes(mem_wb)
         /\ Serializes(mem_wb) => wb_commit'.ctr = counter /\ Chosen(wb_commit'.jump) = nextPc
<1>1. TypeOK /\ PipeInv /\ NoneIllegal /\ ~Executes
  BY AdvanceSettles DEF OrderInv, ModeInv, PipeInv, Executes
<1>2. wb_commit'.jump = Redirect(mem_wb, mode, mie) /\ wb_commit'.ctr = mem_wb.ctr
  BY DEF Advance, Shift, Retired
<1>3. wb_commit'.jump.taken => Serializes(mem_wb)
  BY <1>1, <1>2, PlainFallsThrough
<1>4. Serializes(mem_wb) => wb_commit'.ctr = counter /\ Chosen(wb_commit'.jump) = nextPc
  BY <1>1, <1>2, NothingNew DEF OrderInv, Latched
<1> QED
  BY <1>3, <1>4

\* What the fetch unit leaves behind at such an edge.
FetchAfter ==
  /\ FetchAt'
  /\ New(fout, if_id)' => At(fout', After1') /\ Straight(fout')
  /\ Trapping(fout')
  /\ \A e \in BeforeCommit' : Serializes(e) /\ Aligned(e.pc) => Interrupts(e) \/ e.pc = fpc'

LEMMA FetchBubble ==
  ASSUME OrderInv, Advance, Record, SendBubble(lines, wb_commit.ctr)
  PROVE  FetchAfter
<1>1. TypeOK /\ Chain /\ Stopped /\ FetchAt /\ PipeInv /\ fout \in Entries
  BY DEF OrderInv, ModeInv, PipeInv, TypeOK, FetchTypeOK
<1>2. stall /\ ~waiting /\ wb_commit.ctr # counter
  BY <1>1 DEF SendBubble, Awake, Stopped, Advance, UnifiedOk, FetchOk
<1>3. /\ fout'.ctr = fout.ctr /\ ~fout'.trap.valid /\ ~fout'.trap.exc /\ fout'.inst = Nop
      /\ fpc' = fpc /\ waiting' = waiting /\ stall' = stall /\ counter' = counter
  BY <1>1 DEF SendBubble, NoTrap, Entries
<1>4. ~New(fout, if_id)' /\ ~Serializes(fout') /\ Trapping(fout')
  BY <1>3 DEF Advance, Shift, New, Serializes, StallsFetch, Nop, Trapping, Interrupts
<1>5. Drained0' => Serializes(mem_wb)
  <2>1. ~Drained0
    BY <1>1, <1>2 DEF FetchAt
  <2>2. \A e \in {fout, if_id, id_ex, ex_mem} : Serializes(e) => ~Drained0'
    BY Moves DEF Drained0, BeforeCommit
  <2> QED
    BY <2>1, <2>2 DEF Drained0, BeforeCommit
<1>6. Drained0' => wb_commit'.ctr = counter' /\ Chosen(wb_commit.jump)' = nextPc' /\ ~Executes'
  BY <1>1, <1>3, <1>5, CommitMoves, NothingNew, Moves DEF Chosen
<1>7. FetchAt'
  BY <1>1, <1>2, <1>3, <1>6 DEF FetchAt
<1> QED
  BY <1>3, <1>4, <1>7, RegistersMove DEF FetchAfter, BeforeCommit

LEMMA FetchFakeNop ==
  ASSUME OrderInv, Advance, Record, NEW trap \in Traps, NEW pc,
         NumberFakeNop(trap, pc), trap.valid, Awake(wb_commit.ctr),
         trap.exc => pc = Chosen(wb_commit.jump) /\ ~Aligned(pc)
  PROVE  FetchAfter
<1>1. FetchAt /\ ~waiting
  BY DEF OrderInv, Advance, UnifiedOk, FetchOk
<1>2. /\ fout'.inst = Nop /\ fout'.pc = pc /\ fout'.trap = trap
      /\ fpc' = fpc /\ waiting' = waiting /\ stall'
  BY DEF NumberFakeNop
<1>3. Serializes(fout') /\ Trapping(fout')
  BY <1>2 DEF Serializes, Nop, Trapping
<1>4. At(fout', After1') /\ Straight(fout')
  BY <1>2, <1>3, GoesOn, Moves DEF At, Interrupts, Straight
<1>5. Aligned(fout'.pc) => Interrupts(fout')
  BY <1>2 DEF Interrupts
<1>6. FetchAt'
  BY <1>1, <1>2, <1>3 DEF FetchAt, Drained0, BeforeCommit
<1> QED
  BY <1>2, <1>3, <1>4, <1>5, <1>6, RegistersMove DEF FetchAfter, BeforeCommit

LEMMA FetchIssues ==
  ASSUME OrderInv, Advance, Record, IssueFetch(wb_commit.jump, lines, mode, mie, wb_commit.ctr)
  PROVE  FetchAfter
<1>1. Awake(wb_commit.ctr) /\ fout \in Entries /\ ~MisalignedTarget(wb_commit.jump)
  BY DEF IssueFetch, OrderInv, ModeInv, PipeInv, TypeOK, FetchTypeOK
<1>2. /\ fpc' = Chosen(wb_commit.jump) /\ lastPc' = fpc' /\ waiting' /\ ~stall'
      /\ fout'.inst = fout.inst /\ fout'.ctr = fout.ctr
      /\ ~fout'.trap.valid /\ ~fout'.trap.exc
  BY <1>1 DEF IssueFetch, Chosen, NoTrap, Entries
<1>3. \A e \in BeforeCommit : ~Serializes(e)
  BY <1>1, GoesOn DEF Drained0
<1>4. ~Serializes(fout') /\ Trapping(fout')
  BY <1>2, <1>3 DEF BeforeCommit, Serializes, Trapping, Interrupts
<1>5. ~New(fout, if_id)'
  BY <1>2 DEF Advance, Shift, New
<1>6. \A e \in BeforeCommit' : ~Serializes(e)
  BY <1>3, <1>4, Moves DEF BeforeCommit
<1>7. After0' = fpc'
  BY <1>1, <1>2, <1>5, GoesOn, Moves DEF After0
<1>8. Aligned(fpc')
  <2>1. Aligned(Plus4(fpc))
    <3>1. Aligned(fpc) /\ fpc \in Pcs
      BY DEF OrderInv, FetchAt, ModeInv, PipeInv, TypeOK, FetchTypeOK
    <3> QED
      BY <3>1, WordsAssumption DEF Aligned, Plus4, Pcs
  <2> QED
    BY <1>1, <1>2, <2>1 DEF MisalignedTarget, Chosen
<1>9. ~wb_commit'.jump.taken
  BY <1>3, CommitMoves DEF BeforeCommit
<1>10. FetchAt'
  BY <1>2, <1>7, <1>8, <1>9 DEF FetchAt
<1> QED
  BY <1>4, <1>5, <1>6, <1>10 DEF FetchAfter

LEMMA AdvanceKeepsOrder ==
  ASSUME OrderInv, Advance, Record
  PROVE  Addresses' /\ Alignment' /\ Entry' /\ FetchAt' /\ Latched'
<1>1. FetchAfter
  <2>1. CASE TakeInterrupt(lines, mode, mie, wb_commit.ctr)
    <3>1. /\ NumberFakeNop([valid |-> TRUE, exc |-> fout.trap.exc], fout.pc)
          /\ Awake(wb_commit.ctr)
      BY <2>1 DEF TakeInterrupt
    <3>2. [valid |-> TRUE, exc |-> fout.trap.exc] \in Traps
      BY DEF OrderInv, ModeInv, PipeInv, TypeOK, FetchTypeOK, Entries, Traps
    <3>3. ~fout.trap.exc
      BY <3>1, GoesOn
    <3> QED
      BY <3>1, <3>2, <3>3, FetchFakeNop
  <2>2. CASE TrapMisalignedTarget(wb_commit.jump, lines, mode, mie, wb_commit.ctr)
    <3>1. /\ NumberFakeNop(Exception, Chosen(wb_commit.jump)) /\ Awake(wb_commit.ctr)
          /\ MisalignedTarget(wb_commit.jump)
      BY <2>2 DEF TrapMisalignedTarget, Chosen
    <3>2. Exception \in Traps /\ Exception.valid
      BY DEF Exception, Traps
    <3>3. ~Aligned(Chosen(wb_commit.jump))
      BY <3>1 DEF MisalignedTarget, Chosen, OrderInv, FetchAt
    <3> QED
      BY <3>1, <3>2, <3>3, FetchFakeNop
  <2> QED
    BY <2>1, <2>2, FetchIssues, FetchBubble DEF Advance, FetchAdvances
<1>2. Addresses' /\ Alignment'
  BY <1>1, RegistersMove DEF FetchAfter, Addresses, Alignment
<1>3. Entry'
  BY <1>1, RegistersMove DEF FetchAfter, Entry, OwnAddress, BeforeCommit
<1> QED
  BY <1>1, <1>2, <1>3, LatchesAtEntry DEF FetchAfter

(***************************************************************************)
(* The edges at which it holds.                                            *)
(***************************************************************************)
\* An instruction that may redirect decides in its first cycle where the program goes
\* on, and the latches keep that decision when mode and mstatus change.
LEMMA LatchesHold ==
  ASSUME OrderInv, NEW dresp, EveryCycle(dresp), UNCHANGED pipeVars, fpc' = fpc, Record,
         Serializes(mem_wb)
  PROVE  Latched'
<1>1. /\ TypeOK /\ NoneIllegal /\ Entry /\ Latched /\ Settling /\ mem_wb' = mem_wb
      /\ mem_wb \in BeforeCommit /\ mode \in Modes /\ mie \in BOOLEAN
  BY DEF OrderInv, ModeInv, PipeInv, pipeVars, BeforeCommit, TypeOK, CsrTypeOK
<1>2. /\ CsrStep(mem_wb, Trapped(mem_wb, mode, mie)) /\ csrSeen' = mem_wb.ctr
      /\ jumpLatch' = Redirect(mem_wb, mode, mie)
  BY DEF EveryCycle, WritebackStep, CsrStep
<1>3. ~Executes'
  BY <1>1, <1>2 DEF Executes
<1> DEFINE now   == LetsTrapThrough(mem_wb, mode, mie)
           later == LetsTrapThrough(mem_wb, mode', mie')
           handler == [taken |-> TRUE, dest |-> Mtvec]
<1>4. ~now => mode = "M" /\ ~mie
  BY <1>1 DEF LetsTrapThrough, Modes
<1>5. CASE Executes
  <2>1. ~trapLatch /\ ~jumpLatch.taken /\ Settled
    BY <1>1, <1>5 DEF Latched, Executes, Settling
  <2>2. Interrupts(mem_wb) => now
    BY <1>1 DEF Interrupts, LetsTrapThrough, Entry, Trapping
  <2>3. nextPc' = NextOf(mem_wb)
    BY <1>5 DEF Record
  <2>4. ~Interrupts(mem_wb) => nextPc' = Chosen(Redirect(mem_wb, mode, mie))
    BY <1>1, <2>3 DEF NextOf, Chosen, Entry, OwnAddress
  <2>5. CASE ~mem_wb.trap.valid
    <3>1. Redirect(mem_wb, mode', mie') = Redirect(mem_wb, mode, mie)
      BY <2>5 DEF Redirect
    <3>2. Redirect(mem_wb, mode, mie)' = Redirect(mem_wb, mode', mie')
      BY <1>1, <2>5 DEF Redirect
    <3> QED
      BY <1>1, <1>3, <2>4, <2>5, <3>1, <3>2 DEF Latched, Interrupts, Chosen
  <2>6. CASE mem_wb.trap.valid /\ now
    <3>1. Redirect(mem_wb, mode, mie) = handler
      BY <2>6 DEF Redirect
    <3>2. nextPc' = Mtvec
      BY <2>3, <3>1 DEF NextOf
    <3>3. Redirect(mem_wb, mode, mie)' = handler
      BY <1>1, <1>2, <2>6, <3>1 DEF Redirect
    <3> QED
      BY <1>1, <1>2, <1>3, <3>1, <3>2, <3>3 DEF Latched, Chosen
  <2>7. CASE mem_wb.trap.valid /\ ~now
    <3>1. Redirect(mem_wb, mode, mie) = jumpLatch /\ ~Interrupts(mem_wb)
      BY <2>2, <2>7 DEF Redirect
    <3>2. ~Trapped(mem_wb, mode, mie)
      BY <2>1, <2>7 DEF Trapped
    <3>3. mem_wb.inst.kind \in {"alu", "load", "store", "bad_sys", "ecall"}
      BY <1>1, <2>7 DEF Entry, Trapping
    <3>4. mode' = mode /\ ~mie' /\ (update' => newMode' = "M")
      <4>1. mode' = mode
        BY <1>2, <2>1 DEF CsrStep, Settled
      <4>2. CASE mem_wb.inst.kind = "ecall"
        BY <1>2, <1>5, <4>1, <4>2 DEF CsrStep, CsrActs, EnterTrap, Executes
      <4>3. CASE mem_wb.inst.kind # "ecall"
        BY <1>2, <1>4, <1>5, <2>7, <3>2, <3>3, <4>1, <4>3 DEF CsrStep, CsrActs, WriteCsr, Executes
      <4> QED
        BY <4>2, <4>3, <4>1
    <3>5. ~later
      BY <1>4, <2>7, <3>4 DEF LetsTrapThrough
    <3>6. Redirect(mem_wb, mode, mie)' = jumpLatch'
      BY <1>1, <2>7, <3>5 DEF Redirect
    <3>7. ~LetsTrapThrough(mem_wb, mode, mie)'
      BY <1>1, <3>5 DEF LetsTrapThrough
    <3> QED
      BY <1>1, <1>2, <1>3, <2>1, <2>4, <3>1, <3>4, <3>6, <3>7 DEF Latched, Chosen
  <2> QED
    BY <2>5, <2>6, <2>7
<1>6. CASE ~Executes
  <2>1. Chosen(Redirect(mem_wb, mode, mie)) = nextPc
    BY <1>1, <1>6 DEF Latched
  <2>2. /\ nextPc' = nextPc /\ UNCHANGED <<mie, update, newMode>>
        /\ mode' = IF update THEN newMode ELSE mode
    BY <1>2, <1>6 DEF Record, CsrStep, Executes
  <2>3. CASE ~mem_wb.trap.valid
    <3>1. Redirect(mem_wb, mode, mie)' = Redirect(mem_wb, mode, mie)
      BY <1>1, <2>3 DEF Redirect
    <3> QED
      BY <1>1, <1>3, <2>1, <2>2, <2>3, <3>1 DEF Latched, Chosen
  <2>4. CASE mem_wb.trap.valid /\ jumpLatch = handler
    <3>1. Redirect(mem_wb, mode, mie) = handler
      BY <2>4 DEF Redirect
    <3>2. Redirect(mem_wb, mode, mie)' = handler
      BY <1>1, <1>2, <2>4, <3>1 DEF Redirect
    <3> QED
      BY <1>1, <1>2, <1>3, <2>1, <2>2, <3>1, <3>2 DEF Latched, Chosen
  <2>5. CASE mem_wb.trap.valid /\ jumpLatch # handler
    <3>1. ~now /\ (update => newMode = "M")
      BY <1>1, <1>6, <2>5 DEF Latched
    <3>2. ~later /\ Redirect(mem_wb, mode, mie) = jumpLatch
      BY <1>4, <2>2, <2>5, <3>1 DEF LetsTrapThrough, Redirect
    <3>3. Redirect(mem_wb, mode, mie)' = jumpLatch' /\ ~LetsTrapThrough(mem_wb, mode, mie)'
      BY <1>1, <2>5, <3>2 DEF Redirect, LetsTrapThrough
    <3> QED
      BY <1>1, <1>2, <1>3, <2>1, <2>2, <3>1, <3>2, <3>3 DEF Latched, Chosen
  <2> QED
    BY <2>3, <2>4, <2>5
<1> QED
  BY <1>5, <1>6

\* What falls through is followed by the next address.
LEMMA NextAfter ==
  ASSUME OrderInv, NEW dresp, EveryCycle(dresp), UNCHANGED pipeVars, Record, ~Serializes(mem_wb)
  PROVE  ~Executes' /\ nextPc' = After4 /\ After4' = After4
<1>1. ~Executes'
  BY DEF EveryCycle, CsrStep, Executes, pipeVars
<1>2. nextPc' = After4
  BY PlainFallsThrough DEF OrderInv, ModeInv, PipeInv, Alignment, Record, After4
<1> QED
  BY <1>1, <1>2 DEF After4

LEMMA HoldKeepsOrder ==
  ASSUME OrderInv, NEW dresp, EveryCycle(dresp), UNCHANGED pipeVars, FetchHolds, Record
  PROVE  Addresses' /\ Alignment' /\ Entry' /\ FetchAt' /\ Latched'
<1>1. /\ if_id' = if_id /\ id_ex' = id_ex /\ ex_mem' = ex_mem /\ mem_wb' = mem_wb
      /\ wb_commit' = wb_commit /\ fout' = fout /\ fpc' = fpc /\ lastPc' = lastPc
      /\ waiting' = waiting /\ stall' = stall /\ counter' = counter
  BY DEF pipeVars, FetchHolds, fetchVars
<1>2. Entry' /\ (Drained0' <=> Drained0)
  BY <1>1 DEF OrderInv, Entry, BeforeCommit, OwnAddress, Trapping, Interrupts, Serializes, Drained0
<1>3. CASE ~Serializes(mem_wb)
  <2>1. ~Executes' /\ nextPc' = After4 /\ After4' = After4
    BY <1>3, NextAfter
  <2>2. After3' = After3 /\ After2' = After2 /\ After1' = After1 /\ After0' = After0
    BY <1>1, <2>1 DEF After3, After2, After1, After0, New
  <2>3. Addresses' /\ Alignment'
    BY <1>1, <2>1, <2>2 DEF OrderInv, Addresses, Alignment, New, At, Straight, Interrupts, Serializes
  <2>4. FetchAt'
    BY <1>1, <1>2, <2>1, <2>2 DEF OrderInv, FetchAt, Chosen, After4
  <2>5. Latched'
    BY <1>1, <1>3 DEF Latched, Serializes
  <2> QED
    BY <1>2, <2>3, <2>4, <2>5
<1>4. CASE Serializes(mem_wb)
  <2>1. /\ ~waiting /\ stall /\ ~Drained0
        /\ ~New(ex_mem, mem_wb) /\ ~New(id_ex, ex_mem) /\ ~New(if_id, id_ex) /\ ~New(fout, if_id)
    BY <1>4, NothingNew DEF OrderInv, ModeInv, Drained0, BeforeCommit
  <2>2. ~Executes'
    BY <1>1 DEF EveryCycle, CsrStep, Executes
  <2>3. Addresses' /\ Alignment'
    BY <1>1, <2>1, <2>2 DEF Addresses, Alignment, New
  <2>4. FetchAt'
    BY <1>1, <1>2, <2>1 DEF OrderInv, FetchAt
  <2> QED
    BY <1>1, <1>2, <1>4, <2>3, <2>4, LatchesHold
<1> QED
  BY <1>3, <1>4

LEMMA ReceiveKeepsOrder ==
  ASSUME KnownOpcodes, OrderInv, NEW dresp, EveryCycle(dresp), UNCHANGED pipeVars, Record,
         waiting, NEW i \in Insts, Receive(i)
  PROVE  Addresses' /\ Alignment' /\ Entry' /\ FetchAt' /\ Latched'
<1>1. /\ PipeInv /\ TypeOK /\ FetchAt /\ ~stall /\ lastPc = fpc /\ lastPc = After0 /\ Aligned(fpc)
      /\ counter \in Counters
  BY DEF OrderInv, ModeInv, PipeInv, FetchAt, TypeOK, FetchTypeOK
<1>2. /\ if_id' = if_id /\ id_ex' = id_ex /\ ex_mem' = ex_mem /\ mem_wb' = mem_wb
      /\ wb_commit' = wb_commit /\ fpc' = fpc /\ ~waiting'
  BY DEF pipeVars, Receive
<1>3. /\ fout'.inst = i /\ fout'.pc = lastPc /\ fout'.ctr = Succ(counter)
      /\ ~fout'.trap.valid /\ ~fout'.trap.exc /\ (stall' <=> StallsFetch(i))
  BY DEF Receive, NoTrap
<1>4. \A e \in BeforeCommit : ~Serializes(e)
  BY <1>1 DEF PipeInv, Stopped
<1>5. /\ ~New(fout, if_id) /\ New(fout, if_id)'
  BY <1>1, <1>2, <1>3, SuccDiffers DEF PipeInv, Stopped, Chain, New
<1>6. ~Executes' /\ nextPc' = After4 /\ After4' = After4
  BY <1>4, NextAfter DEF BeforeCommit
<1>7. After3' = After3 /\ After2' = After2 /\ After1' = After1
  BY <1>2, <1>6 DEF After3, After2, After1, New
<1>8. After1' = lastPc /\ After0' = Plus4(lastPc)
  BY <1>1, <1>3, <1>5, <1>7 DEF After0
<1>9. Addresses'
  BY <1>2, <1>3, <1>6, <1>7, <1>8 DEF OrderInv, Addresses, New, At, Interrupts
<1>10. Alignment'
  BY <1>1, <1>2, <1>3, <1>6 DEF OrderInv, Alignment, New, Straight, Serializes
<1>11. Entry'
  <2>1. OwnAddress(fout)' /\ Trapping(fout)'
    BY <1>1, <1>2, <1>3 DEF OwnAddress, Trapping, Interrupts
  <2> QED
    BY <1>2, <2>1 DEF OrderInv, Entry, BeforeCommit, OwnAddress, Trapping, Interrupts, Serializes
<1>12. stall' => ~Drained0'
  BY <1>3 DEF Drained0, BeforeCommit, Serializes
<1>13. FetchAt'
  BY <1>1, <1>2, <1>3, <1>8, <1>12 DEF FetchAt
<1>14. Latched'
  BY <1>2, <1>4 DEF Latched, BeforeCommit, Serializes
<1> QED
  BY <1>9, <1>10, <1>11, <1>13, <1>14

(***************************************************************************)
(* The theorem.                                                            *)
(***************************************************************************)
LEMMA OrderInitially == HistoryInit => OrderInv
<1> SUFFICES ASSUME HistoryInit PROVE OrderInv
  OBVIOUS
<1>1. ModeInv
  BY ModeInitially DEF HistoryInit
<1>2. \A e \in BeforeCommit : e.inst = Nop /\ ~e.trap.valid /\ ~e.trap.exc /\ e.ctr = 0
  BY DEF HistoryInit, Init, FetchInit, BeforeCommit, ZeroEntry, NoTrap
<1>3. \A e \in BeforeCommit : ~Serializes(e) /\ Trapping(e)
  BY <1>2 DEF Serializes, StallsFetch, Nop, Trapping, Interrupts
<1>4. /\ ~Executes /\ ~New(ex_mem, mem_wb) /\ ~New(id_ex, ex_mem) /\ ~New(if_id, id_ex) /\ ~New(fout, if_id)
  BY <1>2 DEF Executes, New, BeforeCommit, HistoryInit, Init, CsrInit
<1>5. Plus4(BeforePcInit) = PcInit /\ Aligned(BeforePcInit)
  BY WordsAssumption DEF Plus4, BeforePcInit, PcInit, Aligned
<1>6. FetchAt
  BY <1>2, <1>4, <1>5 DEF FetchAt, BeforeCommit, HistoryInit, Init, FetchInit, ZeroCommit, NoJump,
     After0, After1, After2, After3, After4
<1> QED
  BY <1>1, <1>3, <1>4, <1>6 DEF OrderInv, Addresses, Alignment, Entry, OwnAddress, Latched, BeforeCommit

LEMMA OrderStepKeeps ==
  ASSUME KnownOpcodes, OrderInv, [HistoryNext]_historyVars
  PROVE  OrderInv'
<1>1. ModeInv'
  <2>1. [Next]_vars
    BY DEF HistoryNext, historyVars
  <2> QED
    BY <2>1, ModeStepKeeps DEF OrderInv
<1>2. CASE Advance /\ Record
  BY <1>1, <1>2, AdvanceKeepsOrder DEF OrderInv
<1>3. CASE InstructionArrives /\ Record
  BY <1>1, <1>3, ReceiveKeepsOrder DEF InstructionArrives, OrderInv
<1>4. CASE (DataArrives \/ Hold) /\ Record
  BY <1>1, <1>4, HoldKeepsOrder DEF DataArrives, Hold, OrderInv
<1>5. CASE UNCHANGED historyVars
  BY <1>1, <1>5
  DEF historyVars, vars, fetchVars, csrVars, writebackVars, pipeVars, OrderInv, Addresses, Alignment, Entry,
      FetchAt, Latched, Executes, New, At, Straight, OwnAddress, Trapping, Interrupts, Serializes, BeforeCommit,
      Drained0, Chosen, After0, After1, After2, After3, After4, Redirect, LetsTrapThrough
<1> QED
  BY <1>2, <1>3, <1>4, <1>5 DEF HistoryNext, Next

\* Every instruction the core executes is the one the instruction before it leads to,
\* through jumps, traps, returns and interrupts, for every program without unknown
\* opcodes and whatever the delays of the buses (fetch.sv, csr.sv, writeback.sv).
THEOREM ProgramOrder == KnownOpcodes => (HistorySpec => []ExecutesInOrder)
<1> SUFFICES ASSUME KnownOpcodes PROVE HistorySpec => []ExecutesInOrder
  OBVIOUS
<1>1. HistoryInit => OrderInv
  BY OrderInitially
<1>2. OrderInv /\ [HistoryNext]_historyVars => OrderInv'
  BY OrderStepKeeps
<1>3. OrderInv => ExecutesInOrder
  BY DEF OrderInv, Addresses, At, Interrupts, ExecutesInOrder, InterruptActs, Executes
<1> QED
  BY <1>1, <1>2, <1>3, PTL DEF HistorySpec

(***************************************************************************)
(* The pipeline implements the sequential machine. Beyond the order of the *)
(* instructions this needs where each of them comes from, which trap it    *)
(* has been given by the stages so far, and that the target an mret has    *)
(* read from mepc is still there when it is executed. The sequential       *)
(* machine has no interrupts, so none may be enabled.                      *)
(***************************************************************************)
NoInterrupts == EnabledLines = {}

Uninterrupted == \A e \in BeforeCommit : ~Interrupts(e)

\* The no-operation the fetch unit sends in place of an instruction at a misaligned target.
Fake(e) == ~Aligned(e.pc) /\ e.inst = Nop /\ e.trap = Exception

\* Only the destination of an mret differs from what the memory has returned.
FromMemory(inst) ==
  \E i \in Insts : i.kind = inst.kind /\ i.flag = inst.flag /\ (inst.dest = i.dest \/ inst.kind = "mret")

Origin(e, raised) ==
  \/ Fake(e)
  \/ /\ Aligned(e.pc) /\ FromMemory(e.inst)
     /\ e.trap = IF raised THEN Exception ELSE NoTrap

\* What raises an exception up to the end of the decode, the execute, the memory stage.
Raised1(i) == IsIllegal(i)
Raised2(i) == Raised1(i) \/ i.kind = "ecall"
Raised3(i) == Raised2(i) \/ (IsMemory(i) /\ ~AlignOk(i))

Origins ==
  /\ Executes => Origin(mem_wb, Raised3(mem_wb.inst))
  /\ New(ex_mem, mem_wb) => Origin(ex_mem, Raised2(ex_mem.inst))
  /\ New(id_ex, ex_mem) => Origin(id_ex, Raised1(id_ex.inst))
  /\ New(if_id, id_ex) => Origin(if_id, FALSE)
  /\ New(fout, if_id) => Origin(fout, FALSE)

ReturnsTo(e) == e.inst.kind = "mret" => e.inst.dest = mepc

SeqInv ==
  /\ OrderInv /\ Uninterrupted /\ Origins
  /\ ReturnsTo(id_ex) /\ ReturnsTo(ex_mem) /\ ReturnsTo(mem_wb)
  /\ Executes => csrSeen = wb_commit.ctr

\* The oldest instruction that is not executed is where the last one leads, also when
\* it is not fetched yet.
LEMMA NextIsNext ==
  ASSUME OrderInv, Uninterrupted
  PROVE  ArchNext = nextPc
<1>1. PipeInv /\ TypeOK /\ Chain /\ Stopped /\ NoneIllegal /\ FetchAt /\ Addresses /\ Latched
  BY DEF OrderInv, ModeInv, PipeInv
<1>2. \A e \in BeforeCommit : ~Interrupts(e)
  BY DEF Uninterrupted
<1>3. CASE Executes
  <2>1. mem_wb.pc = nextPc
    BY <1>1, <1>2, <1>3 DEF Addresses, At, BeforeCommit
  <2>2. ArchNext = mem_wb.pc
    BY <1>3 DEF ArchNext, Executes
  <2> QED
    BY <2>1, <2>2
<1>4. CASE ~Executes /\ New(ex_mem, mem_wb)
  <2>1. ex_mem.pc = nextPc
    BY <1>1, <1>2, <1>4 DEF Addresses, At, After4, BeforeCommit
  <2>2. ArchNext = ex_mem.pc
    BY <1>4 DEF ArchNext, Executes, New
  <2> QED
    BY <2>1, <2>2
<1>5. CASE ~Executes /\ ~New(ex_mem, mem_wb) /\ New(id_ex, ex_mem)
  <2>1. id_ex.pc = nextPc
    BY <1>1, <1>2, <1>5 DEF Addresses, At, After4, After3, BeforeCommit
  <2>2. ArchNext = id_ex.pc
    BY <1>5 DEF ArchNext, Executes, New
  <2> QED
    BY <2>1, <2>2
<1>6. CASE ~Executes /\ ~New(ex_mem, mem_wb) /\ ~New(id_ex, ex_mem) /\ New(if_id, id_ex)
  <2>1. if_id.pc = nextPc
    BY <1>1, <1>2, <1>6 DEF Addresses, At, After4, After3, After2, BeforeCommit
  <2>2. ArchNext = if_id.pc
    BY <1>6 DEF ArchNext, Executes, New
  <2> QED
    BY <2>1, <2>2
<1>7. CASE /\ ~Executes /\ ~New(ex_mem, mem_wb) /\ ~New(id_ex, ex_mem) /\ ~New(if_id, id_ex)
           /\ New(fout, if_id)
  <2>1. fout.pc = nextPc
    BY <1>1, <1>2, <1>7 DEF Addresses, At, After4, After3, After2, After1, BeforeCommit
  <2>2. ArchNext = fout.pc
    BY <1>7 DEF ArchNext, Executes, New
  <2> QED
    BY <2>1, <2>2
<1>8. CASE /\ ~Executes /\ ~New(ex_mem, mem_wb) /\ ~New(id_ex, ex_mem) /\ ~New(if_id, id_ex)
           /\ ~New(fout, if_id)
  <2>1. After0 = nextPc
    BY <1>8 DEF After4, After3, After2, After1, After0
  <2>2. /\ csrSeen = mem_wb.ctr /\ ex_mem.ctr = mem_wb.ctr /\ id_ex.ctr = mem_wb.ctr
        /\ if_id.ctr = mem_wb.ctr /\ fout.ctr = mem_wb.ctr /\ fout.ctr = counter
    BY <1>1, <1>8 DEF Executes, New, Chain
  <2>3. \A e \in {ex_mem, id_ex, if_id, fout} : ~Serializes(e)
    <3>1. /\ mem_wb.ctr \in Counters
      BY <1>1 DEF TypeOK, Entries
    <3> QED
      BY <1>1, <2>2, <3>1, SuccDiffers DEF Chain, Follows
  <2>4. CASE waiting
    BY <1>1, <2>1, <2>2, <2>4 DEF ArchNext, FetchAt
  <2>5. CASE ~waiting
    <3>1. ArchNext = Chosen(LastRedirect)
      BY <2>2, <2>5 DEF ArchNext, Chosen
    <3>2. CASE ~stall
      <4>1. ~wb_commit.jump.taken /\ Plus4(fpc) = nextPc
        BY <1>1, <2>1, <2>5, <3>2 DEF FetchAt
      <4>2. ~Serializes(mem_wb)
        BY <1>1, <3>2 DEF Stopped, BeforeCommit
      <4>3. ~LastRedirect.taken
        BY <1>1, <4>1, <4>2, PlainFallsThrough DEF LastRedirect
      <4> QED
        BY <3>1, <4>1, <4>3 DEF Chosen
    <3>3. CASE stall /\ Serializes(mem_wb)
      <4>1. mem_wb.ctr # wb_commit.ctr
        BY <1>1, <3>3, SuccDiffers DEF Chain, Follows, TypeOK, Commits
      <4>2. Chosen(Redirect(mem_wb, mode, mie)) = nextPc
        BY <1>1, <1>8, <3>3 DEF Latched
      <4> QED
        BY <3>1, <4>1, <4>2 DEF LastRedirect
    <3>4. CASE stall /\ ~Serializes(mem_wb)
      <4>1. Drained0
        BY <2>3, <3>4 DEF Drained0, BeforeCommit
      <4>2. wb_commit.ctr = counter /\ Chosen(wb_commit.jump) = nextPc
        BY <1>1, <3>4, <4>1 DEF FetchAt
      <4> QED
        BY <2>2, <3>1, <4>2 DEF LastRedirect
    <3> QED
      BY <3>2, <3>3, <3>4
  <2> QED
    BY <2>4, <2>5
<1> QED
  BY <1>3, <1>4, <1>5, <1>6, <1>7, <1>8

(***************************************************************************)
(* SeqInv is inductive.                                                    *)
(***************************************************************************)
\* The stages give an instruction the traps it raises.
LEMMA StagesRaise ==
  ASSUME NEW e \in Entries, mepc \in Pcs
  PROVE  /\ Origin(e, FALSE) => Origin(Decode(e), Raised1(Decode(e).inst))
         /\ Origin(e, Raised1(e.inst)) => Origin(Execute(e), Raised2(Execute(e).inst))
         /\ Origin(e, Raised2(e.inst)) => Origin(MemoryResult(e), Raised3(MemoryResult(e).inst))
         /\ ReturnsTo(Decode(e))
         /\ ReturnsTo(e) => ReturnsTo(Execute(e)) /\ ReturnsTo(MemoryResult(e))
<1>1. /\ Decode(e).pc = e.pc /\ Decode(e).inst.kind = e.inst.kind /\ Decode(e).inst.flag = e.inst.flag
      /\ Decode(e).inst.dest = IF e.inst.kind = "mret" THEN mepc ELSE e.inst.dest
      /\ Decode(e).trap = IF IsIllegal(e.inst) THEN Exception ELSE e.trap
      /\ e.inst.kind # "mret" => Decode(e).inst = e.inst
  BY DEF Decode, Entries, InstRecords
<1>2. /\ Execute(e).pc = e.pc /\ Execute(e).inst = e.inst
      /\ Execute(e).trap = IF e.inst.kind = "ecall" THEN Exception ELSE e.trap
  BY DEF Execute, Entries
<1>3. /\ MemoryResult(e).pc = e.pc /\ MemoryResult(e).inst = e.inst
      /\ MemoryResult(e).trap = IF IsMemory(e.inst) /\ ~AlignOk(e.inst) THEN Exception ELSE e.trap
  BY DEF MemoryResult, Entries
<1>4. Nop.kind = "alu"
  BY DEF Nop
<1>5. ASSUME Origin(e, FALSE) PROVE Origin(Decode(e), Raised1(Decode(e).inst))
  <2>1. CASE Fake(e)
    BY <1>1, <1>4, <2>1 DEF Fake, Origin, IsIllegal
  <2>2. CASE Aligned(e.pc) /\ FromMemory(e.inst) /\ e.trap = NoTrap
    <3>1. FromMemory(Decode(e).inst)
      BY <1>1, <2>2 DEF FromMemory
    <3> QED
      BY <1>1, <2>2, <3>1 DEF Origin, Raised1, IsIllegal
  <2> QED
    BY <1>5, <2>1, <2>2 DEF Origin
<1>6. ASSUME Origin(e, Raised1(e.inst)) PROVE Origin(Execute(e), Raised2(Execute(e).inst))
  <2>1. CASE Fake(e)
    BY <1>2, <1>4, <2>1 DEF Fake, Origin
  <2>2. CASE ~Fake(e)
    BY <1>2, <1>6, <2>2 DEF Origin, Raised1, Raised2
  <2> QED
    BY <2>1, <2>2
<1>7. ASSUME Origin(e, Raised2(e.inst)) PROVE Origin(MemoryResult(e), Raised3(MemoryResult(e).inst))
  <2>1. CASE Fake(e)
    BY <1>3, <1>4, <2>1 DEF Fake, Origin, IsMemory
  <2>2. CASE ~Fake(e)
    BY <1>3, <1>7, <2>2 DEF Origin, Raised3
  <2> QED
    BY <2>1, <2>2
<1> QED
  BY <1>1, <1>2, <1>3, <1>5, <1>6, <1>7 DEF ReturnsTo

\* mepc stays while an mret is on its way, which is alone in the pipeline.
LEMMA MepcStays ==
  ASSUME SeqInv, Next, NEW e \in BeforeCommit, e.inst.kind = "mret"
  PROVE  mepc' = mepc
<1>1. PipeInv /\ TypeOK /\ NoneIllegal /\ Entry /\ Serializes(e)
  BY DEF SeqInv, OrderInv, ModeInv, PipeInv, Serializes, StallsFetch, Kinds
<1>2. CsrStep(mem_wb, Trapped(mem_wb, mode, mie))
  BY DEF Next, Advance, InstructionArrives, DataArrives, Hold, EveryCycle
<1>3. CASE e = mem_wb
  <2>1. ~mem_wb.trap.valid
    BY <1>1, <1>3 DEF Entry, Trapping, BeforeCommit
  <2> QED
    BY <1>2, <1>3, <2>1 DEF CsrStep, CsrActs, Trapped, ReturnFromTrap
<1>4. CASE e # mem_wb
  <2>1. ~Serializes(mem_wb)
    BY <1>1, <1>4, Alone DEF BeforeCommit
  <2>2. mem_wb.inst.kind = "alu" /\ ~mem_wb.trap.valid
    BY <1>1, <2>1 DEF Serializes, StallsFetch, NoneIllegal, BeforeCommit, TypeOK, Entries, InstRecords
  <2> QED
    BY <1>2, <2>2 DEF CsrStep, CsrActs, Trapped, WriteCsr
<1> QED
  BY <1>3, <1>4

\* What the fetch unit sends when the pipeline moves.
LEMMA FetchOrigin ==
  ASSUME NoInterrupts, SeqInv, Advance, Record
  PROVE  /\ New(fout, if_id)' => Origin(fout', FALSE)
         /\ ~Interrupts(fout')
<1>1. fout \in Entries /\ ~InterruptPending(lines, mode, mie)
  BY DEF SeqInv, OrderInv, ModeInv, PipeInv, TypeOK, FetchTypeOK, NoInterrupts, InterruptPending
<1>2. CASE TrapMisalignedTarget(wb_commit.jump, lines, mode, mie, wb_commit.ctr)
  <2>1. /\ fout'.inst = Nop /\ fout'.trap = Exception /\ fout'.pc = Chosen(wb_commit.jump)
        /\ MisalignedTarget(wb_commit.jump)
    BY <1>2 DEF TrapMisalignedTarget, NumberFakeNop, Chosen
  <2>2. ~Aligned(Chosen(wb_commit.jump))
    BY <2>1 DEF MisalignedTarget, Chosen, SeqInv, OrderInv, FetchAt
  <2> QED
    BY <2>1, <2>2 DEF Origin, Fake, Interrupts, Exception
<1>3. CASE /\ fout'.ctr = fout.ctr /\ ~fout'.trap.valid
  BY <1>3 DEF Advance, Shift, New, Interrupts
<1>4. IssueFetch(wb_commit.jump, lines, mode, mie, wb_commit.ctr)
      => fout'.ctr = fout.ctr /\ fout'.trap = NoTrap
  BY <1>1 DEF IssueFetch, Entries
<1>5. SendBubble(lines, wb_commit.ctr) => fout'.ctr = fout.ctr /\ fout'.trap = NoTrap
  BY <1>1 DEF SendBubble, Entries
<1>6. NoTrap.valid = FALSE
  BY DEF NoTrap
<1> QED
  BY <1>1, <1>2, <1>3, <1>4, <1>5, <1>6 DEF Advance, FetchAdvances, TakeInterrupt

LEMMA SeqAdvance ==
  ASSUME NoInterrupts, SeqInv, OrderInv', Advance, Record
  PROVE  SeqInv'
<1>1. OrderInv /\ TypeOK
  BY DEF SeqInv, OrderInv, ModeInv, PipeInv
<1>2. fout \in Entries /\ if_id \in Entries /\ id_ex \in Entries /\ ex_mem \in Entries /\ mepc \in Pcs
  BY <1>1 DEF TypeOK, FetchTypeOK, CsrTypeOK
<1>3. /\ mem_wb' = MemoryResult(ex_mem) /\ ex_mem' = Execute(id_ex)
      /\ id_ex' = Decode(if_id) /\ if_id' = fout
      /\ wb_commit'.ctr = mem_wb.ctr /\ csrSeen' = mem_wb.ctr
  BY DEF Advance, Shift, Retired, EveryCycle, CsrStep
<1>4. mepc' = mepc
  BY AdvanceSettles DEF SeqInv, OrderInv, ModeInv, Advance, EveryCycle, CsrStep
<1>5. Uninterrupted'
  <2>1. \A e \in {mem_wb', ex_mem', id_ex', if_id'} : ~Interrupts(e)
    BY <1>1, Moves DEF SeqInv, Uninterrupted, BeforeCommit
  <2> QED
    BY <2>1, FetchOrigin DEF Uninterrupted, BeforeCommit
<1>6. Origins'
  BY <1>1, <1>2, <1>3, StagesRaise, Moves, FetchOrigin DEF SeqInv, Origins
<1>7. ReturnsTo(id_ex)' /\ ReturnsTo(ex_mem)' /\ ReturnsTo(mem_wb)'
  BY <1>2, <1>3, <1>4, StagesRaise DEF SeqInv, ReturnsTo
<1> QED
  BY <1>3, <1>5, <1>6, <1>7 DEF SeqInv

LEMMA SeqHold ==
  ASSUME SeqInv, OrderInv', NEW dresp, EveryCycle(dresp), UNCHANGED pipeVars, Next,
         FetchHolds \/ \E i \in Insts : waiting /\ Receive(i)
  PROVE  SeqInv'
<1>1. /\ if_id' = if_id /\ id_ex' = id_ex /\ ex_mem' = ex_mem /\ mem_wb' = mem_wb
      /\ wb_commit' = wb_commit /\ csrSeen' = mem_wb.ctr
  BY DEF pipeVars, EveryCycle, CsrStep
<1>2. ~Executes'
  BY <1>1 DEF Executes
<1>4. fout' = fout \/ (Origin(fout', FALSE) /\ ~Interrupts(fout'))
  <2>1. CASE FetchHolds
    BY <2>1 DEF FetchHolds, fetchVars
  <2>2. ASSUME NEW i \in Insts, waiting, Receive(i) PROVE Origin(fout', FALSE) /\ ~Interrupts(fout')
    <3>1. fout'.inst = i /\ fout'.trap = NoTrap /\ fout'.pc = fpc /\ Aligned(fpc)
      BY <2>2 DEF Receive, SeqInv, OrderInv, FetchAt
    <3>2. FromMemory(i)
      BY DEF FromMemory
    <3> QED
      BY <3>1, <3>2 DEF Origin, Interrupts, NoTrap
  <2> QED
    BY <2>1, <2>2
<1>5. Uninterrupted'
  BY <1>1, <1>4 DEF SeqInv, Uninterrupted, BeforeCommit
<1>6. Origins'
  <2>1. New(fout, if_id)' => Origin(fout', FALSE)
    BY <1>1, <1>4 DEF SeqInv, Origins, New
  <2> QED
    BY <1>1, <1>2, <2>1 DEF SeqInv, Origins, New
<1>7. ReturnsTo(id_ex)' /\ ReturnsTo(ex_mem)' /\ ReturnsTo(mem_wb)'
  <2>1. \A e \in {id_ex, ex_mem, mem_wb} : e.inst.kind = "mret" => mepc' = mepc
    BY MepcStays DEF BeforeCommit
  <2> QED
    BY <1>1, <2>1 DEF SeqInv, ReturnsTo
<1> QED
  BY <1>2, <1>5, <1>6, <1>7 DEF SeqInv

LEMMA SeqInvStep ==
  ASSUME KnownOpcodes, NoInterrupts, SeqInv, [HistoryNext]_historyVars
  PROVE  SeqInv'
<1>1. OrderInv'
  BY OrderStepKeeps DEF SeqInv
<1>2. CASE Advance /\ Record
  BY <1>1, <1>2, SeqAdvance
<1>3. CASE InstructionArrives
  BY <1>1, <1>3, SeqHold DEF InstructionArrives, Next
<1>4. CASE DataArrives \/ Hold
  BY <1>1, <1>4, SeqHold DEF DataArrives, Hold, Next
<1>5. CASE UNCHANGED historyVars
  BY <1>1, <1>5
  DEF historyVars, vars, fetchVars, csrVars, pipeVars, SeqInv, Uninterrupted, Origins, ReturnsTo, Origin,
      Fake, New, Executes, BeforeCommit, Interrupts
<1> QED
  BY <1>2, <1>3, <1>4, <1>5 DEF HistoryNext, Next

LEMMA SeqInitially == HistoryInit => SeqInv
<1> SUFFICES ASSUME HistoryInit PROVE SeqInv
  OBVIOUS
<1>1. OrderInv
  BY OrderInitially
<1>2. \A e \in BeforeCommit : e.inst = Nop /\ ~e.trap.valid /\ ~e.trap.exc /\ e.ctr = 0
  BY DEF HistoryInit, Init, FetchInit, BeforeCommit, ZeroEntry, NoTrap
<1>3. csrSeen = 0 /\ wb_commit.ctr = 0
  BY DEF HistoryInit, Init, CsrInit, ZeroCommit
<1>4. ~Executes /\ ~New(ex_mem, mem_wb) /\ ~New(id_ex, ex_mem) /\ ~New(if_id, id_ex) /\ ~New(fout, if_id)
  BY <1>2, <1>3 DEF Executes, New, BeforeCommit
<1>5. ReturnsTo(id_ex) /\ ReturnsTo(ex_mem) /\ ReturnsTo(mem_wb)
  BY <1>2 DEF ReturnsTo, BeforeCommit, Nop
<1> QED
  BY <1>1, <1>2, <1>4, <1>5 DEF SeqInv, Uninterrupted, Interrupts, Origins

(***************************************************************************)
(* Each clock edge is a step of the sequential machine or none.            *)
(***************************************************************************)
LEMMA SameOperators ==
  /\ \A p : /\ Sequential!Plus4(p) = Plus4(p) /\ (Sequential!Aligned(p) <=> Aligned(p))
            /\ Sequential!SavedPc(p) = SavedPc(p)
  /\ \A c : Sequential!Succ(c) = Succ(c)
  /\ \A i : /\ Sequential!IsJump(i) <=> IsJump(i)
            /\ Sequential!MppWritten(i) = MppWritten(i)
            /\ Sequential!Raises(i) <=> Raised3(i)
BY DEF Sequential!Plus4, Plus4, Sequential!Aligned, Aligned, Sequential!SavedPc, SavedPc, Sequential!Succ, Succ,
       Sequential!IsJump, IsJump, Sequential!MppWritten, MppWritten, Sequential!Raises, Sequential!IsMemory,
       Sequential!AlignOk, Sequential!IsIllegal, IsMemory, AlignOk, IsIllegal, Raised3, Raised2, Raised1

\* What the step that executes an instruction does to the program.
LEMMA Executed ==
  ASSUME SeqInv, NEW dresp, EveryCycle(dresp), Record, Executes
  PROVE  /\ mem_wb.pc = nextPc /\ ArchMode = mode /\ csrSeen' = Succ(csrSeen)
         /\ nextPc' = NextOf(mem_wb)
         /\ CsrActs(mem_wb, Trapped(mem_wb, mode, mie))
         /\ ArchMode' = IF update' THEN newMode' ELSE mode
         /\ mode \in Modes /\ mie \in BOOLEAN
<1>1. PipeInv /\ TypeOK /\ Settling /\ Addresses /\ Chain /\ csrSeen = wb_commit.ctr
  BY DEF SeqInv, OrderInv, ModeInv, PipeInv
<1>2. Settled
  BY <1>1 DEF Settling, Executes
<1>3. csrSeen' = Succ(csrSeen)
  BY <1>1 DEF Chain, Follows, Executes, EveryCycle, CsrStep
<1>4. mem_wb.pc = nextPc
  BY <1>1 DEF Addresses, At, SeqInv, Uninterrupted, BeforeCommit
<1>5. ArchMode = mode /\ mode' = mode
  BY <1>2 DEF ArchMode, Settled, EveryCycle, CsrStep
<1> QED
  BY <1>1, <1>3, <1>4, <1>5 DEF Executes, Record, EveryCycle, CsrStep, ArchMode, TypeOK, CsrTypeOK

\* An instruction that raises an exception, unless it is masked.
LEMMA TrapIsTaken ==
  ASSUME SeqInv, NEW dresp, EveryCycle(dresp), Record, Executes, ArchNext = nextPc, ArchNext' = nextPc',
         mem_wb.trap = Exception, NEW i \in Insts, Raised3(i) \/ ~Aligned(mem_wb.pc), ~(mode = "M" /\ ~mie)
  PROVE  Sequential!TrapTaken(i)
<1>1. LetsTrapThrough(mem_wb, mode, mie)
  BY Executed DEF LetsTrapThrough, Modes
<1>2. Trapped(mem_wb, mode, mie) /\ Redirect(mem_wb, mode, mie) = [taken |-> TRUE, dest |-> Mtvec]
  BY <1>1 DEF Trapped, Redirect, Exception
<1>3. EnterTrap(mem_wb.pc)
  BY <1>2, Executed DEF CsrActs
<1>4. nextPc' = Mtvec
  <2>1. nextPc' = NextOf(mem_wb)
    BY Executed
  <2> QED
    BY <1>2, <2>1 DEF NextOf
<1>5. Sequential!EnterTrap
  BY <1>3, Executed, SameOperators DEF EnterTrap, Sequential!EnterTrap
<1>6. ~Sequential!Masked
  BY Executed DEF Sequential!Masked
<1> QED
  BY <1>4, <1>5, <1>6, Executed, SameOperators DEF Sequential!TrapTaken

\* The CSR unit and the fetch unit when an exception is masked.
LEMMA TrapIsMasked ==
  ASSUME SeqInv, NEW dresp, EveryCycle(dresp), Record, Executes, mem_wb.trap = Exception, mode = "M", ~mie
  PROVE  /\ Sequential!Masked
         /\ mem_wb.inst.kind = "ecall" => EnterTrap(mem_wb.pc)
         /\ mem_wb.inst.kind # "ecall" => UNCHANGED <<mie, mpie, mpp, mepc>> /\ ArchMode' = ArchMode
         /\ nextPc' = IF Aligned(mem_wb.pc) THEN Plus4(mem_wb.pc) ELSE Plus4(fpc)
<1>1. NoneIllegal /\ Entry /\ Latched
  BY DEF SeqInv, OrderInv, ModeInv
<1>2. mem_wb.trap.valid /\ mem_wb.trap.exc
  BY DEF Exception
<1>3. Serializes(mem_wb)
  BY <1>1, <1>2 DEF Serializes, NoneIllegal, BeforeCommit
<1>4. ~trapLatch /\ ~jumpLatch.taken
  BY <1>1, <1>3 DEF Latched
<1>5. ~LetsTrapThrough(mem_wb, mode, mie)
  BY <1>2 DEF LetsTrapThrough
<1>6. ~Trapped(mem_wb, mode, mie) /\ Redirect(mem_wb, mode, mie) = jumpLatch
  BY <1>2, <1>4, <1>5 DEF Trapped, Redirect
<1>7. mem_wb.inst.kind \in {"alu", "load", "store", "bad_sys", "ecall"}
  BY <1>1, <1>2 DEF Entry, Trapping, BeforeCommit
<1>8. mem_wb.inst.kind # "ecall" => WriteCsr(mem_wb.inst)
  BY <1>6, <1>7, Executed DEF CsrActs
<1>9. mem_wb.inst.kind = "ecall" => EnterTrap(mem_wb.pc)
  BY Executed DEF CsrActs
<1>10. nextPc' = IF Aligned(mem_wb.pc) THEN Plus4(mem_wb.pc) ELSE Plus4(fpc)
  BY <1>4, <1>6, Executed DEF NextOf
<1>11. WriteCsr(mem_wb.inst) => UNCHANGED <<mie, mpie, mpp, mepc>> /\ ~update'
  BY <1>7 DEF WriteCsr
<1>12. Sequential!Masked
  BY Executed DEF Sequential!Masked
<1> QED
  BY <1>8, <1>9, <1>10, <1>11, <1>12, Executed

\* An instruction without a trap.
LEMMA PlainExecution ==
  ASSUME SeqInv, NEW dresp, EveryCycle(dresp), Record, Executes, ArchNext = nextPc, ArchNext' = nextPc',
         mem_wb.trap = NoTrap, Aligned(mem_wb.pc), NEW i \in Insts, ~Raised3(i),
         i.kind = mem_wb.inst.kind, i.flag = mem_wb.inst.flag,
         mem_wb.inst.dest = i.dest \/ mem_wb.inst.kind = "mret"
  PROVE  Sequential!FallThrough(i) \/ Sequential!TakeJump(i) \/ Sequential!Mret(i)
<1>1. ~mem_wb.trap.valid
  BY DEF NoTrap
<1>2. /\ ~Trapped(mem_wb, mode, mie)
      /\ Redirect(mem_wb, mode, mie) = [taken |-> IsJump(mem_wb.inst), dest |-> mem_wb.inst.dest]
  BY <1>1 DEF Trapped, Redirect
<1>3. i.kind # "ecall"
  BY DEF Raised3, Raised2
<1>4. nextPc' = IF IsJump(mem_wb.inst) THEN mem_wb.inst.dest ELSE Plus4(mem_wb.pc)
  BY <1>2, Executed DEF NextOf
<1>5. /\ Sequential!Aligned(ArchNext) /\ ~Sequential!Raises(i) /\ ArchNext = mem_wb.pc
      /\ (Sequential!IsJump(i) <=> IsJump(i)) /\ Sequential!MppWritten(i) = MppWritten(i)
      /\ Sequential!Plus4(ArchNext) = Plus4(mem_wb.pc)
  <2>1. ArchNext = mem_wb.pc
    BY Executed
  <2>2. Sequential!Aligned(ArchNext)
    BY <2>1, SameOperators
  <2>3. Sequential!Raises(i) <=> Raised3(i)
    BY SameOperators, Zenon
  <2>4. (Sequential!IsJump(i) <=> IsJump(i)) /\ Sequential!MppWritten(i) = MppWritten(i)
    BY SameOperators, Zenon
  <2>5. Sequential!Plus4(mem_wb.pc) = Plus4(mem_wb.pc)
    BY SameOperators, Zenon
  <2> QED
    BY <2>1, <2>2, <2>3, <2>4, <2>5
<1>6. CASE i.kind = "mret"
  <2>1. ReturnFromTrap
    BY <1>2, <1>6, Executed DEF CsrActs
  <2>2. nextPc' = mepc
    BY <1>4, <1>6 DEF IsJump, SeqInv, ReturnsTo
  <2>3. ArchMode' = mpp
    BY <2>1, Executed DEF ReturnFromTrap
  <2> QED
    BY <1>5, <1>6, <2>1, <2>2, <2>3 DEF ReturnFromTrap, Sequential!Mret
<1>7. CASE i.kind # "mret"
  <2>1. WriteCsr(mem_wb.inst)
    BY <1>2, <1>3, <1>7, Executed DEF CsrActs
  <2>2. ArchMode' = ArchMode
    BY <2>1, Executed DEF WriteCsr
  <2>3. MppWritten(mem_wb.inst) = MppWritten(i) /\ mem_wb.inst.dest = i.dest
    BY <1>7 DEF MppWritten
  <2>4. CASE i.kind = "jump"
    BY <1>4, <1>5, <2>1, <2>2, <2>3, <2>4 DEF IsJump, WriteCsr, Sequential!TakeJump
  <2>5. CASE i.kind # "jump"
    <3>1. ~IsJump(i) /\ ~IsJump(mem_wb.inst)
      BY <1>3, <1>7, <2>5 DEF IsJump
    <3> QED
      BY <1>4, <1>5, <2>1, <2>2, <2>3, <3>1 DEF WriteCsr, Sequential!FallThrough
  <2> QED
    BY <2>4, <2>5
<1> QED
  BY <1>6, <1>7

LEMMA EdgeIsStep ==
  ASSUME SeqInv, ArchNext = nextPc, ArchNext' = nextPc', [HistoryNext]_historyVars
  PROVE  [Sequential!Step]_(Sequential!vars)
<1>1. CASE UNCHANGED historyVars
  BY <1>1 DEF historyVars, vars, csrVars, Sequential!vars, ArchMode
<1>2. ASSUME NEW dresp, EveryCycle(dresp), Record, ~Executes
      PROVE  UNCHANGED Sequential!vars
  <2>1. UNCHANGED <<newMode, update, mie, mpie, mpp, mepc, csrSeen, nextPc>>
    BY <1>2 DEF Executes, EveryCycle, CsrStep, Record
  <2>2. ArchMode' = ArchMode
    BY <1>2, <2>1 DEF ArchMode, EveryCycle, CsrStep
  <2> QED
    BY <2>1, <2>2 DEF Sequential!vars
<1>3. ASSUME NEW dresp, EveryCycle(dresp), Record, Executes
      PROVE  Sequential!Step
  <2>1. csrSeen' = Sequential!Succ(csrSeen) /\ mem_wb.pc = nextPc /\ mode \in Modes /\ mie \in BOOLEAN
    BY <1>3, Executed, SameOperators
  <2>2. Origin(mem_wb, Raised3(mem_wb.inst))
    BY <1>3 DEF SeqInv, Origins
  <2> SUFFICES \/ Sequential!MaskedTarget
               \/ \E i \in Insts : \/ Sequential!TrapTaken(i)
                                   \/ Sequential!MaskedException(i)
                                   \/ Sequential!FallThrough(i)
                                   \/ Sequential!TakeJump(i)
                                   \/ Sequential!Mret(i)
    BY <2>1 DEF Sequential!Step
  <2>3. CASE Fake(mem_wb)
    <3>1. mem_wb.trap = Exception /\ ~Aligned(mem_wb.pc) /\ mem_wb.inst.kind = "alu"
      BY <2>3 DEF Fake, Nop
    <3>2. CASE mode = "M" /\ ~mie
      <4>1. nextPc' = Plus4(fpc) /\ Sequential!Masked
            /\ UNCHANGED <<mie, mpie, mpp, mepc>> /\ ArchMode' = ArchMode
        BY <1>3, <3>1, <3>2, TrapIsMasked
      <4>2. Aligned(Plus4(fpc)) /\ Plus4(fpc) \in Pcs
        <5>1. Aligned(fpc) /\ fpc \in Pcs
          BY DEF SeqInv, OrderInv, FetchAt, ModeInv, PipeInv, TypeOK, FetchTypeOK
        <5>2. Aligned(Plus4(fpc))
          BY <5>1, WordsAssumption DEF Aligned, Plus4, Pcs
        <5> QED
          BY <5>1, <5>2, Plus4Type
      <4>3. Sequential!Pcs = Pcs /\ ~Sequential!Aligned(ArchNext) /\ Sequential!Aligned(Plus4(fpc))
        BY <2>1, <3>1, <4>2, SameOperators DEF Sequential!Pcs, Pcs
      <4> QED
        BY <4>1, <4>2, <4>3 DEF Sequential!MaskedTarget
    <3>3. CASE ~(mode = "M" /\ ~mie)
      <4>1. PICK i \in Insts : TRUE
        BY InstsAssumption
      <4> QED
        BY <1>3, <3>1, <3>3, <4>1, TrapIsTaken
    <3> QED
      BY <3>2, <3>3
  <2>4. CASE ~Fake(mem_wb)
    <3>1. /\ Aligned(mem_wb.pc) /\ FromMemory(mem_wb.inst)
          /\ mem_wb.trap = IF Raised3(mem_wb.inst) THEN Exception ELSE NoTrap
      BY <2>2, <2>4 DEF Origin
    <3>2. PICK i \in Insts : /\ i.kind = mem_wb.inst.kind /\ i.flag = mem_wb.inst.flag
                             /\ mem_wb.inst.dest = i.dest \/ mem_wb.inst.kind = "mret"
      BY <3>1 DEF FromMemory
    <3>3. Raised3(i) <=> Raised3(mem_wb.inst)
      <4>1. AlignOk(i) <=> AlignOk(mem_wb.inst)
        BY <3>2, Zenon DEF AlignOk, IsMemory
      <4> QED
        BY <3>2, <4>1 DEF Raised3, Raised2, Raised1, IsMemory, IsIllegal
    <3>4. CASE Raised3(i) /\ ~(mode = "M" /\ ~mie)
      BY <1>3, <3>1, <3>3, <3>4, TrapIsTaken
    <3>5. CASE Raised3(i) /\ mode = "M" /\ ~mie
      <4>1. /\ Sequential!Masked /\ nextPc' = Plus4(mem_wb.pc)
            /\ mem_wb.inst.kind = "ecall" => EnterTrap(mem_wb.pc)
            /\ mem_wb.inst.kind # "ecall" => UNCHANGED <<mie, mpie, mpp, mepc>> /\ ArchMode' = ArchMode
        <5>1. mem_wb.trap = Exception
          BY <3>1, <3>3, <3>5
        <5> QED
          BY <1>3, <3>1, <3>5, <5>1, TrapIsMasked
      <4>2. ASSUME i.kind = "ecall" PROVE Sequential!EnterTrap
        <5>1. EnterTrap(mem_wb.pc) /\ ArchMode = mode /\ ArchMode' = IF update' THEN newMode' ELSE mode
          BY <1>3, <3>2, <4>1, <4>2, Executed
        <5> QED
          BY <2>1, <5>1, SameOperators DEF EnterTrap, Sequential!EnterTrap
      <4>3. Sequential!Aligned(ArchNext) /\ Sequential!Raises(i) /\ ArchNext' = Sequential!Plus4(ArchNext)
        BY <2>1, <3>1, <3>5, <4>1, SameOperators
      <4>4. Sequential!MaskedException(i)
        BY <3>2, <4>1, <4>2, <4>3 DEF Sequential!MaskedException
      <4> QED
        BY <3>2, <4>4
    <3>6. CASE ~Raised3(i)
      <4>1. mem_wb.trap = NoTrap
        BY <3>1, <3>3, <3>6
      <4>2. Sequential!FallThrough(i) \/ Sequential!TakeJump(i) \/ Sequential!Mret(i)
        BY <1>3, <3>1, <3>2, <3>6, <4>1, PlainExecution
      <4> QED
        BY <3>2, <4>2
    <3> QED
      BY <3>4, <3>5, <3>6
  <2> QED
    BY <2>3, <2>4
<1>4. HistoryNext => Record /\ \E dresp : EveryCycle(dresp)
  BY DEF HistoryNext, Next, Advance, InstructionArrives, DataArrives, Hold
<1> QED
  BY <1>1, <1>2, <1>3, <1>4

\* A program runs on the pipeline as on a machine that executes one instruction after
\* the other, completely: registers that steer the program, traps, masked exceptions,
\* returns and misaligned targets included, whatever the delays of the buses
\* (riscv.sv, fetch.sv, csr.sv, writeback.sv). This is for every program without unknown
\* opcodes, and with no interrupt enabled.
THEOREM PipelineIsSequential ==
  KnownOpcodes /\ NoInterrupts => (HistorySpec => ImplementsSequential)
<1> SUFFICES ASSUME KnownOpcodes, NoInterrupts PROVE HistorySpec => ImplementsSequential
  OBVIOUS
<1> DEFINE Next0 == ArchNext = nextPc
<1>1. HistoryInit => SeqInv
  BY SeqInitially
<1>2. SeqInv /\ [HistoryNext]_historyVars => SeqInv'
  BY SeqInvStep
<1>3. SeqInv => Next0
  BY NextIsNext DEF SeqInv
<1>4. HistoryInit /\ SeqInv /\ Next0 => Sequential!Init
  BY SeqInitially DEF HistoryInit, Init, CsrInit, ArchMode, Sequential!Init, Sequential!PcInit, PcInit
<1>5. SeqInv /\ Next0 /\ Next0' /\ [HistoryNext]_historyVars => [Sequential!Step]_(Sequential!vars)
  BY EdgeIsStep
<1> HIDE DEF Next0
<1> QED
  BY <1>1, <1>2, <1>3, <1>4, <1>5, PTL DEF HistorySpec, ImplementsSequential, Sequential!Spec
=============================================================================
