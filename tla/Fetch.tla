------------------------------- MODULE Fetch -------------------------------
(***************************************************************************)
(* The fetch unit (src/vsrc/src/fetch/fetch.sv): it issues one instruction *)
(* request at a time, numbers every instruction, stalls behind the ones    *)
(* that may redirect the program and turns interrupts and misaligned       *)
(* targets into numbered no-operations that carry a trap.                  *)
(*                                                                         *)
(* ireq.valid rises and falls with waiting, so waiting stands for both.    *)
(***************************************************************************)
EXTENDS Instructions

VARIABLES
  fpc,      \* _pc
  lastPc,   \* last_pc, the address of the outstanding or last request
  waiting,  \* waiting, and ireq.valid
  stall,
  awokener, \* stall_awokener
  counter,  \* current_inst_counter
  fout,     \* the registered output if_id_state
  handling  \* current_int_handling: the line whose interrupt is being handled, or "none"

fetchVars == <<fpc, lastPc, waiting, stall, awokener, counter, fout, handling>>

FetchTypeOK ==
  /\ fpc \in Pcs
  /\ lastPc \in Pcs
  /\ waiting \in BOOLEAN
  /\ stall \in BOOLEAN
  /\ awokener \in Counters
  /\ counter \in Counters
  /\ fout \in Entries
  /\ handling \in Lines \cup {"none"}

FetchInit ==
  /\ fpc = BeforePcInit
  /\ lastPc = BeforePcInit
  /\ waiting = FALSE
  /\ stall = FALSE
  /\ awokener = 0
  /\ counter = 0
  /\ fout = [ZeroEntry EXCEPT !.pc = PcInit]
  /\ handling = "none"

FetchOk == ~waiting

\* Mutant: the fetch unit wakes up one instruction too early.
AwakeEarly(wbCounter) == ~stall \/ Succ(wbCounter) = awokener

\* Mutant: the fetch unit waits for the instruction after the one it stalls on.
AwakeLate(wbCounter) == ~stall \/ wbCounter = Succ(awokener)

\* The fetch unit may go on: it is not stalled, or what it waits for commits.
Awake(wbCounter) == ~stall \/ wbCounter = awokener

\* An enabled interrupt is taken in U mode, and in M mode while mstatus.MIE is set.
InterruptPending(lines, mode, mie) ==
  /\ (mode = "M" /\ mie) \/ mode = "U"
  /\ lines \cap EnabledLines # {}
  /\ handling = "none"

MisalignedTarget(jump) == (jump.taken /\ ~Aligned(jump.dest)) \/ ~Aligned(fpc)

\* current_int_handling is only forgotten in a cycle that finds every line low.
StillHandling(lines) == IF lines = {} THEN "none" ELSE handling

\* Software before timer before external.
FirstInterrupt(lines) ==
  LET pending == lines \cap EnabledLines
  IN  CASE "swint" \in pending -> "swint"
        [] "swint" \notin pending /\ "trint" \in pending -> "trint"
        [] OTHER -> "exint"

(***************************************************************************)
(* The branches of the clocked block. The first four are taken when the    *)
(* whole pipeline advances, the last two when it does not.                 *)
(***************************************************************************)
NumberFakeNop(trap, pc) ==
  /\ fout' = [inst |-> Nop, pc |-> pc, ctr |-> Succ(counter), trap |-> trap]
  /\ counter' = Succ(counter)
  /\ stall' = TRUE
  /\ awokener' = Succ(counter)
  /\ UNCHANGED <<fpc, lastPc, waiting>>

\* Mutant: an interrupt does not wait for the stalled instruction.
TakeInterruptAtOnce(lines, mode, mie, wbCounter) ==
  /\ InterruptPending(lines, mode, mie)
  /\ NumberFakeNop([valid |-> TRUE, exc |-> fout.trap.exc], fout.pc)
  /\ handling' = FirstInterrupt(lines)

\* The fake no-operation keeps the address of the instruction fetched last.
TakeInterrupt(lines, mode, mie, wbCounter) ==
  /\ Awake(wbCounter)
  /\ InterruptPending(lines, mode, mie)
  /\ NumberFakeNop([valid |-> TRUE, exc |-> fout.trap.exc], fout.pc)
  /\ handling' = FirstInterrupt(lines)

TrapMisalignedTarget(jump, lines, mode, mie, wbCounter) ==
  /\ Awake(wbCounter)
  /\ ~InterruptPending(lines, mode, mie)
  /\ MisalignedTarget(jump)
  /\ NumberFakeNop(Exception, IF jump.taken THEN jump.dest ELSE Plus4(fpc))
  /\ handling' = StillHandling(lines)

\* Mutant: _pc forgets the jump it followed.
IssueFetchKeepsPc(jump, lines, mode, mie, wbCounter) ==
  /\ Awake(wbCounter)
  /\ ~InterruptPending(lines, mode, mie)
  /\ ~MisalignedTarget(jump)
  /\ fpc' = Plus4(fpc)
  /\ lastPc' = IF jump.taken THEN jump.dest ELSE Plus4(fpc)
  /\ waiting' = TRUE
  /\ stall' = FALSE
  /\ fout' = [fout EXCEPT !.trap = NoTrap]
  /\ handling' = StillHandling(lines)
  /\ UNCHANGED <<awokener, counter>>

IssueFetch(jump, lines, mode, mie, wbCounter) ==
  /\ Awake(wbCounter)
  /\ ~InterruptPending(lines, mode, mie)
  /\ ~MisalignedTarget(jump)
  /\ LET target == IF jump.taken THEN jump.dest ELSE Plus4(fpc)
     IN  fpc' = target /\ lastPc' = target
  /\ waiting' = TRUE
  /\ stall' = FALSE
  /\ fout' = [fout EXCEPT !.trap = NoTrap]
  /\ handling' = StillHandling(lines)
  /\ UNCHANGED <<awokener, counter>>

\* A bubble keeps the number and the address of the instruction before it.
SendBubble(lines, wbCounter) ==
  /\ ~Awake(wbCounter)
  /\ fout' = [fout EXCEPT !.inst = Nop, !.trap = NoTrap]
  /\ handling' = StillHandling(lines)
  /\ UNCHANGED <<fpc, lastPc, waiting, stall, awokener, counter>>

\* Mutant: the awokener is the number before the instruction's own.
ReceiveWrongAwokener(inst) ==
  /\ fout' = [inst |-> inst, pc |-> lastPc, ctr |-> Succ(counter), trap |-> NoTrap]
  /\ counter' = Succ(counter)
  /\ stall' = StallsFetch(inst)
  /\ awokener' = IF StallsFetch(inst) THEN counter ELSE awokener
  /\ waiting' = FALSE
  /\ UNCHANGED <<fpc, lastPc, handling>>

Receive(inst) ==
  /\ fout' = [inst |-> inst, pc |-> lastPc, ctr |-> Succ(counter), trap |-> NoTrap]
  /\ counter' = Succ(counter)
  /\ stall' = StallsFetch(inst)
  /\ awokener' = IF StallsFetch(inst) THEN Succ(counter) ELSE awokener
  /\ waiting' = FALSE
  /\ UNCHANGED <<fpc, lastPc, handling>>

FetchHolds == UNCHANGED fetchVars
=============================================================================
