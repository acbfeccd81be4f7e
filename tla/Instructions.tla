---------------------------- MODULE Instructions ----------------------------
(***************************************************************************)
(* What the pipeline control of the core can tell about an instruction,    *)
(* and the records that travel through the pipeline registers              *)
(* (src/vsrc/include/temp_storage.sv, combined_wire.sv).                   *)
(*                                                                         *)
(* Addresses are counted in units of two bytes and wrap at 2 * Words, so   *)
(* an instruction word takes two units and an odd address is misaligned.   *)
(* Operand values are abstracted: an instruction record already says where *)
(* a taken jump goes, whether a memory address is aligned and what a CSR   *)
(* write writes.                                                           *)
(***************************************************************************)
EXTENDS Naturals

CONSTANTS
  Words,       \* instruction words of the address space (bound)
  CounterMod,  \* values of the instruction counter before it wraps (2^64 in the code)
  Mtvec,       \* trap vector, programmed once by the boot code
  PatchedPc,   \* the address csr.sv singles out when it saves mepc
  Insts,       \* the instructions the memory may return
  Lines,       \* interrupt lines that exist: some of "swint", "trint", "exint"
  EnabledLines \* the lines whose bit in mie is set

Pcs      == 0 .. 2 * Words - 1
Counters == 0 .. CounterMod - 1
Modes    == {"M", "U"}

Kinds == {"alu",      \* computes and falls through
          "jump",     \* jal, jalr, or a branch that is taken
          "serial",   \* falls through, but fetch stalls: a branch that is not taken,
                      \* a CSR instruction other than the ones below
          "load", "store",
          "csr_mie",  \* CSR instruction that changes mstatus.MIE to flag
          "csr_mpie", \* ... mstatus.MPIE to flag
          "csr_mpp",  \* ... mstatus.MPP to M mode if flag, to U mode otherwise
          "csr_mepc", \* ... mepc to dest
          "ecall", "mret",
          "illegal",  \* opcode unknown to parse_instruction
          "bad_sys"}  \* illegal, but with one of the opcodes the fetch unit stalls on

InstRecords == [kind: Kinds, dest: Pcs, flag: BOOLEAN]

ASSUME WordsAssumption   == Words \in Nat \ {0, 1}
ASSUME CounterAssumption == CounterMod \in Nat \ (0 .. 6)
ASSUME VectorAssumption  == Mtvec \in Pcs /\ Mtvec % 2 = 0 /\ PatchedPc \in Nat
ASSUME InstsAssumption   == Insts \subseteq InstRecords /\ Insts # {}
ASSUME LinesAssumption   == EnabledLines \subseteq Lines /\ Lines \subseteq {"swint", "trint", "exint"}

(***************************************************************************)
(* Arithmetic of the program counter and of the instruction counter.       *)
(***************************************************************************)
Plus4(p) == IF p + 2 >= 2 * Words THEN p + 2 - 2 * Words ELSE p + 2

PcInit == 0
\* PCINIT - 4, where the fetch unit starts counting from.
BeforePcInit == 2 * Words - 2

Aligned(p) == p % 2 = 0

\* Mutant: the counter has one bit too many.
SuccNoWrap(c) == c + 1

Succ(c) == IF c = CounterMod - 1 THEN 0 ELSE c + 1

(***************************************************************************)
(* Instruction classes.                                                    *)
(***************************************************************************)
Nop == [kind |-> "alu", dest |-> 0, flag |-> FALSE]

\* Mutant: loads are missing from the list of opcodes.
StallsFetchNotLoads(i) == i.kind \in Kinds \ {"alu", "illegal", "load"}

\* The opcodes fetch.sv stalls on: branch, jal, jalr, load, store and system.
StallsFetch(i) ==
  i.kind \in Kinds \ {"alu", "illegal"}

IsMemory(i)  == i.kind \in {"load", "store"}
IsIllegal(i) == i.kind \in {"illegal", "bad_sys"}
IsJump(i)    == i.kind \in {"jump", "ecall", "mret"}

MppWritten(i) == IF i.flag THEN "M" ELSE "U"

\* align_check accepts nothing but a memory instruction with an aligned address.
AlignOk(i) == IsMemory(i) /\ i.flag

(***************************************************************************)
(* Pipeline records.                                                       *)
(***************************************************************************)
Traps == [valid: BOOLEAN, exc: BOOLEAN]
NoTrap    == [valid |-> FALSE, exc |-> FALSE]
Exception == [valid |-> TRUE,  exc |-> TRUE]

Jumps == [taken: BOOLEAN, dest: Pcs]
NoJump == [taken |-> FALSE, dest |-> 0]

\* if_id, id_ex, ex_mem and mem_wb keep the same control fields.
Entries == [inst: InstRecords, pc: Pcs, ctr: Counters, trap: Traps]
ZeroEntry == [inst |-> Nop, pc |-> 0, ctr |-> 0, trap |-> NoTrap]

Commits == [inst: InstRecords, pc: Pcs, ctr: Counters, jump: Jumps]
ZeroCommit == [inst |-> Nop, pc |-> 0, ctr |-> 0, jump |-> NoJump]
=============================================================================
