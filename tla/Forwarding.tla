----------------------------- MODULE Forwarding -----------------------------
(***************************************************************************)
(* The way of register values through the pipeline: the register file, the *)
(* operand reads of the decoder and the forwarding paths                   *)
(* (src/vsrc/src/regs.sv, decode/decoder.sv, execute/execute.sv,           *)
(* memory/memory.sv, writeback/writeback.sv). A step is an edge at which   *)
(* the pipeline registers move: between two of them nothing is stored.     *)
(*                                                                         *)
(* What the control of the pipeline decides comes in as an assumption: the *)
(* theorem NoFlushNeeded says that nothing follows an instruction the      *)
(* fetch unit stalls on before that one has left mem_wb.                   *)
(***************************************************************************)
EXTENDS Naturals

CONSTANTS
  Registers, \* register numbers, with 0 (bound)
  Modulus,   \* values are 0 .. Modulus - 1 (bound; 2^64 in the code)
  Program    \* the instructions that may be fetched

Values == 0 .. Modulus - 1

\* "link" is jal, jalr or a CSR instruction: it writes rd, and fetch stalls on it.
Kinds == {"nop", "arith", "auipc", "load", "store", "link"}

\* imm is also what a load finds in memory and what auipc and link compute.
InstRecords == [kind: Kinds, rd: Registers, rs1: Registers, rs2: Registers, imm: Values]

ASSUME RegistersAssumption == 0 \in Registers
ASSUME ModulusAssumption   == Modulus \in Nat \ {0}
ASSUME ProgramAssumption   == Program \subseteq InstRecords

Bubble == [kind |-> "nop", rd |-> 0, rs1 |-> 0, rs2 |-> 0, imm |-> 0]

WritesReg(i)     == i.kind \in {"arith", "auipc", "load", "link"} \* is_write_reg
IsArith(i)       == i.kind = "arith"                              \* is_arith: forwardable from EX
StallsFetch(i)   == i.kind \in {"load", "store", "link"}

VARIABLES
  regs,
  if_id,  \* an instruction
  id_ex,  \* [inst, value1, value2]: reg1_value and reg2_value
  ex_mem, \* [inst, result, store]: alu_result and write_mem_data
  mem_wb, \* [inst, value]
  \* What program order says (ghosts): the registers after the instruction in
  \* if_id, and the operands of the instructions in the four pipeline registers.
  arch,
  want    \* a sequence of four, the youngest first

vars == <<regs, if_id, id_ex, ex_mem, mem_wb, arch, want>>

RegFiles == [Registers -> Values]
Wants == [op1: Values, op2: Values]

TypeOK ==
  /\ regs \in RegFiles /\ arch \in RegFiles
  /\ if_id \in InstRecords
  /\ id_ex \in [inst: InstRecords, value1: Values, value2: Values]
  /\ ex_mem \in [inst: InstRecords, result: Values, store: Values]
  /\ mem_wb \in [inst: InstRecords, value: Values]
  /\ want \in [1 .. 4 -> Wants]

Init ==
  /\ regs = [r \in Registers |-> 0]
  /\ if_id = Bubble
  /\ id_ex = [inst |-> Bubble, value1 |-> 0, value2 |-> 0]
  /\ ex_mem = [inst |-> Bubble, result |-> 0, store |-> 0]
  /\ mem_wb = [inst |-> Bubble, value |-> 0]
  /\ arch = regs
  /\ want = [k \in 1 .. 4 |-> [op1 |-> 0, op2 |-> 0]]

(***************************************************************************)
(* Forwarding paths: reg_writer records.                                   *)
(***************************************************************************)
Writer(enable, rd, data) == [reg_write_enable |-> enable, reg_dest_addr |-> rd, reg_write_data |-> data]

Hits(forward, r) == forward.reg_write_enable /\ forward.reg_dest_addr # 0 /\ forward.reg_dest_addr = r

\* Write port of the register file; register 0 stays 0.
Written(file, forward) ==
  IF Hits(forward, forward.reg_dest_addr)
  THEN [file EXCEPT ![forward.reg_dest_addr] = forward.reg_write_data]
  ELSE file

WbForward == Writer(WritesReg(mem_wb.inst), mem_wb.inst.rd, mem_wb.value)

\* Mutant: loads pass on the address.
MemValueOfAlu == ex_mem.result

MemValue == IF ex_mem.inst.kind = "load" THEN ex_mem.inst.imm ELSE ex_mem.result

MemForward == Writer(WritesReg(ex_mem.inst), ex_mem.inst.rd, MemValue)

\* Mutant: the older of two writers wins.
OperandOldestFirst(r, decoded) ==
  IF Hits(WbForward, r) THEN WbForward.reg_write_data
  ELSE IF Hits(MemForward, r) THEN MemForward.reg_write_data
  ELSE decoded

\* The operands execute works with.
Operand(r, decoded) ==
  IF Hits(MemForward, r) THEN MemForward.reg_write_data
  ELSE IF Hits(WbForward, r) THEN WbForward.reg_write_data
  ELSE decoded

Op1 == Operand(id_ex.inst.rs1, id_ex.value1)
Op2 == Operand(id_ex.inst.rs2, id_ex.value2)

\* Mutant: the sum is wider than a register.
AluResultWide(i, op1, op2) ==
  CASE i.kind = "arith" -> op1 + op2 + i.imm
    [] i.kind \in {"load", "store"} -> op1 + i.imm
    [] OTHER -> i.imm

\* All the control can tell of an ALU result is which operands it is made of.
AluResult(i, op1, op2) ==
  CASE i.kind = "arith" -> (op1 + op2 + i.imm) % Modulus
    [] i.kind \in {"load", "store"} -> (op1 + i.imm) % Modulus
    [] OTHER -> i.imm

ExForward == Writer(IsArith(id_ex.inst), id_ex.inst.rd, AluResult(id_ex.inst, Op1, Op2))

\* Mutant: the decoder does not see the execute stage.
RegValueNoExForward(r) == Operand(r, regs[r])

\* The operands the decoder reads.
RegValue(r) == IF Hits(ExForward, r) THEN ExForward.reg_write_data ELSE Operand(r, regs[r])

(***************************************************************************)
(* One move of the pipeline registers.                                     *)
(***************************************************************************)
FollowsStall == \E i \in {if_id, id_ex.inst, ex_mem.inst, mem_wb.inst} : StallsFetch(i)

\* What the instruction does to the registers in program order.
Result(i, op1, op2) == IF i.kind = "load" THEN i.imm ELSE AluResult(i, op1, op2)

Enters(i) ==
  /\ if_id' = i
  /\ arch' = Written(arch, Writer(WritesReg(i), i.rd, Result(i, arch[i.rs1], arch[i.rs2])))
  /\ want' = [k \in 1 .. 4 |-> IF k = 1 THEN [op1 |-> arch[i.rs1], op2 |-> arch[i.rs2]] ELSE want[k - 1]]

\* A store takes reg2_value as it was decoded, not Op2.
Moves ==
  /\ id_ex' = [inst |-> if_id, value1 |-> RegValue(if_id.rs1), value2 |-> RegValue(if_id.rs2)]
  /\ ex_mem' = [inst |-> id_ex.inst, result |-> AluResult(id_ex.inst, Op1, Op2), store |-> id_ex.value2]
  /\ mem_wb' = [inst |-> ex_mem.inst, value |-> MemValue]
  /\ regs' = Written(regs, WbForward)

EnterInstruction == ~FollowsStall /\ (\E i \in Program : Enters(i)) /\ Moves

EnterBubble == Enters(Bubble) /\ Moves

Next == EnterInstruction \/ EnterBubble

Spec == Init /\ [][Next]_vars

(***************************************************************************)
(* Properties.                                                             *)
(***************************************************************************)
\* Whatever distance an operand's last writer has, execute computes with the
\* value program order gives it (decoder.sv:66-73, execute.sv:50-55).
OperandsFresh ==
  /\ id_ex.inst.kind \in {"arith", "load", "store"} => Op1 = want[2].op1
  /\ id_ex.inst.kind = "arith" => Op2 = want[2].op2

\* The register file and the writes on their way to it make up the registers of
\* program order (riscv.sv:96, regs.sv).
InFlight(file, i, w) == Written(file, Writer(WritesReg(i), i.rd, Result(i, w.op1, w.op2)))

RegistersFollow ==
  InFlight(InFlight(InFlight(InFlight(regs,
    mem_wb.inst, want[4]), ex_mem.inst, want[3]), id_ex.inst, want[2]), if_id, want[1]) = arch

\* A store writes the value program order gives its register.
StoreDataFresh == ex_mem.inst.kind = "store" => ex_mem.store = want[3].op2

\* The one exception: right behind an auipc, whose result no path brings to the
\* decoder in time (execute.sv:110, is_arith).
StaleStoreOnlyAfterAuipc ==
  ex_mem.inst.kind = "store" /\ ex_mem.store # want[3].op2
    => mem_wb.inst.kind = "auipc" /\ mem_wb.inst.rd = ex_mem.inst.rs2
=============================================================================
