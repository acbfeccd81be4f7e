-------------------------- MODULE ForwardingProofs --------------------------
(***************************************************************************)
(* Forwarding is right for every register file, every width and every      *)
(* program. The inductive invariant compares each pipeline register with   *)
(* the registers as program order has them before its instruction: the     *)
(* register file with the writes of the older instructions added.          *)
(***************************************************************************)
EXTENDS Forwarding, TLAPS

\* The registers before the instructions in mem_wb, ex_mem, id_ex and if_id.
Before4 == regs
Before3 == InFlight(Before4, mem_wb.inst, want[4])
Before2 == InFlight(Before3, ex_mem.inst, want[3])
Before1 == InFlight(Before2, id_ex.inst, want[2])

Alters(i, r) == WritesReg(i) /\ i.rd # 0 /\ i.rd = r

\* The decoder does not see what such an instruction in the execute stage writes.
Unseen(i, r) == Alters(i, r) /\ ~IsArith(i)

\* An operand is what the registers hold before the instruction.
Reads(w, i, file) == w.op1 = file[i.rs1] /\ w.op2 = file[i.rs2]

Operands ==
  /\ Reads(want[4], mem_wb.inst, Before4)
  /\ Reads(want[3], ex_mem.inst, Before3)
  /\ Reads(want[2], id_ex.inst, Before2)
  /\ Reads(want[1], if_id, Before1)

\* What is on its way to the register file is the result in program order.
Results ==
  /\ WritesReg(mem_wb.inst) => mem_wb.value = Result(mem_wb.inst, want[4].op1, want[4].op2)
  /\ WritesReg(ex_mem.inst) => MemValue = Result(ex_mem.inst, want[3].op1, want[3].op2)

\* A decoded value is right, or the instruction before writes it unseen.
Decoded ==
  /\ id_ex.value1 = Before2[id_ex.inst.rs1] \/ Unseen(ex_mem.inst, id_ex.inst.rs1)
  /\ id_ex.value2 = Before2[id_ex.inst.rs2] \/ Unseen(ex_mem.inst, id_ex.inst.rs2)

StoreData == ex_mem.store = Before3[ex_mem.inst.rs2] \/ Unseen(mem_wb.inst, ex_mem.inst.rs2)

\* Nothing but bubbles follows an instruction the fetch unit stalls on.
Stalled ==
  /\ StallsFetch(id_ex.inst) => if_id = Bubble
  /\ StallsFetch(ex_mem.inst) => if_id = Bubble /\ id_ex.inst = Bubble
  /\ StallsFetch(mem_wb.inst) => if_id = Bubble /\ id_ex.inst = Bubble /\ ex_mem.inst = Bubble

FwdInv == TypeOK /\ RegistersFollow /\ Operands /\ Results /\ Decoded /\ StoreData /\ Stalled

(***************************************************************************)
(* Lemmas about the operators.                                             *)
(***************************************************************************)
\* A result has the width of a register.
LEMMA ResultIsValue ==
  ASSUME NEW i \in InstRecords, NEW op1 \in Values, NEW op2 \in Values
  PROVE  AluResult(i, op1, op2) \in Values /\ Result(i, op1, op2) \in Values
<1>1. \A n \in Nat : n % Modulus \in Values
  BY ModulusAssumption DEF Values
<1>2. i.imm \in Values /\ Values \subseteq Nat
  BY ModulusAssumption DEF InstRecords, Values
<1>5. op1 \in Nat /\ op2 \in Nat /\ i.imm \in Nat
  BY <1>2
<1>3. op1 + op2 + i.imm \in Nat /\ op1 + i.imm \in Nat
  BY <1>5
<1>4. AluResult(i, op1, op2) \in Values
  BY <1>1, <1>2, <1>3 DEF AluResult
<1> QED
  BY <1>2, <1>4 DEF Result

\* The write port changes the one register it is told to, and never register 0.
LEMMA WrittenRegister ==
  ASSUME NEW file \in RegFiles, NEW en \in BOOLEAN, NEW rd \in Registers, NEW v \in Values,
         NEW r \in Registers
  PROVE  /\ Written(file, Writer(en, rd, v)) \in RegFiles
         /\ Written(file, Writer(en, rd, v))[r] = IF en /\ rd # 0 /\ rd = r THEN v ELSE file[r]
BY RegistersAssumption DEF Written, Writer, Hits, RegFiles

\* The registers after an instruction.
LEMMA InFlightRegister ==
  ASSUME NEW file \in RegFiles, NEW i \in InstRecords, NEW w \in Wants, NEW r \in Registers
  PROVE  /\ InFlight(file, i, w) \in RegFiles
         /\ InFlight(file, i, w)[r] = IF Alters(i, r) THEN Result(i, w.op1, w.op2) ELSE file[r]
<1>1. Result(i, w.op1, w.op2) \in Values /\ i.rd \in Registers /\ WritesReg(i) \in BOOLEAN
  BY ResultIsValue DEF Wants, InstRecords, WritesReg
<1> QED
  BY <1>1, WrittenRegister DEF InFlight, Alters

\* The types of the files between the pipeline registers.
LEMMA FilesType ==
  ASSUME TypeOK
  PROVE  Before4 \in RegFiles /\ Before3 \in RegFiles /\ Before2 \in RegFiles /\ Before1 \in RegFiles
<1>1. /\ mem_wb.inst \in InstRecords /\ ex_mem.inst \in InstRecords /\ id_ex.inst \in InstRecords
      /\ want[2] \in Wants /\ want[3] \in Wants /\ want[4] \in Wants
      /\ Before4 \in RegFiles
  BY DEF TypeOK, Before4
<1>2. 0 \in Registers
  BY RegistersAssumption
<1>3. Before3 \in RegFiles
  BY <1>1, <1>2, InFlightRegister DEF Before3
<1>4. Before2 \in RegFiles
  BY <1>1, <1>2, <1>3, InFlightRegister DEF Before2
<1>5. Before1 \in RegFiles
  BY <1>1, <1>2, <1>4, InFlightRegister DEF Before1
<1> QED
  BY <1>1, <1>3, <1>4, <1>5

\* A bubble is an instruction that writes nothing and stalls nobody.
LEMMA BubbleIsInst == Bubble \in InstRecords /\ ~StallsFetch(Bubble) /\ Bubble.kind = "nop"
BY RegistersAssumption, ModulusAssumption
   DEF Bubble, InstRecords, Kinds, Values, StallsFetch

(***************************************************************************)
(* The operands.                                                           *)
(***************************************************************************)
\* What comes from the memory and the writeback stage makes the registers before the
\* instruction in id_ex out of the register file.
LEMMA OperandRegister ==
  ASSUME TypeOK, Results, NEW r \in Registers, NEW v \in Values
  PROVE  /\ Operand(r, v) \in Values
         /\ Operand(r, v) = IF Alters(ex_mem.inst, r) \/ Alters(mem_wb.inst, r)
                            THEN Before2[r] ELSE v
         /\ Operand(r, regs[r]) = Before2[r]
<1>1. /\ mem_wb.inst \in InstRecords /\ ex_mem.inst \in InstRecords
      /\ want[3] \in Wants /\ want[4] \in Wants
      /\ Before4 \in RegFiles /\ Before3 \in RegFiles /\ Before2 \in RegFiles
  BY FilesType DEF TypeOK
<1>2. Hits(MemForward, r) <=> Alters(ex_mem.inst, r)
  BY DEF Hits, MemForward, Writer, Alters
<1>3. Hits(WbForward, r) <=> Alters(mem_wb.inst, r)
  BY DEF Hits, WbForward, Writer, Alters
<1>4. Before3[r] = IF Alters(mem_wb.inst, r)
                   THEN Result(mem_wb.inst, want[4].op1, want[4].op2) ELSE regs[r]
  BY <1>1, InFlightRegister DEF Before3, Before4
<1>5. Before2[r] = IF Alters(ex_mem.inst, r)
                   THEN Result(ex_mem.inst, want[3].op1, want[3].op2) ELSE Before3[r]
  BY <1>1, InFlightRegister DEF Before2
<1>6. Alters(ex_mem.inst, r) => MemForward.reg_write_data = Before2[r]
  BY <1>5 DEF Results, Alters, MemForward, Writer
<1>7. Alters(mem_wb.inst, r) => WbForward.reg_write_data = Before3[r]
  BY <1>4 DEF Results, Alters, WbForward, Writer
<1>8. Before2[r] \in Values
  BY <1>1 DEF RegFiles
<1>9. \A x : Operand(r, x) = IF Alters(ex_mem.inst, r) \/ Alters(mem_wb.inst, r)
                             THEN Before2[r] ELSE x
  BY <1>2, <1>3, <1>5, <1>6, <1>7 DEF Operand
<1>10. ~Alters(ex_mem.inst, r) /\ ~Alters(mem_wb.inst, r) => regs[r] = Before2[r]
  BY <1>4, <1>5
<1> QED
  BY <1>8, <1>9, <1>10

\* The operands of the instruction in the execute stage are those of program order.
LEMMA OperandsInExecute ==
  ASSUME FwdInv
  PROVE  Op1 = want[2].op1 /\ Op2 = want[2].op2
<1>1. /\ id_ex.inst.rs1 \in Registers /\ id_ex.inst.rs2 \in Registers
      /\ id_ex.value1 \in Values /\ id_ex.value2 \in Values
  BY DEF FwdInv, TypeOK, InstRecords
<1>2. Op1 = Before2[id_ex.inst.rs1]
  BY <1>1, OperandRegister DEF FwdInv, Decoded, Unseen, Op1
<1>3. Op2 = Before2[id_ex.inst.rs2]
  BY <1>1, OperandRegister DEF FwdInv, Decoded, Unseen, Op2
<1> QED
  BY <1>2, <1>3 DEF FwdInv, Operands, Reads

\* What the decoder reads.
LEMMA DecodedRegister ==
  ASSUME FwdInv, NEW r \in Registers
  PROVE  RegValue(r) \in Values /\ (RegValue(r) = Before1[r] \/ Unseen(id_ex.inst, r))
<1>1. /\ id_ex.inst \in InstRecords /\ want[2] \in Wants /\ regs[r] \in Values
      /\ Before2 \in RegFiles
  BY FilesType DEF FwdInv, TypeOK, RegFiles
<1>2. Before1[r] = IF Alters(id_ex.inst, r)
                   THEN Result(id_ex.inst, want[2].op1, want[2].op2) ELSE Before2[r]
  BY <1>1, InFlightRegister DEF Before1
<1>3. Hits(ExForward, r) <=> Alters(id_ex.inst, r) /\ IsArith(id_ex.inst)
  BY DEF Hits, ExForward, Writer, Alters, IsArith, WritesReg
<1>4. CASE Hits(ExForward, r)
  <2>1. RegValue(r) = AluResult(id_ex.inst, want[2].op1, want[2].op2)
    BY <1>4, OperandsInExecute DEF RegValue, ExForward, Writer
  <2>2. id_ex.inst.kind # "load"
    BY <1>3, <1>4 DEF IsArith
  <2>3. AluResult(id_ex.inst, want[2].op1, want[2].op2) \in Values
    BY <1>1, ResultIsValue DEF Wants
  <2> QED
    BY <1>2, <1>3, <1>4, <2>1, <2>2, <2>3 DEF Result
<1>5. CASE ~Hits(ExForward, r)
  <2>1. RegValue(r) = Before2[r]
    BY <1>1, <1>5, OperandRegister DEF RegValue, FwdInv
  <2> QED
    BY <1>1, <1>2, <1>3, <1>5, <2>1 DEF Unseen, RegFiles
<1> QED
  BY <1>4, <1>5

(***************************************************************************)
(* One move of the pipeline registers.                                     *)
(***************************************************************************)
\* Every register takes over what the one before held, with its operands.
LEMMA MoveFacts ==
  ASSUME FwdInv, NEW i \in InstRecords, Enters(i), Moves
  PROVE  /\ mem_wb' = [inst |-> ex_mem.inst, value |-> MemValue]
         /\ ex_mem' = [inst |-> id_ex.inst, store |-> id_ex.value2,
                       result |-> AluResult(id_ex.inst, want[2].op1, want[2].op2)]
         /\ id_ex' = [inst |-> if_id, value1 |-> RegValue(if_id.rs1),
                      value2 |-> RegValue(if_id.rs2)]
         /\ if_id' = i
         /\ want'[4] = want[3] /\ want'[3] = want[2] /\ want'[2] = want[1]
         /\ want'[1] = [op1 |-> arch[i.rs1], op2 |-> arch[i.rs2]]
BY OperandsInExecute DEF Moves, Enters

LEMMA TypeStep ==
  ASSUME FwdInv, NEW i \in InstRecords, Enters(i), Moves
  PROVE  TypeOK'
<1>1. /\ if_id \in InstRecords /\ id_ex.inst \in InstRecords /\ ex_mem.inst \in InstRecords
      /\ id_ex.value2 \in Values /\ arch \in RegFiles /\ regs \in RegFiles
      /\ mem_wb.inst \in InstRecords /\ mem_wb.value \in Values
      /\ ex_mem.result \in Values /\ want \in [1 .. 4 -> Wants]
  BY DEF FwdInv, TypeOK
<1>2. /\ i.rs1 \in Registers /\ i.rs2 \in Registers /\ i.rd \in Registers
      /\ if_id.rs1 \in Registers /\ if_id.rs2 \in Registers
      /\ mem_wb.inst.rd \in Registers /\ ex_mem.inst.imm \in Values
  BY <1>1 DEF InstRecords
<1>3. want[1] \in Wants /\ want[2] \in Wants /\ want[3] \in Wants
  BY <1>1
<1>4. arch[i.rs1] \in Values /\ arch[i.rs2] \in Values
  BY <1>1, <1>2 DEF RegFiles
<1>5. regs' \in RegFiles
  <2>1. WritesReg(mem_wb.inst) \in BOOLEAN
    BY DEF WritesReg
  <2> QED
    BY <1>1, <1>2, <2>1, WrittenRegister DEF Moves, WbForward
<1>6. arch' \in RegFiles
  <2>1. WritesReg(i) \in BOOLEAN /\ Result(i, arch[i.rs1], arch[i.rs2]) \in Values
    BY <1>4, ResultIsValue DEF WritesReg
  <2> QED
    BY <1>1, <1>2, <2>1, WrittenRegister DEF Enters
<1>7. id_ex' \in [inst: InstRecords, value1: Values, value2: Values]
  <2>1. RegValue(if_id.rs1) \in Values /\ RegValue(if_id.rs2) \in Values
    BY <1>2, DecodedRegister
  <2>2. id_ex' = [inst |-> if_id, value1 |-> RegValue(if_id.rs1), value2 |-> RegValue(if_id.rs2)]
    BY MoveFacts
  <2> QED
    BY <1>1, <2>1, <2>2
<1>8. ex_mem' \in [inst: InstRecords, result: Values, store: Values]
  <2>1. AluResult(id_ex.inst, want[2].op1, want[2].op2) \in Values
    BY <1>1, <1>3, ResultIsValue DEF Wants
  <2>2. ex_mem' = [inst |-> id_ex.inst, store |-> id_ex.value2,
                   result |-> AluResult(id_ex.inst, want[2].op1, want[2].op2)]
    BY MoveFacts
  <2> QED
    BY <1>1, <2>1, <2>2
<1>9. mem_wb' \in [inst: InstRecords, value: Values]
  <2>1. MemValue \in Values
    BY <1>1, <1>2 DEF MemValue
  <2>2. mem_wb' = [inst |-> ex_mem.inst, value |-> MemValue]
    BY MoveFacts
  <2> QED
    BY <1>1, <2>1, <2>2
<1>10. want' \in [1 .. 4 -> Wants]
  BY <1>1, <1>4 DEF Enters, Wants
<1>11. if_id' \in InstRecords
  BY MoveFacts
<1> QED
  BY <1>5, <1>6, <1>7, <1>8, <1>9, <1>10, <1>11 DEF TypeOK

\* The files between the registers move with them.
LEMMA FilesStep ==
  ASSUME FwdInv, NEW i \in InstRecords, Enters(i), Moves
  PROVE  /\ Before4' = Before3 /\ Before3' = Before2 /\ Before2' = Before1 /\ Before1' = arch
         /\ RegistersFollow'
<1>6. /\ mem_wb'.inst = ex_mem.inst /\ ex_mem'.inst = id_ex.inst /\ id_ex'.inst = if_id
      /\ want'[4] = want[3] /\ want'[3] = want[2] /\ want'[2] = want[1]
  <2>1. mem_wb' = [inst |-> ex_mem.inst, value |-> MemValue]
    BY MoveFacts
  <2>2. ex_mem' = [inst |-> id_ex.inst, store |-> id_ex.value2,
                   result |-> AluResult(id_ex.inst, want[2].op1, want[2].op2)]
    BY MoveFacts
  <2>3. id_ex' = [inst |-> if_id, value1 |-> RegValue(if_id.rs1), value2 |-> RegValue(if_id.rs2)]
    BY MoveFacts
  <2>4. want'[4] = want[3] /\ want'[3] = want[2] /\ want'[2] = want[1]
    BY MoveFacts
  <2> QED
    BY <2>1, <2>2, <2>3, <2>4
<1>1. Before4' = Before3
  <2>1. CASE WritesReg(mem_wb.inst)
    BY <2>1 DEF Before4, Before3, InFlight, Moves, WbForward, FwdInv, Results
  <2>2. CASE ~WritesReg(mem_wb.inst)
    BY <2>2 DEF Before4, Before3, InFlight, Moves, WbForward, Written, Hits, Writer
  <2> QED
    BY <2>1, <2>2
<1>2. Before3' = Before2
  <2>1. Before3' = InFlight(Before4', mem_wb'.inst, want'[4])
    BY DEF Before3, InFlight, Written, Hits, Writer, WritesReg, Result, AluResult
  <2> QED
    BY <1>1, <1>6, <2>1 DEF Before2
<1>3. Before2' = Before1
  <2>1. Before2' = InFlight(Before3', ex_mem'.inst, want'[3])
    BY DEF Before2, InFlight, Written, Hits, Writer, WritesReg, Result, AluResult
  <2> QED
    BY <1>2, <1>6, <2>1 DEF Before1
<1>4. Before1' = arch
  <2>1. Before1' = InFlight(Before2', id_ex'.inst, want'[2])
    BY DEF Before1, InFlight, Written, Hits, Writer, WritesReg, Result, AluResult
  <2>2. arch = InFlight(Before1, if_id, want[1])
    BY DEF FwdInv, RegistersFollow, Before1, Before2, Before3, Before4
  <2> QED
    BY <1>3, <1>6, <2>1, <2>2
<1>5. RegistersFollow'
  <2>1. RegistersFollow' <=> InFlight(Before1', if_id', want'[1]) = arch'
    BY DEF RegistersFollow, Before1, Before2, Before3, Before4,
           InFlight, Written, Hits, Writer, WritesReg, Result, AluResult
  <2>2. InFlight(arch, i, want'[1]) = arch'
    BY MoveFacts DEF InFlight, Enters
  <2> QED
    BY <1>4, <2>1, <2>2, MoveFacts
<1> QED
  BY <1>1, <1>2, <1>3, <1>4, <1>5

\* The instructions and operands after a move, as facts on their own.
LEMMA ShiftFacts ==
  ASSUME FwdInv, NEW i \in InstRecords, Enters(i), Moves
  PROVE  /\ mem_wb'.inst = ex_mem.inst /\ mem_wb'.value = MemValue
         /\ ex_mem'.inst = id_ex.inst /\ ex_mem'.store = id_ex.value2
         /\ ex_mem'.result = AluResult(id_ex.inst, want[2].op1, want[2].op2)
         /\ id_ex'.inst = if_id
         /\ id_ex'.value1 = RegValue(if_id.rs1) /\ id_ex'.value2 = RegValue(if_id.rs2)
         /\ if_id' = i
         /\ want'[4] = want[3] /\ want'[3] = want[2] /\ want'[2] = want[1]
         /\ want'[1].op1 = arch[i.rs1] /\ want'[1].op2 = arch[i.rs2]
<1>1. mem_wb' = [inst |-> ex_mem.inst, value |-> MemValue]
  BY MoveFacts
<1>2. ex_mem' = [inst |-> id_ex.inst, store |-> id_ex.value2,
                 result |-> AluResult(id_ex.inst, want[2].op1, want[2].op2)]
  BY MoveFacts
<1>3. id_ex' = [inst |-> if_id, value1 |-> RegValue(if_id.rs1), value2 |-> RegValue(if_id.rs2)]
  BY MoveFacts
<1>4. /\ want'[4] = want[3] /\ want'[3] = want[2] /\ want'[2] = want[1]
      /\ want'[1] = [op1 |-> arch[i.rs1], op2 |-> arch[i.rs2]]
      /\ if_id' = i
  BY MoveFacts
<1> QED
  BY <1>1, <1>2, <1>3, <1>4

LEMMA OperandsStep ==
  ASSUME FwdInv, NEW i \in InstRecords, Enters(i), Moves
  PROVE  Operands'
<1>1. /\ Reads(want[3], ex_mem.inst, Before3) /\ Reads(want[2], id_ex.inst, Before2)
      /\ Reads(want[1], if_id, Before1)
  BY DEF FwdInv, Operands
<1>2. /\ mem_wb'.inst = ex_mem.inst /\ ex_mem'.inst = id_ex.inst /\ id_ex'.inst = if_id
      /\ if_id' = i
      /\ want'[4] = want[3] /\ want'[3] = want[2] /\ want'[2] = want[1]
      /\ want'[1].op1 = arch[i.rs1] /\ want'[1].op2 = arch[i.rs2]
  BY ShiftFacts
<1>3. Before4' = Before3 /\ Before3' = Before2 /\ Before2' = Before1 /\ Before1' = arch
  BY FilesStep
<1> QED
  BY <1>1, <1>2, <1>3 DEF Operands, Reads

LEMMA ResultsStep ==
  ASSUME FwdInv, NEW i \in InstRecords, Enters(i), Moves
  PROVE  Results'
<1>1. /\ mem_wb'.inst = ex_mem.inst /\ mem_wb'.value = MemValue
      /\ ex_mem'.inst = id_ex.inst
      /\ ex_mem'.result = AluResult(id_ex.inst, want[2].op1, want[2].op2)
      /\ want'[4] = want[3] /\ want'[3] = want[2]
  BY ShiftFacts
<1>2. WritesReg(ex_mem.inst) => mem_wb'.value = Result(ex_mem.inst, want[3].op1, want[3].op2)
  BY <1>1 DEF FwdInv, Results
<1>3. MemValue' = Result(id_ex.inst, want[2].op1, want[2].op2)
  <2>1. MemValue' = IF ex_mem'.inst.kind = "load" THEN ex_mem'.inst.imm ELSE ex_mem'.result
    BY DEF MemValue
  <2> QED
    BY <1>1, <2>1 DEF Result
<1>4. (WritesReg(mem_wb.inst) => mem_wb.value = Result(mem_wb.inst, want[4].op1, want[4].op2))'
  <2>1. (WritesReg(mem_wb.inst) => mem_wb.value = Result(mem_wb.inst, want[4].op1, want[4].op2))'
          <=> (WritesReg(mem_wb'.inst) =>
                 mem_wb'.value = Result(mem_wb'.inst, want'[4].op1, want'[4].op2))
    BY DEF WritesReg, Result, AluResult
  <2> QED
    BY <1>1, <1>2, <2>1
<1>5. (WritesReg(ex_mem.inst) => MemValue = Result(ex_mem.inst, want[3].op1, want[3].op2))'
  <2>1. (WritesReg(ex_mem.inst) => MemValue = Result(ex_mem.inst, want[3].op1, want[3].op2))'
          <=> (WritesReg(ex_mem'.inst) =>
                 MemValue' = Result(ex_mem'.inst, want'[3].op1, want'[3].op2))
    BY DEF WritesReg, Result, AluResult
  <2> QED
    BY <1>1, <1>3, <2>1
<1> QED
  BY <1>4, <1>5 DEF Results

LEMMA DecodedStep ==
  ASSUME FwdInv, NEW i \in InstRecords, Enters(i), Moves
  PROVE  Decoded' /\ StoreData'
<1>1. /\ mem_wb'.inst = ex_mem.inst /\ ex_mem'.inst = id_ex.inst /\ id_ex'.inst = if_id
      /\ ex_mem'.store = id_ex.value2
      /\ id_ex'.value1 = RegValue(if_id.rs1) /\ id_ex'.value2 = RegValue(if_id.rs2)
  BY ShiftFacts
<1>2. Before3' = Before2 /\ Before2' = Before1
  BY FilesStep
<1>3. if_id.rs1 \in Registers /\ if_id.rs2 \in Registers
  BY DEF FwdInv, TypeOK, InstRecords
<1>4. /\ RegValue(if_id.rs1) = Before1[if_id.rs1] \/ Unseen(id_ex.inst, if_id.rs1)
      /\ RegValue(if_id.rs2) = Before1[if_id.rs2] \/ Unseen(id_ex.inst, if_id.rs2)
  BY <1>3, DecodedRegister
<1>5. Decoded'
  BY <1>1, <1>2, <1>4 DEF Decoded, Unseen, Alters, WritesReg, IsArith
<1>6. id_ex.value2 = Before2[id_ex.inst.rs2] \/ Unseen(ex_mem.inst, id_ex.inst.rs2)
  BY DEF FwdInv, Decoded
<1>7. StoreData'
  BY <1>1, <1>2, <1>6 DEF StoreData, Unseen, Alters, WritesReg, IsArith
<1> QED
  BY <1>5, <1>7

\* An instruction enters only behind instructions nobody waits for.
LEMMA StalledStep ==
  ASSUME FwdInv, NEW i \in InstRecords, Enters(i), Moves, ~FollowsStall \/ i = Bubble
  PROVE  Stalled'
<1>1. /\ mem_wb'.inst = ex_mem.inst /\ ex_mem'.inst = id_ex.inst /\ id_ex'.inst = if_id
      /\ if_id' = i
  BY ShiftFacts
<1>2. Stalled
  BY DEF FwdInv
<1>3. CASE ~FollowsStall
  BY <1>1, <1>3 DEF FollowsStall, Stalled, StallsFetch
<1>4. CASE i = Bubble
  BY <1>1, <1>2, <1>4, BubbleIsInst DEF Stalled, StallsFetch
<1> QED
  BY <1>3, <1>4

(***************************************************************************)
(* The invariant.                                                          *)
(***************************************************************************)
LEMMA FwdInitially == Init => FwdInv
<1> SUFFICES ASSUME Init PROVE FwdInv
  OBVIOUS
<1>1. 0 \in Registers /\ 0 \in Values
  BY RegistersAssumption, ModulusAssumption DEF Values
<1>2. /\ if_id = Bubble /\ id_ex.inst = Bubble /\ ex_mem.inst = Bubble /\ mem_wb.inst = Bubble
      /\ id_ex.value1 = 0 /\ id_ex.value2 = 0 /\ ex_mem.store = 0
      /\ Bubble.rs1 = 0 /\ Bubble.rs2 = 0 /\ Bubble.kind = "nop"
      /\ \A r \in Registers : regs[r] = 0
      /\ \A k \in 1 .. 4 : want[k].op1 = 0 /\ want[k].op2 = 0
      /\ arch = regs /\ regs \in RegFiles
  BY <1>1 DEF Init, Bubble, RegFiles
<1>3. TypeOK
  BY <1>1, BubbleIsInst DEF Init, TypeOK, RegFiles, Wants
<1>4. ~WritesReg(Bubble)
  BY <1>2 DEF WritesReg
<1>5. \A file, w : InFlight(file, Bubble, w) = file
  BY <1>4 DEF InFlight, Written, Writer, Hits
<1>6. Before4 = regs /\ Before3 = regs /\ Before2 = regs /\ Before1 = regs
  BY <1>2, <1>5 DEF Before4, Before3, Before2, Before1
<1>7. RegistersFollow
  BY <1>2, <1>5 DEF RegistersFollow
<1>8. Operands
  BY <1>1, <1>2, <1>6 DEF Operands, Reads
<1>9. Results
  BY <1>2, <1>4 DEF Results
<1>10. Decoded /\ StoreData
  BY <1>1, <1>2, <1>6 DEF Decoded, StoreData
<1>11. Stalled
  BY <1>2 DEF Stalled
<1> QED
  BY <1>3, <1>7, <1>8, <1>9, <1>10, <1>11 DEF FwdInv

LEMMA FwdStep == FwdInv /\ [Next]_vars => FwdInv'
<1> SUFFICES ASSUME FwdInv, [Next]_vars PROVE FwdInv'
  OBVIOUS
<1>1. ASSUME NEW i \in InstRecords, Enters(i), Moves, ~FollowsStall \/ i = Bubble
      PROVE  FwdInv'
  BY <1>1, TypeStep, FilesStep, OperandsStep, ResultsStep, DecodedStep, StalledStep DEF FwdInv
<1>2. CASE EnterInstruction
  BY <1>1, <1>2, ProgramAssumption DEF EnterInstruction
<1>3. CASE EnterBubble
  BY <1>1, <1>3, BubbleIsInst DEF EnterBubble
<1>4. CASE UNCHANGED vars
  <2>1. /\ regs' = regs /\ if_id' = if_id /\ id_ex' = id_ex /\ ex_mem' = ex_mem
        /\ mem_wb' = mem_wb /\ arch' = arch /\ want' = want
    BY <1>4 DEF vars
  <2>2. /\ Before4' = Before4 /\ Before3' = Before3 /\ Before2' = Before2 /\ Before1' = Before1
        /\ (RegistersFollow' <=> RegistersFollow)
    BY <2>1 DEF Before1, Before2, Before3, Before4, RegistersFollow, InFlight, Written, Hits,
                Writer, WritesReg, Result, AluResult
  <2>3. TypeOK'
    BY <2>1 DEF FwdInv, TypeOK
  <2>4. Operands'
    BY <2>1, <2>2 DEF FwdInv, Operands, Reads
  <2>5. Results' <=> Results
    BY <2>1 DEF Results, MemValue, WritesReg, Result, AluResult
  <2>6. Decoded' /\ StoreData'
    BY <2>1, <2>2 DEF FwdInv, Decoded, StoreData, Unseen, Alters, WritesReg, IsArith
  <2>7. Stalled'
    BY <2>1 DEF FwdInv, Stalled, StallsFetch
  <2> QED
    BY <2>2, <2>3, <2>4, <2>5, <2>6, <2>7 DEF FwdInv
<1> QED
  BY <1>2, <1>3, <1>4 DEF Next

LEMMA FwdInvariance == Spec => []FwdInv
BY FwdInitially, FwdStep, PTL DEF Spec

(***************************************************************************)
(* Theorems.                                                               *)
(***************************************************************************)
\* The registers of the forwarding network keep their types (regs.sv, riscv.sv).
THEOREM ForwardingTypes == Spec => []TypeOK
<1>1. FwdInv => TypeOK
  BY DEF FwdInv
<1> QED
  BY <1>1, FwdInvariance, PTL

\* Execute always computes with the operands of program order (execute.sv:50-55).
THEOREM OperandsAlwaysFresh == Spec => []OperandsFresh
<1>1. FwdInv => OperandsFresh
  BY OperandsInExecute DEF OperandsFresh
<1> QED
  BY <1>1, FwdInvariance, PTL

\* The register file and the writes on their way always make up the registers of
\* program order (riscv.sv:96, regs.sv).
THEOREM RegistersAlwaysFollow == Spec => []RegistersFollow
<1>1. FwdInv => RegistersFollow
  BY DEF FwdInv
<1> QED
  BY <1>1, FwdInvariance, PTL

\* A store writes a stale value only right behind the auipc that produces it
\* (execute.sv:110): of the writers the decoder does not see in the execute stage, the
\* fetch unit stalls on all the others.
THEOREM OnlyAuipcMakesStoresStale == Spec => []StaleStoreOnlyAfterAuipc
<1>1. ASSUME FwdInv PROVE StaleStoreOnlyAfterAuipc
  <2> SUFFICES ASSUME ex_mem.inst.kind = "store", ex_mem.store # want[3].op2
               PROVE  mem_wb.inst.kind = "auipc" /\ mem_wb.inst.rd = ex_mem.inst.rs2
    BY DEF StaleStoreOnlyAfterAuipc
  <2>1. want[3].op2 = Before3[ex_mem.inst.rs2]
    BY <1>1 DEF FwdInv, Operands, Reads
  <2>2. Unseen(mem_wb.inst, ex_mem.inst.rs2)
    BY <1>1, <2>1 DEF FwdInv, StoreData
  <2>3. ex_mem.inst # Bubble
    BY BubbleIsInst
  <2>4. ~StallsFetch(mem_wb.inst)
    BY <1>1, <2>3 DEF FwdInv, Stalled
  <2> QED
    BY <2>2, <2>4 DEF Unseen, Alters, WritesReg, IsArith, StallsFetch
<1> QED
  BY <1>1, FwdInvariance, PTL
=============================================================================
