--------------------------- MODULE FpgaBusProofs ---------------------------
(***************************************************************************)
(* The bus over the block RAM. Without paging it implements the atomic     *)
(* memory although the RAM says ready twice for a read: the second pulse   *)
(* falls into the cycle in which the MMU clears its answer away. With      *)
(* paging it does not (run bus_fpga_paging), so those theorems assume that *)
(* the core never turns paging on.                                         *)
(***************************************************************************)
EXTENDS FpgaBus, BusPortProofs

Unpaged == PagingModes = {FALSE}

Answer == BramAnswer(preq)

FpgaOk == TypeOK /\ Handshake

\* The RAM is enabled only under a request, a read is answered in the cycle after
\* that, and the pulse that follows finds the MMU in CLEANUP.
RamAtWork ==
  /\ state \in {"IDLE", "PHY", "CLEANUP"} /\ ~paging
  /\ realValid => state = "PHY" /\ counter = BramDelay
  /\ state = "IDLE" => ~readyRead
  /\ state = "PHY" /\ readyRead => realValid /\ ~preq.write /\ rdata = mem[preq.addr]

\* The physical request is the one of the port served.
BareAccess ==
  state = "PHY" =>
    /\ preq.write = Port(index).write /\ preq.data = Port(index).data
    /\ preq.addr = BareAddress(Port(index).addr)

FpgaInv == FpgaOk /\ RamAtWork /\ BareAccess

(***************************************************************************)
(* Types.                                                                  *)
(***************************************************************************)
\* The RAM answers with a digit, whatever is asked.
LEMMA AnswerType ==
  ASSUME TypeOK
  PROVE  Answer \in Answers /\ Answer.ready = BramReady(preq) /\ Answer.data = rdata
<1>1. BramReady(preq) \in BOOLEAN /\ rdata \in Digits
  BY DEF TypeOK, BusTypeOK, BramTypeOK, PhysRequests, BramReady
<1> QED
  BY <1>1 DEF Answer, BramAnswer, Answers

\* What the lemmas about ports, arbiter and MMU ask for.
LEMMA Edge ==
  ASSUME FpgaOk, Next
  PROVE  BusOk /\ Answer \in Answers /\ BusStep(Answer)
BY AnswerType DEF FpgaOk, TypeOK, BusOk, Next, Answer

LEMMA RamTyped ==
  ASSUME FpgaOk, Next
  PROVE  BramTypeOK'
<1>1. /\ BramTypeOK /\ preq.write \in BOOLEAN /\ preq.valid \in BOOLEAN
      /\ preq.addr \in Physical /\ preq.data \in Digits
  BY DEF FpgaOk, TypeOK, BusTypeOK, PhysRequests
<1>2. BramReady(preq) \in BOOLEAN
  BY <1>1 DEF BramReady, BramTypeOK
<1>3. counter' \in 0 .. BramDelay
  BY <1>1, DelayAssumption DEF BramTypeOK, Next, BramStep
<1>4. realValid' \in BOOLEAN /\ readyRead' \in BOOLEAN
  BY <1>1, <1>2 DEF BramTypeOK, Next, BramStep
<1>5. rdata' \in Digits
  BY <1>1 DEF BramTypeOK, Next, BramStep
<1>6. mem' \in [Physical -> Digits]
  BY <1>1 DEF BramTypeOK, Next, BramStep
<1> QED
  BY <1>3, <1>4, <1>5, <1>6 DEF BramTypeOK

LEMMA FpgaOkKept == FpgaOk /\ [Next]_vars => FpgaOk'
<1> SUFFICES ASSUME FpgaOk, [Next]_vars PROVE FpgaOk'
  OBVIOUS
<1>1. CASE Next
  <2>1. BusOk /\ Answer \in Answers /\ BusStep(Answer)
    BY <1>1, Edge
  <2> QED
    BY <1>1, <2>1, PortsTyped, MmuTyped, HandshakeKept, RamTyped DEF FpgaOk, TypeOK, BusTypeOK
<1>2. CASE UNCHANGED vars
  BY <1>2 DEF vars, busVars, bramVars, FpgaOk, TypeOK, BusTypeOK, BramTypeOK, Handshake, Walking, Port
<1> QED
  BY <1>1, <1>2

LEMMA FpgaInitially == Init => FpgaOk
<1>0. 0 \in 0 .. BramDelay
  BY DelayAssumption
<1>1. Init => BramTypeOK
  BY <1>0, SomeDigitIsOne DEF Init, BramInit, BramTypeOK
<1> QED
  BY <1>1, BusStartsOk DEF Init, BusOk, FpgaOk, TypeOK

(***************************************************************************)
(* The RAM without paging.                                                 *)
(***************************************************************************)
LEMMA RamKept ==
  ASSUME Unpaged, FpgaInv, Next
  PROVE  RamAtWork' /\ BareAccess'
<1>1. /\ FpgaOk /\ TypeOK /\ RamAtWork /\ Handshake /\ BramTypeOK
      /\ BusOk /\ Answer \in Answers /\ BusStep(Answer)
  BY Edge DEF FpgaInv, FpgaOk, TypeOK
<1>2. ~paging'
  BY <1>1, PortsTyped DEF Unpaged
<1>3. Answer.ready = BramReady(preq) /\ (BramReady(preq) <=> IF preq.write THEN realValid ELSE readyRead)
  BY <1>1, AnswerType DEF BramReady
<1>4. preq.valid <=> state = "PHY"
  BY <1>1 DEF Handshake, Walking, RamAtWork
<1>5. /\ realValid' = (counter = BramDelay /\ preq.valid /\ ~BramReady(preq))
      /\ readyRead' = realValid
      /\ counter' = IF ~preq.valid \/ BramReady(preq) THEN 0
                    ELSE IF counter # BramDelay THEN counter + 1 ELSE counter
      /\ rdata' = IF realValid THEN mem[preq.addr] ELSE rdata
      /\ mem' = IF realValid /\ preq.write THEN [mem EXCEPT ![preq.addr] = preq.data] ELSE mem
  BY DEF Next, BramStep
<1>6. CASE MmuCleanup
  <2>1. state = "CLEANUP" /\ state' = "IDLE"
    BY <1>6 DEF MmuCleanup
  <2>2. ~realValid
    BY <1>1, <2>1 DEF RamAtWork
  <2> QED
    BY <1>2, <1>4, <1>5, <2>1, <2>2 DEF RamAtWork, BareAccess
<1>7. CASE MmuAccept
  <2>1. /\ state = "IDLE" /\ state' = "PHY" /\ preq' = Access(BareAddress(VirtualRequest.addr))
        /\ ~realValid
    BY <1>1, <1>7 DEF MmuAccept, RamAtWork
  <2>2. busy /\ VirtualRequest = Port(index) /\ Port(index)' = Port(index)
    BY <1>1, <1>7, <2>1, Served, Steady DEF MmuAccept
  <2>3. BareAccess'
    BY <2>1, <2>2 DEF BareAccess, Access, BareAddress
  <2> QED
    BY <1>2, <1>4, <1>5, <2>1, <2>3 DEF RamAtWork
<1>8. CASE MmuFinish(Answer)
  <2>1. state = "PHY" /\ state' = "CLEANUP" /\ BramReady(preq)
    BY <1>3, <1>8 DEF MmuFinish
  <2> QED
    BY <1>2, <1>5, <2>1 DEF RamAtWork, BareAccess
<1>9. CASE MmuWaits(Answer) /\ state = "IDLE"
  <2>1. state' = "IDLE" /\ ~realValid
    BY <1>1, <1>9 DEF MmuWaits, RamAtWork
  <2> QED
    BY <1>2, <1>4, <1>5, <1>9, <2>1 DEF RamAtWork, BareAccess
<1>10. CASE MmuWaits(Answer) /\ state = "PHY"
  <2>1. state' = "PHY" /\ preq' = preq /\ ~BramReady(preq) /\ preq.valid
    BY <1>3, <1>4, <1>10 DEF MmuWaits
  <2>2. busy /\ Port(index)' = Port(index)
    BY <1>1, <1>10, Served, Steady DEF Walking
  <2>3. BareAccess'
    BY <1>10, <2>1, <2>2 DEF FpgaInv, BareAccess
  <2>4. preq.write => ~realValid
    BY <1>3, <2>1
  <2>5. realValid => counter = BramDelay
    BY <1>1 DEF RamAtWork
  <2>6. realValid' => counter' = BramDelay
    BY <1>5, <2>1
  <2>7. readyRead' => realValid' /\ ~preq'.write /\ rdata' = mem'[preq'.addr]
    BY <1>5, <2>1, <2>4, <2>5
  <2> QED
    BY <1>2, <2>1, <2>3, <2>6, <2>7 DEF RamAtWork
<1> QED
  BY <1>1, <1>6, <1>7, <1>8, <1>9, <1>10 DEF BusStep, MmuStep, MmuWalk, MmuWaits, RamAtWork

LEMMA FpgaInvKept ==
  ASSUME Unpaged, FpgaInv, [Next]_vars
  PROVE  FpgaInv'
<1>1. FpgaOk'
  BY FpgaOkKept DEF FpgaInv
<1>2. CASE Next
  BY <1>1, <1>2, RamKept DEF FpgaInv
<1>3. CASE UNCHANGED vars
  BY <1>1, <1>3 DEF vars, busVars, bramVars, FpgaInv, RamAtWork, BareAccess, Port
<1> QED
  BY <1>2, <1>3

LEMMA FpgaInvInitially == ASSUME Unpaged PROVE Init => FpgaInv
<1> SUFFICES ASSUME Init PROVE FpgaInv
  OBVIOUS
<1>1. FpgaOk /\ state = "IDLE"
  BY FpgaInitially, BusStartsOk DEF Init
<1>2. ~paging
  BY DEF Init, BusInit, Unpaged
<1> QED
  BY <1>1, <1>2 DEF Init, BramInit, FpgaInv, RamAtWork, BareAccess

(***************************************************************************)
(* The refinement.                                                         *)
(***************************************************************************)
LEMMA AtomicMoves ==
  ASSUME FpgaInv, Next, NEW p \in {"inst", "data"}, ~(Finishing(Answer) /\ p = index)
  PROVE  Atomic!Moves(PortPhase(p), PortPhase(p)', RequestsOf(p))
BY Edge, PhaseMoves DEF FpgaInv, Atomic!Moves, Atomic!Idle, Atomic!Asked

\* The RAM writes only in the cycle in which it answers a write.
LEMMA MemoryMoves ==
  ASSUME FpgaInv, Next
  PROVE  /\ ~Finishing(Answer) => mem' = mem
         /\ Finishing(Answer) => mem' = IF preq.write THEN [mem EXCEPT ![preq.addr] = preq.data] ELSE mem
<1>1. Answer.ready = BramReady(preq) /\ (BramReady(preq) <=> IF preq.write THEN realValid ELSE readyRead)
  BY AnswerType DEF FpgaInv, FpgaOk, BramReady
<1>2. mem' = IF realValid /\ preq.write THEN [mem EXCEPT ![preq.addr] = preq.data] ELSE mem
  BY DEF Next, BramStep
<1>3. realValid => state = "PHY"
  BY DEF FpgaInv, RamAtWork
<1> QED
  BY <1>1, <1>2, <1>3 DEF Finishing

LEMMA FinishServes ==
  ASSUME FpgaInv, Next, Finishing(Answer)
  PROVE  Atomic!Serves(PortPhase(index), PortPhase(index)')
<1> DEFINE r == Port(index)
<1>1. /\ busy /\ state = "PHY" /\ r \in Requests
      /\ PortPhase(index) = [phase |-> "asked", req |-> r]
      /\ PortPhase(index)' = [phase |-> "answered", value |-> IF r.write THEN "none" ELSE Answer.data]
  BY Edge, FinishAnswers DEF FpgaInv
<1>2. preq.write = r.write /\ preq.addr = BareAddress(r.addr) /\ preq.data = r.data
  BY <1>1 DEF FpgaInv, BareAccess
<1>3. BareAddress(r.addr) = Atomic!Translate(r.addr)
  BY DEF FpgaInv, RamAtWork, Atomic!Translate, Atomic!BareAddress, BareAddress
<1>4. ~r.write => Answer.data = mem[preq.addr]
  <2>1. Answer.ready = BramReady(preq) /\ Answer.data = rdata
    BY AnswerType DEF FpgaInv, FpgaOk
  <2> QED
    BY <1>1, <1>2, <2>1 DEF Finishing, BramReady, FpgaInv, RamAtWork
<1>5. (IF r.write THEN "none" ELSE Answer.data) = Atomic!Value(r)
  BY <1>2, <1>3, <1>4 DEF Atomic!Value, Atomic!NoValue
<1>6. mem' = Atomic!Effect(r)
  BY <1>2, <1>3, MemoryMoves DEF Atomic!Effect
<1> QED
  BY <1>1, <1>5, <1>6 DEF Atomic!Serves, Atomic!Answered

LEMMA StepIsAtomic == FpgaInv /\ [Next]_vars => [Atomic!Next]_(Atomic!vars)
<1> SUFFICES ASSUME FpgaInv, [Next]_vars PROVE [Atomic!Next]_(Atomic!vars)
  OBVIOUS
<1>1. CASE UNCHANGED vars
  BY <1>1 DEF vars, busVars, bramVars, Atomic!vars, PortPhase, Port, Answered
<1>2. CASE Next /\ Finishing(Answer)
  <2>1. index' = index /\ UNCHANGED <<paging, root>>
    BY <1>2, Edge, FinishAnswers DEF FpgaInv
  <2>2. index \in {"inst", "data"} /\ RequestsOf("inst") = Fetches /\ RequestsOf("data") = Accesses
    BY DEF FpgaInv, FpgaOk, TypeOK, BusTypeOK, RequestsOf
  <2>3. Atomic!Serves(PortPhase(index), PortPhase(index)')
    BY <1>2, FinishServes
  <2>4. CASE index = "inst"
    <3>1. Atomic!Serves(PortPhase("inst"), PortPhase("inst")')
      BY <2>1, <2>3, <2>4 DEF PortPhase, Port, Answered
    <3>2. Atomic!Moves(PortPhase("data"), PortPhase("data")', Accesses)
      BY <1>2, <2>2, <2>4, AtomicMoves
    <3> QED
      BY <2>1, <3>1, <3>2 DEF Atomic!Next, Atomic!ServeInst
  <2>5. CASE index = "data"
    <3>1. Atomic!Serves(PortPhase("data"), PortPhase("data")')
      BY <2>1, <2>3, <2>5 DEF PortPhase, Port, Answered
    <3>2. Atomic!Moves(PortPhase("inst"), PortPhase("inst")', Fetches)
      BY <1>2, <2>2, <2>5, AtomicMoves
    <3> QED
      BY <2>1, <3>1, <3>2 DEF Atomic!Next, Atomic!ServeData
  <2> QED
    BY <2>2, <2>4, <2>5
<1>3. CASE Next /\ ~Finishing(Answer)
  <2>1. mem' = mem
    BY <1>3, MemoryMoves
  <2>2. CASE UNCHANGED <<paging, root>>
    <3>1. /\ Atomic!Moves(PortPhase("inst"), PortPhase("inst")', Fetches)
          /\ Atomic!Moves(PortPhase("data"), PortPhase("data")', Accesses)
      BY <1>3, AtomicMoves DEF RequestsOf
    <3> QED
      BY <2>1, <2>2, <3>1 DEF Atomic!Next, Atomic!ServeNone
  <2>3. CASE ~UNCHANGED <<paging, root>>
    BY <1>3, <2>1, <2>3, Edge, SpaceMoves DEF FpgaInv, Atomic!Next, Atomic!SwitchSpace, Atomic!Idle
  <2> QED
    BY <2>2, <2>3
<1> QED
  BY <1>1, <1>2, <1>3

LEMMA InitIsAtomic == Init => Atomic!Init
BY BusStartsOk DEF Init, BusInit, BramInit, Atomic!Init, Atomic!Physical, Physical, Atomic!Idle

(***************************************************************************)
(* Theorems.                                                               *)
(***************************************************************************)
\* The registers of bus and RAM keep their types, with and without paging; the delay
\* counter never runs past the delay (bram_wrapper.sv:22-30).
THEOREM FpgaTypes == Spec => []TypeOK
<1>1. FpgaOk => TypeOK
  BY DEF FpgaOk
<1> QED
  BY <1>1, FpgaInitially, FpgaOkKept, PTL DEF Spec

\* Without paging an answer to a read always carries the word asked for
\* (common.sv:240, bram_wrapper.sv:56).
THEOREM DataAlwaysArrived == Unpaged => (Spec => []DataArrived)
<1> SUFFICES ASSUME Unpaged PROVE Spec => []DataArrived
  OBVIOUS
<1>1. Init => FpgaInv
  BY FpgaInvInitially
<1>2. FpgaInv /\ [Next]_vars => FpgaInv'
  BY FpgaInvKept
<1>3. FpgaInv => DataArrived
  BY DEF FpgaInv, FpgaOk, Handshake, Walking, RamAtWork, DataArrived, BramReady
<1> QED
  BY <1>1, <1>2, <1>3, PTL DEF Spec

\* Without paging bus and block RAM are one atomic memory, for every delay
\* (CBusArbiter.sv, mmu.sv, bram_wrapper.sv).
THEOREM FpgaBusIsAtomic == Unpaged => (Spec => ImplementsAtomicMemory)
<1> SUFFICES ASSUME Unpaged PROVE Spec => ImplementsAtomicMemory
  OBVIOUS
<1>1. Init => FpgaInv
  BY FpgaInvInitially
<1>2. FpgaInv /\ [Next]_vars => FpgaInv'
  BY FpgaInvKept
<1>3. FpgaInv /\ [Next]_vars => [Atomic!Next]_(Atomic!vars)
  BY StepIsAtomic
<1>4. Init => Atomic!Init
  BY InitIsAtomic
<1> QED
  BY <1>1, <1>2, <1>3, <1>4, PTL DEF Spec, ImplementsAtomicMemory, Atomic!Spec
=============================================================================
