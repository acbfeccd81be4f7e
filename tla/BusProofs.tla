----------------------------- MODULE BusProofs -----------------------------
(***************************************************************************)
(* The bus over the CBus device implements one atomic memory, for all      *)
(* memories, page tables and requests. The inductive invariant adds to     *)
(* what holds of the bus over any memory that the device works on the      *)
(* request that is out, and how far the walk has come in the memory as it  *)
(* is now.                                                                 *)
(***************************************************************************)
EXTENDS SimulatedBus, BusPortProofs

\* The tables on the way of a virtual address in the memory as it is now.
Table1(v) == mem[<<root, v.vpn2>>]
Table0(v) == mem[<<Table1(v), v.vpn1>>]
Target(v) == IF paging THEN <<mem[<<Table0(v), v.vpn0>>], v.off>> ELSE BareAddress(v)

Reading(page, digit) == paging /\ ~preq.write /\ preq.addr = <<page, digit>>

\* The physical request for the virtual request r, wherever the MMU is.
WalkOf(r) ==
  /\ state = "PT1" => Reading(root, r.addr.vpn2)
  /\ state = "PT2" => Reading(Table1(r.addr), r.addr.vpn1)
  /\ state = "PT3" => Reading(Table0(r.addr), r.addr.vpn0)
  /\ state = "PHY" => preq.write = r.write /\ preq.addr = Target(r.addr) /\ preq.data = r.data

Walk == busy => WalkOf(Port(index))

BusInv == TypeOK /\ Handshake /\ RequestHeld /\ Walk

(***************************************************************************)
(* Lemmas about one clock edge.                                            *)
(***************************************************************************)
\* The device answers with a digit.
LEMMA AnswerType ==
  ASSUME DeviceTypeOK
  PROVE  /\ DeviceAnswer \in Answers
         /\ DeviceAnswer.ready <=> enable /\ tx.busy
<1>0. NoTransaction.busy = FALSE
  BY DEF NoTransaction
<1>1. tx.busy => tx \in [busy: {TRUE}, is_write: BOOLEAN, addr: Physical]
  BY <1>0 DEF DeviceTypeOK, Transactions
<1>2. tx.busy => mem[tx.addr] \in Digits
  BY <1>1 DEF DeviceTypeOK
<1> QED
  BY <1>2, SomeDigitIsOne DEF DeviceAnswer, Answers, NoAnswer

\* What the lemmas about ports, arbiter and MMU ask for.
LEMMA Edge ==
  ASSUME BusInv, Next
  PROVE  BusOk /\ DeviceAnswer \in Answers /\ BusStep(DeviceAnswer)
BY AnswerType DEF BusInv, TypeOK, BusOk, Next

\* Only the last access of a walk writes, and it writes what it was asked to.
LEMMA MemoryMoves ==
  ASSUME BusInv, Next
  PROVE  /\ ~Finishing(DeviceAnswer) => mem' = mem
         /\ Finishing(DeviceAnswer) => mem' = IF preq.write THEN [mem EXCEPT ![preq.addr] = preq.data] ELSE mem
<1>1. DeviceAnswer.ready <=> enable /\ tx.busy
  BY AnswerType DEF BusInv, TypeOK
<1>2. tx.busy => preq.valid /\ preq.write = tx.is_write /\ preq.addr = tx.addr
  BY DEF BusInv, RequestHeld
<1>3. preq.valid => Walking /\ busy
  BY DEF BusInv, Handshake
<1>4. Walking /\ state # "PHY" => ~preq.write
  BY <1>3 DEF BusInv, Handshake, Walk, WalkOf, Reading, Walking
<1>5. mem' = IF enable /\ tx.busy /\ tx.is_write THEN [mem EXCEPT ![tx.addr] = preq.data] ELSE mem
  BY DEF Next, DeviceStep
<1> QED
  BY <1>1, <1>2, <1>3, <1>4, <1>5 DEF Finishing, Walking

LEMMA DeviceTyped ==
  ASSUME BusInv, Next
  PROVE  DeviceTypeOK'
<1>1. preq.write \in BOOLEAN /\ preq.addr \in Physical /\ preq.data \in Digits
  BY DEF BusInv, TypeOK, BusTypeOK, PhysRequests
<1>2. tx' \in Transactions
  BY <1>1 DEF BusInv, TypeOK, DeviceTypeOK, Next, DeviceStep, Transactions
<1>3. mem' \in [Physical -> Digits]
  BY <1>1, MemoryMoves DEF BusInv, TypeOK, DeviceTypeOK
<1> QED
  BY <1>2, <1>3 DEF DeviceTypeOK, Next, DeviceStep

\* The request stays while the device has it.
LEMMA HeldKept ==
  ASSUME BusInv, Next
  PROVE  RequestHeld'
<1>1. DeviceAnswer.ready <=> enable /\ tx.busy
  BY AnswerType DEF BusInv, TypeOK
<1>2. NoTransaction.busy = FALSE
  BY DEF NoTransaction
<1>3. tx'.busy => preq.valid /\ ~DeviceAnswer.ready
                 /\ preq.write = tx'.is_write /\ preq.addr = tx'.addr
  <2>1. CASE ~enable
    BY <1>1, <2>1 DEF BusInv, RequestHeld, Next, DeviceStep
  <2>2. CASE enable /\ ~tx.busy /\ preq.valid
    BY <1>1, <2>2 DEF Next, DeviceStep
  <2>3. CASE enable /\ ~(~tx.busy /\ preq.valid)
    BY <1>2, <2>3 DEF Next, DeviceStep
  <2> QED
    BY <2>1, <2>2, <2>3
<1>4. preq.valid /\ ~DeviceAnswer.ready => preq' = preq
  <2>1. preq.valid => Walking
    BY DEF BusInv, Handshake
  <2> QED
    BY <2>1 DEF Walking, Next, BusStep, MmuStep, MmuCleanup, MmuAccept, MmuWalk, MmuFinish, MmuWaits
<1> QED
  BY <1>3, <1>4 DEF RequestHeld

(***************************************************************************)
(* The walk.                                                               *)
(***************************************************************************)
\* The device answers a read with the word the MMU asks for.
LEMMA WordRead ==
  ASSUME BusInv, DeviceAnswer.ready
  PROVE  preq.valid /\ (~preq.write => DeviceAnswer.data = mem[preq.addr])
<1>1. enable /\ tx.busy
  BY AnswerType DEF BusInv, TypeOK
<1> QED
  BY <1>1 DEF BusInv, RequestHeld, DeviceAnswer

LEMMA WalkKept ==
  ASSUME BusInv, Next
  PROVE  Walk'
<1> DEFINE r == Port(index)
           resp == DeviceAnswer
<1>1. CASE ~busy
  <2>1. state = "IDLE" /\ ~VirtualRequest.valid
    BY <1>1, Edge, Served DEF BusInv, Handshake, Walking, TypeOK, BusTypeOK
  <2>2. state' = "IDLE"
    BY <2>1 DEF Next, BusStep, MmuStep, MmuCleanup, MmuAccept, MmuWalk, MmuFinish, MmuWaits
  <2> QED
    BY <2>2 DEF Walk, WalkOf
<1>2. CASE busy /\ state = "CLEANUP"
  <2>1. state' = "IDLE"
    BY <1>2 DEF Next, BusStep, MmuStep, MmuCleanup, MmuAccept, MmuWalk, MmuFinish, MmuWaits
  <2> QED
    BY <2>1 DEF Walk, WalkOf
<1>3. CASE busy /\ state # "CLEANUP"
  <2>1. r' = r /\ paging' = paging /\ root' = root
    BY <1>3, Edge, Steady
  <2>2. VirtualRequest = r /\ r \in Requests
    BY <1>3, Edge, Served
  <2>3. WalkOf(r)
    BY <1>3 DEF BusInv, Walk
  <2>4. CASE MmuAccept
    <3>1. mem' = mem
      BY <2>4, MemoryMoves DEF MmuAccept, Finishing
    <3>2. CASE paging
      <4>1. state' = "PT1" /\ preq' = ReadEntry(root, r.addr.vpn2)
        BY <2>2, <2>4, <3>2 DEF MmuAccept
      <4>2. WalkOf(r)'
        BY <2>1, <3>2, <4>1 DEF WalkOf, Reading, ReadEntry
      <4> QED
        BY <4>2 DEF Walk
    <3>3. CASE ~paging
      <4>1. state' = "PHY" /\ preq' = Access(BareAddress(r.addr))
        BY <2>2, <2>4, <3>3 DEF MmuAccept
      <4>2. WalkOf(r)'
        BY <2>1, <2>2, <3>3, <4>1 DEF WalkOf, Access, Target, BareAddress
      <4> QED
        BY <4>2 DEF Walk
    <3> QED
      BY <3>2, <3>3
  <2>5. CASE MmuWalk(resp)
    <3>1. mem' = mem
      BY <2>5, MemoryMoves DEF MmuWalk, Finishing
    <3>2. ~preq.write => resp.data = mem[preq.addr]
      BY <2>5, WordRead DEF MmuWalk
    <3>3. CASE state = "PT1"
      <4>1. paging /\ resp.data = Table1(r.addr)
        BY <2>3, <3>2, <3>3 DEF WalkOf, Reading, Table1
      <4>2. state' = "PT2" /\ preq' = ReadEntry(Table1(r.addr), r.addr.vpn1)
        BY <2>2, <2>5, <3>3, <4>1 DEF MmuWalk
      <4>3. WalkOf(r)'
        BY <2>1, <3>1, <4>1, <4>2 DEF WalkOf, Reading, ReadEntry, Table1
      <4> QED
        BY <4>3 DEF Walk
    <3>4. CASE state = "PT2"
      <4>1. paging /\ resp.data = Table0(r.addr)
        BY <2>3, <3>2, <3>4 DEF WalkOf, Reading, Table0
      <4>2. state' = "PT3" /\ preq' = ReadEntry(Table0(r.addr), r.addr.vpn0)
        BY <2>2, <2>5, <3>4, <4>1 DEF MmuWalk
      <4>3. WalkOf(r)'
        BY <2>1, <3>1, <4>1, <4>2 DEF WalkOf, Reading, ReadEntry, Table0, Table1
      <4> QED
        BY <4>3 DEF Walk
    <3>5. CASE state = "PT3"
      <4>1. paging /\ <<resp.data, r.addr.off>> = Target(r.addr)
        BY <2>3, <3>2, <3>5 DEF WalkOf, Reading, Target
      <4>2. state' = "PHY" /\ preq' = Access(Target(r.addr))
        BY <2>2, <2>5, <3>5, <4>1 DEF MmuWalk
      <4>3. WalkOf(r)'
        BY <2>1, <2>2, <3>1, <4>1, <4>2 DEF WalkOf, Access, Target, Table0, Table1
      <4> QED
        BY <4>3 DEF Walk
    <3> QED
      BY <2>5, <3>3, <3>4, <3>5 DEF MmuWalk
  <2>6. CASE MmuFinish(resp)
    BY <2>6 DEF MmuFinish, Walk, WalkOf
  <2>7. CASE MmuWaits(resp)
    <3>1. mem' = mem /\ UNCHANGED <<state, preq>>
      BY <2>7, MemoryMoves DEF MmuWaits, Finishing
    <3>2. WalkOf(r)'
      BY <2>1, <2>3, <3>1 DEF WalkOf, Reading, Target, Table0, Table1
    <3> QED
      BY <3>2 DEF Walk
  <2> QED
    BY <1>3, <2>4, <2>5, <2>6, <2>7 DEF Next, BusStep, MmuStep, MmuCleanup
<1> QED
  BY <1>1, <1>2, <1>3

(***************************************************************************)
(* The invariant.                                                          *)
(***************************************************************************)
LEMMA BusInitially == Init => BusInv
<1> SUFFICES ASSUME Init PROVE BusInv
  OBVIOUS
<1>1. BusOk /\ ~busy /\ tx = NoTransaction
  BY BusStartsOk DEF Init, DeviceInit
<1>2. NoTransaction.busy = FALSE
  BY DEF NoTransaction
<1>3. DeviceTypeOK
  BY DEF Init, DeviceInit, DeviceTypeOK, Transactions
<1> QED
  BY <1>1, <1>2, <1>3 DEF BusInv, BusOk, TypeOK, RequestHeld, Walk

LEMMA BusStepKeeps == BusInv /\ [Next]_vars => BusInv'
<1> SUFFICES ASSUME BusInv, [Next]_vars PROVE BusInv'
  OBVIOUS
<1>1. CASE Next
  <2>1. BusOk /\ DeviceAnswer \in Answers /\ BusStep(DeviceAnswer)
    BY <1>1, Edge
  <2>2. TypeOK'
    BY <1>1, <2>1, PortsTyped, MmuTyped, DeviceTyped DEF TypeOK, BusTypeOK
  <2>3. Handshake'
    BY <2>1, HandshakeKept
  <2> QED
    BY <1>1, <2>2, <2>3, HeldKept, WalkKept DEF BusInv
<1>2. CASE UNCHANGED vars
  BY <1>2 DEF vars, busVars, deviceVars, BusInv, TypeOK, BusTypeOK, DeviceTypeOK, Handshake, Walking,
     RequestHeld, Walk, WalkOf, Reading, Target, Table0, Table1, Port
<1> QED
  BY <1>1, <1>2

LEMMA BusInvariance == Spec => []BusInv
BY BusInitially, BusStepKeeps, PTL DEF Spec

(***************************************************************************)
(* The refinement.                                                         *)
(***************************************************************************)
LEMMA AtomicMoves ==
  ASSUME BusInv, Next, NEW p \in {"inst", "data"}, ~(Finishing(DeviceAnswer) /\ p = index)
  PROVE  Atomic!Moves(PortPhase(p), PortPhase(p)', RequestsOf(p))
BY Edge, PhaseMoves DEF Atomic!Moves, Atomic!Idle, Atomic!Asked

\* The last access of a walk serves the port's request in the atomic memory.
LEMMA FinishServes ==
  ASSUME BusInv, Next, Finishing(DeviceAnswer)
  PROVE  Atomic!Serves(PortPhase(index), PortPhase(index)')
<1> DEFINE r == Port(index)
<1>1. /\ busy /\ state = "PHY"
      /\ PortPhase(index) = [phase |-> "asked", req |-> r]
      /\ PortPhase(index)' = [phase |-> "answered", value |-> IF r.write THEN "none" ELSE DeviceAnswer.data]
  BY Edge, FinishAnswers
<1>2. preq.write = r.write /\ preq.addr = Target(r.addr) /\ preq.data = r.data
  BY <1>1 DEF BusInv, Walk, WalkOf
<1>3. Target(r.addr) = Atomic!Translate(r.addr)
  BY DEF Target, Table0, Table1, Atomic!Translate, Atomic!BareAddress, BareAddress
<1>4. ~r.write => DeviceAnswer.data = mem[Target(r.addr)]
  BY <1>2, WordRead DEF Finishing
<1>5. (IF r.write THEN "none" ELSE DeviceAnswer.data) = Atomic!Value(r)
  BY <1>3, <1>4 DEF Atomic!Value, Atomic!NoValue
<1>6. mem' = Atomic!Effect(r)
  BY <1>2, <1>3, MemoryMoves DEF Atomic!Effect
<1> QED
  BY <1>1, <1>5, <1>6 DEF Atomic!Serves, Atomic!Answered

LEMMA StepIsAtomic == BusInv /\ [Next]_vars => [Atomic!Next]_(Atomic!vars)
<1> SUFFICES ASSUME BusInv, [Next]_vars PROVE [Atomic!Next]_(Atomic!vars)
  OBVIOUS
<1>1. CASE UNCHANGED vars
  BY <1>1 DEF vars, busVars, deviceVars, Atomic!vars, PortPhase, Port, Answered
<1>2. CASE Next /\ Finishing(DeviceAnswer)
  <2>1. index' = index /\ UNCHANGED <<paging, root>>
    BY <1>2, Edge, FinishAnswers
  <2>2. index \in {"inst", "data"} /\ RequestsOf("inst") = Fetches /\ RequestsOf("data") = Accesses
    BY DEF BusInv, TypeOK, BusTypeOK, RequestsOf
  <2>3. Atomic!Serves(PortPhase(index), PortPhase(index)')
    BY <1>2, FinishServes
  <2>4. CASE index = "inst"
    <3>1. Atomic!Serves(PortPhase("inst"), PortPhase("inst")')
      BY <2>1, <2>3, <2>4 DEF PortPhase, Port, Answered
    <3>2. Atomic!Moves(PortPhase("data"), PortPhase("data")', Accesses)
      BY <1>2, <2>2, <2>4, AtomicMoves
    <3> QED
      BY <2>1, <3>1, <3>2 DEF Atomic!Next, Atomic!ServeInst
  <2>5. CASE index = "data"
    <3>1. Atomic!Serves(PortPhase("data"), PortPhase("data")')
      BY <2>1, <2>3, <2>5 DEF PortPhase, Port, Answered
    <3>2. Atomic!Moves(PortPhase("inst"), PortPhase("inst")', Fetches)
      BY <1>2, <2>2, <2>5, AtomicMoves
    <3> QED
      BY <2>1, <3>1, <3>2 DEF Atomic!Next, Atomic!ServeData
  <2> QED
    BY <2>2, <2>4, <2>5
<1>3. CASE Next /\ ~Finishing(DeviceAnswer)
  <2>1. mem' = mem
    BY <1>3, MemoryMoves
  <2>2. CASE UNCHANGED <<paging, root>>
    <3>1. /\ Atomic!Moves(PortPhase("inst"), PortPhase("inst")', Fetches)
          /\ Atomic!Moves(PortPhase("data"), PortPhase("data")', Accesses)
      BY <1>3, AtomicMoves DEF RequestsOf
    <3> QED
      BY <2>1, <2>2, <3>1 DEF Atomic!Next, Atomic!ServeNone
  <2>3. CASE ~UNCHANGED <<paging, root>>
    BY <1>3, <2>1, <2>3, Edge, SpaceMoves DEF Atomic!Next, Atomic!SwitchSpace, Atomic!Idle
  <2> QED
    BY <2>2, <2>3
<1> QED
  BY <1>1, <1>2, <1>3

LEMMA InitIsAtomic == Init => Atomic!Init
BY BusStartsOk DEF Init, BusInit, DeviceInit, Atomic!Init, Atomic!Physical, Physical, Atomic!Idle

(***************************************************************************)
(* Theorems.                                                               *)
(***************************************************************************)
\* The registers of ports, arbiter, MMU and device keep their types (mmu.sv).
THEOREM BusTypes == Spec => []TypeOK
<1>1. BusInv => TypeOK
  BY DEF BusInv
<1> QED
  BY <1>1, BusInvariance, PTL

\* A request never changes while the device works on it, which is what the simulator
\* asserts of a master (cbus_device.cpp:39-43).
THEOREM RequestAlwaysHeld == Spec => []RequestHeld
<1>1. BusInv => RequestHeld
  BY DEF BusInv
<1> QED
  BY <1>1, BusInvariance, PTL

\* Arbiter, three-level walk and device together are one atomic memory: every request
\* is translated and served at one instant, whatever page tables the stores write and
\* however long the device takes (CBusArbiter.sv, mmu.sv, cbus_device.cpp).
THEOREM BusIsAtomic == Spec => ImplementsAtomicMemory
<1>1. Init => Atomic!Init
  BY InitIsAtomic
<1>2. BusInv /\ [Next]_vars => [Atomic!Next]_(Atomic!vars)
  BY StepIsAtomic
<1> QED
  BY <1>1, <1>2, BusInvariance, PTL DEF Spec, ImplementsAtomicMemory, Atomic!Spec
=============================================================================
