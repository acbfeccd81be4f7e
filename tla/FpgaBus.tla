------------------------------ MODULE FpgaBus ------------------------------
(***************************************************************************)
(* The bus on the FPGA: ports, arbiter and MMU over the block RAM          *)
(* (src/vivado/src/with_delay/soc_top.sv; every address is one of RAM).    *)
(***************************************************************************)
EXTENDS Bus, BramWrapper

vars == <<busVars, bramVars>>

TypeOK == BusTypeOK /\ BramTypeOK

Init == BusInit /\ BramInit

Next == BusStep(BramAnswer(preq)) /\ BramStep(preq)

Spec == Init /\ [][Next]_vars

FairSpec == Spec /\ WF_vars(Next)

Atomic == INSTANCE AtomicMemory WITH inst <- PortPhase("inst"), data <- PortPhase("data")

\* Each request is served once and at one instant (bram_wrapper.sv, mmu.sv). With
\* the delay counter this takes the cycle in which the RAM is enabled twice for
\* one read, and may not be taken for an answer twice.
ImplementsAtomicMemory == Atomic!Spec

\* Every request is answered: the counter reaches the delay and starts again for
\* each request (bram_wrapper.sv:22-30).
EveryRequestAnswered ==
  \A p \in {"inst", "data"} : Port(p).valid ~> Answered(p)

\* "ready; // is data arrived in this cycle?" (common.sv:240): an answer to a read
\* carries the word the request asks for.
DataArrived ==
  preq.valid /\ ~preq.write /\ BramReady(preq) => rdata = mem[preq.addr]
=============================================================================
