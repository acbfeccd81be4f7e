---------------------------- MODULE SimulatedBus ----------------------------
(***************************************************************************)
(* The bus in the simulator: ports, arbiter and MMU over the CBus device.  *)
(***************************************************************************)
EXTENDS Bus, CBusDevice

vars == <<busVars, deviceVars>>

TypeOK == BusTypeOK /\ DeviceTypeOK

Init == BusInit /\ DeviceInit

Next == BusStep(DeviceAnswer) /\ DeviceStep(preq)

Spec == Init /\ [][Next]_vars

\* The clock ticks, and the device is enabled again and again: p_disable < 1.
FairSpec == Spec /\ WF_vars(Next) /\ WF_vars(Next /\ enable')

Atomic == INSTANCE AtomicMemory WITH inst <- PortPhase("inst"), data <- PortPhase("data")

\* Whatever the two ports ask and however long the device takes, each request is
\* translated and served once, at one instant: walks see no half of another
\* port's writes, and no answer goes to the wrong port (CBusArbiter.sv, mmu.sv).
ImplementsAtomicMemory == Atomic!Spec

\* What the simulator asserts about a master: a request stays as it is until the
\* transaction it started has answered (cbus_device.cpp:39-43).
RequestHeld ==
  tx.busy => preq.valid /\ preq.write = tx.is_write /\ preq.addr = tx.addr

\* Every request is answered: the fixed priority of the data port starves no
\* fetch, since a port is idle for a cycle after each answer.
EveryRequestAnswered ==
  \A p \in {"inst", "data"} : Port(p).valid ~> Answered(p)
=============================================================================
