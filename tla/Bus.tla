-------------------------------- MODULE Bus --------------------------------
(***************************************************************************)
(* The core's two bus ports, the arbiter and the MMU                       *)
(* (src/vsrc/util/IBusToCBus.sv, DBusToCBus.sv, CBusArbiter.sv, mmu.sv).   *)
(* Each operator says what its registers do at one clock edge; resp is the *)
(* physical answer on the bus in the cycle before that edge.               *)
(***************************************************************************)
EXTENDS BusRequests

VARIABLES
  ireq, dreq,   \* requests of the fetch unit and of the memory stage
  paging, root, \* translation on (U mode and satp mode), root table in satp
  busy, index,  \* the arbiter: the port it serves
  state,        \* state of the MMU
  preq,         \* req_phys
  vresp         \* resp_virt

busVars == <<ireq, dreq, paging, root, busy, index, state, preq, vresp>>

BusTypeOK ==
  /\ ireq \in Fetches \cup {NoRequest}
  /\ dreq \in Accesses \cup {NoRequest}
  /\ paging \in PagingModes /\ root \in Digits
  /\ busy \in BOOLEAN /\ index \in {"inst", "data"}
  /\ state \in {"CLEANUP", "IDLE", "PT1", "PT2", "PT3", "PHY"}
  /\ preq \in PhysRequests
  /\ vresp \in Answers

BusInit ==
  /\ ireq = NoRequest /\ dreq = NoRequest
  /\ paging \in PagingModes /\ root \in Digits
  /\ busy = FALSE /\ index = "data"
  /\ state = "IDLE"
  /\ preq = [valid |-> FALSE, write |-> FALSE, addr |-> <<SomeDigit, SomeDigit>>, data |-> SomeDigit]
  /\ vresp = NoAnswer

(***************************************************************************)
(* The arbiter.                                                            *)
(***************************************************************************)
Port(p) == IF p = "inst" THEN ireq ELSE dreq

\* Port 0 is the data port, and the loop takes the first valid one.
Select == IF dreq.valid \/ ~ireq.valid THEN "data" ELSE "inst"

VirtualRequest == IF busy THEN Port(index) ELSE NoRequest

Answered(p) == busy /\ index = p /\ vresp.ready

\* Mutant: the arbiter chooses again while it is busy.
ArbiterStepUnlatched ==
  /\ index' = Select
  /\ busy' = IF busy THEN ~vresp.ready ELSE Port(Select).valid

ArbiterStep ==
  IF busy
  THEN busy' = ~vresp.ready /\ index' = index
  ELSE busy' = Port(Select).valid /\ index' = Select

(***************************************************************************)
(* The MMU.                                                                *)
(***************************************************************************)
ReadEntry(page, digit) ==
  [valid |-> VirtualRequest.valid, write |-> FALSE, addr |-> <<page, digit>>, data |-> VirtualRequest.data]

Access(addr) ==
  [valid |-> VirtualRequest.valid, write |-> VirtualRequest.write, addr |-> addr, data |-> VirtualRequest.data]

\* Mutant: the answer stays on the virtual side.
MmuCleanupKeepsAnswer ==
  /\ state = "CLEANUP"
  /\ state' = "IDLE"
  /\ UNCHANGED <<preq, vresp>>

MmuCleanup ==
  /\ state = "CLEANUP"
  /\ state' = "IDLE"
  /\ vresp' = NoAnswer
  /\ UNCHANGED preq

MmuAccept ==
  /\ state = "IDLE"
  /\ VirtualRequest.valid
  /\ IF paging
     THEN state' = "PT1" /\ preq' = ReadEntry(root, VirtualRequest.addr.vpn2)
     ELSE state' = "PHY" /\ preq' = Access(BareAddress(VirtualRequest.addr))
  /\ UNCHANGED vresp

MmuWalk(resp) ==
  /\ resp.ready
  /\ \/ /\ state = "PT1"
        /\ state' = "PT2"
        /\ preq' = ReadEntry(resp.data, VirtualRequest.addr.vpn1)
     \/ /\ state = "PT2"
        /\ state' = "PT3"
        /\ preq' = ReadEntry(resp.data, VirtualRequest.addr.vpn0)
     \/ /\ state = "PT3"
        /\ state' = "PHY"
        /\ preq' = Access(<<resp.data, VirtualRequest.addr.off>>)
  /\ UNCHANGED vresp

\* Mutant: the physical request is not taken back.
MmuFinishKeepsValid(resp) ==
  /\ state = "PHY"
  /\ resp.ready
  /\ state' = "CLEANUP"
  /\ UNCHANGED preq
  /\ vresp' = resp

\* Mutant: the physical request is replaced by something that is none.
MmuFinishDropsRequest(resp) ==
  /\ state = "PHY"
  /\ resp.ready
  /\ state' = "CLEANUP"
  /\ preq' = NoRequest
  /\ vresp' = resp

MmuFinish(resp) ==
  /\ state = "PHY"
  /\ resp.ready
  /\ state' = "CLEANUP"
  /\ preq' = [preq EXCEPT !.valid = FALSE]
  /\ vresp' = resp

MmuWaits(resp) ==
  /\ \/ state = "IDLE" /\ ~VirtualRequest.valid
     \/ state \in {"PT1", "PT2", "PT3", "PHY"} /\ ~resp.ready
  /\ UNCHANGED <<state, preq, vresp>>

MmuStep(resp) ==
  MmuCleanup \/ MmuAccept \/ MmuWalk(resp) \/ MmuFinish(resp) \/ MmuWaits(resp)

(***************************************************************************)
(* The core: a port holds its request until it sees the answer, and is     *)
(* idle for at least a cycle after that (fetch.sv, visit_memory.sv). It    *)
(* changes its address space only while both ports are idle, which is the  *)
(* property ModeStableUnderRequest of the pipeline.                        *)
(***************************************************************************)

\* Mutant: a port may ask again in the cycle of the answer.
PortStepBackToBack(p, newReq, requests) ==
  IF Port(p).valid /\ ~Answered(p)
  THEN newReq = Port(p)
  ELSE newReq \in requests \cup {NoRequest}

PortStep(p, newReq, requests) ==
  IF Port(p).valid
  THEN newReq = IF Answered(p) THEN NoRequest ELSE Port(p)
  ELSE newReq \in requests \cup {NoRequest}

SpaceStep ==
  \/ UNCHANGED <<paging, root>>
  \/ /\ ~ireq.valid /\ ~dreq.valid /\ ~ireq'.valid /\ ~dreq'.valid
     /\ paging' \in PagingModes /\ root' \in Digits

BusStep(resp) ==
  /\ ireq' \in Fetches \cup {NoRequest} /\ PortStep("inst", ireq', Fetches)
  /\ dreq' \in Accesses \cup {NoRequest} /\ PortStep("data", dreq', Accesses)
  /\ SpaceStep
  /\ ArbiterStep
  /\ MmuStep(resp)

(***************************************************************************)
(* What a port looks like to the atomic memory the bus implements. A       *)
(* request is served at the edge at which the MMU takes the last physical  *)
(* answer.                                                                 *)
(***************************************************************************)
PortPhase(p) ==
  IF ~Port(p).valid THEN [phase |-> "idle"]
  ELSE IF Answered(p)
  THEN [phase |-> "answered", value |-> IF Port(p).write THEN "none" ELSE vresp.data]
  ELSE [phase |-> "asked", req |-> Port(p)]
=============================================================================
