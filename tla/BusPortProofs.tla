--------------------------- MODULE BusPortProofs ---------------------------
(***************************************************************************)
(* What holds of ports, arbiter and MMU over any memory: a request is out  *)
(* exactly while the MMU is between accepting a virtual request and        *)
(* answering it, nothing moves on the side of the core in that time, and   *)
(* the answer goes to the port that asked.                                 *)
(***************************************************************************)
EXTENDS Bus, TLAPS

Walking == state \in {"PT1", "PT2", "PT3", "PHY"}

\* The state machines agree on what is going on.
Handshake ==
  /\ Walking => preq.valid /\ busy
  /\ ~Walking => ~preq.valid
  /\ vresp.ready <=> state = "CLEANUP"
  /\ state = "CLEANUP" => busy
  /\ busy => Port(index).valid

BusOk == BusTypeOK /\ Handshake

\* The edge at which the MMU takes the last answer.
Finishing(resp) == state = "PHY" /\ resp.ready

RequestsOf(p) == IF p = "inst" THEN Fetches ELSE Accesses

\* The value of a data bus nobody drives.
LEMMA SomeDigitIsOne == SomeDigit \in Digits
BY DigitsAssumption DEF SomeDigit

\* What the ports hold, and the request the arbiter lets through.
LEMMA PortTypes ==
  ASSUME BusTypeOK
  PROVE  /\ Port("inst") = ireq /\ Port("data") = dreq
         /\ \A p \in {"inst", "data"} : Port(p) \in Requests \/ Port(p) = NoRequest
         /\ \A p \in {"inst", "data"} : Port(p).valid <=> Port(p) \in Requests
         /\ index \in {"inst", "data"}
         /\ busy => VirtualRequest = Port(index)
         /\ ~busy => ~VirtualRequest.valid
<1>1. NoRequest \notin Requests /\ ~NoRequest.valid
  BY DEF NoRequest, Requests
<1>2. \A r \in Requests : r.valid
  BY DEF Requests
<1>3. Port("inst") = ireq /\ Port("data") = dreq
  BY DEF Port
<1>4. ireq \in Requests \/ ireq = NoRequest
  BY RequestsAssumption DEF BusTypeOK
<1>5. dreq \in Requests \/ dreq = NoRequest
  BY RequestsAssumption DEF BusTypeOK
<1> QED
  BY <1>1, <1>2, <1>3, <1>4, <1>5 DEF BusTypeOK, VirtualRequest

\* From the request to the answer, nothing moves on the side of the core.
LEMMA Steady ==
  ASSUME BusOk, NEW resp \in Answers, BusStep(resp), busy, state # "CLEANUP"
  PROVE  /\ busy' /\ UNCHANGED <<index, paging, root>>
         /\ Port(index).valid /\ Port(index)' = Port(index)
<1>1. Port(index).valid /\ ~vresp.ready
  BY DEF BusOk, Handshake
<1>2. busy' /\ index' = index
  BY <1>1 DEF BusStep, ArbiterStep
<1>3. \A p \in {"inst", "data"} : ~Answered(p)
  BY <1>1 DEF Answered
<1>4. index \in {"inst", "data"}
  BY DEF BusOk, BusTypeOK
<1>5. CASE index = "inst"
  <2>1. ireq' = ireq /\ ireq.valid
    BY <1>1, <1>3, <1>5 DEF BusStep, PortStep, Port
  <2> QED
    BY <2>1, <1>1, <1>2, <1>5 DEF BusStep, SpaceStep, Port
<1>6. CASE index = "data"
  <2>1. dreq' = dreq /\ dreq.valid
    BY <1>1, <1>3, <1>6 DEF BusStep, PortStep, Port
  <2> QED
    BY <2>1, <1>1, <1>2, <1>6 DEF BusStep, SpaceStep, Port
<1> QED
  BY <1>4, <1>5, <1>6

\* Physical requests made of a virtual one.
LEMMA RequestTypes ==
  ASSUME VirtualRequest \in Requests
  PROVE  /\ \A page, digit \in Digits : ReadEntry(page, digit) \in PhysRequests
         /\ \A addr \in Physical : Access(addr) \in PhysRequests
         /\ VirtualRequest.addr \in Virtual
         /\ BareAddress(VirtualRequest.addr) \in Physical
BY DEF Requests, PhysRequests, Virtual, Physical, ReadEntry, Access, BareAddress

\* While the MMU works, the request it translates is that of the arbiter's port.
LEMMA Served ==
  ASSUME BusOk
  PROVE  /\ busy => VirtualRequest = Port(index) /\ Port(index) \in Requests
         /\ Walking => busy
         /\ VirtualRequest.valid => busy
<1>1. busy => Port(index).valid
  BY DEF BusOk, Handshake
<1>2. BusTypeOK
  BY DEF BusOk
<1> QED
  BY <1>1, <1>2, PortTypes DEF BusOk, Handshake

\* Ports and arbiter keep their types.
LEMMA PortsTyped ==
  ASSUME BusOk, NEW resp \in Answers, BusStep(resp)
  PROVE  /\ ireq' \in Fetches \cup {NoRequest} /\ dreq' \in Accesses \cup {NoRequest}
         /\ paging' \in PagingModes /\ root' \in Digits
         /\ busy' \in BOOLEAN /\ index' \in {"inst", "data"}
<1>1. paging' \in PagingModes /\ root' \in Digits
  BY DEF BusOk, BusTypeOK, BusStep, SpaceStep
<1>2. \A p \in {"inst", "data"} : Port(p).valid \in BOOLEAN
  <2>1. \A r \in Requests : r.valid = TRUE
    BY DEF Requests
  <2>2. NoRequest.valid = FALSE
    BY DEF NoRequest
  <2> QED
    BY <2>1, <2>2, PortTypes DEF BusOk
<1>3. Select \in {"inst", "data"}
  BY DEF Select
<1>4. vresp.ready \in BOOLEAN
  BY DEF BusOk, BusTypeOK, Answers
<1>5. busy' \in BOOLEAN
  BY <1>2, <1>3, <1>4 DEF BusStep, ArbiterStep
<1>6. index' \in {"inst", "data"}
  BY <1>3 DEF BusOk, BusTypeOK, BusStep, ArbiterStep
<1> QED
  BY <1>1, <1>5, <1>6 DEF BusStep

\* So does the MMU, with any answer of the memory.
LEMMA MmuTyped ==
  ASSUME BusOk, NEW resp \in Answers, BusStep(resp)
  PROVE  /\ state' \in {"CLEANUP", "IDLE", "PT1", "PT2", "PT3", "PHY"}
         /\ preq' \in PhysRequests
         /\ vresp' \in Answers
<1>1. resp \in Answers /\ resp.data \in Digits
  BY DEF Answers
<1>2. NoAnswer \in Answers
  BY SomeDigitIsOne DEF NoAnswer, Answers
<1>3. /\ state \in {"CLEANUP", "IDLE", "PT1", "PT2", "PT3", "PHY"}
      /\ preq \in PhysRequests /\ vresp \in Answers /\ root \in Digits
  BY DEF BusOk, BusTypeOK
<1>4. CASE MmuCleanup
  BY <1>2, <1>3, <1>4 DEF MmuCleanup
<1>5. CASE MmuAccept
  <2>1. VirtualRequest \in Requests
    BY <1>5, Served DEF MmuAccept
  <2>2. VirtualRequest.addr.vpn2 \in Digits
    BY <2>1, RequestTypes DEF Virtual
  <2> QED
    BY <1>3, <1>5, <2>1, <2>2, RequestTypes DEF MmuAccept
<1>6. CASE MmuWalk(resp)
  <2>1. VirtualRequest \in Requests
    BY <1>6, Served DEF MmuWalk, Walking
  <2>2. /\ VirtualRequest.addr.vpn1 \in Digits /\ VirtualRequest.addr.vpn0 \in Digits
        /\ <<resp.data, VirtualRequest.addr.off>> \in Physical
    BY <1>1, <2>1, RequestTypes DEF Virtual, Physical
  <2> QED
    BY <1>1, <1>3, <1>6, <2>1, <2>2, RequestTypes DEF MmuWalk
<1>7. CASE MmuFinish(resp)
  BY <1>1, <1>3, <1>7 DEF MmuFinish, PhysRequests
<1>8. CASE MmuWaits(resp)
  BY <1>3, <1>8 DEF MmuWaits
<1> QED
  BY <1>4, <1>5, <1>6, <1>7, <1>8 DEF BusStep, MmuStep

\* The arbiter serves a port until that port has its answer.
LEMMA HandshakeKept ==
  ASSUME BusOk, NEW resp \in Answers, BusStep(resp)
  PROVE  Handshake'
<1>1. busy' => Port(index)'.valid
  <2>1. CASE busy
    <3>1. CASE state = "CLEANUP"
      BY <2>1, <3>1 DEF BusOk, Handshake, BusStep, ArbiterStep
    <3> QED
      BY <2>1, <3>1, Steady
  <2>2. CASE ~busy
    <3>1. busy' = Port(Select).valid /\ index' = Select
      BY <2>2 DEF BusStep, ArbiterStep
    <3>2. \A p \in {"inst", "data"} : ~Answered(p)
      BY <2>2 DEF Answered
    <3>3. ireq.valid => ireq' = ireq
      BY <3>2 DEF BusStep, PortStep, Port
    <3>4. dreq.valid => dreq' = dreq
      BY <3>2 DEF BusStep, PortStep, Port
    <3> QED
      BY <3>1, <3>3, <3>4 DEF Select, Port
  <2> QED
    BY <2>1, <2>2
<1>2. CASE MmuCleanup
  BY <1>1, <1>2 DEF BusOk, Handshake, Walking, MmuCleanup, NoAnswer
<1>3. CASE MmuAccept
  <2>1. busy /\ state # "CLEANUP" /\ ~vresp.ready
    BY <1>3, Served DEF MmuAccept, BusOk, Handshake
  <2> QED
    BY <1>1, <1>3, <2>1, Steady DEF MmuAccept, Handshake, Walking, ReadEntry, Access
<1>4. CASE MmuWalk(resp)
  <2>1. busy /\ state # "CLEANUP" /\ ~vresp.ready
    BY <1>4 DEF MmuWalk, BusOk, Handshake, Walking
  <2>2. VirtualRequest.valid
    BY <2>1, Served, Steady
  <2>3. preq'.valid /\ state' \in {"PT2", "PT3", "PHY"} /\ vresp' = vresp
    BY <1>4, <2>2 DEF MmuWalk, ReadEntry, Access
  <2> QED
    BY <1>1, <2>1, <2>3, Steady DEF Handshake, Walking
<1>5. CASE MmuFinish(resp)
  <2>1. busy /\ state # "CLEANUP"
    BY <1>5 DEF MmuFinish, BusOk, Handshake, Walking
  <2>2. ~preq'.valid
    BY <1>5 DEF MmuFinish, BusOk, BusTypeOK, PhysRequests
  <2> QED
    BY <1>1, <1>5, <2>1, <2>2, Steady DEF MmuFinish, Handshake, Walking
<1>6. CASE MmuWaits(resp)
  <2>1. state # "CLEANUP" /\ ~vresp.ready /\ UNCHANGED <<state, preq, vresp>>
    BY <1>6 DEF MmuWaits, BusOk, Handshake
  <2>2. busy => busy'
    BY <2>1, Steady
  <2> QED
    BY <1>1, <2>1, <2>2 DEF BusOk, Handshake, Walking
<1> QED
  BY <1>2, <1>3, <1>4, <1>5, <1>6 DEF BusStep, MmuStep

\* A port holds its request until it is answered.
LEMMA PortMoves ==
  ASSUME BusOk, NEW resp \in Answers, BusStep(resp), NEW p \in {"inst", "data"}
  PROVE  /\ Port(p).valid => Port(p)' = IF Answered(p) THEN NoRequest ELSE Port(p)
         /\ ~Port(p).valid => Port(p)' \in RequestsOf(p) \cup {NoRequest}
<1>1. CASE p = "inst"
  BY <1>1 DEF BusStep, PortStep, Port, RequestsOf
<1>2. CASE p = "data"
  BY <1>2 DEF BusStep, PortStep, Port, RequestsOf
<1> QED
  BY <1>1, <1>2

\* An answer appears when the last access of a walk is done, and for the port served.
LEMMA AnswerAppears ==
  ASSUME BusOk, NEW resp \in Answers, BusStep(resp), vresp'.ready
  PROVE  Finishing(resp) /\ index' = index /\ busy' /\ vresp' = resp
<1>1. NoAnswer.ready = FALSE
  BY DEF NoAnswer
<1>2. state' = "CLEANUP"
  BY HandshakeKept DEF Handshake
<1>3. MmuFinish(resp)
  BY <1>2 DEF BusStep, MmuStep, MmuCleanup, MmuAccept, MmuWalk, MmuWaits, BusOk, Handshake
<1>4. busy /\ state # "CLEANUP"
  BY <1>3, Served DEF MmuFinish, Walking
<1> QED
  BY <1>3, <1>4, Steady DEF MmuFinish, Finishing

\* Seen from the core a port that is not just being served asks, waits or is idle.
LEMMA PhaseMoves ==
  ASSUME BusOk, NEW resp \in Answers, BusStep(resp), NEW p \in {"inst", "data"},
         ~(Finishing(resp) /\ p = index)
  PROVE  \/ PortPhase(p)' = PortPhase(p)
         \/ /\ PortPhase(p) = [phase |-> "idle"]
            /\ \E r \in RequestsOf(p) : PortPhase(p)' = [phase |-> "asked", req |-> r]
         \/ PortPhase(p).phase = "answered" /\ PortPhase(p)' = [phase |-> "idle"]
<1>0. NoRequest.valid = FALSE /\ \A r \in RequestsOf(p) : r.valid
  BY RequestsAssumption DEF NoRequest, RequestsOf, Requests
<1>1. ~Answered(p)'
  BY AnswerAppears DEF Answered
<1>2. CASE ~Port(p).valid
  <2>1. PortPhase(p) = [phase |-> "idle"]
    BY <1>2 DEF PortPhase
  <2>2. CASE Port(p)' = NoRequest
    BY <1>0, <2>1, <2>2 DEF PortPhase
  <2>3. CASE Port(p)' \in RequestsOf(p)
    <3>1. PortPhase(p)' = [phase |-> "asked", req |-> Port(p)']
      BY <1>0, <1>1, <2>3 DEF PortPhase
    <3> QED
      BY <2>1, <2>3, <3>1
  <2> QED
    BY <1>2, <2>2, <2>3, PortMoves
<1>3. CASE Port(p).valid /\ Answered(p)
  <2>1. Port(p)' = NoRequest
    BY <1>3, PortMoves
  <2>2. PortPhase(p)' = [phase |-> "idle"]
    BY <1>0, <2>1 DEF PortPhase
  <2>3. PortPhase(p).phase = "answered"
    BY <1>3 DEF PortPhase
  <2> QED
    BY <2>2, <2>3
<1>4. CASE Port(p).valid /\ ~Answered(p)
  <2>1. Port(p)' = Port(p)
    BY <1>4, PortMoves
  <2>2. PortPhase(p)' = PortPhase(p)
    BY <1>1, <1>4, <2>1 DEF PortPhase
  <2> QED
    BY <2>2
<1> QED
  BY <1>2, <1>3, <1>4

\* The last answer turns the port served from asking into answered.
LEMMA FinishAnswers ==
  ASSUME BusOk, NEW resp \in Answers, BusStep(resp), Finishing(resp)
  PROVE  /\ busy /\ state = "PHY" /\ index' = index /\ UNCHANGED <<paging, root>>
         /\ Port(index) \in Requests /\ VirtualRequest = Port(index)
         /\ PortPhase(index) = [phase |-> "asked", req |-> Port(index)]
         /\ PortPhase(index)' = [phase |-> "answered", value |-> IF Port(index).write THEN "none" ELSE resp.data]
<1>1. busy /\ state = "PHY" /\ ~vresp.ready
  BY Served DEF Finishing, BusOk, Handshake, Walking
<1>2. /\ busy' /\ index' = index /\ Port(index)' = Port(index) /\ Port(index).valid
      /\ UNCHANGED <<paging, root>>
  BY <1>1, Steady
<1>3. vresp' = resp
  BY <1>1 DEF Finishing, BusStep, MmuStep, MmuCleanup, MmuAccept, MmuWalk, MmuFinish, MmuWaits
<1>4. PortPhase(index) = [phase |-> "asked", req |-> Port(index)]
  BY <1>1, <1>2 DEF PortPhase, Answered
<1>5. vresp'.ready
  BY <1>3 DEF Finishing
<1>6. PortPhase(index)' = [phase |-> "answered", value |-> IF Port(index).write THEN "none" ELSE resp.data]
  BY <1>2, <1>3, <1>5 DEF PortPhase, Answered
<1> QED
  BY <1>1, <1>2, <1>4, <1>6, Served

\* The address space changes only while both ports are and stay idle.
LEMMA SpaceMoves ==
  ASSUME BusOk, NEW resp \in Answers, BusStep(resp), ~UNCHANGED <<paging, root>>
  PROVE  /\ paging' \in PagingModes /\ root' \in Digits
         /\ PortPhase("inst") = [phase |-> "idle"] /\ PortPhase("inst")' = [phase |-> "idle"]
         /\ PortPhase("data") = [phase |-> "idle"] /\ PortPhase("data")' = [phase |-> "idle"]
<1>1. /\ ~ireq.valid /\ ~dreq.valid /\ ~ireq'.valid /\ ~dreq'.valid
      /\ paging' \in PagingModes /\ root' \in Digits
  BY DEF BusStep, SpaceStep
<1> QED
  BY <1>1 DEF PortPhase, Port

\* The registers of ports, arbiter and MMU after the reset.
LEMMA BusStartsOk ==
  ASSUME BusInit
  PROVE  /\ BusOk /\ ~busy /\ state = "IDLE"
         /\ PortPhase("inst") = [phase |-> "idle"] /\ PortPhase("data") = [phase |-> "idle"]
<1>1. /\ state = "IDLE" /\ busy = FALSE /\ ireq = NoRequest /\ dreq = NoRequest /\ vresp = NoAnswer
      /\ preq = [valid |-> FALSE, write |-> FALSE, addr |-> <<SomeDigit, SomeDigit>>, data |-> SomeDigit]
  BY DEF BusInit
<1>2. preq \in PhysRequests /\ vresp \in Answers
  BY <1>1, SomeDigitIsOne DEF PhysRequests, Physical, Answers, NoAnswer
<1>3. NoRequest.valid = FALSE /\ NoAnswer.ready = FALSE
  BY DEF NoRequest, NoAnswer
<1>4. BusTypeOK
  BY <1>1, <1>2 DEF BusInit, BusTypeOK
<1>5. Handshake
  BY <1>1, <1>3 DEF Handshake, Walking
<1> QED
  BY <1>1, <1>3, <1>4, <1>5 DEF BusOk, PortPhase, Port
=============================================================================
