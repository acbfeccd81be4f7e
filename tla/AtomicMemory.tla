---------------------------- MODULE AtomicMemory ----------------------------
(***************************************************************************)
(* What the bus promises the core: one memory that serves each request of  *)
(* its two ports exactly once and at one instant, the translation of the   *)
(* address included.                                                       *)
(***************************************************************************)
EXTENDS BusRequests

VARIABLES
  mem, paging, root,
  inst, data \* the ports: [phase, req, value]

vars == <<mem, paging, root, inst, data>>

Idle        == [phase |-> "idle"]
Asked(r)    == [phase |-> "asked", req |-> r]
Answered(v) == [phase |-> "answered", value |-> v]

\* Writes are acknowledged without a value.
NoValue == "none"

Init ==
  /\ mem \in [Physical -> Digits]
  /\ paging \in PagingModes /\ root \in Digits
  /\ inst = Idle /\ data = Idle

\* The three-level walk, all in one memory.
Translate(v) ==
  IF paging
  THEN LET table1 == mem[<<root, v.vpn2>>]
           table0 == mem[<<table1, v.vpn1>>]
       IN  <<mem[<<table0, v.vpn0>>], v.off>>
  ELSE BareAddress(v)

Value(r) == IF r.write THEN NoValue ELSE mem[Translate(r.addr)]

Effect(r) == IF r.write THEN [mem EXCEPT ![Translate(r.addr)] = r.data] ELSE mem

\* What the core does with a port: it asks, waits, and takes the answer.
Moves(port, newPort, requests) ==
  \/ newPort = port
  \/ port = Idle /\ \E r \in requests : newPort = Asked(r)
  \/ port.phase = "answered" /\ newPort = Idle

Serves(port, newPort) ==
  /\ port.phase = "asked"
  /\ newPort = Answered(Value(port.req))
  /\ mem' = Effect(port.req)

ServeInst == Serves(inst, inst') /\ Moves(data, data', Accesses) /\ UNCHANGED <<paging, root>>

ServeData == Serves(data, data') /\ Moves(inst, inst', Fetches) /\ UNCHANGED <<paging, root>>

ServeNone ==
  /\ Moves(inst, inst', Fetches)
  /\ Moves(data, data', Accesses)
  /\ UNCHANGED <<mem, paging, root>>

\* The core changes its address space only while it has no request out.
SwitchSpace ==
  /\ inst = Idle /\ data = Idle
  /\ paging' \in PagingModes /\ root' \in Digits
  /\ UNCHANGED <<mem, inst, data>>

Next == ServeInst \/ ServeData \/ ServeNone \/ SwitchSpace

Spec == Init /\ [][Next]_vars
=============================================================================
