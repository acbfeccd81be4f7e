---------------------------- MODULE BusRequests ----------------------------
(***************************************************************************)
(* Requests and answers of the cache bus (src/vsrc/include/common.sv).     *)
(*                                                                         *)
(* Page numbers, the nine-bit digits of a virtual page number and offsets  *)
(* in a page are all taken from Digits. A word of memory holds a digit: it *)
(* is a datum or, read as a page table entry, the number of a page. So     *)
(* page tables lie in the memory that the program writes. Transfers are    *)
(* whole words, and never bursts (MLEN1, AXI_BURST_FIXED).                 *)
(***************************************************************************)
CONSTANTS
  Digits,      \* page numbers, virtual page digits and page offsets (bound)
  Fetches,     \* the requests the fetch unit may make
  Accesses,    \* the requests the memory stage may make
  PagingModes  \* subset of BOOLEAN: the settings of satp and of the privilege mode

Virtual  == [vpn2: Digits, vpn1: Digits, vpn0: Digits, off: Digits]
Physical == Digits \X Digits

Requests      == [valid: {TRUE}, write: BOOLEAN, addr: Virtual, data: Digits]
PhysRequests  == [valid: BOOLEAN, write: BOOLEAN, addr: Physical, data: Digits]

SomeDigit == CHOOSE d \in Digits : TRUE

\* '0. The other fields of a request that is not valid are never looked at.
NoRequest == [valid |-> FALSE]
NoAnswer  == [ready |-> FALSE, data |-> SomeDigit]
Answers   == [ready: BOOLEAN, data: Digits]

ASSUME DigitsAssumption   == Digits # {}
ASSUME RequestsAssumption == /\ Fetches \subseteq Requests /\ \A r \in Fetches : ~r.write
                             /\ Accesses \subseteq Requests
ASSUME PagingAssumption   == PagingModes \subseteq BOOLEAN /\ PagingModes # {}

\* Without paging the virtual address is the physical one.
BareAddress(v) == <<v.vpn0, v.off>>
=============================================================================
