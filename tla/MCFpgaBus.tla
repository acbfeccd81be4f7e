----------------------------- MODULE MCFpgaBus -----------------------------
(***************************************************************************)
(* Two pages of two words; see MCSimulatedBus for the choice of addresses. *)
(***************************************************************************)
EXTENDS FpgaBus

Addr(a, b, c, o) == [vpn2 |-> a, vpn1 |-> b, vpn0 |-> c, off |-> o]
Read(a)     == [valid |-> TRUE, write |-> FALSE, addr |-> a, data |-> 0]
Write(a, d) == [valid |-> TRUE, write |-> TRUE, addr |-> a, data |-> d]

MCFetches  == {Read(Addr(0, 1, 0, 1)), Read(Addr(1, 0, 1, 0))}
MCAccesses == {Read(Addr(0, 0, 1, 1)), Write(Addr(0, 1, 0, 0), 0), Write(Addr(0, 1, 1, 1), 1)}
=============================================================================
