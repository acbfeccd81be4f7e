------------------------------- MODULE LoadOps -------------------------------
(***************************************************************************)
(* Where a datum of 1, 2, 4 or 8 bytes lies on the 64-bit data bus: class  *)
(* LoadOp of src/verilate/include/bus.h. A word is the function from its   *)
(* eight byte lanes to their values; a shift by 8*n bits moves n lanes.    *)
(***************************************************************************)
EXTENDS Integers

Lanes == 0 .. 7

Zero == [i \in Lanes |-> 0]

Discard == [width |-> 0, shift |-> 0]

\* LoadOp::parse, of the low bits of an address.
Parse(width, addr) ==
  [width |-> width, shift |-> IF width = 8 THEN 0 ELSE ((addr % 8) \div width) * width]

\* The lanes that strobe() and mask() select.
OpLanes(op) == op.shift .. op.shift + op.width - 1

\* Mutant: the shift is not undone for the upper half of the word.
PlaceLow(op, data) ==
  [i \in Lanes |-> IF i >= (op.shift % 4) THEN data[i - (op.shift % 4)] ELSE 0]

\* data << shift, which does not cut the datum to its width.
Place(op, data) == [i \in Lanes |-> IF i >= op.shift THEN data[i - op.shift] ELSE 0]

\* data >> shift, or nothing.
Apply(op, data) ==
  [i \in Lanes |-> IF op # Discard /\ i + op.shift \in Lanes THEN data[i + op.shift] ELSE 0]

\* What is written to *dest. The switch falls through, but the narrower writes that
\* follow repeat the bytes of the first one.
Save(op, data) == [i \in 0 .. op.width - 1 |-> Apply(op, data)[i]]
=============================================================================
