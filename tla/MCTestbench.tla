----------------------------- MODULE MCTestbench -----------------------------
(***************************************************************************)
(* Three tests: one with two plugins and two without.                      *)
(***************************************************************************)
EXTENDS Testbench

MCTestPlugins ==
  [t \in 0 .. 2 |-> CASE t = 0 -> <<"trace", "log">> [] t = 1 -> <<>> [] t = 2 -> <<>>]
=============================================================================
