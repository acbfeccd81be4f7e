---------------------------- MODULE BramWrapper ----------------------------
(***************************************************************************)
(* The memory of the FPGA: a counter that delays every request, and the    *)
(* block RAM behind it (src/vivado/src/with_delay/bram_wrapper.sv). The    *)
(* RAM reads before it writes and shows what it read a cycle later, as the *)
(* project configures it (bram_0.xci). There are no bursts, so last is     *)
(* ready.                                                                  *)
(***************************************************************************)
EXTENDS BusRequests, Naturals

CONSTANT BramDelay \* BRAM_DELAY: 2 in simulation, 32 on the board

ASSUME DelayAssumption == BramDelay \in Nat

VARIABLES
  mem,
  counter,
  realValid, \* real_valid: the RAM is enabled
  readyRead, \* ready_read: it was enabled a cycle ago
  rdata

bramVars == <<mem, counter, realValid, readyRead, rdata>>

BramTypeOK ==
  /\ mem \in [Physical -> Digits]
  /\ counter \in 0 .. BramDelay
  /\ realValid \in BOOLEAN /\ readyRead \in BOOLEAN
  /\ rdata \in Digits

BramInit ==
  /\ mem \in [Physical -> Digits]
  /\ counter = 0 /\ realValid = FALSE /\ readyRead = FALSE
  /\ rdata = SomeDigit

\* Mutant: a read does not wait for the output register of the RAM.
BramReadyEarly(req) == realValid

\* A write is acknowledged at once, a read when the RAM shows the word.
BramReady(req) == IF req.write THEN realValid ELSE readyRead

BramAnswer(req) == [ready |-> BramReady(req), data |-> rdata]

\* Mutant: the counter runs on past the delay.
BramStepRunsOn(req) ==
  /\ counter' = IF ~req.valid \/ BramReady(req) THEN 0 ELSE counter + 1
  /\ realValid' = (counter = BramDelay /\ req.valid /\ ~BramReady(req))
  /\ readyRead' = realValid
  /\ rdata' = IF realValid THEN mem[req.addr] ELSE rdata
  /\ mem' = IF realValid /\ req.write THEN [mem EXCEPT ![req.addr] = req.data] ELSE mem

\* Mutant: the delay is compared with one cycle more than the counter reaches.
BramStepOffByOne(req) ==
  /\ counter' = IF ~req.valid \/ BramReady(req) THEN 0
                ELSE IF counter # BramDelay THEN counter + 1 ELSE counter
  /\ realValid' = (counter = BramDelay + 1 /\ req.valid /\ ~BramReady(req))
  /\ readyRead' = realValid
  /\ rdata' = IF realValid THEN mem[req.addr] ELSE rdata
  /\ mem' = IF realValid /\ req.write THEN [mem EXCEPT ![req.addr] = req.data] ELSE mem

BramStep(req) ==
  /\ counter' = IF ~req.valid \/ BramReady(req) THEN 0
                ELSE IF counter # BramDelay THEN counter + 1 ELSE counter
  /\ realValid' = (counter = BramDelay /\ req.valid /\ ~BramReady(req))
  /\ readyRead' = realValid
  /\ rdata' = IF realValid THEN mem[req.addr] ELSE rdata
  /\ mem' = IF realValid /\ req.write THEN [mem EXCEPT ![req.addr] = req.data] ELSE mem
=============================================================================
