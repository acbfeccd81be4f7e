----------------------------- MODULE CBusDevice -----------------------------
(***************************************************************************)
(* The memory of the Verilator harness (verilate/vsrc/cbus_device.cpp,     *)
(* with AXITransaction of include/axi.h, BlockMemory of memory.cpp). A     *)
(* request starts a transaction, which answers a cycle later; in a cycle   *)
(* in which the device is not enabled nothing happens at all.              *)
(***************************************************************************)
EXTENDS BusRequests

VARIABLES
  mem,
  tx,    \* the transaction: busy, is_write and addr
  enable \* redrawn at random every cycle

deviceVars == <<mem, tx, enable>>

NoTransaction == [busy |-> FALSE]
Transactions == {NoTransaction} \cup [busy: {TRUE}, is_write: BOOLEAN, addr: Physical]

DeviceTypeOK ==
  /\ mem \in [Physical -> Digits]
  /\ tx \in Transactions
  /\ enable \in BOOLEAN

DeviceInit ==
  /\ mem \in [Physical -> Digits]
  /\ tx = NoTransaction
  /\ enable = TRUE

\* eval_resp. A transaction of length one is always at its last word.
DeviceAnswer ==
  IF enable /\ tx.busy
  THEN [ready |-> TRUE, data |-> IF tx.is_write THEN SomeDigit ELSE mem[tx.addr]]
  ELSE NoAnswer

\* eval_req and sync.
DeviceStep(req) ==
  /\ tx' = IF ~enable THEN tx
           ELSE IF ~tx.busy /\ req.valid THEN [busy |-> TRUE, is_write |-> req.write, addr |-> req.addr]
           ELSE NoTransaction
  /\ mem' = IF enable /\ tx.busy /\ tx.is_write THEN [mem EXCEPT ![tx.addr] = req.data] ELSE mem
  /\ enable' \in BOOLEAN
=============================================================================
