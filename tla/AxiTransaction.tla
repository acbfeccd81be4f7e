---------------------------- MODULE AxiTransaction ----------------------------
(***************************************************************************)
(* The addresses of the words of a burst: struct AXITransaction of         *)
(* src/verilate/include/axi.h. All bursts wrap.                            *)
(***************************************************************************)
EXTENDS Integers

NoTransaction == [busy |-> FALSE]

\* Mutant: the burst is not confined to its container.
BeginUnwrapped(addr, size, len, is_write) ==
  LET bytes == 2 ^ size
  IN  [busy |-> TRUE, is_write |-> is_write, aligned |-> FALSE, N |-> 1, addr |-> addr,
       Start_Address |-> addr, Number_Bytes |-> bytes, Burst_Length |-> len + 1,
       Aligned_Address |-> (addr \div bytes) * bytes,
       Lower_Wrap_Boundry |-> addr,
       Upper_Wrap_Boundry |-> addr + bytes * (len + 1)]

BeginTransaction(addr, size, len, is_write) ==
  LET bytes  == 2 ^ size
      dtsize == bytes * (len + 1)
      lower  == (addr \div dtsize) * dtsize
  IN  [busy |-> TRUE, is_write |-> is_write, aligned |-> FALSE, N |-> 1, addr |-> addr,
       Start_Address |-> addr, Number_Bytes |-> bytes, Burst_Length |-> len + 1,
       Aligned_Address |-> (addr \div bytes) * bytes,
       Lower_Wrap_Boundry |-> lower, Upper_Wrap_Boundry |-> lower + dtsize]

\* AXITransaction::sync: on to the next word.
NextWord(tx) ==
  LET addr == (IF tx.aligned THEN tx.addr ELSE tx.Aligned_Address) + tx.Number_Bytes
  IN  [tx EXCEPT !.N = @ + 1, !.aligned = TRUE,
                 !.addr = IF addr >= tx.Upper_Wrap_Boundry THEN tx.Lower_Wrap_Boundry ELSE addr]

LastWord(tx) == tx.N = tx.Burst_Length
=============================================================================
