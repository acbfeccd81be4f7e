------------------------------ MODULE SocMemory ------------------------------
(***************************************************************************)
(* The memories of the simulated system: BlockMemory and MemoryRouter of   *)
(* src/verilate/vsrc/memory.cpp, with the layout that install_soc gives    *)
(* them (model.cpp). Memory starts with zeros, as after BlockMemory(size). *)
(***************************************************************************)
EXTENDS LoadOps

CONSTANT BlockWords \* its size, in words of eight bytes

\* No more than MEMORY_SIZE, which the boot window takes.
ASSUME BlockWordsAssumption == BlockWords \in Nat \ {0} /\ BlockWords <= \h20000

BlockInit == [k \in 0 .. BlockWords - 1 |-> Zero]

InBlock(addr) == addr \in 0 .. 8 * BlockWords - 1

BlockLoad(mem, addr) == mem[addr \div 8]

\* Mutant: the mask is ignored.
BlockStoreAll(mem, addr, data, mask) == [mem EXCEPT ![addr \div 8] = data]

BlockStore(mem, addr, data, mask) ==
  [mem EXCEPT ![addr \div 8] = [i \in Lanes |-> IF i \in mask THEN data[i] ELSE @[i]]]

\* mask leaves out the lowest bits of an address, and, being a literal of 32 bits, all
\* above them: an entry takes the aligned window of its size at its prefix, of which
\* there are windows in 32 bits; the last entry, with mask 0, takes every address.
Boot == [prefix |-> \h1fc00000, size |-> \h100000, windows |-> 4096, device |-> "mem", base |-> \h1fc00000]
Con  == [prefix |-> \h1faf0000, size |-> \h10000, windows |-> 65536, device |-> "con", base |-> 0]
All  == [prefix |-> 0, size |-> 0, windows |-> 0, device |-> "mem", base |-> 0]

Matches(e, addr) == e.size = 0 \/ (addr \div e.size) % e.windows = e.prefix \div e.size

\* MemoryRouter::search: the first entry that matches.
Search(addr) == IF Matches(Boot, addr) THEN Boot ELSE IF Matches(Con, addr) THEN Con ELSE All

Translate(addr) == addr - Search(addr).base
=============================================================================
