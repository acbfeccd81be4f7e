------------------------------- MODULE Confreg -------------------------------
(***************************************************************************)
(* The configuration registers of the simulated system and its UART        *)
(* (src/verilate/vsrc/confreg.cpp, include/confreg.h). Loads and stores of *)
(* a cycle leave notes in a context, which sync carries out. A thread of   *)
(* its own waits for the characters of the terminal. The timer and the     *)
(* switch for tracing are left out.                                        *)
(***************************************************************************)
EXTENDS LoadOps, Sequences

VARIABLES
  ctx, ctx0, \* the contexts of this cycle and of the last one
  regs,      \* mem
  ififo,     \* characters that were typed and not fetched
  wire       \* what was written to opty

confregVars == <<ctx, ctx0, regs, ififo, wire>>

UART_RXD     == \h1000
UART_TXD     == \h1000
UART_LSR     == \h1014
LED          == \hf000
NUM          == \hf010
IO_SIMU      == \hffec
VIRTUAL_UART == \hfff0
SIMU_FLAG    == \hfff4
NUM_MONITOR  == \hfffc

\* ADDR_MASK
Register(addr) == addr % \h10000

Datum(byte) == [Zero EXCEPT ![0] = byte]

NoContext ==
  [uart_avail |-> FALSE, uart_fetched |-> FALSE, uart_written |-> FALSE, uart_data |-> 0,
   vuart_written |-> FALSE, vuart_data |-> 0, v_num_monitor |-> TRUE, v_num |-> Zero]

RegsInit ==
  [a \in {LED, NUM, IO_SIMU, VIRTUAL_UART, SIMU_FLAG, NUM_MONITOR} |->
     CASE a = LED         -> [i \in Lanes |-> IF i < 2 THEN 255 ELSE 0]
       [] a = SIMU_FLAG   -> [i \in Lanes |-> IF i < 4 THEN 255 ELSE 0]
       [] a = NUM_MONITOR -> Datum(1)
       [] OTHER           -> Zero]

ConfregInit ==
  /\ ctx = NoContext /\ ctx0 = NoContext
  /\ regs = RegsInit
  /\ ififo = <<>> /\ wire = <<>>

\* Confreg::reset
ConfregReset ==
  /\ ctx' = NoContext /\ ctx0' = NoContext
  /\ regs' = RegsInit
  /\ ififo' = <<>>
  /\ UNCHANGED wire

ConfregLoad(a) ==
  CASE a = UART_LSR -> Datum(IF ctx.uart_avail THEN 1 ELSE 0)
    [] a = UART_RXD -> Datum(IF ctx.uart_avail THEN Head(ififo) ELSE 0)
    [] OTHER        -> IF a \in DOMAIN regs THEN regs[a] ELSE Zero

\* Mutant: the character is fetched only if it was there in the last cycle too.
FetchedLate(c, a) == a = UART_RXD /\ c.uart_avail /\ ctx0.uart_avail

\* A load of the character takes it out of the queue at the end of the cycle.
Fetched(c, a) == a = UART_RXD /\ c.uart_avail

\* LSR is read-only, and TXD takes bytes only.
StoreFails(a, mask) == a = UART_LSR \/ (a = UART_TXD /\ mask # {0})

\* Confreg::store ignores the mask: data is the whole word on the bus.
Stored(c, a, data) ==
  CASE a = UART_TXD     -> [c EXCEPT !.uart_written = TRUE, !.uart_data = data[0]]
    [] a = VIRTUAL_UART -> [c EXCEPT !.vuart_written = TRUE, !.vuart_data = data[0]]
    [] a = NUM          -> [c EXCEPT !.v_num = data]
    [] a = NUM_MONITOR  -> [c EXCEPT !.v_num_monitor = data[0] % 2 = 1]
    [] OTHER            -> c

SwapBytes(data) ==
  [i \in Lanes |-> IF i < 2 THEN data[i + 2] ELSE IF i < 4 THEN data[i - 2] ELSE 0]

\* The value that is committed to mem.
Changed(a, data) ==
  CASE a = VIRTUAL_UART -> Datum(data[0])
    [] a = SIMU_FLAG    -> [i \in Lanes |-> IF i < 4 THEN 255 ELSE 0]
    [] a = IO_SIMU      -> SwapBytes(data)
    [] a = NUM_MONITOR  -> Datum(data[0] % 2)
    [] OTHER            -> data

\* Confreg::sync, where c is the context at the end of the cycle and changes what was
\* stored in it: nothing, or one register and its datum.
ConfregSync(c, changes) ==
  /\ ififo' = IF c.uart_fetched THEN Tail(ififo) ELSE ififo
  /\ wire' = IF c.uart_written THEN Append(wire, c.uart_data) ELSE wire
  /\ ctx0' = c
  /\ ctx' = [c EXCEPT !.uart_avail = ififo' # <<>>, !.uart_written = FALSE,
                      !.uart_fetched = FALSE, !.vuart_written = FALSE]
  /\ regs' = IF changes # <<>> /\ changes[1] \in DOMAIN regs
             THEN [regs EXCEPT ![changes[1]] = Changed(changes[1], changes[2])]
             ELSE regs

\* Mutant: the last character comes first.
TypeCharFirst(c) ==
  /\ ififo' = <<c>> \o ififo
  /\ UNCHANGED <<ctx, ctx0, regs, wire>>

\* The thread of uart_open_pty: fgetc has returned a character.
TypeChar(c) ==
  /\ ififo' = Append(ififo, c)
  /\ UNCHANGED <<ctx, ctx0, regs, wire>>

\* get_current_num and get_acked_num, of 64 bits cut to an int.
CurrentNum(c) == c.v_num[3] + 256 * (c.v_num[4] + 256 * (c.v_num[5] + 256 * c.v_num[6]))
AckedNum(c)   == c.v_num[0]
=============================================================================
