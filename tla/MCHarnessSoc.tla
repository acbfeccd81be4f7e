---------------------------- MODULE MCHarnessSoc ----------------------------
(***************************************************************************)
(* A memory of two words, which is one line, and four tests. That of the   *)
(* memory has calls that overlap in its words, in all widths and through   *)
(* both windows; the bytes of a datum differ, also those beyond its width, *)
(* and the expectation is met after the first store only. Two characters   *)
(* are typed while the second reads the UART. The third sends different    *)
(* characters and newlines; the fourth shows numbers with and without      *)
(* their acknowledgement and switches the monitor off and on.              *)
(***************************************************************************)
EXTENDS HarnessSoc

Value(n) == [i \in Lanes |-> n + i]

Call(k, w, a, b, v) == [kind |-> k, width |-> w, addr |-> a, b31 |-> b, value |-> v]

RegisterLoad(a)     == Call("load", 1, Con.prefix + a, FALSE, Zero)
RegisterStore(a, v) == Call("store", 1, Con.prefix + a, FALSE, Datum(v))
Number(num, ack)    == Call("store", 4, Con.prefix + NUM, FALSE, [Datum(ack) EXCEPT ![3] = num])

\* Loaded with a burst or without, between the accesses to registers.
SecondWord == Call("load", 8, 8, FALSE, Zero)

MemoryTest ==
  [typed |-> 0,
   calls |-> { Call("store", 8, 0, TRUE, Value(1)),
               Call("store", 2, Boot.prefix + 6, FALSE, Value(21)),
               Call("load", 4, 4, FALSE, Zero),
               Call("expect", 4, 4, FALSE, Value(5)),
               RegisterLoad(UART_RXD) }]

InputTest ==
  [typed |-> 2, calls |-> {RegisterLoad(UART_RXD), RegisterLoad(UART_LSR), SecondWord}]

OutputTest ==
  [typed |-> 0,
   calls |-> { RegisterStore(UART_TXD, 65), RegisterStore(UART_TXD, 68),
               RegisterStore(VIRTUAL_UART, 66), RegisterStore(VIRTUAL_UART, 67),
               RegisterStore(VIRTUAL_UART, 10), SecondWord }]

NumberTest ==
  [typed |-> 0,
   calls |-> { Number(1, 1), Number(2, 1), Number(2, 2), RegisterStore(NUM_MONITOR, 0),
               RegisterStore(NUM_MONITOR, 1), SecondWord }]

MCTests == {MemoryTest, InputTest, OutputTest, NumberTest}

MCCalls == UNION {t.calls : t \in MCTests}

ASSUME TestAssumption == CallsInMemory
=============================================================================
