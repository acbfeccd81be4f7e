----------------------------- MODULE ByteMemory -----------------------------
(***************************************************************************)
(* What a test may rely on when it asks for loads and stores: they are     *)
(* done one after the other, in the order asked for, in one memory of      *)
(* bytes. What a device register answers is left open.                     *)
(***************************************************************************)
EXTENDS Integers, Sequences

CONSTANTS
  Size,    \* of the memory, in bytes
  Calls    \* [kind, width, addr, value], where value lists the bytes

VARIABLES
  bytes,
  queue,  \* the calls that are not done yet
  got,    \* what the loads returned
  failed  \* an expectation was not met

vars == <<bytes, queue, got, failed>>

BootBase == \h1fc00000

\* Memory is seen at zero, and once more where the processor boots.
Location(addr) == IF addr \in BootBase .. BootBase + Size - 1 THEN addr - BootBase ELSE addr

InMemory(call) == Location(call.addr) \in 0 .. Size - 1

Bytes(call) == [i \in 0 .. call.width - 1 |-> bytes[Location(call.addr) + i]]

Init ==
  /\ bytes = [b \in 0 .. Size - 1 |-> 0]
  /\ queue = <<>> /\ got = <<>> /\ failed = FALSE

Ask(call) ==
  /\ queue' = Append(queue, call)
  /\ UNCHANGED <<bytes, got, failed>>

Load(call) ==
  /\ call.kind = "load"
  /\ IF InMemory(call) THEN got' = Append(got, Bytes(call))
     ELSE Len(got') = Len(got) + 1 /\ SubSeq(got', 1, Len(got)) = got
  /\ UNCHANGED <<bytes, failed>>

Store(call) ==
  /\ call.kind = "store"
  /\ bytes' = [b \in DOMAIN bytes |->
                 LET i == b - Location(call.addr)
                 IN  IF InMemory(call) /\ i \in 0 .. call.width - 1 THEN call.value[i] ELSE bytes[b]]
  /\ UNCHANGED <<got, failed>>

Met(call) == \A i \in 0 .. call.width - 1 : Bytes(call)[i] = call.value[i]

Expect(call) == call.kind = "expect" /\ Met(call) /\ UNCHANGED <<bytes, got, failed>>

Serve ==
  /\ queue # <<>>
  /\ queue' = Tail(queue)
  /\ Load(Head(queue)) \/ Store(Head(queue)) \/ Expect(Head(queue))

Fail ==
  /\ queue # <<>> /\ Head(queue).kind = "expect" /\ ~Met(Head(queue))
  /\ failed' = TRUE
  /\ UNCHANGED <<bytes, queue, got>>

Clear ==
  /\ queue = <<>>
  /\ bytes' = [b \in DOMAIN bytes |-> 0]
  /\ UNCHANGED <<queue, got, failed>>

Next == (\E c \in Calls : Ask(c)) \/ Serve \/ Fail \/ Clear

Spec == Init /\ [][Next]_vars
=============================================================================
