---------------------------- MODULE DBusPipeline ----------------------------
(***************************************************************************)
(* How a test uses the data bus: DBusPipelineGen, a queue of tasks that    *)
(* are issued one after the other, and the loads and stores of DBusGen,    *)
(* which wait for their answer (src/verilate/include/bus.h).               *)
(***************************************************************************)
EXTENDS LoadOps, Sequences

CONSTANT Calls \* what tests ask for: [kind, width, addr, b31, value]

Bytes8 == [Lanes -> 0 .. 255]

ASSUME CallsAssumption ==
  Calls \subseteq [kind: {"load", "store", "expect"}, width: {1, 2, 4, 8}, addr: Nat, b31: BOOLEAN,
                  value: Bytes8]

VARIABLES
  dreq,    \* the request on the bus
  ongoing, \* the tasks whose answer is not there yet
  waiting, \* "no", or the test waits: in "fence" or in "await"
  got      \* what the loads have returned

clientVars == <<dreq, ongoing, waiting, got>>

NoRequest == [valid |-> FALSE]

ClientInit == dreq = NoRequest /\ ongoing = <<>> /\ waiting = "no" /\ got = <<>>

\* The helpers assert that what they are given is aligned.
AlignedCall(call) == call.addr % call.width = 0

\* Task, as made by the helpers load, store and expect for each width. The call is
\* kept as a history variable.
Task(call) ==
  LET op == Parse(call.width, call.addr)
  IN  [call |-> call, addr |-> [low |-> call.addr, b31 |-> call.b31], size |-> call.width,
       load_op |-> op,
       strobe |-> IF call.kind = "store" THEN OpLanes(op) ELSE {},
       data |-> IF call.kind = "load" THEN Zero ELSE Place(op, call.value)]

\* DBusGen::async_load and async_store set bit 31 of the address.
Issue(t) ==
  dreq' = [valid |-> TRUE, addr |-> [t.addr EXCEPT !.b31 = TRUE], size |-> t.size,
           strobe |-> t.strobe, data |-> IF t.strobe = {} THEN Zero ELSE t.data]

\* Mutant: a task is issued at once, whatever the bus does.
SubmitNow(call) ==
  /\ waiting = "no" /\ AlignedCall(call)
  /\ ongoing' = Append(ongoing, Task(call))
  /\ Issue(Task(call))
  /\ UNCHANGED <<waiting, got>>

\* DBusPipelineGen::submit
Submit(call) ==
  /\ waiting = "no" /\ AlignedCall(call)
  /\ ongoing' = Append(ongoing, Task(call))
  /\ IF dreq.valid THEN UNCHANGED dreq ELSE Issue(Task(call))
  /\ UNCHANGED <<waiting, got>>

\* fence, and the load of a memory cell, which ends with one (cell.h).
Fence ==
  /\ waiting = "no" /\ ongoing # <<>>
  /\ waiting' = "fence"
  /\ UNCHANGED <<dreq, ongoing, got>>

\* DBusGen::load and store, while no pipeline is in use: async_*, then await.
Await(call) ==
  /\ waiting = "no" /\ ongoing = <<>> /\ call.kind # "expect"
  /\ ongoing' = <<Task(call)>>
  /\ waiting' = "await"
  /\ Issue(Task(call))
  /\ UNCHANGED got

\* Task::apply_assert, of the lanes the mask of the operation leaves.
AssertFails(t, data) ==
  t.call.kind = "expect" /\ \E i \in OpLanes(t.load_op) : data[i] # t.data[i]

\* Mutant: the request is not cleared after the last answer.
IssueNextKeeps == IF ongoing' = <<>> THEN UNCHANGED dreq ELSE Issue(Head(ongoing'))

\* Mutant: the next task waits for another submit.
IssueNextForgets == IF ongoing' = ongoing THEN UNCHANGED dreq ELSE dreq' = NoRequest

IssueNext == IF ongoing' = <<>> THEN dreq' = NoRequest ELSE Issue(Head(ongoing'))

\* DBusPipelineGen::tick, or one round of DBusGen::await. Whether the answer is there,
\* and what it is, is read before the clock ticks.
ClientTick(data_ok, data) ==
  /\ IF dreq.valid /\ data_ok
     THEN LET u == Head(ongoing)
          IN  /\ ongoing' = Tail(ongoing)
              /\ got' = IF u.call.kind = "load" THEN Append(got, Save(u.load_op, data)) ELSE got
     ELSE UNCHANGED <<ongoing, got>>
  /\ IssueNext
  /\ waiting' = IF ongoing' = <<>> THEN "no" ELSE waiting
=============================================================================
