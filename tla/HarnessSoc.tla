----------------------------- MODULE HarnessSoc -----------------------------
(***************************************************************************)
(* A test over the simulated system: the tasks of DBusPipeline, the design *)
(* under test between DBus and CBus, CBusDevice with bursts and byte       *)
(* strobes (src/verilate/vsrc/cbus_device.cpp), the memories, the          *)
(* registers with their terminal, and the monitor of checkout_confreg      *)
(* (model.cpp). The class with tick() is not in the repository: it is      *)
(* taken to let the device and the registers see each cycle once, in the   *)
(* order of their interfaces, and to check the registers after that.       *)
(***************************************************************************)
EXTENDS DBusPipeline, SocMemory, AxiTransaction, Confreg

CONSTANTS
  LineWords,  \* what the design fetches with one burst
  MaxTasks, MaxResets, \* bounds
  BufferSize, \* LOG_MAX_BUFFER_SIZE (bound)
  StatusLine, \* whether the status line is enabled
  Typed,      \* characters of the terminal, not 0
  Tests       \* the tests: the calls that each makes, in any order, and how many
              \* characters are typed meanwhile (bound)

\* The lengths that mlen_t can express.
ASSUME LineAssumption == LineWords \in {1, 2, 4, 8, 16, 32, 64, 128, 256} /\ BlockWords % LineWords = 0
ASSUME StatusAssumption == StatusLine \in BOOLEAN /\ BufferSize \in Nat
ASSUME TypedAssumption == Typed \subseteq 1 .. 255
ASSUME TestsAssumption == Tests \subseteq [calls: SUBSET Calls, typed: Nat]

VARIABLES
  mem, tx, enable,   \* CBusDevice
  line,              \* the burst of the design under test, or Direct
  current_num,       \* ModelBase
  buffer, shown,     \* notify_char: the characters kept back, and stderr
  aborted,           \* the assertion that ended the test, or "no"
  test,              \* the test that runs
  tasks, typed, resets, \* how many there were; typed and the next ones are history
  read, sent, printed,  \* characters read from RXD, stored to VIRTUAL_UART and to TXD
  numbers               \* the last number the program showed, whether they came in
                        \* order, and whether the monitor has lost count: it is off, or
                        \* was when they changed, or they were set back by a reset

deviceVars  == <<mem, tx, enable>>
historyVars == <<test, tasks, typed, resets, read, sent, printed, numbers>>
vars == <<clientVars, confregVars, deviceVars, line, current_num, buffer, shown, aborted,
          historyVars>>

Direct == [burst |-> FALSE]

Init ==
  /\ ClientInit /\ ConfregInit
  /\ mem = BlockInit /\ tx = NoTransaction /\ enable = TRUE
  /\ line = Direct /\ current_num = 0
  /\ buffer = <<>> /\ shown = <<>>
  /\ aborted = "no"
  /\ test \in Tests
  /\ tasks = 0 /\ typed = <<>> /\ resets = 0
  /\ read = <<>> /\ sent = <<>> /\ printed = <<>>
  /\ numbers = [last |-> 0, inOrder |-> TRUE, lost |-> FALSE]

(***************************************************************************)
(* The design under test. DBusToCBus passes a request on as it is; a cache *)
(* would load the line around it with a burst that wraps, from any of its  *)
(* words on.                                                               *)
(***************************************************************************)
CBusRequest ==
  IF ~dreq.valid THEN NoRequest
  ELSE IF line.burst
  THEN [valid |-> TRUE, is_write |-> FALSE, size |-> 3, len |-> LineWords - 1, strobe |-> {},
        data |-> Zero, addr |-> [dreq.addr EXCEPT !.low = line.start]]
  ELSE [valid |-> TRUE, is_write |-> dreq.strobe # {}, len |-> 0, strobe |-> dreq.strobe,
        data |-> dreq.data, addr |-> dreq.addr,
        size |-> CHOOSE s \in 0 .. 3 : 2 ^ s = dreq.size]

\* Before its request is on the CBus the design may decide for a burst.
StartLine ==
  /\ aborted = "no" /\ LineWords > 1
  /\ dreq.valid /\ dreq.strobe = {} /\ ~line.burst /\ ~tx.busy
  /\ Search(dreq.addr.low).device = "mem"
  /\ \E w \in 0 .. LineWords - 1 :
       line' = [burst |-> TRUE, word |-> Zero, beat |-> 0,
                start |-> (dreq.addr.low \div (8 * LineWords)) * 8 * LineWords + 8 * w]
  /\ UNCHANGED <<clientVars, confregVars, deviceVars, current_num, buffer, shown, aborted,
                 historyVars>>

\* The position in the line of the word asked for, and of the word of a beat.
Wanted    == (dreq.addr.low \div 8) % LineWords
Position  == ((line.start \div 8) + line.beat) % LineWords

(***************************************************************************)
(* CBusDevice. The wrapper takes bit 31 out of the address.                *)
(***************************************************************************)
Now == Search(tx.addr)

\* eval_resp: what the transaction loads, and the answer.
Loaded == IF Now.device = "mem" THEN BlockLoad(mem, Translate(tx.addr)) ELSE ConfregLoad(Register(tx.addr))

Serving == enable /\ tx.busy

Response ==
  IF Serving
  THEN [ready |-> TRUE, last |-> LastWord(tx), data |-> IF tx.is_write THEN Zero ELSE Loaded]
  ELSE [ready |-> FALSE, last |-> FALSE, data |-> Zero]

\* dresp
DesignAnswers ==
  [data_ok |-> Response.ready /\ Response.last,
   data |-> IF line.burst /\ Position # Wanted THEN line.word ELSE Response.data]

DesignStep ==
  line' = IF ~line.burst \/ ~Response.ready THEN line
          ELSE IF Response.last THEN Direct
          ELSE [line EXCEPT !.beat = @ + 1, !.word = IF Position = Wanted THEN Response.data ELSE @]

\* The assertions of eval_req.
RequestChanged(req) ==
  Serving /\ ~(/\ req.valid /\ req.is_write = tx.is_write /\ 2 ^ req.size = tx.Number_Bytes
               /\ req.addr.low = tx.Start_Address /\ req.len + 1 = tx.Burst_Length)

OutOfRange == Serving /\ Now.device = "mem" /\ ~InBlock(Translate(tx.addr))

ConfregFails(req) ==
  Serving /\ Now.device = "con" /\ tx.is_write /\ StoreFails(Register(tx.addr), req.strobe)

StoresTo(device) == Serving /\ tx.is_write /\ Now.device = device

\* eval_req and sync. STROBE_TO_MASK makes of each bit of the strobe the mask of a lane.
DeviceStep(req) ==
  /\ tx' = IF ~enable THEN tx
           ELSE IF tx.busy THEN IF LastWord(tx) THEN NoTransaction ELSE NextWord(tx)
           ELSE IF req.valid THEN BeginTransaction(req.addr.low, req.size, req.len, req.is_write)
           ELSE tx
  /\ mem' = IF StoresTo("mem")
            THEN BlockStore(mem, Translate(tx.addr), req.data, req.strobe) ELSE mem
  /\ enable' \in BOOLEAN

\* The context of the registers at the end of the cycle.
NewContext(req) ==
  LET a == Register(tx.addr)
  IN  IF StoresTo("con") THEN Stored(ctx, a, req.data)
      ELSE IF Serving /\ Now.device = "con"
      THEN [ctx EXCEPT !.uart_fetched = Fetched(ctx, a)]
      ELSE ctx

ConfregStep(req) ==
  ConfregSync(NewContext(req), IF StoresTo("con") THEN <<Register(tx.addr), req.data>> ELSE <<>>)

(***************************************************************************)
(* checkout_confreg.                                                       *)
(***************************************************************************)
\* Mutant: the acknowledgement is not looked at.
NumberFailsUnacked(c) ==
  c.v_num_monitor /\ current_num # CurrentNum(c) /\ current_num + 1 # CurrentNum(c)

NumberFails(c) ==
  /\ c.v_num_monitor /\ current_num # CurrentNum(c)
  /\ current_num + 1 # CurrentNum(c) \/ AckedNum(c) # CurrentNum(c)

\* fputs prints no more than what is before the first zero.
Printable(s) ==
  LET n == CHOOSE k \in 0 .. Len(s) : /\ \A i \in 1 .. k : s[i] # 0
                                      /\ k = Len(s) \/ s[k + 1] = 0
  IN  SubSeq(s, 1, n)

\* Mutant: the character that fills the buffer is lost.
NotifyCharDrops(char) ==
  IF ~StatusLine THEN shown' = Append(shown, char) /\ UNCHANGED buffer
  ELSE IF char = 10 \/ Len(buffer) + 1 >= BufferSize
  THEN shown' = shown \o Printable(buffer) /\ buffer' = <<>>
  ELSE buffer' = Append(buffer, char) /\ UNCHANGED shown

NotifyChar(char) ==
  IF ~StatusLine THEN shown' = Append(shown, char) /\ UNCHANGED buffer
  ELSE IF char = 10 \/ Len(buffer) + 1 >= BufferSize
  THEN shown' = shown \o Printable(Append(buffer, char)) /\ buffer' = <<>>
  ELSE buffer' = Append(buffer, char) /\ UNCHANGED shown

CheckoutConfreg(c) ==
  /\ current_num' = IF c.v_num_monitor THEN CurrentNum(c) ELSE current_num
  /\ IF c.vuart_written /\ c.vuart_data <= 127
     THEN NotifyChar(c.vuart_data) ELSE UNCHANGED <<buffer, shown>>

(***************************************************************************)
(* The test.                                                               *)
(***************************************************************************)
Aborts(req) ==
  LET u == Head(ongoing)
  IN  IF RequestChanged(req) THEN "request"
      ELSE IF OutOfRange THEN "range"
      ELSE IF ConfregFails(req) THEN "confreg"
      ELSE IF NumberFails(NewContext(req)) THEN "number"
      ELSE IF dreq.valid /\ DesignAnswers.data_ok /\ ongoing = <<>> THEN "queue"
      ELSE IF dreq.valid /\ DesignAnswers.data_ok /\ AssertFails(u, DesignAnswers.data) THEN "expect"
      ELSE "no"

\* The numbers of the program: each is shown with its acknowledgement, after the one
\* before it. A monitor that has lost count starts again from a number it accepts.
RecordNumbers(req) ==
  LET c == NewContext(req)
      n == CurrentNum(c)
      follows == n = numbers.last \/ (n = numbers.last + 1 /\ AckedNum(c) = n)
  IN  numbers' = [last |-> n,
                  inOrder |-> numbers.lost \/ (numbers.inOrder /\ follows),
                  lost |-> ~c.v_num_monitor \/ (numbers.lost /\ NumberFails(c))]

\* What the program has read and written by this tick.
Record(req) ==
  LET a == Register(tx.addr)
      d == DesignAnswers.data[0]
  IN  /\ read' = IF DesignAnswers.data_ok /\ ~tx.is_write /\ Now.device = "con" /\ a = UART_RXD /\ d # 0
                 THEN Append(read, d) ELSE read
      /\ sent' = IF StoresTo("con") /\ a = VIRTUAL_UART THEN Append(sent, req.data[0]) ELSE sent
      /\ printed' = IF StoresTo("con") /\ a = UART_TXD THEN Append(printed, req.data[0]) ELSE printed
      /\ UNCHANGED <<test, tasks, typed, resets>>

Abort ==
  /\ aborted = "no" /\ Aborts(CBusRequest) # "no"
  /\ aborted' = Aborts(CBusRequest)
  /\ RecordNumbers(CBusRequest)
  /\ UNCHANGED <<clientVars, confregVars, deviceVars, line, current_num, buffer, shown,
                 test, tasks, typed, resets, read, sent, printed>>

\* top->tick(), in tick(), fence() or await().
Tick ==
  /\ aborted = "no" /\ Aborts(CBusRequest) = "no"
  /\ DeviceStep(CBusRequest)
  /\ ConfregStep(CBusRequest)
  /\ CheckoutConfreg(NewContext(CBusRequest))
  /\ DesignStep
  /\ ClientTick(DesignAnswers.data_ok, DesignAnswers.data)
  /\ Record(CBusRequest) /\ RecordNumbers(CBusRequest)
  /\ UNCHANGED aborted

Ask ==
  /\ aborted = "no" /\ tasks < MaxTasks
  /\ tasks' = tasks + 1
  /\ \E call \in test.calls : Submit(call) \/ Await(call)
  /\ UNCHANGED <<confregVars, deviceVars, line, current_num, buffer, shown, aborted, test,
                 typed, resets, read, sent, printed, numbers>>

WaitForAll ==
  /\ aborted = "no" /\ Fence
  /\ UNCHANGED <<confregVars, deviceVars, line, current_num, buffer, shown, aborted,
                 historyVars>>

\* The thread of the terminal. A character that comes between a load and the sync of the
\* same cycle is as good as one just before it: it is put behind the one that is loaded.
Type ==
  /\ Len(typed) < test.typed
  /\ \E c \in Typed : TypeChar(c) /\ typed' = Append(typed, c)
  /\ UNCHANGED <<clientVars, deviceVars, line, current_num, buffer, shown, aborted, test,
                 tasks, resets, read, sent, printed, numbers>>

\* top->reset() between two tests: the device, the memory and the registers; the
\* progress of ModelBase stays. The next test may be another one.
Reset ==
  /\ aborted = "no" /\ ongoing = <<>> /\ resets < MaxResets
  /\ resets' = resets + 1
  /\ test' \in Tests
  /\ mem' = BlockInit /\ tx' = NoTransaction
  /\ ConfregReset
  /\ typed' = read
  /\ numbers' = [last |-> 0, inOrder |-> TRUE, lost |-> current_num > 0]
  /\ UNCHANGED <<clientVars, enable, line, current_num, buffer, shown, aborted, tasks, read,
                 sent, printed>>

Next == Ask \/ WaitForAll \/ StartLine \/ Tick \/ Abort \/ Type \/ Reset

Spec == Init /\ [][Next]_vars

\* fence and await tick until the answer is there, and the device is enabled again and
\* again: p_disable < 1.
FairSpec ==
  /\ Spec
  /\ WF_vars(waiting # "no" /\ Tick /\ enable')
  /\ WF_vars(waiting # "no" /\ Abort)

(***************************************************************************)
(* Properties.                                                             *)
(***************************************************************************)
TypeOK ==
  /\ ongoing \in Seq({Task(c) : c \in Calls}) /\ (waiting # "no" => ongoing # <<>>)
  /\ dreq.valid <=> ongoing # <<>>
  /\ \A k \in DOMAIN mem : DOMAIN mem[k] = Lanes
  /\ tx.busy => tx.N \in 1 .. tx.Burst_Length /\ tx.Burst_Length \in {1, LineWords}
  /\ line.burst => line.beat \in 0 .. LineWords - 1
  /\ aborted \in {"no", "request", "range", "confreg", "number", "queue", "expect"}

Memory ==
  INSTANCE ByteMemory WITH
    Size <- 8 * BlockWords,
    bytes <- [b \in 0 .. 8 * BlockWords - 1 |-> mem[b \div 8][b % 8]],
    queue <- [k \in DOMAIN ongoing |-> ongoing[k].call],
    failed <- aborted = "expect"

\* Whatever the delays of the device, the bursts of the design and the width of the
\* accesses, the loads, stores and expectations of a test are done in its order in one
\* memory of bytes, seen through both windows (bus.h:647-687, cbus_device.cpp:13-77,
\* memory.cpp:7-39).
ImplementsByteMemory == Memory!Spec

\* Every fence and every await comes to its end, or an assertion ends the test: no task
\* is left without its answer by a burst, a pause of the device or the order in which
\* the queue is served (bus.h:592, 792).
EveryWaitEnds == waiting # "no" ~> waiting = "no" \/ aborted # "no"

\* A test keeps to addresses that exist, and to stores that its registers take.
CallsExist ==
  \A c \in Calls :
    /\ Search(c.addr).device = "mem" => InBlock(Translate(c.addr))
    /\ Search(c.addr).device = "con" /\ c.kind = "store"
         => ~StoreFails(Register(c.addr), OpLanes(Parse(c.width, c.addr)))

\* All its calls are aligned, and what it expects is in memory.
CallsInMemory ==
  /\ CallsExist
  /\ \A c \in Calls : AlignedCall(c) /\ (c.kind = "expect" => Search(c.addr).device = "mem")

\* The assertions about the design and the queue never fail for a test that keeps to
\* addresses that exist (cbus_device.cpp:39-43, bus.h:665): a request stays as it is
\* while the device works on it, although tasks are added at any time.
AssertionsHold == aborted \in {"no", "expect", "number"}

\* Each character typed at the terminal is read once and in order, or still in the
\* queue, while its thread adds characters at any time and the device pauses
\* (confreg.cpp:99-121, 155-160, 194-201).
TypedReadOnce == typed = read \o ififo

\* What the program sends to either UART is shown once and in order, although a context
\* holds one character only, or is still in the buffer of the status line
\* (confreg.cpp:109-121, common.cpp:223-239). A zero cuts the buffer short.
SentShownOnce ==
  /\ printed = wire
  /\ (\A k \in DOMAIN sent : sent[k] \in 1 .. 127) => sent = shown \o buffer

\* The monitor aborts a test exactly if the program does not count up number by number
\* with its acknowledgements, from the number it has accepted last, also when it was
\* switched off and on again in between. Left out is only that it compares with an older
\* number in the cycle in which it is switched on and in the first one after a reset
\* (model.cpp:141-153).
NumbersChecked ==
  ~numbers.lost =>
    /\ aborted = "number" => ~numbers.inOrder
    /\ ctx0.v_num_monitor /\ aborted = "no" => numbers.inOrder
=============================================================================
