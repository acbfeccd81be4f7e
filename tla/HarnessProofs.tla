--------------------------- MODULE HarnessProofs ---------------------------
(***************************************************************************)
(* Theorems about a test over the simulated system, for every memory, line *)
(* length, buffer size and set of calls, and for every design under test   *)
(* that loads single words or whole lines.                                 *)
(***************************************************************************)
EXTENDS HarnessSoc, SequenceTheorems, TLAPS

(***************************************************************************)
(* The inductive invariant. The request on the bus is the one of the       *)
(* oldest task, and the transaction of the device is the one the design    *)
(* makes of it, at the word the beat says; the notes in the context are    *)
(* cleared at the end of every cycle; and the monitor and the program      *)
(* agree on the number shown last.                                         *)
(***************************************************************************)
Request(t) ==
  [valid |-> TRUE, addr |-> [t.addr EXCEPT !.b31 = TRUE], size |-> t.size, strobe |-> t.strobe,
   data |-> IF t.strobe = {} THEN Zero ELSE t.data]

TaskSet == {Task(c) : c \in Calls}

ClientInv ==
  /\ ongoing \in Seq(TaskSet)
  /\ waiting \in {"no", "fence", "await"} /\ (waiting # "no" => ongoing # <<>>)
  /\ dreq = IF ongoing = <<>> THEN NoRequest ELSE Request(Head(ongoing))

LineBase == (dreq.addr.low \div (8 * LineWords)) * 8 * LineWords

LineInv ==
  IF ~line.burst THEN line = Direct
  ELSE /\ line \in [burst: {TRUE}, word: Bytes8, beat: 0 .. LineWords - 1, start: Nat]
       /\ LineWords > 1 /\ dreq.valid /\ dreq.strobe = {} /\ Search(dreq.addr.low).device = "mem"
       /\ \E w \in 0 .. LineWords - 1 : line.start = LineBase + 8 * w
       /\ ~tx.busy => line.beat = 0

Transactions ==
  [busy: {TRUE}, is_write: BOOLEAN, aligned: BOOLEAN, N: Nat, addr: Nat, Start_Address: Nat, Number_Bytes: Nat,
   Burst_Length: Nat, Aligned_Address: Nat, Lower_Wrap_Boundry: Nat, Upper_Wrap_Boundry: Nat]

TransactionInv ==
  IF ~tx.busy THEN tx = NoTransaction
  ELSE /\ tx \in Transactions
       /\ dreq.valid /\ (tx.is_write <=> dreq.strobe # {})
       /\ IF line.burst
          THEN /\ tx.Burst_Length = LineWords /\ tx.Start_Address = line.start /\ tx.Number_Bytes = 8
               /\ tx.N = line.beat + 1
               /\ tx.addr = LineBase + 8 * Position
               /\ tx.Lower_Wrap_Boundry = LineBase /\ tx.Upper_Wrap_Boundry = LineBase + 8 * LineWords
               /\ ~tx.aligned => tx.Aligned_Address = tx.addr
          ELSE /\ tx.Burst_Length = 1 /\ tx.N = 1 /\ tx.Number_Bytes = dreq.size
               /\ tx.addr = dreq.addr.low /\ tx.Start_Address = dreq.addr.low

Contexts ==
  [uart_avail: BOOLEAN, uart_fetched: BOOLEAN, uart_written: BOOLEAN, uart_data: 0 .. 255,
   vuart_written: BOOLEAN, vuart_data: 0 .. 255, v_num_monitor: BOOLEAN, v_num: Bytes8]

ContextInv ==
  /\ ctx \in Contexts /\ ctx0 \in Contexts
  /\ ~ctx.uart_fetched /\ ~ctx.uart_written /\ ~ctx.vuart_written
  /\ ctx.uart_avail => ififo # <<>>
  /\ ctx0.v_num_monitor = ctx.v_num_monitor
  /\ ififo \in Seq(Typed)

DataInv ==
  /\ mem \in [0 .. BlockWords - 1 -> Bytes8]
  /\ regs \in [DOMAIN RegsInit -> Bytes8]

HistoryInv ==
  /\ test \in Tests
  /\ read \in Seq(0 .. 255) /\ typed \in Seq(0 .. 255) /\ sent \in Seq(0 .. 255)
  /\ printed \in Seq(0 .. 255) /\ wire \in Seq(0 .. 255)
  /\ numbers \in [last: Nat, inOrder: BOOLEAN, lost: BOOLEAN] /\ current_num \in Nat
  /\ aborted \in {"no", "request", "range", "confreg", "number", "queue", "expect"} /\ enable \in BOOLEAN

HInv == ClientInv /\ LineInv /\ TransactionInv /\ ContextInv /\ DataInv /\ HistoryInv

NumberInv ==
  /\ aborted = "no" => numbers.last = CurrentNum(ctx)
  /\ ~numbers.lost =>
       /\ aborted = "no" => ctx.v_num_monitor /\ current_num = numbers.last /\ numbers.inOrder
       /\ aborted = "number" => ~numbers.inOrder

(***************************************************************************)
(* Tasks, requests and their addresses.                                    *)
(***************************************************************************)
\* What a task asks for fits into a word of the bus.
LEMMA TaskFacts ==
  ASSUME NEW c \in Calls
  PROVE  /\ Task(c).call = c /\ Task(c).size = c.width /\ c.width \in {1, 2, 4, 8}
         /\ Task(c).addr = [low |-> c.addr, b31 |-> c.b31] /\ c.addr \in Nat
         /\ Task(c).load_op = Parse(c.width, c.addr)
         /\ Task(c).strobe \subseteq Lanes /\ (Task(c).strobe = {} <=> c.kind # "store")
         /\ Task(c).data \in Bytes8
<1>1. /\ c.kind \in {"load", "store", "expect"} /\ c.width \in {1, 2, 4, 8} /\ c.addr \in Nat
      /\ c.value \in Bytes8
  BY CallsAssumption
<1> DEFINE op == Parse(c.width, c.addr)
<1>2. op.width = c.width /\ op.shift \in Nat /\ op.shift + op.width <= 8
  BY <1>1 DEF Parse
<1>3. OpLanes(op) \subseteq Lanes /\ OpLanes(op) # {}
  BY <1>1, <1>2 DEF OpLanes, Lanes
<1>4. Place(op, c.value) \in Bytes8 /\ Zero \in Bytes8
  <2>1. ASSUME NEW s \in Nat, NEW v \in Bytes8, NEW i \in Lanes
        PROVE  (IF i >= s THEN v[i - s] ELSE 0) \in 0 .. 255
    BY DEF Bytes8, Lanes
  <2> HIDE DEF op
  <2> QED
    BY <1>1, <1>2, <2>1, SMTT(30) DEF Place, Zero, Bytes8
<1> QED
  BY <1>1, <1>3, <1>4 DEF Task

LEMMA IssueIsRequest == ASSUME NEW t PROVE Issue(t) <=> dreq' = Request(t)
BY DEF Issue, Request

\* So does what is on the bus.
LEMMA OnTheBus ==
  ASSUME ClientInv
  PROVE  /\ dreq.valid \in BOOLEAN /\ (dreq.valid <=> ongoing # <<>>)
         /\ dreq.valid => /\ ongoing # <<>> /\ Head(ongoing) \in TaskSet /\ dreq = Request(Head(ongoing))
                          /\ dreq.addr.low \in Nat /\ dreq.size \in {1, 2, 4, 8}
                          /\ dreq.strobe \subseteq Lanes /\ dreq.data \in Bytes8
<1>1. CASE ongoing = <<>>
  BY <1>1 DEF ClientInv, NoRequest
<1>2. CASE ongoing # <<>>
  <2>1. Head(ongoing) \in TaskSet /\ dreq = Request(Head(ongoing))
    BY <1>2 DEF ClientInv
  <2>2. PICK c \in Calls : Head(ongoing) = Task(c)
    BY <2>1 DEF TaskSet
  <2>3. Zero \in Bytes8
    BY DEF Zero, Bytes8
  <2>4. /\ dreq.valid = TRUE /\ dreq.addr.low = c.addr /\ dreq.size = c.width
        /\ dreq.strobe = Task(c).strobe /\ dreq.data \in {Zero, Task(c).data}
    <3>1. /\ Request(Task(c)).valid = TRUE /\ Request(Task(c)).size = Task(c).size
          /\ Request(Task(c)).strobe = Task(c).strobe
          /\ Request(Task(c)).addr = [Task(c).addr EXCEPT !.b31 = TRUE]
          /\ Request(Task(c)).data \in {Zero, Task(c).data}
      BY DEF Request
    <3>2. [Task(c).addr EXCEPT !.b31 = TRUE].low = c.addr
      <4>1. Task(c).addr = [low |-> c.addr, b31 |-> c.b31]
        BY TaskFacts
      <4> QED
        BY <4>1
    <3> QED
      BY <2>1, <2>2, <3>1, <3>2, TaskFacts
  <2> QED
    BY <1>2, <2>1, <2>2, <2>3, <2>4, TaskFacts
<1> QED
  BY <1>1, <1>2

\* What the design puts on the CBus.
LEMMA OnTheCBus ==
  ASSUME ClientInv, LineInv
  PROVE  /\ ~dreq.valid => CBusRequest.valid = FALSE
         /\ dreq.valid /\ line.burst =>
              /\ CBusRequest.valid = TRUE /\ CBusRequest.is_write = FALSE /\ 2 ^ CBusRequest.size = 8
              /\ CBusRequest.len = LineWords - 1 /\ CBusRequest.addr.low = line.start
              /\ CBusRequest.data \in Bytes8 /\ CBusRequest.strobe = {}
         /\ dreq.valid /\ ~line.burst =>
              /\ CBusRequest.valid = TRUE /\ CBusRequest.is_write = (dreq.strobe # {})
              /\ 2 ^ CBusRequest.size = dreq.size /\ CBusRequest.len = 0
              /\ CBusRequest.addr.low = dreq.addr.low
              /\ CBusRequest.data = dreq.data /\ CBusRequest.strobe = dreq.strobe
<1>1. CASE ~dreq.valid
  BY <1>1 DEF CBusRequest, NoRequest
<1>2. CASE dreq.valid /\ line.burst
  <2>1. dreq.addr = [Head(ongoing).addr EXCEPT !.b31 = TRUE] /\ \E c \in Calls : Head(ongoing) = Task(c)
    BY <1>2, OnTheBus DEF Request, TaskSet
  <2>2. [dreq.addr EXCEPT !.low = line.start].low = line.start
    BY <2>1, TaskFacts
  <2>3. 2 ^ 3 = 8 /\ Zero \in Bytes8
    BY DEF Zero, Bytes8
  <2> QED
    BY <1>2, <2>2, <2>3 DEF CBusRequest
<1>3. CASE dreq.valid /\ ~line.burst
  <2>1. 2 ^ 0 = 1 /\ 2 ^ 1 = 2 /\ 2 ^ 2 = 4 /\ 2 ^ 3 = 8
    OBVIOUS
  <2>2. \E s \in 0 .. 3 : 2 ^ s = dreq.size
    <3>1. dreq.size \in {1, 2, 4, 8}
      BY <1>3, OnTheBus
    <3> QED
      BY <2>1, <3>1
  <2>3. 2 ^ (CHOOSE s \in 0 .. 3 : 2 ^ s = dreq.size) = dreq.size
    BY <2>2
  <2> QED
    BY <1>3, <2>3 DEF CBusRequest
<1> QED
  BY <1>1, <1>2, <1>3

\* The arithmetic of lines that start at a multiple of their length and of windows that
\* are a multiple of every line.
LEMMA LineArithmetic ==
  ASSUME NEW a \in Nat, NEW base, base = (a \div (8 * LineWords)) * 8 * LineWords,
         NEW w \in 0 .. LineWords - 1, NEW b \in 0 .. LineWords - 1
  PROVE  /\ base \in Nat /\ base + 8 * w \in Nat
         /\ (((base + 8 * w) \div 8) + b) % LineWords = IF w + b < LineWords THEN w + b ELSE w + b - LineWords
         /\ ((base + 8 * w) \div (8 * LineWords)) * (8 * LineWords) = base
         /\ ((base + 8 * w) \div 8) * 8 = base + 8 * w
<1>1. LineWords \in {1, 2, 4, 8, 16, 32, 64, 128, 256}
  BY LineAssumption
<1>2. CASE LineWords = 1
  BY <1>2
<1>3. CASE LineWords = 2
  BY <1>3
<1>4. CASE LineWords = 4
  BY <1>4
<1>5. CASE LineWords = 8
  BY <1>5
<1>6. CASE LineWords = 16
  BY <1>6
<1>7. CASE LineWords = 32
  BY <1>7
<1>8. CASE LineWords = 64
  BY <1>8
<1>9. CASE LineWords = 128
  BY <1>9
<1>10. CASE LineWords = 256
  BY <1>10
<1> QED
  BY <1>1, <1>2, <1>3, <1>4, <1>5, <1>6, <1>7, <1>8, <1>9, <1>10

LEMMA WindowArithmetic ==
  ASSUME NEW a \in Nat, NEW x, NEW w \in 0 .. LineWords - 1,
         x = (a \div (8 * LineWords)) * 8 * LineWords + 8 * w
  PROVE  x \div \h100000 = a \div \h100000 /\ x \div \h10000 = a \div \h10000
<1>1. LineWords \in {1, 2, 4, 8, 16, 32, 64, 128, 256}
  BY LineAssumption
<1>2. CASE LineWords = 1
  BY <1>2, SMT
<1>3. CASE LineWords = 2
  BY <1>3, SMT
<1>4. CASE LineWords = 4
  BY <1>4, SMT
<1>5. CASE LineWords = 8
  BY <1>5, SMT
<1>6. CASE LineWords = 16
  BY <1>6, SMT
<1>7. CASE LineWords = 32
  BY <1>7, SMT
<1>8. CASE LineWords = 64
  BY <1>8, SMT
<1>9. CASE LineWords = 128
  BY <1>9, SMT
<1>10. CASE LineWords = 256
  BY <1>10, SMT
<1> QED
  BY <1>1, <1>2, <1>3, <1>4, <1>5, <1>6, <1>7, <1>8, <1>9, <1>10, SMT

\* The words of a line, counted from any of them and wrapping.
LEMMA WordsOfLine ==
  ASSUME dreq.addr.low \in Nat, NEW w \in 0 .. LineWords - 1, NEW b \in 0 .. LineWords - 1
  PROVE  /\ LineBase \in Nat /\ LineBase + 8 * w \in Nat
         /\ (((LineBase + 8 * w) \div 8) + b) % LineWords = IF w + b < LineWords THEN w + b ELSE w + b - LineWords
         /\ ((LineBase + 8 * w) \div (8 * LineWords)) * (8 * LineWords) = LineBase
         /\ ((LineBase + 8 * w) \div 8) * 8 = LineBase + 8 * w
<1>1. LineBase = (dreq.addr.low \div (8 * LineWords)) * 8 * LineWords
  BY DEF LineBase
<1>2. \A a \in Nat : \A base : base = (a \div (8 * LineWords)) * 8 * LineWords =>
        /\ base \in Nat /\ base + 8 * w \in Nat
        /\ (((base + 8 * w) \div 8) + b) % LineWords = IF w + b < LineWords THEN w + b ELSE w + b - LineWords
        /\ ((base + 8 * w) \div (8 * LineWords)) * (8 * LineWords) = base
        /\ ((base + 8 * w) \div 8) * 8 = base + 8 * w
  BY LineArithmetic
<1> QED
  BY <1>1, <1>2, Zenon

\* No window ends within a line.
LEMMA LinesInWindows ==
  ASSUME dreq.addr.low \in Nat, NEW w \in 0 .. LineWords - 1
  PROVE  Search(LineBase + 8 * w) = Search(dreq.addr.low)
<1> DEFINE x == LineBase + 8 * w
           a == dreq.addr.low
<1>1. x = (a \div (8 * LineWords)) * 8 * LineWords + 8 * w
  BY DEF LineBase
<1> HIDE DEF x
<1>2. x \div \h100000 = a \div \h100000 /\ x \div \h10000 = a \div \h10000
  BY <1>1, WindowArithmetic, SMT
<1>3. Matches(Boot, x) = Matches(Boot, a) /\ Matches(Con, x) = Matches(Con, a)
  BY <1>2, SMT DEF Matches, Boot, Con
<1>4. Search(x) = Search(a)
  BY <1>3 DEF Search
<1> QED
  BY <1>4 DEF x

\* The fields of a transaction.
LEMMA BeginType ==
  ASSUME NEW addr \in Nat, NEW size, NEW len \in Nat, NEW is_write \in BOOLEAN, 2 ^ size \in {1, 2, 4, 8}
  PROVE  BeginTransaction(addr, size, len, is_write) \in Transactions
<1> DEFINE bytes == 2 ^ size
           dtsize == bytes * (len + 1)
<1>1. bytes \in Nat \ {0} /\ dtsize \in Nat \ {0}
  BY SMT
<1>2. \A d \in Nat \ {0} : (addr \div d) * d \in Nat
  BY SMT
<1> HIDE DEF bytes, dtsize
<1>3. (addr \div dtsize) * dtsize + dtsize \in Nat
  BY <1>1, <1>2
<1>4. /\ (addr \div bytes) * bytes \in Nat /\ (addr \div dtsize) * dtsize \in Nat
      /\ 1 \in Nat /\ len + 1 \in Nat /\ bytes \in Nat
  BY <1>1, <1>2
<1>5. BeginTransaction(addr, size, len, is_write) =
        [busy |-> TRUE, is_write |-> is_write, aligned |-> FALSE, N |-> 1, addr |-> addr,
         Start_Address |-> addr, Number_Bytes |-> bytes, Burst_Length |-> len + 1,
         Aligned_Address |-> (addr \div bytes) * bytes,
         Lower_Wrap_Boundry |-> (addr \div dtsize) * dtsize,
         Upper_Wrap_Boundry |-> (addr \div dtsize) * dtsize + dtsize]
  BY Zenon DEF BeginTransaction, bytes, dtsize
<1> QED
  BY <1>3, <1>4, <1>5, SMT DEF Transactions

LEMMA NextType ==
  ASSUME NEW t \in Transactions
  PROVE  NextWord(t) \in Transactions
<1> DEFINE next == (IF t.aligned THEN t.addr ELSE t.Aligned_Address) + t.Number_Bytes
<1>1. /\ t.N + 1 \in Nat /\ t.Lower_Wrap_Boundry \in Nat /\ next \in Nat
      /\ (IF next >= t.Upper_Wrap_Boundry THEN t.Lower_Wrap_Boundry ELSE next) \in Nat
  BY DEF Transactions
<1> HIDE DEF next
<1>2. NextWord(t) = [t EXCEPT !.N = t.N + 1, !.aligned = TRUE,
                              !.addr = IF next >= t.Upper_Wrap_Boundry THEN t.Lower_Wrap_Boundry ELSE next]
  BY DEF NextWord, next
<1> QED
  BY <1>1, <1>2 DEF Transactions

\* The device answers with a word.
LEMMA AnswerType ==
  ASSUME DataInv, ContextInv, TransactionInv, Tick
  PROVE  Response.data \in Bytes8
<1>1. Zero \in Bytes8
  BY DEF Zero, Bytes8
<1>2. CASE Serving /\ ~tx.is_write
  <2>1. tx.addr \in Nat
    BY <1>2 DEF Serving, TransactionInv, Transactions
  <2>2. CASE Now.device = "mem"
    <3>1. InBlock(Translate(tx.addr))
      BY <1>2, <2>2 DEF Tick, Aborts, OutOfRange
    <3>2. Translate(tx.addr) \div 8 \in 0 .. BlockWords - 1
      <4>1. ASSUME NEW x \in 0 .. 8 * BlockWords - 1 PROVE x \div 8 \in 0 .. BlockWords - 1
        <5>1. BlockWords \in Nat
          BY BlockWordsAssumption, SMT
        <5> QED
          BY <5>1, SMT
      <4> QED
        BY <3>1, <4>1, SMT DEF InBlock
    <3> QED
      BY <1>2, <2>2, <3>2 DEF Response, Loaded, BlockLoad, DataInv
  <2>3. CASE Now.device # "mem"
    <3>1. ASSUME NEW x \in 0 .. 255 PROVE Datum(x) \in Bytes8
      BY <1>1 DEF Datum, Bytes8, Lanes
    <3>2. (IF ctx.uart_avail THEN 1 ELSE 0) \in 0 .. 255
      OBVIOUS
    <3>3. (IF ctx.uart_avail THEN Head(ififo) ELSE 0) \in 0 .. 255
      <4>1. ctx.uart_avail => Head(ififo) \in Typed
        BY DEF ContextInv
      <4> QED
        <5>1. Typed \subseteq 0 .. 255 /\ 0 \in 0 .. 255
          BY TypedAssumption
        <5> QED
          BY <4>1, <5>1, Zenon
    <3>4. ASSUME NEW a PROVE ConfregLoad(a) \in Bytes8
      <4>1. CASE a = UART_LSR
        <5>1. ConfregLoad(a) = Datum(IF ctx.uart_avail THEN 1 ELSE 0)
          BY <4>1 DEF ConfregLoad, UART_RXD, UART_LSR
        <5> QED
          BY <3>1, <3>2, <5>1, Zenon
      <4>2. CASE a = UART_RXD
        <5>1. ConfregLoad(a) = Datum(IF ctx.uart_avail THEN Head(ififo) ELSE 0)
          BY <4>2 DEF ConfregLoad, UART_RXD, UART_LSR
        <5> QED
          BY <3>1, <3>3, <5>1, Zenon
      <4>3. CASE a # UART_LSR /\ a # UART_RXD
        <5>1. ConfregLoad(a) = IF a \in DOMAIN regs THEN regs[a] ELSE Zero
          BY <4>3 DEF ConfregLoad
        <5> QED
          BY <1>1, <5>1 DEF DataInv
      <4> QED
        BY <4>1, <4>2, <4>3
    <3> QED
      BY <1>2, <2>3, <3>4 DEF Response, Loaded
  <2> QED
    BY <2>2, <2>3
<1> QED
  BY <1>1, <1>2 DEF Response

(***************************************************************************)
(* The steps.                                                              *)
(***************************************************************************)
\* A tick in which nothing is answered, or one word of several, or the last word.
Quiet ==
  /\ ~Serving /\ ~Response.ready /\ ~DesignAnswers.data_ok
  /\ UNCHANGED <<dreq, ongoing, got, line>>
  /\ \/ tx' = tx
     \/ /\ ~tx.busy /\ CBusRequest.valid
        /\ tx' = BeginTransaction(CBusRequest.addr.low, CBusRequest.size, CBusRequest.len, CBusRequest.is_write)

Beat ==
  /\ Serving /\ ~LastWord(tx) /\ line.burst /\ ~DesignAnswers.data_ok
  /\ UNCHANGED <<dreq, ongoing, got>>
  /\ line' = [line EXCEPT !.beat = @ + 1, !.word = IF Position = Wanted THEN Response.data ELSE @]
  /\ tx' = NextWord(tx)

Done ==
  /\ Serving /\ LastWord(tx) /\ dreq.valid /\ DesignAnswers.data_ok
  /\ ongoing' = Tail(ongoing)
  /\ line' = Direct /\ tx' = NoTransaction

LEMMA TickIs ==
  ASSUME ClientInv, LineInv, TransactionInv, Tick
  PROVE  Quiet \/ Beat \/ Done
<1>1. dreq.valid <=> ongoing # <<>>
  BY OnTheBus
<1>2. dreq = IF ongoing = <<>> THEN NoRequest ELSE Request(Head(ongoing))
  BY DEF ClientInv
<1>3. ~DesignAnswers.data_ok => UNCHANGED <<dreq, ongoing, got>>
  <2>1. ~DesignAnswers.data_ok => UNCHANGED <<ongoing, got>>
    BY DEF Tick, ClientTick
  <2> QED
    BY <1>2, <2>1, IssueIsRequest DEF Tick, ClientTick, IssueNext
<1>4. Response.ready = Serving /\ (Serving => Response.last = LastWord(tx))
  BY DEF Response, Serving
<1>5. CASE ~Serving
  <2>1. Response.ready = FALSE /\ DesignAnswers.data_ok = FALSE
    BY <1>5 DEF Response, DesignAnswers
  <2>2. line' = line
    BY <2>1 DEF Tick, DesignStep
  <2>3. \/ tx' = tx
        \/ /\ ~tx.busy /\ CBusRequest.valid
           /\ tx' = BeginTransaction(CBusRequest.addr.low, CBusRequest.size, CBusRequest.len, CBusRequest.is_write)
    BY <1>5 DEF Serving, Tick, DeviceStep
  <2> QED
    BY <1>3, <1>5, <2>1, <2>2, <2>3 DEF Quiet
<1>6. CASE Serving /\ ~LastWord(tx)
  <2>1. Response.ready = TRUE /\ Response.last = FALSE /\ DesignAnswers.data_ok = FALSE
    <3>1. Response.ready = TRUE /\ Response.last = LastWord(tx)
      BY <1>6 DEF Response
    <3>2. Response.last = FALSE
      BY <1>6, <3>1 DEF LastWord
    <3> QED
      BY <3>1, <3>2 DEF DesignAnswers
  <2>2. line.burst
    BY <1>6 DEF TransactionInv, LastWord, Serving
  <2>3. line' = [line EXCEPT !.beat = @ + 1, !.word = IF Position = Wanted THEN Response.data ELSE @]
    BY <2>1, <2>2 DEF Tick, DesignStep
  <2>4. tx' = NextWord(tx)
    BY <1>6 DEF Serving, Tick, DeviceStep
  <2> QED
    BY <1>3, <1>6, <2>1, <2>2, <2>3, <2>4 DEF Beat
<1>7. CASE Serving /\ LastWord(tx)
  <2>1. Response.ready = TRUE /\ Response.last = TRUE /\ DesignAnswers.data_ok = TRUE
    BY <1>7 DEF Response, DesignAnswers
  <2>2. dreq.valid
    BY <1>7 DEF TransactionInv, Serving
  <2>3. ongoing' = Tail(ongoing)
    BY <2>1, <2>2 DEF Tick, ClientTick
  <2>4. line' = Direct
    BY <2>1 DEF Tick, DesignStep, LineInv
  <2>5. tx' = NoTransaction
    BY <1>7 DEF Serving, Tick, DeviceStep
  <2> QED
    BY <1>7, <2>1, <2>2, <2>3, <2>4, <2>5 DEF Done
<1> QED
  BY <1>5, <1>6, <1>7

\* A test makes no other calls than those of the model.
LEMMA TestsCalls == test \in Tests => test.calls \subseteq Calls
BY TestsAssumption

\* The request on the bus is the one of the oldest task.
LEMMA ClientStep ==
  ASSUME ClientInv, test \in Tests, [Next]_vars
  PROVE  ClientInv'
<1>1. CASE UNCHANGED clientVars
  BY <1>1 DEF clientVars, ClientInv
<1>2. ASSUME NEW call \in Calls, Submit(call) \/ Await(call)
      PROVE  ClientInv'
  <2>1. CASE Submit(call)
    <3>1. Task(call) \in TaskSet
      BY DEF TaskSet
    <3>2. ongoing' = Append(ongoing, Task(call)) /\ ongoing \in Seq(TaskSet) /\ waiting' = "no"
      BY <2>1 DEF Submit, ClientInv
    <3>3. /\ ongoing' \in Seq(TaskSet) /\ ongoing' # <<>>
          /\ Head(ongoing') = IF ongoing = <<>> THEN Task(call) ELSE Head(ongoing)
      BY <3>1, <3>2
    <3>4. CASE ongoing = <<>>
      <4>1. ~dreq.valid
        BY <3>4 DEF ClientInv, NoRequest
      <4> QED
        BY <2>1, <3>2, <3>3, <3>4, <4>1, IssueIsRequest DEF Submit, ClientInv
    <3>5. CASE ongoing # <<>>
      <4>1. dreq.valid /\ dreq = Request(Head(ongoing))
        BY <3>5 DEF ClientInv, Request
      <4> QED
        BY <2>1, <3>2, <3>3, <3>5, <4>1 DEF Submit, ClientInv
    <3> QED
      BY <3>4, <3>5
  <2>2. CASE Await(call)
    <3>1. Task(call) \in TaskSet
      BY DEF TaskSet
    <3>2. ongoing' = <<Task(call)>> /\ waiting' = "await" /\ dreq' = Request(Task(call))
      BY <2>2, IssueIsRequest DEF Await
    <3> QED
      BY <3>1, <3>2 DEF ClientInv
  <2> QED
    BY <1>2, <2>1, <2>2
<1>3. CASE Fence
  BY <1>3 DEF Fence, ClientInv
<1>4. CASE Tick
  <2>1. ongoing' = ongoing \/ (ongoing # <<>> /\ ongoing' = Tail(ongoing))
    BY <1>4, OnTheBus DEF Tick, ClientTick
  <2>2. ongoing' \in Seq(TaskSet)
    BY <2>1 DEF ClientInv
  <2>3. dreq' = IF ongoing' = <<>> THEN NoRequest ELSE Request(Head(ongoing'))
    BY <1>4, IssueIsRequest DEF Tick, ClientTick, IssueNext
  <2>4. waiting' \in {"no", "fence", "await"} /\ (waiting' # "no" => ongoing' # <<>>)
    BY <1>4 DEF Tick, ClientTick, ClientInv
  <2> QED
    BY <2>2, <2>3, <2>4 DEF ClientInv
<1>5. CASE Ask
  BY <1>2, <1>5, TestsCalls DEF Ask
<1> QED
  BY <1>1, <1>3, <1>4, <1>5 DEF Next, vars, WaitForAll, StartLine, Abort, Type, Reset

\* The burst of the design and the transaction of the device keep step.
LEMMA BurstStep ==
  ASSUME ClientInv, LineInv, TransactionInv, DataInv, ContextInv, [Next]_vars
  PROVE  LineInv' /\ TransactionInv'
<1>1. dreq.valid \in BOOLEAN /\ (dreq.valid <=> ongoing # <<>>) /\ (tx.busy => dreq.valid) /\ (line.burst => dreq.valid)
  BY OnTheBus DEF TransactionInv, LineInv
<1>2. CASE UNCHANGED <<dreq, line, tx>>
  BY <1>2 DEF LineInv, TransactionInv, LineBase, Position
<1>3. CASE Tick /\ Quiet
  <2>1. CASE tx' = tx
    BY <1>2, <1>3, <2>1 DEF Quiet
  <2>2. CASE tx' # tx
    <3>1. /\ ~tx.busy /\ dreq.valid /\ dreq' = dreq /\ line' = line
          /\ tx' = BeginTransaction(CBusRequest.addr.low, CBusRequest.size, CBusRequest.len, CBusRequest.is_write)
      BY <1>1, <1>3, <2>2, OnTheCBus DEF Quiet
    <3>2. dreq.addr.low \in Nat /\ dreq.size \in {1, 2, 4, 8}
      BY <3>1, OnTheBus
    <3>3. CASE line.burst
      <4>1. /\ 2 ^ CBusRequest.size = 8 /\ CBusRequest.len = LineWords - 1 /\ CBusRequest.addr.low = line.start
            /\ CBusRequest.is_write = FALSE
        BY <3>1, <3>3, OnTheCBus
      <4>2. PICK w \in 0 .. LineWords - 1 : line.start = LineBase + 8 * w
        BY <3>3 DEF LineInv
      <4>3. line.beat = 0 /\ dreq.strobe = {} /\ LineWords \in Nat
        BY <3>1, <3>3, LineAssumption DEF LineInv
      <4>4. /\ LineBase \in Nat /\ Position = w
            /\ (line.start \div (8 * LineWords)) * (8 * LineWords) = LineBase
            /\ (line.start \div 8) * 8 = line.start
        <5>1. 0 \in 0 .. LineWords - 1
          BY LineAssumption
        <5>2. line.beat = 0
          BY <4>3
        <5>3. /\ LineBase \in Nat
              /\ (((LineBase + 8 * w) \div 8) + 0) % LineWords = IF w + 0 < LineWords THEN w + 0 ELSE w + 0 - LineWords
              /\ ((LineBase + 8 * w) \div (8 * LineWords)) * (8 * LineWords) = LineBase
              /\ ((LineBase + 8 * w) \div 8) * 8 = LineBase + 8 * w
          BY <3>2, <5>1, WordsOfLine
        <5>4. (IF w + 0 < LineWords THEN w + 0 ELSE w + 0 - LineWords) = w
          BY <4>3
        <5>5. Position = w
          BY <4>2, <5>2, <5>3, <5>4 DEF Position
        <5> QED
          BY <4>2, <5>3, <5>5
      <4>5. /\ tx'.busy = TRUE /\ tx'.is_write = FALSE /\ tx'.aligned = FALSE /\ tx'.N = 1
            /\ tx'.addr = line.start /\ tx'.Start_Address = line.start /\ tx'.Number_Bytes = 8
            /\ tx'.Burst_Length = LineWords /\ tx'.Aligned_Address = line.start
            /\ tx'.Lower_Wrap_Boundry = LineBase /\ tx'.Upper_Wrap_Boundry = LineBase + 8 * LineWords
        <5>1. 8 * (LineWords - 1 + 1) = 8 * LineWords /\ LineWords - 1 + 1 = LineWords
          BY <4>3
        <5> QED
          BY <3>1, <4>1, <4>4, <5>1 DEF BeginTransaction
      <4>6. tx' \in Transactions
        <5>1. line.start \in Nat /\ LineWords - 1 \in Nat
          BY <3>3, LineAssumption DEF LineInv
        <5> QED
          BY <3>1, <4>1, <5>1, BeginType
      <4>7. LineInv'
        BY <3>1, <3>3, <4>2, <4>3, <4>5 DEF LineInv, LineBase
      <4>8. TransactionInv'
        BY <3>1, <3>3, <4>2, <4>3, <4>4, <4>5, <4>6 DEF TransactionInv, LineBase, Position
      <4> QED
        BY <4>7, <4>8
    <3>4. CASE ~line.burst
      <4>1. /\ 2 ^ CBusRequest.size = dreq.size /\ CBusRequest.len = 0 /\ CBusRequest.addr.low = dreq.addr.low
            /\ CBusRequest.is_write = (dreq.strobe # {})
        BY <3>1, <3>4, OnTheCBus
      <4>2. dreq.size * (0 + 1) = dreq.size
        BY <3>2
      <4>3. /\ tx'.busy = TRUE /\ tx'.is_write = (dreq.strobe # {}) /\ tx'.aligned = FALSE /\ tx'.N = 1
            /\ tx'.addr = dreq.addr.low /\ tx'.Start_Address = dreq.addr.low /\ tx'.Number_Bytes = dreq.size
            /\ tx'.Burst_Length = 0 + 1 /\ tx'.Aligned_Address = (dreq.addr.low \div dreq.size) * dreq.size
            /\ tx'.Lower_Wrap_Boundry = (dreq.addr.low \div dreq.size) * dreq.size
            /\ tx'.Upper_Wrap_Boundry = (dreq.addr.low \div dreq.size) * dreq.size + dreq.size
        BY <3>1, <4>1, <4>2 DEF BeginTransaction
      <4>5. tx' \in Transactions
        <5>1. (dreq.strobe # {}) \in BOOLEAN /\ 0 \in Nat
          OBVIOUS
        <5> QED
          BY <3>1, <3>2, <4>1, <5>1, BeginType
      <4>8. tx'.is_write <=> dreq.strobe # {}
        BY <4>3, Zenon
      <4>6. LineInv'
        BY <3>1, <3>4 DEF LineInv
      <4>7. TransactionInv'
        BY <3>1, <3>4, <4>3, <4>5, <4>8 DEF TransactionInv
      <4> QED
        BY <4>6, <4>7
    <3> QED
      BY <3>3, <3>4
  <2> QED
    BY <2>1, <2>2
<1>4. CASE Tick /\ Beat
  <2>1. /\ tx.busy /\ line.burst /\ tx \in Transactions /\ dreq' = dreq /\ tx' = NextWord(tx)
        /\ tx.N = line.beat + 1 /\ tx.N # LineWords /\ tx.Burst_Length = LineWords
        /\ line' = [line EXCEPT !.beat = @ + 1, !.word = IF Position = Wanted THEN Response.data ELSE @]
        /\ tx.addr = LineBase + 8 * Position /\ tx.Number_Bytes = 8 /\ tx.Start_Address = line.start
        /\ tx.Lower_Wrap_Boundry = LineBase /\ tx.Upper_Wrap_Boundry = LineBase + 8 * LineWords
        /\ (~tx.aligned => tx.Aligned_Address = tx.addr)
        /\ dreq.valid /\ (tx.is_write <=> dreq.strobe # {}) /\ dreq.strobe = {}
    BY <1>4 DEF Beat, Serving, LastWord, TransactionInv, LineInv
  <2>2. /\ line \in [burst: {TRUE}, word: Bytes8, beat: 0 .. LineWords - 1, start: Nat]
        /\ LineWords \in Nat /\ dreq.addr.low \in Nat
    <3>1. dreq.addr.low \in Nat
      BY <2>1, OnTheBus
    <3>2. line \in [burst: {TRUE}, word: Bytes8, beat: 0 .. LineWords - 1, start: Nat]
      BY <2>1, Zenon DEF LineInv
    <3>3. LineWords \in Nat
      BY LineAssumption
    <3> QED
      BY <3>1, <3>2, <3>3
  <2>3. /\ line'.beat = line.beat + 1 /\ line'.start = line.start /\ line'.burst = TRUE
        /\ line.beat \in 0 .. LineWords - 1 /\ line.beat + 1 \in 0 .. LineWords - 1
        /\ line' \in [burst: {TRUE}, word: Bytes8, beat: 0 .. LineWords - 1, start: Nat]
    <3>1. Response.data \in Bytes8
      BY <1>4, AnswerType
    <3>2. line.beat + 1 \in 0 .. LineWords - 1
      BY <2>1, <2>2
    <3>3. (IF Position = Wanted THEN Response.data ELSE line.word) \in Bytes8
      BY <2>2, <3>1
    <3> QED
      BY <2>1, <2>2, <3>2, <3>3
  <2>4. PICK w \in 0 .. LineWords - 1 : line.start = LineBase + 8 * w
    BY <2>1 DEF LineInv
  <2>5. /\ LineBase \in Nat
        /\ Position = IF w + line.beat < LineWords THEN w + line.beat ELSE w + line.beat - LineWords
    BY <2>2, <2>3, <2>4, WordsOfLine DEF Position
  <2>6. Position' = IF w + (line.beat + 1) < LineWords THEN w + (line.beat + 1) ELSE w + (line.beat + 1) - LineWords
    BY <2>1, <2>2, <2>3, <2>4, WordsOfLine DEF Position
  <2>7. LineBase' = LineBase
    BY <2>1 DEF LineBase
  <2> DEFINE next == tx.addr + 8
  <2>8. /\ tx'.addr = IF next >= LineBase + 8 * LineWords THEN LineBase ELSE next
        /\ tx'.N = tx.N + 1 /\ tx'.aligned = TRUE /\ tx'.busy = TRUE /\ tx'.is_write = tx.is_write
        /\ tx'.Burst_Length = LineWords /\ tx'.Start_Address = line.start /\ tx'.Number_Bytes = 8
        /\ tx'.Lower_Wrap_Boundry = LineBase /\ tx'.Upper_Wrap_Boundry = LineBase + 8 * LineWords
    BY <2>1 DEF NextWord, Transactions
  <2>9. tx'.addr = LineBase + 8 * Position'
    BY <2>1, <2>2, <2>3, <2>4, <2>5, <2>6, <2>8
  <2>10. tx' \in Transactions
    BY <2>1, NextType
  <2>11. LineInv'
    BY <2>1, <2>3, <2>7, <2>8 DEF LineInv
  <2>12. TransactionInv'
    BY <2>1, <2>3, <2>7, <2>8, <2>9, <2>10 DEF TransactionInv
  <2> QED
    BY <2>11, <2>12
<1>5. CASE Tick /\ Done
  BY <1>5 DEF Done, LineInv, TransactionInv, Direct, NoTransaction, LineBase, Position
<1>6. CASE Ask
  <2>1. line' = line /\ tx' = tx /\ (dreq.valid => dreq' = dreq)
    BY <1>1, <1>6 DEF Ask, deviceVars, Submit, Await
  <2>2. CASE dreq.valid
    BY <1>2, <2>1, <2>2
  <2>3. CASE ~dreq.valid
    BY <1>1, <2>1, <2>3 DEF LineInv, TransactionInv
  <2> QED
    BY <2>2, <2>3
<1>7. CASE StartLine
  <2>1. /\ LineWords > 1 /\ dreq.valid /\ dreq.strobe = {} /\ ~tx.busy /\ Search(dreq.addr.low).device = "mem"
        /\ dreq' = dreq /\ tx' = tx
    BY <1>7 DEF StartLine, clientVars, deviceVars
  <2>2. PICK w \in 0 .. LineWords - 1 :
          line' = [burst |-> TRUE, word |-> Zero, beat |-> 0, start |-> LineBase + 8 * w]
    BY <1>7 DEF StartLine, LineBase
  <2>3. LineBase + 8 * w \in Nat /\ Zero \in Bytes8 /\ 0 \in 0 .. LineWords - 1
    <3>1. dreq.addr.low \in Nat
      BY <2>1, OnTheBus
    <3>2. LineBase + 8 * w \in Nat
      BY <3>1, WordsOfLine
    <3>3. Zero \in Bytes8
      BY DEF Zero, Bytes8
    <3>4. 0 \in 0 .. LineWords - 1
      BY LineAssumption
    <3> QED
      BY <3>2, <3>3, <3>4, Zenon
  <2>4. TransactionInv'
    BY <2>1 DEF TransactionInv
  <2>5. LineInv'
    BY <2>1, <2>2, <2>3 DEF LineInv, LineBase
  <2> QED
    BY <2>4, <2>5
<1>8. CASE Reset
  <2>1. dreq' = dreq /\ line' = line /\ tx' = NoTransaction /\ ~dreq.valid
    BY <1>1, <1>8 DEF Reset, clientVars
  <2> QED
    BY <1>1, <2>1 DEF LineInv, TransactionInv, NoTransaction
<1>9. WaitForAll \/ Abort \/ Type => UNCHANGED <<dreq, line, tx>>
  BY DEF WaitForAll, Fence, Abort, Type, clientVars, deviceVars
<1>10. UNCHANGED vars => UNCHANGED <<dreq, line, tx>>
  BY DEF vars, clientVars, deviceVars
<1> QED
  BY <1>2, <1>3, <1>4, <1>5, <1>6, <1>7, <1>8, <1>9, <1>10, TickIs DEF Next

(***************************************************************************)
(* The registers.                                                          *)
(***************************************************************************)
LEMMA RegistersDiffer ==
  /\ UART_TXD # UART_LSR /\ UART_TXD # VIRTUAL_UART /\ UART_TXD # NUM /\ UART_TXD # NUM_MONITOR
  /\ VIRTUAL_UART # NUM /\ VIRTUAL_UART # NUM_MONITOR /\ NUM # NUM_MONITOR /\ UART_RXD = UART_TXD
  /\ SIMU_FLAG \notin {VIRTUAL_UART, IO_SIMU, NUM_MONITOR} /\ IO_SIMU \notin {VIRTUAL_UART, NUM_MONITOR}
BY SMT DEF UART_RXD, UART_TXD, UART_LSR, VIRTUAL_UART, NUM, NUM_MONITOR, SIMU_FLAG, IO_SIMU

\* What a store leaves in the notes.
StoreNoted(c, a, d, e) ==
  /\ e \in Contexts /\ e.uart_avail = c.uart_avail /\ e.uart_fetched = c.uart_fetched
  /\ e.uart_written = IF a = UART_TXD THEN TRUE ELSE c.uart_written
  /\ a = UART_TXD => e.uart_data = d[0]
  /\ e.vuart_written = IF a = VIRTUAL_UART THEN TRUE ELSE c.vuart_written
  /\ a = VIRTUAL_UART => e.vuart_data = d[0]
  /\ e.v_num = IF a = NUM THEN d ELSE c.v_num
  /\ a # NUM_MONITOR => e.v_num_monitor = c.v_num_monitor

LEMMA StoredIs ==
  ASSUME NEW c \in Contexts, NEW a, NEW d \in Bytes8, NEW e, e = Stored(c, a, d)
  PROVE  StoreNoted(c, a, d, e)
<1> USE DEF StoreNoted
<1>1. d[0] \in 0 .. 255 /\ (d[0] % 2 = 1) \in BOOLEAN
  BY DEF Bytes8, Lanes
<1>2. CASE a = UART_TXD
  <2>1. e = [c EXCEPT !.uart_written = TRUE, !.uart_data = d[0]]
    BY <1>2, RegistersDiffer DEF Stored
  <2> QED
    BY <1>1, <1>2, <2>1, RegistersDiffer DEF Contexts
<1>3. CASE a = VIRTUAL_UART
  <2>1. e = [c EXCEPT !.vuart_written = TRUE, !.vuart_data = d[0]]
    BY <1>3, RegistersDiffer DEF Stored
  <2> QED
    BY <1>1, <1>3, <2>1, RegistersDiffer DEF Contexts
<1>4. CASE a = NUM
  <2>1. e = [c EXCEPT !.v_num = d]
    BY <1>4, RegistersDiffer DEF Stored
  <2> QED
    BY <1>1, <1>4, <2>1, RegistersDiffer, ZenonT(60) DEF Contexts
<1>5. CASE a = NUM_MONITOR
  <2>1. e = [c EXCEPT !.v_num_monitor = (d[0] % 2 = 1)]
    BY <1>5, RegistersDiffer DEF Stored
  <2> QED
    BY <1>1, <1>5, <2>1, RegistersDiffer DEF Contexts
<1>6. CASE a \notin {UART_TXD, VIRTUAL_UART, NUM, NUM_MONITOR}
  <2>1. e = c
    BY <1>6 DEF Stored
  <2> QED
    BY <1>6, <2>1
<1> QED
  BY <1>2, <1>3, <1>4, <1>5, <1>6

\* A burst never meets a register.
LEMMA BurstsInMemory ==
  ASSUME ClientInv, LineInv, TransactionInv, tx.busy, line.burst
  PROVE  Now.device = "mem" /\ Now = Search(dreq.addr.low)
<1>1. dreq.valid /\ dreq.addr.low \in Nat
  BY OnTheBus DEF LineInv
<1>2. tx.addr = LineBase + 8 * Position /\ Search(dreq.addr.low).device = "mem"
  BY DEF LineInv, TransactionInv
<1>3. Position \in 0 .. LineWords - 1
  <2>1. PICK w \in 0 .. LineWords - 1 : line.start = LineBase + 8 * w
    BY DEF LineInv
  <2>2. line.beat \in 0 .. LineWords - 1
    BY DEF LineInv
  <2>3. LineWords \in Nat
    BY LineAssumption
  <2> QED
    BY <1>1, <2>1, <2>2, <2>3, WordsOfLine DEF Position
<1> QED
  BY <1>1, <1>2, <1>3, LinesInWindows DEF Now

\* The datum of a store is the one of the request.
LEMMA StoreIs ==
  ASSUME ClientInv, LineInv, TransactionInv, Serving, tx.is_write
  PROVE  /\ ~line.burst /\ dreq.valid /\ LastWord(tx) /\ CBusRequest.data = dreq.data
         /\ dreq.data \in Bytes8 /\ CBusRequest.strobe = dreq.strobe
         /\ tx.addr = dreq.addr.low
<1>1. tx.busy /\ dreq.valid /\ dreq.strobe # {} /\ ~line.burst
  BY DEF Serving, TransactionInv, LineInv
<1>2. LastWord(tx) /\ tx.addr = dreq.addr.low
  BY <1>1 DEF TransactionInv, LastWord
<1> QED
  BY <1>1, <1>2, OnTheBus, OnTheCBus

\* What the notes of a cycle say.
LEMMA NewContextIs ==
  ASSUME ClientInv, LineInv, TransactionInv, ContextInv, NEW c, c = NewContext(CBusRequest)
  PROVE  /\ c \in Contexts /\ c.uart_avail = ctx.uart_avail
         /\ c.uart_fetched <=>
              Serving /\ Now.device = "con" /\ ~tx.is_write /\ Register(tx.addr) = UART_RXD /\ ctx.uart_avail
         /\ c.uart_written <=> StoresTo("con") /\ Register(tx.addr) = UART_TXD
         /\ c.uart_written => c.uart_data = CBusRequest.data[0]
         /\ c.vuart_written <=> StoresTo("con") /\ Register(tx.addr) = VIRTUAL_UART
         /\ c.vuart_written => c.vuart_data = CBusRequest.data[0]
         /\ c.v_num # ctx.v_num => StoresTo("con") /\ Register(tx.addr) = NUM
         /\ c.v_num_monitor # ctx.v_num_monitor => StoresTo("con") /\ Register(tx.addr) = NUM_MONITOR
<1> DEFINE a == Register(tx.addr)
<1>1. ctx \in Contexts /\ ctx.uart_fetched = FALSE /\ ctx.uart_written = FALSE /\ ctx.vuart_written = FALSE
  BY DEF ContextInv, Contexts
<1>2. CASE StoresTo("con")
  <2>1. Serving /\ tx.is_write /\ CBusRequest.data \in Bytes8
    BY <1>2, StoreIs DEF StoresTo
  <2>2. c = Stored(ctx, a, CBusRequest.data)
    BY <1>2 DEF NewContext
  <2> HIDE DEF a
  <2>3. StoreNoted(ctx, a, CBusRequest.data, c)
    <3>1. ctx \in Contexts /\ CBusRequest.data \in Bytes8
      BY <1>1, <2>1
    <3> QED
      BY <2>2, <3>1, StoredIs, Zenon
  <2>4. c.uart_fetched = FALSE /\ (c.uart_written <=> a = UART_TXD) /\ (c.vuart_written <=> a = VIRTUAL_UART)
    BY <1>1, <2>3, Zenon DEF StoreNoted
  <2> QED
    BY <1>2, <2>1, <2>3, <2>4, Zenon DEF a, StoreNoted
<1>3. CASE ~StoresTo("con") /\ Serving /\ Now.device = "con"
  <2>1. c = [ctx EXCEPT !.uart_fetched = Fetched(ctx, a)] /\ ~tx.is_write
    BY <1>3 DEF NewContext, StoresTo
  <2>2. Fetched(ctx, a) \in BOOLEAN /\ (Fetched(ctx, a) <=> a = UART_RXD /\ ctx.uart_avail)
    BY <1>1 DEF Fetched, Contexts
  <2> HIDE DEF a
  <2>3. c \in Contexts /\ c.uart_fetched = Fetched(ctx, a) /\ c.uart_avail = ctx.uart_avail
        /\ c.uart_written = FALSE /\ c.vuart_written = FALSE /\ c.v_num = ctx.v_num
        /\ c.v_num_monitor = ctx.v_num_monitor
    BY <1>1, <2>1, <2>2 DEF Contexts
  <2> QED
    BY <1>3, <2>1, <2>2, <2>3, Zenon DEF a
<1>4. CASE ~StoresTo("con") /\ ~(Serving /\ Now.device = "con")
  BY <1>1, <1>4 DEF NewContext
<1> QED
  BY <1>2, <1>3, <1>4

LEMMA WordNumber ==
  ASSUME NEW c \in Contexts
  PROVE  CurrentNum(c) \in Nat
<1>1. c.v_num[3] \in Nat /\ c.v_num[4] \in Nat /\ c.v_num[5] \in Nat /\ c.v_num[6] \in Nat
  BY DEF Contexts, Bytes8, Lanes
<1> QED
  BY <1>1 DEF CurrentNum

LEMMA DataInitially ==
  BlockInit \in [0 .. BlockWords - 1 -> Bytes8] /\ RegsInit \in [DOMAIN RegsInit -> Bytes8]
<1>1. Zero \in Bytes8 /\ Datum(1) \in Bytes8
  BY DEF Datum, Zero, Bytes8, Lanes
<1>2. /\ [i \in Lanes |-> IF i < 2 THEN 255 ELSE 0] \in Bytes8
      /\ [i \in Lanes |-> IF i < 4 THEN 255 ELSE 0] \in Bytes8
  BY DEF Bytes8, Lanes
<1>3. BlockInit \in [0 .. BlockWords - 1 -> Bytes8]
  BY <1>1 DEF BlockInit
<1> DEFINE val(a) == CASE a = LED         -> [i \in Lanes |-> IF i < 2 THEN 255 ELSE 0]
                       [] a = SIMU_FLAG   -> [i \in Lanes |-> IF i < 4 THEN 255 ELSE 0]
                       [] a = NUM_MONITOR -> Datum(1)
                       [] OTHER           -> Zero
           names == {LED, NUM, IO_SIMU, VIRTUAL_UART, SIMU_FLAG, NUM_MONITOR}
<1>4. RegsInit = [a \in names |-> val(a)]
  BY Zenon DEF RegsInit
<1>5. LED # SIMU_FLAG /\ LED # NUM_MONITOR /\ SIMU_FLAG # NUM_MONITOR
  BY SMT DEF LED, SIMU_FLAG, NUM_MONITOR
<1>6. ASSUME NEW a PROVE val(a) \in Bytes8
  <2>1. CASE a = LED
    BY <1>2, <1>5, <2>1
  <2>2. CASE a = SIMU_FLAG
    BY <1>2, <1>5, <2>2
  <2>3. CASE a = NUM_MONITOR
    BY <1>1, <1>5, <2>3
  <2>4. CASE a \notin {LED, SIMU_FLAG, NUM_MONITOR}
    BY <1>1, <2>4
  <2> QED
    BY <2>1, <2>2, <2>3, <2>4
<1> HIDE DEF val, names
<1>7. RegsInit \in [names -> Bytes8]
  BY <1>4, <1>6
<1> QED
  BY <1>3, <1>7

LEMMA TypesStep ==
  ASSUME HInv, [Next]_vars
  PROVE  ContextInv' /\ DataInv' /\ HistoryInv'
<1> USE DEF HInv
<1>1. CASE Tick
  <2> DEFINE c == NewContext(CBusRequest)
             a == Register(tx.addr)
  <2>1. /\ c \in Contexts /\ c.uart_avail = ctx.uart_avail
        /\ c.uart_fetched => ctx.uart_avail
        /\ c.uart_written => c.uart_data = CBusRequest.data[0]
    <3>1. c.uart_fetched => ctx.uart_avail
      BY NewContextIs, Zenon
    <3> QED
      BY <3>1, NewContextIs
  <2>2. /\ ififo' = IF c.uart_fetched THEN Tail(ififo) ELSE ififo
        /\ wire' = IF c.uart_written THEN Append(wire, c.uart_data) ELSE wire
        /\ ctx0' = c
        /\ ctx' = [c EXCEPT !.uart_avail = ififo' # <<>>, !.uart_written = FALSE,
                            !.uart_fetched = FALSE, !.vuart_written = FALSE]
    BY <1>1 DEF Tick, ConfregStep, ConfregSync
  <2>3. /\ regs' = regs \/ \E d : \E b \in DOMAIN regs :
             StoresTo("con") /\ d = CBusRequest.data /\ regs' = [regs EXCEPT ![b] = Changed(b, d)]
    <3>1. CASE StoresTo("con")
      <4>1. <<a, CBusRequest.data>> # <<>> /\ <<a, CBusRequest.data>>[1] = a /\ <<a, CBusRequest.data>>[2] = CBusRequest.data
        OBVIOUS
      <4>2. regs' = IF a \in DOMAIN regs THEN [regs EXCEPT ![a] = Changed(a, CBusRequest.data)] ELSE regs
        BY <1>1, <3>1, <4>1 DEF Tick, ConfregStep, ConfregSync
      <4> QED
        BY <3>1, <4>2
    <3>2. CASE ~StoresTo("con")
      BY <1>1, <3>2 DEF Tick, ConfregStep, ConfregSync
    <3> QED
      BY <3>1, <3>2
  <2> HIDE DEF c
  <2>4. ContextInv'
    <3>1. ififo' \in Seq(Typed)
      <4>1. c.uart_fetched => ififo # <<>>
        BY <2>1 DEF ContextInv
      <4> QED
        BY <2>2, <4>1 DEF ContextInv
    <3>2. /\ ctx' \in Contexts /\ ctx0' \in Contexts /\ ctx'.uart_fetched = FALSE /\ ctx'.uart_written = FALSE
          /\ ctx'.vuart_written = FALSE /\ ctx'.uart_avail = (ififo' # <<>>) /\ ctx0'.v_num_monitor = ctx'.v_num_monitor
      <4>1. c \in Contexts /\ (ififo' # <<>>) \in BOOLEAN
        BY <2>1
      <4> QED
        BY <2>2, <4>1, ZenonT(60) DEF Contexts
    <3> QED
      BY <3>1, <3>2, Zenon DEF ContextInv
  <2>5. Zero \in Bytes8 /\ \A x \in 0 .. 255 : Datum(x) \in Bytes8
    <3>1. Zero \in Bytes8
      BY DEF Zero, Bytes8
    <3>2. ASSUME NEW x \in 0 .. 255 PROVE Datum(x) \in Bytes8
      BY <3>1 DEF Datum, Bytes8, Lanes
    <3> QED
      BY <3>1, <3>2
  <2>6. regs' \in [DOMAIN RegsInit -> Bytes8]
    <3>1. CASE regs' = regs
      BY <3>1 DEF DataInv
    <3>2. ASSUME NEW b \in DOMAIN regs, StoresTo("con"), regs' = [regs EXCEPT ![b] = Changed(b, CBusRequest.data)]
          PROVE  regs' \in [DOMAIN RegsInit -> Bytes8]
      <4> DEFINE d == CBusRequest.data
      <4>1. d \in Bytes8
        BY <3>2, StoreIs DEF StoresTo
      <4> HIDE DEF d
      <4>2. Changed(b, d) \in Bytes8
        <5>1. d[0] \in 0 .. 255 /\ d[0] % 2 \in 0 .. 255
          BY <4>1 DEF Bytes8, Lanes
        <5>2. Datum(d[0]) \in Bytes8 /\ Datum(d[0] % 2) \in Bytes8
          BY <2>5, <5>1
        <5>3. SwapBytes(d) \in Bytes8 /\ [i \in Lanes |-> IF i < 4 THEN 255 ELSE 0] \in Bytes8
          BY <4>1 DEF SwapBytes, Bytes8, Lanes
        <5>4. CASE b = VIRTUAL_UART
          BY <5>2, <5>4, RegistersDiffer DEF Changed
        <5>5. CASE b # VIRTUAL_UART /\ b = SIMU_FLAG
          BY <5>3, <5>5, RegistersDiffer DEF Changed
        <5>6. CASE b \notin {VIRTUAL_UART, SIMU_FLAG} /\ b = IO_SIMU
          BY <5>3, <5>6, RegistersDiffer DEF Changed
        <5>7. CASE b \notin {VIRTUAL_UART, SIMU_FLAG, IO_SIMU} /\ b = NUM_MONITOR
          BY <5>2, <5>7, RegistersDiffer DEF Changed
        <5>8. CASE b \notin {VIRTUAL_UART, SIMU_FLAG, IO_SIMU, NUM_MONITOR}
          BY <4>1, <5>8 DEF Changed
        <5> QED
          BY <5>4, <5>5, <5>6, <5>7, <5>8
      <4>3. regs \in [DOMAIN RegsInit -> Bytes8]
        BY DEF DataInv
      <4> QED
        BY <3>2, <4>2, <4>3 DEF d
    <3> QED
      BY <2>3, <3>1, <3>2
  <2>7. mem' \in [0 .. BlockWords - 1 -> Bytes8]
    <3>1. CASE ~StoresTo("mem")
      BY <1>1, <3>1 DEF Tick, DeviceStep, DataInv
    <3>2. CASE StoresTo("mem")
      <4>1. CBusRequest.data \in Bytes8
        BY <3>2, StoreIs DEF StoresTo
      <4> DEFINE k == Translate(tx.addr) \div 8
                 d == CBusRequest.data
                 s == CBusRequest.strobe
                 new == [i \in Lanes |-> IF i \in s THEN d[i] ELSE mem[k][i]]
      <4>2. mem' = [mem EXCEPT ![k] = new]
        BY <1>1, <3>2 DEF Tick, DeviceStep, BlockStore
      <4>3. mem \in [0 .. BlockWords - 1 -> Bytes8]
        BY DEF DataInv
      <4> HIDE DEF k, d, s
      <4>4. CASE k \in 0 .. BlockWords - 1
        <5>1. mem[k] \in Bytes8 /\ d \in Bytes8
          BY <4>1, <4>3, <4>4 DEF d
        <5>2. new \in Bytes8
          BY <5>1 DEF Bytes8
        <5> QED
          BY <4>2, <4>3, <5>2
      <4>5. CASE k \notin 0 .. BlockWords - 1
        BY <4>2, <4>3, <4>5
      <4> QED
        BY <4>4, <4>5
    <3> QED
      BY <3>1, <3>2
  <2>8. DataInv'
    BY <2>6, <2>7 DEF DataInv
  <2>9. DesignAnswers.data[0] \in 0 .. 255
    <3>1. Response.data \in Bytes8
      BY <1>1, AnswerType
    <3>2. line.burst => line.word \in Bytes8
      BY DEF LineInv
    <3> QED
      <4>1. DesignAnswers.data \in Bytes8
        BY <3>1, <3>2 DEF DesignAnswers
      <4> QED
        BY <4>1 DEF Bytes8, Lanes
  <2>10. StoresTo("con") => CBusRequest.data[0] \in 0 .. 255
    BY StoreIs DEF StoresTo, Bytes8, Lanes
  <2>11. HistoryInv'
    <3>1. read' \in Seq(0 .. 255) /\ sent' \in Seq(0 .. 255) /\ printed' \in Seq(0 .. 255) /\ typed' \in Seq(0 .. 255)
      <4>1. read' = read \/ read' = Append(read, DesignAnswers.data[0])
        BY <1>1 DEF Tick, Record
      <4>2. sent' = sent \/ (StoresTo("con") /\ sent' = Append(sent, CBusRequest.data[0]))
        BY <1>1 DEF Tick, Record
      <4>3. printed' = printed \/ (StoresTo("con") /\ printed' = Append(printed, CBusRequest.data[0]))
        BY <1>1 DEF Tick, Record
      <4>4. typed' = typed
        BY <1>1 DEF Tick, Record
      <4>5. /\ read \in Seq(0 .. 255) /\ sent \in Seq(0 .. 255) /\ printed \in Seq(0 .. 255)
            /\ typed \in Seq(0 .. 255)
        BY DEF HistoryInv
      <4>6. \A s \in Seq(0 .. 255), x \in 0 .. 255 : Append(s, x) \in Seq(0 .. 255)
        OBVIOUS
      <4>7. read' \in Seq(0 .. 255)
        <5>1. CASE read' = read
          BY <4>5, <5>1
        <5>2. CASE read' = Append(read, DesignAnswers.data[0])
          BY <2>9, <4>5, <4>6, <5>2
        <5> QED
          BY <4>1, <5>1, <5>2
      <4>8. sent' \in Seq(0 .. 255)
        <5>1. CASE sent' = sent
          BY <4>5, <5>1
        <5>2. CASE StoresTo("con") /\ sent' = Append(sent, CBusRequest.data[0])
          <6>1. CBusRequest.data[0] \in 0 .. 255
            BY <2>10, <5>2
          <6> QED
            BY <4>5, <4>6, <5>2, <6>1
        <5> QED
          BY <4>2, <5>1, <5>2
      <4>9. printed' \in Seq(0 .. 255)
        <5>1. CASE printed' = printed
          BY <4>5, <5>1
        <5>2. CASE StoresTo("con") /\ printed' = Append(printed, CBusRequest.data[0])
          <6>1. CBusRequest.data[0] \in 0 .. 255
            BY <2>10, <5>2
          <6> QED
            BY <4>5, <4>6, <5>2, <6>1
        <5> QED
          BY <4>3, <5>1, <5>2
      <4> QED
        BY <4>4, <4>5, <4>7, <4>8, <4>9
    <3>2. wire' \in Seq(0 .. 255)
      <4>1. c.uart_data \in 0 .. 255 /\ wire \in Seq(0 .. 255)
        BY <2>1 DEF Contexts, HistoryInv
      <4>2. wire' = wire \/ wire' = Append(wire, c.uart_data)
        BY <2>2
      <4> HIDE DEF c
      <4>3. Append(wire, c.uart_data) \in Seq(0 .. 255)
        BY <4>1
      <4> QED
        BY <4>1, <4>2, <4>3
    <3>3. current_num' \in Nat /\ CurrentNum(c) \in Nat
      BY <1>1, <2>1, WordNumber DEF Tick, CheckoutConfreg, HistoryInv, c
    <3>4. numbers' \in [last: Nat, inOrder: BOOLEAN, lost: BOOLEAN]
      <4>1. /\ numbers \in [last: Nat, inOrder: BOOLEAN, lost: BOOLEAN]
            /\ c.v_num_monitor \in BOOLEAN
        BY <2>1 DEF HistoryInv, Contexts
      <4>2. RecordNumbers(CBusRequest)
        BY <1>1 DEF Tick
      <4> QED
        BY <3>3, <4>1, <4>2 DEF RecordNumbers, c
    <3>5. aborted' = aborted /\ enable' \in BOOLEAN /\ test' = test
      BY <1>1 DEF Tick, DeviceStep, Record
    <3> QED
      BY <3>1, <3>2, <3>3, <3>4, <3>5 DEF HistoryInv
  <2> QED
    BY <2>4, <2>8, <2>11
<1>2. CASE Abort
  <2>1. ContextInv' /\ DataInv'
    BY <1>2 DEF Abort, confregVars, deviceVars, ContextInv, DataInv
  <2>2. aborted' \in {"no", "request", "range", "confreg", "number", "queue", "expect"}
    BY <1>2 DEF Abort, Aborts
  <2>3. numbers' \in [last: Nat, inOrder: BOOLEAN, lost: BOOLEAN]
    <3> DEFINE c == NewContext(CBusRequest)
    <3>1. c \in Contexts
      BY NewContextIs
    <3>2. CurrentNum(c) \in Nat /\ c.v_num_monitor \in BOOLEAN
      BY <3>1, WordNumber DEF Contexts
    <3>3. numbers \in [last: Nat, inOrder: BOOLEAN, lost: BOOLEAN] /\ RecordNumbers(CBusRequest)
      BY <1>2 DEF HistoryInv, Abort
    <3> QED
      BY <3>2, <3>3 DEF RecordNumbers
  <2> QED
    BY <1>2, <2>1, <2>2, <2>3 DEF Abort, confregVars, deviceVars, HistoryInv
<1>3. CASE Type
  <2>1. PICK ch \in Typed : TypeChar(ch) /\ typed' = Append(typed, ch)
    BY <1>3 DEF Type
  <2>2. ch \in 0 .. 255
    BY TypedAssumption
  <2>3. ContextInv'
    BY <2>1 DEF TypeChar, ContextInv
  <2> QED
    BY <1>3, <2>1, <2>2, <2>3 DEF Type, TypeChar, deviceVars, DataInv, HistoryInv
<1>4. CASE Reset
  <2>1. NoContext \in Contexts /\ ~NoContext.uart_avail
        /\ ~NoContext.uart_fetched /\ ~NoContext.uart_written /\ ~NoContext.vuart_written
    BY DEF NoContext, Contexts, Bytes8, Zero
  <2>2. ContextInv'
    BY <1>4, <2>1 DEF Reset, ConfregReset, ContextInv
  <2>3. DataInv'
    BY <1>4, DataInitially DEF Reset, ConfregReset, DataInv
  <2>4. HistoryInv'
    BY <1>4 DEF Reset, ConfregReset, HistoryInv
  <2> QED
    BY <2>2, <2>3, <2>4
<1>5. CASE Ask
  BY <1>5 DEF Ask, confregVars, deviceVars, ContextInv, DataInv, HistoryInv
<1>6. CASE WaitForAll
  BY <1>6 DEF WaitForAll, confregVars, deviceVars, historyVars, ContextInv, DataInv, HistoryInv
<1>7. CASE StartLine
  BY <1>7 DEF StartLine, confregVars, deviceVars, historyVars, ContextInv, DataInv, HistoryInv
<1>8. CASE UNCHANGED vars
  BY <1>8 DEF vars, confregVars, deviceVars, historyVars, ContextInv, DataInv, HistoryInv
<1> QED
  BY <1>1, <1>2, <1>3, <1>4, <1>5, <1>6, <1>7, <1>8 DEF Next

LEMMA Initially == Init => HInv
<1> SUFFICES ASSUME Init PROVE HInv
  OBVIOUS
<1> USE DEF Init, ClientInit, ConfregInit
<1>1. ClientInv
  <2>1. <<>> \in Seq(TaskSet)
    OBVIOUS
  <2> QED
    BY <2>1 DEF ClientInv
<1>2. LineInv /\ TransactionInv
  BY DEF LineInv, TransactionInv, Direct, NoTransaction
<1>3. ContextInv
  <2>1. Zero \in Bytes8
    BY DEF Bytes8, Zero
  <2>2. NoContext \in Contexts /\ ~NoContext.uart_avail
        /\ ~NoContext.uart_fetched /\ ~NoContext.uart_written /\ ~NoContext.vuart_written
    BY <2>1 DEF NoContext, Contexts
  <2> QED
    BY <2>2 DEF ContextInv
<1>4. DataInv
  BY DataInitially DEF DataInv
<1>5. HistoryInv
  BY DEF HistoryInv
<1> QED
  BY <1>1, <1>2, <1>3, <1>4, <1>5 DEF HInv

LEMMA Steps == HInv /\ [Next]_vars => HInv'
<1> SUFFICES ASSUME HInv, [Next]_vars PROVE HInv'
  OBVIOUS
<1>1. ClientInv' /\ LineInv' /\ TransactionInv'
  BY ClientStep, BurstStep DEF HInv, HistoryInv
<1>2. ContextInv' /\ DataInv' /\ HistoryInv'
  BY TypesStep
<1> QED
  BY <1>1, <1>2 DEF HInv

\* In every state the request on the bus is the one of the oldest task, and the burst of
\* the design and the transaction of the device are at the same word of the same line.
THEOREM HarnessInvariance == Spec => []HInv
BY Initially, Steps, PTL DEF Spec

LEMMA TypesFollow == HInv => TypeOK
<1> SUFFICES ASSUME HInv PROVE TypeOK
  OBVIOUS
<1>1. /\ ongoing \in Seq({Task(c) : c \in Calls}) /\ (waiting # "no" => ongoing # <<>>)
      /\ (dreq.valid <=> ongoing # <<>>)
  BY OnTheBus DEF HInv, ClientInv, TaskSet
<1>2. \A k \in DOMAIN mem : DOMAIN mem[k] = Lanes
  BY DEF HInv, DataInv, Bytes8
<1>3. line.burst => line.beat \in 0 .. LineWords - 1
  BY DEF HInv, LineInv
<1>4. ASSUME tx.busy
      PROVE  tx.N \in 1 .. tx.Burst_Length /\ tx.Burst_Length \in {1, LineWords}
  <2>1. CASE line.burst
    <3>1. tx.Burst_Length = LineWords /\ tx.N = line.beat + 1 /\ line.beat \in 0 .. LineWords - 1
      BY <1>4, <2>1, <1>3 DEF HInv, TransactionInv
    <3>2. LineWords \in Nat
      BY LineAssumption
    <3> QED
      BY <3>1, <3>2
  <2>2. CASE ~line.burst
    BY <1>4, <2>2 DEF HInv, TransactionInv
  <2> QED
    BY <2>1, <2>2
<1> QED
  BY <1>1, <1>2, <1>3, <1>4 DEF TypeOK, HInv, HistoryInv

\* The types of a test over the simulated system: at most LineWords words per burst, a
\* request as long as there is a task, words of eight bytes.
THEOREM HarnessTypes == Spec => []TypeOK
BY HarnessInvariance, TypesFollow, PTL

(***************************************************************************)
(* The numbers of the program.                                             *)
(***************************************************************************)
LEMMA NumbersStep ==
  ASSUME HInv, NumberInv, [Next]_vars
  PROVE  NumberInv'
<1> DEFINE c == NewContext(CBusRequest)
           n == CurrentNum(c)
           follows == n = numbers.last \/ (n = numbers.last + 1 /\ AckedNum(c) = n)
<1>1. c \in Contexts /\ n \in Nat
  BY NewContextIs, WordNumber DEF HInv
<1>2. /\ numbers \in [last: Nat, inOrder: BOOLEAN, lost: BOOLEAN] /\ current_num \in Nat
      /\ ctx \in Contexts
  BY DEF HInv, HistoryInv, ContextInv
<1>3. RecordNumbers(CBusRequest) =>
        /\ numbers'.last = n
        /\ numbers'.inOrder = (numbers.lost \/ (numbers.inOrder /\ follows))
        /\ numbers'.lost = (~c.v_num_monitor \/ (numbers.lost /\ NumberFails(c)))
  BY DEF RecordNumbers
<1>4. CASE Tick
  <2>1. aborted = "no" /\ aborted' = "no" /\ ~NumberFails(c) /\ RecordNumbers(CBusRequest)
    BY <1>4 DEF Tick, Aborts
  <2>2. ctx' = [c EXCEPT !.uart_avail = ififo' # <<>>, !.uart_written = FALSE,
                         !.uart_fetched = FALSE, !.vuart_written = FALSE]
    BY <1>4 DEF Tick, ConfregStep, ConfregSync
  <2>3. current_num' = IF c.v_num_monitor THEN n ELSE current_num
    BY <1>4 DEF Tick, CheckoutConfreg
  <2> HIDE DEF c
  <2>4. ctx'.v_num = c.v_num /\ ctx'.v_num_monitor = c.v_num_monitor
    BY <1>1, <2>2 DEF Contexts
  <2>5. CurrentNum(ctx') = n
    BY <2>4 DEF CurrentNum
  <2> HIDE DEF n
  <2>6. c.v_num_monitor /\ current_num # n => current_num + 1 = n /\ AckedNum(c) = n
    BY <2>1 DEF NumberFails, n
  <2>7. ASSUME ~numbers'.lost
        PROVE  ctx'.v_num_monitor /\ current_num' = numbers'.last /\ numbers'.inOrder
    <3>1. c.v_num_monitor
      BY <1>3, <2>1, <2>7
    <3>2. ~numbers.lost => follows
      BY <2>1, <2>6, <3>1 DEF NumberInv
    <3>3. ~numbers.lost => numbers.inOrder
      BY <2>1 DEF NumberInv
    <3> QED
      BY <1>3, <2>1, <2>3, <2>4, <3>1, <3>2, <3>3
  <2> QED
    BY <1>3, <2>1, <2>5, <2>7 DEF NumberInv
<1>5. CASE Abort
  <2>1. /\ aborted = "no" /\ aborted' # "no" /\ RecordNumbers(CBusRequest)
        /\ ctx' = ctx /\ current_num' = current_num
    BY <1>5 DEF Abort, confregVars
  <2>2. aborted' = "number" => NumberFails(c)
    BY <1>5 DEF Abort, Aborts
  <2> HIDE DEF c
  <2>3. aborted' = "number" =>
          c.v_num_monitor /\ current_num # n /\ (current_num + 1 # n \/ AckedNum(c) # n)
    BY <2>2 DEF NumberFails
  <2> HIDE DEF n
  <2>4. ASSUME ~numbers'.lost, aborted' = "number"
        PROVE  ~numbers'.inOrder
    <3>1. ~numbers.lost
      BY <1>3, <2>1, <2>2, <2>4
    <3>2. current_num = numbers.last
      BY <2>1, <3>1 DEF NumberInv
    <3>3. ~follows
      BY <2>3, <2>4, <3>2
    <3> QED
      BY <1>3, <2>1, <3>1, <3>3
  <2> QED
    BY <2>1, <2>4 DEF NumberInv
<1>6. CASE Reset
  <2>1. /\ ctx' = NoContext /\ current_num' = current_num /\ aborted' = aborted /\ aborted = "no"
        /\ numbers' = [last |-> 0, inOrder |-> TRUE, lost |-> current_num > 0]
    BY <1>6 DEF Reset, ConfregReset
  <2>2. CurrentNum(NoContext) = 0
    BY DEF CurrentNum, NoContext, Zero, Lanes
  <2>3. NoContext.v_num_monitor
    BY DEF NoContext
  <2>4. numbers'.last = CurrentNum(ctx')
    BY <2>1, <2>2
  <2>5. ~numbers'.lost => current_num' = 0
    <3>1. numbers'.lost = (current_num > 0)
      BY <2>1
    <3>2. ~(current_num > 0) => current_num = 0
      BY <1>2
    <3> QED
      BY <2>1, <3>1, <3>2, Zenon
  <2> QED
    BY <2>1, <2>3, <2>4, <2>5 DEF NumberInv
<1>7. CASE UNCHANGED <<ctx, current_num, numbers, aborted>>
  BY <1>7 DEF NumberInv, CurrentNum
<1>8. Ask \/ WaitForAll \/ StartLine \/ Type \/ UNCHANGED vars => UNCHANGED <<ctx, current_num, numbers, aborted>>
  BY DEF Ask, WaitForAll, StartLine, Type, TypeChar, vars, confregVars, historyVars
<1> QED
  BY <1>4, <1>5, <1>6, <1>7, <1>8 DEF Next

\* The monitor aborts a test exactly if the program does not count up with its
\* acknowledgements from the number accepted last, for every number and every order of
\* stores and switches: a program that is not aborted has counted in order, and one that
\* has is not aborted (model.cpp:141-153).
THEOREM NumbersAlwaysChecked == Spec => []NumbersChecked
<1>1. Init => NumberInv
  BY DEF Init, ConfregInit, NumberInv, CurrentNum, NoContext, Zero, Lanes
<1>2. HInv /\ NumberInv /\ [Next]_vars => NumberInv'
  BY NumbersStep
<1>3. NumberInv => NumbersChecked
  BY DEF NumberInv, NumbersChecked
<1> QED
  BY <1>1, <1>2, <1>3, HarnessInvariance, PTL DEF Spec

(***************************************************************************)
(* The characters read and shown.                                          *)
(***************************************************************************)
AppendsToTheRight(S) == \A s \in Seq(S), t \in Seq(S), x \in S : Append(s \o t, x) = s \o Append(t, x)

LEMMA AppendToBoth ==
  ASSUME NEW S
  PROVE  AppendsToTheRight(S)
<1> SUFFICES ASSUME NEW s \in Seq(S), NEW t \in Seq(S), NEW x \in S
             PROVE  Append(s \o t, x) = s \o Append(t, x)
  BY DEF AppendsToTheRight
<1>1. s \o t \in Seq(S) /\ <<x>> \in Seq(S)
  BY ConcatProperties
<1>2. Append(s \o t, x) = (s \o t) \o <<x>> /\ Append(t, x) = t \o <<x>>
  BY <1>1, AppendIsConcat
<1>3. (s \o t) \o <<x>> = s \o (t \o <<x>>)
  BY <1>1, ConcatAssociative
<1> QED
  BY <1>2, <1>3

LEMMA HeadToTheLeft ==
  ASSUME NEW S, NEW s \in Seq(S), NEW t \in Seq(S), t # <<>>
  PROVE  s \o t = Append(s, Head(t)) \o Tail(t)
<1>1. Head(t) \in S /\ Tail(t) \in Seq(S) /\ t = <<Head(t)>> \o Tail(t)
  BY HeadTailProperties
<1>2. <<Head(t)>> \in Seq(S) /\ Append(s, Head(t)) = s \o <<Head(t)>>
  BY <1>1, AppendIsConcat
<1> QED
  BY <1>1, <1>2, ConcatAssociative

\* A character leaves the queue exactly when the program gets it.
LEMMA FetchIsRead ==
  ASSUME HInv, Tick, NEW c, c = NewContext(CBusRequest)
  PROVE  /\ c.uart_fetched => ififo # <<>> /\ read' = Append(read, Head(ififo))
         /\ ~c.uart_fetched => read' = read
<1> DEFINE d == DesignAnswers.data[0]
           a == Register(tx.addr)
           got0 == DesignAnswers.data_ok /\ ~tx.is_write /\ Now.device = "con" /\ a = UART_RXD /\ d # 0
<1>1. read' = IF got0 THEN Append(read, d) ELSE read
  BY DEF Tick, Record
<1>2. c.uart_fetched <=> Serving /\ Now.device = "con" /\ ~tx.is_write /\ a = UART_RXD /\ ctx.uart_avail
  BY NewContextIs, Zenon DEF HInv
<1>3. ASSUME Serving, Now.device = "con", ~tx.is_write, a = UART_RXD
      PROVE  DesignAnswers.data_ok /\ d = IF ctx.uart_avail THEN Head(ififo) ELSE 0
  <2>1. ~line.burst /\ tx.busy
    BY <1>3, BurstsInMemory DEF HInv, Serving
  <2>2. LastWord(tx)
    BY <2>1 DEF HInv, TransactionInv, LastWord
  <2>3. /\ Response.ready = TRUE /\ Response.last = TRUE /\ Response.data = Loaded
        /\ DesignAnswers.data_ok = TRUE /\ DesignAnswers.data = Loaded
    BY <1>3, <2>1, <2>2 DEF Response, DesignAnswers
  <2>4. Loaded = ConfregLoad(a) /\ a = UART_RXD
    BY <1>3 DEF Loaded
  <2> HIDE DEF a
  <2>5. Loaded = Datum(IF ctx.uart_avail THEN Head(ififo) ELSE 0)
    BY <2>4, RegistersDiffer DEF ConfregLoad
  <2>6. \A x : Datum(x)[0] = x
    BY DEF Datum, Zero, Lanes
  <2> QED
    BY <2>3, <2>5, <2>6, Zenon
<1>4. ctx.uart_avail => ififo # <<>> /\ Head(ififo) # 0
  BY TypedAssumption DEF HInv, ContextInv
<1>5. DesignAnswers.data_ok => Serving
  BY DEF DesignAnswers, Response
<1> HIDE DEF d, a
<1> QED
  BY <1>1, <1>2, <1>3, <1>4, <1>5, Zenon

TypedInv == typed = read \o ififo

LEMMA TypedStep ==
  ASSUME HInv, TypedInv, [Next]_vars
  PROVE  TypedInv'
<1>1. read \in Seq(0 .. 255) /\ ififo \in Seq(0 .. 255)
  <2>1. Typed \subseteq 0 .. 255
    BY TypedAssumption
  <2>2. ififo \in Seq(0 .. 255)
    <3>1. ififo \in Seq(Typed)
      BY DEF HInv, ContextInv
    <3> QED
      BY <2>1, <3>1, SeqMonotonic, ZenonT(60)
  <2> QED
    BY <2>2 DEF HInv, HistoryInv
<1>2. CASE Tick
  <2> DEFINE c == NewContext(CBusRequest)
  <2>1. /\ c.uart_fetched => ififo # <<>> /\ read' = Append(read, Head(ififo))
        /\ ~c.uart_fetched => read' = read
    BY <1>2, FetchIsRead
  <2>2. ififo' = (IF c.uart_fetched THEN Tail(ififo) ELSE ififo) /\ typed' = typed
    BY <1>2 DEF Tick, ConfregStep, ConfregSync, Record
  <2> HIDE DEF c
  <2>3. CASE c.uart_fetched
    <3>2. read \o ififo = Append(read, Head(ififo)) \o Tail(ififo)
      BY <1>1, <2>1, <2>3, HeadToTheLeft
    <3> QED
      BY <2>1, <2>2, <2>3, <3>2 DEF TypedInv
  <2>4. CASE ~c.uart_fetched
    BY <2>1, <2>2, <2>4 DEF TypedInv
  <2> QED
    BY <2>3, <2>4
<1>3. CASE Type
  <2>1. PICK ch \in Typed : TypeChar(ch) /\ typed' = Append(typed, ch)
    BY <1>3 DEF Type
  <2>2. ififo' = Append(ififo, ch) /\ read' = read /\ ch \in 0 .. 255
    BY <1>3, <2>1, TypedAssumption DEF Type, TypeChar
  <2>3. Append(read \o ififo, ch) = read \o Append(ififo, ch)
    <3>1. AppendsToTheRight(0 .. 255)
      BY AppendToBoth
    <3> QED
      BY <1>1, <2>2, <3>1, ZenonT(60) DEF AppendsToTheRight
  <2> QED
    BY <2>1, <2>2, <2>3 DEF TypedInv
<1>4. CASE Reset
  <2>1. ififo' = <<>> /\ typed' = read /\ read' = read
    BY <1>4 DEF Reset, ConfregReset
  <2>2. read \o <<>> = read
    BY <1>1, ConcatEmptySeq
  <2> QED
    BY <2>1, <2>2 DEF TypedInv
<1>5. Ask \/ WaitForAll \/ StartLine \/ Abort \/ UNCHANGED vars => UNCHANGED <<typed, read, ififo>>
  BY DEF Ask, WaitForAll, StartLine, Abort, vars, confregVars, historyVars
<1> QED
  BY <1>2, <1>3, <1>4, <1>5 DEF Next, TypedInv

\* Each character typed is read once and in order, or still in the queue, however the
\* device pauses and whenever its thread adds a character (confreg.cpp:99-121, 155-160,
\* 194-201).
THEOREM TypedReadOnceAlways == Spec => []TypedReadOnce
<1>1. Init => TypedInv
  BY DEF Init, ConfregInit, TypedInv
<1>2. TypedInv <=> TypedReadOnce
  BY DEF TypedInv, TypedReadOnce
<1>3. HInv /\ TypedInv /\ [Next]_vars => TypedInv'
  BY TypedStep
<1> QED
  BY <1>1, <1>2, <1>3, HarnessInvariance, PTL DEF Spec

LEMMA PrintableIs ==
  ASSUME NEW s \in Seq(1 .. 127)
  PROVE  Printable(s) = s
<1> DEFINE fits(k) == /\ \A i \in 1 .. k : s[i] # 0
                      /\ k = Len(s) \/ s[k + 1] = 0
           n == CHOOSE k \in 0 .. Len(s) : fits(k)
<1>1. Len(s) \in Nat /\ \A i \in 1 .. Len(s) : s[i] \in 1 .. 127
  BY ElementOfSeq, LenProperties
<1>2. Len(s) \in 0 .. Len(s) /\ fits(Len(s))
  <2>1. \A i \in 1 .. Len(s) : s[i] # 0
    <3>1. \A y \in 1 .. 127 : y # 0
      OBVIOUS
    <3> QED
      BY <1>1, <3>1, Zenon
  <2>2. Len(s) \in 0 .. Len(s)
    BY <1>1
  <2> QED
    BY <2>1, <2>2, Zenon
<1>3. n \in 0 .. Len(s) /\ fits(n)
  BY <1>2
<1>4. Printable(s) = SubSeq(s, 1, n)
  BY Zenon DEF Printable, fits, n
<1> HIDE DEF n
<1>5. n = Len(s)
  <2>1. n # Len(s) => n + 1 \in 1 .. Len(s)
    BY <1>1, <1>3
  <2>2. 0 \notin 1 .. 127
    OBVIOUS
  <2> QED
    BY <1>1, <1>3, <2>1, <2>2
<1> QED
  BY <1>4, <1>5, SubSeqFull

Plain(s) == \A k \in DOMAIN s : s[k] \in 1 .. 127

ShownInv ==
  /\ printed = wire
  /\ ~StatusLine => buffer = <<>>
  /\ Plain(sent) => sent \in Seq(1 .. 127) /\ shown \in Seq(1 .. 127) /\ buffer \in Seq(1 .. 127) /\ sent = shown \o buffer

LEMMA ShownStep ==
  ASSUME HInv, ShownInv, [Next]_vars
  PROVE  ShownInv'
<1>1. CASE Tick
  <2> DEFINE c == NewContext(CBusRequest)
             a == Register(tx.addr)
             x == CBusRequest.data[0]
             prints == StoresTo("con") /\ a = UART_TXD
             sends == StoresTo("con") /\ a = VIRTUAL_UART
  <2>1. /\ (c.uart_written <=> prints) /\ (c.vuart_written <=> sends)
        /\ (c.uart_written => c.uart_data = x) /\ (c.vuart_written => c.vuart_data = x)
    BY NewContextIs, Zenon DEF HInv
  <2>2. /\ printed' = IF prints THEN Append(printed, x) ELSE printed
        /\ sent' = IF sends THEN Append(sent, x) ELSE sent
    BY <1>1 DEF Tick, Record
  <2>3. wire' = IF c.uart_written THEN Append(wire, c.uart_data) ELSE wire
    BY <1>1 DEF Tick, ConfregStep, ConfregSync
  <2>4. IF c.vuart_written /\ c.vuart_data <= 127 THEN NotifyChar(c.vuart_data) ELSE UNCHANGED <<buffer, shown>>
    BY <1>1 DEF Tick, CheckoutConfreg
  <2>9. sent \in Seq(0 .. 255) /\ (sends => x \in 0 .. 255)
    BY StoreIs, SMTT(30) DEF HInv, HistoryInv, StoresTo, Bytes8, Lanes
  <2> HIDE DEF c, a, x, prints, sends
  <2>5. printed' = wire'
    BY <2>1, <2>2, <2>3 DEF ShownInv
  <2>6. CASE ~sends
    BY <2>1, <2>2, <2>4, <2>5, <2>6 DEF ShownInv
  <2>7. CASE sends
    <3>1. sent' = Append(sent, x)
      BY <2>2, <2>7
    <3>2. ~StatusLine => buffer' = <<>>
      BY <2>4 DEF ShownInv, NotifyChar
    <3>3. ASSUME Plain(sent')
          PROVE  /\ sent' \in Seq(1 .. 127) /\ shown' \in Seq(1 .. 127) /\ buffer' \in Seq(1 .. 127)
                 /\ sent' = shown' \o buffer'
      <4>1. Plain(sent) /\ x \in 1 .. 127
        <5>1. /\ DOMAIN sent' = 1 .. Len(sent) + 1 /\ DOMAIN sent = 1 .. Len(sent) /\ Len(sent) \in Nat
              /\ sent'[Len(sent) + 1] = x
              /\ \A k \in 1 .. Len(sent) : sent'[k] = sent[k]
          BY <2>7, <2>9, <3>1
        <5>2. Len(sent) + 1 \in DOMAIN sent' /\ DOMAIN sent \subseteq DOMAIN sent'
          BY <5>1
        <5> QED
          BY <3>3, <5>1, <5>2 DEF Plain
      <4>2. /\ sent \in Seq(1 .. 127) /\ shown \in Seq(1 .. 127) /\ buffer \in Seq(1 .. 127) /\ sent = shown \o buffer
        BY <4>1 DEF ShownInv
      <4>3. NotifyChar(x)
        <5>1. x <= 127
          BY <4>1
        <5> QED
          BY <2>1, <2>4, <2>7, <5>1
      <4>4. /\ Append(shown \o buffer, x) = shown \o Append(buffer, x)
            /\ Append(buffer, x) \in Seq(1 .. 127) /\ Append(shown, x) \in Seq(1 .. 127)
            /\ shown \o Append(buffer, x) \in Seq(1 .. 127)
        <5>1. Append(shown \o buffer, x) = shown \o Append(buffer, x)
          <6>1. AppendsToTheRight(1 .. 127)
            BY AppendToBoth
          <6> QED
            BY <4>1, <4>2, <6>1, ZenonT(60) DEF AppendsToTheRight
        <5>2. \A s \in Seq(1 .. 127), y \in 1 .. 127 : Append(s, y) \in Seq(1 .. 127)
          OBVIOUS
        <5>3. \A s \in Seq(1 .. 127), t \in Seq(1 .. 127) : s \o t \in Seq(1 .. 127)
          OBVIOUS
        <5>4. Append(buffer, x) \in Seq(1 .. 127) /\ Append(shown, x) \in Seq(1 .. 127)
          BY <4>1, <4>2, <5>2
        <5> QED
          BY <4>2, <5>1, <5>3, <5>4
      <4>5. \A s \in Seq(1 .. 127) : s \o <<>> = s
        BY ConcatEmptySeq
      <4>6. Printable(Append(buffer, x)) = Append(buffer, x)
        BY <4>4, PrintableIs
      <4>7. <<>> \in Seq(1 .. 127)
        OBVIOUS
      <4>8. CASE ~StatusLine
        <5>1. shown' = Append(shown, x) /\ buffer' = <<>> /\ buffer = <<>>
          BY <4>3, <4>8 DEF NotifyChar, ShownInv
        <5> QED
          BY <3>1, <4>2, <4>4, <4>5, <4>7, <5>1
      <4>9. CASE StatusLine /\ shown' = shown \o Printable(Append(buffer, x)) /\ buffer' = <<>>
        BY <3>1, <4>2, <4>4, <4>5, <4>6, <4>7, <4>9
      <4>10. CASE StatusLine /\ buffer' = Append(buffer, x) /\ shown' = shown
        BY <3>1, <4>2, <4>4, <4>10
      <4> QED
        BY <4>3, <4>8, <4>9, <4>10 DEF NotifyChar
    <3> QED
      BY <2>5, <3>2, <3>3 DEF ShownInv
  <2> QED
    BY <2>6, <2>7
<1>2. Ask \/ WaitForAll \/ StartLine \/ Abort \/ Type \/ Reset \/ UNCHANGED vars
        => UNCHANGED <<printed, wire, sent, shown, buffer>>
  BY DEF Ask, WaitForAll, StartLine, Abort, Type, TypeChar, Reset, ConfregReset, vars, confregVars, historyVars
<1>3. CASE UNCHANGED <<printed, wire, sent, shown, buffer>>
  BY <1>3 DEF ShownInv, Plain
<1> QED
  BY <1>1, <1>2, <1>3 DEF Next

\* What the program sends to either UART is shown once and in order, or still in the
\* buffer, for every length of the buffer and with or without the status line
\* (confreg.cpp:109-121, common.cpp:223-239).
THEOREM SentShownOnceAlways == Spec => []SentShownOnce
<1>1. Init => ShownInv
  BY DEF Init, ConfregInit, ShownInv
<1>2. ShownInv => SentShownOnce
  BY DEF ShownInv, SentShownOnce, Plain
<1>3. HInv /\ ShownInv /\ [Next]_vars => ShownInv'
  BY ShownStep
<1> QED
  BY <1>1, <1>2, <1>3, HarnessInvariance, PTL DEF Spec

(***************************************************************************)
(* The assertions about the design and the queue.                          *)
(***************************************************************************)
Bases == {0, \h1fc00000}

LEMMA LineFits ==
  ASSUME NEW a \in Nat, NEW p \in 0 .. LineWords - 1, NEW x, NEW base \in Bases,
         x = (a \div (8 * LineWords)) * 8 * LineWords + 8 * p,
         a - base \in 0 .. 8 * BlockWords - 1
  PROVE  x - base \in 0 .. 8 * BlockWords - 1
<1>1. LineWords \in {1, 2, 4, 8, 16, 32, 64, 128, 256} /\ BlockWords % LineWords = 0 /\ BlockWords \in Nat
  BY LineAssumption, BlockWordsAssumption, SMT
<1>2. CASE LineWords = 1
  BY <1>1, <1>2, SMT DEF Bases
<1>3. CASE LineWords = 2
  BY <1>1, <1>3, SMT DEF Bases
<1>4. CASE LineWords = 4
  BY <1>1, <1>4, SMT DEF Bases
<1>5. CASE LineWords = 8
  BY <1>1, <1>5, SMT DEF Bases
<1>6. CASE LineWords = 16
  BY <1>1, <1>6, SMT DEF Bases
<1>7. CASE LineWords = 32
  BY <1>1, <1>7, SMT DEF Bases
<1>8. CASE LineWords = 64
  BY <1>1, <1>8, SMT DEF Bases
<1>9. CASE LineWords = 128
  BY <1>1, <1>9, SMT DEF Bases
<1>10. CASE LineWords = 256
  BY <1>1, <1>10, SMT DEF Bases
<1> QED
  BY <1>1, <1>2, <1>3, <1>4, <1>5, <1>6, <1>7, <1>8, <1>9, <1>10, SMT

LEMMA LineInBlock ==
  ASSUME dreq.addr.low \in Nat, NEW p \in 0 .. LineWords - 1, NEW base \in Bases,
         dreq.addr.low - base \in 0 .. 8 * BlockWords - 1
  PROVE  (LineBase + 8 * p) - base \in 0 .. 8 * BlockWords - 1
<1>1. \A x : x = (dreq.addr.low \div (8 * LineWords)) * 8 * LineWords + 8 * p
             => x - base \in 0 .. 8 * BlockWords - 1
  BY LineFits
<1>2. LineBase + 8 * p = (dreq.addr.low \div (8 * LineWords)) * 8 * LineWords + 8 * p
  BY Zenon DEF LineBase
<1> QED
  BY <1>1, <1>2, Zenon

\* The request on the bus is what some call asks for.
LEMMA CallOnTheBus ==
  ASSUME HInv, dreq.valid
  PROVE  \E c \in Calls : /\ Head(ongoing) = Task(c) /\ dreq.addr.low = c.addr /\ c.addr \in Nat /\ dreq.size = c.width
                          /\ dreq.strobe = Task(c).strobe
<1>1. /\ ongoing # <<>> /\ Head(ongoing) \in TaskSet /\ dreq = Request(Head(ongoing))
  BY OnTheBus DEF HInv
<1>2. PICK c \in Calls : Head(ongoing) = Task(c)
  BY <1>1 DEF TaskSet
<1>3. /\ dreq.size = Task(c).size /\ dreq.strobe = Task(c).strobe
      /\ dreq.addr = [Task(c).addr EXCEPT !.b31 = TRUE]
  BY <1>1, <1>2 DEF Request
<1>4. dreq.addr.low = c.addr
  <2>1. Task(c).addr = [low |-> c.addr, b31 |-> c.b31]
    BY TaskFacts
  <2> QED
    BY <1>3, <2>1
<1> QED
  BY <1>2, <1>3, <1>4, TaskFacts

\* The device finds every word of a transaction in the window of the request, and in the
\* block if the word asked for is there.
LEMMA WordsExist ==
  ASSUME HInv, tx.busy
  PROVE  /\ Now = Search(dreq.addr.low) /\ dreq.addr.low \in Nat
         /\ Now.device = "mem" /\ InBlock(Translate(dreq.addr.low)) => InBlock(Translate(tx.addr))
<1>1. dreq.valid /\ dreq.addr.low \in Nat
  BY OnTheBus DEF HInv, TransactionInv
<1>2. CASE ~line.burst
  <2>1. tx.addr = dreq.addr.low
    BY <1>2 DEF HInv, TransactionInv
  <2> QED
    BY <1>1, <2>1 DEF Now
<1>3. CASE line.burst
  <2>1. Now = Search(dreq.addr.low)
    BY <1>3, BurstsInMemory DEF HInv
  <2>2. tx.addr = LineBase + 8 * Position
    BY <1>3 DEF HInv, TransactionInv
  <2>3. Position \in 0 .. LineWords - 1
    <3>1. PICK w \in 0 .. LineWords - 1 : line.start = LineBase + 8 * w
      BY <1>3 DEF HInv, LineInv
    <3>2. line.beat \in 0 .. LineWords - 1
      BY <1>3 DEF HInv, LineInv
    <3>3. LineWords \in Nat
      BY LineAssumption
    <3> QED
      BY <1>1, <3>1, <3>2, <3>3, WordsOfLine DEF Position
  <2>4. Now.device = "mem" => Now.base \in Bases
    BY SMT DEF Bases, Now, Search, Boot, Con, All
  <2>5. /\ Translate(tx.addr) = tx.addr - Now.base
        /\ Translate(dreq.addr.low) = dreq.addr.low - Now.base
    BY <2>1, Zenon DEF Translate, Now
  <2> HIDE DEF Now, Position
  <2>7. ASSUME Now.device = "mem", dreq.addr.low - Now.base \in 0 .. 8 * BlockWords - 1
        PROVE  tx.addr - Now.base \in 0 .. 8 * BlockWords - 1
    <3>1. (LineBase + 8 * Position) - Now.base \in 0 .. 8 * BlockWords - 1
      BY <1>1, <2>3, <2>4, <2>7, LineInBlock
    <3>2. tx.addr - Now.base = (LineBase + 8 * Position) - Now.base
      BY <2>2
    <3> QED
      BY <3>1, <3>2, Zenon
  <2> QED
    BY <1>1, <2>1, <2>5, <2>7 DEF InBlock
<1> QED
  BY <1>2, <1>3

\* The request stays what the transaction began with.
LEMMA RequestStays == HInv => ~RequestChanged(CBusRequest)
<1> SUFFICES ASSUME HInv, Serving
             PROVE  /\ CBusRequest.valid /\ CBusRequest.is_write = tx.is_write
                    /\ 2 ^ CBusRequest.size = tx.Number_Bytes
                    /\ CBusRequest.addr.low = tx.Start_Address /\ CBusRequest.len + 1 = tx.Burst_Length
  BY DEF RequestChanged
<1>1. tx.busy /\ dreq.valid /\ tx.is_write \in BOOLEAN
  BY DEF HInv, TransactionInv, Transactions, Serving
<1>2. CASE line.burst
  <2>1. /\ CBusRequest.valid = TRUE /\ CBusRequest.is_write = FALSE /\ 2 ^ CBusRequest.size = 8
        /\ CBusRequest.len = LineWords - 1 /\ CBusRequest.addr.low = line.start
    BY <1>1, <1>2, OnTheCBus DEF HInv
  <2>2. /\ tx.Burst_Length = LineWords /\ tx.Start_Address = line.start /\ tx.Number_Bytes = 8
        /\ dreq.strobe = {} /\ (tx.is_write <=> dreq.strobe # {})
    BY <1>1, <1>2 DEF HInv, TransactionInv, LineInv
  <2>3. LineWords - 1 + 1 = LineWords
    BY LineAssumption
  <2>4. tx.is_write = FALSE
    BY <1>1, <2>2
  <2> QED
    BY <2>1, <2>2, <2>3, <2>4
<1>3. CASE ~line.burst
  <2>1. /\ CBusRequest.valid = TRUE /\ CBusRequest.is_write = (dreq.strobe # {})
        /\ 2 ^ CBusRequest.size = dreq.size /\ CBusRequest.len = 0
        /\ CBusRequest.addr.low = dreq.addr.low
    BY <1>1, <1>3, OnTheCBus DEF HInv
  <2>2. /\ tx.Burst_Length = 1 /\ tx.Start_Address = dreq.addr.low /\ tx.Number_Bytes = dreq.size
        /\ (tx.is_write <=> dreq.strobe # {})
    BY <1>1, <1>3 DEF HInv, TransactionInv
  <2>3. CBusRequest.is_write = tx.is_write
    BY <1>1, <2>1, <2>2, Zenon
  <2> QED
    BY <2>1, <2>2, <2>3
<1> QED
  BY <1>2, <1>3

LEMMA NothingOutOfRange ==
  ASSUME CallsExist, HInv
  PROVE  ~OutOfRange /\ ~ConfregFails(CBusRequest)
<1>1. ASSUME OutOfRange
      PROVE  FALSE
  <2>1. tx.busy /\ Now.device = "mem" /\ ~InBlock(Translate(tx.addr)) /\ dreq.valid
    BY <1>1 DEF OutOfRange, Serving, HInv, TransactionInv
  <2>2. PICK c \in Calls : dreq.addr.low = c.addr
    BY <2>1, CallOnTheBus
  <2>3. Search(c.addr).device = "mem" => InBlock(Translate(c.addr))
    BY DEF CallsExist
  <2> QED
    BY <2>1, <2>2, <2>3, WordsExist, Zenon
<1>2. ASSUME ConfregFails(CBusRequest)
      PROVE  FALSE
  <2>1. /\ Serving /\ tx.busy /\ Now.device = "con" /\ tx.is_write /\ dreq.valid /\ dreq.strobe # {}
        /\ StoreFails(Register(tx.addr), CBusRequest.strobe)
    BY <1>2 DEF ConfregFails, Serving, HInv, TransactionInv
  <2>2. tx.addr = dreq.addr.low /\ CBusRequest.strobe = dreq.strobe
    BY <2>1, StoreIs DEF HInv
  <2>3. PICK c \in Calls : /\ dreq.addr.low = c.addr /\ dreq.strobe = Task(c).strobe
    BY <2>1, CallOnTheBus
  <2>4. c.kind = "store" /\ Task(c).strobe = OpLanes(Parse(c.width, c.addr))
    BY <2>1, <2>3, TaskFacts DEF Task
  <2>5. Search(c.addr).device = "con" /\ c.kind = "store" => ~StoreFails(Register(c.addr), OpLanes(Parse(c.width, c.addr)))
    BY DEF CallsExist
  <2> QED
    BY <2>1, <2>2, <2>3, <2>4, <2>5, Zenon DEF Now
<1> QED
  BY <1>1, <1>2

\* For a test that keeps to addresses that exist the assertions of the device, the
\* memory and the queue never fail: a request stays as it is while the device works on
\* it, whatever length its line has, and no burst leaves the block (cbus_device.cpp:39-43,
\* bus.h:665).
THEOREM AssertionsAlwaysHold == CallsExist => (Spec => []AssertionsHold)
<1> SUFFICES ASSUME CallsExist PROVE Spec => []AssertionsHold
  OBVIOUS
<1>1. Init => AssertionsHold
  BY DEF Init, AssertionsHold
<1>2. ASSUME HInv, AssertionsHold, [Next]_vars
      PROVE  AssertionsHold'
  <2>1. CASE Abort
    <3>1. ~RequestChanged(CBusRequest) /\ ~OutOfRange /\ ~ConfregFails(CBusRequest)
      BY <1>2, RequestStays, NothingOutOfRange
    <3>2. dreq.valid => ongoing # <<>>
      BY <1>2, OnTheBus DEF HInv
    <3> QED
      BY <2>1, <3>1, <3>2 DEF Abort, Aborts, AssertionsHold
  <2>2. Ask \/ WaitForAll \/ StartLine \/ Tick \/ Type \/ Reset \/ UNCHANGED vars => aborted' = aborted
    BY DEF Ask, WaitForAll, StartLine, Tick, Type, Reset, vars
  <2> QED
    BY <1>2, <2>1, <2>2 DEF Next, AssertionsHold
<1> QED
  BY <1>1, <1>2, HarnessInvariance, PTL DEF Spec

(***************************************************************************)
(* One memory of bytes. The abstraction shows the words of the block as    *)
(* bytes and of each task the call.                                        *)
(***************************************************************************)
CallsOf(q) == [k \in DOMAIN q |-> q[k].call]

Asked == CallsOf(ongoing)

Contents == [b \in 0 .. 8 * BlockWords - 1 |-> mem[b \div 8][b % 8]]

\* The word a request asks for.
WordAt(addr) == mem[Translate(addr) \div 8]

\* How many beats after the word at w the word asked for comes.
Distance(w) == IF Wanted >= w THEN Wanted - w ELSE Wanted - w + LineWords

\* The design keeps the word asked for once it has passed.
WordInv ==
  line.burst => \A w \in 0 .. LineWords - 1 :
    line.start = LineBase + 8 * w /\ Distance(w) < line.beat => line.word = WordAt(dreq.addr.low)

GotInv == got \in Seq(UNION {[0 .. n - 1 -> 0 .. 255] : n \in {1, 2, 4, 8}})

LEMMA CallOfTask ==
  ASSUME NEW t \in TaskSet
  PROVE  t.call \in Calls /\ t = Task(t.call)
<1>1. PICK c \in Calls : t = Task(c)
  BY DEF TaskSet
<1>2. Task(c).call = c
  BY TaskFacts
<1> QED
  BY <1>1, <1>2

LEMMA CallsOfSeq ==
  ASSUME NEW q \in Seq(TaskSet)
  PROVE  /\ CallsOf(q) \in Seq(Calls) /\ Len(CallsOf(q)) = Len(q) /\ Len(q) \in Nat
         /\ \A k \in 1 .. Len(q) : CallsOf(q)[k] = q[k].call
         /\ CallsOf(q) = <<>> <=> q = <<>>
<1>1. DOMAIN q = 1 .. Len(q) /\ Len(q) \in Nat /\ \A k \in 1 .. Len(q) : q[k] \in TaskSet
  BY LenProperties, ElementOfSeq
<1>2. \A t \in TaskSet : t.call \in Calls
  BY CallOfTask
<1>3. CallsOf(q) \in [1 .. Len(q) -> Calls] /\ \A k \in 1 .. Len(q) : CallsOf(q)[k] = q[k].call
  BY <1>1, <1>2 DEF CallsOf
<1>4. CallsOf(q) \in Seq(Calls)
  BY <1>1, <1>3, SeqDef
<1>5. Len(CallsOf(q)) = Len(q)
  BY <1>1, <1>3, <1>4, LenProperties
<1>6. \A S, s : s \in Seq(S) => (s = <<>> <=> Len(s) = 0)
  BY EmptySeq, SeqEqual
<1> QED
  BY <1>1, <1>3, <1>4, <1>5, <1>6

LEMMA CallsOfAppend ==
  ASSUME NEW q \in Seq(TaskSet), NEW t \in TaskSet
  PROVE  CallsOf(Append(q, t)) = Append(CallsOf(q), t.call)
<1>1. t.call \in Calls
  BY CallOfTask
<1>2. Append(q, t) \in Seq(TaskSet) /\ Len(Append(q, t)) = Len(q) + 1
      /\ \A k \in 1 .. Len(q) + 1 : Append(q, t)[k] = IF k <= Len(q) THEN q[k] ELSE t
  BY AppendProperties
<1>3. /\ CallsOf(q) \in Seq(Calls) /\ Len(CallsOf(q)) = Len(q) /\ Len(q) \in Nat
      /\ \A k \in 1 .. Len(q) : CallsOf(q)[k] = q[k].call
  BY CallsOfSeq
<1>4. /\ CallsOf(Append(q, t)) \in Seq(Calls) /\ Len(CallsOf(Append(q, t))) = Len(q) + 1
      /\ \A k \in 1 .. Len(q) + 1 : CallsOf(Append(q, t))[k] = Append(q, t)[k].call
  BY <1>2, CallsOfSeq
<1> DEFINE r == Append(CallsOf(q), t.call)
<1>5. /\ r \in Seq(Calls) /\ Len(r) = Len(q) + 1
      /\ \A k \in 1 .. Len(q) + 1 : r[k] = IF k <= Len(q) THEN CallsOf(q)[k] ELSE t.call
  BY <1>1, <1>3
<1>6. \A k \in 1 .. Len(q) + 1 : r[k] = CallsOf(Append(q, t))[k]
  BY <1>2, <1>3, <1>4, <1>5
<1> HIDE DEF r
<1>7. r = CallsOf(Append(q, t))
  BY <1>4, <1>5, <1>6, SeqEqual
<1> QED
  BY <1>7 DEF r

LEMMA CallsOfTail ==
  ASSUME NEW q \in Seq(TaskSet), q # <<>>
  PROVE  CallsOf(q) # <<>> /\ CallsOf(Tail(q)) = Tail(CallsOf(q)) /\ Head(CallsOf(q)) = Head(q).call
<1>1. /\ CallsOf(q) \in Seq(Calls) /\ Len(CallsOf(q)) = Len(q) /\ Len(q) \in Nat /\ CallsOf(q) # <<>>
      /\ \A k \in 1 .. Len(q) : CallsOf(q)[k] = q[k].call
  BY CallsOfSeq
<1>2. Tail(q) \in Seq(TaskSet) /\ Len(Tail(q)) = Len(q) - 1 /\ Head(q) = q[1] /\ Len(q) >= 1
      /\ \A k \in 1 .. Len(q) - 1 : Tail(q)[k] = q[k + 1]
  BY HeadTailProperties
<1>3. /\ CallsOf(Tail(q)) \in Seq(Calls) /\ Len(CallsOf(Tail(q))) = Len(q) - 1
      /\ \A k \in 1 .. Len(q) - 1 : CallsOf(Tail(q))[k] = Tail(q)[k].call
  BY <1>2, CallsOfSeq
<1> DEFINE r == Tail(CallsOf(q))
<1>4. /\ r \in Seq(Calls) /\ Len(r) = Len(q) - 1 /\ Head(CallsOf(q)) = CallsOf(q)[1]
      /\ \A k \in 1 .. Len(q) - 1 : r[k] = CallsOf(q)[k + 1]
  BY <1>1, HeadTailProperties
<1>5. \A k \in 1 .. Len(q) - 1 : r[k] = CallsOf(Tail(q))[k]
  BY <1>1, <1>2, <1>3, <1>4
<1> HIDE DEF r
<1>6. r = CallsOf(Tail(q))
  BY <1>3, <1>4, <1>5, SeqEqual
<1>7. Head(CallsOf(q)) = Head(q).call
  BY <1>1, <1>2, <1>4
<1> QED
  BY <1>1, <1>6, <1>7 DEF r

\* The word asked for within its line.
LEMMA WantedArithmetic ==
  ASSUME NEW a \in Nat
  PROVE  /\ (a \div 8) % LineWords \in 0 .. LineWords - 1
         /\ (a \div (8 * LineWords)) * 8 * LineWords + 8 * ((a \div 8) % LineWords) = (a \div 8) * 8
<1>1. LineWords \in {1, 2, 4, 8, 16, 32, 64, 128, 256}
  BY LineAssumption
<1>2. CASE LineWords = 1
  BY <1>2
<1>3. CASE LineWords = 2
  BY <1>3
<1>4. CASE LineWords = 4
  BY <1>4
<1>5. CASE LineWords = 8
  BY <1>5
<1>6. CASE LineWords = 16
  BY <1>6
<1>7. CASE LineWords = 32
  BY <1>7
<1>8. CASE LineWords = 64
  BY <1>8
<1>9. CASE LineWords = 128
  BY <1>9
<1>10. CASE LineWords = 256
  BY <1>10
<1> QED
  BY <1>1, <1>2, <1>3, <1>4, <1>5, <1>6, <1>7, <1>8, <1>9, <1>10

LEMMA WantedWord ==
  ASSUME dreq.addr.low \in Nat
  PROVE  Wanted \in 0 .. LineWords - 1 /\ LineBase + 8 * Wanted = (dreq.addr.low \div 8) * 8
BY WantedArithmetic DEF Wanted, LineBase

\* Both addresses of a word translate to it.
LEMMA SameWord ==
  ASSUME NEW a \in Nat, NEW x, x = (a \div 8) * 8, Search(x) = Search(a)
  PROVE  Translate(x) \div 8 = Translate(a) \div 8
<1>1. Search(a).base \in {0, \h1fc00000}
  BY SMT DEF Search, Boot, Con, All
<1>2. ASSUME NEW b \in {0, \h1fc00000}
      PROVE  (x - b) \div 8 = (a - b) \div 8
  BY <1>2, SMT
<1> HIDE DEF Search
<1> QED
  BY <1>1, <1>2, SMT DEF Translate

\* While no store and no reset comes between, what the design keeps of a burst is the
\* word asked for.
LEMMA WordStep ==
  ASSUME HInv, WordInv, [Next]_vars
  PROVE  WordInv'
<1>1. CASE Tick
  <2>1. Quiet \/ Beat \/ Done
    BY <1>1, TickIs DEF HInv
  <2>2. CASE Quiet
    <3>1. UNCHANGED <<dreq, line, mem>>
      BY <1>1, <2>2 DEF Quiet, Tick, DeviceStep, StoresTo
    <3> QED
      BY <3>1 DEF WordInv, WordAt, Distance, Wanted, LineBase
  <2>3. CASE Done
    BY <2>3 DEF Done, WordInv, Direct
  <2>4. CASE Beat
    <3>1. /\ tx.busy /\ line.burst /\ dreq' = dreq /\ dreq.valid
          /\ line' = [line EXCEPT !.beat = @ + 1, !.word = IF Position = Wanted THEN Response.data ELSE @]
          /\ tx.addr = LineBase + 8 * Position /\ tx.is_write = FALSE
      BY <2>4 DEF Beat, Serving, HInv, TransactionInv, LineInv, Transactions
    <3>2. mem' = mem
      BY <1>1, <3>1 DEF Tick, DeviceStep, StoresTo
    <3>3. line \in [burst: {TRUE}, word: Bytes8, beat: 0 .. LineWords - 1, start: Nat]
      BY <3>1, Zenon DEF HInv, LineInv
    <3>4. line'.start = line.start /\ line'.beat = line.beat + 1 /\ line'.burst = TRUE
          /\ line'.word = IF Position = Wanted THEN Response.data ELSE line.word
      BY <3>1, <3>3
    <3>5. dreq.addr.low \in Nat /\ LineWords \in Nat
      BY <3>1, OnTheBus, LineAssumption DEF HInv
    <3>6. Position = Wanted => Response.data = WordAt(dreq.addr.low)
      <4>1. Response.data = Loaded
        BY <2>4, <3>1 DEF Beat, Response
      <4>2. Now.device = "mem" /\ Now = Search(dreq.addr.low)
        BY <3>1, BurstsInMemory DEF HInv
      <4>3. Loaded = WordAt(tx.addr)
        BY <4>2, Zenon DEF Loaded, BlockLoad, WordAt
      <4>4. Position = Wanted => tx.addr = (dreq.addr.low \div 8) * 8
        BY <3>1, <3>5, WantedWord
      <4>5. Position = Wanted => Translate(tx.addr) \div 8 = Translate(dreq.addr.low) \div 8
        BY <3>5, <4>2, <4>4, SameWord DEF Now
      <4> QED
        BY <4>1, <4>3, <4>5, Zenon DEF WordAt
    <3>7. ASSUME NEW w \in 0 .. LineWords - 1, line.start = LineBase + 8 * w, Distance(w) < line.beat + 1
          PROVE  line'.word = WordAt(dreq.addr.low)
      <4>1. Wanted \in 0 .. LineWords - 1
        BY <3>5, WantedWord
      <4>2. line.beat \in 0 .. LineWords - 1
        BY <3>3
      <4>3. Position = IF w + line.beat < LineWords THEN w + line.beat ELSE w + line.beat - LineWords
        BY <3>5, <3>7, <4>2, WordsOfLine DEF Position
      <4>4. CASE Position = Wanted
        BY <3>4, <3>6, <4>4
      <4>5. CASE Position # Wanted
        <5>1. Distance(w) # line.beat /\ Distance(w) \in Nat
          BY <3>5, <4>1, <4>2, <4>3, <4>5 DEF Distance
        <5>2. Distance(w) < line.beat
          BY <3>7, <4>2, <5>1
        <5>3. line.word = WordAt(dreq.addr.low)
          BY <3>1, <3>7, <5>2, Zenon DEF WordInv
        <5> QED
          BY <3>4, <4>5, <5>3
      <4> QED
        BY <4>4, <4>5
    <3>8. LineBase' = LineBase /\ WordAt(dreq.addr.low)' = WordAt(dreq.addr.low) /\ \A w : Distance(w)' = Distance(w)
      BY <3>1, <3>2 DEF LineBase, WordAt, Distance, Wanted
    <3> QED
      BY <3>4, <3>7, <3>8 DEF WordInv
  <2> QED
    BY <2>1, <2>2, <2>3, <2>4
<1>2. CASE StartLine
  <2>1. line'.beat = 0 /\ dreq' = dreq /\ dreq.valid
    BY <1>2 DEF StartLine, clientVars
  <2>2. Wanted \in 0 .. LineWords - 1 /\ LineWords \in Nat
    BY <2>1, OnTheBus, WantedWord, LineAssumption DEF HInv
  <2>3. \A w \in 0 .. LineWords - 1 : Distance(w) \in Nat
    BY <2>2 DEF Distance
  <2>4. \A w : Distance(w)' = Distance(w)
    BY <2>1 DEF Distance, Wanted
  <2> QED
    BY <2>1, <2>3, <2>4 DEF WordInv
<1>3. CASE Reset
  <2>1. ~line.burst /\ line' = line
    BY <1>3, OnTheBus DEF Reset, HInv, LineInv
  <2> QED
    BY <2>1 DEF WordInv
<1>4. CASE Ask
  <2>1. line' = line /\ mem' = mem /\ (dreq.valid => dreq' = dreq)
    BY <1>4, OnTheBus DEF Ask, deviceVars, Submit, Await, HInv
  <2>2. CASE ~dreq.valid
    BY <2>1, <2>2 DEF HInv, LineInv, WordInv
  <2>3. CASE dreq.valid
    BY <2>1, <2>3 DEF WordInv, WordAt, Distance, Wanted, LineBase
  <2> QED
    BY <2>2, <2>3
<1>5. CASE UNCHANGED <<dreq, line, mem>>
  BY <1>5 DEF WordInv, WordAt, Distance, Wanted, LineBase
<1>6. WaitForAll \/ Abort \/ Type \/ UNCHANGED vars => UNCHANGED <<dreq, line, mem>>
  BY DEF WaitForAll, Fence, Abort, Type, clientVars, deviceVars, vars
<1> QED
  BY <1>1, <1>2, <1>3, <1>4, <1>5, <1>6 DEF Next

\* The answer to a load or an expectation in memory is the word asked for.
LEMMA AnswerIsTheWord ==
  ASSUME HInv, WordInv, dreq.valid, dreq.strobe = {}, Search(dreq.addr.low).device = "mem",
         DesignAnswers.data_ok
  PROVE  DesignAnswers.data = WordAt(dreq.addr.low)
<1>1. Serving /\ LastWord(tx) /\ tx.busy /\ ~tx.is_write /\ Response.data = Loaded
  BY DEF DesignAnswers, Response, Serving, HInv, TransactionInv
<1>2. dreq.addr.low \in Nat /\ LineWords \in Nat
  BY OnTheBus, LineAssumption DEF HInv
<1>3. CASE ~line.burst
  <2>1. tx.addr = dreq.addr.low
    BY <1>1, <1>3 DEF HInv, TransactionInv
  <2>2. Loaded = WordAt(dreq.addr.low)
    BY <2>1 DEF Loaded, Now, WordAt, BlockLoad
  <2> QED
    BY <1>1, <1>3, <2>2 DEF DesignAnswers
<1>4. CASE line.burst
  <2>1. Now.device = "mem" /\ Now = Search(dreq.addr.low)
    BY <1>1, <1>4, BurstsInMemory DEF HInv
  <2>2. Loaded = WordAt(tx.addr)
    BY <2>1, Zenon DEF Loaded, BlockLoad, WordAt
  <2>3. /\ tx.addr = LineBase + 8 * Position /\ line.beat = LineWords - 1
    <3>1. /\ tx.addr = LineBase + 8 * Position /\ tx.N = line.beat + 1 /\ tx.Burst_Length = LineWords
          /\ line.beat \in 0 .. LineWords - 1
      BY <1>1, <1>4 DEF HInv, TransactionInv, LineInv
    <3>2. line.beat + 1 = LineWords
      BY <1>1, <3>1 DEF LastWord
    <3> QED
      BY <1>2, <3>1, <3>2
  <2>4. CASE Position = Wanted
    <3>1. tx.addr = (dreq.addr.low \div 8) * 8
      BY <1>2, <2>3, <2>4, WantedWord
    <3>2. Translate(tx.addr) \div 8 = Translate(dreq.addr.low) \div 8
      BY <1>2, <2>1, <3>1, SameWord DEF Now
    <3>3. Loaded = WordAt(dreq.addr.low)
      BY <2>2, <3>2, Zenon DEF WordAt
    <3> QED
      BY <1>1, <2>4, <3>3 DEF DesignAnswers
  <2>5. CASE Position # Wanted
    <3>1. PICK w \in 0 .. LineWords - 1 : line.start = LineBase + 8 * w
      BY <1>4 DEF HInv, LineInv
    <3>2. Wanted \in 0 .. LineWords - 1
      BY <1>2, WantedWord
    <3>3. line.beat \in 0 .. LineWords - 1
      BY <1>2, <2>3, <3>2
    <3>4. Position = IF w + line.beat < LineWords THEN w + line.beat ELSE w + line.beat - LineWords
      BY <1>2, <3>1, <3>3, WordsOfLine DEF Position
    <3>5. Distance(w) < line.beat
      BY <1>2, <2>3, <2>5, <3>2, <3>4 DEF Distance
    <3>6. line.word = WordAt(dreq.addr.low)
      BY <1>4, <3>1, <3>5, Zenon DEF WordInv
    <3> QED
      BY <1>4, <2>5, <3>6 DEF DesignAnswers
  <2> QED
    BY <2>4, <2>5
<1> QED
  BY <1>3, <1>4

\* Where a datum lies in its word.
LEMMA ShiftIs ==
  ASSUME NEW a \in Nat, NEW w \in {1, 2, 4, 8}, a % w = 0
  PROVE  /\ Parse(w, a).width = w /\ Parse(w, a).shift = (a % 8) /\ (a % 8) \in 0 .. 7 /\ (a % 8) + w <= 8
<1>1. CASE w = 1
  BY <1>1 DEF Parse
<1>2. CASE w = 2
  BY <1>2 DEF Parse
<1>3. CASE w = 4
  BY <1>3 DEF Parse
<1>4. CASE w = 8
  BY <1>4 DEF Parse
<1> QED
  BY <1>1, <1>2, <1>3, <1>4

LEMMA WhereIs ==
  ASSUME NEW a \in Nat
  PROVE  /\ Search(a).device = "mem" /\ InBlock(Translate(a)) =>
              Memory!Location(a) = Translate(a) /\ Translate(a) % 8 = (a % 8) /\ Translate(a) \in Nat
         /\ Search(a).device # "mem" => Memory!Location(a) \notin 0 .. 8 * BlockWords - 1
<1> USE BlockWordsAssumption
<1>1. CASE Matches(Boot, a)
  <2>1. Search(a) = Boot /\ Boot.device = "mem" /\ Boot.base = \h1fc00000
    BY <1>1, SMT DEF Search, Boot
  <2>2. a >= \h1fc00000
    BY <1>1, SMT DEF Matches, Boot
  <2> QED
    BY <2>1, <2>2, SMT DEF Translate, InBlock, Memory!Location, Memory!BootBase
<1>2. CASE ~Matches(Boot, a) /\ Matches(Con, a)
  <2>1. Search(a) = Con /\ Con.device = "con"
    BY <1>2, SMT DEF Search, Con
  <2>2. a >= \h1faf0000
    <3>1. (a \div 65536) % 65536 = 8111
      BY <1>2, SMT DEF Matches, Con
    <3>2. a \div 65536 >= 8111
      BY <3>1, SMT
    <3> QED
      BY <3>2, SMT
  <2>3. Memory!Location(a) = a
    <3>1. ASSUME a >= \h1fc00000, a <= \h1fc00000 + 8 * BlockWords - 1
          PROVE  FALSE
      <4>1. a \div 1048576 = 508
        BY <3>1, SMT
      <4>2. Matches(Boot, a)
        BY <4>1, SMT DEF Matches, Boot
      <4> QED
        BY <1>2, <4>2
    <3> QED
      BY <3>1, SMT DEF Memory!Location, Memory!BootBase
  <2>4. a \notin 0 .. 8 * BlockWords - 1
    BY <2>2, SMT
  <2> QED
    BY <2>1, <2>3, <2>4, SMT
<1>3. CASE ~Matches(Boot, a) /\ ~Matches(Con, a)
  <2>1. Search(a) = All /\ All.device = "mem" /\ All.base = 0
    BY <1>3, SMT DEF Search, All
  <2>2. InBlock(Translate(a)) => a <= 8 * BlockWords - 1 /\ Translate(a) = a
    BY <2>1, SMT DEF Translate, InBlock
  <2>3. a <= 8 * BlockWords - 1 => Memory!Location(a) = a
    BY SMT DEF Memory!Location, Memory!BootBase
  <2> QED
    BY <2>1, <2>2, <2>3, SMT
<1> QED
  BY <1>1, <1>2, <1>3, SMT

LEMMA LaneOfByte ==
  ASSUME NEW x \in 0 .. 8 * BlockWords - 1
  PROVE  /\ x \in Nat /\ x = 8 * (x \div 8) + (x % 8) /\ (x % 8) \in 0 .. 7
         /\ x \div 8 \in 0 .. BlockWords - 1 /\ x \div 8 \in Nat
<1>1. BlockWords \in Nat
  BY BlockWordsAssumption, SMT
<1>2. x \in Nat /\ x < 8 * BlockWords
  BY <1>1
<1>3. x = 8 * (x \div 8) + (x % 8)
  BY <1>2
<1>4. (x % 8) \in 0 .. 7 /\ x \div 8 \in Nat
  BY <1>2
<1>5. x \div 8 < BlockWords
  BY <1>1, <1>2, <1>3, <1>4
<1> QED
  BY <1>1, <1>2, <1>3, <1>4, <1>5

LEMMA BytesOfWord ==
  ASSUME NEW t \in 0 .. 8 * BlockWords - 1, NEW w \in {1, 2, 4, 8}, (t % 8) + w <= 8
  PROVE  /\ \A i \in 0 .. w - 1 :
              /\ t + i \in 0 .. 8 * BlockWords - 1
              /\ (t + i) \div 8 = t \div 8 /\ (t + i) % 8 = (t % 8) + i
         /\ t \div 8 \in 0 .. BlockWords - 1
         /\ \A b \in 0 .. 8 * BlockWords - 1 :
              /\ b \div 8 \in 0 .. BlockWords - 1 /\ (b % 8) \in 0 .. 7
              /\ b - t \in 0 .. w - 1 <=> b \div 8 = t \div 8 /\ (b % 8) \in (t % 8) .. (t % 8) + w - 1
              /\ b \div 8 = t \div 8 => b - t = (b % 8) - (t % 8)
<1>1. BlockWords \in Nat
  BY BlockWordsAssumption, SMT
<1>2. t \in Nat /\ t = 8 * (t \div 8) + (t % 8) /\ (t % 8) \in 0 .. 7 /\ t \div 8 \in 0 .. BlockWords - 1
      /\ t \div 8 \in Nat
  BY LaneOfByte
<1>3. ASSUME NEW i \in 0 .. w - 1
      PROVE  /\ t + i \in 0 .. 8 * BlockWords - 1
             /\ (t + i) \div 8 = t \div 8 /\ (t + i) % 8 = (t % 8) + i
  <2>1. i \in 0 .. 7 /\ (t % 8) + i \in 0 .. 7
    BY <1>2
  <2>2. t + i = 8 * (t \div 8) + ((t % 8) + i)
    BY <1>2, <2>1
  <2> QED
    BY <1>1, <1>2, <2>1, <2>2
<1>4. ASSUME NEW b \in 0 .. 8 * BlockWords - 1
      PROVE  /\ b \div 8 \in 0 .. BlockWords - 1 /\ (b % 8) \in 0 .. 7
             /\ b - t \in 0 .. w - 1 <=> b \div 8 = t \div 8 /\ (b % 8) \in (t % 8) .. (t % 8) + w - 1
             /\ b \div 8 = t \div 8 => b - t = (b % 8) - (t % 8)
  <2>1. b \in Nat /\ b = 8 * (b \div 8) + (b % 8) /\ (b % 8) \in 0 .. 7 /\ b \div 8 \in 0 .. BlockWords - 1
        /\ b \div 8 \in Nat
    BY LaneOfByte
  <2>2. b - t \in 0 .. w - 1 => b \div 8 = t \div 8
    <3>1. ASSUME b - t \in 0 .. w - 1
          PROVE  b \div 8 = t \div 8
      <4>1. t + (b - t) = b
        BY <1>2, <2>1
      <4> QED
        BY <1>3, <3>1, <4>1
    <3> QED
      BY <3>1
  <2>3. b \div 8 = t \div 8 => b - t = (b % 8) - (t % 8)
    <3> DEFINE q == b \div 8
               p == (b % 8)
               q2 == t \div 8
               p2 == t % 8
    <3>1. b = 8 * q + p /\ t = 8 * q2 + p2 /\ q \in Nat /\ q2 \in Nat /\ p \in 0 .. 7 /\ p2 \in 0 .. 7
      BY <1>2, <2>1
    <3> HIDE DEF q, p, q2, p2
    <3>2. q = q2 => b - t = p - p2
      BY <3>1
    <3> QED
      BY <3>2 DEF q, p, q2, p2
  <2>4. b \div 8 = t \div 8 => (b - t \in 0 .. w - 1 <=> (b % 8) \in (t % 8) .. (t % 8) + w - 1)
    BY <1>2, <2>1, <2>3
  <2> QED
    BY <2>1, <2>2, <2>3, <2>4
<1> QED
  BY <1>2, <1>3, <1>4

\* A call and its place in memory.
LEMMA PlaceOfCall ==
  ASSUME CallsInMemory, NEW c \in Calls
  PROVE  /\ c.addr \in Nat /\ c.width \in {1, 2, 4, 8} /\ c.value \in Bytes8
         /\ Parse(c.width, c.addr).width = c.width /\ Parse(c.width, c.addr).shift \in 0 .. 7
         /\ Search(c.addr).device # "mem" => ~Memory!InMemory(c)
         /\ Search(c.addr).device = "mem" =>
              /\ Memory!InMemory(c) /\ Memory!Location(c.addr) = Translate(c.addr)
              /\ Translate(c.addr) \in 0 .. 8 * BlockWords - 1
              /\ Parse(c.width, c.addr).shift = (Translate(c.addr) % 8)
              /\ (Translate(c.addr) % 8) + c.width <= 8
<1>1. c.addr \in Nat /\ c.width \in {1, 2, 4, 8} /\ c.value \in Bytes8
  BY CallsAssumption
<1>2. c.addr % c.width = 0 /\ (Search(c.addr).device = "mem" => InBlock(Translate(c.addr)))
  BY DEF CallsInMemory, CallsExist, AlignedCall
<1>3. /\ Parse(c.width, c.addr).width = c.width /\ Parse(c.width, c.addr).shift = (c.addr % 8)
      /\ (c.addr % 8) \in 0 .. 7 /\ (c.addr % 8) + c.width <= 8
  BY <1>1, <1>2, ShiftIs
<1>4. /\ Search(c.addr).device = "mem" /\ InBlock(Translate(c.addr)) =>
           Memory!Location(c.addr) = Translate(c.addr) /\ (Translate(c.addr) % 8) = (c.addr % 8) /\ Translate(c.addr) \in Nat
      /\ Search(c.addr).device # "mem" => Memory!Location(c.addr) \notin 0 .. 8 * BlockWords - 1
  BY <1>1, WhereIs
<1>5. Memory!InMemory(c) <=> Memory!Location(c.addr) \in 0 .. 8 * BlockWords - 1
  BY DEF Memory!InMemory
<1>6. CASE Search(c.addr).device = "mem"
  <2>1. InBlock(Translate(c.addr)) /\ Translate(c.addr) \in 0 .. 8 * BlockWords - 1
    BY <1>2, <1>6 DEF InBlock
  <2>2. Memory!Location(c.addr) = Translate(c.addr) /\ (Translate(c.addr) % 8) = (c.addr % 8)
    BY <1>4, <1>6, <2>1, Zenon
  <2> QED
    BY <1>1, <1>3, <1>5, <1>6, <2>1, <2>2
<1>7. CASE Search(c.addr).device # "mem"
  BY <1>1, <1>3, <1>4, <1>5, <1>7
<1> QED
  BY <1>6, <1>7

\* The bytes a call finds in memory.
LEMMA BytesAre ==
  ASSUME HInv, CallsInMemory, NEW c \in Calls, Search(c.addr).device = "mem"
  PROVE  /\ Memory!Bytes(c) = [i \in 0 .. c.width - 1 |-> WordAt(c.addr)[Parse(c.width, c.addr).shift + i]]
         /\ \A i \in 0 .. c.width - 1 : Parse(c.width, c.addr).shift + i \in Lanes
         /\ WordAt(c.addr) \in Bytes8
<1> DEFINE t == Translate(c.addr)
           s == Parse(c.width, c.addr).shift
           w == c.width
<1>1. /\ w \in {1, 2, 4, 8} /\ Memory!Location(c.addr) = t /\ t \in 0 .. 8 * BlockWords - 1
      /\ s = (t % 8) /\ (t % 8) + w <= 8 /\ s \in 0 .. 7
  BY PlaceOfCall
<1>2. Memory!Bytes(c) = [i \in 0 .. w - 1 |-> Contents[t + i]]
  BY <1>1 DEF Memory!Bytes, Contents
<1> HIDE DEF t, s, w
<1>3. /\ \A i \in 0 .. w - 1 : t + i \in 0 .. 8 * BlockWords - 1
           /\ (t + i) \div 8 = t \div 8 /\ (t + i) % 8 = (t % 8) + i
      /\ t \div 8 \in 0 .. BlockWords - 1
  BY <1>1, BytesOfWord
<1>4. \A i \in 0 .. w - 1 : Contents[t + i] = mem[t \div 8][s + i] /\ s + i \in Lanes
  <2> SUFFICES ASSUME NEW i \in 0 .. w - 1 PROVE Contents[t + i] = mem[t \div 8][s + i] /\ s + i \in Lanes
    OBVIOUS
  <2>1. t + i \in 0 .. 8 * BlockWords - 1 /\ (t + i) \div 8 = t \div 8 /\ (t + i) % 8 = s + i
    BY <1>1, <1>3
  <2>2. s + i \in Lanes
    BY <1>1 DEF Lanes
  <2>3. Contents[t + i] = mem[(t + i) \div 8][(t + i) % 8]
    BY <2>1 DEF Contents
  <2> QED
    BY <2>1, <2>2, <2>3
<1>5. WordAt(c.addr) = mem[t \div 8]
  BY DEF WordAt, t
<1>6. mem[t \div 8] \in Bytes8
  BY <1>3 DEF HInv, DataInv
<1>7. Memory!Bytes(c) = [i \in 0 .. w - 1 |-> WordAt(c.addr)[s + i]]
  BY <1>2, <1>4, <1>5
<1> QED
  BY <1>4, <1>5, <1>6, <1>7 DEF s, w

\* What a load returns is what it finds, and an expectation fails if it is not met.
LEMMA LoadsAreBytes ==
  ASSUME HInv, CallsInMemory, NEW c \in Calls, Search(c.addr).device = "mem"
  PROVE  Save(Task(c).load_op, WordAt(c.addr)) = Memory!Bytes(c)
<1> DEFINE op == Parse(c.width, c.addr)
           d == WordAt(c.addr)
<1>1. op.width = c.width /\ c.width \in {1, 2, 4, 8} /\ op.shift \in 0 .. 7 /\ Task(c).load_op = op
  BY PlaceOfCall, TaskFacts
<1>2. \A i \in 0 .. c.width - 1 : op.shift + i \in Lanes
  BY BytesAre
<1>3. Memory!Bytes(c) = [i \in 0 .. c.width - 1 |-> d[op.shift + i]]
  BY BytesAre
<1> HIDE DEF op, d
<1>4. op # Discard
  BY <1>1 DEF Discard
<1>5. \A i \in 0 .. c.width - 1 : Apply(op, d)[i] = d[op.shift + i]
  <2> SUFFICES ASSUME NEW i \in 0 .. c.width - 1 PROVE Apply(op, d)[i] = d[op.shift + i]
    OBVIOUS
  <2>1. i \in Lanes /\ i + op.shift = op.shift + i /\ op.shift + i \in Lanes
    BY <1>1, <1>2 DEF Lanes
  <2> QED
    BY <1>4, <2>1 DEF Apply
<1>6. Save(op, d) = [i \in 0 .. c.width - 1 |-> d[op.shift + i]]
  BY <1>1, <1>5 DEF Save
<1> QED
  BY <1>1, <1>3, <1>6 DEF d

LEMMA ExpectationsAreMet ==
  ASSUME HInv, CallsInMemory, NEW c \in Calls, Search(c.addr).device = "mem", c.kind = "expect"
  PROVE  AssertFails(Task(c), WordAt(c.addr)) <=> ~Memory!Met(c)
<1> DEFINE op == Parse(c.width, c.addr)
           d == WordAt(c.addr)
<1>1. /\ op.width = c.width /\ c.width \in {1, 2, 4, 8} /\ op.shift \in 0 .. 7
      /\ Task(c).load_op = op /\ Task(c).call = c /\ Task(c).data = Place(op, c.value)
  BY PlaceOfCall, TaskFacts DEF Task
<1>2. \A i \in 0 .. c.width - 1 : op.shift + i \in Lanes
  BY BytesAre
<1>3. Memory!Bytes(c) = [i \in 0 .. c.width - 1 |-> d[op.shift + i]]
  BY BytesAre
<1> HIDE DEF op, d
<1>4. \A i \in 0 .. c.width - 1 : Place(op, c.value)[op.shift + i] = c.value[i]
  <2> SUFFICES ASSUME NEW i \in 0 .. c.width - 1 PROVE Place(op, c.value)[op.shift + i] = c.value[i]
    OBVIOUS
  <2>1. op.shift + i \in Lanes /\ op.shift + i >= op.shift /\ (op.shift + i) - op.shift = i
    BY <1>1, <1>2
  <2> QED
    BY <2>1 DEF Place
<1>5. AssertFails(Task(c), d) <=> \E j \in OpLanes(op) : d[j] # Place(op, c.value)[j]
  BY <1>1 DEF AssertFails
<1>6. (\E j \in OpLanes(op) : d[j] # Place(op, c.value)[j]) <=> \E i \in 0 .. c.width - 1 : d[op.shift + i] # c.value[i]
  <2>1. ASSUME NEW j \in OpLanes(op), d[j] # Place(op, c.value)[j]
        PROVE  \E i \in 0 .. c.width - 1 : d[op.shift + i] # c.value[i]
    <3>1. j - op.shift \in 0 .. c.width - 1 /\ op.shift + (j - op.shift) = j
      BY <1>1 DEF OpLanes
    <3> QED
      BY <1>4, <2>1, <3>1
  <2>2. ASSUME NEW i \in 0 .. c.width - 1, d[op.shift + i] # c.value[i]
        PROVE  \E j \in OpLanes(op) : d[j] # Place(op, c.value)[j]
    <3>1. op.shift + i \in OpLanes(op)
      BY <1>1 DEF OpLanes
    <3> QED
      BY <1>4, <2>2, <3>1
  <2> QED
    BY <2>1, <2>2
<1>7. Memory!Met(c) <=> \A i \in 0 .. c.width - 1 : d[op.shift + i] = c.value[i]
  BY <1>3 DEF Memory!Met
<1> QED
  BY <1>5, <1>6, <1>7 DEF d

LEMMA StoresAreBytes ==
  ASSUME HInv, CallsInMemory, NEW c \in Calls, Search(c.addr).device = "mem", c.kind = "store",
         mem' = BlockStore(mem, Translate(c.addr), Task(c).data, Task(c).strobe)
  PROVE  Contents' = [b \in DOMAIN Contents |->
                        LET i == b - Memory!Location(c.addr)
                        IN  IF Memory!InMemory(c) /\ i \in 0 .. c.width - 1 THEN c.value[i] ELSE Contents[b]]
<1> DEFINE t == Translate(c.addr)
           op == Parse(c.width, c.addr)
           s == op.shift
           w == c.width
<1>1. /\ w \in {1, 2, 4, 8} /\ Memory!Location(c.addr) = t /\ Memory!InMemory(c) /\ t \in 0 .. 8 * BlockWords - 1
      /\ s = (t % 8) /\ (t % 8) + w <= 8 /\ s \in 0 .. 7 /\ op.width = w
  BY PlaceOfCall
<1>2. Task(c).data = Place(op, c.value) /\ Task(c).strobe = OpLanes(op)
  BY DEF Task
<1> HIDE DEF t, op, w
<1>3. OpLanes(op) = s .. s + w - 1
  BY <1>1 DEF OpLanes
<1>4. mem' = [mem EXCEPT ![t \div 8] =
                [i \in Lanes |-> IF i \in s .. s + w - 1 THEN Place(op, c.value)[i] ELSE mem[t \div 8][i]]]
  BY <1>2, <1>3 DEF BlockStore, t
<1>5. mem \in [0 .. BlockWords - 1 -> Bytes8]
  BY DEF HInv, DataInv
<1>6. /\ t \div 8 \in 0 .. BlockWords - 1
      /\ \A b \in 0 .. 8 * BlockWords - 1 :
           /\ b \div 8 \in 0 .. BlockWords - 1 /\ (b % 8) \in 0 .. 7
           /\ b - t \in 0 .. w - 1 <=> b \div 8 = t \div 8 /\ (b % 8) \in (t % 8) .. (t % 8) + w - 1
           /\ b \div 8 = t \div 8 => b - t = (b % 8) - (t % 8)
  BY <1>1, BytesOfWord
<1>7. ASSUME NEW b \in 0 .. 8 * BlockWords - 1
      PROVE  mem'[b \div 8][b % 8] = IF b - t \in 0 .. w - 1 THEN c.value[b - t] ELSE mem[b \div 8][b % 8]
  <2>1. b \div 8 \in 0 .. BlockWords - 1 /\ (b % 8) \in Lanes
    BY <1>6 DEF Lanes
  <2>2. CASE b \div 8 # t \div 8
    BY <1>4, <1>5, <1>6, <2>1, <2>2
  <2>3. CASE b \div 8 = t \div 8 /\ b - t \notin 0 .. w - 1
    <3>1. (b % 8) \notin s .. s + w - 1
      BY <1>1, <1>6, <2>3
    <3> QED
      BY <1>4, <1>5, <1>6, <2>1, <2>3, <3>1
  <2>4. CASE b \div 8 = t \div 8 /\ b - t \in 0 .. w - 1
    <3>1. (b % 8) \in s .. s + w - 1 /\ b - t = (b % 8) - s /\ (b % 8) >= s
      BY <1>1, <1>6, <2>4
    <3>2. mem'[b \div 8][b % 8] = Place(op, c.value)[b % 8]
      BY <1>4, <1>5, <1>6, <2>1, <2>4, <3>1
    <3>3. Place(op, c.value)[b % 8] = c.value[(b % 8) - s]
      BY <2>1, <3>1 DEF Place
    <3> QED
      BY <2>4, <3>1, <3>2, <3>3
  <2> QED
    BY <2>2, <2>3, <2>4
<1>8. DOMAIN Contents = 0 .. 8 * BlockWords - 1 /\ \A b \in 0 .. 8 * BlockWords - 1 : Contents[b] = mem[b \div 8][b % 8]
  BY DEF Contents
<1>9. Contents' = [b \in 0 .. 8 * BlockWords - 1 |-> mem'[b \div 8][b % 8]]
  BY DEF Contents
<1>10. Contents' = [b \in 0 .. 8 * BlockWords - 1 |->
                      IF b - t \in 0 .. w - 1 THEN c.value[b - t] ELSE Contents[b]]
  BY <1>7, <1>8, <1>9
<1> QED
  BY <1>1, <1>8, <1>10 DEF w

\* What the step of the memory of bytes has to show.
Maps == <<Contents, Asked, got, aborted = "expect">>

LEMMA Serves ==
  ASSUME NEW c, Asked # <<>>, Head(Asked) = c, Asked' = Tail(Asked),
         aborted # "expect", aborted' # "expect",
         \/ /\ c.kind = "load" /\ Contents' = Contents
            /\ IF Memory!InMemory(c) THEN got' = Append(got, Memory!Bytes(c))
               ELSE Len(got') = Len(got) + 1 /\ SubSeq(got', 1, Len(got)) = got
         \/ /\ c.kind = "store" /\ got' = got
            /\ Contents' = [b \in DOMAIN Contents |->
                              LET i == b - Memory!Location(c.addr)
                              IN  IF Memory!InMemory(c) /\ i \in 0 .. c.width - 1 THEN c.value[i] ELSE Contents[b]]
         \/ /\ c.kind = "expect" /\ Memory!Met(c) /\ Contents' = Contents /\ got' = got
  PROVE  Memory!Serve
<1>1. ASSUME Memory!Load(c) \/ Memory!Store(c) \/ Memory!Expect(c)
      PROVE  Memory!Serve
  <2>1. Memory!Load(Head(Asked)) \/ Memory!Store(Head(Asked)) \/ Memory!Expect(Head(Asked))
    <3>1. c = Head(Asked)
      OBVIOUS
    <3>2. CASE Memory!Load(c)
      BY <3>1, <3>2, Zenon
    <3>3. CASE Memory!Store(c)
      <4>1. Memory!Store(Head(Asked))
        BY <3>1, <3>3 DEF Memory!Store
      <4> QED
        BY <4>1
    <3>4. CASE Memory!Expect(c)
      BY <3>1, <3>4, Zenon
    <3> QED
      BY <1>1, <3>2, <3>3, <3>4
  <2> QED
    BY <2>1 DEF Memory!Serve, Asked, CallsOf
<1>2. (aborted = "expect") = FALSE /\ (aborted' = "expect") = FALSE
  OBVIOUS
<1>3. CASE /\ c.kind = "load" /\ Contents' = Contents
           /\ IF Memory!InMemory(c) THEN got' = Append(got, Memory!Bytes(c))
              ELSE Len(got') = Len(got) + 1 /\ SubSeq(got', 1, Len(got)) = got
  <2>1. Memory!Load(c)
    BY <1>2, <1>3 DEF Memory!Load, Contents
  <2> QED
    BY <1>1, <2>1, Zenon
<1>4. CASE /\ c.kind = "store" /\ got' = got
           /\ Contents' = [b \in DOMAIN Contents |->
                             LET i == b - Memory!Location(c.addr)
                             IN  IF Memory!InMemory(c) /\ i \in 0 .. c.width - 1 THEN c.value[i] ELSE Contents[b]]
  <2>1. Memory!Store(c)
    BY <1>2, <1>4 DEF Memory!Store, Contents
  <2> QED
    BY <1>1, <2>1, Zenon
<1>5. CASE /\ c.kind = "expect" /\ Memory!Met(c) /\ Contents' = Contents /\ got' = got
  <2>1. Memory!Expect(c)
    BY <1>2, <1>5 DEF Memory!Expect, Contents
  <2> QED
    BY <1>1, <2>1, Zenon
<1> QED
  BY <1>3, <1>4, <1>5

\* The step in which a task gets its answer.
LEMMA AnswerServes ==
  ASSUME CallsInMemory, HInv, WordInv, GotInv, Tick, Done, aborted # "expect"
  PROVE  Memory!Serve /\ GotInv'
<1> DEFINE t == Head(ongoing)
           data == DesignAnswers.data
<1>1. /\ ongoing \in Seq(TaskSet) /\ ongoing # <<>> /\ dreq = Request(t) /\ dreq.valid /\ t \in TaskSet
      /\ DesignAnswers.data_ok /\ ongoing' = Tail(ongoing) /\ tx.busy /\ Serving
  BY OnTheBus DEF HInv, ClientInv, Done, Serving
<1>2. PICK c \in Calls : t = Task(c) /\ dreq.addr.low = c.addr /\ dreq.strobe = Task(c).strobe
  BY <1>1, CallOnTheBus
<1>3. /\ Task(c).call = c /\ (Task(c).strobe = {} <=> c.kind # "store") /\ c.kind \in {"load", "store", "expect"}
  BY TaskFacts, CallsAssumption
<1>4. Asked # <<>> /\ Head(Asked) = c /\ Asked' = Tail(Asked)
  <2>1. CallsOf(ongoing) # <<>> /\ CallsOf(Tail(ongoing)) = Tail(CallsOf(ongoing)) /\ Head(CallsOf(ongoing)) = t.call
    BY <1>1, CallsOfTail
  <2>2. Asked' = CallsOf(ongoing')
    BY DEF Asked, CallsOf
  <2> QED
    BY <1>1, <1>2, <1>3, <2>1, <2>2 DEF Asked
<1>5. aborted' # "expect" /\ ~(t.call.kind = "expect" /\ AssertFails(t, data))
  <2>1. Aborts(CBusRequest) = "no" /\ aborted' = aborted
    BY DEF Tick
  <2> QED
    BY <1>1, <2>1 DEF Aborts
<1>6. got' = IF c.kind = "load" THEN Append(got, Save(Task(c).load_op, data)) ELSE got
  BY <1>1, <1>2, <1>3 DEF Tick, ClientTick
<1>7. mem' = IF tx.is_write /\ Now.device = "mem" THEN BlockStore(mem, Translate(tx.addr), CBusRequest.data, CBusRequest.strobe)
             ELSE mem
  BY <1>1 DEF Tick, DeviceStep, StoresTo
<1>8. (tx.is_write <=> c.kind = "store") /\ Now = Search(c.addr)
  BY <1>1, <1>2, <1>3, WordsExist DEF HInv, TransactionInv
<1>9. c.kind # "store" => Contents' = Contents
  BY <1>7, <1>8 DEF Contents
<1>10. c.kind # "store" /\ Search(c.addr).device = "mem" => data = WordAt(c.addr)
  BY <1>1, <1>2, <1>3, AnswerIsTheWord
<1>11. GotInv'
  <2>1. CASE c.kind # "load"
    BY <1>6, <2>1 DEF GotInv
  <2>2. CASE c.kind = "load"
    <3>1. data \in Bytes8
      <4>1. Response.data \in Bytes8
        BY AnswerType DEF HInv
      <4>2. line.burst => line.word \in Bytes8
        BY DEF HInv, LineInv
      <4> QED
        BY <4>1, <4>2 DEF DesignAnswers
    <3>2. /\ Parse(c.width, c.addr).width = c.width /\ c.width \in {1, 2, 4, 8}
          /\ Task(c).load_op = Parse(c.width, c.addr) /\ Parse(c.width, c.addr).shift \in 0 .. 7
      BY PlaceOfCall, TaskFacts
    <3> DEFINE op == Task(c).load_op
    <3> HIDE DEF data, op
    <3>3. op.width = c.width /\ op.shift \in 0 .. 7
      BY <3>2 DEF op
    <3>4. \A i \in Lanes : Apply(op, data)[i] \in 0 .. 255
      BY <3>1, <3>3 DEF Apply, Bytes8
    <3>5. Save(op, data) \in [0 .. c.width - 1 -> 0 .. 255]
      <4>1. \A i \in 0 .. c.width - 1 : i \in Lanes
        BY <3>2 DEF Lanes
      <4> QED
        BY <3>3, <3>4, <4>1 DEF Save
    <3>6. Save(op, data) \in UNION {[0 .. n - 1 -> 0 .. 255] : n \in {1, 2, 4, 8}}
      BY <3>2, <3>5, ZenonT(60)
    <3>7. got' = Append(got, Save(op, data))
      BY <1>6, <2>2 DEF op, data
    <3> DEFINE R == UNION {[0 .. n - 1 -> 0 .. 255] : n \in {1, 2, 4, 8}}
    <3>8. got \in Seq(R) /\ Save(op, data) \in R
      BY <3>6 DEF GotInv
    <3> HIDE DEF R
    <3>9. got' \in Seq(R)
      BY <3>7, <3>8
    <3> QED
      BY <3>9 DEF GotInv, R
  <2> QED
    BY <2>1, <2>2
<1>12. CASE c.kind = "load"
  <2>1. Memory!InMemory(c) => got' = Append(got, Memory!Bytes(c))
    <3>1. Memory!InMemory(c) => Search(c.addr).device = "mem"
      BY PlaceOfCall
    <3>2. Search(c.addr).device = "mem" => Save(Task(c).load_op, data) = Memory!Bytes(c)
      BY <1>10, <1>12, LoadsAreBytes
    <3> QED
      BY <1>6, <1>12, <3>1, <3>2
  <2>2. Len(got') = Len(got) + 1 /\ SubSeq(got', 1, Len(got)) = got
    <3> DEFINE R == UNION {[0 .. n - 1 -> 0 .. 255] : n \in {1, 2, 4, 8}}
               x == Save(Task(c).load_op, data)
    <3>1. got' = Append(got, x) /\ got \in Seq(R) /\ got' \in Seq(R)
      BY <1>6, <1>11, <1>12 DEF GotInv
    <3> HIDE DEF R, x
    <3>2. /\ Len(got') = Len(got) + 1 /\ Len(got) \in Nat
          /\ \A i \in 1 .. Len(got) : got'[i] = got[i] /\ got[i] \in R
      BY <3>1, ElementOfSeq
    <3>3. SubSeq(got', 1, Len(got)) \in Seq(R) /\ Len(SubSeq(got', 1, Len(got))) = Len(got)
          /\ \A i \in 1 .. Len(got) : SubSeq(got', 1, Len(got))[i] = got'[i]
      BY <3>1, <3>2
    <3>4. SubSeq(got', 1, Len(got)) = got
      BY <3>1, <3>2, <3>3, SeqEqual
    <3> QED
      BY <3>2, <3>4
  <2>3. Memory!Serve
    BY <1>4, <1>5, <1>9, <1>12, <2>1, <2>2, Serves
  <2> QED
    BY <1>11, <2>3
<1>13. CASE c.kind = "expect"
  <2>1. Memory!Met(c)
    <3>1. Search(c.addr).device = "mem"
      BY <1>13 DEF CallsInMemory
    <3>2. AssertFails(Task(c), data) <=> ~Memory!Met(c)
      BY <1>10, <1>13, <3>1, ExpectationsAreMet
    <3> QED
      BY <1>2, <1>3, <1>5, <1>13, <3>2
  <2>2. got' = got /\ Contents' = Contents
    BY <1>6, <1>9, <1>13
  <2>3. Memory!Serve
    BY <1>4, <1>5, <1>13, <2>1, <2>2, Serves
  <2> QED
    BY <1>11, <2>3
<1>14. CASE c.kind = "store"
  <2>1. /\ tx.is_write /\ tx.addr = c.addr /\ CBusRequest.strobe = Task(c).strobe
        /\ CBusRequest.data = Task(c).data
    <3>1. tx.is_write /\ dreq.strobe # {}
      BY <1>2, <1>3, <1>8, <1>14
    <3>2. CBusRequest.data = dreq.data /\ CBusRequest.strobe = dreq.strobe /\ tx.addr = dreq.addr.low
      BY <1>1, <3>1, StoreIs DEF HInv
    <3>3. dreq.data = Task(c).data
      BY <1>1, <1>2, <3>1 DEF Request
    <3> QED
      BY <1>2, <3>1, <3>2, <3>3
  <2>2. CASE Search(c.addr).device = "mem"
    <3>1. mem' = BlockStore(mem, Translate(c.addr), Task(c).data, Task(c).strobe)
      BY <1>7, <1>8, <2>1, <2>2
    <3>2. Contents' = [b \in DOMAIN Contents |->
                        LET i == b - Memory!Location(c.addr)
                        IN  IF Memory!InMemory(c) /\ i \in 0 .. c.width - 1 THEN c.value[i] ELSE Contents[b]]
      BY <1>14, <2>2, <3>1, StoresAreBytes
    <3>3. Memory!Serve
      BY <1>4, <1>5, <1>6, <1>14, <3>2, Serves
    <3> QED
      BY <1>11, <3>3
  <2>3. CASE Search(c.addr).device # "mem"
    <3>1. ~Memory!InMemory(c) /\ mem' = mem
      BY <1>7, <1>8, <2>3, PlaceOfCall
    <3>2. Contents' = [b \in DOMAIN Contents |->
                        LET i == b - Memory!Location(c.addr)
                        IN  IF Memory!InMemory(c) /\ i \in 0 .. c.width - 1 THEN c.value[i] ELSE Contents[b]]
      BY <3>1 DEF Contents
    <3>3. Memory!Serve
      BY <1>4, <1>5, <1>6, <1>14, <3>2, Serves
    <3> QED
      BY <1>11, <3>3
  <2> QED
    BY <2>2, <2>3
<1> QED
  BY <1>3, <1>12, <1>13, <1>14

\* An expectation that ends the test was not met.
LEMMA AbortFails ==
  ASSUME CallsInMemory, HInv, WordInv, Abort
  PROVE  Memory!Next \/ UNCHANGED Maps
<1>1. /\ aborted = "no" /\ UNCHANGED <<mem, ongoing, got>> /\ aborted' = Aborts(CBusRequest)
  BY DEF Abort, clientVars, deviceVars
<1>2. Contents' = Contents /\ Asked' = Asked
  BY <1>1 DEF Contents, Asked, CallsOf
<1>3. CASE aborted' # "expect"
  BY <1>1, <1>2, <1>3 DEF Maps
<1>4. CASE aborted' = "expect"
  <2>1. dreq.valid /\ DesignAnswers.data_ok /\ AssertFails(Head(ongoing), DesignAnswers.data)
    BY <1>1, <1>4 DEF Aborts
  <2>2. /\ ongoing \in Seq(TaskSet) /\ ongoing # <<>>
    BY <2>1, OnTheBus DEF HInv, ClientInv
  <2>3. PICK c \in Calls : Head(ongoing) = Task(c) /\ dreq.addr.low = c.addr /\ dreq.strobe = Task(c).strobe
    BY <2>1, CallOnTheBus
  <2>4. Task(c).call = c /\ c.kind = "expect" /\ Task(c).strobe = {}
    <3>1. Task(c).call = c /\ (Task(c).strobe = {} <=> c.kind # "store")
      BY TaskFacts
    <3> QED
      BY <2>1, <2>3, <3>1 DEF AssertFails
  <2>5. Search(c.addr).device = "mem"
    BY <2>4 DEF CallsInMemory
  <2>6. DesignAnswers.data = WordAt(c.addr)
    BY <2>1, <2>3, <2>4, <2>5, AnswerIsTheWord
  <2>7. ~Memory!Met(c)
    BY <2>1, <2>3, <2>4, <2>5, <2>6, ExpectationsAreMet
  <2>8. Asked # <<>> /\ Head(Asked) = c
    BY <2>2, <2>3, <2>4, CallsOfTail DEF Asked
  <2>9. Memory!Fail
    BY <1>1, <1>2, <1>4, <2>4, <2>7, <2>8 DEF Memory!Fail, Asked, CallsOf, Contents
  <2> QED
    BY <2>9 DEF Memory!Next
<1> QED
  BY <1>3, <1>4

LEMMA MemoryStep ==
  ASSUME CallsInMemory, HInv, WordInv, GotInv, [Next]_vars
  PROVE  (Memory!Next \/ UNCHANGED Maps) /\ GotInv'
<1>1. ongoing \in Seq(TaskSet)
  BY DEF HInv, ClientInv
<1>2. UNCHANGED <<mem, ongoing, got, aborted>> => UNCHANGED Maps /\ GotInv'
  BY DEF Maps, Contents, Asked, CallsOf, GotInv
<1>3. CASE Tick
  <2>1. Quiet \/ Beat \/ Done
    BY <1>3, TickIs DEF HInv
  <2>2. CASE Quiet \/ Beat
    <3>1. ongoing' = ongoing /\ got' = got /\ aborted' = aborted
      BY <1>3, <2>2 DEF Quiet, Beat, Tick
    <3>2. ~StoresTo("mem")
      <4>1. CASE Quiet
        BY <4>1 DEF Quiet, StoresTo
      <4>2. CASE Beat
        BY <4>2, StoreIs DEF Beat, StoresTo, HInv
      <4> QED
        BY <2>2, <4>1, <4>2
    <3>3. mem' = mem
      BY <1>3, <3>2 DEF Tick, DeviceStep
    <3> QED
      BY <1>2, <3>1, <3>3
  <2>3. CASE Done
    <3>1. aborted # "expect"
      BY <1>3 DEF Tick
    <3>2. Memory!Serve /\ GotInv'
      BY <1>3, <2>3, <3>1, AnswerServes
    <3> QED
      BY <3>2 DEF Memory!Next
  <2> QED
    BY <2>1, <2>2, <2>3
<1>4. CASE Abort
  <2>1. got' = got
    BY <1>4 DEF Abort, clientVars
  <2> QED
    BY <1>4, <2>1, AbortFails DEF GotInv
<1>5. CASE Ask
  <2>1. PICK call \in Calls : Submit(call) \/ Await(call)
    BY <1>5, TestsCalls DEF Ask, HInv, HistoryInv
  <2>2. UNCHANGED <<mem, aborted, got>>
    BY <1>5, <2>1 DEF Ask, deviceVars, Submit, Await
  <2>3. ongoing' = Append(ongoing, Task(call))
    <3>1. CASE Submit(call)
      BY <3>1 DEF Submit
    <3>2. CASE Await(call)
      <4>1. ongoing = <<>> /\ ongoing' = <<Task(call)>>
        BY <3>2 DEF Await
      <4> QED
        BY <4>1
    <3> QED
      BY <2>1, <3>1, <3>2
  <2>4. Task(call) \in TaskSet /\ Task(call).call = call
    BY TaskFacts DEF TaskSet
  <2>5. Asked' = Append(Asked, call)
    <3>1. CallsOf(Append(ongoing, Task(call))) = Append(CallsOf(ongoing), call)
      BY <1>1, <2>4, CallsOfAppend
    <3>2. Asked' = CallsOf(ongoing')
      BY DEF Asked, CallsOf
    <3> QED
      BY <2>3, <3>1, <3>2 DEF Asked
  <2>6. Memory!Ask(call)
    BY <2>2, <2>5 DEF Memory!Ask, Asked, CallsOf
  <2> QED
    BY <2>2, <2>6 DEF Memory!Next, GotInv
<1>6. CASE Reset
  <2>1. UNCHANGED <<ongoing, got, aborted>> /\ ongoing = <<>> /\ mem' = BlockInit
    BY <1>6 DEF Reset, clientVars
  <2>2. Asked = <<>> /\ Asked' = Asked
    BY <1>1, <2>1, CallsOfSeq DEF Asked, CallsOf
  <2>3. Contents' = [b \in DOMAIN Contents |-> 0]
    <3>1. \A b \in 0 .. 8 * BlockWords - 1 : BlockInit[b \div 8][b % 8] = 0
      <4> SUFFICES ASSUME NEW b \in 0 .. 8 * BlockWords - 1 PROVE BlockInit[b \div 8][b % 8] = 0
        OBVIOUS
      <4>1. b \div 8 \in 0 .. BlockWords - 1 /\ b % 8 \in Lanes
        BY LaneOfByte DEF Lanes
      <4> QED
        BY <4>1 DEF BlockInit, Zero
    <3>2. DOMAIN Contents = 0 .. 8 * BlockWords - 1
          /\ Contents' = [b \in 0 .. 8 * BlockWords - 1 |-> mem'[b \div 8][b % 8]]
      BY DEF Contents
    <3> QED
      BY <2>1, <3>1, <3>2
  <2>4. Memory!Clear
    BY <2>1, <2>2, <2>3 DEF Memory!Clear, Asked, CallsOf, Contents
  <2> QED
    BY <2>1, <2>4 DEF Memory!Next, GotInv
<1>7. WaitForAll \/ StartLine \/ Type \/ UNCHANGED vars => UNCHANGED <<mem, ongoing, got, aborted>>
  BY DEF WaitForAll, Fence, StartLine, Type, clientVars, deviceVars, vars
<1> QED
  BY <1>2, <1>3, <1>4, <1>5, <1>6, <1>7 DEF Next

\* Whatever the delays of the device, the length of a line, the bursts of the design and
\* the width of the accesses, the loads, stores and expectations of a test are done in its
\* order in one memory of bytes, seen through both windows (bus.h:647-687,
\* cbus_device.cpp:13-77, memory.cpp:7-39).
THEOREM HarnessIsByteMemory == CallsInMemory => (Spec => ImplementsByteMemory)
<1> SUFFICES ASSUME CallsInMemory PROVE Spec => ImplementsByteMemory
  OBVIOUS
<1>1. Init => Memory!Init /\ WordInv /\ GotInv
  <2> SUFFICES ASSUME Init PROVE Memory!Init /\ WordInv /\ GotInv
    OBVIOUS
  <2>1. \A b \in 0 .. 8 * BlockWords - 1 : BlockInit[b \div 8][b % 8] = 0
    <3> SUFFICES ASSUME NEW b \in 0 .. 8 * BlockWords - 1 PROVE BlockInit[b \div 8][b % 8] = 0
      OBVIOUS
    <3>1. b \div 8 \in 0 .. BlockWords - 1 /\ b % 8 \in Lanes
      BY LaneOfByte DEF Lanes
    <3> QED
      BY <3>1 DEF BlockInit, Zero
  <2>2. Contents = [b \in 0 .. 8 * BlockWords - 1 |-> 0]
    BY <2>1 DEF Contents, Init
  <2>3. Asked = <<>>
    <3>1. ongoing = <<>> /\ ongoing \in Seq(TaskSet)
      BY DEF Init, ClientInit
    <3> QED
      BY <3>1, CallsOfSeq DEF Asked
  <2>4. got = <<>> /\ (aborted = "expect") = FALSE /\ ~line.burst
    BY DEF Init, ClientInit, Direct
  <2>5. Memory!Init
    BY <2>2, <2>3, <2>4 DEF Memory!Init, Contents, Asked, CallsOf
  <2> QED
    BY <2>4, <2>5 DEF WordInv, GotInv
<1>2. HInv /\ WordInv /\ GotInv /\ [Next]_vars => WordInv' /\ GotInv' /\ [Memory!Next]_(Memory!vars)
  <2> SUFFICES ASSUME HInv, WordInv, GotInv, [Next]_vars
               PROVE  WordInv' /\ GotInv' /\ [Memory!Next]_(Memory!vars)
    OBVIOUS
  <2>1. WordInv' /\ GotInv' /\ (Memory!Next \/ UNCHANGED Maps)
    BY WordStep, MemoryStep
  <2>2. UNCHANGED Maps => UNCHANGED Memory!vars
    BY DEF Maps, Memory!vars, Contents, Asked, CallsOf
  <2> QED
    BY <2>1, <2>2
<1> QED
  BY <1>1, <1>2, HarnessInvariance, PTL DEF Spec, ImplementsByteMemory, Memory!Spec
=============================================================================
