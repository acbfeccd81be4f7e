# A TLA+ model of the arch2025 RISC-V core

The repository is a five-stage in-order RV64 core in SystemVerilog (`src/vsrc`),
with the memory system it runs on in simulation (`src/verilate`) and on a
Basys-3 board (`src/vivado`). This directory models the parts whose correctness
depends on *when* things happen: the pipeline control, the forwarding paths, the
bus, and the C++ harness that runs tests against a simulated design, in threads
and worker processes. TLC checks small instances; TLAPS proves the main facts about
pipeline, forwarding, bus and worker pool for every instance.

## 1. Inventory

| Component | Source (under `src/`) | State | Operations | Talks to |
|---|---|---|---|---|
| fetch unit | `vsrc/src/fetch/fetch.sv` | `_pc`, `last_pc`, `waiting`, `stall`, `stall_awokener`, counter, handled interrupt, output register | take an interrupt, trap a misaligned target, request, send a bubble, receive | instruction port; `wb_commit` (jump, number); mode, `mstatus`, `mie` |
| decoder | `vsrc/src/decode/` | none (but a latch on `op`) | parse, immediates, operand read, illegal instruction | registers, CSRs, three forwarding paths |
| execute | `vsrc/src/execute/` | none | ALU, jump decision, ecall trap | two forwarding paths |
| memory stage | `vsrc/src/memory/` | `waiting`, `cur_mem_op_started`, `last_inst_count`, data read | request, take the answer, trap a misaligned access | data port |
| writeback | `vsrc/src/writeback/writeback.sv` | `_ok`; latched trap and jump | let a trap through, redirect | CSR unit, `wb_commit` |
| commit | `vsrc/src/commit/commit.sv` | `last_inst_counter` | commit pulse, redirect fetch | fetch, difftest |
| CSR unit, mode | `vsrc/src/csr/`, `riscv.sv` | CSRs, `last_inst`, mode, pending mode change | enter a trap, return, write, mode change | writeback, fetch, MMU |
| pipeline registers | `vsrc/src/riscv.sv` | `if_id` ... `wb_commit` | move when all six `ok` are up | all stages |
| register file | `vsrc/src/regs.sv` | 32 registers | write port | decoder, writeback |
| arbiter | `vsrc/util/CBusArbiter.sv` | `busy`, `index` | choose, serve, release | two ports, MMU |
| MMU | `vsrc/util/mmu.sv` | state, physical request, virtual answer | accept, walk (3 levels), access, clean up | arbiter, memory; `satp`, mode |
| CBus device | `verilate/vsrc/cbus_device.cpp`, `include/axi.h` | memory, transaction, `enable` | start, answer, write | MMU |
| block RAM | `vivado/src/with_delay/bram_wrapper.sv` | memory, delay counter, `real_valid`, `ready_read`, output register | delay, enable, answer | MMU (through the crossbar) |
| crossbar, UART | `cbus_crossbar.sv`, `device.sv` | UART state machine, counters, LED | route by address bit 31, send a character | MMU; a second clock |
| reset generator | `vsrc/src/core.sv` | `reseted`, pulse | one reset pulse after the external reset | core |
| CBus-to-AXI adapter | `vsrc/util/CBusToAXI.sv` | request, AXI channels | - | nothing instantiates it |
| running tests | `verilate/vsrc/testbench.cpp`, `include/testbench.h`, `common.cpp` | pipes and worker processes; list of deferred hooks, switched-on plugins; status thread and its flag | hand out a test, run it, abort, reap and kill, report | processes through pipes, `select`, `waitpid`; a detached thread for each test |
| data bus clients | `verilate/include/bus.h`, `cell.h` | current request, queue of tasks | submit, fence, load, store, expect | DBus of the design under test; its clock |
| memory and bursts | `verilate/vsrc/memory.cpp`, `cbus_device.cpp`, `include/axi.h` | words, transaction, `enable` | route, translate, load, store, wrap | CBus of the design under test |
| registers and terminal | `verilate/vsrc/confreg.cpp` | context of this cycle and of the next, `ififo` | load, store, end of cycle, a typed character | router; a thread that reads the terminal |
| monitor, virtual UART | `verilate/vsrc/model.cpp`, `common.cpp` | `_current_num`, buffer of `notify_char` | check the number, show a character, reset | registers, stderr |
| program, options, traces | `verilate/vsrc/main.cpp`, `include/runner.h`, `model.h`, `common.h` | files, statistics | - | host |
| reference model | `verilate/include/diff.h`, `reference.h` | - | declarations only | - |
| difftest | `vsrc/SimTop.sv`, probes in `core.sv` | - | - | a git submodule |
| vendored | `verilate/include/thirdparty/` | - | CLI11, nameof | - |

`make sim` connects the core to difftest's `RAMHelper2`, which is in a git
submodule and not part of this tree. The memory the repository itself has for
simulation is `CBusDevice`, and that is the one modelled. The class that ties
harness and design together with `tick()` is not in the tree either; its place is
taken by what its users in `bus.h` and `model.cpp` need of it.

What is hard here:

* **No flush.** The core has no logic to discard instructions. Fetch stalls
  behind every instruction that may redirect the program and wakes up when that
  instruction's *number* reaches `wb_commit`. Everything depends on nothing
  younger being on its way.
* **Six `ok` signals, one enable.** The CSR unit, the mode register, `_ok`, the
  commit stage and the memory stage run in every cycle, the pipeline registers
  only in those in which all stages agree. State read in one cycle is used some
  cycles later: the interrupt test, the mode, `satp`.
* **Counters for identity.** Whether an instruction was seen before is decided
  by comparing numbers, in the CSR unit, the commit stage, the memory stage and
  the fetch unit. Bubbles repeat the number before them. In the code a number has
  64 bits and never comes round; `docs/lab3.md` claims that three would do, and
  that is what the narrow counters of the runs check.
* **Latches.** `writeback.sv` assigns the trap and the jump on some paths only.
* **A three-level walk in the middle of a request,** in memory that the same
  program writes, behind an arbiter with fixed priority, over memories that
  answer late and (the block RAM) pulse `ready` twice.

* **Processes that may die anywhere.** The master of the worker pool learns that a
  worker has died only through the end of file on a pipe whose other end is open in
  several processes; it may not write to a dead one, nor wait for one that
  waits for it.
* **Cleaning up after a test** that ends, or aborts in the body, in a plugin that is
  half switched on, or in the clean-up itself; and a status thread that
  outlives the test.
* **An answer before the edge, a queue after it.** A task is answered in the cycle of
  its request and popped at the edge, between which the next may be submitted; loads
  are shifted by the address they were asked with, in a burst that starts anywhere
  in its line.
* **State for one cycle** in the registers, of which each flag must be seen once,
  while a thread types.

What makes each component correct: fetch - nothing follows a stalled
instruction, pending interrupts are taken; memory stage - one access each;
CSR unit and commit - each number acts once; pipeline - a program cannot tell it
from a sequential machine; forwarding - operands have the values of program
order; bus - each request is translated and served once, atomically, and is
answered; worker pool - every test runs once, a failure is reported and only a
failure, nobody is left behind, and it ends; hooks - what a test switched on is
off afterwards; bus clients over memory - what a test reads is what one memory of
bytes, accessed in its order, would hold; registers - no character is lost or
repeated, the monitor stops exactly the wrong programs.

## 2. Modules

| Module | Models | State and actions |
|---|---|---|
| `Instructions` | what the control can tell about an instruction; records of the pipeline registers | constants `Words`, `CounterMod`, `Mtvec`, `PatchedPc`, `Insts`, `Lines`, `EnabledLines` with their assumptions |
| `Fetch` | `fetch.sv` | one action per branch of the clocked block |
| `MemoryStage` | `memory.sv`, `visit_memory.sv` | `MemoryStep`: the block at each edge |
| `Csr` | `csr.sv`, the mode register | `CsrStep` |
| `Writeback` | `writeback.sv`, `commit.sv` | `WritebackStep`; the latches are variables |
| `Pipeline` | `riscv.sv`: the composition | a step is a clock edge: `Advance` (all stages ok), `InstructionArrives`, `DataArrives`, `Hold` |
| `PipelineProperties` | - | safety properties, the inductive parts, the refinement mapping |
| `PipelineHistory` | - | history variables: where the last executed instruction leads, accesses made |
| `SequentialCore` | abstract: one instruction after the other | one `Step` per instruction; `Fairness`: it goes on |
| `PipelineProofs`, `PipelineOrderProofs` | - | theorems about stalling, mode and interrupts; about order and the refinement of `SequentialCore` |
| `Forwarding` | `regs.sv`, operand reads and forwarding in decoder, execute, memory, writeback | a step is a move of the pipeline registers |
| `ForwardingProofs` | - | theorems |
| `BusRequests` | bus records of `common.sv` | |
| `Bus` | ports, arbiter, MMU | one action per MMU state; `BusStep` composes them at one edge |
| `CBusDevice`, `SimulatedBus` | the simulator's memory; bus over it | |
| `BramWrapper`, `FpgaBus` | the board's memory; bus over it | |
| `AtomicMemory` | abstract: one memory, two ports, requests served at one instant | |
| `BusPortProofs`, `BusProofs`, `FpgaBusProofs` | - | lemmas about ports, arbiter and MMU over any memory; theorems about both buses |
| `WorkerPool` | `run_parallel`, `run_worker` | one action for each system call of master and worker that another process can see |
| `TestHooks` | `testbench.h`, `run_defers`, `abort_testbench` | the steps of one test in its process |
| `StatusThreads` | `ThreadWorker`, `status_line` | the thread of each test |
| `Testbench` | `run_testbench`: the composition | serial run or pool |
| `TestbenchProofs` | - | theorems about pool, hooks and status threads |
| `LoadOps` | `LoadOp` of `bus.h` | operators: lanes of an access, shifting data to and from them |
| `DBusPipeline` | `DBusPipelineGen`, `DBusGen` | `Submit`, `Fence`, `Await`, `ClientTick` |
| `AxiTransaction` | `axi.h` | operators: the wrapping burst |
| `SocMemory` | `BlockMemory`, `MemoryRouter`, `install_soc` | operators: windows, words, strobes |
| `Confreg` | `confreg.cpp` | the two contexts, the UART's queue |
| `HarnessSoc` | the composition with `CBusDevice` (bursts and strobes), `model.cpp`, `notify_char` | `Tick`: one cycle; `Ask`, `WaitForAll`: the test; `Type`: the terminal; `Reset` |
| `ByteMemory` | abstract: a memory of bytes and a queue of accesses | |
| `HarnessProofs` | - | theorems about `HarnessSoc`, its refinement of `ByteMemory` among them |
| `MC*` | finite instances | |

How the state corresponds to the code: variables have the names of the registers
(`fpc` is `_pc`, `counter` is `current_inst_counter`, `fout` is the register
behind fetch's `if_id_state`, `dwaiting` and `started` are `waiting` and
`cur_mem_op_started`, `csrSeen`, `memSeen` and `commitSeen` are the three copies
of the last number seen). `ireq.valid` and `dreq.valid` rise and fall with
`waiting` and are not variables of their own. Wires are operators.

Abstractions:

* An instruction is a record that already says where a taken jump goes, whether
  the address of an access is aligned and what a CSR write writes; the memory
  may return any instruction of `Insts` at any address and at any time. A
  program that computes these things is one of those behaviours.
* An address counts units of two bytes, so that it can be misaligned.
* A load returns nothing in `Pipeline`; values are the subject of `Forwarding`,
  which takes from the pipeline only that nothing follows a stalled instruction
  (`NoFlushNeeded`). Its values are numbers modulo `Modulus`, and an ALU
  result is a sum of the operands the instruction uses.
* The bus model sees the core as two ports that hold a request until they are
  answered, and may change the address space only when both are idle. That is
  what `ModeStableUnderRequest` says of the pipeline.
* Page numbers, the digits of a virtual page number and page offsets come from
  one small set `Digits`, and a word of memory holds a digit: a datum and a page
  table entry at the same time. So stores change page tables.
* `mtvec`, `mie` and `satp`'s table are set once by the boot code (in the bus
  model paging and root may change between requests).
* Power-up values: registers without a reset start as zero.
* In the harness a test is the sequence of calls it makes, chosen freely from the
  set it has (`Tests`; another one may follow after a reset), while as many characters
  are typed as it allows. The thread of the terminal is an action of its own, between any
  two cycles; a character that comes within a cycle, between the load and the `sync` that
  takes out what was loaded, is put behind it and so is as good as one just before the cycle.
  A process is what it does to pipes and children. That `fork`, `pipe`, `read` and
  `write` may fail themselves, which ends the run at once, is left out. The handler
  that brings a failed assertion to `abort_testbench` is installed by the program
  that uses the harness (`hook_signal`), and is taken to be there.
* The design under test in `HarnessSoc` is `DBusToCBus`, which passes a request on,
  or a cache that may load the line around a read with a wrapping burst from any
  word on. The repository has no such cache; the bursts of `CBusDevice` and `axi.h`
  are there for one, and so it is external. Bit 31 of an address is a flag of its own, because
  the clients set it and the wrapper takes it away.
* `StatusLine` says whether the status line is enabled, in which case
  `notify_char` buffers.

Operators whose comment says "Mutant" are deliberately wrong variants of the
definition below them. Each property is known to fail when one of them is put
in the definition's place.

## 3. Runs

| Run | Checks | Size |
|---|---|---|
| `pipeline_sequential` | `ImplementsSequential`, `KeepsExecuting` | 454 070 states |
| `pipeline_interrupt` | `TypeOK`, `NothingBehindStall`, `BusExclusive`, `InterruptStillAllowed`, `ExecutesInOrder`, `AccessExactlyOnce`, `ModeStableUnderRequest`, `CommitOnce` | 655 000 states |
| `bus_simulated` | `TypeOK`, `RequestHeld`, `ImplementsAtomicMemory`, `EveryRequestAnswered` | 36 000 states |
| `bus_fpga` | `TypeOK`, `DataArrived`, `ImplementsAtomicMemory`, `EveryRequestAnswered`, without paging | 11 000 states |
| `forwarding` | `TypeOK`, `OperandsFresh`, `RegistersFollow`, `StaleStoreOnlyAfterAuipc` | 8 700 states |
| `harness_tests` | `TypeOK`, `TestsRunOnce`, `RequestsAreWaitedFor`, `ReportIsHonest`, `NobodyLeft`, `NothingLeftOn`, `HooksNest`, `LostOnlyToLog`, `FlagOutlivesStop`, `OneLateStatus`, `RunsEnd` | 534 186 states |
| `harness_soc` | `TypeOK`, `AssertionsHold`, `TypedReadOnce`, `SentShownOnce`, `NumbersChecked`, `ImplementsByteMemory`, `EveryWaitEnds` | 277 801 states |
| `pipeline_illegal` | `ExecutesInOrder` is violated | |
| `pipeline_resume` | `InterruptSavesNext` is violated | |
| `pipeline_pending` | `PendingIsHandled` is violated | |
| `bus_fpga_paging` | `DataArrived` is violated | |
| `forwarding_store` | `StoreDataFresh` is violated | |

* `pipeline_sequential` is the strongest statement about the control: for every
  delay of the two buses the CSR state, the mode and the program counter change
  as those of `SequentialCore`, one instruction at a time (`ImplementsSequential`),
  and that goes on for ever (`KeepsExecuting`, its fairness). An instruction is executed in the cycle in which the CSR unit acts on
  it. Interrupts and opcodes outside the stall list are left out, since with
  them it does not hold: see the findings. `PatchedPc` is an address of the
  instance here, so the special case of `csr.sv:95` is exercised too.
* `pipeline_interrupt` adds an interrupt line that may rise and fall in every
  cycle. `ExecutesInOrder` then still says that each instruction that is executed
  is the one the one before leads to, and `InterruptStillAllowed` that
  writeback may let interrupts through without a second look.
* `bus_simulated` and `bus_fpga` show the refinement from registers on a clock
  to one atomic memory. A request is served at the edge at which the MMU takes
  the last physical answer. The walk is part of that instant, although other
  words of it were read many cycles earlier: nothing else uses the memory in
  between.

* `harness_tests` runs three tests, any of which may abort at any point, with no
  worker, serially, or with two or three workers. No test is run twice, the report
  says "failed" exactly if one aborted, no process is left behind, every run ends.
  `NothingLeftOn`, `HooksNest` and `LostOnlyToLog` say what the deferred hooks
  guarantee and what not, `FlagOutlivesStop` and `OneLateStatus` what the detached threads do.
* `harness_soc` shows that clients, device, bursts, routing and lanes together are
  `ByteMemory`: the accesses of a test happen one after the other on bytes, through
  both address windows, and an expectation fails exactly when the bytes differ.
  Next to it, in the same cycles, the UART, the virtual UART and the monitor:
  `TypedReadOnce` with two different characters in the queue while loads are under way,
  `SentShownOnce` with different characters sent to either UART, newlines to the virtual one, and
  `NumbersChecked` with numbers shown in order and not, with and without their
  acknowledgement, and the monitor off in between.

**Bounds and why they are enough.** Three words of address space (two with
interrupts) give a successor, a jump target and a misaligned one that differ;
addresses are only ever incremented, compared with the vector and passed on.
`CounterMod` 7 is the least value the proofs allow and 8 is the three bits
`docs/lab3.md` claims; numbers are only compared for equality and at most
six are alive, so larger counters show nothing new (and the theorems cover them).
Every kind of instruction the control distinguishes is in some run. Two pages of
two words suffice for a walk to meet every coincidence of tables, entries and
data; the two fetch and three access addresses differ in one digit of each
level. Two registers besides `x0` and values modulo 3 distinguish the
writers within forwarding distance. `BramDelay` is 2, the value of the code in
simulation; the board's 32 only adds waiting.

Three tests and three workers let two workers ask while a third aborts, a worker find no
test left, and one be served twice; one has the plugins
"trace", which is off before it, and "log", which is on, in this order so that hooks must nest. Worker counts 0 and 1 are
the special cases of the code. In `MCHarnessSoc` memory is two words and a line is both of them, so that
every burst wraps; three tasks (`MaxTasks`) fill the queue while one is under way
and one waits. There are four tests, so that calls that have nothing to do with each
other are not mixed: one on memory, with all widths, both windows and stores that
overlap in part; one that loads `RXD` and `LSR` while two characters are typed, each of
which may be either of two; one that stores two characters to `TXD`, and two and a newline to
`VIRTUAL_UART`; one that stores numbers to `NUM` and turns `NUM_MONITOR` off and on. All have
loads of memory as well. `LED`, `IO_SIMU` and `SIMU_FLAG`, which only keep what is stored, are
in the model but in no test. `MaxResets` is 1: one reset between two tests, which may
be different ones. `BufferSize` 2
fills the buffer of `notify_char` with the second character. `MCHarnessSoc` assumes
`CallsInMemory` of its own calls, so that TLC confirms that they satisfy the
hypothesis of the theorems.

**Fairness.** `WF(Next)`: the clock ticks. Weak fairness of
`InstructionArrives` and `DataArrives`: memory answers a pending request, which
is `EveryRequestAnswered` of the bus model. The CBus device is enabled again
and again because `p_disable` is a probability below one
(`cbus_device.cpp:82`). No fairness is assumed of interrupt lines or of the core's
choice to make a request. In `Testbench` the operating system goes on with the main
process, with each worker, and with the abort of a test that has begun; a worker may
always abort, but need not. Status threads need no fairness. In `HarnessSoc`, while
`fence` or `await` spin, they tick, and the device is enabled again and again
(the same `p_disable`), or the abort that is due happens. A test need not ask for anything.

### Findings

1. **Illegal instructions outside the stall list** (`fetch.sv:155`): the
   instruction behind one is fetched before the decoder sees the trap, and
   nothing removes it; it is executed after the trap was taken.
2. **Address saved by an interrupt** (`fetch.sv:77-97`): the fake no-operation
   keeps the `inst_pc` of the last instruction fetched. That one is executed before
   the interrupt acts, and once more after `mret`. `csr.sv:95` corrects the one
   address that `lab6-test.S` looks at.
3. **Pending interrupts** (`fetch.sv:71`): a line is not handled while the line
   handled before keeps some line high.
4. **Two ready pulses** (`bram_wrapper.sv:56`): the block RAM says ready twice
   for one read. Without paging the MMU is in `CLEANUP` by then; during a walk it
   takes the second pulse for the answer to the next read.
5. **Store behind `auipc`** (`execute.sv:110`): stores use the operand as
   decoded. For `is_arith` results the decoder has seen everything; for `auipc`
   it has not. `StaleStoreOnlyAfterAuipc` shows that this is the only case.

Also visible in the model, and kept as the code has it: exceptions are masked in
M mode while `mstatus.MIE` is clear, and a masked `ecall` still updates the CSRs
(`writeback.sv:69`, `csr.sv:80`); `mcycle` counts instructions, not cycles.

Of the harness, where nothing in the repository says otherwise:

* With `-j 0` no worker exists, no test runs, and the report says that 0 tests
  passed (`testbench.cpp:87-201`). A failed test does not show in the exit code of
  `run_testbench` (`testbench.cpp:217-234`).
* The plugins LOG and STATUS switch off what they find on, instead of restoring it
  (`testbench.h:143-154`). If an assertion fails while the deferred hooks run,
  they run again from the start (`testbench.cpp:242`).
* `_current_num` survives a reset (`model.cpp:147`) and `v_num` does not, so the first
  cycle after a reset behind a number aborts the next program, whatever it does. Likewise
  the cycle in which a program switches the monitor on compares with the last number shown
  while it was on before (`model.cpp:141-153`). `NumbersChecked` leaves out these
  cycles (`numbers.lost`), until the monitor accepts a number; from then on it is exact again.
* `DBusPipelineGen` asserts that its accesses are aligned (`bus.h:722-777`); `load` and
  `store` of `DBusGen` do not, as their comment says (`bus.h:457`), and
  `LoadOp::parse` then takes the aligned datum around the address.
* With the status line, characters of the virtual UART wait for a newline or a full
  buffer; those of an unfinished line are lost at the exit, and a zero
  hides the rest of the buffer (`common.cpp:223-239`).
* A worker started by `ThreadWorker::once` frees its flag before `stop` writes to it
  (`common.cpp:319-325, 381`). Nothing in the repository starts one.

## 4. Proofs

The theorems hold for all values of the constants that satisfy the assumptions
named in the modules: any program, any counter with more than six values, any
register file and width, any memory and page tables, any delay of the block RAM, any
number of workers, tests and plugins, any block of memory up to the megabyte of
`MEMORY_SIZE`, any burst length of `mlen_t` that divides it, any buffer, any calls of a test. TLC evaluates each assumption for its instance.

| Module | Theorem | Statement |
|---|---|---|
| `PipelineProofs` | `TypeCorrect` | `Spec => []TypeOK` |
| | `NoFlushNeeded` | `Spec => []NothingBehindStall` |
| | `OnePortAtATime` | `Spec => []BusExclusive` |
| | `CommitsInOrder` | `Spec => CommitOnce` |
| | `OneAccessEach` | `HistorySpec => []AccessExactlyOnce` |
| | `InterruptsStayAllowed` | `KnownOpcodes => (Spec => []InterruptStillAllowed)` |
| | `ModeIsStable` | `KnownOpcodes => (Spec => ModeStableUnderRequest)` |
| `PipelineOrderProofs` | `ProgramOrder` | `KnownOpcodes => (HistorySpec => []ExecutesInOrder)` |
| | `PipelineIsSequential` | `KnownOpcodes /\ NoInterrupts => (HistorySpec => ImplementsSequential)` |
| `ForwardingProofs` | `ForwardingTypes` | `Spec => []TypeOK` |
| | `OperandsAlwaysFresh` | `Spec => []OperandsFresh` |
| | `RegistersAlwaysFollow` | `Spec => []RegistersFollow` |
| | `OnlyAuipcMakesStoresStale` | `Spec => []StaleStoreOnlyAfterAuipc` |
| `BusProofs` | `BusTypes` | `Spec => []TypeOK` |
| | `RequestAlwaysHeld` | `Spec => []RequestHeld` |
| | `BusIsAtomic` | `Spec => ImplementsAtomicMemory` |
| `FpgaBusProofs` | `FpgaTypes` | `Spec => []TypeOK` |
| | `DataAlwaysArrived` | `Unpaged => (Spec => []DataArrived)` |
| | `FpgaBusIsAtomic` | `Unpaged => (Spec => ImplementsAtomicMemory)` |
| `TestbenchProofs` | `PoolInvariance` | `Spec => []PoolInv` |
| | `TestsRunOnceAlways` | `Spec => []TestsRunOnce` |
| | `RequestsAlwaysWaitedFor` | `Spec => []RequestsAreWaitedFor` |
| | `NobodyIsLeft` | `Spec => []NobodyLeft` |
| | `ReportAlwaysHonest` | `Spec => []ReportIsHonest` |
| | `TestbenchTypes` | `Spec => []TypeOK` |
| | `NothingIsLeftOn` | `Spec => []NothingLeftOn` |
| | `HooksAlwaysNest` | `UsedOnce => (Spec => []HooksNest)` |
| | `LostOnlyToLogAlways` | `"log" \in SwitchedOn => (Spec => []LostOnlyToLog)` |
| | `FlagsOutliveStop` | `Spec => []FlagOutlivesStop` |
| | `OneLateStatusAlways` | `Spec => []OneLateStatus` |
| `HarnessProofs` | `HarnessInvariance` | `Spec => []HInv` |
| | `HarnessTypes` | `Spec => []TypeOK` |
| | `AssertionsAlwaysHold` | `CallsExist => (Spec => []AssertionsHold)` |
| | `TypedReadOnceAlways` | `Spec => []TypedReadOnce` |
| | `SentShownOnceAlways` | `Spec => []SentShownOnce` |
| | `NumbersAlwaysChecked` | `Spec => []NumbersChecked` |
| | `HarnessIsByteMemory` | `CallsInMemory => (Spec => ImplementsByteMemory)` |

**Stalling** (`PipelineProofs`). Of the first five theorems only the first is about an inductive invariant. The
invariant that is, `PipeInv == TypeOK /\ Chain /\ Stopped /\ Access`, reads:

* `Chain`: from `wb_commit` back to fetch, each register has the number of the
  register before it (then it holds nothing fetch stalls on) or the next one.
* `Stopped`: if any register holds an instruction fetch stalls on, that is the
  youngest, `stall` is up, and `stall_awokener` is its number.
* `Access`: while an access is out `cur_mem_op_started` is set, it is only
  set for the instruction in `ex_mem`, and is set once that has been there for
  a cycle.

When fetch finds `wb_commit` at the awokener, `Chain` forces all registers in
between to that number as well - five increments cannot come full circle, which
is where the counter's width is used (lemma `NoWrap`) - so they hold nothing to
wait for (`Drained`, `AwakeMeansFree`). Each action then preserves each part in
a lemma of its own, and the theorems follow from `Invariant`.

**Mode** (`PipelineProofs`). `ModeInv` adds to `PipeInv` when the CSR unit acts:
only in the first of the two cycles in which the toggling `_ok` holds an
instruction in `mem_wb`; the mode register follows in the second (`Settling`).
An instruction that changes the mode is alone in the pipeline (lemma `Alone`), so
nobody sees the two disagree, and an interrupt that fetch has found allowed still is
(`Caught`). `KnownOpcodes` says that the program has no illegal opcode outside
fetch's stall list: the run `pipeline_illegal` shows what happens with one, so the
assumption cannot be dropped.

**Order** (`PipelineOrderProofs`). `OrderInv` gives every register the address it must
have: the oldest instruction that is not executed is the one that the last executed leads
to (`nextPc`, a history variable), each other is the successor of the one before
(`Addresses`), and fetch goes on behind the youngest, or, when it has stopped, where
`wb_commit` will send it (`FetchAt`, through the latches of writeback: `Latched`).
`Alignment` and `Entry` exclude the cases in which a trap would lead elsewhere.

**One instruction after the other** (`PipelineOrderProofs`). The refinement mapping reads the
sequential program counter off the oldest instruction in the pipeline that is not
executed, and where there is none off the fetch unit; lemma `NextIsNext` shows that
it is the `nextPc` of the order proof. `SeqInv` adds to `OrderInv` where each of these
instructions comes from and which trap the stages passed so far have given it
(`Origins`: it is as memory returned it, or the no-operation at a misaligned target),
that the target an `mret` has read is still `mepc` when it is executed (`ReturnsTo`;
writes of `mepc` are stalled on), and that nothing is taken for an interrupt
(`Uninterrupted`). Lemma `EdgeIsStep` then takes a clock edge apart: if the CSR
unit acts, what it writes and where the program goes is one `Step`; if not, the
mapping stands still. The history variables of `HistorySpec` only record and constrain
nothing. `KnownOpcodes` and `NoInterrupts` are needed: with an unknown opcode the
run `pipeline_illegal`, with interrupts the run `pipeline_resume` leaves the sequential
machine (findings 1 and 2).

**Forwarding** (`ForwardingProofs`). Each pipeline register is compared with the
registers before its instruction in program order: the register file, with the writes of
all older instructions applied. A decoded value is right, or the instruction just
before writes it in a way the decoder cannot see (`Decoded`), and then execute takes it
from `ex_mem` or `mem_wb`; a store does not, and of the writers that are not
`is_arith` the fetch unit stalls on all but `auipc` (`Stalled`). That is
`OnlyAuipcMakesStoresStale`, and why finding 5 is the only case.

**Bus** (`BusPortProofs`, `BusProofs`, `FpgaBusProofs`). What holds over any memory -
types, and that ports, arbiter and MMU are in step (`Handshake`) - is proved once for any
answer. For the CBus device, `Walk` says how far the walk has come *in the memory as it is
now*: the tables read so far are still what they were, since the only write is the
last access of the request being served. So the last answer is the abstract
memory's one step, and every other edge is a stutter or the issue of a
request. For the block RAM, `RamAtWork` places its second `ready` pulse in the
MMU's `CLEANUP` cycle. That needs `Unpaged`: with paging the pulse falls into the next
read (run `bus_fpga_paging`).

**Worker pool** (`TestbenchProofs`). `PoolInv` relates the master's counters to
the workers' states through what is in the pipes: a request is in a pipe only if its worker
waits to read and nothing is under way to it (`Pipes`), a test was not
dispatched yet, is in one pipe, or was started once (`Handout`), and
`passed` is the number of tests that have ended, less those whose workers have not asked
again (`Counts`, with cardinalities). An aborted test shows up as a closed pipe
before the loop is left (`Kept`), which makes the report honest.

**Hooks and threads** (`TestbenchProofs`). `HookInv` says of each process that its
deferred hooks are those of the plugins it has been through, in their order (`Stacks`), and
that whatever is on was on in main, is just being switched on, or has a hook that
still has to run (`Owed`); the hooks that have run form the end of the list, also
when an assertion fails in one of them. For `HooksNest`, `Nested` adds that what is
deferred is still on; it needs `UsedOnce`, for a plugin used twice is switched off
by the later of its two hooks. `ThreadInv` places the flag of each status thread:
"run" only for the test under way, "stop" or freed only for earlier ones, and one
late line only after the stop.

**Harness** (`HarnessProofs`). `HInv` ties the four machines that move in one `tick` together:
the request on the bus is that of the oldest task (`ClientInv`); a burst of the
design starts at a word of the line around that request (`LineInv`), and the
device's transaction is at the word the beat says, with the wrap boundaries of
that line (`TransactionInv`); the notes a register access leaves in the context are
cleared at the end of the cycle (`ContextInv`). The lemmas about `axi.h` (which
word of the line each beat of a burst is at: `WordsOfLine`), about windows (`LinesInWindows`)
and about lanes (`BytesOfWord`) are stated for all lengths and addresses; that is where
powers of two and the limit of a megabyte, which keeps the block within its window, are
used. From `HInv` follow:

* `AssertionsAlwaysHold`: a request stays as it is (`RequestStays`), because a task is only
  added behind the one on the bus; no word of a burst is out of range, because a line
  around an address of the block is in the block (`LineInBlock`). `CallsExist` says that the
  test keeps to existing addresses: the assertions are there for those who do not.
* `TypedReadOnceAlways`, `SentShownOnceAlways`, `NumbersAlwaysChecked` with `TypedInv`,
  `ShownInv` and `NumberInv`: what the program has read and what is in the queue is what was
  typed, what it has sent is shown or buffered, and the monitor's number is the
  last one shown unless it has lost count.
* `HarnessIsByteMemory`. `WordInv` says that the design keeps the word asked for once it has
  passed in the burst; it equals memory because nothing writes memory in the
  meantime. So the answer is the word at the request (`AnswerIsTheWord`), the shifts of
  `LoadOp` take out or put in exactly the bytes of the call (`LoadsAreBytes`,
  `StoresAreBytes`), and an expectation fails exactly if those differ (`ExpectationsAreMet`).
  The cycle of the answer is the abstract access, all others are stutters (`Serves`,
  `MemoryStep`). `CallsInMemory` asks in addition for aligned calls (`DBusPipelineGen` asserts
  that, `DBusGen` does not) and for expectations on memory only, as what registers
  answer is left open in `ByteMemory`. TLC evaluates it on the calls of `harness_soc`.

`SequentialCore`, `AtomicMemory` and `ByteMemory` are refined step by step, so every safety
property of them carries over to the models of the code.

Only model-checked: liveness (`KeepsExecuting`, `EveryRequestAnswered` on both buses,
`RunsEnd`, `EveryWaitEnds`), which the prover does not reach, and the properties that
the code violates (runs `pipeline_illegal`, `pipeline_resume`, `pipeline_pending`,
`bus_fpga_paging`, `forwarding_store`), of which the counterexample is the result. Every
other property of a run is a theorem.

## 5. Not modelled

| Part | Why |
|---|---|
| UART of `device.sv`, crossbar | Two clocks without synchronisers: what is sampled near an edge is decided by the electronics. The rest is a counter that shifts bits out. |
| `CBusToAXI.sv`, `SimpleArbiter.sv`, `CBusMultiplexer.sv` | Nothing instantiates them. |
| Reset in the middle of a run | `core.sv` gives one pulse at the start. Later resets, which the board's button could give, find registers without a reset as they are. |
| Opcodes, immediates, `op` as a latch (`parse_instruction.sv:46`), ALU, shifts of `align.sv` | 64-bit combinational functions without state. A model at the word widths TLC can enumerate would repeat them line by line. |
| Destination register of a misaligned load (`writeback.sv:48`) | It traps and still writes its register. `Forwarding` has no traps and `Pipeline` no values; the hazard is listed. |
| Files in memory (`BlockMemory::map`) | File input. Its mask has 32 bits where it needs 64 (`memory.cpp:102`), which is listed as a hazard. |
| Timer, trace switch, terminal set-up of `confreg.cpp`; cells of `cell.h` | Plain registers and host calls; cells end in the loads, stores and fences that are modelled. |
| Limits of `fence` and `await` (`bus.h:592-611, 792`) | After so many cycles they abort. `EveryWaitEnds` shows that waiting ends without them, as the device is enabled again and again. |
| `main.cpp`, `runner.h`, `model.h`, `common.h` | Options, files, wave traces and statistics: input and output around the harness. |
| `diff.h`, `reference.h` | Declarations without definitions. |
| difftest, `SimTop.sv` | The simulator it is connected to is a git submodule. |
| `thirdparty/CLI11.hpp`, `nameof.hpp` | Vendored: a parser of command lines and names of types. They are nearly three quarters of the C++ lines of the repository. |

What remains worth doing: a sequential machine with interrupts, which would need the address
that an interrupt saves to be the code's and not the architecture's (finding 2);
and the values of `Forwarding` put into the instructions of `Pipeline`, so that one
refinement covers both control and data.
