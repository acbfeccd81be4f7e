------------------------------ MODULE Testbench ------------------------------
(***************************************************************************)
(* run_testbench: with one worker the tests run one after the other in     *)
(* this process, each with a thread that shows its status; otherwise in a  *)
(* pool of worker processes (src/verilate/vsrc/testbench.cpp).             *)
(***************************************************************************)
EXTENDS WorkerPool, TestHooks

VARIABLES
  thread, flag, screen, late, \* StatusThreads
  phase,                      \* the main program: "running", "reported", "aborted"
  index,                      \* run_serial: i, which is count too
  inTest,                     \* run_serial: a test is running
  count                       \* what run_testbench reports

Threads == INSTANCE StatusThreads

threadVars == <<thread, flag, screen, late>>

mainVars == <<phase, index, inTest, count>>
vars == <<poolVars, hookVars, threadVars, mainVars>>

ASSUME TestsAssumption ==
  /\ DOMAIN TestPlugins = Tests
  /\ \A t \in Tests : TestPlugins[t] \in Seq(Plugins)
ASSUME ProcessesAssumption ==
  0 \in Processes /\ \A n \in WorkerCounts : 1 .. n \subseteq Processes

TypeOK ==
  /\ PoolTypeOK /\ HooksTypeOK /\ Threads!ThreadsTypeOK
  /\ phase \in {"running", "reported", "aborted"}
  /\ index \in 0 .. Total /\ inTest \in BOOLEAN /\ count \in 0 .. Total

Init ==
  /\ PoolInit /\ HooksInit /\ Threads!ThreadsInit
  /\ phase = "running" /\ index = 0 /\ inTest = FALSE /\ count = 0

(***************************************************************************)
(* One worker: run_serial.                                                 *)
(***************************************************************************)
Serial == nWorkers = 1 /\ phase = "running"

StartSerial ==
  /\ Serial /\ ~inTest /\ index < Total
  /\ inTest' = TRUE
  /\ Begin(0, index) /\ Threads!StartWorker(index)
  /\ UNCHANGED <<poolVars, phase, index, count>>

StepSerial ==
  /\ Serial /\ inTest /\ HookStep(0)
  /\ UNCHANGED <<poolVars, threadVars, mainVars>>

\* The result is printed; it takes the status line off the screen.
EndSerial ==
  /\ Serial /\ inTest /\ at[0] # "idle" /\ Finish(0)
  /\ IF "log" \in enabled[0] THEN Threads!ClearStatus ELSE UNCHANGED screen
  /\ UNCHANGED <<poolVars, thread, flag, late, mainVars>>

\* The destructor of the worker, and the next test.
StopSerial ==
  /\ Serial /\ inTest /\ at[0] = "idle"
  /\ Threads!StopWorker(index)
  /\ inTest' = FALSE /\ index' = index + 1
  /\ UNCHANGED <<poolVars, hookVars, thread, screen, late, phase, count>>

\* abort ends the process with all its threads.
AbortSerial ==
  /\ Serial /\ inTest
  /\ \/ Abort(0) /\ UNCHANGED phase
     \/ Die(0) /\ phase' = "aborted"
  /\ UNCHANGED <<poolVars, threadVars, index, inTest, count>>

ThreadRuns ==
  /\ nWorkers = 1 /\ phase # "aborted"
  /\ \E t \in Tests : Threads!ThreadStep(t, "status" \in enabled[0])
  /\ UNCHANGED <<poolVars, hookVars, mainVars>>

ReportSerial ==
  /\ Serial /\ index = Total
  /\ phase' = "reported" /\ count' = index
  /\ IF "log" \in enabled[0] THEN Threads!ClearStatus ELSE UNCHANGED screen
  /\ UNCHANGED <<poolVars, hookVars, thread, flag, late, index, inTest>>

(***************************************************************************)
(* Otherwise: run_parallel.                                                *)
(***************************************************************************)
MasterStep ==
  /\ nWorkers # 1 /\ Master
  /\ UNCHANGED <<hookVars, threadVars, mainVars>>

WorkerStep(j) ==
  /\ nWorkers # 1
  /\ \/ BetweenTests(j) /\ UNCHANGED hookVars
     \/ TakeTest(j) /\ Begin(j, command[j])
     \/ state[j] = "running" /\ HookStep(j) /\ UNCHANGED poolVars
     \/ EndTest(j) /\ Finish(j)
     \/ AbortTest(j) /\ Die(j)
  /\ UNCHANGED <<threadVars, mainVars>>

WorkerFails(j) ==
  /\ nWorkers # 1
  /\ state[j] = "running" /\ Abort(j)
  /\ UNCHANGED <<poolVars, threadVars, mainVars>>

ReportParallel ==
  /\ nWorkers # 1 /\ pc = "return" /\ phase = "running"
  /\ phase' = "reported" /\ count' = passed
  /\ UNCHANGED <<poolVars, hookVars, threadVars, index, inTest>>

SerialNext == StartSerial \/ StepSerial \/ EndSerial \/ StopSerial \/ ReportSerial

Next ==
  \/ SerialNext \/ AbortSerial \/ ThreadRuns
  \/ MasterStep \/ ReportParallel
  \/ \E j \in Workers : WorkerStep(j) \/ WorkerFails(j)

Spec == Init /\ [][Next]_vars

\* The main process and the workers go on, and the body of a test comes to its end:
\* what it waits for on the bus ends in an answer or a panic (bus.h:592-611).
FairSpec ==
  /\ Spec
  /\ WF_vars(SerialNext) /\ WF_vars(MasterStep) /\ WF_vars(ReportParallel)
  /\ \A j \in Processes : WF_vars(j \in Workers /\ WorkerStep(j))
  /\ WF_vars(Serial /\ inTest /\ Die(0) /\ AbortSerial)

(***************************************************************************)
(* Properties.                                                             *)
(***************************************************************************)
\* Every run comes to its end: no worker waits for a command that does not come,
\* the master for no request and no child that does not end, also when tests abort
\* while others run (testbench.cpp:126-195).
RunsEnd == <>(phase # "running")

\* A worker thread frees its flag only after it was told to stop, so that telling it
\* never writes to freed memory (common.cpp:312-325, 377-381).
FlagOutlivesStop ==
  \A t \in Tests :
    /\ inTest /\ t = index => flag[t] = "run"
    /\ thread[t] \in {"test", "print", "sleep"} => flag[t] # "freed"

\* A thread that was told to stop prints at most one more status line, although
\* nobody waits for it (common.cpp:316-319).
OneLateStatus == \A t \in Tests : late[t] <= 1
=============================================================================
