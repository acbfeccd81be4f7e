---------------------------- MODULE StatusThreads ----------------------------
(***************************************************************************)
(* The thread that shows the name of the running test once a second, when  *)
(* the tests run one after the other (ThreadWorker and status_line,        *)
(* src/verilate/vsrc/common.cpp, and run_test, testbench.cpp). The threads *)
(* are detached: the one of a test that has ended may live on for a while. *)
(***************************************************************************)
EXTENDS Naturals

CONSTANT Tests

VARIABLES
  thread, \* where the thread of each test is
  flag,   \* its flag on the heap: "none", "run", "stop" or "freed"
  screen, \* the test whose status line is on the screen, or -1: in_status_line
  late    \* ghost: status lines printed for a test that has been stopped

threadVars == <<thread, flag, screen, late>>

NoStatus == 0 - 1

ThreadsTypeOK ==
  /\ thread \in [Tests -> {"none", "test", "print", "sleep", "final", "gone"}]
  /\ flag \in [Tests -> {"none", "run", "stop", "freed"}]
  /\ screen \in Tests \cup {NoStatus}
  /\ late \in [Tests -> Nat]

ThreadsInit ==
  /\ thread = [t \in Tests |-> "none"]
  /\ flag = [t \in Tests |-> "none"]
  /\ screen = NoStatus
  /\ late = [t \in Tests |-> 0]

\* ThreadWorker::at_interval.
StartWorker(t) ==
  /\ thread' = [thread EXCEPT ![t] = "test"]
  /\ flag' = [flag EXCEPT ![t] = "run"]
  /\ UNCHANGED <<screen, late>>

\* Mutant: the flag is looked at after the message.
TestFlagLater(t) ==
  /\ thread[t] = "test"
  /\ thread' = [thread EXCEPT ![t] = "print"]
  /\ UNCHANGED <<flag, screen, late>>

TestFlag(t) ==
  /\ thread[t] = "test"
  /\ thread' = [thread EXCEPT ![t] = IF flag[t] = "stop" THEN "final" ELSE "print"]
  /\ UNCHANGED <<flag, screen, late>>

\* status_line, under the lock of the log. Nothing is printed when it is disabled.
PrintStatus(t, on) ==
  /\ thread[t] = "print"
  /\ thread' = [thread EXCEPT ![t] = "sleep"]
  /\ IF on
     THEN screen' = t /\ late' = [late EXCEPT ![t] = IF flag[t] = "stop" THEN @ + 1 ELSE @]
     ELSE UNCHANGED <<screen, late>>
  /\ UNCHANGED flag

\* Mutant: a worker that does not repeat (ThreadWorker::once).
WakeOnce(t) ==
  /\ thread[t] = "sleep"
  /\ thread' = [thread EXCEPT ![t] = "final"]
  /\ UNCHANGED <<flag, screen, late>>

Wake(t) ==
  /\ thread[t] = "sleep"
  /\ thread' = [thread EXCEPT ![t] = "test"]
  /\ UNCHANGED <<flag, screen, late>>

\* final_fn, and the flag is deleted.
EndThread(t) ==
  /\ thread[t] = "final"
  /\ thread' = [thread EXCEPT ![t] = "gone"]
  /\ flag' = [flag EXCEPT ![t] = "freed"]
  /\ UNCHANGED <<screen, late>>

\* ~ThreadWorker: the flag is written, whatever has become of it.
StopWorker(t) == flag' = [flag EXCEPT ![t] = "stop"]

\* check_status_line, in info.
ClearStatus == screen' = NoStatus

ThreadStep(t, on) == TestFlag(t) \/ PrintStatus(t, on) \/ Wake(t) \/ EndThread(t)
=============================================================================
