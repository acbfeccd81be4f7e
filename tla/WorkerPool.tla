----------------------------- MODULE WorkerPool -----------------------------
(***************************************************************************)
(* Running the tests in parallel: the master that forks the workers and    *)
(* hands out the tests (run_parallel), and the workers (run_worker), with  *)
(* two pipes for each (src/verilate/vsrc/testbench.cpp). What a test does  *)
(* is left to the module that composes this one: it ends or it aborts.     *)
(***************************************************************************)
EXTENDS Integers, FiniteSets

CONSTANTS
  Total,       \* test_list.size()
  WorkerCounts \* the values of -j to consider (bound)

ASSUME TotalAssumption  == Total \in Nat
ASSUME CountsAssumption == WorkerCounts \subseteq Nat /\ WorkerCounts # {}

VARIABLES
  nWorkers,   \* the argument of run_testbench
  pc,         \* the master: "fork", "loop", "wait" for the children, "return"
  spawned,
  ready,      \* what is left of the fd_set that select returned
  dispatched, exited, passed, failed,
  first,      \* workers that have not asked yet
  open,       \* workers with worker[j] >= 0
  reaping,    \* the child the last loop is at
  state,      \* the worker processes
  task,       \* the test each runs, or ran last
  request,    \* a character is in the pipe to the master
  command,    \* what is in the pipe to the worker
  runs,       \* ghosts: how often each test was started,
  ended       \* and the tests that came to their end

masterVars == <<pc, spawned, ready, dispatched, exited, passed, failed, first, open, reaping>>
workerVars == <<state, task, request, command, runs, ended>>
poolVars   == <<nWorkers, masterVars, workerVars>>

Workers == 1 .. nWorkers
Tests   == 0 .. Total - 1

\* What is in the pipe to a worker: nothing, the -1, or a test.
Empty == -2
Exit  == -1
Commands == {Empty, Exit} \cup Tests

States == {"unborn", "asking", "waiting", "running", "exiting", "zombie", "reaped"}
Dead   == {"zombie", "reaped"}

PoolTypeOK ==
  /\ nWorkers \in WorkerCounts
  /\ pc \in {"fork", "loop", "wait", "return"}
  /\ spawned \in 0 .. nWorkers
  /\ ready \subseteq Workers /\ first \subseteq Workers /\ open \subseteq Workers
  /\ dispatched \in 0 .. Total
  /\ exited \in Nat /\ passed \in Nat
  /\ failed \in BOOLEAN
  /\ reaping \in 1 .. nWorkers + 1
  /\ state \in [Workers -> States]
  /\ task \in [Workers -> {Empty} \cup Tests]
  /\ request \in [Workers -> BOOLEAN]
  /\ command \in [Workers -> Commands]
  /\ runs \in [Tests -> Nat]
  /\ ended \subseteq Tests

PoolInit ==
  /\ nWorkers \in WorkerCounts
  /\ pc = "fork" /\ spawned = 0 /\ ready = {} /\ reaping = 1
  /\ dispatched = 0 /\ exited = 0 /\ passed = 0 /\ failed = FALSE
  /\ first = Workers /\ open = {}
  /\ state = [j \in Workers |-> "unborn"]
  /\ task = [j \in Workers |-> Empty]
  /\ request = [j \in Workers |-> FALSE]
  /\ command = [j \in Workers |-> Empty]
  /\ runs = [t \in Tests |-> 0]
  /\ ended = {}

(***************************************************************************)
(* The master.                                                             *)
(***************************************************************************)
\* The master closes its copy of the child's ends before it forks the next one.
Fork ==
  /\ pc = "fork" /\ spawned < nWorkers
  /\ spawned' = spawned + 1
  /\ open' = open \cup {spawned'}
  /\ state' = [state EXCEPT ![spawned'] = "asking"]
  /\ UNCHANGED <<nWorkers, pc, ready, dispatched, exited, passed, failed, first, reaping,
                 task, request, command, runs, ended>>

EnterLoop ==
  /\ pc = "fork" /\ spawned = nWorkers
  /\ pc' = "loop"
  /\ UNCHANGED <<nWorkers, spawned, ready, dispatched, exited, passed, failed, first, open, reaping,
                 workerVars>>

\* There is something to read, or nobody is left who could write.
Readable == {j \in open : request[j] \/ state[j] \in Dead}

Select ==
  /\ pc = "loop" /\ ready = {} /\ ~failed /\ exited < nWorkers
  /\ Readable # {}
  /\ ready' = Readable
  /\ UNCHANGED <<nWorkers, pc, spawned, dispatched, exited, passed, failed, first, open, reaping,
                 workerVars>>

IsNext(j) == j \in ready /\ \A k \in ready : j <= k

\* Mutant: the first request counts like the others.
CountedAlways(j) == 1

\* A request says that the test before it has passed, unless it is the first one.
Counted(j) == IF j \in first THEN 0 ELSE 1

\* Mutant: the index of the next test is not advanced.
DispatchSticks(j) ==
  IF dispatched < Total
  THEN /\ command' = [command EXCEPT ![j] = dispatched]
       /\ UNCHANGED <<dispatched, open, exited>>
  ELSE /\ command' = [command EXCEPT ![j] = Exit]
       /\ open' = open \ {j}
       /\ exited' = exited + 1
       /\ UNCHANGED dispatched

\* The next test, or the -1 after which the master does not listen any more.
Dispatch(j) ==
  IF dispatched < Total
  THEN /\ command' = [command EXCEPT ![j] = dispatched]
       /\ dispatched' = dispatched + 1
       /\ UNCHANGED <<open, exited>>
  ELSE /\ command' = [command EXCEPT ![j] = Exit]
       /\ open' = open \ {j}
       /\ exited' = exited + 1
       /\ UNCHANGED dispatched

\* Mutant: the character stays in the pipe.
ReadRequestPeeks(j) == UNCHANGED request

ReadRequest(j) == request' = [request EXCEPT ![j] = FALSE]

Serve(j) ==
  /\ pc = "loop" /\ IsNext(j) /\ request[j]
  /\ ready' = ready \ {j}
  /\ ReadRequest(j)
  /\ first' = first \ {j}
  /\ passed' = passed + Counted(j)
  /\ Dispatch(j)
  /\ UNCHANGED <<nWorkers, pc, spawned, failed, reaping, state, task, runs, ended>>

\* Mutant: the loop goes on with the other workers.
SeeEndOfFileGoesOn(j) ==
  /\ pc = "loop" /\ IsNext(j) /\ ~request[j]
  /\ ready' = ready \ {j}
  /\ open' = open \ {j}
  /\ exited' = exited + 1
  /\ UNCHANGED <<nWorkers, pc, spawned, dispatched, passed, failed, first, reaping, workerVars>>

\* The child aborted: the master reads an end of file and gives up.
SeeEndOfFile(j) ==
  /\ pc = "loop" /\ IsNext(j) /\ ~request[j]
  /\ ready' = {}
  /\ failed' = TRUE
  /\ UNCHANGED <<nWorkers, pc, spawned, dispatched, exited, passed, first, open, reaping, workerVars>>

\* Mutant: a failure ends only the scan.
LeaveLoopWhenAllExited ==
  /\ pc = "loop" /\ ready = {} /\ exited >= nWorkers
  /\ pc' = "wait"
  /\ UNCHANGED <<nWorkers, spawned, ready, dispatched, exited, passed, failed, first, open, reaping,
                 workerVars>>

\* The pipes to the workers are closed.
LeaveLoop ==
  /\ pc = "loop" /\ ready = {} /\ (failed \/ exited >= nWorkers)
  /\ pc' = "wait"
  /\ UNCHANGED <<nWorkers, spawned, ready, dispatched, exited, passed, failed, first, open, reaping,
                 workerVars>>

\* waitpid returns when the child has ended.
Reap ==
  /\ pc = "wait" /\ reaping <= nWorkers
  /\ state[reaping] = "zombie"
  /\ state' = [state EXCEPT ![reaping] = "reaped"]
  /\ reaping' = reaping + 1
  /\ UNCHANGED <<nWorkers, pc, spawned, ready, dispatched, exited, passed, failed, first, open,
                 task, request, command, runs, ended>>

\* Mutant: after a failure a worker that is still alive is left alone.
KillSpares ==
  /\ pc = "wait" /\ reaping <= nWorkers
  /\ failed /\ state[reaping] \notin Dead
  /\ reaping' = reaping + 1
  /\ UNCHANGED <<nWorkers, pc, spawned, ready, dispatched, exited, passed, failed, first, open,
                 workerVars>>

\* After a failure a worker that is still alive is killed.
Kill ==
  /\ pc = "wait" /\ reaping <= nWorkers
  /\ failed /\ state[reaping] \notin Dead
  /\ state' = [state EXCEPT ![reaping] = "zombie"]
  /\ UNCHANGED <<nWorkers, masterVars, task, request, command, runs, ended>>

Return ==
  /\ pc = "wait" /\ reaping > nWorkers
  /\ pc' = "return"
  /\ UNCHANGED <<nWorkers, spawned, ready, dispatched, exited, passed, failed, first, open, reaping,
                 workerVars>>

(***************************************************************************)
(* A worker.                                                               *)
(***************************************************************************)
Ask(j) ==
  /\ state[j] = "asking"
  /\ state' = [state EXCEPT ![j] = "waiting"]
  /\ request' = [request EXCEPT ![j] = TRUE]
  /\ UNCHANGED <<nWorkers, masterVars, task, command, runs, ended>>

TakeTest(j) ==
  /\ state[j] = "waiting" /\ command[j] \in Tests
  /\ state' = [state EXCEPT ![j] = "running"]
  /\ task' = [task EXCEPT ![j] = command[j]]
  /\ command' = [command EXCEPT ![j] = Empty]
  /\ runs' = [runs EXCEPT ![command[j]] = @ + 1]
  /\ UNCHANGED <<nWorkers, masterVars, request, ended>>

\* The younger workers have inherited the master's end of the pipe, so it takes
\* their end too before this one reads an end of file.
HungUp(j) == pc \in {"wait", "return"} /\ \A k \in Workers : k > j => state[k] \in Dead

TakeExit(j) ==
  /\ state[j] = "waiting"
  /\ command[j] = Exit \/ (command[j] = Empty /\ HungUp(j))
  /\ state' = [state EXCEPT ![j] = "exiting"]
  /\ command' = [command EXCEPT ![j] = Empty]
  /\ UNCHANGED <<nWorkers, masterVars, task, request, runs, ended>>

EndTest(j) ==
  /\ state[j] = "running"
  /\ state' = [state EXCEPT ![j] = "asking"]
  /\ ended' = ended \cup {task[j]}
  /\ UNCHANGED <<nWorkers, masterVars, task, request, command, runs>>

\* An assertion of the test fails: abort().
AbortTest(j) ==
  /\ state[j] = "running"
  /\ state' = [state EXCEPT ![j] = "zombie"]
  /\ UNCHANGED <<nWorkers, masterVars, task, request, command, runs, ended>>

ExitWorker(j) ==
  /\ state[j] = "exiting"
  /\ state' = [state EXCEPT ![j] = "zombie"]
  /\ UNCHANGED <<nWorkers, masterVars, task, request, command, runs, ended>>

Master ==
  \/ Fork \/ EnterLoop \/ Select \/ LeaveLoop \/ Reap \/ Kill \/ Return
  \/ \E j \in Workers : Serve(j) \/ SeeEndOfFile(j)

\* What a worker does between two tests.
BetweenTests(j) == Ask(j) \/ TakeExit(j) \/ ExitWorker(j)

PoolNext ==
  \/ Master
  \/ \E j \in Workers : BetweenTests(j) \/ TakeTest(j) \/ EndTest(j) \/ AbortTest(j)

PoolSpec == PoolInit /\ [][PoolNext]_poolVars

(***************************************************************************)
(* Properties.                                                             *)
(***************************************************************************)
\* Two workers never get the same test, however their requests and the scans of
\* the master interleave (testbench.cpp:161-166).
TestsRunOnce == \A t \in Tests : runs[t] <= 1

\* The master writes only to a worker that is there to read (testbench.cpp:163; it
\* would die of SIGPIPE otherwise): a worker with an unread request has not ended
\* while the master listens, and its pipe is empty.
RequestsAreWaitedFor ==
  pc \in {"fork", "loop"} =>
    \A j \in Workers : request[j] => state[j] = "waiting" /\ command[j] = Empty /\ j \in open

\* The result is honest: the master reports a failure exactly when a test
\* aborted, and otherwise every test has come to its end and has been counted
\* (testbench.cpp:149-159). With -j 0 there is nobody to run a test, and none fails.
ReportIsHonest ==
  /\ passed <= Cardinality(ended)
  /\ pc = "return" /\ failed => \E t \in Tests : runs[t] > 0 /\ t \notin ended
  /\ pc = "return" /\ ~failed /\ nWorkers # 0 => ended = Tests /\ passed = Total

\* When the run is over all children have ended and been waited for, those of a
\* failed run too, whatever they were doing (testbench.cpp:185-195).
NobodyLeft == pc = "return" => \A j \in Workers : state[j] = "reaped"
=============================================================================
