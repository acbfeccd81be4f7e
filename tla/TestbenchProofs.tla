--------------------------- MODULE TestbenchProofs ---------------------------
(***************************************************************************)
(* Proofs about running the tests, for any number of workers, tests and    *)
(* plugins: the pool of workers, then the hooks of the tests, then the     *)
(* threads that show the status.                                           *)
(***************************************************************************)
EXTENDS Testbench, FiniteSetTheorems, SequenceTheorems, TLAPS

Listening == pc \in {"fork", "loop"}

\* A test that was started and will never end.
Lost(t) ==
  /\ t \in Tests /\ runs[t] = 1 /\ t \notin ended
  /\ \A j \in Workers : state[j] = "running" => task[j] # t

\* Workers that have finished a test and have not been counted for it.
Pending == {j \in open : j \notin first /\ state[j] \in {"asking", "waiting"} /\ command[j] = Empty}

Births ==
  /\ pc # "fork" => spawned = nWorkers
  /\ \A j \in Workers : state[j] = "unborn" <=> j > spawned
  /\ open \subseteq 1 .. spawned

Phases ==
  /\ ready \subseteq open
  /\ pc # "loop" \/ failed => ready = {}
  /\ pc = "fork" => ~failed
  /\ Listening => reaping = 1 /\ \A j \in Workers : state[j] # "reaped"
  /\ \A j \in Workers : j < reaping => state[j] = "reaped"
  /\ pc = "return" => reaping = nWorkers + 1

\* What is in the pipes fits what the processes at their ends do.
Pipes ==
  /\ Listening =>
       \A j \in Workers :
         /\ request[j] => state[j] = "waiting" /\ command[j] = Empty /\ j \in open
         /\ command[j] # Empty => state[j] = "waiting"
         /\ j \in open => command[j] # Exit /\ state[j] # "exiting"
         /\ j \in ready => request[j] \/ state[j] = "zombie"
         /\ j \in open /\ state[j] = "zombie" => Lost(task[j])
         /\ state[j] = "unborn" => j \in first
         /\ j \in first => state[j] \in {"unborn", "asking", "waiting"} /\ command[j] = Empty
  /\ \A j \in 1 .. spawned :
       j \notin open => state[j] \in {"waiting", "exiting", "zombie", "reaped"} /\ command[j] \notin Tests

\* Each test is handed out once: it is not dispatched yet, or in one pipe, or was
\* started once.
Handout ==
  /\ \A t \in Tests : runs[t] <= 1 /\ (t >= dispatched => runs[t] = 0)
  /\ \A j \in Workers : command[j] \in Tests =>
       /\ command[j] < dispatched /\ runs[command[j]] = 0
       /\ \A k \in Workers : k # j => command[k] # command[j]
  /\ \A j \in Workers : state[j] = "running" =>
       /\ task[j] \in Tests /\ runs[task[j]] = 1 /\ task[j] \notin ended
       /\ \A k \in Workers : k # j /\ state[k] = "running" => task[k] # task[j]
  /\ \A t \in ended : runs[t] = 1

\* No test is forgotten.
Kept ==
  /\ failed => \E t \in Tests : Lost(t)
  /\ Listening /\ ~failed => \A t \in Tests : t < dispatched /\ t \notin ended =>
       \E j \in open : command[j] = t \/ (task[j] = t /\ state[j] \in {"running", "zombie"})
  /\ ~Listening /\ ~failed => open = {} /\ (nWorkers # 0 => ended = Tests)

Counts ==
  /\ Cardinality(open) + exited = spawned
  /\ exited > 0 => dispatched = Total
  /\ Listening => passed + Cardinality(Pending) = Cardinality(ended)
  /\ ~Listening => passed <= Cardinality(ended) /\ (~failed => passed = Cardinality(ended))

PoolInv == PoolTypeOK /\ Births /\ Phases /\ Pipes /\ Handout /\ Kept /\ Counts

(***************************************************************************)
(* PoolInv is inductive: one lemma for each of its parts.                  *)
(***************************************************************************)
LEMMA OpenIsFinite == PoolInv => IsFiniteSet(open) /\ Cardinality(open) \in Nat
<1> SUFFICES ASSUME PoolInv PROVE IsFiniteSet(open) /\ Cardinality(open) \in Nat
  OBVIOUS
<1>1. open \subseteq 1 .. nWorkers /\ nWorkers \in Nat
  BY CountsAssumption DEF PoolInv, PoolTypeOK, Workers
<1>2. IsFiniteSet(1 .. nWorkers)
  BY <1>1, FS_Interval
<1>3. IsFiniteSet(open)
  BY <1>1, <1>2, FS_Subset
<1> QED
  BY <1>3, FS_CardinalityType

\* Typing: what is started and ended is a test, what is dispatched and reaped stays in range.
LEMMA PoolTypeOKStep == PoolInv /\ PoolNext => PoolTypeOK'
<1> SUFFICES ASSUME PoolInv, PoolNext PROVE PoolTypeOK'
  OBVIOUS
<1> USE TotalAssumption, CountsAssumption DEF PoolInv, PoolTypeOK, Phases, Workers, Tests,
      Commands, Empty, Exit, States
<1>1. CASE Fork
  BY <1>1 DEF Fork
<1>2. CASE EnterLoop
  BY <1>2 DEF EnterLoop, workerVars
<1>3. CASE Select
  <2>1. Readable \subseteq Workers
    BY DEF Readable
  <2> QED
    BY <1>3, <2>1 DEF Select, masterVars, workerVars
<1>4. ASSUME NEW j \in Workers, Serve(j) PROVE PoolTypeOK'
  <2>1. CASE dispatched < Total
    <3>1. command' = [command EXCEPT ![j] = dispatched] /\ dispatched \in Tests
      BY <1>4, <2>1 DEF Serve, Dispatch
    <3>2. dispatched' = dispatched + 1 /\ UNCHANGED <<open, exited>>
      BY <1>4, <2>1 DEF Serve, Dispatch
    <3>3. passed' = passed \/ passed' = passed + 1
      BY <1>4 DEF Serve, Counted
    <3> QED
      BY <1>4, <2>1, <3>1, <3>2, <3>3 DEF Serve, ReadRequest
  <2>2. CASE ~(dispatched < Total)
    <3>1. command' = [command EXCEPT ![j] = Exit]
      BY <1>4, <2>2 DEF Serve, Dispatch
    <3>2. dispatched' = dispatched /\ open' = open \ {j} /\ exited' = exited + 1
      BY <1>4, <2>2 DEF Serve, Dispatch
    <3>3. passed' = passed \/ passed' = passed + 1
      BY <1>4 DEF Serve, Counted
    <3> QED
      BY <1>4, <2>2, <3>1, <3>2, <3>3 DEF Serve, ReadRequest
  <2> QED
    BY <2>1, <2>2
<1>5. ASSUME NEW j \in Workers, SeeEndOfFile(j) PROVE PoolTypeOK'
  BY <1>5 DEF SeeEndOfFile, IsNext, workerVars
<1>6. CASE LeaveLoop
  BY <1>6 DEF LeaveLoop, workerVars
<1>7. CASE Reap
  BY <1>7 DEF Reap
<1>8. CASE Kill
  BY <1>8 DEF Kill, Dead, masterVars
<1>9. CASE Return
  BY <1>9 DEF Return, workerVars
<1>10. ASSUME NEW j \in Workers, Ask(j) PROVE PoolTypeOK'
  BY <1>10 DEF Ask, masterVars
<1>11. ASSUME NEW j \in Workers, TakeTest(j) PROVE PoolTypeOK'
  BY <1>11 DEF TakeTest, masterVars
<1>12. ASSUME NEW j \in Workers, TakeExit(j) PROVE PoolTypeOK'
  BY <1>12 DEF TakeExit, HungUp, Dead, masterVars
<1>13. ASSUME NEW j \in Workers, EndTest(j) PROVE PoolTypeOK'
  <2>1. task[j] \in Tests
    BY <1>13 DEF EndTest, Handout
  <2>2. UNCHANGED <<nWorkers, masterVars, task, request, command, runs>>
    BY <1>13 DEF EndTest
  <2> QED
    BY <1>13, <2>1, <2>2 DEF EndTest, masterVars
<1>14. ASSUME NEW j \in Workers, AbortTest(j) PROVE PoolTypeOK'
  BY <1>14 DEF AbortTest, masterVars
<1>15. ASSUME NEW j \in Workers, ExitWorker(j) PROVE PoolTypeOK'
  BY <1>15 DEF ExitWorker, masterVars
<1> QED
  BY <1>1, <1>2, <1>3, <1>4, <1>5, <1>6, <1>7, <1>8, <1>9, <1>10, <1>11, <1>12, <1>13, <1>14,
     <1>15 DEF PoolNext, Master, BetweenTests

\* The workers are forked in order, and the master listens to those it has forked.
LEMMA BirthsStep == PoolInv /\ PoolNext => Births'
<1> SUFFICES ASSUME PoolInv, PoolNext PROVE Births'
  OBVIOUS
<1> USE TotalAssumption, CountsAssumption DEF PoolInv, PoolTypeOK, Births, Phases, Workers, States
<1>1. CASE Fork
  BY <1>1 DEF Fork
<1>2. CASE EnterLoop
  BY <1>2 DEF EnterLoop, workerVars
<1>3. CASE Select
  BY <1>3 DEF Select, Readable, Dead, workerVars
<1>4. ASSUME NEW j \in Workers, Serve(j) PROVE Births'
  <2>1. open' \subseteq open
    BY <1>4 DEF Serve, Dispatch
  <2> QED
    BY <1>4, <2>1 DEF Serve, masterVars, workerVars
<1>5. ASSUME NEW j \in Workers, SeeEndOfFile(j) PROVE Births'
  BY <1>5 DEF SeeEndOfFile, IsNext, workerVars
<1>6. CASE LeaveLoop
  BY <1>6 DEF LeaveLoop, workerVars
<1>7. CASE Reap
  BY <1>7 DEF Reap
<1>8. CASE Kill
  BY <1>8 DEF Kill, Dead, masterVars
<1>9. CASE Return
  BY <1>9 DEF Return, workerVars
<1>10. ASSUME NEW j \in Workers, Ask(j) PROVE Births'
  BY <1>10 DEF Ask, masterVars
<1>11. ASSUME NEW j \in Workers, TakeTest(j) PROVE Births'
  BY <1>11 DEF TakeTest, masterVars
<1>12. ASSUME NEW j \in Workers, TakeExit(j) PROVE Births'
  BY <1>12 DEF TakeExit, HungUp, Dead, masterVars
<1>13. ASSUME NEW j \in Workers, EndTest(j) PROVE Births'
  BY <1>13 DEF EndTest, masterVars
<1>14. ASSUME NEW j \in Workers, AbortTest(j) PROVE Births'
  BY <1>14 DEF AbortTest, masterVars
<1>15. ASSUME NEW j \in Workers, ExitWorker(j) PROVE Births'
  BY <1>15 DEF ExitWorker, masterVars
<1> QED
  BY <1>1, <1>2, <1>3, <1>4, <1>5, <1>6, <1>7, <1>8, <1>9, <1>10, <1>11, <1>12, <1>13, <1>14,
     <1>15 DEF PoolNext, Master, BetweenTests

\* What select found ready is open, and the children are reaped in order, after the loop.
LEMMA PhasesStep == PoolInv /\ PoolNext => Phases'
<1> SUFFICES ASSUME PoolInv, PoolNext PROVE Phases'
  OBVIOUS
<1> USE TotalAssumption, CountsAssumption DEF PoolInv, PoolTypeOK, Births, Phases, Workers,
      Listening, States
<1>1. CASE Fork
  BY <1>1 DEF Fork
<1>2. CASE EnterLoop
  BY <1>2 DEF EnterLoop, workerVars
<1>3. CASE Select
  BY <1>3 DEF Select, Readable, Dead, workerVars
<1>4. ASSUME NEW j \in Workers, Serve(j) PROVE Phases'
  BY <1>4 DEF Serve, IsNext, Counted, ReadRequest, Dispatch
<1>5. ASSUME NEW j \in Workers, SeeEndOfFile(j) PROVE Phases'
  BY <1>5 DEF SeeEndOfFile, IsNext, workerVars
<1>6. CASE LeaveLoop
  BY <1>6 DEF LeaveLoop, workerVars
<1>7. CASE Reap
  BY <1>7 DEF Reap
<1>8. CASE Kill
  BY <1>8 DEF Kill, Dead, masterVars
<1>9. CASE Return
  BY <1>9 DEF Return, workerVars
<1>10. ASSUME NEW j \in Workers, Ask(j) PROVE Phases'
  BY <1>10 DEF Ask, masterVars
<1>11. ASSUME NEW j \in Workers, TakeTest(j) PROVE Phases'
  BY <1>11 DEF TakeTest, masterVars
<1>12. ASSUME NEW j \in Workers, TakeExit(j) PROVE Phases'
  BY <1>12 DEF TakeExit, HungUp, Dead, masterVars
<1>13. ASSUME NEW j \in Workers, EndTest(j) PROVE Phases'
  BY <1>13 DEF EndTest, masterVars
<1>14. ASSUME NEW j \in Workers, AbortTest(j) PROVE Phases'
  BY <1>14 DEF AbortTest, masterVars
<1>15. ASSUME NEW j \in Workers, ExitWorker(j) PROVE Phases'
  BY <1>15 DEF ExitWorker, masterVars
<1> QED
  BY <1>1, <1>2, <1>3, <1>4, <1>5, <1>6, <1>7, <1>8, <1>9, <1>10, <1>11, <1>12, <1>13, <1>14,
     <1>15 DEF PoolNext, Master, BetweenTests

\* The pipes and the processes fit: a request is answered before the worker does anything else.
LEMMA PipesStep == PoolInv /\ PoolNext => Pipes'
<1> SUFFICES ASSUME PoolInv, PoolNext PROVE Pipes'
  OBVIOUS
<1> USE TotalAssumption, CountsAssumption DEF PoolInv, PoolTypeOK, Births, Phases, Pipes,
      Handout, Workers, Tests, Commands, Empty, Exit, Listening, Lost, States
<1>1. CASE Fork
  BY <1>1 DEF Fork
<1>2. CASE EnterLoop
  BY <1>2 DEF EnterLoop, workerVars
<1>3. CASE Select
  BY <1>3 DEF Select, Readable, Dead, workerVars
<1>4. ASSUME NEW j \in Workers, Serve(j) PROVE Pipes'
  <2>1. request[j] /\ j \in open /\ Listening /\ state[j] = "waiting" /\ command[j] = Empty
    BY <1>4 DEF Serve, IsNext
  <2>2. Listening' /\ UNCHANGED <<nWorkers, spawned, state, task, runs, ended>>
    BY <1>4 DEF Serve
  <2>3. ready' = ready \ {j} /\ request' = [request EXCEPT ![j] = FALSE] /\ first' = first \ {j}
    BY <1>4 DEF Serve, ReadRequest
  <2>4. CASE dispatched < Total
    <3>1. command' = [command EXCEPT ![j] = dispatched] /\ dispatched \in Tests /\ open' = open
      BY <1>4, <2>4 DEF Serve, Dispatch
    <3> QED
      BY <2>1, <2>2, <2>3, <3>1
  <2>5. CASE ~(dispatched < Total)
    <3>1. command' = [command EXCEPT ![j] = Exit] /\ open' = open \ {j}
      BY <1>4, <2>5 DEF Serve, Dispatch
    <3> QED
      BY <2>1, <2>2, <2>3, <3>1
  <2> QED
    BY <2>4, <2>5
<1>5. ASSUME NEW j \in Workers, SeeEndOfFile(j) PROVE Pipes'
  BY <1>5 DEF SeeEndOfFile, IsNext, workerVars
<1>6. CASE LeaveLoop
  BY <1>6 DEF LeaveLoop, workerVars
<1>7. CASE Reap
  BY <1>7 DEF Reap
<1>8. CASE Kill
  BY <1>8 DEF Kill, Dead, masterVars
<1>9. CASE Return
  BY <1>9 DEF Return, workerVars
<1>10. ASSUME NEW j \in Workers, Ask(j) PROVE Pipes'
  BY <1>10 DEF Ask, masterVars
<1>11. ASSUME NEW j \in Workers, TakeTest(j) PROVE Pipes'
  BY <1>11 DEF TakeTest, masterVars
<1>12. ASSUME NEW j \in Workers, TakeExit(j) PROVE Pipes'
  <2>1. state[j] = "waiting" /\ state' = [state EXCEPT ![j] = "exiting"]
    BY <1>12 DEF TakeExit
  <2>2. command' = [command EXCEPT ![j] = Empty] /\ (Listening => command[j] = Exit)
    BY <1>12 DEF TakeExit, HungUp
  <2>3. UNCHANGED <<nWorkers, masterVars, task, request, runs, ended>>
    BY <1>12 DEF TakeExit
  <2>4. Listening => j \notin open /\ j \notin first /\ ~request[j]
    BY <2>1, <2>2
  <2>5. \A t \in Tests : Lost(t) => Lost(t)'
    BY <2>1, <2>3
  <2> QED
    BY <2>1, <2>2, <2>3, <2>4, <2>5 DEF masterVars
<1>13. ASSUME NEW j \in Workers, EndTest(j) PROVE Pipes'
  BY <1>13 DEF EndTest, masterVars
<1>14. ASSUME NEW j \in Workers, AbortTest(j) PROVE Pipes'
  BY <1>14 DEF AbortTest, masterVars
<1>15. ASSUME NEW j \in Workers, ExitWorker(j) PROVE Pipes'
  <2>1. state[j] = "exiting" /\ state' = [state EXCEPT ![j] = "zombie"]
    BY <1>15 DEF ExitWorker
  <2>2. UNCHANGED <<nWorkers, masterVars, task, request, command, runs, ended>>
    BY <1>15 DEF ExitWorker
  <2>3. Listening => j \notin open /\ j \notin first
    BY <2>1
  <2>4. \A t \in Tests : Lost(t) => Lost(t)'
    BY <2>1, <2>2
  <2> QED
    BY <2>1, <2>2, <2>3, <2>4 DEF masterVars
<1> QED
  BY <1>1, <1>2, <1>3, <1>4, <1>5, <1>6, <1>7, <1>8, <1>9, <1>10, <1>11, <1>12, <1>13, <1>14,
     <1>15 DEF PoolNext, Master, BetweenTests

\* A test is in one pipe, or was started by one worker, or is not dispatched yet.
LEMMA HandoutStep == PoolInv /\ PoolNext => Handout'
<1> SUFFICES ASSUME PoolInv, PoolNext PROVE Handout'
  OBVIOUS
<1> USE TotalAssumption, CountsAssumption DEF PoolInv, PoolTypeOK, Births, Phases, Pipes,
      Handout, Workers, Tests, Commands, Empty, Exit, Listening, States
<1>1. CASE Fork
  BY <1>1 DEF Fork
<1>2. CASE EnterLoop
  BY <1>2 DEF EnterLoop, workerVars
<1>3. CASE Select
  BY <1>3 DEF Select, Readable, Dead, workerVars
<1>4. ASSUME NEW j \in Workers, Serve(j) PROVE Handout'
  <2>1. command[j] = Empty /\ UNCHANGED <<nWorkers, state, task, runs, ended>>
    BY <1>4 DEF Serve, IsNext
  <2>2. CASE dispatched < Total
    <3>1. command' = [command EXCEPT ![j] = dispatched] /\ dispatched' = dispatched + 1
      BY <1>4, <2>2 DEF Serve, Dispatch
    <3>2. dispatched \in Tests /\ runs[dispatched] = 0
      BY <2>2
    <3>3. ASSUME NEW k \in Workers PROVE command[k] # dispatched
      BY <3>2
    <3> QED
      BY <2>1, <3>1, <3>2, <3>3
  <2>3. CASE ~(dispatched < Total)
    <3>1. command' = [command EXCEPT ![j] = Exit] /\ dispatched' = dispatched
      BY <1>4, <2>3 DEF Serve, Dispatch
    <3> QED
      BY <2>1, <3>1
  <2> QED
    BY <2>2, <2>3
<1>5. ASSUME NEW j \in Workers, SeeEndOfFile(j) PROVE Handout'
  BY <1>5 DEF SeeEndOfFile, IsNext, workerVars
<1>6. CASE LeaveLoop
  BY <1>6 DEF LeaveLoop, workerVars
<1>7. CASE Reap
  BY <1>7 DEF Reap
<1>8. CASE Kill
  BY <1>8 DEF Kill, Dead, masterVars
<1>9. CASE Return
  BY <1>9 DEF Return, workerVars
<1>10. ASSUME NEW j \in Workers, Ask(j) PROVE Handout'
  BY <1>10 DEF Ask, masterVars
<1>11. ASSUME NEW j \in Workers, TakeTest(j) PROVE Handout'
  <2> DEFINE t == command[j]
  <2>1. t \in Tests /\ runs[t] = 0 /\ t < dispatched /\ state[j] = "waiting"
    BY <1>11 DEF TakeTest
  <2>2. UNCHANGED <<nWorkers, dispatched, ended>> /\ command' = [command EXCEPT ![j] = Empty]
    BY <1>11 DEF TakeTest, masterVars
  <2>3. state' = [state EXCEPT ![j] = "running"] /\ task' = [task EXCEPT ![j] = t]
    BY <1>11 DEF TakeTest
  <2>4. runs' = [runs EXCEPT ![t] = 1]
    BY <1>11, <2>1 DEF TakeTest
  <2> HIDE DEF t
  <2>5. \A k \in Workers : k # j => command[k] # t
    BY <2>1 DEF t
  <2>6. \A k \in Workers : state[k] = "running" => task[k] # t
    BY <2>1
  <2>7. (\A u \in Tests : runs[u] <= 1 /\ (u >= dispatched => runs[u] = 0))'
    BY <2>1, <2>2, <2>4
  <2>8. (\A k \in Workers : command[k] \in Tests =>
           /\ command[k] < dispatched /\ runs[command[k]] = 0
           /\ \A l \in Workers : l # k => command[l] # command[k])'
    BY <2>1, <2>2, <2>4, <2>5
  <2>9. (\A k \in Workers : state[k] = "running" =>
           /\ task[k] \in Tests /\ runs[task[k]] = 1 /\ task[k] \notin ended
           /\ \A l \in Workers : l # k /\ state[l] = "running" => task[l] # task[k])'
    BY <2>1, <2>2, <2>3, <2>4, <2>6
  <2>10. (\A u \in ended : runs[u] = 1)'
    BY <2>1, <2>2, <2>4
  <2> QED
    BY <2>7, <2>8, <2>9, <2>10
<1>12. ASSUME NEW j \in Workers, TakeExit(j) PROVE Handout'
  BY <1>12 DEF TakeExit, HungUp, Dead, masterVars
<1>13. ASSUME NEW j \in Workers, EndTest(j) PROVE Handout'
  BY <1>13 DEF EndTest, masterVars
<1>14. ASSUME NEW j \in Workers, AbortTest(j) PROVE Handout'
  BY <1>14 DEF AbortTest, masterVars
<1>15. ASSUME NEW j \in Workers, ExitWorker(j) PROVE Handout'
  BY <1>15 DEF ExitWorker, masterVars
<1> QED
  BY <1>1, <1>2, <1>3, <1>4, <1>5, <1>6, <1>7, <1>8, <1>9, <1>10, <1>11, <1>12, <1>13, <1>14,
     <1>15 DEF PoolNext, Master, BetweenTests

\* A dispatched test is in a pipe, or with a worker the master still listens to, or has ended.
LEMMA KeptStep == PoolInv /\ PoolNext => Kept'
<1> SUFFICES ASSUME PoolInv, PoolNext PROVE Kept'
  OBVIOUS
<1> USE TotalAssumption, CountsAssumption DEF PoolInv, PoolTypeOK, Births, Phases, Pipes,
      Handout, Kept, Workers, Tests, Commands, Empty, Exit, Listening, Lost, States
<1>1. CASE Fork
  BY <1>1 DEF Fork
<1>2. CASE EnterLoop
  BY <1>2 DEF EnterLoop, workerVars
<1>3. CASE Select
  BY <1>3 DEF Select, Readable, Dead, workerVars
<1>4. ASSUME NEW j \in Workers, Serve(j) PROVE Kept'
  <2>1. request[j] /\ j \in open /\ Listening /\ ~failed /\ state[j] = "waiting" /\ command[j] = Empty
    BY <1>4 DEF Serve, IsNext
  <2>2. Listening' /\ ~failed' /\ UNCHANGED <<nWorkers, state, task, ended>>
    BY <1>4, <2>1 DEF Serve
  <2>3. (Listening /\ ~failed => \A t \in Tests : t < dispatched /\ t \notin ended =>
          \E k \in open : command[k] = t \/ (task[k] = t /\ state[k] \in {"running", "zombie"}))'
    <3> SUFFICES ASSUME NEW t \in Tests, t < dispatched', t \notin ended
                 PROVE \E k \in open' : command'[k] = t \/ (task[k] = t /\ state[k] \in {"running", "zombie"})
      BY <2>2
    <3>1. CASE dispatched < Total
      <4>1. command' = [command EXCEPT ![j] = dispatched] /\ dispatched' = dispatched + 1 /\ open' = open
        BY <1>4, <3>1 DEF Serve, Dispatch
      <4>2. CASE t = dispatched
        BY <2>1, <4>1, <4>2
      <4>3. CASE t < dispatched
        <5>1. PICK k \in open : command[k] = t \/ (task[k] = t /\ state[k] \in {"running", "zombie"})
          BY <2>1, <4>3
        <5> QED
          BY <2>1, <4>1, <5>1
      <4> QED
        BY <4>1, <4>2, <4>3
    <3>2. CASE ~(dispatched < Total)
      <4>1. command' = [command EXCEPT ![j] = Exit] /\ dispatched' = dispatched /\ open' = open \ {j}
        BY <1>4, <3>2 DEF Serve, Dispatch
      <4>2. PICK k \in open : command[k] = t \/ (task[k] = t /\ state[k] \in {"running", "zombie"})
        BY <2>1, <4>1
      <4> QED
        BY <2>1, <4>1, <4>2
    <3> QED
      BY <3>1, <3>2
  <2> QED
    BY <2>2, <2>3
<1>5. ASSUME NEW j \in Workers, SeeEndOfFile(j) PROVE Kept'
  BY <1>5 DEF SeeEndOfFile, IsNext, workerVars
<1>6. CASE LeaveLoop
  <2>1. Listening /\ ~Listening' /\ UNCHANGED <<workerVars, nWorkers, open, failed, dispatched>>
    BY <1>6 DEF LeaveLoop
  <2>2. CASE failed
    <3>1. PICK t \in Tests : Lost(t)
      BY <2>2
    <3>2. Lost(t)'
      BY <2>1, <3>1 DEF workerVars
    <3> QED
      BY <2>1, <2>2, <3>2
  <2>3. CASE ~failed
    <3>1. exited >= nWorkers /\ spawned = nWorkers
      BY <1>6, <2>3 DEF LeaveLoop
    <3>2. open = {}
      <4>1. exited \in Nat /\ nWorkers \in Nat /\ Cardinality(open) + exited = spawned
        BY DEF Counts
      <4>2. Cardinality(open) = 0
        BY <3>1, <4>1, OpenIsFinite
      <4> QED
        BY <4>2, OpenIsFinite, FS_EmptySet
    <3>3. nWorkers # 0 => dispatched = Total
      BY <3>1 DEF Counts
    <3>4. nWorkers # 0 => ended = Tests
      <4>1. Listening /\ ~failed
        BY <2>1, <2>3
      <4>2. ASSUME nWorkers # 0, NEW t \in Tests PROVE t \in ended
        BY <3>2, <3>3, <4>1, <4>2
      <4> QED
        BY <4>2
    <3> QED
      BY <2>1, <2>3, <3>2, <3>4 DEF workerVars
  <2> QED
    BY <2>2, <2>3
<1>7. CASE Reap
  BY <1>7 DEF Reap
<1>8. CASE Kill
  BY <1>8 DEF Kill, Dead, masterVars
<1>9. CASE Return
  BY <1>9 DEF Return, workerVars
<1>10. ASSUME NEW j \in Workers, Ask(j) PROVE Kept'
  <2> USE <1>10 DEF Ask, masterVars
  <2>1. (failed => \E t \in Tests : Lost(t))'
    <3> SUFFICES ASSUME failed PROVE \E t \in Tests : Lost(t)'
      OBVIOUS
    <3>1. PICK t \in Tests : Lost(t)
      OBVIOUS
    <3>2. Lost(t)'
      BY <3>1
    <3> QED
      BY <3>2
  <2>2. (Listening /\ ~failed => \A t \in Tests : t < dispatched /\ t \notin ended =>
          \E k \in open : command[k] = t \/ (task[k] = t /\ state[k] \in {"running", "zombie"}))'
    <3> SUFFICES ASSUME Listening, ~failed, NEW t \in Tests, t < dispatched, t \notin ended
                 PROVE \E k \in open : command[k] = t \/ (task[k] = t /\ state'[k] \in {"running", "zombie"})
      OBVIOUS
    <3>1. PICK k \in open : command[k] = t \/ (task[k] = t /\ state[k] \in {"running", "zombie"})
      OBVIOUS
    <3>2. command[k] = t \/ (task[k] = t /\ state'[k] \in {"running", "zombie"})
      BY <3>1
    <3> QED
      BY <3>2
  <2>3. (~Listening /\ ~failed => open = {} /\ (nWorkers # 0 => ended = Tests))'
    OBVIOUS
  <2> QED
    BY <2>1, <2>2, <2>3
<1>11. ASSUME NEW j \in Workers, TakeTest(j) PROVE Kept'
  <2> USE <1>11 DEF TakeTest, masterVars
  <2>1. (failed => \E t \in Tests : Lost(t))'
    <3> SUFFICES ASSUME failed PROVE \E t \in Tests : Lost(t)'
      OBVIOUS
    <3>1. PICK t \in Tests : Lost(t)
      OBVIOUS
    <3>2. command[j] # t
      BY <3>1
    <3>3. Lost(t)'
      BY <3>1, <3>2
    <3> QED
      BY <3>3
  <2>2. (Listening /\ ~failed => \A t \in Tests : t < dispatched /\ t \notin ended =>
          \E k \in open : command[k] = t \/ (task[k] = t /\ state[k] \in {"running", "zombie"}))'
    <3> SUFFICES ASSUME Listening, ~failed, NEW t \in Tests, t < dispatched, t \notin ended
                 PROVE \E k \in open : command'[k] = t \/ (task'[k] = t /\ state'[k] \in {"running", "zombie"})
      OBVIOUS
    <3>1. PICK k \in open : command[k] = t \/ (task[k] = t /\ state[k] \in {"running", "zombie"})
      OBVIOUS
    <3>2. command'[k] = t \/ (task'[k] = t /\ state'[k] \in {"running", "zombie"})
      BY <3>1
    <3> QED
      BY <3>2
  <2>3. (~Listening /\ ~failed => open = {} /\ (nWorkers # 0 => ended = Tests))'
    OBVIOUS
  <2> QED
    BY <2>1, <2>2, <2>3
<1>12. ASSUME NEW j \in Workers, TakeExit(j) PROVE Kept'
  BY <1>12 DEF TakeExit, HungUp, Dead, masterVars
<1>13. ASSUME NEW j \in Workers, EndTest(j) PROVE Kept'
  BY <1>13 DEF EndTest, masterVars
<1>14. ASSUME NEW j \in Workers, AbortTest(j) PROVE Kept'
  BY <1>14 DEF AbortTest, masterVars
<1>15. ASSUME NEW j \in Workers, ExitWorker(j) PROVE Kept'
  BY <1>15 DEF ExitWorker, masterVars
<1> QED
  BY <1>1, <1>2, <1>3, <1>4, <1>5, <1>6, <1>7, <1>8, <1>9, <1>10, <1>11, <1>12, <1>13, <1>14,
     <1>15 DEF PoolNext, Master, BetweenTests

LEMMA EndedIsFinite == PoolInv => IsFiniteSet(ended) /\ Cardinality(ended) \in Nat
<1> SUFFICES ASSUME PoolInv PROVE IsFiniteSet(ended) /\ Cardinality(ended) \in Nat
  OBVIOUS
<1>1. ended \subseteq 0 .. Total - 1 /\ Total - 1 \in Int
  BY TotalAssumption DEF PoolInv, PoolTypeOK, Tests
<1>2. IsFiniteSet(0 .. Total - 1)
  BY <1>1, FS_Interval
<1>3. IsFiniteSet(ended)
  BY <1>1, <1>2, FS_Subset
<1> QED
  BY <1>3, FS_CardinalityType

LEMMA PendingIsFinite == PoolInv => IsFiniteSet(Pending) /\ Cardinality(Pending) \in Nat
<1> SUFFICES ASSUME PoolInv PROVE IsFiniteSet(Pending) /\ Cardinality(Pending) \in Nat
  OBVIOUS
<1>1. Pending \subseteq open
  BY DEF Pending
<1>2. IsFiniteSet(Pending)
  BY <1>1, OpenIsFinite, FS_Subset
<1> QED
  BY <1>2, FS_CardinalityType

\* What is counted: a worker that has finished a test asks for the next one once.
LEMMA CountsStep == PoolInv /\ PoolNext => Counts'
<1> SUFFICES ASSUME PoolInv, PoolNext PROVE Counts'
  OBVIOUS
<1> USE TotalAssumption, CountsAssumption DEF PoolInv, PoolTypeOK, Births, Phases, Pipes,
      Counts, Workers, States, Commands, Tests, Empty, Exit, Listening
<1>0. /\ IsFiniteSet(open) /\ Cardinality(open) \in Nat
      /\ IsFiniteSet(ended) /\ Cardinality(ended) \in Nat
      /\ IsFiniteSet(Pending) /\ Cardinality(Pending) \in Nat
  BY OpenIsFinite, EndedIsFinite, PendingIsFinite
<1>1. CASE Fork
  <2> DEFINE w == spawned + 1
  <2>1. w \in Workers /\ w \notin open /\ w \in first /\ state[w] = "unborn"
    BY <1>1 DEF Fork
  <2>2. open' = open \cup {w} /\ spawned' = w
    BY <1>1 DEF Fork
  <2>3. Cardinality(open') = Cardinality(open) + 1
    BY <1>0, <2>1, <2>2, FS_AddElement
  <2>4. UNCHANGED <<nWorkers, pc, failed, dispatched, exited, passed, ended, first, command>>
    BY <1>1 DEF Fork
  <2>5. state' = [state EXCEPT ![w] = "asking"]
    BY <1>1 DEF Fork
  <2>6. Pending' = Pending
    BY <2>1, <2>2, <2>4, <2>5 DEF Pending
  <2> QED
    BY <1>0, <2>2, <2>3, <2>4, <2>6
<1>2. CASE EnterLoop
  <2>1. Listening /\ Listening' /\ UNCHANGED <<open, ended, spawned, exited, dispatched, passed>>
    BY <1>2 DEF EnterLoop, workerVars
  <2>2. Pending' = Pending
    BY <1>2 DEF EnterLoop, Pending, workerVars
  <2> QED
    BY <2>1, <2>2
<1>3. CASE Select
  <2>1. Listening /\ Listening' /\ UNCHANGED <<open, ended, spawned, exited, dispatched, passed>>
    BY <1>3 DEF Select, workerVars
  <2>2. Pending' = Pending
    BY <1>3 DEF Select, Pending, workerVars
  <2> QED
    BY <2>1, <2>2
<1>4. ASSUME NEW j \in Workers, Serve(j) PROVE Counts'
  <2>1. Listening /\ Listening' /\ UNCHANGED <<nWorkers, spawned, state, ended>>
    BY <1>4 DEF Serve
  <2>2. request[j] /\ j \in open /\ state[j] = "waiting" /\ command[j] = Empty
    BY <1>4, <2>1 DEF Serve, IsNext
  <2>3. first' = first \ {j}
    BY <1>4 DEF Serve
  <2>4. Pending' = Pending \ {j}
    <3>1. CASE dispatched < Total
      <4>1. command' = [command EXCEPT ![j] = dispatched] /\ dispatched \in Tests /\ open' = open
        BY <1>4, <3>1 DEF Serve, Dispatch
      <4> QED
        BY <2>1, <2>3, <4>1 DEF Pending
    <3>2. CASE ~(dispatched < Total)
      <4>1. command' = [command EXCEPT ![j] = Exit] /\ open' = open \ {j}
        BY <1>4, <3>2 DEF Serve, Dispatch
      <4> QED
        BY <2>1, <2>3, <4>1 DEF Pending
    <3> QED
      BY <3>1, <3>2
  <2>5. passed' + Cardinality(Pending') = passed + Cardinality(Pending)
    <3>1. CASE j \in first
      <4>1. j \notin Pending /\ passed' = passed
        BY <1>4, <3>1 DEF Serve, Counted, Pending
      <4>2. Pending' = Pending
        BY <2>4, <4>1
      <4> QED
        BY <4>1, <4>2
    <3>2. CASE j \notin first
      <4>1. j \in Pending /\ passed' = passed + 1
        BY <1>4, <2>2, <3>2 DEF Serve, Counted, Pending
      <4>2. Cardinality(Pending') = Cardinality(Pending) - 1
        BY <1>0, <2>4, <4>1, FS_RemoveElement
      <4> QED
        BY <1>0, <4>1, <4>2
    <3> QED
      BY <3>1, <3>2
  <2>6. /\ Cardinality(open') + exited' = Cardinality(open) + exited
        /\ exited' > 0 => dispatched' = Total
    <3>1. CASE dispatched < Total
      BY <1>4, <3>1 DEF Serve, Dispatch
    <3>2. CASE ~(dispatched < Total)
      <4>1. open' = open \ {j} /\ exited' = exited + 1 /\ dispatched' = dispatched
        BY <1>4, <3>2 DEF Serve, Dispatch
      <4>2. Cardinality(open') = Cardinality(open) - 1
        BY <1>0, <2>2, <4>1, FS_RemoveElement
      <4> QED
        BY <1>0, <3>2, <4>1, <4>2
    <3> QED
      BY <3>1, <3>2
  <2> QED
    BY <2>1, <2>5, <2>6
<1>5. ASSUME NEW j \in Workers, SeeEndOfFile(j) PROVE Counts'
  <2>1. Listening /\ Listening' /\ UNCHANGED <<open, ended, spawned, exited, dispatched, passed>>
    BY <1>5 DEF SeeEndOfFile, workerVars
  <2>2. Pending' = Pending
    BY <1>5 DEF SeeEndOfFile, Pending, workerVars
  <2> QED
    BY <2>1, <2>2
<1>6. CASE LeaveLoop
  <2>1. Listening /\ ~Listening' /\ UNCHANGED <<open, ended, spawned, exited, dispatched, passed, failed>>
    BY <1>6 DEF LeaveLoop, workerVars
  <2>2. ASSUME ~failed PROVE Cardinality(Pending) = 0
    <3>1. exited >= nWorkers /\ spawned = nWorkers
      BY <1>6, <2>2 DEF LeaveLoop
    <3>2. Cardinality(open) = 0
      BY <1>0, <3>1
    <3>3. open = {}
      BY <1>0, <3>2, FS_EmptySet
    <3>4. Pending = {}
      BY <3>3 DEF Pending
    <3> QED
      BY <3>4, FS_EmptySet
  <2> QED
    BY <1>0, <2>1, <2>2
<1>7. CASE Reap
  BY <1>7 DEF Reap
<1>8. CASE Kill
  BY <1>8 DEF Kill, masterVars
<1>9. CASE Return
  BY <1>9 DEF Return, workerVars
<1>10. ASSUME NEW j \in Workers, Ask(j) PROVE Counts'
  <2>1. UNCHANGED <<pc, open, ended, spawned, exited, dispatched, passed, failed>>
    BY <1>10 DEF Ask, masterVars
  <2>2. Pending' = Pending
    BY <1>10 DEF Ask, Pending, masterVars
  <2> QED
    BY <2>1, <2>2
<1>11. ASSUME NEW j \in Workers, TakeTest(j) PROVE Counts'
  <2>1. UNCHANGED <<pc, open, ended, spawned, exited, dispatched, passed, failed>>
    BY <1>11 DEF TakeTest, masterVars
  <2>2. Pending' = Pending
    BY <1>11 DEF TakeTest, Pending, masterVars
  <2> QED
    BY <2>1, <2>2
<1>12. ASSUME NEW j \in Workers, TakeExit(j) PROVE Counts'
  <2>1. UNCHANGED <<pc, open, ended, spawned, exited, dispatched, passed, failed>>
    BY <1>12 DEF TakeExit, masterVars
  <2>2. Listening => j \notin open
    BY <1>12 DEF TakeExit, HungUp
  <2>3. Listening => Pending' = Pending
    BY <1>12, <2>2 DEF TakeExit, Pending, masterVars
  <2> QED
    BY <2>1, <2>3
<1>13. ASSUME NEW j \in Workers, EndTest(j) PROVE Counts'
  <2>1. UNCHANGED <<pc, open, spawned, exited, dispatched, passed, failed, first, command>>
    BY <1>13 DEF EndTest, masterVars
  <2>2. state[j] = "running" /\ j \in open
    <3>1. state[j] = "running"
      BY <1>13 DEF EndTest
    <3>2. j \in 1 .. spawned
      BY <3>1
    <3> QED
      BY <3>1, <3>2
  <2>3. state' = [state EXCEPT ![j] = "asking"]
    BY <1>13 DEF EndTest
  <2>4. ended' = ended \cup {task[j]} /\ task[j] \notin ended
    BY <1>13 DEF EndTest, Handout
  <2>5. Cardinality(ended') = Cardinality(ended) + 1
    BY <1>0, <2>4, FS_AddElement
  <2>6. CASE Listening
    <3>1. j \notin first /\ command[j] = Empty
      BY <2>2, <2>6
    <3>2. j \notin Pending /\ Pending' = Pending \cup {j}
      BY <2>1, <2>2, <2>3, <3>1 DEF Pending
    <3>3. Cardinality(Pending') = Cardinality(Pending) + 1
      BY <1>0, <3>2, FS_AddElement
    <3> QED
      BY <1>0, <2>1, <2>5, <2>6, <3>3
  <2>7. CASE ~Listening
    <3>1. failed
      BY <2>2, <2>7 DEF Kept
    <3> QED
      BY <1>0, <2>1, <2>5, <2>7, <3>1
  <2> QED
    BY <2>6, <2>7
<1>14. ASSUME NEW j \in Workers, AbortTest(j) PROVE Counts'
  <2>1. UNCHANGED <<pc, open, ended, spawned, exited, dispatched, passed, failed>>
    BY <1>14 DEF AbortTest, masterVars
  <2>2. Pending' = Pending
    BY <1>14 DEF AbortTest, Pending, masterVars
  <2> QED
    BY <2>1, <2>2
<1>15. ASSUME NEW j \in Workers, ExitWorker(j) PROVE Counts'
  <2>1. UNCHANGED <<pc, open, ended, spawned, exited, dispatched, passed, failed>>
    BY <1>15 DEF ExitWorker, masterVars
  <2>2. Pending' = Pending
    BY <1>15 DEF ExitWorker, Pending, masterVars
  <2> QED
    BY <2>1, <2>2
<1> QED
  BY <1>1, <1>2, <1>3, <1>4, <1>5, <1>6, <1>7, <1>8, <1>9, <1>10, <1>11, <1>12, <1>13, <1>14,
     <1>15 DEF PoolNext, Master, BetweenTests

(***************************************************************************)
(* The theorems about the pool.                                            *)
(***************************************************************************)
LEMMA PoolInitially == PoolInit => PoolInv
<1> SUFFICES ASSUME PoolInit PROVE PoolInv
  OBVIOUS
<1> USE TotalAssumption, CountsAssumption
<1>1. PoolTypeOK
  <2>1. nWorkers \in WorkerCounts /\ nWorkers \in Nat
    BY DEF PoolInit
  <2>2. spawned \in 0 .. nWorkers /\ dispatched \in 0 .. Total /\ reaping \in 1 .. nWorkers + 1
    BY <2>1 DEF PoolInit
  <2>3. /\ state \in [Workers -> States]
        /\ task \in [Workers -> {Empty} \cup Tests]
        /\ request \in [Workers -> BOOLEAN]
        /\ command \in [Workers -> Commands]
        /\ runs \in [Tests -> Nat]
    BY DEF PoolInit, States, Commands
  <2> QED
    BY <2>1, <2>2, <2>3 DEF PoolInit, PoolTypeOK
<1>2. Births /\ Phases
  BY DEF PoolInit, Births, Phases, Workers, Listening
<1>3. Pipes /\ Handout /\ Kept
  BY DEF PoolInit, Pipes, Handout, Kept, Workers, Tests, Commands, Empty, Exit, Listening
<1>4. open = {} /\ Pending = {} /\ ended = {}
  BY DEF PoolInit, Pending
<1>5. Counts
  BY <1>4, FS_EmptySet DEF PoolInit, Counts, Listening
<1> QED
  BY <1>1, <1>2, <1>3, <1>5 DEF PoolInv

LEMMA PoolStuttering == PoolInv /\ UNCHANGED poolVars => PoolInv'
BY DEF PoolInv, PoolTypeOK, Births, Phases, Pipes, Handout, Kept, Counts, Listening, Lost, Pending,
       Workers, Tests, poolVars, masterVars, workerVars

\* A step of the whole harness is a step of the pool or leaves it alone: with one
\* worker the pool is not used.
LEMMA StepsOfThePool == Next => PoolNext \/ UNCHANGED poolVars
<1> SUFFICES ASSUME Next PROVE PoolNext \/ UNCHANGED poolVars
  OBVIOUS
<1>1. CASE SerialNext \/ AbortSerial \/ ThreadRuns \/ ReportParallel
  BY <1>1 DEF SerialNext, StartSerial, StepSerial, EndSerial, StopSerial, ReportSerial, AbortSerial,
              ThreadRuns, ReportParallel
<1>2. CASE MasterStep
  BY <1>2 DEF MasterStep, PoolNext
<1>3. ASSUME NEW j \in Workers, WorkerStep(j) \/ WorkerFails(j) PROVE PoolNext \/ UNCHANGED poolVars
  BY <1>3 DEF WorkerStep, WorkerFails, PoolNext
<1> QED
  BY <1>1, <1>2, <1>3 DEF Next

LEMMA PoolInvStep == PoolInv /\ [Next]_vars => PoolInv'
<1> SUFFICES ASSUME PoolInv, PoolNext \/ UNCHANGED poolVars PROVE PoolInv'
  BY StepsOfThePool DEF vars
<1>1. CASE PoolNext
  BY <1>1, PoolTypeOKStep, BirthsStep, PhasesStep, PipesStep, HandoutStep, KeptStep, CountsStep
     DEF PoolInv
<1>2. CASE UNCHANGED poolVars
  BY <1>2, PoolStuttering
<1> QED
  BY <1>1, <1>2

\* The inductive invariant holds in every run of the harness.
THEOREM PoolInvariance == Spec => []PoolInv
<1>1. Init => PoolInv
  BY PoolInitially DEF Init
<1>2. PoolInv /\ [Next]_vars => PoolInv'
  BY PoolInvStep
<1> QED
  BY <1>1, <1>2, PTL DEF Spec

\* For any number of workers and tests no two workers get the same test
\* (testbench.cpp:161-166).
THEOREM TestsRunOnceAlways == Spec => []TestsRunOnce
<1>1. PoolInv => TestsRunOnce
  BY DEF PoolInv, Handout, TestsRunOnce
<1> QED
  BY <1>1, PoolInvariance, PTL

\* The master answers only workers that are there to read (testbench.cpp:163).
THEOREM RequestsAlwaysWaitedFor == Spec => []RequestsAreWaitedFor
<1>1. PoolInv => RequestsAreWaitedFor
  BY DEF PoolInv, Pipes, Listening, RequestsAreWaitedFor
<1> QED
  BY <1>1, PoolInvariance, PTL

\* When the run is over every child has been waited for (testbench.cpp:185-195).
THEOREM NobodyIsLeft == Spec => []NobodyLeft
<1>1. PoolInv => NobodyLeft
  BY CountsAssumption DEF PoolInv, PoolTypeOK, Phases, NobodyLeft, Workers
<1> QED
  BY <1>1, PoolInvariance, PTL

\* The result of run_testbench is honest: it is a failure only if a test aborted, and
\* otherwise all tests ended and all were counted, each once (testbench.cpp:149-159).
THEOREM ReportAlwaysHonest == Spec => []ReportIsHonest
<1>1. ASSUME PoolInv PROVE ReportIsHonest
  <2> USE <1>1, TotalAssumption DEF PoolInv, PoolTypeOK, Counts, Kept, Listening
  <2>1. passed <= Cardinality(ended)
    BY EndedIsFinite, PendingIsFinite
  <2>2. ASSUME pc = "return", failed PROVE \E t \in Tests : runs[t] > 0 /\ t \notin ended
    BY <2>2 DEF Lost
  <2>3. ASSUME pc = "return", ~failed, nWorkers # 0 PROVE ended = Tests /\ passed = Total
    <3>1. ended = 0 .. Total - 1 /\ passed = Cardinality(ended)
      BY <2>3 DEF Tests
    <3>2. Cardinality(0 .. Total - 1) = Total
      BY FS_Interval
    <3> QED
      BY <3>1, <3>2 DEF Tests
  <2> QED
    BY <2>1, <2>2, <2>3 DEF ReportIsHonest
<1> QED
  BY <1>1, PoolInvariance, PTL

(***************************************************************************)
(* The hooks of a test.                                                    *)
(***************************************************************************)
Plugged(p) == TestPlugins[current[p]]

HookTypes ==
  /\ at \in [Processes -> {"idle", "pretest", "setup", "enabling", "defers", "abort", "dead"}]
  /\ current \in [Processes -> Tests \cup {NoTest}]
  /\ defers \in [Processes -> Seq(Hooks)]
  /\ left \in [Processes -> Seq(Hooks)]
  /\ enabled \in [Processes -> SUBSET Plugins]
  /\ past \in [Processes -> SUBSET Tests]
  /\ shown \subseteq Tests

\* The list holds the posttest hook and then the first plugins of the test.
Stacked(p) ==
  /\ Len(defers[p]) \in 1 .. Len(Plugged(p)) + 1
  /\ defers[p][1] = "post"
  /\ \A k \in 2 .. Len(defers[p]) : defers[p][k] = Plugged(p)[k - 1]

\* What is left of the list while it is run is its beginning.
Stacks(p) ==
  /\ at[p] = "idle" => current[p] = NoTest
  /\ at[p] # "idle" => current[p] \in Tests
  /\ at[p] \in {"idle", "pretest"} => defers[p] = <<>>
  /\ at[p] \in {"setup", "enabling", "defers"} => Stacked(p)
  /\ at[p] \in {"abort", "dead"} => defers[p] = <<>> \/ Stacked(p)
  /\ at[p] = "enabling" => Len(defers[p]) <= Len(Plugged(p))
  /\ at[p] \notin {"defers", "abort"} => left[p] = <<>>
  /\ Len(left[p]) <= Len(defers[p])
  /\ \A k \in 1 .. Len(left[p]) : left[p][k] = defers[p][k]

\* The plugin that is being enabled is not deferred yet.
Enabling(p) == IF at[p] = "enabling" THEN {Plugged(p)[Len(defers[p])]} ELSE {}

\* What the test has switched on is in the list, and what has been run is off.
Owed(p) ==
  /\ at[p] \notin {"abort", "dead"} =>
       \A x \in enabled[p] :
         x \in SwitchedOn \/ x \in Enabling(p) \/ \E k \in 1 .. Len(defers[p]) : defers[p][k] = x
  /\ at[p] \in {"defers", "abort", "dead"} =>
       \A k \in 1 .. Len(defers[p]) : k > Len(left[p]) => defers[p][k] \notin enabled[p]

HookInv == HookTypes /\ \A p \in Processes : Stacks(p) /\ Owed(p)

\* A step of the hooks in one process.
HookNextOf(p) == (\E t \in Tests : Begin(p, t)) \/ HookStep(p) \/ Finish(p) \/ Abort(p) \/ Die(p)

LEMMA FrontFacts ==
  ASSUME NEW s \in Seq(Hooks), s # <<>>
  PROVE  /\ Len(s) \in Nat /\ Len(s) > 0
         /\ Last(s) \in Hooks /\ Last(s) = s[Len(s)]
         /\ Front(s) \in Seq(Hooks) /\ Len(Front(s)) = Len(s) - 1
         /\ \A k \in 1 .. Len(s) - 1 : Front(s)[k] = s[k]
<1>1. Len(s) \in Nat /\ Len(s) > 0
  BY EmptySeq, LenProperties
<1>2. \A k \in 1 .. Len(s) : s[k] \in Hooks
  BY ElementOfSeq
<1> DEFINE n == Len(s) - 1
<1>3. n \in Int /\ 1 \in Int /\ \A k \in 1 .. n : s[k] \in Hooks
  BY <1>1, <1>2
<1> HIDE DEF n
<1>4. /\ SubSeq(s, 1, n) \in Seq(Hooks)
      /\ Len(SubSeq(s, 1, n)) = IF 1 <= n THEN n - 1 + 1 ELSE 0
      /\ \A k \in 1 .. n - 1 + 1 : SubSeq(s, 1, n)[k] = s[1 + k - 1]
  BY <1>3, SubSeqProperties
<1>5. Front(s) = SubSeq(s, 1, n) /\ n = Len(s) - 1
  BY DEF Front, n
<1>6. \A k \in 1 .. n : Front(s)[k] = s[k]
  <2> TAKE k \in 1 .. n
  <2>1. k \in 1 .. n - 1 + 1 /\ 1 + k - 1 = k
    BY <1>3
  <2> QED
    BY <1>4, <1>5, <2>1
<1>7. Len(Front(s)) = n
  BY <1>1, <1>4, <1>5
<1> QED
  BY <1>1, <1>2, <1>4, <1>5, <1>6, <1>7 DEF Last

\* What the assumptions on the tests say of one.
LEMMA PluginsOf ==
  ASSUME NEW t \in Tests
  PROVE  /\ t \in Nat /\ t # NoTest
         /\ TestPlugins[t] \in Seq(Plugins) /\ Len(TestPlugins[t]) \in Nat
         /\ \A k \in 1 .. Len(TestPlugins[t]) : TestPlugins[t][k] \in Plugins
BY TestsAssumption, TotalAssumption, LenProperties, ElementOfSeq DEF Tests, NoTest

LEMMA ListsOf ==
  ASSUME HookTypes, NEW p \in Processes
  PROVE  /\ defers[p] \in Seq(Hooks) /\ Len(defers[p]) \in Nat
         /\ left[p] \in Seq(Hooks) /\ Len(left[p]) \in Nat
         /\ defers[p] = <<>> <=> Len(defers[p]) = 0
         /\ left[p] = <<>> <=> Len(left[p]) = 0
<1>1. defers[p] \in Seq(Hooks) /\ left[p] \in Seq(Hooks)
  BY DEF HookTypes
<1> QED
  BY <1>1, LenProperties, EmptySeq

\* A step of one process leaves the others alone.
LEMMA HookTypesStep ==
  ASSUME HookInv, NEW p \in Processes, HookNextOf(p)
  PROVE  HookTypes'
<1> USE DEF HookTypes
<1>1. Stacks(p) /\ HookTypes
  BY DEF HookInv
<1>2. CASE \E t \in Tests : Begin(p, t)
  BY <1>1, <1>2 DEF Begin
<1>3. CASE Construct(p)
  <2>1. <<"post">> \in Seq(Hooks)
    BY DEF Hooks
  <2> QED
    BY <1>1, <1>3, <2>1 DEF Construct
<1>4. CASE EnablePlugin(p)
  <2>1. Plugged(p)[Len(defers[p])] \in Plugins
    BY <1>1, <1>4, PluginsOf, ListsOf DEF EnablePlugin, Stacks, Stacked, Plugged
  <2> QED
    BY <1>1, <1>4, <2>1 DEF EnablePlugin, Plugged
<1>5. CASE DeferHook(p)
  <2>1. Plugged(p)[Len(defers[p])] \in Plugins
    BY <1>1, <1>5, PluginsOf, ListsOf DEF DeferHook, Stacks, Stacked, Plugged
  <2>2. Append(defers[p], Plugged(p)[Len(defers[p])]) \in Seq(Hooks)
    BY <1>1, <2>1, AppendProperties, ListsOf DEF Hooks
  <2> QED
    BY <1>1, <1>5, <2>2 DEF DeferHook, Plugged
<1>6. CASE LeaveBody(p)
  BY <1>1, <1>6 DEF LeaveBody
<1>7. CASE RunHook(p)
  BY <1>1, <1>7, FrontFacts DEF RunHook
<1>8. CASE Finish(p)
  <2>1. current[p] \in Tests /\ <<>> \in Seq(Hooks)
    BY <1>1, <1>8, EmptySeq DEF Stacks, Finish
  <2> QED
    BY <1>1, <1>8, <2>1 DEF Finish
<1>9. CASE Abort(p)
  BY <1>1, <1>9 DEF Abort
<1>10. CASE Die(p)
  BY <1>1, <1>10 DEF Die
<1> QED
  BY <1>2, <1>3, <1>4, <1>5, <1>6, <1>7, <1>8, <1>9, <1>10 DEF HookNextOf, HookStep

SameHooks(q) ==
  /\ at'[q] = at[q] /\ current'[q] = current[q] /\ defers'[q] = defers[q] /\ left'[q] = left[q]
  /\ enabled'[q] = enabled[q] /\ past'[q] = past[q]

LEMMA OthersUntouched ==
  ASSUME HookTypes, NEW p \in Processes, HookNextOf(p), NEW q \in Processes, q # p
  PROVE  SameHooks(q)
BY DEF HookTypes, HookNextOf, HookStep, Begin, Construct, EnablePlugin, DeferHook, LeaveBody, RunHook,
       Finish, Abort, Die, SameHooks

LEMMA StacksStep ==
  ASSUME HookInv, NEW p \in Processes, HookNextOf(p)
  PROVE  Stacks(p)'
<1> USE DEF HookTypes
<1>1. Stacks(p) /\ HookTypes /\ HookTypes'
  BY HookTypesStep DEF HookInv
<1>2. CASE \E t \in Tests : Begin(p, t)
  BY <1>1, <1>2, PluginsOf, ListsOf DEF Begin, Stacks, Stacked, Plugged
<1>3. CASE Construct(p)
  <2>1. defers'[p] = <<"post">> /\ Len(<<"post">>) = 1 /\ <<"post">>[1] = "post"
    BY <1>1, <1>3 DEF Construct
  <2> QED
    BY <1>1, <1>3, <2>1, PluginsOf, ListsOf DEF Construct, Stacks, Stacked, Plugged
<1>4. CASE EnablePlugin(p)
  BY <1>1, <1>4, ListsOf DEF EnablePlugin, Stacks, Stacked, Plugged
<1>5. CASE DeferHook(p)
  <2> DEFINE new == Plugged(p)[Len(defers[p])]
  <2>1. new \in Hooks
    BY <1>1, <1>5, PluginsOf, ListsOf DEF DeferHook, Stacks, Stacked, Plugged, Hooks
  <2>2. /\ Len(Append(defers[p], new)) = Len(defers[p]) + 1
        /\ \A k \in 1 .. Len(defers[p]) : Append(defers[p], new)[k] = defers[p][k]
        /\ Append(defers[p], new)[Len(defers[p]) + 1] = new
    BY <1>1, <2>1, ListsOf, AppendProperties
  <2>3. defers'[p] = Append(defers[p], new) /\ at'[p] = "setup" /\ UNCHANGED <<current, left>>
    BY <1>1, <1>5 DEF DeferHook, Plugged
  <2>4. /\ at[p] = "enabling" /\ current[p] \in Tests /\ left[p] = <<>> /\ Stacked(p)
        /\ Len(defers[p]) <= Len(Plugged(p))
        /\ Len(defers[p]) \in Nat /\ Len(Plugged(p)) \in Nat /\ Len(left[p]) = 0
    BY <1>1, <1>5, PluginsOf, ListsOf DEF DeferHook, Stacks, Plugged
  <2>5. Plugged(p)' = Plugged(p) /\ new = Plugged(p)[Len(defers[p])]
    BY <2>3 DEF Plugged
  <2> HIDE DEF new
  <2>6. Stacked(p)'
    BY <2>2, <2>3, <2>4, <2>5 DEF Stacked
  <2> QED
    BY <2>2, <2>3, <2>4, <2>6 DEF Stacks
<1>6. CASE LeaveBody(p)
  BY <1>1, <1>6, ListsOf DEF LeaveBody, Stacks, Stacked, Plugged
<1>7. CASE RunHook(p)
  <2>1. /\ left[p] # <<>> /\ left'[p] = Front(left[p]) /\ at[p] \in {"defers", "abort"}
        /\ UNCHANGED <<at, current, defers>>
    BY <1>1, <1>7 DEF RunHook
  <2>2. /\ Len(left'[p]) = Len(left[p]) - 1 /\ Len(left[p]) \in Nat /\ Len(defers[p]) \in Nat
        /\ \A k \in 1 .. Len(left[p]) - 1 : left'[p][k] = left[p][k]
    BY <1>1, <2>1, FrontFacts, ListsOf
  <2> QED
    BY <1>1, <2>1, <2>2 DEF Stacks, Stacked, Plugged
<1>8. CASE Finish(p)
  BY <1>1, <1>8, ListsOf DEF Finish, Stacks, Stacked, Plugged
<1>9. CASE Abort(p)
  <2>1. /\ at[p] \in {"pretest", "setup", "enabling", "defers"} /\ at'[p] = "abort"
        /\ left'[p] = defers[p] /\ UNCHANGED <<current, defers>>
    BY <1>1, <1>9 DEF Abort
  <2> QED
    BY <1>1, <2>1, ListsOf DEF Stacks, Stacked, Plugged
<1>10. CASE Die(p)
  BY <1>1, <1>10, ListsOf DEF Die, Stacks, Stacked, Plugged
<1> QED
  BY <1>2, <1>3, <1>4, <1>5, <1>6, <1>7, <1>8, <1>9, <1>10 DEF HookNextOf, HookStep

LEMMA OwedStep ==
  ASSUME HookInv, NEW p \in Processes, HookNextOf(p)
  PROVE  Owed(p)'
<1> USE DEF HookTypes
<1>1. Stacks(p) /\ Owed(p) /\ HookTypes /\ HookTypes'
  BY HookTypesStep DEF HookInv
<1>2. CASE \E t \in Tests : Begin(p, t)
  BY <1>1, <1>2 DEF Begin, Owed, Enabling, Stacks
<1>3. CASE Construct(p)
  BY <1>1, <1>3, ListsOf DEF Construct, Owed, Enabling
<1>4. CASE EnablePlugin(p)
  BY <1>1, <1>4, ListsOf DEF EnablePlugin, Owed, Enabling, Plugged
<1>5. CASE DeferHook(p)
  <2> DEFINE new == Plugged(p)[Len(defers[p])]
  <2>1. new \in Hooks
    BY <1>1, <1>5, PluginsOf, ListsOf DEF DeferHook, Stacks, Stacked, Plugged, Hooks
  <2>2. /\ Len(Append(defers[p], new)) = Len(defers[p]) + 1
        /\ \A k \in 1 .. Len(defers[p]) : Append(defers[p], new)[k] = defers[p][k]
        /\ Append(defers[p], new)[Len(defers[p]) + 1] = new
    BY <1>1, <2>1, ListsOf, AppendProperties
  <2>3. defers'[p] = Append(defers[p], new) /\ at'[p] = "setup" /\ UNCHANGED <<current, left, enabled>>
    BY <1>1, <1>5 DEF DeferHook, Plugged
  <2>4. Enabling(p) = {new} /\ at[p] = "enabling"
    BY <1>5 DEF Enabling, DeferHook
  <2> QED
    BY <1>1, <2>2, <2>3, <2>4, ListsOf DEF Owed
<1>6. CASE LeaveBody(p)
  BY <1>1, <1>6, ListsOf DEF LeaveBody, Owed, Enabling
<1>7. CASE RunHook(p)
  <2>1. /\ left[p] # <<>> /\ left'[p] = Front(left[p]) /\ at[p] \in {"defers", "abort"}
        /\ enabled'[p] = enabled[p] \ {Last(left[p])}
        /\ UNCHANGED <<at, current, defers>>
    BY <1>1, <1>7 DEF RunHook
  <2>2. /\ Len(left'[p]) = Len(left[p]) - 1 /\ Len(left[p]) \in Nat /\ Len(defers[p]) \in Nat
        /\ Len(left[p]) > 0 /\ Last(left[p]) = left[p][Len(left[p])]
    BY <1>1, <2>1, FrontFacts, ListsOf
  <2>3. Last(left[p]) = defers[p][Len(left[p])] /\ Len(left[p]) <= Len(defers[p])
    BY <1>1, <2>2 DEF Stacks
  <2>4. \A x \in enabled'[p] : x \in enabled[p] /\ x # defers[p][Len(left[p])]
    BY <2>1, <2>3
  <2> QED
    BY <1>1, <2>1, <2>2, <2>4 DEF Owed, Enabling, Plugged
<1>8. CASE Finish(p)
  BY <1>1, <1>8, ListsOf DEF Finish, Owed, Enabling
<1>9. CASE Abort(p)
  BY <1>1, <1>9, ListsOf DEF Abort, Owed, Enabling
<1>10. CASE Die(p)
  BY <1>1, <1>10, ListsOf DEF Die, Owed, Enabling
<1> QED
  BY <1>2, <1>3, <1>4, <1>5, <1>6, <1>7, <1>8, <1>9, <1>10 DEF HookNextOf, HookStep

LEMMA HookInvStep ==
  ASSUME HookInv, NEW p \in Processes, HookNextOf(p)
  PROVE  HookInv'
<1>1. ASSUME NEW q \in Processes PROVE Stacks(q)' /\ Owed(q)'
  <2>1. CASE q = p
    BY <2>1, StacksStep, OwedStep
  <2>2. CASE q # p
    <3>1. SameHooks(q) /\ Stacks(q) /\ Owed(q)
      BY <2>2, OthersUntouched DEF HookInv
    <3>2. Plugged(q)' = Plugged(q) /\ Enabling(q)' = Enabling(q)
      BY <3>1 DEF SameHooks, Plugged, Enabling
    <3>3. Stacked(q)' <=> Stacked(q)
      BY <3>1, <3>2 DEF SameHooks, Stacked
    <3>4. Stacks(q)'
      BY <3>1, <3>2, <3>3 DEF SameHooks, Stacks
    <3>5. Owed(q)'
      BY <3>1, <3>2 DEF SameHooks, Owed
    <3> QED
      BY <3>4, <3>5
  <2> QED
    BY <2>1, <2>2
<1> QED
  BY <1>1, HookTypesStep DEF HookInv

\* A test uses a plugin once.
UsedOnce ==
  \A t \in Tests : \A k, l \in 1 .. Len(TestPlugins[t]) :
    TestPlugins[t][k] = TestPlugins[t][l] => k = l

\* What is in the list is on until its hook is run.
NestedOf(p) ==
  /\ at[p] \in {"setup", "enabling"} => \A k \in 2 .. Len(defers[p]) : defers[p][k] \in enabled[p]
  /\ Enabling(p) \subseteq enabled[p]
  /\ at[p] = "defers" => \A k \in 2 .. Len(left[p]) : defers[p][k] \in enabled[p]

Nested == \A p \in Processes : NestedOf(p)

\* No two hooks of a list are the same.
LEMMA HooksDiffer ==
  ASSUME UsedOnce, HookInv, NEW p \in Processes, Stacked(p), current[p] \in Tests,
         NEW k \in 1 .. Len(defers[p]), NEW l \in 1 .. Len(defers[p]), defers[p][k] = defers[p][l]
  PROVE  k = l
<1>1. HookTypes /\ Len(defers[p]) \in Nat
  BY ListsOf DEF HookInv
<1>2. /\ \A i \in 1 .. Len(Plugged(p)) : Plugged(p)[i] \in Plugins
      /\ \A i, j \in 1 .. Len(Plugged(p)) : Plugged(p)[i] = Plugged(p)[j] => i = j
      /\ Len(Plugged(p)) \in Nat
  BY PluginsOf DEF UsedOnce, Plugged
<1>3. "post" \notin Plugins
  BY DEF Plugins
<1>4. ASSUME NEW i \in 2 .. Len(defers[p])
      PROVE  i - 1 \in 1 .. Len(Plugged(p)) /\ defers[p][i] = Plugged(p)[i - 1] /\ defers[p][i] # "post"
  BY <1>1, <1>2, <1>3 DEF Stacked
<1>5. CASE k = 1 \/ l = 1
  BY <1>1, <1>4, <1>5 DEF Stacked
<1>6. CASE k # 1 /\ l # 1
  <2>1. k \in 2 .. Len(defers[p]) /\ l \in 2 .. Len(defers[p])
    BY <1>1, <1>6
  <2>2. k - 1 = l - 1
    BY <1>2, <1>4, <2>1
  <2> QED
    BY <2>1, <2>2, <1>1
<1> QED
  BY <1>5, <1>6

LEMMA NestedStep ==
  ASSUME UsedOnce, HookInv, Nested, NEW p \in Processes, HookNextOf(p)
  PROVE  Nested'
<1> USE DEF HookTypes
<1>1. Stacks(p) /\ NestedOf(p) /\ HookTypes
  BY DEF HookInv, Nested
<1>2. NestedOf(p)'
  <2>1. CASE \E t \in Tests : Begin(p, t)
    BY <1>1, <2>1 DEF Begin, NestedOf, Enabling
  <2>2. CASE Construct(p)
    <3>1. defers'[p] = <<"post">> /\ Len(<<"post">>) = 1 /\ at'[p] = "setup"
      BY <1>1, <2>2 DEF Construct
    <3> QED
      BY <3>1 DEF NestedOf, Enabling
  <2>3. CASE EnablePlugin(p)
    BY <1>1, <2>3 DEF EnablePlugin, NestedOf, Enabling, Plugged
  <2>4. CASE DeferHook(p)
    <3> DEFINE new == Plugged(p)[Len(defers[p])]
    <3>1. new \in Hooks /\ new \in enabled[p]
      <4>1. at[p] = "enabling" /\ Enabling(p) = {new} /\ current[p] \in Tests
        BY <1>1, <2>4 DEF DeferHook, Enabling, Stacks
      <4>2. new \in Plugins
        BY <1>1, <4>1, PluginsOf, ListsOf DEF Stacks, Stacked, Plugged
      <4> QED
        BY <1>1, <4>1, <4>2 DEF NestedOf, Hooks
    <3>2. /\ Len(Append(defers[p], new)) = Len(defers[p]) + 1
          /\ \A k \in 1 .. Len(defers[p]) : Append(defers[p], new)[k] = defers[p][k]
          /\ Append(defers[p], new)[Len(defers[p]) + 1] = new
      BY <1>1, <3>1, ListsOf, AppendProperties
    <3>3. /\ defers'[p] = Append(defers[p], new) /\ at[p] = "enabling" /\ at'[p] = "setup"
          /\ UNCHANGED <<current, left, enabled>>
      BY <1>1, <2>4 DEF DeferHook, Plugged
    <3> HIDE DEF new
    <3> QED
      BY <1>1, <3>1, <3>2, <3>3, ListsOf DEF NestedOf, Enabling
  <2>5. CASE LeaveBody(p)
    BY <1>1, <2>5 DEF LeaveBody, NestedOf, Enabling
  <2>6. CASE RunHook(p)
    <3>1. /\ left[p] # <<>> /\ left'[p] = Front(left[p]) /\ at[p] \in {"defers", "abort"}
          /\ enabled'[p] = enabled[p] \ {Last(left[p])}
          /\ UNCHANGED <<at, current, defers>>
      BY <1>1, <2>6 DEF RunHook
    <3>2. /\ Len(left'[p]) = Len(left[p]) - 1 /\ Len(left[p]) \in Nat /\ Len(defers[p]) \in Nat
          /\ Len(left[p]) > 0 /\ Last(left[p]) = left[p][Len(left[p])]
      BY <1>1, <3>1, FrontFacts, ListsOf
    <3>3. Last(left[p]) = defers[p][Len(left[p])] /\ Len(left[p]) <= Len(defers[p])
      BY <1>1, <3>2 DEF Stacks
    <3>4. ASSUME at[p] = "defers", NEW k \in 2 .. Len(left'[p]) PROVE defers[p][k] \in enabled'[p]
      <4>1. Stacked(p) /\ current[p] \in Tests
        BY <1>1, <3>4 DEF Stacks
      <4>2. /\ k \in 1 .. Len(defers[p]) /\ Len(left[p]) \in 1 .. Len(defers[p])
            /\ k # Len(left[p]) /\ k \in 2 .. Len(left[p])
        BY <3>2, <3>3
      <4>3. defers[p][k] # defers[p][Len(left[p])]
        BY <4>1, <4>2, HooksDiffer
      <4> QED
        BY <1>1, <3>1, <3>3, <3>4, <4>2, <4>3 DEF NestedOf
    <3> QED
      BY <3>1, <3>4 DEF NestedOf, Enabling
  <2>7. CASE Finish(p)
    BY <1>1, <2>7 DEF Finish, NestedOf, Enabling
  <2>8. CASE Abort(p)
    BY <1>1, <2>8 DEF Abort, NestedOf, Enabling
  <2>9. CASE Die(p)
    BY <1>1, <2>9 DEF Die, NestedOf, Enabling
  <2> QED
    BY <2>1, <2>2, <2>3, <2>4, <2>5, <2>6, <2>7, <2>8, <2>9 DEF HookNextOf, HookStep
<1>3. ASSUME NEW q \in Processes, q # p PROVE NestedOf(q)'
  <2>1. SameHooks(q) /\ NestedOf(q)
    BY <1>1, <1>3, OthersUntouched DEF Nested
  <2>2. Enabling(q)' = Enabling(q)
    BY <2>1 DEF SameHooks, Plugged, Enabling
  <2> QED
    BY <2>1, <2>2 DEF SameHooks, NestedOf
<1> QED
  BY <1>2, <1>3 DEF Nested

\* A test with the plugin LOG has ended in the process, or runs in it.
LogEnded(p) == \E u \in past[p] : "log" \in Elements(TestPlugins[u])
LogUsed(p)  == LogEnded(p) \/ (at[p] # "idle" /\ "log" \in Elements(TestPlugins[current[p]]))

LogKept ==
  \A p \in Processes :
    /\ "log" \notin enabled[p] => LogUsed(p)
    /\ \A t \in past[p] : t \in shown \/ LogEnded(p)

LEMMA LogKeptStep ==
  ASSUME HookInv, LogKept, NEW p \in Processes, HookNextOf(p)
  PROVE  LogKept'
<1> USE DEF HookTypes
<1>1. Stacks(p) /\ HookTypes /\ HookTypes'
  BY HookTypesStep DEF HookInv
<1>2. shown \subseteq shown'
  BY DEF HookNextOf, HookStep, Begin, Construct, EnablePlugin, DeferHook, LeaveBody, RunHook,
         Finish, Abort, Die
<1>3. (LogUsed(p) => LogUsed(p)') /\ (LogEnded(p) => LogEnded(p)')
  <2>1. past[p] \subseteq past'[p]
    BY <1>1 DEF HookNextOf, HookStep, Begin, Construct, EnablePlugin, DeferHook, LeaveBody, RunHook,
                Finish, Abort, Die
  <2>2. ASSUME at[p] # "idle"
        PROVE  (at'[p] # "idle" /\ current'[p] = current[p]) \/ current[p] \in past'[p]
    BY <1>1, <2>2 DEF HookNextOf, HookStep, Begin, Construct, EnablePlugin, DeferHook, LeaveBody,
                      RunHook, Finish, Abort, Die
  <2> QED
    BY <2>1, <2>2 DEF LogUsed, LogEnded
<1>4. ASSUME "log" \notin enabled'[p] PROVE LogUsed(p)'
  <2>1. CASE "log" \notin enabled[p]
    BY <1>3, <2>1 DEF LogKept
  <2>2. CASE "log" \in enabled[p]
    <3>1. RunHook(p)
      BY <1>1, <1>4, <2>2 DEF HookNextOf, HookStep, Begin, Construct, EnablePlugin, DeferHook,
                              LeaveBody, Finish, Abort, Die
    <3>2. /\ left[p] # <<>> /\ at[p] \in {"defers", "abort"} /\ Last(left[p]) = "log"
          /\ UNCHANGED <<at, current, past>>
      BY <1>1, <1>4, <2>2, <3>1 DEF RunHook
    <3>3. /\ Len(left[p]) \in Nat /\ Len(defers[p]) \in Nat
          /\ Len(left[p]) > 0 /\ left[p][Len(left[p])] = "log"
      BY <1>1, <3>2, FrontFacts, ListsOf
    <3>4. /\ defers[p][Len(left[p])] = "log" /\ current[p] \in Tests
          /\ Len(left[p]) <= Len(defers[p]) /\ (defers[p] = <<>> \/ Stacked(p))
      <4>1. Len(left[p]) \in 1 .. Len(left[p])
        BY <3>3
      <4> HIDE DEF HookTypes
      <4> QED
        BY <1>1, <3>2, <3>3, <4>1 DEF Stacks
    <3>5. Stacked(p)
      BY <1>1, <3>3, <3>4, ListsOf
    <3>6. Len(left[p]) - 1 \in 1 .. Len(Plugged(p)) /\ Plugged(p)[Len(left[p]) - 1] = "log"
      <4>1. Len(Plugged(p)) \in Nat
        BY <3>4, PluginsOf DEF Plugged
      <4>2. Len(left[p]) \in 2 .. Len(defers[p])
        BY <3>3, <3>4, <3>5 DEF Stacked
      <4> QED
        BY <3>3, <3>4, <3>5, <4>1, <4>2 DEF Stacked
    <3>7. DOMAIN Plugged(p) = 1 .. Len(Plugged(p))
      BY <3>4, PluginsOf, LenProperties DEF Plugged
    <3>8. "log" \in Elements(Plugged(p))
      BY <3>6, <3>7 DEF Elements
    <3> QED
      BY <3>2, <3>8 DEF LogUsed, Plugged
  <2> QED
    BY <2>1, <2>2
<1>5. ASSUME NEW t \in past'[p] PROVE t \in shown' \/ LogEnded(p)'
  <2>1. CASE t \in past[p]
    BY <1>2, <1>3, <2>1 DEF LogKept
  <2>2. CASE t \notin past[p]
    <3>1. Finish(p) /\ t = current[p] /\ enabled' = enabled
      BY <1>1, <1>5, <2>2 DEF HookNextOf, HookStep, Begin, Construct, EnablePlugin, DeferHook,
                              LeaveBody, RunHook, Finish, Abort, Die
    <3>2. CASE "log" \in enabled[p]
      BY <3>1, <3>2 DEF Finish
    <3>3. CASE "log" \notin enabled[p]
      <4>1. LogUsed(p) /\ past'[p] = past[p] \cup {current[p]}
        BY <1>1, <3>1, <3>3 DEF LogKept, Finish
      <4> QED
        BY <4>1 DEF LogUsed, LogEnded
    <3> QED
      BY <3>2, <3>3
  <2> QED
    BY <2>1, <2>2
<1>6. ASSUME NEW q \in Processes, q # p
      PROVE  /\ "log" \notin enabled'[q] => LogUsed(q)'
             /\ \A t \in past'[q] : t \in shown' \/ LogEnded(q)'
  <2>1. SameHooks(q)
    BY <1>1, <1>6, OthersUntouched
  <2>2. (LogUsed(q)' <=> LogUsed(q)) /\ (LogEnded(q)' <=> LogEnded(q))
    BY <2>1 DEF SameHooks, LogUsed, LogEnded
  <2> QED
    BY <1>2, <2>1, <2>2 DEF SameHooks, LogKept
<1> QED
  BY <1>4, <1>5, <1>6 DEF LogKept

\* A step of the whole harness is a step of the hooks in one process or leaves them alone.
LEMMA StepsOfTheHooks ==
  ASSUME PoolTypeOK, index \in 0 .. Total, Next
  PROVE  (\E p \in Processes : HookNextOf(p)) \/ UNCHANGED hookVars
<1>1. 0 \in Processes /\ Workers \subseteq Processes
  BY ProcessesAssumption DEF PoolTypeOK, Workers
<1>2. CASE SerialNext
  <2>1. CASE StartSerial
    <3>1. PICK i \in Tests : i = index /\ Begin(0, i)
      BY <2>1, TotalAssumption DEF StartSerial, Tests
    <3> QED
      BY <1>1, <3>1 DEF HookNextOf
  <2> QED
    BY <1>1, <1>2, <2>1 DEF SerialNext, StepSerial, EndSerial, StopSerial, ReportSerial, HookNextOf
<1>3. CASE AbortSerial
  BY <1>1, <1>3 DEF AbortSerial, HookNextOf
<1>4. CASE ThreadRuns \/ MasterStep \/ ReportParallel
  BY <1>4 DEF ThreadRuns, MasterStep, ReportParallel
<1>5. ASSUME NEW j \in Workers, WorkerStep(j)
      PROVE  (\E p \in Processes : HookNextOf(p)) \/ UNCHANGED hookVars
  <2>1. CASE TakeTest(j) /\ Begin(j, command[j])
    <3>1. command[j] \in Tests
      BY <2>1 DEF TakeTest
    <3> QED
      BY <1>1, <2>1, <3>1 DEF HookNextOf
  <2> QED
    BY <1>1, <1>5, <2>1 DEF WorkerStep, HookNextOf
<1>6. ASSUME NEW j \in Workers, WorkerFails(j)
      PROVE  (\E p \in Processes : HookNextOf(p)) \/ UNCHANGED hookVars
  BY <1>1, <1>6 DEF WorkerFails, HookNextOf
<1> QED
  BY <1>2, <1>3, <1>4, <1>5, <1>6 DEF Next

(***************************************************************************)
(* The threads that show the status.                                       *)
(***************************************************************************)
MainTypes ==
  /\ phase \in {"running", "reported", "aborted"}
  /\ index \in 0 .. Total /\ inTest \in BOOLEAN /\ count \in 0 .. Total
  /\ inTest => index < Total
  /\ nWorkers # 1 => ~inTest

\* The thread of a test is not there before the test, is never told to stop while
\* the test runs, and frees its flag only when it has been told to.
ThreadOf(t) ==
  /\ t > index \/ (t = index /\ ~inTest) => thread[t] = "none" /\ flag[t] = "none"
  /\ t = index /\ inTest => thread[t] \in {"test", "print", "sleep"} /\ flag[t] = "run"
  /\ t < index =>
       \/ thread[t] \in {"test", "print", "sleep", "final"} /\ flag[t] = "stop"
       \/ thread[t] = "gone" /\ flag[t] = "freed"
  /\ late[t] \in 0 .. 1
  /\ late[t] = 1 => t < index /\ thread[t] # "print"

ThreadInv == MainTypes /\ Threads!ThreadsTypeOK /\ \A t \in Tests : ThreadOf(t)

LEMMA PassedAreTests == PoolInv => passed \in 0 .. Total
<1> SUFFICES ASSUME PoolInv PROVE passed \in 0 .. Total
  OBVIOUS
<1>1. passed \in Nat /\ passed <= Cardinality(ended) /\ ended \subseteq 0 .. Total - 1
  BY EndedIsFinite, PendingIsFinite DEF PoolInv, PoolTypeOK, Counts, Tests
<1>2. IsFiniteSet(0 .. Total - 1) /\ Cardinality(0 .. Total - 1) = Total
  BY FS_Interval, TotalAssumption
<1>3. Cardinality(ended) <= Total /\ Cardinality(ended) \in Nat
  BY <1>1, <1>2, FS_Subset, EndedIsFinite
<1> QED
  BY <1>1, <1>3, TotalAssumption

LEMMA MainTypesStep == ASSUME PoolInv, MainTypes, Next PROVE MainTypes'
<1> USE TotalAssumption DEF MainTypes
<1>1. CASE SerialNext
  <2>1. nWorkers' = nWorkers /\ nWorkers = 1
    BY <1>1 DEF SerialNext, StartSerial, StepSerial, EndSerial, StopSerial, ReportSerial, Serial, poolVars
  <2>2. CASE StartSerial
    BY <2>1, <2>2 DEF StartSerial
  <2>3. CASE StepSerial \/ EndSerial
    BY <2>1, <2>3 DEF StepSerial, EndSerial, mainVars
  <2>4. CASE StopSerial
    <3>1. inTest' = FALSE /\ index' = index + 1 /\ UNCHANGED <<phase, count>> /\ index < Total
      BY <2>4 DEF StopSerial
    <3>2. index' \in 0 .. Total
      BY <3>1
    <3> QED
      BY <3>1, <3>2, Zenon
  <2>5. CASE ReportSerial
    BY <2>1, <2>5 DEF ReportSerial
  <2> QED
    BY <1>1, <2>2, <2>3, <2>4, <2>5 DEF SerialNext
<1>2. CASE AbortSerial
  BY <1>2 DEF AbortSerial, poolVars
<1>3. CASE ThreadRuns
  BY <1>3 DEF ThreadRuns, mainVars, poolVars
<1>4. CASE MasterStep \/ \E j \in Workers : WorkerStep(j) \/ WorkerFails(j)
  <2>1. UNCHANGED mainVars
    BY <1>4 DEF MasterStep, WorkerStep, WorkerFails
  <2>2. nWorkers' = nWorkers
    BY <1>4 DEF MasterStep, Master, Fork, EnterLoop, Select, LeaveLoop, Reap, Kill, Return, Serve,
                SeeEndOfFile, WorkerStep, WorkerFails, BetweenTests, Ask, TakeExit, ExitWorker,
                TakeTest, EndTest, AbortTest, poolVars
  <2> QED
    BY <2>1, <2>2 DEF mainVars
<1>5. CASE ReportParallel
  BY <1>5, PassedAreTests DEF ReportParallel, poolVars
<1> QED
  BY <1>1, <1>2, <1>3, <1>4, <1>5 DEF Next

LEMMA ThreadInvStep == ASSUME PoolInv, ThreadInv, Next PROVE ThreadInv'
<1> USE TotalAssumption
<1>1. MainTypes /\ MainTypes'
  BY MainTypesStep DEF ThreadInv
<1>2. /\ thread \in [Tests -> {"none", "test", "print", "sleep", "final", "gone"}]
      /\ flag \in [Tests -> {"none", "run", "stop", "freed"}]
      /\ screen \in Tests \cup {Threads!NoStatus}
      /\ late \in [Tests -> Nat]
      /\ \A t \in Tests : ThreadOf(t)
  BY DEF ThreadInv, Threads!ThreadsTypeOK
<1>3. \A t \in Tests : t \in Nat
  BY DEF Tests
<1>4. CASE StartSerial
  <2>1. /\ ~inTest /\ index < Total /\ inTest' = TRUE /\ index' = index
        /\ thread' = [thread EXCEPT ![index] = "test"]
        /\ flag' = [flag EXCEPT ![index] = "run"]
        /\ UNCHANGED <<screen, late>>
    BY <1>4 DEF StartSerial, Threads!StartWorker
  <2>2. Threads!ThreadsTypeOK'
    BY <1>2, <2>1 DEF Threads!ThreadsTypeOK
  <2>3. ASSUME NEW t \in Tests PROVE ThreadOf(t)'
    BY <1>1, <1>2, <1>3, <2>1 DEF ThreadOf, MainTypes
  <2> QED
    BY <1>1, <2>2, <2>3 DEF ThreadInv
<1>5. CASE StopSerial
  <2>1. /\ inTest /\ inTest' = FALSE /\ index' = index + 1
        /\ flag' = [flag EXCEPT ![index] = "stop"]
        /\ UNCHANGED <<thread, screen, late>>
    BY <1>5 DEF StopSerial, Threads!StopWorker
  <2>2. Threads!ThreadsTypeOK'
    BY <1>2, <2>1 DEF Threads!ThreadsTypeOK
  <2>3. ASSUME NEW t \in Tests PROVE ThreadOf(t)'
    BY <1>1, <1>2, <1>3, <2>1 DEF ThreadOf, MainTypes
  <2> QED
    BY <1>1, <2>2, <2>3 DEF ThreadInv
<1>6. CASE ThreadRuns
  <2>1. PICK u \in Tests : Threads!ThreadStep(u, "status" \in enabled[0])
    BY <1>6 DEF ThreadRuns
  <2> DEFINE on == "status" \in enabled[0]
  <2>2. UNCHANGED <<index, inTest>>
    BY <1>6 DEF ThreadRuns, mainVars
  <2>3. CASE Threads!TestFlag(u)
    <3>1. /\ thread[u] = "test"
          /\ thread' = [thread EXCEPT ![u] = IF flag[u] = "stop" THEN "final" ELSE "print"]
          /\ UNCHANGED <<flag, screen, late>>
      BY <2>3 DEF Threads!TestFlag
    <3>2. Threads!ThreadsTypeOK'
      BY <1>2, <3>1 DEF Threads!ThreadsTypeOK
    <3>3. late[u] = 1 => flag[u] = "stop"
      BY <1>1, <1>2, <1>3, <3>1 DEF ThreadOf, MainTypes
    <3>4. ASSUME NEW t \in Tests PROVE ThreadOf(t)'
      BY <1>1, <1>2, <1>3, <2>2, <3>1, <3>3 DEF ThreadOf, MainTypes
    <3> QED
      BY <1>1, <3>2, <3>4 DEF ThreadInv
  <2>4. CASE Threads!PrintStatus(u, on)
    <3>1. /\ thread[u] = "print"
          /\ thread' = [thread EXCEPT ![u] = "sleep"]
          /\ UNCHANGED flag
          /\ \/ UNCHANGED <<screen, late>>
             \/ screen' = u /\ late' = late /\ flag[u] # "stop"
             \/ screen' = u /\ late' = [late EXCEPT ![u] = @ + 1] /\ flag[u] = "stop"
      BY <1>2, <2>4 DEF Threads!PrintStatus
    <3>2. Threads!ThreadsTypeOK'
      BY <1>2, <3>1 DEF Threads!ThreadsTypeOK
    <3>3. late[u] = 0 /\ (flag[u] = "stop" => u < index)
      BY <1>1, <1>2, <1>3, <3>1 DEF ThreadOf, MainTypes
    <3>4. ASSUME NEW t \in Tests PROVE ThreadOf(t)'
      BY <1>1, <1>2, <1>3, <2>2, <3>1, <3>3 DEF ThreadOf, MainTypes
    <3> QED
      BY <1>1, <3>2, <3>4 DEF ThreadInv
  <2>5. CASE Threads!Wake(u)
    <3>1. /\ thread[u] = "sleep" /\ thread' = [thread EXCEPT ![u] = "test"]
          /\ UNCHANGED <<flag, screen, late>>
      BY <2>5 DEF Threads!Wake
    <3>2. Threads!ThreadsTypeOK'
      BY <1>2, <3>1 DEF Threads!ThreadsTypeOK
    <3>3. ASSUME NEW t \in Tests PROVE ThreadOf(t)'
      BY <1>1, <1>2, <1>3, <2>2, <3>1 DEF ThreadOf, MainTypes
    <3> QED
      BY <1>1, <3>2, <3>3 DEF ThreadInv
  <2>6. CASE Threads!EndThread(u)
    <3>1. /\ thread[u] = "final" /\ thread' = [thread EXCEPT ![u] = "gone"]
          /\ flag' = [flag EXCEPT ![u] = "freed"] /\ UNCHANGED <<screen, late>>
      BY <2>6 DEF Threads!EndThread
    <3>2. Threads!ThreadsTypeOK'
      BY <1>2, <3>1 DEF Threads!ThreadsTypeOK
    <3>3. ASSUME NEW t \in Tests PROVE ThreadOf(t)'
      BY <1>1, <1>2, <1>3, <2>2, <3>1 DEF ThreadOf, MainTypes
    <3> QED
      BY <1>1, <3>2, <3>3 DEF ThreadInv
  <2> QED
    BY <2>1, <2>3, <2>4, <2>5, <2>6 DEF Threads!ThreadStep
<1>7. CASE UNCHANGED <<thread, flag, late, index, inTest>> /\ (screen' = screen \/ screen' = Threads!NoStatus)
  <2>1. Threads!ThreadsTypeOK'
    BY <1>2, <1>7 DEF Threads!ThreadsTypeOK
  <2>2. ASSUME NEW t \in Tests PROVE ThreadOf(t)'
    BY <1>2, <1>7 DEF ThreadOf
  <2> QED
    BY <1>1, <2>1, <2>2 DEF ThreadInv
<1>8. StepSerial \/ EndSerial \/ ReportSerial \/ AbortSerial \/ MasterStep \/ ReportParallel
        \/ (\E j \in Workers : WorkerStep(j) \/ WorkerFails(j))
      => UNCHANGED <<thread, flag, late, index, inTest>> /\ (screen' = screen \/ screen' = Threads!NoStatus)
  BY DEF StepSerial, EndSerial, ReportSerial, AbortSerial, MasterStep, ReportParallel, WorkerStep,
         WorkerFails, threadVars, mainVars, Threads!ClearStatus
<1> QED
  BY <1>4, <1>5, <1>6, <1>7, <1>8 DEF Next, SerialNext

(***************************************************************************)
(* The theorems about the whole harness.                                   *)
(***************************************************************************)
HarnessInv == PoolInv /\ HookInv /\ ThreadInv

LEMMA HookStuttering == HookInv /\ UNCHANGED hookVars => HookInv'
<1> SUFFICES ASSUME HookInv, UNCHANGED hookVars PROVE HookInv'
  OBVIOUS
<1>1. HookTypes'
  BY DEF HookInv, HookTypes, hookVars
<1>2. ASSUME NEW p \in Processes PROVE Stacks(p)' /\ Owed(p)'
  <2>1. Plugged(p)' = Plugged(p) /\ Enabling(p)' = Enabling(p)
    BY DEF Plugged, Enabling, hookVars
  <2>2. Stacked(p)' <=> Stacked(p)
    BY <2>1 DEF Stacked, hookVars
  <2> QED
    BY <2>1, <2>2 DEF HookInv, Stacks, Owed, hookVars
<1> QED
  BY <1>1, <1>2 DEF HookInv

THEOREM TestbenchInvariance == Spec => []HarnessInv
<1>1. Init => HarnessInv
  <2> SUFFICES ASSUME Init PROVE HookInv /\ ThreadInv
    BY PoolInitially DEF Init, HarnessInv
  <2>1. HookTypes
    BY EmptySeq, SwitchedOnAssumption DEF Init, HooksInit, HookTypes
  <2>2. ASSUME NEW p \in Processes PROVE Stacks(p) /\ Owed(p)
    <3>1. at[p] = "idle" /\ defers[p] = <<>> /\ left[p] = <<>> /\ enabled[p] = SwitchedOn
          /\ current[p] = NoTest
      BY DEF Init, HooksInit
    <3> QED
      BY <2>1, <3>1, ListsOf DEF Stacks, Owed
  <2>3. MainTypes
    <3>1. phase = "running" /\ index = 0 /\ inTest = FALSE /\ count = 0
      BY DEF Init
    <3>2. 0 \in 0 .. Total
      BY TotalAssumption
    <3> QED
      BY <3>1, <3>2, Zenon DEF MainTypes
  <2>4. Threads!ThreadsTypeOK /\ \A t \in Tests : ThreadOf(t)
    BY DEF Init, Threads!ThreadsInit, Threads!ThreadsTypeOK, ThreadOf, Tests
  <2> QED
    BY <2>1, <2>2, <2>3, <2>4 DEF HookInv, ThreadInv
<1>2. HarnessInv /\ [Next]_vars => HarnessInv'
  <2>1. ASSUME HarnessInv, Next PROVE HarnessInv'
    <3>1. ThreadInv'
      BY <2>1, ThreadInvStep DEF HarnessInv
    <3>2. HookInv'
      <4>1. (\E p \in Processes : HookNextOf(p)) \/ UNCHANGED hookVars
        BY <2>1, StepsOfTheHooks DEF HarnessInv, PoolInv, ThreadInv, MainTypes
      <4>2. CASE UNCHANGED hookVars
        BY <2>1, <4>2, HookStuttering DEF HarnessInv
      <4> QED
        BY <2>1, <4>1, <4>2, HookInvStep DEF HarnessInv
    <3>3. PoolInv'
      BY <2>1, PoolInvStep DEF HarnessInv
    <3> QED
      BY <3>1, <3>2, <3>3 DEF HarnessInv
  <2>2. ASSUME HarnessInv, UNCHANGED vars PROVE HarnessInv'
    <3>1. PoolInv'
      BY <2>2, PoolInvStep DEF HarnessInv
    <3>2. HookInv'
      BY <2>2, HookStuttering DEF HarnessInv, vars
    <3>3. ThreadInv'
      BY <2>2 DEF HarnessInv, ThreadInv, MainTypes, ThreadOf, Threads!ThreadsTypeOK, vars,
                  threadVars, mainVars, poolVars
    <3> QED
      BY <3>1, <3>2, <3>3 DEF HarnessInv
  <2> QED
    BY <2>1, <2>2
<1> QED
  BY <1>1, <1>2, PTL DEF Spec

\* Every variable of the harness keeps its type, for any number of tests, workers and
\* plugins; what it reports is a number of tests.
THEOREM TestbenchTypes == Spec => []TypeOK
<1>1. HarnessInv => TypeOK
  <2> SUFFICES ASSUME HarnessInv PROVE TypeOK
    OBVIOUS
  <2>1. PoolTypeOK /\ Threads!ThreadsTypeOK
    BY DEF HarnessInv, PoolInv, ThreadInv
  <2>2. HooksTypeOK
    <3>1. DOMAIN TestPlugins = Tests
      BY TestsAssumption
    <3> QED
      BY <3>1 DEF HarnessInv, HookInv, HookTypes, Stacks, HooksTypeOK
  <2> QED
    BY <2>1, <2>2 DEF HarnessInv, ThreadInv, MainTypes, TypeOK
<1> QED
  BY <1>1, TestbenchInvariance, PTL

\* No test leaves on what it has switched on, however it ends (testbench.h:131-139).
THEOREM NothingIsLeftOn == Spec => []NothingLeftOn
<1>1. HarnessInv => NothingLeftOn
  <2> SUFFICES ASSUME HarnessInv, NEW p \in Processes
               PROVE  /\ at[p] = "idle" => enabled[p] \subseteq SwitchedOn /\ defers[p] = <<>>
                      /\ at[p] = "dead" => enabled[p] \cap Elements(defers[p]) = {}
    BY DEF NothingLeftOn
  <2>1. HookTypes /\ Stacks(p) /\ Owed(p)
    BY DEF HarnessInv, HookInv
  <2>2. DOMAIN defers[p] = 1 .. Len(defers[p]) /\ Len(defers[p]) \in Nat
    BY <2>1, ListsOf, LenProperties
  <2>3. ASSUME at[p] = "idle" PROVE enabled[p] \subseteq SwitchedOn /\ defers[p] = <<>>
    BY <2>1, <2>3, ListsOf DEF Stacks, Owed, Enabling
  <2>4. ASSUME at[p] = "dead" PROVE enabled[p] \cap Elements(defers[p]) = {}
    <3>1. Len(left[p]) = 0
      BY <2>1, <2>4, ListsOf DEF Stacks
    <3> QED
      BY <2>1, <2>2, <2>4, <3>1 DEF Owed, Elements
  <2> QED
    BY <2>3, <2>4
<1> QED
  BY <1>1, TestbenchInvariance, PTL

\* A thread frees its flag only after it was told to stop (common.cpp:312-325, 377-381).
THEOREM FlagsOutliveStop == Spec => []FlagOutlivesStop
<1>1. HarnessInv => FlagOutlivesStop
  <2> SUFFICES ASSUME HarnessInv, NEW t \in Tests
               PROVE  /\ inTest /\ t = index => flag[t] = "run"
                      /\ thread[t] \in {"test", "print", "sleep"} => flag[t] # "freed"
    BY DEF FlagOutlivesStop
  <2>1. ThreadOf(t) /\ t \in Nat /\ index \in Nat
    BY TotalAssumption DEF HarnessInv, ThreadInv, MainTypes, Tests
  <2> QED
    BY <2>1 DEF ThreadOf
<1> QED
  BY <1>1, TestbenchInvariance, PTL

\* A thread prints at most one status line after it was told to stop (common.cpp:316-319).
THEOREM OneLateStatusAlways == Spec => []OneLateStatus
<1>1. HarnessInv => OneLateStatus
  BY DEF HarnessInv, ThreadInv, ThreadOf, OneLateStatus
<1> QED
  BY <1>1, TestbenchInvariance, PTL

\* The plugins of a test that uses each at most once are switched off in the reverse
\* order ("defer_list acts like a stack", testbench.cpp:23).
THEOREM HooksAlwaysNest == UsedOnce => (Spec => []HooksNest)
<1> SUFFICES ASSUME UsedOnce PROVE Spec => []HooksNest
  OBVIOUS
<1>1. Init => Nested
  BY DEF Init, HooksInit, Nested, NestedOf, Enabling
<1>2. HarnessInv /\ Nested /\ [Next]_vars => Nested'
  <2> SUFFICES ASSUME HarnessInv, Nested, [Next]_vars PROVE Nested'
    OBVIOUS
  <2>1. (\E p \in Processes : HookNextOf(p)) \/ UNCHANGED hookVars
    BY StepsOfTheHooks DEF HarnessInv, PoolInv, ThreadInv, MainTypes, vars
  <2>2. CASE UNCHANGED hookVars
    BY <2>2 DEF Nested, NestedOf, Enabling, Plugged, hookVars
  <2> QED
    BY <2>1, <2>2, NestedStep DEF HarnessInv
<1>3. HarnessInv /\ Nested => HooksNest
  <2> SUFFICES ASSUME HarnessInv, Nested, NEW p \in Processes, at[p] \in {"setup", "defers"},
                      NEW k \in 2 .. Len(defers[p]), defers[p][k] \in enabled[p],
                      NEW l \in 2 .. k - 1
               PROVE  defers[p][l] \in enabled[p]
    BY DEF HooksNest
  <2>1. HookTypes /\ Stacks(p) /\ Owed(p) /\ NestedOf(p)
    BY DEF HarnessInv, HookInv, Nested
  <2>2. Len(defers[p]) \in Nat /\ Len(left[p]) \in Nat /\ k \in 1 .. Len(defers[p])
        /\ l \in 2 .. Len(defers[p])
    BY <2>1, ListsOf
  <2>3. CASE at[p] = "setup"
    BY <2>1, <2>2, <2>3 DEF NestedOf
  <2>4. CASE at[p] = "defers"
    <3>1. k <= Len(left[p])
      BY <2>1, <2>2, <2>4 DEF Owed
    <3> QED
      BY <2>1, <2>2, <2>4, <3>1 DEF NestedOf
  <2> QED
    BY <2>3, <2>4
<1> QED
  BY <1>1, <1>2, <1>3, TestbenchInvariance, PTL DEF Spec

\* If main has switched logging on, the result of a test is missing only when a test of
\* the same process had the plugin LOG (testbench.h:143).
THEOREM LostOnlyToLogAlways == "log" \in SwitchedOn => (Spec => []LostOnlyToLog)
<1> SUFFICES ASSUME "log" \in SwitchedOn PROVE Spec => []LostOnlyToLog
  OBVIOUS
<1>1. Init => LogKept
  BY DEF Init, HooksInit, LogKept
<1>2. HarnessInv /\ LogKept /\ [Next]_vars => LogKept'
  <2> SUFFICES ASSUME HarnessInv, LogKept, [Next]_vars PROVE LogKept'
    OBVIOUS
  <2>1. (\E p \in Processes : HookNextOf(p)) \/ UNCHANGED hookVars
    BY StepsOfTheHooks DEF HarnessInv, PoolInv, ThreadInv, MainTypes, vars
  <2>2. CASE UNCHANGED hookVars
    BY <2>2 DEF LogKept, LogUsed, LogEnded, hookVars
  <2> QED
    BY <2>1, <2>2, LogKeptStep DEF HarnessInv
<1>3. LogKept => LostOnlyToLog
  BY DEF LogKept, LogEnded, LostOnlyToLog
<1> QED
  BY <1>1, <1>2, <1>3, TestbenchInvariance, PTL DEF Spec
=============================================================================
