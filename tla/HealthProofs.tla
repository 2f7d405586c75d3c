---------------------------- MODULE HealthProofs ----------------------------
(***************************************************************************)
(* Proofs about the safety of Health, for any settings and any number of   *)
(* faults.  What must eventually happen is left to TLC.                    *)
(***************************************************************************)
EXTENDS Health, TLAPS

\* There is a worker thread only between start() and the return of stop().
ThreadWhileRunning == main \in {"starting", "ended"} => worker = NoThread

Inv == TypeOK /\ ThreadWhileRunning

-----------------------------------------------------------------------------
LEMMA NextCoreFact ==
  ASSUME NEW t \in Thread
  PROVE  NextCore(t) \in Thread
BY DEF NextCore, Thread, Cores

LEMMA FaultFact ==
  ASSUME TypeOK, Fault \/ UNCHANGED faults
  PROVE  faults' \in 0 .. MaxFaults
BY HealthAssumption DEF TypeOK, Fault

LEMMA UpdatedFact ==
  ASSUME TypeOK, NEW word \in {"alive", "dead"}, Updated(word)
  PROVE  /\ status' \in [Cores -> {"none", "alive", "dead"}]
         /\ faults' \in 0 .. MaxFaults
<1>1. status' \in [Cores -> {"none", "alive", "dead"}]
  BY DEF Updated, TypeOK
<1>2. Fault \/ UNCHANGED faults
  BY DEF Updated
<1> QED
  BY <1>1, <1>2, FaultFact

LEMMA InvInit == Init => Inv
<1> SUFFICES ASSUME Init PROVE Inv
  OBVIOUS
<1>1. NoThread \in Thread
  BY DEF NoThread, Thread, Cores
<1>2. 0 \in 0 .. MaxFaults
  BY HealthAssumption
<1>3. TypeOK
  BY <1>1, <1>2 DEF Init, TypeOK
<1>4. ThreadWhileRunning
  BY DEF Init, ThreadWhileRunning
<1> QED
  BY <1>3, <1>4 DEF Inv

\* A step of the worker is a step of a thread that exists.
LEMMA InvWorker == Inv /\ WorkerStep => Inv'
<1> SUFFICES ASSUME Inv, WorkerStep PROVE Inv'
  OBVIOUS
<1> USE DEF Inv
<1>1. worker.pc # "none" /\ UNCHANGED main
  BY DEF WorkerStep, Loop, Probe, Record, Restart, Rerecord, Wake
<1>2. ThreadWhileRunning'
  BY <1>1 DEF ThreadWhileRunning, NoThread
<1>3. NextCore(worker) \in Thread
  BY NextCoreFact DEF TypeOK
<1>4. CASE Loop \/ Wake
  BY <1>2, <1>4 DEF Loop, Wake, TypeOK, Thread, Cores
<1>5. CASE Probe
  <2>1. Matches(worker.at) \in BOOLEAN
    BY HealthAssumption DEF Matches, TypeOK
  <2>2. worker' \in Thread
    BY <1>5, <2>1 DEF Probe, TypeOK, Thread
  <2> QED
    BY <1>2, <1>5, <2>2 DEF Probe, TypeOK
<1>6. CASE Record
  <2>1. Word(worker.alive) \in {"alive", "dead"}
    BY DEF Word
  <2>2. /\ status' \in [Cores -> {"none", "alive", "dead"}]
        /\ faults' \in 0 .. MaxFaults
    BY <1>6, <2>1, UpdatedFact DEF Record
  <2>3. worker' \in Thread
    BY <1>3, <1>6 DEF Record, TypeOK, Thread
  <2> QED
    BY <1>2, <1>6, <2>2, <2>3 DEF Record, TypeOK
<1>7. CASE Restart
  <2>1. faults' \in 0 .. MaxFaults
    BY <1>7, FaultFact DEF Restart
  <2>2. worker' \in Thread
    BY <1>3, <1>7 DEF Restart, TypeOK, Thread
  <2>3. proc' \in [Cores -> {"up", "down"}]
    BY <1>7 DEF Restart, TypeOK
  <2> QED
    BY <1>2, <1>7, <2>1, <2>2, <2>3 DEF Restart, TypeOK
<1>8. CASE Rerecord
  <2>1. Word(TRUE) \in {"alive", "dead"}
    BY DEF Word
  <2>2. /\ status' \in [Cores -> {"none", "alive", "dead"}]
        /\ faults' \in 0 .. MaxFaults
    BY <1>8, <2>1, UpdatedFact DEF Rerecord
  <2> QED
    BY <1>2, <1>3, <1>8, <2>2 DEF Rerecord, TypeOK
<1> QED
  BY <1>4, <1>5, <1>6, <1>7, <1>8 DEF WorkerStep

LEMMA InvStep == Inv /\ [Next]_vars => Inv'
<1> SUFFICES ASSUME Inv, [Next]_vars PROVE Inv'
  OBVIOUS
<1> USE DEF Inv
<1>1. NoThread \in Thread
  BY DEF NoThread, Thread, Cores
<1>2. CASE Start
  BY <1>2 DEF Start, TypeOK, ThreadWhileRunning, Thread
<1>3. CASE Stop
  BY <1>3 DEF Stop, TypeOK, ThreadWhileRunning
<1>4. CASE Join
  BY <1>1, <1>4 DEF Join, TypeOK, ThreadWhileRunning
<1>5. CASE Kill
  <2>1. faults' \in 0 .. MaxFaults
    BY <1>5, FaultFact DEF Kill
  <2> QED
    BY <1>1, <1>5, <2>1 DEF Kill, TypeOK, ThreadWhileRunning
<1>6. CASE Relaunch
  BY <1>6 DEF Relaunch, TypeOK, ThreadWhileRunning
<1>7. CASE WorkerStep
  BY <1>7, InvWorker
<1>8. ASSUME NEW k \in Cores, Crash(k) PROVE Inv'
  <2>1. faults' \in 0 .. MaxFaults
    BY <1>8, FaultFact DEF Crash
  <2> QED
    BY <1>8, <2>1 DEF Crash, TypeOK, ThreadWhileRunning
<1>9. ASSUME NEW k \in Cores, Reloaded(k) PROVE Inv'
  BY <1>9 DEF Reloaded, TypeOK, ThreadWhileRunning
<1>10. CASE TestBegins
  <2>1. faults' \in 0 .. MaxFaults
    BY <1>10, FaultFact DEF TestBegins
  <2> QED
    BY <1>10, <2>1 DEF TestBegins, TypeOK, ThreadWhileRunning
<1>11. CASE TestEnds
  BY <1>11 DEF TestEnds, TypeOK, ThreadWhileRunning
<1>12. CASE UNCHANGED vars
  BY <1>12 DEF vars, TypeOK, ThreadWhileRunning
<1> QED
  BY <1>2, <1>3, <1>4, <1>5, <1>6, <1>7, <1>8, <1>9, <1>10, <1>11, <1>12 DEF Next

LEMMA Invariance == Spec => []Inv
<1>1. Init => Inv
  BY InvInit
<1>2. Inv /\ [Next]_vars => Inv'
  BY InvStep
<1> QED
  BY <1>1, <1>2, PTL DEF Spec

\* Every variable of Health has its type in every reachable state.
THEOREM TypeCorrect == Spec => []TypeOK
<1>1. Inv => TypeOK
  BY DEF Inv
<1> QED
  BY <1>1, Invariance, PTL

\* Once stop() has returned the worker is gone, and nothing writes the table any more.
THEOREM NothingHappensAfterStop == Spec => NothingAfterStop
<1>1. Inv /\ [Next]_vars => [main = "ended" => status' = status /\ worker' = worker]_vars
  <2> SUFFICES ASSUME Inv, Next, main = "ended"
               PROVE  status' = status /\ worker' = worker
    BY DEF vars
  <2>1. worker.pc = "none"
    BY DEF Inv, ThreadWhileRunning, NoThread
  <2>2. ~WorkerStep
    BY <2>1 DEF WorkerStep, Loop, Probe, Record, Restart, Rerecord, Wake
  <2>3. ~Start /\ ~Stop /\ ~Join /\ ~Kill
    BY DEF Start, Stop, Join, Kill
  <2> QED
    BY <2>2, <2>3 DEF Next, Relaunch, Crash, Reloaded, TestBegins, TestEnds
<1> QED
  BY <1>1, Invariance, PTL DEF Spec, NothingAfterStop

-----------------------------------------------------------------------------
(***************************************************************************)
(* The safe half of StopReturns: while App::run waits in stop(), each step *)
(* of the worker brings it nearer to its end.                              *)
(***************************************************************************)
\* The steps that are at most left of a core's check, once its probe is due.
LeftOfCheck(t) ==
  IF t.pc = "probe" THEN 4 ELSE IF t.pc = "record" THEN 3 ELSE IF t.pc = "restart" THEN 2 ELSE 1

\* The steps that are at most left until a worker that is told to stop has ended: what is left of
\* its tick, its sleep and one look at running_.
StepsLeft(t) ==
  IF t.pc \in {"none", "ended"} THEN 0
  ELSE IF t.pc = "loop" THEN 1
  ELSE IF t.pc = "sleep" THEN 2
  ELSE 2 + LeftOfCheck(t) + IF t.at = "xray" THEN 4 ELSE 0

StopHeeded == main = "joining" => ~running

LEMMA StopHeededStep == TypeOK /\ StopHeeded /\ [Next]_vars => StopHeeded'
<1> SUFFICES ASSUME StopHeeded, [Next]_vars PROVE StopHeeded'
  OBVIOUS
<1> USE DEF StopHeeded
<1>1. CASE UNCHANGED <<main, running>>
  BY <1>1
<1>2. CASE Start \/ Stop \/ Join \/ Kill \/ Relaunch
  BY <1>2 DEF Start, Stop, Join, Kill, Relaunch
<1>3. CASE WorkerStep
  BY <1>3 DEF WorkerStep, Loop, Probe, Record, Restart, Rerecord, Wake
<1> QED
  BY <1>1, <1>2, <1>3 DEF Next, vars, Crash, Reloaded, TestBegins, TestEnds

\* Whatever the worker does while stop() waits for it leaves it fewer steps to do.
StopGetsNearer ==
  [][main = "joining" /\ WorkerStep => StepsLeft(worker') < StepsLeft(worker)]_vars

LEMMA WorkerGetsNearer ==
  ASSUME TypeOK, ~running, WorkerStep
  PROVE  StepsLeft(worker') < StepsLeft(worker)
<1> USE DEF StepsLeft, LeftOfCheck
<1>0. worker \in Thread
  BY DEF TypeOK
<1>1. CASE Loop
  BY <1>0, <1>1 DEF Loop, Thread
<1>2. CASE Wake
  BY <1>0, <1>2 DEF Wake, Thread
<1>3. CASE Probe
  BY <1>0, <1>3 DEF Probe, Thread, Cores
<1>n. worker.pc \in {"record", "restart", "rerecord"} =>
        StepsLeft(NextCore(worker)) < StepsLeft(worker)
  BY <1>0 DEF NextCore, Thread, Cores
<1>4. CASE Record
  BY <1>0, <1>4, <1>n DEF Record, Thread, Cores
<1>5. CASE Restart
  BY <1>0, <1>5, <1>n DEF Restart, Thread, Cores
<1>6. CASE Rerecord
  BY <1>0, <1>6, <1>n DEF Rerecord, Thread, Cores
<1> QED
  BY <1>1, <1>2, <1>3, <1>4, <1>5, <1>6 DEF WorkerStep

\* stop() waits for at most ten steps of the worker, the commands and one sleep among them: once
\* running_ is false no step leads back to the beginning of a tick.
THEOREM StopIsNear == Spec => StopGetsNearer
<1>1. Init => StopHeeded
  BY DEF Init, StopHeeded
<1>2. TypeOK /\ StopHeeded /\ [Next]_vars =>
        [main = "joining" /\ WorkerStep => StepsLeft(worker') < StepsLeft(worker)]_vars
  BY WorkerGetsNearer DEF StopHeeded
<1> QED
  BY <1>1, <1>2, StopHeededStep, TypeCorrect, PTL DEF Spec, StopGetsNearer
=============================================================================
