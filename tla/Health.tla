------------------------------- MODULE Health -------------------------------
(***************************************************************************)
(* HealthService: the worker thread of the panel that looks for the two    *)
(* cores, records what it found in table server_health and has systemctl   *)
(* restart a core that is down, and App::run, which starts and stops it.   *)
(*                                                                         *)
(* The worker looks for a core with "pgrep -f <binary>", run by the shell  *)
(* that std::system starts.  pgrep matches whole command lines: it also    *)
(* finds the "xray run -test" of a sync, and, where /bin/sh stays in the   *)
(* process list while its last command runs (dash does), that very shell.  *)
(*                                                                         *)
(* Cores crash, a sync of the users restarts them at any time, a restart   *)
(* can fail, a statement can be refused by the lock of a CLI process, and  *)
(* the panel can be killed.  MaxFaults bounds how often.                   *)
(***************************************************************************)
EXTENDS Integers

CONSTANTS
  AutoRestart,   \* cfg_.health_auto_restart
  ShellMatches,  \* whether the shell that runs pgrep is in the process list
  MaxFaults      \* how many faults there are in a behaviour

ASSUME HealthAssumption ==
  /\ AutoRestart \in BOOLEAN
  /\ ShellMatches \in BOOLEAN
  /\ MaxFaults \in Nat

Cores == {"xray", "hysteria"}

VARIABLES
  main,      \* what App::run is doing
  running,   \* HealthService::running_
  worker,    \* the worker thread: its step, the core it is at, what is_alive returned
  status,    \* server_health.status of each core
  proc,      \* what each core's process does
  testing,   \* whether a sync runs "xray run -test"
  faults

vars == <<main, running, worker, status, proc, testing, faults>>

Thread ==
  [pc    : {"none", "loop", "probe", "record", "restart", "rerecord", "sleep", "ended"},
   at    : Cores,
   alive : BOOLEAN]

NoThread == [pc |-> "none", at |-> "xray", alive |-> FALSE]

Fault == faults < MaxFaults /\ faults' = faults + 1

\* tick() is done with a core: on to the next one, or to sleep.
NextCore(t) ==
  IF t.at = "xray" THEN [t EXCEPT !.pc = "probe", !.at = "hysteria"] ELSE [t EXCEPT !.pc = "sleep"]

-----------------------------------------------------------------------------
Init ==
  /\ main = "starting"
  /\ running = FALSE
  /\ worker = NoThread
  /\ status = [k \in Cores |-> "none"]
  /\ proc = [k \in Cores |-> "up"]
  /\ testing = FALSE
  /\ faults = 0

\* health_->start(), then svr.listen().
Start ==
  /\ main = "starting"
  /\ main' = "listening"
  /\ running' = TRUE
  /\ worker' = [worker EXCEPT !.pc = "loop"]
  /\ UNCHANGED <<status, proc, testing, faults>>

\* A variant with a bug: stop() does not join.
StopDetached ==
  /\ main = "listening"
  /\ main' = "ended"
  /\ running' = FALSE
  /\ UNCHANGED <<worker, status, proc, testing, faults>>

\* svr.listen() returns and health_->stop() begins.
Stop ==
  /\ main = "listening"
  /\ main' = "joining"
  /\ running' = FALSE
  /\ UNCHANGED <<worker, status, proc, testing, faults>>

\* worker_.join() returns, and the database is closed with the App.
Join ==
  /\ main = "joining"
  /\ worker.pc = "ended"
  /\ main' = "ended"
  /\ worker' = NoThread
  /\ UNCHANGED <<running, status, proc, testing, faults>>

\* A variant with a bug: while (true).
LoopForever ==
  /\ worker.pc = "loop"
  /\ worker' = [worker EXCEPT !.pc = "probe", !.at = "xray"]
  /\ UNCHANGED <<main, running, status, proc, testing, faults>>

\* while (running_)
Loop ==
  /\ worker.pc = "loop"
  /\ worker' = IF running THEN [worker EXCEPT !.pc = "probe", !.at = "xray"]
                          ELSE [worker EXCEPT !.pc = "ended"]
  /\ UNCHANGED <<main, running, status, proc, testing, faults>>

\* Some process has the binary of core k in its command line.
Matches(k) == proc[k] = "up" \/ ShellMatches \/ (k = "xray" /\ testing)

\* is_alive
Probe ==
  /\ worker.pc = "probe"
  /\ worker' = [worker EXCEPT !.pc = "record", !.alive = Matches(worker.at)]
  /\ UNCHANGED <<main, running, status, proc, testing, faults>>

\* A variant with a bug: the flag itself is stored.
WordRaw(alive) == IF alive THEN "1" ELSE "0"

Word(alive) == IF alive THEN "alive" ELSE "dead"

\* update_service_health: the row is written, or the statement is refused and nobody notices.
Updated(word) ==
  \/ status' = [status EXCEPT ![worker.at] = word] /\ UNCHANGED faults
  \/ Fault /\ UNCHANGED status

\* A variant with a bug: only a dead core is recorded.
RecordDead ==
  /\ worker.pc = "record"
  /\ IF worker.alive THEN UNCHANGED <<status, faults>> ELSE Updated(Word(FALSE))
  /\ worker' = IF ~worker.alive /\ AutoRestart THEN [worker EXCEPT !.pc = "restart"]
                                               ELSE NextCore(worker)
  /\ UNCHANGED <<main, running, proc, testing>>

\* A variant with a bug: the "!" of "if (!alive && ...)" is missing.
RecordInverted ==
  /\ worker.pc = "record"
  /\ Updated(Word(worker.alive))
  /\ worker' = IF worker.alive /\ AutoRestart THEN [worker EXCEPT !.pc = "restart"]
                                              ELSE NextCore(worker)
  /\ UNCHANGED <<main, running, proc, testing>>

\* The first update_service_health of tick(), and what it is followed by.
Record ==
  /\ worker.pc = "record"
  /\ Updated(Word(worker.alive))
  /\ worker' = IF ~worker.alive /\ AutoRestart THEN [worker EXCEPT !.pc = "restart"]
                                               ELSE NextCore(worker)
  /\ UNCHANGED <<main, running, proc, testing>>

\* systemctl restart, as App::run's RestartFn runs it.  A core that is restarted comes up; one
\* that cannot load its configuration ends again, which systemctl may or may not report.
Restart ==
  /\ worker.pc = "restart"
  /\ \/ /\ proc' = [proc EXCEPT ![worker.at] = "up"]
        /\ worker' = [worker EXCEPT !.pc = "rerecord"]
        /\ UNCHANGED faults
     \/ /\ Fault
        /\ proc' = [proc EXCEPT ![worker.at] = "down"]
        /\ worker' \in {NextCore(worker), [worker EXCEPT !.pc = "rerecord"]}
  /\ UNCHANGED <<main, running, status, testing>>

\* The second update_service_health of tick().
Rerecord ==
  /\ worker.pc = "rerecord"
  /\ Updated(Word(TRUE))
  /\ worker' = NextCore(worker)
  /\ UNCHANGED <<main, running, proc, testing>>

\* sleep_for(health_interval_sec) is over: nothing ends it earlier.
Wake ==
  /\ worker.pc = "sleep"
  /\ worker' = [worker EXCEPT !.pc = "loop"]
  /\ UNCHANGED <<main, running, status, proc, testing, faults>>

WorkerStep == Loop \/ Probe \/ Record \/ Restart \/ Rerecord \/ Wake

-----------------------------------------------------------------------------
\* A core ends: by itself, or because a sync made it read a file it cannot load.
Crash(k) ==
  /\ proc[k] = "up"
  /\ Fault
  /\ proc' = [proc EXCEPT ![k] = "down"]
  /\ UNCHANGED <<main, running, worker, status, testing>>

\* reload() of a manager brings a core up.
Reloaded(k) ==
  /\ proc[k] = "down"
  /\ proc' = [proc EXCEPT ![k] = "up"]
  /\ UNCHANGED <<main, running, worker, status, testing, faults>>

\* The -test run of XrayManager::reload.
TestBegins ==
  /\ ~testing
  /\ Fault
  /\ testing' = TRUE
  /\ UNCHANGED <<main, running, worker, status, proc>>

TestEnds ==
  /\ testing
  /\ testing' = FALSE
  /\ UNCHANGED <<main, running, worker, status, proc, faults>>

\* The panel's process is killed: the thread goes with it, the table stays.
Kill ==
  /\ main \in {"listening", "joining"}
  /\ Fault
  /\ main' = "ended"
  /\ running' = FALSE
  /\ worker' = NoThread
  /\ UNCHANGED <<status, proc, testing>>

\* The panel is started again.
Relaunch ==
  /\ main = "ended"
  /\ main' = "starting"
  /\ UNCHANGED <<running, worker, status, proc, testing, faults>>

Next ==
  \/ Start \/ Stop \/ Join \/ Kill \/ Relaunch
  \/ WorkerStep
  \/ \E k \in Cores : Crash(k) \/ Reloaded(k)
  \/ TestBegins \/ TestEnds

\* The scheduler lets the worker run, the commands it waits for end, so does a -test run, and
\* join() returns once the thread has ended.
Fairness == WF_vars(WorkerStep) /\ WF_vars(Join) /\ WF_vars(TestEnds)

Spec == Init /\ [][Next]_vars /\ Fairness

-----------------------------------------------------------------------------
\* Every variable has its type.
TypeOK ==
  /\ main \in {"starting", "listening", "joining", "ended"}
  /\ running \in BOOLEAN
  /\ worker \in Thread
  /\ status \in [Cores -> {"none", "alive", "dead"}]
  /\ proc \in [Cores -> {"up", "down"}]
  /\ testing \in BOOLEAN
  /\ faults \in 0 .. MaxFaults

\* After stop() has returned the worker touches neither the table nor the cores: the database
\* that App closes next is no longer in use (HealthService::stop joins the thread).
NothingAfterStop ==
  [][main = "ended" => status' = status /\ worker' = worker]_vars

\* stop() returns, though the worker may be anywhere in tick() or asleep when it is called.
StopReturns == main = "joining" ~> main = "ended"

\* "Health check: monitoring of Xray/Hysteria, automatic restart" (README.md): a core that is
\* down is brought up again, as long as the panel runs.
Recovers ==
  \A k \in Cores : AutoRestart /\ main = "listening" /\ proc[k] = "down" ~>
                     proc[k] = "up" \/ main # "listening"

\* A core does not stay recorded dead: when it is up again, by whomever, the record follows,
\* also after refused statements (tick records both outcomes of is_alive).
RecordSettles ==
  \A k \in Cores : AutoRestart /\ main = "listening" /\ status[k] = "dead" ~>
                     status[k] = "alive" \/ main # "listening"
=============================================================================
