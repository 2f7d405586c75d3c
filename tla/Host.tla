-------------------------------- MODULE Host --------------------------------
(***************************************************************************)
(* The machine the panel runs on: the syncs of CoreConfig among everything *)
(* else that writes the configuration files or restarts the cores.         *)
(*                                                                         *)
(*   - the provisioning scripts, which the panel runs on request: each     *)
(*     overwrites one file with a configuration without users and restarts *)
(*     the core, untested;                                                 *)
(*   - the health worker, which restarts a core that it found down;        *)
(*   - the end of the panel (killed, or stopped by self-update.sh) or of a *)
(*     CLI process, in the middle of whatever it does: the text in the     *)
(*     buffer of its stream is lost, and the file stays as it is.  A panel *)
(*     that is started again does not sync.                                *)
(*                                                                         *)
(* Of the worker only what touches the cores is here; module Health has    *)
(* the rest.  One provisioning request runs at a time.                     *)
(***************************************************************************)
EXTENDS CoreConfig

CONSTANTS
  PanelThreads,  \* the writers that are threads of the panel; the others are CLI processes
  Nobody,        \* no writer
  ShellMatches   \* whether pgrep -f finds the shell that runs it (see Health)

ASSUME HostAssumption ==
  /\ PanelThreads \subseteq Writers
  /\ Nobody \notin Writers
  /\ ShellMatches \in BOOLEAN

VARIABLES
  panel,   \* whether the panel runs
  script,  \* the provisioning script that runs
  watch,   \* the health worker
  calm     \* history: the last writer to begin, if since then nobody else has written a file

hostVars == <<file, core, stale, w, panel, script, watch, calm>>

Script == [pc : {"none", "open", "write", "restart"}, at : Cores]
Watch  == [pc : {"none", "probe", "restart"}, at : Cores]

NoScript    == [pc |-> "none", at |-> "xray"]
NoWatch     == [pc |-> "none", at |-> "xray"]
ScriptOf(k) == [pc |-> "open", at |-> k]

Other(k) == IF k = "xray" THEN "hysteria" ELSE "xray"

\* The writers that are in the middle of a sync.
Busy == {c \in Writers : ~At(c, "idle")}

-----------------------------------------------------------------------------
HostInit ==
  /\ Init
  /\ panel = "up"
  /\ script = NoScript
  /\ watch = [pc |-> "probe", at |-> "xray"]
  /\ calm = Nobody

\* A handler or a CLI process hands its list to the managers.
BeginSync(c, S) ==
  /\ c \in PanelThreads => panel = "up"
  /\ Begin(c, S)
  /\ calm' = IF Busy = {} /\ script.pc = "none" THEN c ELSE Nobody
  /\ UNCHANGED <<panel, script, watch>>

StepSync(c) ==
  /\ Step(c)
  /\ UNCHANGED <<panel, script, watch, calm>>

-----------------------------------------------------------------------------
\* POST /api/provision/xray, and /api/provision/full once install.sh and provision-nginx.sh,
\* which touch no file of a core, have succeeded.
Provision ==
  /\ panel = "up"
  /\ script.pc = "none"
  /\ script' = ScriptOf("xray")
  /\ calm' = Nobody
  /\ UNCHANGED <<confVars, panel, watch>>

\* cat > "$CFG": the shell truncates the file, or the script ends there (set -e).
ScriptOpens ==
  /\ script.pc = "open"
  /\ \/ /\ script.at \notin Unwritable
        /\ file' = [file EXCEPT ![script.at] = Empty]
        /\ script' = [script EXCEPT !.pc = "write"]
     \/ /\ script.at \in Unwritable
        /\ script' = NoScript
        /\ UNCHANGED file
  /\ UNCHANGED <<core, stale, w, panel, watch, calm>>

\* cat writes its text, which lists nobody.
ScriptWrites ==
  /\ script.pc = "write"
  /\ file' = [file EXCEPT ![script.at] = Overlay(script.at, {}, file[script.at])]
  /\ script' = [script EXCEPT !.pc = "restart"]
  /\ UNCHANGED <<core, stale, w, panel, watch, calm>>

\* systemctl restart ... || true, and on to Hysteria's script when the request was for both.
ScriptRestarts ==
  /\ script.pc = "restart"
  /\ \/ Restarts(script.at)
     \/ RestartFails(script.at) /\ UNCHANGED stale
  /\ \/ script' = NoScript
     \/ script.at = "xray" /\ panel = "up" /\ script' = ScriptOf("hysteria")
  /\ UNCHANGED <<file, w, panel, watch, calm>>

ScriptStep == ScriptOpens \/ ScriptWrites \/ ScriptRestarts

-----------------------------------------------------------------------------
\* Some process has the binary of core k in its command line: the core, also while it starts,
\* the -test run of a sync, or the shell that runs pgrep.
Matches(k) ==
  \/ ShellMatches
  \/ core[k].status # "down"
  \/ k = "xray" /\ \E c \in Writers : At(c, "test")

\* A variant with a bug: a core is restarted only while it runs.
ProbeInverted ==
  /\ watch.pc = "probe"
  /\ watch' = IF Matches(watch.at) THEN [watch EXCEPT !.pc = "restart"]
                                   ELSE [watch EXCEPT !.at = Other(watch.at)]
  /\ UNCHANGED <<confVars, panel, script, calm>>

\* is_alive: a core that is found is left alone.
Probe ==
  /\ watch.pc = "probe"
  /\ watch' = IF Matches(watch.at) THEN [watch EXCEPT !.at = Other(watch.at)]
                                   ELSE [watch EXCEPT !.pc = "restart"]
  /\ UNCHANGED <<confVars, panel, script, calm>>

\* restart_(k), whatever has happened since the probe: systemctl has done it ...
WatchRestarts(k) ==
  /\ watch = [pc |-> "restart", at |-> k]
  /\ Restarts(k)
  /\ watch' = [pc |-> "probe", at |-> Other(k)]
  /\ UNCHANGED <<file, w, panel, script, calm>>

\* ... or has failed: the worker goes on, and tries again on its next round.
WatchFails(k) ==
  /\ watch = [pc |-> "restart", at |-> k]
  /\ RestartFails(k)
  /\ watch' = [pc |-> "probe", at |-> Other(k)]
  /\ UNCHANGED <<file, stale, w, panel, script, calm>>

WatchStep == Probe \/ \E k \in Cores : WatchRestarts(k) \/ WatchFails(k)

-----------------------------------------------------------------------------
\* The syncs of the given writers end where they are.
Ended(C) == [c \in Writers |-> IF c \in C
                                    THEN [w[c] EXCEPT !.pc = "idle", !.at = "xray", !.buffered = FALSE]
                                    ELSE w[c]]

\* The panel ends.  A script that runs ends with it or runs to its end.
PanelEnds ==
  /\ panel = "up"
  /\ panel' = "down"
  /\ w' = Ended(PanelThreads)
  /\ script' \in {script, NoScript}
  /\ watch' = NoWatch
  /\ calm' = IF PanelThreads \intersect Busy = {} THEN calm ELSE Nobody
  /\ UNCHANGED <<file, core, stale>>

\* App::run: the worker starts, nothing is synced.
PanelStarts ==
  /\ panel = "down"
  /\ panel' = "up"
  /\ watch' = [pc |-> "probe", at |-> "xray"]
  /\ UNCHANGED <<confVars, script, calm>>

\* A CLI process ends in the middle of its sync.
CliEnds(c) ==
  /\ c \notin PanelThreads
  /\ ~At(c, "idle")
  /\ w' = Ended({c})
  /\ calm' = Nobody
  /\ UNCHANGED <<file, core, stale, panel, script, watch>>

CoreEnds(k) ==
  /\ core[k].status = "up"
  /\ core' = [core EXCEPT ![k] = Down]
  /\ UNCHANGED <<file, stale, w, panel, script, watch, calm>>

CoreStarts(k) ==
  /\ Start(k)
  /\ UNCHANGED <<panel, script, watch, calm>>

HostNext ==
  \/ \E c \in Writers : StepSync(c) \/ CliEnds(c) \/ \E S \in Listings : BeginSync(c, S)
  \/ Provision \/ ScriptStep
  \/ WatchStep
  \/ PanelEnds \/ PanelStarts
  \/ \E k \in Cores : CoreEnds(k) \/ CoreStarts(k)

\* The worker goes round as long as the panel runs, a restart that it tries again and again does
\* not fail for ever, and a process that was started gets to read its file.
HostFairness ==
  /\ WF_hostVars(Probe)
  /\ \A k \in Cores : SF_hostVars(WatchRestarts(k)) /\ WF_hostVars(CoreStarts(k))

HostSpec == HostInit /\ [][HostNext]_hostVars /\ HostFairness

-----------------------------------------------------------------------------
\* Every variable has its type.
HostTypeOK ==
  /\ TypeOK
  /\ panel \in {"up", "down"}
  /\ script \in Script
  /\ watch \in Watch
  /\ calm \in Writers \union {Nobody}

\* The sync of calm has run from start to end while nobody else wrote a file.
Settled == calm # Nobody /\ At(calm, "idle")

\* One undisturbed sync repairs the files, whatever was left by processes that ended in the
\* middle of a write, by provisioning scripts and by syncs that overlapped, and whenever the
\* worker restarts a core or a core ends meanwhile.
UndisturbedSyncSettles ==
  Settled => \A k \in Cores \ Unwritable : file[k] = Text(k, w[calm].listed)

Undisturbed == Settled /\ panel = "up"

\* A file is empty, and nobody who is at work holds a text for it.
Stranded(k) ==
  /\ file[k].len = 0
  /\ \A c \in Writers : ~Holds(c, k)
  /\ ~(script.pc = "write" /\ script.at = k)

\* Only the end of a process strands an empty configuration: neither syncs and scripts that
\* truncate each other's files do, nor the worker.
OnlyEndsStrand ==
  [][\A k \in Cores : Stranded(k)' =>
       Stranded(k) \/ PanelEnds \/ \E c \in Writers : CliEnds(c)]_hostVars

\* What no restart repairs: the -test run reads a file whose text is still in the buffer, and
\* xray is not restarted.
ReadInTime(k) == k = "xray" => Length[k][w[calm].listed] >= BufSize

\* After an undisturbed sync no core serves anybody but those it listed, whoever restarts the core
\* when: what it served before, or what a half-written file made of it, is gone.  The exception
\* is the core that the sync could not restart, which nobody notices: its users stay.
SettledCoresServeNobodyElse ==
  Settled => \A k \in Cores \ (Unwritable \union stale) :
               ReadInTime(k) => core[k] \in {Down, Starting, Up(w[calm].listed)}

\* After an undisturbed sync the cores come to serve its list, if the panel keeps running, no
\* other sync begins and the worker's probe sees a core that is down.  Hysteria does so even if
\* its text was still in the buffer when it was restarted, because the worker restarts it again;
\* xray only if its text went to the file at once.  A core whose restart failed comes to serve it
\* too if that left it stopped: only one that runs on with its old users is never restarted.
CoresComeToServe ==
  \A k \in Cores \ Unwritable :
    ~ShellMatches /\ Undisturbed /\ ReadInTime(k) /\ (k \in stale => core[k] = Down)
      ~> (Undisturbed => core[k] = Up(w[calm].listed))
=============================================================================
