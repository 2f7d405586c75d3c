------------------------------ MODULE Updater ------------------------------
(***************************************************************************)
(* "ghostroute update": AutoUpdater::check_and_update, which runs          *)
(* self-update.sh, which stops the panel, unpacks the release over the     *)
(* installation while it downloads it, and starts the panel.               *)
(*                                                                         *)
(* The check for releases never fails: the status of the pipeline is that  *)
(* of head.  Nothing keeps two updates apart, what systemctl cannot do is  *)
(* hidden (|| true), an update can end anywhere, and a new release can     *)
(* come out at any time.  systemctl start does nothing if the panel runs.  *)
(***************************************************************************)
EXTENDS Integers

CONSTANTS
  Updates,      \* CLI processes that run "ghostroute update"
  Parts,        \* the files of a release
  MaxReleases   \* how many releases there are

ASSUME UpdaterAssumption ==
  /\ Parts # {}
  /\ MaxReleases \in Nat \ {0}

Release == 1 .. MaxReleases

VARIABLES
  release,    \* the release GR_RELEASE_URL leads to
  installed,  \* the release each file of the installation is from
  panel,      \* whether the panel runs, and the release each file was from when it started
  u,          \* what each update does
  blamed      \* history: since the panel last came up, an update or a start has failed

vars == <<release, installed, panel, u, blamed>>

(***************************************************************************)
(* An update: its step, the release it downloads, the files it has yet to  *)
(* unpack, the result it reports.  alone (no other update has run since it *)
(* began) and hidden (a systemctl command failed) are history.             *)
(***************************************************************************)
Update ==
  [pc     : {"idle", "check", "script", "stop", "download", "unpack", "start", "ended"},
   got    : Release,
   todo   : SUBSET Parts,
   ok     : BOOLEAN,
   alone  : BOOLEAN,
   hidden : BOOLEAN]

NoUpdate ==
  [pc |-> "idle", got |-> 1, todo |-> {}, ok |-> FALSE, alone |-> FALSE, hidden |-> FALSE]

At(c, step) == u[c].pc = step

Others(c) == {d \in Updates \ {c} : ~At(d, "idle")}

Running == [up |-> TRUE, files |-> installed]
Stopped == [up |-> FALSE, files |-> installed]

-----------------------------------------------------------------------------
Init ==
  /\ release = 1
  /\ installed = [f \in Parts |-> 1]
  /\ panel = Running
  /\ u = [c \in Updates |-> NoUpdate]
  /\ blamed = FALSE

\* A new release comes out.
Publish ==
  /\ release < MaxReleases
  /\ release' = release + 1
  /\ UNCHANGED <<installed, panel, u, blamed>>

\* main: cmd == "update"
Begin(c) ==
  /\ At(c, "idle")
  /\ u' = [d \in Updates |->
             IF d = c THEN [NoUpdate EXCEPT !.pc = "check", !.alone = Others(c) = {}]
                      ELSE [u[d] EXCEPT !.alone = FALSE]]
  /\ UNCHANGED <<release, installed, panel, blamed>>

\* curl | grep | head: whatever comes of it.
Check(c) ==
  /\ At(c, "check")
  /\ u' = [u EXCEPT ![c].pc = "script"]
  /\ UNCHANGED <<release, installed, panel, blamed>>

\* GR_RELEASE_URL is set, or the script ends with 1.
Script(c) ==
  /\ At(c, "script")
  /\ u' \in {[u EXCEPT ![c].pc = "stop"], [u EXCEPT ![c].pc = "ended"]}
  /\ UNCHANGED <<release, installed, panel, blamed>>

\* A variant with a bug: the panel is not stopped.
StopNothing(c) ==
  /\ At(c, "stop")
  /\ u' = [u EXCEPT ![c].pc = "download"]
  /\ UNCHANGED <<release, installed, panel, blamed>>

\* systemctl stop || true
Stop(c) ==
  /\ At(c, "stop")
  /\ \/ /\ panel' = IF panel.up THEN Stopped ELSE panel
        /\ u' = [u EXCEPT ![c].pc = "download"]
     \/ /\ u' = [u EXCEPT ![c].pc = "download", ![c].hidden = TRUE]
        /\ UNCHANGED panel
  /\ UNCHANGED <<release, installed, blamed>>

\* A variant with a bug: without set -e and pipefail, the script goes on after an error.
FailedUnnoticed(c) ==
  /\ u' = [u EXCEPT ![c].pc = "start", ![c].todo = {}]
  /\ UNCHANGED blamed

\* A variant with a bug: nobody waits for the script.
FailedNowhere(c) ==
  /\ u' = [u EXCEPT ![c].pc = "failed"]
  /\ blamed' = TRUE

\* The script ends with an error: set -e, and pipefail for curl.
Failed(c) ==
  /\ u' = [u EXCEPT ![c].pc = "ended", ![c].todo = {}]
  /\ blamed' = TRUE

\* curl begins to send the release of the moment, or fails.
Download(c) ==
  /\ At(c, "download")
  /\ \/ /\ u' = [u EXCEPT ![c].pc = "unpack", ![c].got = release, ![c].todo = Parts]
        /\ UNCHANGED blamed
     \/ Failed(c)
  /\ UNCHANGED <<release, installed, panel>>

\* tar replaces a file, has replaced all of them, or ends before its time.
Unpack(c) ==
  /\ At(c, "unpack")
  /\ \/ \E f \in u[c].todo :
          /\ installed' = [installed EXCEPT ![f] = u[c].got]
          /\ u' = [u EXCEPT ![c].todo = @ \ {f}]
          /\ UNCHANGED blamed
     \/ /\ u[c].todo = {}
        /\ u' = [u EXCEPT ![c].pc = "start"]
        /\ UNCHANGED <<installed, blamed>>
     \/ Failed(c) /\ UNCHANGED installed
  /\ UNCHANGED <<release, panel>>

Succeeded(c) == [u EXCEPT ![c].pc = "ended", ![c].ok = TRUE]

\* A variant with a bug: the script does not start the panel.
StartNothing(c) ==
  /\ At(c, "start")
  /\ u' = Succeeded(c)
  /\ UNCHANGED <<release, installed, panel, blamed>>

\* systemctl start || true, and the script ends with 0.
Start(c) ==
  /\ At(c, "start")
  /\ \/ /\ panel' = IF panel.up THEN panel ELSE Running
        /\ blamed' = FALSE
        /\ u' = Succeeded(c)
     \/ /\ blamed' = TRUE
        /\ u' = [Succeeded(c) EXCEPT ![c].hidden = TRUE]
        /\ UNCHANGED panel
  /\ UNCHANGED <<release, installed>>

\* The result is printed.
End(c) ==
  /\ At(c, "ended")
  /\ u' = [u EXCEPT ![c] = NoUpdate]
  /\ UNCHANGED <<release, installed, panel, blamed>>

\* The update is interrupted, with the commands it runs.
Interrupt(c) ==
  /\ \/ u[c].pc \in {"check", "script", "stop"} /\ u' = [u EXCEPT ![c] = NoUpdate] /\ UNCHANGED blamed
     \/ u[c].pc \in {"download", "unpack", "start"} /\ Failed(c)
  /\ UNCHANGED <<release, installed, panel>>

\* Somebody starts the panel, while no update runs.
OperatorStarts ==
  /\ ~panel.up
  /\ \A c \in Updates : At(c, "idle")
  /\ panel' = Running
  /\ blamed' = FALSE
  /\ UNCHANGED <<release, installed, u>>

Next ==
  \/ Publish
  \/ OperatorStarts
  \/ \E c \in Updates :
       \/ Begin(c) \/ Check(c) \/ Script(c) \/ Stop(c) \/ Download(c) \/ Unpack(c) \/ Start(c)
       \/ End(c) \/ Interrupt(c)

Spec == Init /\ [][Next]_vars

-----------------------------------------------------------------------------
\* Every variable has its type.
TypeOK ==
  /\ release \in Release
  /\ installed \in [Parts -> Release]
  /\ panel \in [up : BOOLEAN, files : [Parts -> Release]]
  /\ u \in [Updates -> Update]
  /\ blamed \in BOOLEAN

\* An update that runs alone and reports success has installed one release as a whole, whatever
\* was left half unpacked by those that failed, and whatever release came out meanwhile.
LoneOkInstalls ==
  \A c \in Updates :
    At(c, "ended") /\ u[c].ok /\ u[c].alone => installed = [f \in Parts |-> u[c].got]

\* If systemctl did what it was told, the panel then runs that release: it was not running while
\* its files were replaced, so that start could not do nothing.
LoneOkRuns ==
  \A c \in Updates :
    At(c, "ended") /\ u[c].ok /\ u[c].alone /\ ~u[c].hidden =>
      panel = [up |-> TRUE, files |-> installed]

\* When no update runs, the panel is stopped only if an update or a start has failed since it last
\* ran: updates that overlap may stop it in any order, but do not leave it stopped by themselves.
StoppedOnlyByFailure ==
  (\A c \in Updates : At(c, "idle")) /\ ~panel.up => blamed
=============================================================================
