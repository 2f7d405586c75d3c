----------------------------- MODULE CoreConfig -----------------------------
(***************************************************************************)
(* Handing the list of users to the VPN cores: XrayManager::sync_users and *)
(* HysteriaManager::sync_users, one after the other, as every handler of   *)
(* the panel and every "ghostroute user" command that changes a user runs  *)
(* them.  There is one configuration file per core and no lock around it,  *)
(* so the writers, threads and processes alike, interleave.                *)
(*                                                                         *)
(* A std::ofstream truncates the file when it is opened.  What is written  *)
(* to it stays in the stream's buffer until its destructor runs, at the    *)
(* return of sync_users and thus after reload(), unless the text is as     *)
(* long as the buffer and goes to the file at once.  A stream writes at    *)
(* its own offset: text that reaches the file over the longer text of      *)
(* another stream leaves the end of that text behind it.                   *)
(*                                                                         *)
(* The results of both sync_users are ignored by all callers, and with    *)
(* them a systemctl that fails: it is refused, or the core is stopped and  *)
(* not started again.  The cores are external; a core accepts the text of  *)
(* a generated configuration.  systemctl returns when the core has read    *)
(* its configuration only if the core's unit is of a type that reports its *)
(* start; of the others it just starts the process, which reads the file   *)
(* when it gets to it.                                                     *)
(***************************************************************************)
EXTENDS Integers

CONSTANTS
  Writers,     \* handler threads and CLI processes
  Users,       \* the entries a configuration can list
  Listings,    \* the lists of enabled users a writer can be given
  Length,      \* [Cores -> [SUBSET Users -> length of the text that lists them]]
  BufSize,     \* the length from which an ofstream bypasses its buffer
  Unwritable,  \* the cores whose file cannot be opened for writing
  Notifying    \* the cores that systemctl waits for

Cores == {"xray", "hysteria"}

ASSUME CoreAssumption ==
  /\ Writers # {}
  /\ Listings \subseteq SUBSET Users
  /\ Length \in [Cores -> [SUBSET Users -> Nat \ {0}]]
  /\ BufSize \in Nat
  /\ Unwritable \subseteq Cores
  /\ Notifying \subseteq Cores

VARIABLES
  file,    \* what a reader of each configuration file finds
  core,    \* what each core does
  stale,   \* history: the cores that the last sync to begin failed to restart while no other ran,
           \* and that nobody has restarted since
  w        \* the sync each writer is running

confVars == <<file, core, stale, w>>

(***************************************************************************)
(* A file: the users its text lists, its length, and the users whose lines *)
(* may be left behind the end of that text.  An empty file has length 0.   *)
(***************************************************************************)
File == [users : SUBSET Users, len : Nat, tail : SUBSET Users]

Text(k, S) == [users |-> S, len |-> Length[k][S], tail |-> {}]
Empty      == [users |-> {}, len |-> 0, tail |-> {}]

\* The file after the text for S was written over it from offset 0.
Overlay(k, S, old) ==
  IF old.len > Length[k][S]
    THEN [users |-> S, len |-> old.len, tail |-> old.users \union old.tail]
    ELSE Text(k, S)

Core == [status : {"up", "starting", "down"}, users : SUBSET Users]

Down     == [status |-> "down", users |-> {}]
Starting == [status |-> "starting", users |-> {}]
Up(S)    == [status |-> "up", users |-> S]

\* What becomes of a core that reads file f: it exits on an empty file, it serves the users
\* of a complete text, and whether it takes a text with a remnant behind it is up to its parser.
Loads(k, f) ==
  IF f.len = 0 THEN {Down}
  ELSE IF f.len = Length[k][f.users] THEN {Up(f.users)}
  ELSE {Down} \union {Up(f.users \union T) : T \in SUBSET f.tail}

(***************************************************************************)
(* A sync: the step it is at, the core it is at, the list it was given and *)
(* whether the text is still in the stream's buffer.                       *)
(***************************************************************************)
Sync ==
  [pc       : {"idle", "open", "write", "test", "reload", "close"},
   at       : Cores,
   listed   : SUBSET Users,
   buffered : BOOLEAN]

At(c, step) == w[c].pc = step

\* No writer but c is in a sync.
Alone(c) == \A d \in Writers \ {c} : At(d, "idle")

\* sync_users of one manager has returned: the caller goes on with Hysteria, or is done.
Returned(c) ==
  IF w[c].at = "xray" THEN [w[c] EXCEPT !.pc = "open", !.at = "hysteria", !.buffered = FALSE]
                      ELSE [w[c] EXCEPT !.pc = "idle", !.at = "xray", !.buffered = FALSE]

-----------------------------------------------------------------------------
\* The provisioning scripts have installed configurations without users and started the cores.
Init ==
  /\ file = [k \in Cores |-> Text(k, {})]
  /\ core = [k \in Cores |-> Up({})]
  /\ stale = {}
  /\ w = [c \in Writers |-> [pc |-> "idle", at |-> "xray", listed |-> {}, buffered |-> FALSE]]

\* xray_->sync_users(users): the configuration is generated from the list of enabled users.
Begin(c, S) ==
  /\ At(c, "idle")
  /\ w' = [w EXCEPT ![c] = [pc |-> "open", at |-> "xray", listed |-> S, buffered |-> FALSE]]
  /\ stale' = {}
  /\ UNCHANGED <<file, core>>

\* A variant with a bug: the file is opened without being truncated.
OpenKeeping(c) ==
  /\ At(c, "open")
  /\ w' = [w EXCEPT ![c].pc = "write"]
  /\ UNCHANGED <<file, core, stale>>

\* A variant with a bug: a list of nobody is not worth a file.
OpenUnlessNobody(c) ==
  /\ At(c, "open")
  /\ \/ /\ w[c].at \notin Unwritable /\ w[c].listed # {}
        /\ file' = [file EXCEPT ![w[c].at] = Empty]
        /\ w' = [w EXCEPT ![c].pc = "write"]
     \/ /\ w[c].at \in Unwritable \/ w[c].listed = {}
        /\ w' = [w EXCEPT ![c] = Returned(c)]
        /\ UNCHANGED file
  /\ UNCHANGED <<core, stale>>

\* std::ofstream out(path)
Open(c) ==
  /\ At(c, "open")
  /\ \/ /\ w[c].at \notin Unwritable
        /\ file' = [file EXCEPT ![w[c].at] = Empty]
        /\ w' = [w EXCEPT ![c].pc = "write"]
     \/ /\ w[c].at \in Unwritable
        /\ w' = [w EXCEPT ![c] = Returned(c)]
        /\ UNCHANGED file
  /\ UNCHANGED <<core, stale>>

\* out << text: only a text that fills the buffer reaches the file here.
Buffers(c) == Length[w[c].at][w[c].listed] < BufSize

\* A variant with a bug: what is left of the old text is taken for the file.
FlushedRemnant(c) ==
  [file EXCEPT ![w[c].at].users = w[c].listed, ![w[c].at].len = @ - Length[w[c].at][w[c].listed]]

Flushed(c) == [file EXCEPT ![w[c].at] = Overlay(w[c].at, w[c].listed, file[w[c].at])]

\* A variant with a bug: reload() runs before "out << text".
WriteLater(c) ==
  /\ At(c, "write")
  /\ w' = [w EXCEPT ![c].pc = IF w[c].at = "xray" THEN "test" ELSE "reload", ![c].buffered = TRUE]
  /\ UNCHANGED <<file, core, stale>>

Write(c) ==
  /\ At(c, "write")
  /\ file' = IF Buffers(c) THEN file ELSE Flushed(c)
  /\ w' = [w EXCEPT ![c].pc = IF w[c].at = "xray" THEN "test" ELSE "reload",
                    ![c].buffered = Buffers(c)]
  /\ UNCHANGED <<core, stale>>

\* A variant with a bug: reload() without its -test run.
Untested(c) ==
  /\ At(c, "test")
  /\ w' = [w EXCEPT ![c].pc = "reload"]
  /\ UNCHANGED <<file, core, stale>>

\* xray run -test -config: XrayManager::reload returns when it fails.
Test(c) ==
  /\ At(c, "test")
  /\ \E outcome \in Loads(w[c].at, file[w[c].at]) :
       w' = [w EXCEPT ![c].pc = IF outcome.status = "up" THEN "reload" ELSE "close"]
  /\ UNCHANGED <<file, core, stale>>

\* What systemctl reload or restart makes of core k before it returns.
Restarted(k) == IF k \in Notifying THEN Loads(k, file[k]) ELSE {Starting}

\* systemctl has restarted core k, or made it reload.
Restarts(k) ==
  /\ core' \in {[core EXCEPT ![k] = new] : new \in Restarted(k)}
  /\ stale' = stale \ {k}

\* systemctl has failed: core k runs on as it did, or has been stopped and not started again.
RestartFails(k) == core' \in {core, [core EXCEPT ![k] = Down]}

\* A variant with a bug: Hysteria is not restarted.
ReloadXray(c) ==
  /\ At(c, "reload")
  /\ core' \in {IF w[c].at = "xray" THEN [core EXCEPT !["xray"] = new] ELSE core :
                  new \in Restarted(w[c].at)}
  /\ w' = [w EXCEPT ![c].pc = "close"]
  /\ UNCHANGED <<file, stale>>

\* reload() of either manager.
Reload(c) ==
  /\ At(c, "reload")
  /\ \/ Restarts(w[c].at)
     \/ /\ RestartFails(w[c].at)
        /\ stale' = IF Alone(c) THEN stale \union {w[c].at} ELSE stale
  /\ w' = [w EXCEPT ![c].pc = "close"]
  /\ UNCHANGED file

\* A variant with a bug: the buffer is discarded.
CloseDiscarding(c) ==
  /\ At(c, "close")
  /\ w' = [w EXCEPT ![c] = Returned(c)]
  /\ UNCHANGED <<file, core, stale>>

\* The destructor of the ofstream flushes what is still in its buffer.
Close(c) ==
  /\ At(c, "close")
  /\ file' = IF w[c].buffered THEN Flushed(c) ELSE file
  /\ w' = [w EXCEPT ![c] = Returned(c)]
  /\ UNCHANGED <<core, stale>>

Step(c) == Open(c) \/ Write(c) \/ Test(c) \/ Reload(c) \/ Close(c)

\* A core that was only started reads its file.
Start(k) ==
  /\ core[k] = Starting
  /\ core' \in {[core EXCEPT ![k] = new] : new \in Loads(k, file[k])}
  /\ UNCHANGED <<file, stale, w>>

Next ==
  \/ \E c \in Writers : Step(c) \/ \E S \in Listings : Begin(c, S)
  \/ \E k \in Cores : Start(k)

Spec == Init /\ [][Next]_confVars

-----------------------------------------------------------------------------
\* Every variable has its type.
TypeOK ==
  /\ file \in [Cores -> File]
  /\ core \in [Cores -> Core]
  /\ stale \subseteq Cores
  /\ w \in [Writers -> Sync]

Quiet == \A c \in Writers : At(c, "idle")

\* The text of c for core k has yet to reach the file.
Holds(c, k) == w[c].at = k /\ (At(c, "write") \/ w[c].buffered)

\* c is going to put its list into the file of core k.
Owes(c, k) ==
  \/ At(c, "open") /\ w[c].at = k
  \/ Holds(c, k)
  \/ w[c].at = "xray" /\ ~At(c, "idle") /\ k = "hysteria"

\* A configuration file is empty only while some writer still holds the text for it,
\* however the opens, writes and destructors of the writers interleave.
EmptyIsOwed ==
  \A k \in Cores : file[k].len = 0 => \E c \in Writers : Holds(c, k)

\* Text is in the buffer of a stream only between "out << text" and the end of sync_users.
BufferedInSync == \A c \in Writers : w[c].buffered => w[c].pc \in {"test", "reload", "close"}

\* Each file lists the last list of some writer, or a writer is going to put its own there.
FileListedOrOwed ==
  \A k \in Cores \ Unwritable :
    (\E c \in Writers : Owes(c, k)) \/ (\E c \in Writers : file[k].users = w[c].listed)

\* What the interleavings of any number of writers preserve.
IInv == TypeOK /\ BufferedInSync /\ EmptyIsOwed /\ FileListedOrOwed

\* When all writers are done, the text in a file is the last list of one of them: no list
\* that its own writer has replaced since is left in the file (ofstream truncates, so the
\* text of an earlier sync never survives the next sync of the same writer).
QuietFileIsALastList ==
  Quiet => \A k \in Cores \ Unwritable : \E c \in Writers : file[k].users = w[c].listed

\* ... and nobody else's lines are left in it, not even behind that text: a user that is in no
\* writer's last list cannot come back by what a parser makes of a remnant.
QuietFileHoldsNobodyElse ==
  Quiet => \A k \in Cores \ Unwritable :
             file[k].users \union file[k].tail \subseteq UNION {w[c].listed : c \in Writers}

\* A sync that comes alone never brings xray down, unless systemctl fails: the -test run keeps
\* reload() from a file xray cannot load.
XrayStaysUp ==
  [][core["xray"].status # "down" /\ core'["xray"].status = "down" => "xray" \in stale']_confVars

\* When reload() makes a core read its configuration, a text that does not fit the buffer
\* has been written, in full and with nothing of an older text behind it.
WrittenWhenReloaded ==
  \A c \in Writers :
    (At(c, "reload") \/ At(c, "test")) /\ Length[w[c].at][w[c].listed] >= BufSize =>
      file[w[c].at] = Text(w[c].at, w[c].listed)

\* When the writers are done, every core serves the users its file lists, or is going to, if
\* that text did not fit the buffer and systemctl has not failed.
QuietMeansServed ==
  Quiet => \A k \in Cores \ stale : file[k].len >= BufSize => core[k] \in {Starting, Up(file[k].users)}

\* A core that serves users serves the whole of a list that some writer was given, never a
\* mixture of two lists.
ServesOneList ==
  \A k \in Cores : core[k].users \in Listings \union {{}}

(***************************************************************************)
(* A single writer and the cores that systemctl waits for, seen as         *)
(* CoreService: a list that does not fit the buffer is served; xray keeps  *)
(* what it served when the list is still in the buffer, as -test finds an  *)
(* empty file, where Hysteria is restarted on it and ends; a file that     *)
(* cannot be opened leaves its core as it is.  A failing systemctl hands   *)
(* the list over in vain.                                                  *)
(***************************************************************************)
Served(k) == IF core[k].status = "up" THEN {core[k].users} ELSE {}

\* The cores to whom c has not handed its list yet: reload() is the moment.
Ahead(c) ==
  {k \in Cores : /\ ~At(c, "idle")
                 /\ \/ w[c].at = k /\ ~At(c, "close")
                    \/ w[c].at = "xray" /\ k = "hysteria"}

Long(k) == {S \in SUBSET Users : Length[k][S] >= BufSize}

Service ==
  INSTANCE CoreService WITH
    Cores  <- Notifying,
    Prompt <- [k \in Notifying |-> IF k \in Unwritable THEN {} ELSE Long(k)],
    Kept   <- [k \in Notifying |-> IF k \in Unwritable THEN SUBSET Users
                                  ELSE IF k = "xray" THEN (SUBSET Users) \ Long(k) ELSE {}],
    served <- [k \in Notifying |-> Served(k)],
    stale  <- stale \intersect Notifying,
    given  <- [c \in Writers |-> w[c].listed],
    todo   <- [c \in Writers |-> Ahead(c) \intersect Notifying]

\* Opens, writes, tests, reloads and destructors of one sync after another amount to one atomic
\* handing over of the list to each core.
ImplementsService == Service!Spec
=============================================================================
