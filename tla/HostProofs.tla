----------------------------- MODULE HostProofs -----------------------------
(***************************************************************************)
(* Proofs about Host, for any number of threads and CLI processes, any     *)
(* lists and any lengths of their texts.  The lemmas about CoreConfig that *)
(* do not rest on its initial state are used again.                        *)
(***************************************************************************)
EXTENDS Host, CoreConfigProofs

(***************************************************************************)
(* What holds of a sync as long as nobody else has written a file since it *)
(* began, with x its record and f the files: the file it is at is empty    *)
(* until it has its text, and the file it has left has its text.           *)
(***************************************************************************)
SyncOK(x, f) ==
  /\ x.at = "hysteria" /\ "xray" \notin Unwritable => f["xray"] = Text("xray", x.listed)
  /\ x.pc = "write" => f[x.at] = Empty
  /\ x.pc \in {"test", "reload", "close"} =>
       f[x.at] = IF x.buffered THEN Empty ELSE Text(x.at, x.listed)
  /\ x.pc = "idle" => \A k \in Cores \ Unwritable : f[k] = Text(k, x.listed)

HInv ==
  /\ HostTypeOK
  /\ calm # Nobody => /\ script.pc = "none"
                      /\ \A d \in Writers \ {calm} : At(d, "idle")
                      /\ SyncOK(w[calm], file)

-----------------------------------------------------------------------------
LEMMA HInvInit == HostInit => HInv
<1> SUFFICES ASSUME HostInit PROVE HInv
  OBVIOUS
<1>1. TypeOK
  BY TypeInit DEF HostInit
<1> QED
  BY <1>1, HostAssumption
     DEF HostInit, HInv, HostTypeOK, Script, Watch, NoScript, Cores

\* Only a sync that is going on takes a step.
LEMMA StepIsBusy == ASSUME NEW c \in Writers, Step(c) PROVE ~At(c, "idle")
BY DEF Step, Open, Write, Test, Reload, Close, At

\* A step of the sync whose record is w[c].
LEMMA SyncStep ==
  ASSUME TypeOK, NEW c \in Writers, Step(c), SyncOK(w[c], file)
  PROVE  SyncOK(w'[c], file')
<1>1. w[c] \in Sync /\ w[c].at \in Cores /\ w[c].listed \in SUBSET Users
  BY DEF TypeOK, Sync
<1>2. \A k \in Cores : k = "xray" \/ k = "hysteria"
  BY DEF Cores
<1>3. /\ Returned(c).listed = w[c].listed
      /\ IF w[c].at = "xray" THEN Returned(c).pc = "open" /\ Returned(c).at = "hysteria"
                             ELSE Returned(c).pc = "idle" /\ Returned(c).at = "xray"
  BY <1>1, <1>2 DEF Returned, Sync
<1>4. w'[c].listed = w[c].listed
  BY OwnRecord
<1>5. CASE Open(c) /\ w[c].at \notin Unwritable
  <2>1. w'[c].pc = "write" /\ w'[c].at = w[c].at
    BY <1>5, OwnRecord
  <2>2. file' = [file EXCEPT ![w[c].at] = Empty]
    BY <1>5 DEF Open
  <2> QED
    BY <1>1, <1>4, <1>5, <2>1, <2>2 DEF SyncOK, TypeOK, Open, At
<1>6. CASE Open(c) /\ w[c].at \in Unwritable
  <2>1. w'[c] = Returned(c) /\ file' = file
    BY <1>6, OwnRecord DEF Open
  <2> QED
    BY <1>1, <1>2, <1>3, <1>4, <1>6, <2>1 DEF SyncOK, Open, At
<1>7. CASE Write(c)
  <2>1. /\ w'[c].pc \in {"test", "reload"} /\ w'[c].at = w[c].at /\ w'[c].buffered = Buffers(c)
        /\ w[c].pc = "write"
    BY <1>7, OwnRecord DEF Write, At
  <2>2. file[w[c].at] = Empty
    BY <2>1 DEF SyncOK
  <2>3. CASE Buffers(c)
    <3>1. w'[c].buffered = TRUE
      BY <2>1, <2>3 DEF Buffers
    <3> QED
      BY <1>4, <1>7, <2>1, <2>2, <2>3, <3>1 DEF SyncOK, Write
  <2>4. CASE ~Buffers(c)
    <3>1. file' = [file EXCEPT ![w[c].at] = Text(w[c].at, w[c].listed)]
      <4>1. Flushed(c) = [file EXCEPT ![w[c].at] = Text(w[c].at, w[c].listed)]
        BY <1>1, <2>2, WholeTexts DEF Flushed
      <4> QED
        BY <1>7, <2>4, <4>1 DEF Write
    <3>2. w'[c].buffered = FALSE
      <4>1. Buffers(c) \in BOOLEAN
        BY DEF Buffers
      <4>2. Buffers(c) = FALSE
        BY <2>4, <4>1
      <4> QED
        BY <2>1, <4>2
    <3> QED
      BY <1>1, <1>4, <2>1, <3>1, <3>2 DEF SyncOK, TypeOK, Cores
  <2> QED
    BY <2>3, <2>4
<1>8. CASE Test(c) \/ Reload(c)
  <2>1. /\ w'[c].pc \in {"reload", "close"} /\ w'[c].at = w[c].at
        /\ w'[c].buffered = w[c].buffered /\ file' = file /\ w[c].pc \in {"test", "reload"}
    BY <1>8, OwnRecord DEF Test, Reload, At
  <2> QED
    BY <1>4, <2>1 DEF SyncOK
<1>9. CASE Close(c)
  <2>1. w'[c] = Returned(c) /\ w[c].pc = "close"
    BY <1>9, OwnRecord DEF Close, At
  <2>2. file' = [file EXCEPT ![w[c].at] = Text(w[c].at, w[c].listed)]
    <3>1. CASE w[c].buffered
      <4>1. file[w[c].at] = Empty
        BY <2>1, <3>1 DEF SyncOK
      <4> QED
        BY <1>1, <1>9, <3>1, <4>1, WholeTexts DEF Close, Flushed
    <3>2. CASE ~w[c].buffered
      <4>1. file[w[c].at] = Text(w[c].at, w[c].listed) /\ file' = file
        BY <1>9, <2>1, <3>2 DEF SyncOK, Close
      <4> QED
        BY <1>1, <4>1 DEF TypeOK
    <3> QED
      BY <3>1, <3>2
  <2>3. \A k \in Cores : file'[k] = IF k = w[c].at THEN Text(w[c].at, w[c].listed) ELSE file[k]
    BY <1>1, <2>2 DEF TypeOK
  <2> QED
    BY <1>1, <1>2, <1>3, <1>4, <2>1, <2>3 DEF SyncOK, Cores
<1> QED
  BY <1>5, <1>6, <1>7, <1>8, <1>9 DEF Step

-----------------------------------------------------------------------------
LEMMA ConfTypes == ASSUME TypeOK, Next PROVE TypeOK'
BY TypeStep

LEMMA BeginSyncStep ==
  ASSUME HInv, NEW c \in Writers, NEW S \in Listings, BeginSync(c, S)
  PROVE  HInv'
<1>1. TypeOK'
  BY ConfTypes DEF HInv, HostTypeOK, BeginSync, Next
<1>2. HostTypeOK'
  BY <1>1 DEF HInv, HostTypeOK, BeginSync
<1>3. w'[c].pc = "open" /\ w'[c].at = "xray" /\ \A d \in Writers \ {c} : w'[d] = w[d]
  BY DEF HInv, HostTypeOK, TypeOK, Sync, BeginSync, Begin
<1>4. ASSUME calm' # Nobody
      PROVE  /\ calm' = c /\ script'.pc = "none"
             /\ \A d \in Writers \ {c} : At(d, "idle")'
  BY <1>3, <1>4 DEF BeginSync, Busy, At
<1> QED
  BY <1>2, <1>3, <1>4 DEF HInv, SyncOK

\* Whoever has been calm is the only one whose sync can go on.
LEMMA StepSyncStep == ASSUME HInv, NEW c \in Writers, StepSync(c) PROVE HInv'
<1>1. Step(c) /\ UNCHANGED <<panel, script, watch, calm>>
  BY DEF StepSync
<1>2. HostTypeOK'
  BY <1>1, ConfTypes DEF HInv, HostTypeOK, Next
<1>3. ASSUME calm # Nobody
      PROVE  (\A d \in Writers \ {calm} : At(d, "idle")') /\ SyncOK(w[calm], file)'
  <2>1. c = calm
    BY <1>1, <1>3, StepIsBusy DEF HInv
  <2>2. \A d \in Writers \ {c} : w'[d] = w[d]
    BY <1>1, OthersKeep DEF HInv, HostTypeOK
  <2> QED
    BY <1>1, <1>3, <2>1, <2>2, SyncStep DEF HInv, HostTypeOK, At
<1> QED
  BY <1>1, <1>2, <1>3 DEF HInv

LEMMA ProvisionStep == HInv /\ Provision => HInv'
BY DEF HInv, HostTypeOK, Provision, ScriptOf, Script, Cores, TypeOK, confVars

\* What a systemctl that does its work, or fails, makes of core k.
LEMMA RestartTypes ==
  ASSUME TypeOK, NEW k \in Cores, Restarts(k) \/ (RestartFails(k) /\ UNCHANGED stale)
  PROVE  core' \in [Cores -> Core] /\ stale' \subseteq Cores
<1>1. Restarted(k) \subseteq Core
  BY LoadsFact DEF TypeOK, Restarted, Starting, Core
<1>2. Down \in Core
  BY DEF Down, Core
<1>3. CASE Restarts(k)
  BY <1>1, <1>3 DEF TypeOK, Restarts
<1>4. CASE RestartFails(k) /\ UNCHANGED stale
  BY <1>2, <1>4 DEF TypeOK, RestartFails
<1> QED
  BY <1>3, <1>4

\* A script runs only while nobody is calm.
LEMMA ScriptSteps == HInv /\ ScriptStep => HInv'
<1> SUFFICES ASSUME HInv, ScriptStep PROVE HInv'
  OBVIOUS
<1>1. calm = Nobody /\ UNCHANGED <<w, panel, watch, calm>>
  BY DEF HInv, ScriptStep, ScriptOpens, ScriptWrites, ScriptRestarts
<1>2. script.at \in Cores /\ file[script.at] \in File
  BY DEF HInv, HostTypeOK, TypeOK, Script
<1>3. file' \in [Cores -> File]
  <2>1. Empty \in File
    BY DEF Empty, File
  <2>2. Overlay(script.at, {}, file[script.at]) \in File
    BY <1>2, OverlayFact
  <2> QED
    BY <1>2, <2>1, <2>2
       DEF HInv, HostTypeOK, TypeOK, ScriptStep, ScriptOpens, ScriptWrites, ScriptRestarts
<1>4. core' \in [Cores -> Core] /\ stale' \subseteq Cores
  <2>1. CASE UNCHANGED <<core, stale>>
    BY <2>1 DEF HInv, HostTypeOK, TypeOK
  <2>2. CASE ScriptRestarts
    BY <1>2, <2>2, RestartTypes DEF HInv, HostTypeOK, TypeOK, ScriptRestarts
  <2> QED
    BY <2>1, <2>2 DEF ScriptStep, ScriptOpens, ScriptWrites
<1>5. script' \in Script
  BY DEF HInv, HostTypeOK, ScriptStep, ScriptOpens, ScriptWrites, ScriptRestarts, Script, NoScript,
         ScriptOf, Cores
<1> QED
  BY <1>1, <1>3, <1>4, <1>5 DEF HInv, HostTypeOK, TypeOK

\* The worker, a core that ends and one that reads its file leave the files alone.
LEMMA FilesKept ==
  ASSUME HInv, UNCHANGED <<file, w, panel, script, calm>>,
         core' \in [Cores -> Core], stale' \subseteq Cores, watch' \in Watch
  PROVE  HInv'
BY DEF HInv, HostTypeOK, TypeOK, At

LEMMA WatchSteps == HInv /\ WatchStep => HInv'
<1> SUFFICES ASSUME HInv, WatchStep PROVE HInv'
  OBVIOUS
<1>1. watch.at \in Cores /\ Other(watch.at) \in Cores
  BY DEF HInv, HostTypeOK, Watch, Other, Cores
<1>2. CASE Probe
  <2>1. watch' \in Watch /\ UNCHANGED <<file, core, stale, w, panel, script, calm>>
    BY <1>1, <1>2 DEF HInv, HostTypeOK, Probe, Watch, confVars
  <2> QED
    BY <2>1, FilesKept DEF HInv, HostTypeOK, TypeOK
<1>3. ASSUME NEW k \in Cores, WatchRestarts(k) \/ WatchFails(k) PROVE HInv'
  <2>1. Other(k) \in Cores
    BY DEF Other, Cores
  <2>2. watch' \in Watch /\ UNCHANGED <<file, w, panel, script, calm>>
    BY <1>3, <2>1 DEF WatchRestarts, WatchFails, Watch
  <2>3. core' \in [Cores -> Core] /\ stale' \subseteq Cores
    BY <1>3, RestartTypes DEF HInv, HostTypeOK, WatchRestarts, WatchFails
  <2> QED
    BY <2>2, <2>3, FilesKept
<1> QED
  BY <1>2, <1>3 DEF WatchStep

LEMMA CoreSteps == ASSUME HInv, NEW k \in Cores, CoreEnds(k) \/ CoreStarts(k) PROVE HInv'
<1>1. core' \in [Cores -> Core]
  <2>1. CASE CoreEnds(k)
    BY <2>1 DEF HInv, HostTypeOK, TypeOK, CoreEnds, Down, Core
  <2>2. CASE CoreStarts(k)
    BY <2>2, LoadsFact DEF HInv, HostTypeOK, TypeOK, CoreStarts, Start
  <2> QED
    BY <2>1, <2>2
<1> QED
  BY <1>1, FilesKept DEF HInv, HostTypeOK, TypeOK, CoreEnds, CoreStarts, Start

\* What is left of the syncs that end.
LEMMA EndedFact ==
  ASSUME TypeOK, NEW C
  PROVE  /\ Ended(C) \in [Writers -> Sync]
         /\ \A c \in Writers : At(c, "idle") => /\ Ended(C)[c].pc = "idle"
                                                /\ Ended(C)[c].at \in {"xray", w[c].at}
                                                /\ Ended(C)[c].listed = w[c].listed
         /\ \A c \in Writers \ C : Ended(C)[c] = w[c]
BY DEF TypeOK, Ended, Sync, At, Cores

LEMMA PanelEndsStep == HInv /\ PanelEnds => HInv'
<1> SUFFICES ASSUME HInv, PanelEnds PROVE HInv'
  OBVIOUS
<1>1. /\ Ended(PanelThreads) \in [Writers -> Sync]
      /\ \A c \in Writers : At(c, "idle") => /\ Ended(PanelThreads)[c].pc = "idle"
                                             /\ Ended(PanelThreads)[c].at \in {"xray", w[c].at}
                                             /\ Ended(PanelThreads)[c].listed = w[c].listed
      /\ \A c \in Writers \ PanelThreads : Ended(PanelThreads)[c] = w[c]
  BY EndedFact DEF HInv, HostTypeOK
<1>2. w' = Ended(PanelThreads) /\ UNCHANGED <<file, core, stale>>
  BY DEF PanelEnds
<1>3. HostTypeOK'
  BY <1>1, <1>2
     DEF HInv, HostTypeOK, TypeOK, PanelEnds, NoScript, Script, NoWatch, Watch, Cores
<1>4. ASSUME calm' # Nobody
      PROVE  /\ script'.pc = "none"
             /\ \A d \in Writers \ {calm'} : At(d, "idle")'
             /\ SyncOK(w'[calm'], file')
  <2>1. calm' = calm /\ calm \in Writers /\ PanelThreads \intersect Busy = {}
    BY <1>4 DEF PanelEnds, HInv, HostTypeOK
  <2>2. calm \in PanelThreads => At(calm, "idle")
    BY <2>1 DEF Busy
  <2>3. SyncOK(w'[calm], file')
    <3>1. CASE calm \in PanelThreads
      BY <1>1, <1>2, <1>4, <2>1, <2>2, <3>1 DEF HInv, SyncOK, At
    <3>2. CASE calm \notin PanelThreads
      BY <1>1, <1>2, <1>4, <2>1, <3>2 DEF HInv
    <3> QED
      BY <3>1, <3>2
  <2> QED
    BY <1>1, <1>2, <1>4, <2>1, <2>3 DEF HInv, PanelEnds, NoScript, At
<1> QED
  BY <1>3, <1>4 DEF HInv

LEMMA OtherEnds ==
  ASSUME HInv, PanelStarts \/ \E c \in Writers : CliEnds(c)
  PROVE  HInv'
<1>1. CASE PanelStarts
  <2>1. watch' \in Watch /\ panel' = "up" /\ UNCHANGED <<file, core, stale, w, script, calm>>
    BY <1>1 DEF PanelStarts, Watch, Cores, confVars
  <2> QED
    BY <2>1 DEF HInv, HostTypeOK, TypeOK, At
<1>2. ASSUME NEW c \in Writers, CliEnds(c) PROVE HInv'
  <2>1. Ended({c}) \in [Writers -> Sync]
    BY EndedFact DEF HInv, HostTypeOK
  <2> QED
    BY <1>2, <2>1 DEF HInv, HostTypeOK, TypeOK, CliEnds
<1> QED
  BY <1>1, <1>2

LEMMA HostInductive == HInv /\ [HostNext]_hostVars => HInv'
<1> SUFFICES ASSUME HInv, [HostNext]_hostVars PROVE HInv'
  OBVIOUS
<1>1. CASE UNCHANGED hostVars
  BY <1>1 DEF hostVars, HInv, HostTypeOK, TypeOK, At
<1>2. CASE HostNext
  BY <1>2, BeginSyncStep, StepSyncStep, ProvisionStep, ScriptSteps, WatchSteps, CoreSteps,
     PanelEndsStep, OtherEnds DEF HostNext
<1> QED
  BY <1>1, <1>2

THEOREM HostInvariance == HostSpec => []HInv
<1>1. HostInit => HInv
  BY HInvInit
<1>2. HInv /\ [HostNext]_hostVars => HInv'
  BY HostInductive
<1> QED
  BY <1>1, <1>2, PTL DEF HostSpec

-----------------------------------------------------------------------------
\* The types of the files, the cores and of everybody who touches them.
THEOREM HostTypeCorrect == HostSpec => []HostTypeOK
<1>1. HInv => HostTypeOK
  BY DEF HInv
<1> QED
  BY <1>1, HostInvariance, PTL

\* Whatever ends, whatever the scripts wrote and however long the texts are: after one sync that
\* nobody's writing overlapped, the files list what that sync was given.
THEOREM UndisturbedSyncRepairs == HostSpec => []UndisturbedSyncSettles
<1>1. HInv => UndisturbedSyncSettles
  BY DEF HInv, HostTypeOK, SyncOK, UndisturbedSyncSettles, Settled, At
<1> QED
  BY <1>1, HostInvariance, PTL

-----------------------------------------------------------------------------
(***************************************************************************)
(* The streams.  Whatever ends a process ends its streams with it, so what *)
(* CoreConfigProofs says of a stream that is open holds on the host too.   *)
(***************************************************************************)
Streams == BufferedInSync /\ StreamInv

\* What each step of the host does to the syncs.
LEMMA HostSyncs ==
  ASSUME [HostNext]_hostVars
  PROVE  \/ \E c \in Writers : Step(c) \/ \E S \in Listings : Begin(c, S)
         \/ \E C \in SUBSET Writers : w' = Ended(C) /\ UNCHANGED <<file, core, stale>>
         \/ UNCHANGED w
<1>1. CASE PanelEnds
  <2>1. PanelThreads \in SUBSET Writers
    BY HostAssumption
  <2> QED
    BY <1>1, <2>1 DEF PanelEnds
<1>2. ASSUME NEW c \in Writers, CliEnds(c)
      PROVE  \E C \in SUBSET Writers : w' = Ended(C) /\ UNCHANGED <<file, core, stale>>
  <2>1. {c} \in SUBSET Writers
    OBVIOUS
  <2> QED
    BY <1>2, <2>1 DEF CliEnds
<1> QED
  BY <1>1, <1>2
     DEF HostNext, StepSync, BeginSync, Provision, ScriptStep, ScriptOpens, ScriptWrites,
         ScriptRestarts, WatchStep, Probe, WatchRestarts, WatchFails, PanelStarts, CoreEnds, CoreStarts, Start,
         confVars, hostVars

LEMMA StreamsInvariance == HostSpec => []Streams
<1>1. HostInit => Streams
  BY DEF HostInit, Init, Streams, BufferedInSync, StreamInv, At
<1>2. HInv /\ Streams /\ [HostNext]_hostVars => Streams'
  <2> SUFFICES ASSUME HInv, Streams, [HostNext]_hostVars PROVE Streams'
    OBVIOUS
  <2>1. TypeOK
    BY DEF HInv, HostTypeOK
  <2>2. ASSUME NEW c \in Writers, Step(c) \/ \E S \in Listings : Begin(c, S) PROVE Streams'
    BY <2>1, <2>2, BufferedStep, StreamStep DEF Streams
  <2>3. ASSUME NEW C \in SUBSET Writers, w' = Ended(C) PROVE Streams'
    <3>1. ASSUME NEW c \in Writers
          PROVE  w'[c] = w[c] \/ (w'[c].pc = "idle" /\ w'[c].buffered = FALSE)
      BY <2>1, <2>3 DEF Ended, TypeOK, Sync
    <3> QED
      BY <3>1 DEF Streams, BufferedInSync, StreamInv, At, Buffers
  <2>4. CASE UNCHANGED w
    BY <2>4 DEF Streams, BufferedInSync, StreamInv, At, Buffers
  <2> QED
    BY <2>2, <2>3, <2>4, HostSyncs
<1> QED
  BY <1>1, <1>2, HostInvariance, PTL DEF HostSpec

-----------------------------------------------------------------------------
(***************************************************************************)
(* Who can strand an empty configuration.  Whoever truncates a file holds  *)
(* its text, and gives the text up to the file unless its process ends.    *)
(***************************************************************************)
\* A sync does not strand a file.
LEMMA SyncStrandsNothing ==
  ASSUME TypeOK, Streams, NEW c \in Writers, Step(c) \/ \E S \in Listings : Begin(c, S),
         UNCHANGED script, NEW k \in Cores, Stranded(k)'
  PROVE  Stranded(k)
BY EmptyKept DEF Streams, Stranded

\* Nor does a provisioning script.
LEMMA ScriptStrandsNothing ==
  ASSUME HostTypeOK, ScriptStep, NEW k \in Cores, Stranded(k)'
  PROVE  Stranded(k)
<1>1. script \in Script /\ script.at \in Cores /\ file[script.at] \in File
  BY DEF HostTypeOK, TypeOK, Script
<1>2. \A c \in Writers : Holds(c, k)' <=> Holds(c, k)
  BY DEF ScriptStep, ScriptOpens, ScriptWrites, ScriptRestarts, Holds, At
<1>3. CASE ScriptOpens
  <2>1. CASE script.at \in Unwritable
    BY <1>2, <1>3, <2>1 DEF ScriptOpens, Stranded
  <2>2. CASE script.at \notin Unwritable
    <3>1. script'.pc = "write" /\ script'.at = script.at /\ script.pc = "open"
      BY <1>1, <1>3, <2>2 DEF ScriptOpens, Script
    <3>2. k # script.at
      BY <3>1 DEF Stranded
    <3>3. file'[k] = file[k]
      BY <1>3, <2>2, <3>2 DEF ScriptOpens, HostTypeOK, TypeOK
    <3> QED
      BY <1>2, <3>1, <3>3 DEF Stranded
  <2> QED
    BY <2>1, <2>2
<1>4. CASE ScriptWrites
  <2>1. Overlay(script.at, {}, file[script.at]).len # 0
    <3>1. {} \in SUBSET Users
      OBVIOUS
    <3> QED
      BY <1>1, <3>1, OverlayFact
  <2>2. file'[k] = IF k = script.at THEN Overlay(script.at, {}, file[script.at]) ELSE file[k]
    BY <1>4 DEF ScriptWrites, HostTypeOK, TypeOK
  <2> QED
    BY <1>2, <2>1, <2>2 DEF Stranded
<1>5. CASE ScriptRestarts
  BY <1>2, <1>5 DEF ScriptRestarts, Stranded
<1> QED
  BY <1>3, <1>4, <1>5 DEF ScriptStep

\* However syncs, scripts and the worker interleave, an empty configuration that nobody is going
\* to fill is the work of a process that ended.
THEOREM NobodyElseStrands == HostSpec => OnlyEndsStrand
<1>1. /\ HInv /\ Streams /\ [HostNext]_hostVars
      => [\A k \in Cores : Stranded(k)' =>
            Stranded(k) \/ PanelEnds \/ \E c \in Writers : CliEnds(c)]_hostVars
  <2> SUFFICES ASSUME HInv, Streams, HostNext, NEW k \in Cores, Stranded(k)',
                      ~PanelEnds, \A c \in Writers : ~CliEnds(c)
               PROVE  Stranded(k)
    OBVIOUS
  <2>1. HostTypeOK /\ TypeOK
    BY DEF HInv, HostTypeOK
  <2>2. ASSUME NEW c \in Writers, StepSync(c) \/ \E S \in Listings : BeginSync(c, S)
        PROVE  Stranded(k)
    BY <2>1, <2>2, SyncStrandsNothing DEF StepSync, BeginSync
  <2>3. CASE ScriptStep
    BY <2>1, <2>3, ScriptStrandsNothing
  <2>4. CASE Provision
    BY <2>4 DEF Provision, confVars, Stranded, Holds, At
  <2>5. CASE UNCHANGED <<file, w, script>>
    BY <2>5 DEF Stranded, Holds, At
  <2> QED
    BY <2>2, <2>3, <2>4, <2>5
       DEF HostNext, WatchStep, Probe, WatchRestarts, WatchFails, PanelStarts, CoreEnds,
           CoreStarts, Start, confVars
<1> QED
  BY <1>1, HostInvariance, StreamsInvariance, PTL DEF HostSpec, OnlyEndsStrand

-----------------------------------------------------------------------------
(***************************************************************************)
(* What the cores serve.  From its reload on, a core that reads its file   *)
(* finds the list of the undisturbed sync in it or nothing, so no restart, *)
(* whoever asks for it and when, brings back anything older.  The cores    *)
(* that the sync failed to restart are stale, until somebody restarts them.*)
(***************************************************************************)
InTime(k, S) == k = "xray" => Length[k][S] >= BufSize

Serves(v, S) == v \in {Down, Starting, Up(S)}

\* What holds of the cores, g, and of those that are stale, o, while the sync with record x is
\* undisturbed.
CoresOK(x, g, o) ==
  /\ x.at = "hysteria" /\ "xray" \notin Unwritable \union o /\ InTime("xray", x.listed) =>
       Serves(g["xray"], x.listed)
  /\ x.pc = "close" /\ x.at \notin o /\ InTime(x.at, x.listed) => Serves(g[x.at], x.listed)
  /\ x.pc = "idle" =>
       \A k \in Cores \ (Unwritable \union o) : InTime(k, x.listed) => Serves(g[k], x.listed)

CalmCoresOK == calm # Nobody => CoresOK(w[calm], core, stale)

\* What a reader of a file makes of it once the undisturbed sync has opened it.
LEMMA ReadsTheList ==
  ASSUME TypeOK, NEW c \in Writers, SyncOK(w[c], file), NEW k \in Cores,
         \/ w[c].at = "hysteria" /\ k = "xray" /\ k \notin Unwritable
         \/ w[c].at = k /\ w[c].pc \in {"reload", "close"}
         \/ w[c].pc = "idle" /\ k \notin Unwritable,
         NEW new \in Loads(k, file[k]) \union {Starting, Down}
  PROVE  Serves(new, w[c].listed)
<1>1. w[c].listed \in SUBSET Users
  BY DEF TypeOK, Sync
<1>2. file[k] = Empty \/ file[k] = Text(k, w[c].listed)
  BY DEF SyncOK
<1>3. Loads(k, file[k]) \subseteq {Down, Up(w[c].listed)}
  BY <1>1, <1>2, WholeTexts
<1> QED
  BY <1>3 DEF Serves

\* A core may end, be restarted or read its file at any time.
LEMMA CoreChanges ==
  ASSUME TypeOK, NEW c \in Writers, SyncOK(w[c], file), CoresOK(w[c], core, stale),
         NEW k \in Cores, NEW new \in Loads(k, file[k]) \union {Starting, Down},
         core' = [core EXCEPT ![k] = new], stale' \in {stale, stale \ {k}}
  PROVE  CoresOK(w[c], core', stale')
<1>1. \A j \in Cores : core'[j] = IF j = k THEN new ELSE core[j]
  BY DEF TypeOK
<1>2. w[c].at \in Cores /\ "xray" \in Cores
  BY DEF TypeOK, Sync, Cores
<1> QED
  BY <1>1, <1>2, ReadsTheList DEF CoresOK

LEMMA RestartedFact ==
  ASSUME NEW k
  PROVE  Restarted(k) \subseteq Loads(k, file[k]) \union {Starting, Down}
BY DEF Restarted

\* A step of the undisturbed sync itself.
LEMMA SyncServes ==
  ASSUME TypeOK, Streams, NEW c \in Writers, Step(c), Alone(c), SyncOK(w[c], file),
         CoresOK(w[c], core, stale)
  PROVE  CoresOK(w'[c], core', stale')
<1>1. /\ w[c] \in Sync /\ w[c].at \in Cores /\ w[c].listed \in SUBSET Users
      /\ Length[w[c].at][w[c].listed] \in Nat
  BY CoreAssumption DEF TypeOK, Sync
<1>2. /\ Returned(c).listed = w[c].listed
      /\ IF w[c].at = "xray" THEN Returned(c).pc = "open" /\ Returned(c).at = "hysteria"
                             ELSE Returned(c).pc = "idle" /\ Returned(c).at = "xray"
  BY <1>1 DEF Returned, Sync, Cores
<1>3. w'[c].listed = w[c].listed
  BY OwnRecord
<1>4. CASE Open(c) /\ w[c].at \notin Unwritable
  <2>1. w'[c].pc = "write" /\ w'[c].at = w[c].at /\ core' = core /\ stale' = stale
    BY <1>4, OwnRecord DEF Open
  <2> QED
    BY <1>3, <2>1 DEF CoresOK
<1>5. CASE Open(c) /\ w[c].at \in Unwritable
  <2>1. w'[c] = Returned(c) /\ core' = core /\ stale' = stale
    BY <1>5, OwnRecord DEF Open
  <2> QED
    BY <1>1, <1>2, <1>5, <2>1 DEF CoresOK, Cores
<1>6. CASE Write(c)
  <2>1. w'[c].pc \in {"test", "reload"} /\ w'[c].at = w[c].at /\ core' = core /\ stale' = stale
    BY <1>6, OwnRecord DEF Write
  <2> QED
    BY <1>3, <2>1 DEF CoresOK
<1>7. CASE Test(c)
  <2>1. PICK outcome \in Loads(w[c].at, file[w[c].at]) :
          w' = [w EXCEPT ![c].pc = IF outcome.status = "up" THEN "reload" ELSE "close"]
    BY <1>7 DEF Test
  <2>2. /\ w'[c].pc = IF outcome.status = "up" THEN "reload" ELSE "close"
        /\ w'[c].at = w[c].at /\ core' = core /\ stale' = stale /\ w[c].pc = "test" /\ w[c].at = "xray"
    BY <1>1, <1>7, <2>1 DEF Test, At, TypeOK, Sync, Streams, StreamInv
  <2>3. ASSUME InTime("xray", w[c].listed) PROVE w'[c].pc = "reload"
    <3>1. ~w[c].buffered
      BY <1>1, <2>2, <2>3, CoreAssumption DEF InTime, Streams, StreamInv, Buffers
    <3>2. file[w[c].at] = Text(w[c].at, w[c].listed)
      BY <2>2, <3>1 DEF SyncOK
    <3> QED
      BY <2>1, <2>2, <3>2, LoadsWritten DEF Up
  <2> QED
    BY <1>3, <2>2, <2>3 DEF CoresOK
<1>8. CASE Reload(c)
  <2>1. PICK new \in Core :
          /\ core' = [core EXCEPT ![w[c].at] = new]
          /\ \/ new \in Restarted(w[c].at) /\ stale' = stale \ {w[c].at}
             \/ /\ new \in {core[w[c].at], Down}
                /\ stale' = IF Alone(c) THEN stale \union {w[c].at} ELSE stale
    BY <1>8, ReloadFact
  <2>2. w'[c].pc = "close" /\ w'[c].at = w[c].at /\ w[c].pc = "reload"
    BY <1>1, <1>8 DEF Reload, At, TypeOK, Sync
  <2>3. CASE new \in Restarted(w[c].at) /\ stale' = stale \ {w[c].at}
    <3>1. CoresOK(w[c], core', stale')
      BY <1>1, <2>1, <2>3, RestartedFact, CoreChanges
    <3>2. Serves(new, w[c].listed)
      BY <1>1, <2>2, <2>3, RestartedFact, ReadsTheList
    <3>3. core'[w[c].at] = new
      BY <1>1, <2>1 DEF TypeOK
    <3> QED
      BY <1>3, <2>2, <3>1, <3>2, <3>3 DEF CoresOK
  <2>4. CASE stale' = stale \union {w[c].at}
    <3>1. \A k \in Cores \ {w[c].at} : core'[k] = core[k]
      BY <2>1 DEF TypeOK
    <3> QED
      BY <1>3, <2>2, <2>4, <3>1 DEF CoresOK, Cores
  <2> QED
    BY <2>1, <2>3, <2>4
<1>9. CASE Close(c)
  <2>1. w'[c] = Returned(c) /\ core' = core /\ stale' = stale /\ w[c].pc = "close"
    BY <1>9, OwnRecord DEF Close, At
  <2> QED
    BY <1>1, <1>2, <2>1 DEF CoresOK, Cores
<1> QED
  BY <1>4, <1>5, <1>6, <1>7, <1>8, <1>9 DEF Step

\* What the rest of the host does to the record of the undisturbed sync and to the cores.
LEMMA CalmCoresStep ==
  ASSUME HInv, Streams, CalmCoresOK, [HostNext]_hostVars
  PROVE  CalmCoresOK'
<1> SUFFICES ASSUME calm' # Nobody PROVE CoresOK(w'[calm'], core', stale')
  BY DEF CalmCoresOK
<1>1. HostTypeOK /\ TypeOK
  BY DEF HInv, HostTypeOK
<1>2. ASSUME calm # Nobody
      PROVE  calm \in Writers /\ SyncOK(w[calm], file) /\ CoresOK(w[calm], core, stale)
  BY <1>1, <1>2 DEF HInv, HostTypeOK, CalmCoresOK
<1>3. ASSUME NEW c \in Writers, NEW S \in Listings, BeginSync(c, S)
      PROVE  CoresOK(w'[calm'], core', stale')
  <2>1. calm' = c
    BY <1>3 DEF BeginSync
  <2>2. w'[c].pc = "open" /\ w'[c].at = "xray"
    BY <1>1, <1>3, OwnRecord DEF BeginSync
  <2> QED
    BY <2>1, <2>2 DEF CoresOK
<1>4. ASSUME NEW c \in Writers, StepSync(c) PROVE CoresOK(w'[calm'], core', stale')
  <2>1. calm' = calm /\ Step(c)
    BY <1>4 DEF StepSync
  <2>2. c = calm
    BY <1>2, <2>1, StepIsBusy DEF HInv
  <2> QED
    <3>1. Alone(c)
      BY <1>2, <2>2, HostAssumption DEF HInv, Alone
    <3> QED
      BY <1>1, <1>2, <2>1, <2>2, <3>1, SyncServes
<1>5. ASSUME calm' = calm, w' = w, core' = core, stale' = stale
      PROVE  CoresOK(w'[calm'], core', stale')
  BY <1>2, <1>5
<1>6. ASSUME calm' = calm, w' = w, NEW k \in Cores,
             NEW new \in Loads(k, file[k]) \union {Starting, Down},
             core' = [core EXCEPT ![k] = new], stale' \in {stale, stale \ {k}}
      PROVE  CoresOK(w'[calm'], core', stale')
  BY <1>1, <1>2, <1>6, CoreChanges
<1>7. ~Provision /\ ~ScriptStep /\ \A c \in Writers : ~CliEnds(c)
  BY DEF HInv, Provision, ScriptStep, ScriptOpens, ScriptWrites, ScriptRestarts, CliEnds
<1>8. CASE WatchStep
  <2>1. CASE Probe
    BY <1>5, <2>1 DEF Probe, confVars
  <2>2. ASSUME NEW k \in Cores, WatchRestarts(k) PROVE CoresOK(w'[calm'], core', stale')
    BY <1>6, <2>2, RestartedFact DEF WatchRestarts, Restarts
  <2>3. ASSUME NEW k \in Cores, WatchFails(k) PROVE CoresOK(w'[calm'], core', stale')
    BY <1>5, <1>6, <2>3 DEF WatchFails, RestartFails
  <2> QED
    BY <1>8, <2>1, <2>2, <2>3 DEF WatchStep
<1>9. ASSUME NEW k \in Cores, CoreEnds(k) \/ CoreStarts(k) PROVE CoresOK(w'[calm'], core', stale')
  BY <1>6, <1>9 DEF CoreEnds, CoreStarts, Start
<1>10. CASE PanelEnds
  <2>1. calm' = calm /\ core' = core /\ stale' = stale /\ w' = Ended(PanelThreads) /\ PanelThreads \intersect Busy = {}
    BY <1>10 DEF PanelEnds
  <2>2. CASE calm \in PanelThreads
    <3>1. At(calm, "idle")
      BY <1>2, <2>1, <2>2 DEF Busy
    <3>2. w'[calm].pc = "idle" /\ w'[calm].at \in {"xray", w[calm].at} /\ w'[calm].listed = w[calm].listed
      BY <1>1, <1>2, <2>1, <3>1, EndedFact
    <3> QED
      BY <1>2, <2>1, <3>1, <3>2 DEF CoresOK, At
  <2>3. CASE calm \notin PanelThreads
    BY <1>1, <1>2, <2>1, <2>3, EndedFact
  <2> QED
    BY <2>2, <2>3
<1>11. CASE PanelStarts
  BY <1>5, <1>11 DEF PanelStarts, confVars
<1>12. CASE UNCHANGED hostVars
  BY <1>5, <1>12 DEF hostVars
<1> QED
  BY <1>3, <1>4, <1>7, <1>8, <1>9, <1>10, <1>11, <1>12 DEF HostNext

\* After an undisturbed sync no core serves anybody but the users it listed, unless it is xray and
\* its text fitted the buffer, or systemctl failed the sync: not after a restart by the worker,
\* one that fails, a crash or an end of the panel.
THEOREM SettledCoresAreClean == HostSpec => []SettledCoresServeNobodyElse
<1>1. HostInit => CalmCoresOK
  BY DEF HostInit, CalmCoresOK
<1>2. HInv /\ Streams /\ CalmCoresOK /\ [HostNext]_hostVars => CalmCoresOK'
  BY CalmCoresStep
<1>3. CalmCoresOK => SettledCoresServeNobodyElse
  BY DEF CalmCoresOK, CoresOK, SettledCoresServeNobodyElse, Settled, At, ReadInTime, InTime, Serves
<1> QED
  BY <1>1, <1>2, <1>3, HostInvariance, StreamsInvariance, PTL DEF HostSpec
=============================================================================
