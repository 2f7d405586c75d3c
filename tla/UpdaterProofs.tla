---------------------------- MODULE UpdaterProofs ----------------------------
(***************************************************************************)
(* Proofs about Updater, for any number of updates, files and releases.    *)
(***************************************************************************)
EXTENDS Updater, TLAPS

\* An update that is going to start the panel, or to fail.
WillStart(c) == u[c].pc \in {"download", "unpack", "start"}

\* A panel that was stopped is somebody's to start, or an update has failed.
StoppedIsOwed == ~panel.up => blamed \/ \E c \in Updates : WillStart(c)

(***************************************************************************)
(* What holds of an update that no other has overlapped: the files it has  *)
(* unpacked are of its release, the panel is down from its stop on if that *)
(* stop worked, and once it has started the panel, the panel runs the      *)
(* files that are there.                                                   *)
(***************************************************************************)
LoneOK(x, files, pnl) ==
  /\ x.pc = "unpack" => \A f \in Parts \ x.todo : files[f] = x.got
  /\ x.pc = "start" \/ (x.pc = "ended" /\ x.ok) => files = [f \in Parts |-> x.got]
  /\ x.pc \in {"download", "unpack", "start"} /\ ~x.hidden => ~pnl.up
  /\ x.pc = "ended" /\ x.ok /\ ~x.hidden => pnl = [up |-> TRUE, files |-> files]
  /\ x.ok => x.pc = "ended"

Lone(c) == ~At(c, "idle") /\ u[c].alone

Inv ==
  /\ TypeOK
  /\ StoppedIsOwed
  /\ \A c \in Updates : Lone(c) => /\ \A d \in Updates \ {c} : At(d, "idle")
                                   /\ LoneOK(u[c], installed, panel)

LEMMA NoUpdateFact == NoUpdate \in Update /\ NoUpdate.pc = "idle" /\ NoUpdate.alone = FALSE
BY UpdaterAssumption DEF NoUpdate, Update, Release

LEMMA InvInit == Init => Inv
<1> SUFFICES ASSUME Init PROVE Inv
  OBVIOUS
<1>1. 1 \in Release
  BY UpdaterAssumption DEF Release
<1>2. TypeOK
  BY <1>1, NoUpdateFact DEF Init, TypeOK, Running
<1> QED
  BY <1>2, NoUpdateFact DEF Init, Inv, StoppedIsOwed, Lone, At, Running

\* When an update goes on to x, only x has to be looked at: one that is alone is c.
LEMMA GoesOn ==
  ASSUME Inv, NEW c \in Updates, ~At(c, "idle"), NEW x \in Update, u' = [u EXCEPT ![c] = x],
         TypeOK', StoppedIsOwed',
         x.pc # "idle" /\ x.alone => u[c].alone /\ LoneOK(x, installed', panel')
  PROVE  Inv'
<1>1. \A d \in Updates : u'[d] = IF d = c THEN x ELSE u[d]
  BY DEF Inv, TypeOK
<1>2. ASSUME NEW d \in Updates, Lone(d)'
      PROVE  (\A e \in Updates \ {d} : At(e, "idle")') /\ LoneOK(u'[d], installed', panel')
  <2>1. d = c
    BY <1>1, <1>2 DEF Inv, Lone, At
  <2> QED
    BY <1>1, <1>2, <2>1 DEF Inv, Lone, At
<1> QED
  BY <1>2 DEF Inv

\* What an update that goes on leaves of StoppedIsOwed.
LEMMA OwedStep ==
  ASSUME Inv, NEW c \in Updates, NEW x \in Update, u' = [u EXCEPT ![c] = x],
         ~panel'.up => \/ blamed' = TRUE
                       \/ x.pc \in {"download", "unpack", "start"}
                       \/ ~panel.up /\ blamed' = blamed /\ ~WillStart(c)
  PROVE  StoppedIsOwed'
<1>1. \A d \in Updates : u'[d] = IF d = c THEN x ELSE u[d]
  BY DEF Inv, TypeOK
<1> QED
  BY <1>1 DEF Inv, StoppedIsOwed, WillStart

LEMMA PublishStep == Inv /\ Publish => Inv'
<1> SUFFICES ASSUME Inv, Publish PROVE Inv'
  OBVIOUS
<1>1. release' \in Release
  BY UpdaterAssumption DEF Inv, TypeOK, Publish, Release
<1> QED
  BY <1>1 DEF Inv, TypeOK, Publish, StoppedIsOwed, WillStart, Lone, At

LEMMA OperatorStep == Inv /\ OperatorStarts => Inv'
<1> SUFFICES ASSUME Inv, OperatorStarts PROVE Inv'
  OBVIOUS
<1>1. TypeOK'
  BY DEF Inv, TypeOK, OperatorStarts, Running
<1>2. panel'.up
  BY DEF OperatorStarts, Running
<1> QED
  BY <1>1, <1>2 DEF Inv, OperatorStarts, StoppedIsOwed, Lone, At

LEMMA BeginStep == ASSUME Inv, NEW c \in Updates, Begin(c) PROVE Inv'
<1> DEFINE alone == Others(c) = {}
           x == [NoUpdate EXCEPT !.pc = "check", !.alone = alone]
<1>1. u \in [Updates -> Update] /\ At(c, "idle")
  BY DEF Inv, TypeOK, Begin
<1>2. alone \in BOOLEAN /\ (alone <=> \A d \in Updates \ {c} : At(d, "idle"))
  BY DEF Others
<1>3. UNCHANGED <<release, installed, panel, blamed>>
  BY DEF Begin
<1>4. u' = [d \in Updates |-> IF d = c THEN x ELSE [u[d] EXCEPT !.alone = FALSE]]
  BY DEF Begin
<1> HIDE DEF alone
<1>5. x \in Update /\ x.pc = "check" /\ x.alone = alone /\ x.ok = FALSE
  BY <1>2, NoUpdateFact, UpdaterAssumption DEF Update, NoUpdate
<1> HIDE DEF x
<1>6. ASSUME NEW d \in Updates, d # c
      PROVE  u'[d] \in Update /\ u'[d].pc = u[d].pc /\ u'[d].alone = FALSE
  BY <1>1, <1>4, <1>6 DEF Update
<1>7. TypeOK'
  <2>1. u' = [d \in Updates |-> u'[d]]
    BY <1>4
  <2>2. u' \in [Updates -> Update]
    BY <1>4, <1>5, <1>6, <2>1
  <2> QED
    BY <1>3, <2>2 DEF Inv, TypeOK
<1>8. StoppedIsOwed'
  BY <1>1, <1>3, <1>6 DEF Inv, StoppedIsOwed, WillStart, At
<1>9. ASSUME NEW d \in Updates, Lone(d)'
      PROVE  (\A e \in Updates \ {d} : At(e, "idle")') /\ LoneOK(u'[d], installed', panel')
  <2>1. d = c
    BY <1>6, <1>9 DEF Lone
  <2>2. u'[c] = x
    BY <1>4
  <2> QED
    BY <1>2, <1>5, <1>6, <1>9, <2>1, <2>2 DEF Lone, LoneOK, At
<1> QED
  BY <1>7, <1>8, <1>9 DEF Inv

\* Ending with an error: if the panel is down, that is why.
LEMMA FailedStep ==
  ASSUME Inv, NEW c \in Updates, WillStart(c), Failed(c), UNCHANGED <<release, installed, panel>>
  PROVE  Inv'
<1> DEFINE x == [u[c] EXCEPT !.pc = "ended", !.todo = {}]
<1>1. u \in [Updates -> Update] /\ u[c] \in Update /\ ~At(c, "idle")
  BY DEF Inv, TypeOK, WillStart, At
<1>2. x \in Update /\ x.pc = "ended" /\ x.alone = u[c].alone /\ x.ok = u[c].ok
  BY <1>1 DEF Update
<1>3. u' = [u EXCEPT ![c] = x] /\ blamed' = TRUE
  BY <1>1 DEF Failed
<1> HIDE DEF x
<1>4. TypeOK'
  BY <1>2, <1>3 DEF Inv, TypeOK
<1>5. StoppedIsOwed'
  BY <1>3 DEF StoppedIsOwed
<1>6. x.alone => LoneOK(x, installed', panel')
  <2> SUFFICES ASSUME x.alone PROVE LoneOK(x, installed', panel')
    OBVIOUS
  <2>1. LoneOK(u[c], installed, panel)
    BY <1>1, <1>2 DEF Inv, Lone
  <2>2. ~x.ok
    BY <1>2, <2>1 DEF LoneOK, WillStart
  <2> QED
    BY <1>2, <2>2 DEF LoneOK
<1> QED
  BY <1>1, <1>2, <1>3, <1>4, <1>5, <1>6, GoesOn

\* A step of an update that touches nothing but its own record.
LEMMA OnlySelf ==
  ASSUME Inv, NEW c \in Updates, ~At(c, "idle"), NEW x \in Update, u' = [u EXCEPT ![c] = x],
         UNCHANGED <<release, installed, panel, blamed>>, ~WillStart(c),
         x.pc # "idle" /\ x.alone =>
           u[c].alone /\ (LoneOK(u[c], installed, panel) => LoneOK(x, installed, panel))
  PROVE  Inv'
<1>1. TypeOK'
  BY DEF Inv, TypeOK
<1>2. StoppedIsOwed'
  BY OwedStep
<1>3. x.pc # "idle" /\ x.alone => u[c].alone /\ LoneOK(x, installed', panel')
  BY DEF Inv, Lone
<1> QED
  BY <1>1, <1>2, <1>3, GoesOn

LEMMA EarlyStep == ASSUME Inv, NEW c \in Updates, Check(c) \/ Script(c) PROVE Inv'
<1>1. u \in [Updates -> Update] /\ u[c] \in Update
  BY DEF Inv, TypeOK
<1>2. UNCHANGED <<release, installed, panel, blamed>> /\ u[c].pc \in {"check", "script"}
  BY DEF Check, Script, At
<1>3. PICK next \in {"script", "stop", "ended"} : u' = [u EXCEPT ![c].pc = next]
  BY DEF Check, Script
<1> DEFINE x == [u[c] EXCEPT !.pc = next]
<1>4. x \in Update /\ x.pc = next /\ x.alone = u[c].alone /\ x.ok = u[c].ok
  BY <1>1 DEF Update
<1>5. u' = [u EXCEPT ![c] = x]
  BY <1>1, <1>3
<1> HIDE DEF x
<1>6. LoneOK(u[c], installed, panel) => LoneOK(x, installed, panel)
  BY <1>2, <1>4 DEF LoneOK
<1> QED
  BY <1>1, <1>2, <1>4, <1>5, <1>6, OnlySelf DEF WillStart, At

\* The panel is stopped by somebody who is going to start it.
LEMMA StopStep == ASSUME Inv, NEW c \in Updates, Stop(c) PROVE Inv'
<1>1. u \in [Updates -> Update] /\ u[c] \in Update /\ u[c].pc = "stop"
  BY DEF Inv, TypeOK, Stop, At
<1>2. UNCHANGED <<release, installed, blamed>>
  BY DEF Stop
<1>3. PICK hid \in BOOLEAN :
        /\ u' = [u EXCEPT ![c] = [u[c] EXCEPT !.pc = "download", !.hidden = hid]]
        /\ panel' = panel \/ (panel' = Stopped /\ panel.up)
        /\ hid = FALSE => ~panel'.up
  <2>1. CASE /\ panel' = IF panel.up THEN Stopped ELSE panel
             /\ u' = [u EXCEPT ![c].pc = "download"]
    <3>1. u' = [u EXCEPT ![c] = [u[c] EXCEPT !.pc = "download", !.hidden = u[c].hidden]]
      BY <1>1, <2>1 DEF Update
    <3>2. u[c].hidden \in BOOLEAN /\ ~panel'.up
      BY <1>1, <2>1 DEF Update, Stopped
    <3> QED
      BY <2>1, <3>1, <3>2
  <2>2. CASE /\ u' = [u EXCEPT ![c].pc = "download", ![c].hidden = TRUE]
             /\ UNCHANGED panel
    <3>1. u' = [u EXCEPT ![c] = [u[c] EXCEPT !.pc = "download", !.hidden = TRUE]]
      BY <1>1, <2>2
    <3> QED
      BY <2>2, <3>1
  <2> QED
    BY <2>1, <2>2 DEF Stop
<1> DEFINE x == [u[c] EXCEPT !.pc = "download", !.hidden = hid]
<1>4. /\ x \in Update /\ x.pc = "download" /\ x.alone = u[c].alone /\ x.ok = u[c].ok
      /\ x.hidden = hid /\ u' = [u EXCEPT ![c] = x]
  BY <1>1, <1>3 DEF Update
<1> HIDE DEF x
<1>5. TypeOK'
  <2>1. panel' \in {panel, Stopped}
    BY <1>3
  <2>2. Stopped \in [up : BOOLEAN, files : [Parts -> Release]]
    BY DEF Inv, TypeOK, Stopped
  <2> QED
    BY <1>2, <1>4, <2>1, <2>2 DEF Inv, TypeOK
<1>6. StoppedIsOwed'
  BY <1>4, OwedStep
<1>7. x.alone => LoneOK(x, installed', panel')
  BY <1>1, <1>3, <1>4 DEF Inv, Lone, LoneOK, At
<1> QED
  BY <1>1, <1>4, <1>5, <1>6, <1>7, GoesOn DEF At

LEMMA DownloadStep == ASSUME Inv, NEW c \in Updates, Download(c) PROVE Inv'
<1>1. u \in [Updates -> Update] /\ u[c] \in Update /\ u[c].pc = "download" /\ release \in Release
  BY DEF Inv, TypeOK, Download, At
<1>2. UNCHANGED <<release, installed, panel>>
  BY DEF Download
<1>3. CASE Failed(c)
  BY <1>1, <1>2, <1>3, FailedStep DEF WillStart
<1>4. CASE /\ u' = [u EXCEPT ![c].pc = "unpack", ![c].got = release, ![c].todo = Parts]
           /\ UNCHANGED blamed
  <2> DEFINE x == [u[c] EXCEPT !.pc = "unpack", !.got = release, !.todo = Parts]
  <2>1. /\ x \in Update /\ x.pc = "unpack" /\ x.alone = u[c].alone /\ x.ok = u[c].ok
        /\ x.hidden = u[c].hidden /\ x.todo = Parts
    BY <1>1 DEF Update
  <2>2. u' = [u EXCEPT ![c] = x]
    BY <1>1, <1>4
  <2> HIDE DEF x
  <2>3. TypeOK'
    BY <1>2, <1>4, <2>1, <2>2 DEF Inv, TypeOK
  <2>4. StoppedIsOwed'
    BY <2>1, <2>2, OwedStep
  <2>5. x.alone => LoneOK(x, installed', panel')
    BY <1>1, <1>2, <2>1 DEF Inv, Lone, LoneOK, At
  <2> QED
    BY <1>1, <2>1, <2>2, <2>3, <2>4, <2>5, GoesOn DEF At
<1> QED
  BY <1>3, <1>4 DEF Download

\* A file is replaced, while whoever runs alone keeps the panel down.
LEMMA UnpackStep == ASSUME Inv, NEW c \in Updates, Unpack(c) PROVE Inv'
<1>1. /\ u \in [Updates -> Update] /\ u[c] \in Update /\ u[c].pc = "unpack"
      /\ installed \in [Parts -> Release]
  BY DEF Inv, TypeOK, Unpack, At
<1>2. UNCHANGED <<release, panel>>
  BY DEF Unpack
<1>3. CASE Failed(c) /\ UNCHANGED installed
  BY <1>1, <1>2, <1>3, FailedStep DEF WillStart
<1>4. ASSUME NEW f \in u[c].todo, installed' = [installed EXCEPT ![f] = u[c].got],
             u' = [u EXCEPT ![c].todo = @ \ {f}], UNCHANGED blamed
      PROVE  Inv'
  <2> DEFINE x == [u[c] EXCEPT !.todo = u[c].todo \ {f}]
  <2>1. /\ x \in Update /\ x.pc = "unpack" /\ x.alone = u[c].alone /\ x.ok = u[c].ok
        /\ x.hidden = u[c].hidden /\ x.todo = u[c].todo \ {f} /\ x.got = u[c].got
    BY <1>1 DEF Update
  <2>2. u' = [u EXCEPT ![c] = x]
    BY <1>1, <1>4
  <2> HIDE DEF x
  <2>3. /\ installed' \in [Parts -> Release]
        /\ \A g \in Parts : installed'[g] = IF g = f THEN u[c].got ELSE installed[g]
    BY <1>1, <1>4 DEF Update
  <2>4. TypeOK'
    BY <1>2, <1>4, <2>1, <2>2, <2>3 DEF Inv, TypeOK
  <2>5. StoppedIsOwed'
    BY <2>1, <2>2, OwedStep
  <2>6. x.alone => LoneOK(x, installed', panel')
    <3> SUFFICES ASSUME x.alone PROVE LoneOK(x, installed', panel')
      OBVIOUS
    <3>1. LoneOK(u[c], installed, panel)
      BY <1>1, <2>1 DEF Inv, Lone, At
    <3>2. \A g \in Parts \ x.todo : installed'[g] = x.got
      BY <1>1, <2>1, <2>3, <3>1 DEF LoneOK
    <3> QED
      BY <1>1, <1>2, <2>1, <3>1, <3>2 DEF LoneOK
  <2> QED
    BY <1>1, <2>1, <2>2, <2>4, <2>5, <2>6, GoesOn DEF At
<1>5. CASE /\ u[c].todo = {}
           /\ u' = [u EXCEPT ![c].pc = "start"]
           /\ UNCHANGED <<installed, blamed>>
  <2> DEFINE x == [u[c] EXCEPT !.pc = "start"]
  <2>1. /\ x \in Update /\ x.pc = "start" /\ x.alone = u[c].alone /\ x.ok = u[c].ok
        /\ x.hidden = u[c].hidden /\ x.todo = {} /\ x.got = u[c].got
    BY <1>1, <1>5 DEF Update
  <2>2. u' = [u EXCEPT ![c] = x]
    BY <1>1, <1>5
  <2> HIDE DEF x
  <2>3. TypeOK'
    BY <1>2, <1>5, <2>1, <2>2 DEF Inv, TypeOK
  <2>4. StoppedIsOwed'
    BY <2>1, <2>2, OwedStep
  <2>5. x.alone => LoneOK(x, installed', panel')
    <3> SUFFICES ASSUME x.alone PROVE LoneOK(x, installed', panel')
      OBVIOUS
    <3>1. LoneOK(u[c], installed, panel)
      BY <1>1, <2>1 DEF Inv, Lone, At
    <3>2. installed = [f \in Parts |-> x.got]
      BY <1>1, <1>5, <2>1, <3>1 DEF LoneOK
    <3> QED
      BY <1>1, <1>2, <1>5, <2>1, <3>1, <3>2 DEF LoneOK
  <2> QED
    BY <1>1, <2>1, <2>2, <2>3, <2>4, <2>5, GoesOn DEF At
<1> QED
  BY <1>3, <1>4, <1>5 DEF Unpack

LEMMA StartStep == ASSUME Inv, NEW c \in Updates, Start(c) PROVE Inv'
<1>1. /\ u \in [Updates -> Update] /\ u[c] \in Update /\ u[c].pc = "start"
      /\ installed \in [Parts -> Release] /\ panel \in [up : BOOLEAN, files : [Parts -> Release]]
  BY DEF Inv, TypeOK, Start, At
<1>2. UNCHANGED <<release, installed>>
  BY DEF Start
<1>3. Running \in [up : BOOLEAN, files : [Parts -> Release]] /\ Running.up
  BY <1>1 DEF Running
<1>4. PICK hid \in BOOLEAN :
        /\ u' = [u EXCEPT ![c] = [u[c] EXCEPT !.pc = "ended", !.ok = TRUE, !.hidden = hid]]
        /\ panel' \in {panel, Running} /\ blamed' \in BOOLEAN
        /\ blamed' = TRUE \/ panel'.up
        /\ hid = FALSE => u[c].hidden = FALSE /\ panel' = IF panel.up THEN panel ELSE Running
  <2>1. CASE /\ panel' = IF panel.up THEN panel ELSE Running
             /\ blamed' = FALSE
             /\ u' = Succeeded(c)
    <3>1. u' = [u EXCEPT ![c] = [u[c] EXCEPT !.pc = "ended", !.ok = TRUE, !.hidden = u[c].hidden]]
      BY <1>1, <2>1 DEF Update, Succeeded
    <3> QED
      BY <1>1, <1>3, <2>1, <3>1 DEF Update
  <2>2. CASE /\ blamed' = TRUE
             /\ u' = [Succeeded(c) EXCEPT ![c].hidden = TRUE]
             /\ UNCHANGED panel
    <3>1. u' = [u EXCEPT ![c] = [u[c] EXCEPT !.pc = "ended", !.ok = TRUE, !.hidden = TRUE]]
      BY <1>1, <2>2 DEF Succeeded
    <3> QED
      BY <2>2, <3>1
  <2> QED
    BY <2>1, <2>2 DEF Start
<1> DEFINE x == [u[c] EXCEPT !.pc = "ended", !.ok = TRUE, !.hidden = hid]
<1>5. /\ x \in Update /\ x.pc = "ended" /\ x.alone = u[c].alone /\ x.ok = TRUE
      /\ x.hidden = hid /\ x.got = u[c].got /\ u' = [u EXCEPT ![c] = x]
  BY <1>1, <1>4 DEF Update
<1> HIDE DEF x
<1>6. TypeOK'
  BY <1>1, <1>2, <1>3, <1>4, <1>5 DEF Inv, TypeOK
<1>7. StoppedIsOwed'
  BY <1>4 DEF StoppedIsOwed
<1>8. x.alone => LoneOK(x, installed', panel')
  <2> SUFFICES ASSUME x.alone PROVE LoneOK(x, installed', panel')
    OBVIOUS
  <2>1. LoneOK(u[c], installed, panel)
    BY <1>1, <1>5 DEF Inv, Lone, At
  <2>2. installed' = [f \in Parts |-> x.got]
    BY <1>1, <1>2, <1>5, <2>1 DEF LoneOK
  <2>3. ~x.hidden => panel' = [up |-> TRUE, files |-> installed']
    <3> SUFFICES ASSUME ~x.hidden PROVE panel' = Running
      BY <1>2 DEF Running
    <3>1. hid = FALSE /\ u[c].hidden = FALSE /\ ~panel.up
      BY <1>1, <1>4, <1>5, <2>1 DEF LoneOK
    <3> QED
      BY <1>4, <3>1
  <2> QED
    BY <1>5, <2>2, <2>3 DEF LoneOK
<1> QED
  BY <1>1, <1>5, <1>6, <1>7, <1>8, GoesOn DEF At

LEMMA EndStep ==
  ASSUME Inv, NEW c \in Updates, u[c].pc \in {"check", "script", "stop", "ended"},
         u' = [u EXCEPT ![c] = NoUpdate], UNCHANGED <<release, installed, panel, blamed>>
  PROVE  Inv'
BY NoUpdateFact, OnlySelf DEF WillStart, At

LEMMA InterruptStep == ASSUME Inv, NEW c \in Updates, Interrupt(c) PROVE Inv'
BY EndStep, FailedStep DEF Interrupt, WillStart

LEMMA Inductive == Inv /\ [Next]_vars => Inv'
<1> SUFFICES ASSUME Inv, [Next]_vars PROVE Inv'
  OBVIOUS
<1>1. CASE UNCHANGED vars
  BY <1>1 DEF vars, Inv, TypeOK, StoppedIsOwed, WillStart, Lone, At
<1>2. ASSUME NEW c \in Updates, End(c) PROVE Inv'
  BY <1>2, EndStep DEF End, At
<1>3. CASE Next
  BY <1>2, <1>3, PublishStep, OperatorStep, BeginStep, EarlyStep, StopStep, DownloadStep,
     UnpackStep, StartStep, InterruptStep DEF Next
<1> QED
  BY <1>1, <1>3

THEOREM Invariance == Spec => []Inv
<1>1. Init => Inv
  BY InvInit
<1>2. Inv /\ [Next]_vars => Inv'
  BY Inductive
<1> QED
  BY <1>1, <1>2, PTL DEF Spec

-----------------------------------------------------------------------------
\* The types of the installation and of what each update does.
THEOREM TypeCorrect == Spec => []TypeOK
<1>1. Inv => TypeOK
  BY DEF Inv
<1> QED
  BY <1>1, Invariance, PTL

\* An update that reports success and that no other overlapped has installed one whole release.
THEOREM LoneUpdateInstalls == Spec => []LoneOkInstalls
<1>1. Inv => LoneOkInstalls
  BY DEF Inv, Lone, LoneOK, LoneOkInstalls, At
<1> QED
  BY <1>1, Invariance, PTL

\* The panel then runs that release, unless a systemctl command failed, which the script hides.
THEOREM LoneUpdateRuns == Spec => []LoneOkRuns
<1>1. Inv => LoneOkRuns
  BY DEF Inv, Lone, LoneOK, LoneOkRuns, At
<1> QED
  BY <1>1, Invariance, PTL

\* However many updates overlap, between them they leave the panel stopped only if one of them
\* failed.
THEOREM StoppedByFailure == Spec => []StoppedOnlyByFailure
<1>1. Inv => StoppedOnlyByFailure
  BY DEF Inv, StoppedIsOwed, WillStart, StoppedOnlyByFailure, At
<1> QED
  BY <1>1, Invariance, PTL
=============================================================================
