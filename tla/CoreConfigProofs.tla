-------------------------- MODULE CoreConfigProofs --------------------------
(***************************************************************************)
(* Proofs about CoreConfig, for any number of writers, any lists and any   *)
(* lengths of their texts.                                                 *)
(***************************************************************************)
EXTENDS CoreConfig, TLAPS

-----------------------------------------------------------------------------
\* A text written over a file is a file again, lists what was written and is not empty; only
\* what the file had before can be left behind that text.
LEMMA OverlayFact ==
  ASSUME NEW k \in Cores, NEW S \in SUBSET Users, NEW old \in File
  PROVE  /\ Overlay(k, S, old) \in File
         /\ Overlay(k, S, old).users = S
         /\ Overlay(k, S, old).tail \subseteq old.users \union old.tail
         /\ Overlay(k, S, old).len # 0
<1>1. Length[k][S] \in Nat \ {0}
  BY CoreAssumption
<1> QED
  BY <1>1 DEF Overlay, Text, File

\* A core that reads a file is down or serves users.
LEMMA LoadsFact ==
  ASSUME NEW k \in Cores, NEW f \in File
  PROVE  Loads(k, f) \subseteq Core
<1>1. Down \in Core
  BY DEF Down, Core
<1>2. ASSUME NEW S \in SUBSET Users PROVE Up(S) \in Core
  BY DEF Up, Core
<1>3. f.users \in SUBSET Users /\ f.tail \in SUBSET Users
  BY DEF File
<1>4. CASE f.len = 0 \/ f.len = Length[k][f.users]
  BY <1>1, <1>2, <1>3, <1>4 DEF Loads
<1>5. CASE ~(f.len = 0 \/ f.len = Length[k][f.users])
  <2>1. Loads(k, f) = {Down} \union {Up(f.users \union T) : T \in SUBSET f.tail}
    BY <1>5 DEF Loads
  <2>2. ASSUME NEW T \in SUBSET f.tail
        PROVE  Up(f.users \union T) \in Core
    <3>1. f.users \union T \in SUBSET Users
      BY <1>3
    <3> QED
      BY <3>1, <1>2
  <2>3. {Up(f.users \union T) : T \in SUBSET f.tail} \subseteq Core
    BY <2>2
  <2> QED
    BY <2>1, <2>3, <1>1
<1> QED
  BY <1>4, <1>5

\* The step after a sync_users keeps the type of the writer's record.
LEMMA ReturnedFact ==
  ASSUME TypeOK, NEW c \in Writers
  PROVE  /\ Returned(c) \in Sync
         /\ Returned(c).listed = w[c].listed
         /\ Returned(c).buffered = FALSE
BY DEF TypeOK, Returned, Sync, Cores

\* So does the step after "out << text".
LEMMA WriterGoesOn ==
  ASSUME TypeOK, NEW c \in Writers, NEW b \in BOOLEAN,
         NEW p \in {"idle", "open", "write", "test", "reload", "close"}
  PROVE  [w EXCEPT ![c].pc = p, ![c].buffered = b] \in [Writers -> Sync]
BY DEF TypeOK, Sync

\* Flushing the stream of one writer changes one file, to the list of that writer.
LEMMA FlushedFact ==
  ASSUME TypeOK, NEW c \in Writers
  PROVE  /\ Flushed(c) \in [Cores -> File]
         /\ Flushed(c)[w[c].at].users = w[c].listed
         /\ Flushed(c)[w[c].at].tail \subseteq file[w[c].at].users \union file[w[c].at].tail
         /\ Flushed(c)[w[c].at].len # 0
         /\ \A k \in Cores : k # w[c].at => Flushed(c)[k] = file[k]
<1>1. w[c].at \in Cores /\ w[c].listed \in SUBSET Users /\ file[w[c].at] \in File
  BY DEF TypeOK, Sync
<1> QED
  BY <1>1, OverlayFact DEF Flushed, TypeOK

\* A reload changes one core: it has been restarted, or systemctl has failed.
LEMMA ReloadFact ==
  ASSUME TypeOK, NEW c \in Writers, Reload(c)
  PROVE  \E new \in Core :
           /\ core' = [core EXCEPT ![w[c].at] = new]
           /\ \/ new \in Restarted(w[c].at) /\ stale' = stale \ {w[c].at}
              \/ /\ new \in {core[w[c].at], Down}
                 /\ stale' = IF Alone(c) THEN stale \union {w[c].at} ELSE stale
<1>1. w[c].at \in Cores /\ file[w[c].at] \in File /\ core[w[c].at] \in Core
  BY DEF TypeOK, Sync
<1>2. Down \in Core
  BY DEF Down, Core
<1>3. CASE Restarts(w[c].at)
  <2>1. PICK new \in Restarted(w[c].at) : core' = [core EXCEPT ![w[c].at] = new]
    BY <1>3 DEF Restarts
  <2>2. new \in Core
    BY <1>1, LoadsFact DEF Restarted, Starting, Core
  <2> QED
    BY <1>3, <2>1, <2>2 DEF Restarts
<1>4. CASE /\ RestartFails(w[c].at)
           /\ stale' = IF Alone(c) THEN stale \union {w[c].at} ELSE stale
  <2>1. core = [core EXCEPT ![w[c].at] = core[w[c].at]]
    BY <1>1 DEF TypeOK
  <2>2. \/ core' = [core EXCEPT ![w[c].at] = core[w[c].at]]
        \/ core' = [core EXCEPT ![w[c].at] = Down]
    BY <1>4, <2>1 DEF RestartFails
  <2> QED
    BY <1>1, <1>2, <1>4, <2>2
<1> QED
  BY <1>3, <1>4 DEF Reload

-----------------------------------------------------------------------------
\* Every variable of CoreConfig has its type in every reachable state.
LEMMA TypeInit == Init => TypeOK
<1> SUFFICES ASSUME Init PROVE TypeOK
  OBVIOUS
<1>1. \A k \in Cores : Text(k, {}) \in File
  BY CoreAssumption DEF Text, File
<1> QED
  BY <1>1 DEF Init, TypeOK, Core, Up, Sync, Cores

LEMMA TypeStep == TypeOK /\ [Next]_confVars => TypeOK'
<1> SUFFICES ASSUME TypeOK, [Next]_confVars PROVE TypeOK'
  OBVIOUS
<1> USE DEF TypeOK
<1>1. ASSUME NEW c \in Writers, NEW S \in Listings, Begin(c, S) PROVE TypeOK'
  BY <1>1, CoreAssumption DEF Begin, Sync, Cores
<1>2. ASSUME NEW c \in Writers, Open(c) PROVE TypeOK'
  <2>1. w[c].at \in Cores
    BY DEF Sync
  <2>2. Empty \in File
    BY DEF Empty, File
  <2>3. file' \in [Cores -> File]
    BY <1>2, <2>1, <2>2 DEF Open
  <2>4. CASE w' = [w EXCEPT ![c].pc = "write"]
    BY <1>2, <2>3, <2>4 DEF Open, Sync
  <2>5. CASE w' = [w EXCEPT ![c] = Returned(c)]
    BY <1>2, <2>3, <2>5, ReturnedFact DEF Open
  <2> QED
    BY <1>2, <2>4, <2>5 DEF Open
<1>3. ASSUME NEW c \in Writers, Write(c) PROVE TypeOK'
  <2>1. file' \in [Cores -> File]
    BY <1>3, FlushedFact DEF Write
  <2>2. w' \in [Writers -> Sync]
    <3> DEFINE p == IF w[c].at = "xray" THEN "test" ELSE "reload"
    <3>1. p \in {"idle", "open", "write", "test", "reload", "close"}
      OBVIOUS
    <3>2. Buffers(c) \in BOOLEAN
      BY DEF Buffers
    <3>3. w' = [w EXCEPT ![c].pc = p, ![c].buffered = Buffers(c)]
      BY <1>3 DEF Write
    <3> HIDE DEF p
    <3> QED
      BY <3>1, <3>2, <3>3, WriterGoesOn
  <2> QED
    BY <1>3, <2>1, <2>2 DEF Write
<1>4. ASSUME NEW c \in Writers, Test(c) PROVE TypeOK'
  <2>1. PICK p \in {"reload", "close"} : w' = [w EXCEPT ![c].pc = p]
    BY <1>4 DEF Test
  <2>2. w' \in [Writers -> Sync]
    BY <2>1 DEF Sync
  <2> QED
    BY <1>4, <2>2 DEF Test
<1>5. ASSUME NEW c \in Writers, Reload(c) PROVE TypeOK'
  <2>1. w[c].at \in Cores
    BY DEF Sync
  <2>2. PICK new \in Core :
          /\ core' = [core EXCEPT ![w[c].at] = new]
          /\ stale' \in {stale \ {w[c].at}, stale \union {w[c].at}, stale}
    BY <1>5, ReloadFact
  <2>3. core' \in [Cores -> Core] /\ stale' \subseteq Cores
    BY <2>1, <2>2
  <2> QED
    BY <1>5, <2>3 DEF Reload, Sync
<1>6. ASSUME NEW c \in Writers, Close(c) PROVE TypeOK'
  <2>1. file' \in [Cores -> File]
    BY <1>6, FlushedFact DEF Close
  <2>2. w' \in [Writers -> Sync]
    BY <1>6, ReturnedFact DEF Close
  <2> QED
    BY <1>6, <2>1, <2>2 DEF Close
<1>7. ASSUME NEW k \in Cores, Start(k) PROVE TypeOK'
  BY <1>7, LoadsFact DEF Start
<1>8. CASE UNCHANGED confVars
  BY <1>8 DEF confVars
<1> QED
  BY <1>1, <1>2, <1>3, <1>4, <1>5, <1>6, <1>7, <1>8 DEF Next, Step

THEOREM TypeCorrect == Spec => []TypeOK
<1>1. Init => TypeOK
  BY TypeInit
<1>2. TypeOK /\ [Next]_confVars => TypeOK'
  BY TypeStep
<1> QED
  BY <1>1, <1>2, PTL DEF Spec

-----------------------------------------------------------------------------
\* A step of one writer leaves the records of the others alone, and what they hold and owe.
LEMMA OthersKeep ==
  ASSUME TypeOK, NEW c \in Writers, NEW d \in Writers, c # d,
         Step(c) \/ \E S \in Listings : Begin(c, S)
  PROVE  /\ w'[d] = w[d]
         /\ \A k \in Cores : (Holds(d, k)' <=> Holds(d, k)) /\ (Owes(d, k)' <=> Owes(d, k))
<1>1. w'[d] = w[d]
  BY DEF TypeOK, Step, Begin, Open, Write, Test, Reload, Close
<1> QED
  BY <1>1 DEF Holds, Owes, At

\* What a step makes of the record of its own writer.
LEMMA OwnRecord ==
  ASSUME TypeOK, NEW c \in Writers
  PROVE  /\ \A S \in Listings : Begin(c, S) =>
              w'[c].pc = "open" /\ w'[c].at = "xray" /\ w'[c].buffered = FALSE
         /\ Step(c) => w'[c].listed = w[c].listed
         /\ Open(c) /\ w[c].at \notin Unwritable =>
              w'[c].pc = "write" /\ w'[c].at = w[c].at /\ w'[c].buffered = w[c].buffered
         /\ Open(c) /\ w[c].at \in Unwritable => w'[c] = Returned(c)
         /\ Write(c) => /\ w'[c].pc \in {"test", "reload"}
                        /\ w'[c].at = w[c].at
                        /\ w'[c].buffered = Buffers(c)
         /\ Test(c) \/ Reload(c) => /\ w'[c].pc \in {"reload", "close"}
                                    /\ w'[c].at = w[c].at
                                    /\ w'[c].buffered = w[c].buffered
         /\ Close(c) => w'[c] = Returned(c)
<1> USE DEF TypeOK, Sync
<1>1. ASSUME NEW S \in Listings, Begin(c, S)
      PROVE  w'[c].pc = "open" /\ w'[c].at = "xray" /\ w'[c].buffered = FALSE
  BY <1>1 DEF Begin
<1>2. ASSUME Open(c), w[c].at \notin Unwritable
      PROVE  /\ w'[c].pc = "write" /\ w'[c].at = w[c].at /\ w'[c].buffered = w[c].buffered
             /\ w'[c].listed = w[c].listed
  BY <1>2 DEF Open
<1>3. ASSUME Open(c), w[c].at \in Unwritable
      PROVE  w'[c] = Returned(c)
  BY <1>3 DEF Open
<1>4. ASSUME Write(c)
      PROVE  /\ w'[c].pc \in {"test", "reload"}
             /\ w'[c].at = w[c].at
             /\ w'[c].buffered = Buffers(c)
             /\ w'[c].listed = w[c].listed
  BY <1>4 DEF Write
<1>5. ASSUME Test(c) \/ Reload(c)
      PROVE  /\ w'[c].pc \in {"reload", "close"}
             /\ w'[c].at = w[c].at
             /\ w'[c].buffered = w[c].buffered
             /\ w'[c].listed = w[c].listed
  BY <1>5 DEF Test, Reload
<1>6. ASSUME Close(c)
      PROVE  w'[c] = Returned(c)
  BY <1>6 DEF Close
<1>7. Returned(c).listed = w[c].listed
  BY ReturnedFact
<1> QED
  BY <1>1, <1>2, <1>3, <1>4, <1>5, <1>6, <1>7 DEF Step

\* A writer past its last step has nothing in a buffer.
LEMMA BufferedStep ==
  ASSUME TypeOK, BufferedInSync, NEW c \in Writers,
         Step(c) \/ \E S \in Listings : Begin(c, S)
  PROVE  BufferedInSync'
<1> SUFFICES ASSUME NEW d \in Writers, w'[d].buffered
             PROVE  w'[d].pc \in {"test", "reload", "close"}
  BY DEF BufferedInSync
<1>1. CASE d # c
  BY <1>1, OthersKeep DEF BufferedInSync
<1>2. CASE d = c
  <2>1. ~\E S \in Listings : Begin(c, S)
    BY <1>2, OwnRecord
  <2>2. CASE Open(c)
    BY <1>2, <2>2, OwnRecord, ReturnedFact DEF Open, At, BufferedInSync
  <2>3. CASE Write(c)
    BY <1>2, <2>3, OwnRecord
  <2>4. CASE Test(c) \/ Reload(c)
    BY <1>2, <2>4, OwnRecord
  <2>5. CASE Close(c)
    BY <1>2, <2>5, OwnRecord, ReturnedFact
  <2> QED
    BY <2>1, <2>2, <2>3, <2>4, <2>5 DEF Step
<1> QED
  BY <1>1, <1>2

\* The writer that empties a file holds the text for it, and gives it up only to the file: a file
\* that is empty and held by nobody after a step was so before it.
LEMMA EmptyKept ==
  ASSUME TypeOK, BufferedInSync, NEW c \in Writers, NEW k \in Cores,
         Step(c) \/ \E S \in Listings : Begin(c, S),
         file'[k].len = 0, \A d \in Writers : ~Holds(d, k)'
  PROVE  file[k].len = 0 /\ \A d \in Writers : ~Holds(d, k)
<1> SUFFICES file[k].len = 0 /\ ~Holds(c, k)
  BY OthersKeep
<1>1. ASSUME NEW S \in Listings, Begin(c, S)
      PROVE  file[k].len = 0 /\ ~Holds(c, k)
  BY <1>1 DEF Begin, Holds, At, BufferedInSync
<1>2. CASE Open(c) /\ w[c].at \notin Unwritable
  BY <1>2, OwnRecord DEF Open, Holds, At, BufferedInSync, TypeOK
<1>3. CASE Open(c) /\ w[c].at \in Unwritable
  BY <1>3 DEF Open, Holds, At, BufferedInSync
<1>4. CASE Write(c)
  <2>1. CASE w[c].at = k
    <3>1. ~Buffers(c)
      BY <1>4, <2>1, OwnRecord DEF Holds
    <3> QED
      BY <1>4, <2>1, <3>1, FlushedFact DEF Write
  <2>2. CASE w[c].at # k
    BY <1>4, <2>2, FlushedFact DEF Write, Holds
  <2> QED
    BY <2>1, <2>2
<1>5. CASE Test(c) \/ Reload(c)
  BY <1>5, OwnRecord DEF Test, Reload, Holds, At
<1>6. CASE Close(c)
  <2>1. CASE w[c].at = k /\ w[c].buffered
    BY <1>6, <2>1, FlushedFact DEF Close
  <2>2. CASE ~(w[c].at = k /\ w[c].buffered)
    BY <1>6, <2>2, FlushedFact DEF Close, Holds, At
  <2> QED
    BY <2>1, <2>2
<1> QED
  BY <1>1, <1>2, <1>3, <1>4, <1>5, <1>6 DEF Step

LEMMA EmptyStep ==
  ASSUME TypeOK, BufferedInSync, EmptyIsOwed, NEW c \in Writers,
         Step(c) \/ \E S \in Listings : Begin(c, S)
  PROVE  EmptyIsOwed'
BY EmptyKept DEF EmptyIsOwed

\* A writer that owes a file its list ends up having put it there.
LEMMA ListedStep ==
  ASSUME TypeOK, BufferedInSync, FileListedOrOwed, NEW c \in Writers,
         Step(c) \/ \E S \in Listings : Begin(c, S)
  PROVE  FileListedOrOwed'
<1> SUFFICES ASSUME NEW k \in Cores \ Unwritable, ~Owes(c, k)'
             PROVE  (\E d \in Writers : Owes(d, k)') \/ (\E d \in Writers : file'[k].users = w'[d].listed)
  BY DEF FileListedOrOwed
<1>1. CASE file'[k].users = w[c].listed /\ Step(c)
  BY <1>1, OwnRecord
<1>2. CASE file'[k] = file[k] /\ ~Owes(c, k) /\ Step(c)
  <2>1. CASE \E d \in Writers : Owes(d, k)
    BY <1>2, <2>1, OthersKeep
  <2>2. CASE \E d \in Writers : file[k].users = w[d].listed
    BY <1>2, <2>2, OthersKeep, OwnRecord
  <2> QED
    BY <2>1, <2>2 DEF FileListedOrOwed
<1>3. ~\E S \in Listings : Begin(c, S)
  <2>1. SUFFICES ASSUME NEW S \in Listings, Begin(c, S) PROVE Owes(c, k)'
    OBVIOUS
  <2>2. w'[c].pc = "open" /\ w'[c].at = "xray"
    BY <2>1, OwnRecord
  <2> QED
    BY <2>2 DEF Owes, At, Cores
<1>4. CASE Open(c) /\ w[c].at \notin Unwritable
  <2>1. w'[c].pc = "write" /\ w'[c].at = w[c].at
    BY <1>4, OwnRecord
  <2>2. k # w[c].at /\ ~(w[c].at = "xray" /\ k = "hysteria")
    BY <2>1 DEF Owes, Holds, At
  <2>3. file'[k] = file[k]
    BY <1>4, <2>2 DEF Open, TypeOK
  <2>4. ~Owes(c, k)
    BY <1>4, <2>2 DEF Owes, Holds, At, Open, BufferedInSync
  <2> QED
    BY <1>2, <1>4, <2>3, <2>4 DEF Step
<1>5. CASE Open(c) /\ w[c].at \in Unwritable
  <2>1. w'[c] = Returned(c)
    BY <1>5, OwnRecord
  <2>2. ~(w[c].at = "xray" /\ k = "hysteria")
    BY <2>1 DEF Owes, At, Returned, TypeOK, Sync
  <2>3. ~Owes(c, k)
    BY <1>5, <2>2 DEF Owes, Holds, At, Open, BufferedInSync
  <2> QED
    BY <1>2, <1>5, <2>3 DEF Step, Open
<1>6. CASE Write(c)
  <2>1. w'[c].pc \in {"test", "reload"} /\ w'[c].at = w[c].at /\ w'[c].buffered = Buffers(c)
    BY <1>6, OwnRecord
  <2>2. ~(w[c].at = "xray" /\ k = "hysteria")
    BY <2>1 DEF Owes, At
  <2>3. CASE w[c].at = k
    <3>1. ~Buffers(c)
      BY <2>1, <2>3 DEF Owes, Holds
    <3>2. file'[k].users = w[c].listed
      BY <1>6, <2>3, <3>1, FlushedFact DEF Write
    <3> QED
      BY <1>1, <1>6, <3>2 DEF Step
  <2>4. CASE w[c].at # k
    <3>1. file'[k] = file[k]
      BY <1>6, <2>4, FlushedFact DEF Write
    <3>2. ~Owes(c, k)
      BY <1>6, <2>2, <2>4 DEF Owes, Holds, At, Write
    <3> QED
      BY <1>2, <1>6, <3>1, <3>2 DEF Step
  <2> QED
    BY <2>3, <2>4
<1>7. CASE Test(c) \/ Reload(c)
  <2>1. /\ w'[c].pc \in {"reload", "close"}
        /\ w'[c].at = w[c].at
        /\ w'[c].buffered = w[c].buffered
    BY <1>7, OwnRecord
  <2>2. ~Owes(c, k)
    BY <1>7, <2>1 DEF Owes, Holds, At, Test, Reload
  <2> QED
    BY <1>2, <1>7, <2>2 DEF Step, Test, Reload
<1>8. CASE Close(c)
  <2>1. w'[c] = Returned(c)
    BY <1>8, OwnRecord
  <2>2. ~(w[c].at = "xray" /\ k = "hysteria")
    BY <2>1 DEF Owes, At, Returned, TypeOK, Sync
  <2>3. CASE w[c].at = k /\ w[c].buffered
    <3>1. file'[k].users = w[c].listed
      BY <1>8, <2>3, FlushedFact DEF Close
    <3> QED
      BY <1>1, <1>8, <3>1 DEF Step
  <2>4. CASE ~(w[c].at = k /\ w[c].buffered)
    <3>1. file'[k] = file[k]
      BY <1>8, <2>4, FlushedFact DEF Close
    <3>2. ~Owes(c, k)
      BY <1>8, <2>2, <2>4 DEF Owes, Holds, At, Close
    <3> QED
      BY <1>2, <1>8, <3>1, <3>2 DEF Step
  <2> QED
    BY <2>3, <2>4
<1> QED
  BY <1>3, <1>4, <1>5, <1>6, <1>7, <1>8 DEF Step

-----------------------------------------------------------------------------
\* The four parts of IInv together are inductive: the two that speak of files rest on the
\* record of a writer having its type and on its buffer being empty outside sync_users.
LEMMA Inductive == IInv /\ [Next]_confVars => IInv'
<1> SUFFICES ASSUME IInv, [Next]_confVars PROVE IInv'
  OBVIOUS
<1>1. TypeOK'
  BY TypeStep DEF IInv
<1>2. ASSUME NEW c \in Writers, Step(c) \/ \E S \in Listings : Begin(c, S)
      PROVE  IInv'
  BY <1>1, <1>2, BufferedStep, EmptyStep, ListedStep DEF IInv
<1>3. CASE UNCHANGED <<file, w>>
  BY <1>1, <1>3 DEF IInv, BufferedInSync, EmptyIsOwed, FileListedOrOwed, Owes, Holds, At
<1>4. (\E k \in Cores : Start(k)) \/ UNCHANGED confVars => UNCHANGED <<file, w>>
  BY DEF Start, confVars
<1> QED
  BY <1>2, <1>3, <1>4 DEF Next

LEMMA InitIInv == Init => IInv
<1> SUFFICES ASSUME Init PROVE IInv
  OBVIOUS
<1>1. TypeOK
  BY TypeInit
<1>2. BufferedInSync
  BY DEF Init, BufferedInSync
<1>3. EmptyIsOwed
  BY CoreAssumption DEF Init, EmptyIsOwed, Text
<1>4. FileListedOrOwed
  BY CoreAssumption DEF Init, FileListedOrOwed, Text
<1> QED
  BY <1>1, <1>2, <1>3, <1>4 DEF IInv

\* However many writers there are, the invariant holds in every reachable state.
THEOREM Invariance == Spec => []IInv
<1>1. Init => IInv
  BY InitIInv
<1>2. IInv /\ [Next]_confVars => IInv'
  BY Inductive
<1> QED
  BY <1>1, <1>2, PTL DEF Spec

\* No configuration file is left empty: a writer still holds the text for it.
THEOREM EmptyIsAlwaysOwed == Spec => []EmptyIsOwed
<1>1. IInv => EmptyIsOwed
  BY DEF IInv
<1> QED
  BY <1>1, Invariance, PTL

\* When all writers are done, every file lists the last list of one of them.
THEOREM QuietFilesAreLastLists == Spec => []QuietFileIsALastList
<1>1. IInv => QuietFileIsALastList
  <2> SUFFICES ASSUME IInv, Quiet, NEW k \in Cores \ Unwritable
               PROVE  \E c \in Writers : file[k].users = w[c].listed
    BY DEF QuietFileIsALastList
  <2>1. \A c \in Writers : ~Owes(c, k)
    BY DEF IInv, Quiet, Owes, Holds, At, BufferedInSync
  <2> QED
    BY <2>1 DEF IInv, FileListedOrOwed
<1> QED
  BY <1>1, Invariance, PTL

-----------------------------------------------------------------------------
(***************************************************************************)
(* Remnants.  An open empties its file, so what a file holds once every    *)
(* writer has opened it, in its text or behind it, comes from the lists of *)
(* the syncs that are running or were the last of their writers.           *)
(***************************************************************************)
\* c has yet to open the file of core k in the sync it is running.
Unopened(c, k) ==
  \/ At(c, "open") /\ w[c].at = k
  \/ w[c].at = "xray" /\ ~At(c, "idle") /\ k = "hysteria"

Mentioned(k) == file[k].users \union file[k].tail

LastLists == UNION {w[c].listed : c \in Writers}

MentionsLastLists ==
  \A k \in Cores \ Unwritable :
    (\E c \in Writers : Unopened(c, k)) \/ Mentioned(k) \subseteq LastLists

\* A step of a writer changes no list but the one of a Begin, and no other writer's opens.
LEMMA ListsKept ==
  ASSUME TypeOK, NEW c \in Writers, Step(c)
  PROVE  /\ \A d \in Writers : w'[d].listed = w[d].listed
         /\ LastLists' = LastLists
         /\ \A d \in Writers \ {c}, k \in Cores : Unopened(d, k)' <=> Unopened(d, k)
<1>1. \A d \in Writers : w'[d].listed = w[d].listed
  BY OthersKeep, OwnRecord
<1>2. LastLists' = LastLists
  BY <1>1 DEF LastLists
<1>3. \A d \in Writers \ {c} : w'[d] = w[d]
  BY OthersKeep
<1> QED
  BY <1>1, <1>2, <1>3 DEF Unopened, At

LEMMA MentionsStep ==
  ASSUME TypeOK, BufferedInSync, MentionsLastLists, NEW c \in Writers,
         Step(c) \/ \E S \in Listings : Begin(c, S)
  PROVE  MentionsLastLists'
<1> SUFFICES ASSUME NEW k \in Cores \ Unwritable, \A d \in Writers : ~Unopened(d, k)'
             PROVE  Mentioned(k)' \subseteq LastLists'
  BY DEF MentionsLastLists
<1>1. w[c].at \in Cores /\ w[c].listed \in SUBSET Users /\ ~Unopened(c, k)'
  BY DEF TypeOK, Sync
<1>2. ~\E S \in Listings : Begin(c, S)
  BY <1>1, OwnRecord DEF Unopened, At, Cores
<1>3. Step(c)
  BY <1>2
<1>4. LastLists' = LastLists /\ \A d \in Writers \ {c} : ~Unopened(d, k)
  BY <1>3, ListsKept
<1>5. ASSUME ~Unopened(c, k), Mentioned(k)' \subseteq Mentioned(k) \union w[c].listed
      PROVE  Mentioned(k)' \subseteq LastLists'
  <2>1. Mentioned(k) \subseteq LastLists
    BY <1>4, <1>5 DEF MentionsLastLists
  <2>2. w[c].listed \subseteq LastLists
    BY DEF LastLists
  <2> QED
    BY <1>4, <1>5, <2>1, <2>2
<1>6. CASE Open(c) /\ w[c].at \notin Unwritable
  <2>1. w'[c].pc = "write" /\ w'[c].at = w[c].at /\ At(c, "open")
    BY <1>6, OwnRecord DEF Open
  <2>2. CASE w[c].at = k
    <3>1. file'[k] = Empty
      BY <1>6, <2>2 DEF Open, TypeOK
    <3> QED
      BY <3>1 DEF Mentioned, Empty
  <2>3. CASE w[c].at # k
    <3>1. file'[k] = file[k]
      BY <1>6, <2>3 DEF Open, TypeOK
    <3> QED
      BY <1>1, <1>5, <2>1, <2>3, <3>1 DEF Unopened, Mentioned, At
  <2> QED
    BY <2>2, <2>3
<1>7. CASE Open(c) /\ w[c].at \in Unwritable
  <2>1. w'[c] = Returned(c) /\ file' = file /\ At(c, "open")
    BY <1>7, OwnRecord DEF Open
  <2>2. ~Unopened(c, k)
    BY <1>1, <1>7, <2>1 DEF Unopened, Returned, At, TypeOK, Sync
  <2> QED
    BY <1>5, <2>1, <2>2 DEF Mentioned
<1>8. CASE Write(c)
  <2>1. w'[c].pc \in {"test", "reload"} /\ w'[c].at = w[c].at /\ At(c, "write")
    BY <1>8, OwnRecord DEF Write
  <2>2. ~Unopened(c, k)
    BY <1>1, <2>1 DEF Unopened, At
  <2>3. file'[k] = file[k] \/ (k = w[c].at /\ file' = Flushed(c))
    BY <1>8, FlushedFact DEF Write
  <2> QED
    BY <1>5, <2>2, <2>3, FlushedFact DEF Mentioned
<1>9. CASE Test(c) \/ Reload(c)
  <2>1. w'[c].pc \in {"reload", "close"} /\ w'[c].at = w[c].at /\ file' = file
    BY <1>9, OwnRecord DEF Test, Reload
  <2>2. ~Unopened(c, k)
    BY <1>1, <1>9, <2>1 DEF Unopened, At, Test, Reload
  <2> QED
    BY <1>5, <2>1, <2>2 DEF Mentioned
<1>10. CASE Close(c)
  <2>1. w'[c] = Returned(c) /\ At(c, "close")
    BY <1>10, OwnRecord DEF Close
  <2>2. ~Unopened(c, k)
    BY <1>1, <2>1 DEF Unopened, Returned, At, TypeOK, Sync
  <2>3. file'[k] = file[k] \/ (k = w[c].at /\ file' = Flushed(c))
    BY <1>10, FlushedFact DEF Close
  <2> QED
    BY <1>5, <2>2, <2>3, FlushedFact DEF Mentioned
<1> QED
  BY <1>3, <1>6, <1>7, <1>8, <1>9, <1>10 DEF Step

\* However many writers there are, when all of them are done no file holds the line of a user
\* who is in no writer's last list, neither in its text nor behind it.
THEOREM QuietFilesHoldNobodyElse == Spec => []QuietFileHoldsNobodyElse
<1>1. Init => MentionsLastLists
  BY DEF Init, MentionsLastLists, Mentioned, Text
<1>2. IInv /\ MentionsLastLists /\ [Next]_confVars => MentionsLastLists'
  <2> SUFFICES ASSUME IInv, MentionsLastLists, [Next]_confVars PROVE MentionsLastLists'
    OBVIOUS
  <2>1. ASSUME NEW c \in Writers, Step(c) \/ \E S \in Listings : Begin(c, S)
        PROVE  MentionsLastLists'
    BY <2>1, MentionsStep DEF IInv
  <2>2. CASE UNCHANGED <<file, w>>
    BY <2>2 DEF MentionsLastLists, Unopened, Mentioned, LastLists, At
  <2>3. (\E k \in Cores : Start(k)) \/ UNCHANGED confVars => UNCHANGED <<file, w>>
    BY DEF Start, confVars
  <2> QED
    BY <2>1, <2>2, <2>3 DEF Next
<1>3. MentionsLastLists => QuietFileHoldsNobodyElse
  BY DEF MentionsLastLists, Mentioned, LastLists, QuietFileHoldsNobodyElse, Quiet, Unopened, At
<1> QED
  BY <1>1, <1>2, <1>3, Invariance, PTL DEF Spec

-----------------------------------------------------------------------------
(***************************************************************************)
(* A single writer: requests that are never handled two at a time.         *)
(***************************************************************************)
OneWriter == \A c, d \in Writers : c = d

Lists == Listings \union {{}}

\* When systemctl waits for xray, xray has read its file when systemctl returns.
XrayHasRead == "xray" \in Notifying => core["xray"].status # "starting"

\* What a lone writer keeps to: every file is empty or one whole text, empty as long as the
\* text is still to come, and not empty once its xray -test run has passed.
AloneInv ==
  /\ ServesOneList
  /\ XrayHasRead
  /\ \A k \in Cores : file[k] = Empty \/ \E S \in Lists : file[k] = Text(k, S)
  /\ \A c \in Writers : w[c].listed \in Lists
  /\ \A c \in Writers : At(c, "write") \/ w[c].buffered => file[w[c].at] = Empty
  /\ \A c \in Writers : At(c, "reload") /\ w[c].at = "xray" => file["xray"] # Empty

\* What a core makes of an empty file and of a whole text, and a text written into an empty file.
LEMMA WholeTexts ==
  ASSUME NEW k \in Cores, NEW S \in SUBSET Users
  PROVE  /\ Loads(k, Empty) = {Down}
         /\ Loads(k, Text(k, S)) = {Up(S)}
         /\ Overlay(k, S, Empty) = Text(k, S)
         /\ Text(k, S) # Empty
<1>1. Length[k][S] \in Nat \ {0}
  BY CoreAssumption
<1> QED
  BY <1>1 DEF Loads, Overlay, Text, Empty

\* A core that has read its file is not between two lives.
LEMMA LoadsEnds ==
  ASSUME NEW k, NEW f, NEW new \in Loads(k, f)
  PROVE  new.status # "starting"
BY DEF Loads, Down, Up

\* A core that reads one of a lone writer's files serves one list; a file that is not empty
\* does not bring it down.
LEMMA AloneLoads ==
  ASSUME AloneInv, NEW k \in Cores, NEW outcome \in Loads(k, file[k])
  PROVE  /\ outcome.users \in Lists
         /\ outcome.status = "up" <=> file[k] # Empty
<1> USE DEF Lists
<1>1. CASE file[k] = Empty
  BY <1>1, WholeTexts DEF Down
<1>2. CASE file[k] # Empty
  <2>1. PICK S \in Lists : file[k] = Text(k, S)
    BY <1>2 DEF AloneInv
  <2>2. S \in SUBSET Users
    BY CoreAssumption
  <2>3. outcome = Up(S)
    BY <2>1, <2>2, WholeTexts
  <2> QED
    BY <1>2, <2>3 DEF Up
<1> QED
  BY <1>1, <1>2

LEMMA AloneFlushes ==
  ASSUME TypeOK, AloneInv, NEW c \in Writers, At(c, "write") \/ w[c].buffered
  PROVE  Flushed(c) = [file EXCEPT ![w[c].at] = Text(w[c].at, w[c].listed)]
<1>1. file[w[c].at] = Empty
  BY DEF AloneInv
<1>2. w[c].at \in Cores /\ w[c].listed \in SUBSET Users
  BY DEF TypeOK, Sync
<1> QED
  BY <1>1, <1>2, WholeTexts DEF Flushed

LEMMA AloneInit == Init => AloneInv
<1> SUFFICES ASSUME Init PROVE AloneInv
  OBVIOUS
<1>1. {} \in Lists
  BY DEF Lists
<1> QED
  BY <1>1 DEF Init, AloneInv, ServesOneList, XrayHasRead, Lists, Up, At, Cores

LEMMA AloneStep ==
  ASSUME OneWriter, TypeOK, BufferedInSync, AloneInv, NEW c \in Writers,
         Step(c) \/ \E S \in Listings : Begin(c, S)
  PROVE  AloneInv'
<1> DEFINE OwnPart == /\ w[c].listed \in Lists
                      /\ At(c, "write") \/ w[c].buffered => file[w[c].at] = Empty
                      /\ At(c, "reload") /\ w[c].at = "xray" => file["xray"] # Empty
           FilePart == \A k \in Cores : file[k] = Empty \/ \E S \in Lists : file[k] = Text(k, S)
           CorePart == ServesOneList /\ XrayHasRead
<1>0. OwnPart /\ FilePart /\ CorePart
  BY DEF AloneInv
<1>1. SUFFICES OwnPart' /\ FilePart' /\ CorePart'
  <2>1. \A d \in Writers : d = c
    BY DEF OneWriter
  <2> QED
    BY <1>1, <2>1 DEF AloneInv
<1>2. UNCHANGED core => CorePart'
  BY <1>0 DEF ServesOneList, XrayHasRead
<1>3. UNCHANGED file => FilePart'
  BY <1>0
<1>4. w[c].at \in Cores /\ w[c].listed \in SUBSET Users
  BY DEF TypeOK, Sync
<1>5. ASSUME Step(c) PROVE w'[c].listed \in Lists
  BY <1>0, <1>5, OwnRecord
<1>6. ASSUME NEW S \in Listings, Begin(c, S)
      PROVE  OwnPart' /\ FilePart' /\ CorePart'
  <2>1. w'[c].pc = "open" /\ w'[c].buffered = FALSE /\ w'[c].listed = S
    BY <1>6 DEF Begin, TypeOK, Sync
  <2> QED
    BY <1>2, <1>3, <1>6, <2>1 DEF Begin, At, Lists
<1>7. CASE Open(c) /\ w[c].at \notin Unwritable
  <2>1. w'[c].pc = "write" /\ w'[c].at = w[c].at
    BY <1>7, OwnRecord
  <2>2. file' = [file EXCEPT ![w[c].at] = Empty] /\ UNCHANGED core
    BY <1>7 DEF Open
  <2>3. file'[w[c].at] = Empty
    BY <1>4, <2>2 DEF TypeOK
  <2>4. FilePart'
    BY <1>0, <1>4, <2>2 DEF TypeOK
  <2> QED
    BY <1>2, <1>5, <1>7, <2>1, <2>2, <2>3, <2>4 DEF At, Step
<1>8. CASE Open(c) /\ w[c].at \in Unwritable
  <2>1. w'[c] = Returned(c) /\ Returned(c).buffered = FALSE
    BY <1>8, OwnRecord, ReturnedFact
  <2>2. Returned(c).pc \in {"open", "idle"}
    BY DEF Returned, TypeOK, Sync
  <2> QED
    BY <1>2, <1>3, <1>5, <1>8, <2>1, <2>2 DEF Open, At, Step
<1>9. CASE Write(c)
  <2>1. /\ w'[c].pc = IF w[c].at = "xray" THEN "test" ELSE "reload"
        /\ w'[c].at = w[c].at
        /\ w'[c].buffered = Buffers(c)
    BY <1>9 DEF Write, TypeOK, Sync
  <2>2. CASE Buffers(c)
    <3>1. UNCHANGED <<file, core>> /\ file[w[c].at] = Empty
      BY <1>0, <1>9, <2>2 DEF Write
    <3> QED
      BY <1>2, <1>3, <1>5, <1>9, <2>1, <3>1 DEF At, Step
  <2>3. CASE ~Buffers(c)
    <3>1. file' = [file EXCEPT ![w[c].at] = Text(w[c].at, w[c].listed)] /\ UNCHANGED core
      BY <1>9, <2>3, AloneFlushes DEF Write
    <3>2. FilePart'
      BY <1>0, <1>4, <3>1 DEF TypeOK
    <3> QED
      BY <1>2, <1>5, <1>9, <2>1, <2>3, <3>1, <3>2 DEF At, Step
  <2> QED
    BY <2>2, <2>3
<1>10. CASE Test(c)
  <2>1. PICK outcome \in Loads(w[c].at, file[w[c].at]) :
          w' = [w EXCEPT ![c].pc = IF outcome.status = "up" THEN "reload" ELSE "close"]
    BY <1>10 DEF Test
  <2>2. outcome.status = "up" <=> file[w[c].at] # Empty
    BY <1>4, AloneLoads
  <2>3. /\ w'[c].pc = IF outcome.status = "up" THEN "reload" ELSE "close"
        /\ w'[c].at = w[c].at
        /\ w'[c].buffered = w[c].buffered
    BY <2>1 DEF TypeOK, Sync
  <2> QED
    BY <1>0, <1>2, <1>3, <1>5, <1>10, <2>2, <2>3 DEF Test, At, Step
<1>11. CASE Reload(c)
  <2>1. PICK new \in Core : /\ core' = [core EXCEPT ![w[c].at] = new]
                            /\ new \in Restarted(w[c].at) \union {core[w[c].at], Down}
    BY <1>11, ReloadFact
  <2>2. /\ new.users \in Lists
        /\ "xray" \in Notifying /\ w[c].at = "xray" => new.status # "starting"
    <3>1. CASE new \in Restarted(w[c].at)
      BY <1>4, <3>1, AloneLoads, LoadsEnds DEF Restarted, Starting, Lists
    <3>2. CASE new \in {core[w[c].at], Down}
      BY <1>0, <1>4, <3>2 DEF ServesOneList, XrayHasRead, Down, Lists
    <3> QED
      BY <2>1, <3>1, <3>2
  <2>3. ServesOneList'
    BY <1>0, <1>4, <2>1, <2>2 DEF ServesOneList, Lists, TypeOK
  <2>4. XrayHasRead'
    BY <1>0, <1>4, <2>1, <2>2 DEF XrayHasRead, TypeOK
  <2>5. w'[c].pc = "close" /\ w'[c].at = w[c].at /\ w'[c].buffered = w[c].buffered
    BY <1>11 DEF Reload, TypeOK, Sync
  <2> QED
    BY <1>0, <1>3, <1>5, <1>11, <2>3, <2>4, <2>5 DEF Reload, At, Step
<1>12. CASE Close(c)
  <2>1. w'[c] = Returned(c) /\ Returned(c).buffered = FALSE
    BY <1>12, OwnRecord, ReturnedFact
  <2>2. Returned(c).pc \in {"open", "idle"}
    BY DEF Returned, TypeOK, Sync
  <2>3. FilePart'
    <3>1. CASE w[c].buffered
      <4>1. file' = [file EXCEPT ![w[c].at] = Text(w[c].at, w[c].listed)]
        BY <1>12, <3>1, AloneFlushes DEF Close
      <4> QED
        BY <1>0, <1>4, <4>1 DEF TypeOK
    <3>2. CASE ~w[c].buffered
      BY <1>3, <1>12, <3>2 DEF Close
    <3> QED
      BY <3>1, <3>2
  <2> QED
    BY <1>2, <1>5, <1>12, <2>1, <2>2, <2>3 DEF Close, At, Step
<1> QED
  BY <1>6, <1>7, <1>8, <1>9, <1>10, <1>11, <1>12 DEF Step

\* A core that reads its file late reads one list or an empty file all the same.
LEMMA AloneStart ==
  ASSUME TypeOK, AloneInv, NEW k \in Cores, Start(k)
  PROVE  AloneInv'
<1>1. PICK new \in Loads(k, file[k]) : core' = [core EXCEPT ![k] = new]
  BY DEF Start
<1>2. new.users \in Lists
  BY AloneLoads
<1>3. ServesOneList'
  BY <1>1, <1>2 DEF AloneInv, ServesOneList, Lists, TypeOK
<1>4. XrayHasRead'
  <2>1. "xray" \in Notifying => k # "xray"
    BY DEF AloneInv, XrayHasRead, Start, Starting
  <2> QED
    BY <1>1, <2>1 DEF AloneInv, XrayHasRead, TypeOK
<1> QED
  BY <1>3, <1>4 DEF AloneInv, Start, At

LEMMA AloneInvariance ==
  ASSUME OneWriter
  PROVE  Spec => []AloneInv
<1>1. Init => AloneInv
  BY AloneInit
<1>2. IInv /\ AloneInv /\ [Next]_confVars => AloneInv'
  <2> SUFFICES ASSUME IInv, AloneInv, [Next]_confVars PROVE AloneInv'
    OBVIOUS
  <2>1. ASSUME NEW c \in Writers, Step(c) \/ \E S \in Listings : Begin(c, S)
        PROVE  AloneInv'
    BY <2>1, AloneStep DEF IInv
  <2>2. ASSUME NEW k \in Cores, Start(k) PROVE AloneInv'
    BY <2>2, AloneStart DEF IInv
  <2>3. CASE UNCHANGED confVars
    BY <2>3 DEF confVars, AloneInv, ServesOneList, XrayHasRead, At
  <2> QED
    BY <2>1, <2>2, <2>3 DEF Next
<1> QED
  BY <1>1, <1>2, Invariance, PTL DEF Spec

\* With one writer, and a systemctl that waits for xray, the -test run and the order of the
\* statements of sync_users never bring xray down, whatever the lists and however much of a text
\* stays in the buffer: only a failing systemctl does.
THEOREM LoneWriterKeepsXrayUp ==
  ASSUME OneWriter, "xray" \in Notifying
  PROVE  Spec => XrayStaysUp
<1> DEFINE Stays == core["xray"].status # "down" /\ core'["xray"].status = "down" => "xray" \in stale'
<1>1. IInv /\ AloneInv /\ [Next]_confVars => Stays
  <2> SUFFICES ASSUME IInv, AloneInv, [Next]_confVars,
                      core["xray"].status # "down", core'["xray"].status = "down"
               PROVE  "xray" \in stale'
    OBVIOUS
  <2>1. ASSUME NEW c \in Writers, Reload(c) PROVE "xray" \in stale'
    <3>1. TypeOK /\ w[c].at \in Cores
      BY DEF IInv, TypeOK, Sync
    <3>2. PICK new \in Core :
            /\ core' = [core EXCEPT ![w[c].at] = new]
            /\ \/ new \in Restarted(w[c].at) /\ stale' = stale \ {w[c].at}
               \/ /\ new \in {core[w[c].at], Down}
                  /\ stale' = IF Alone(c) THEN stale \union {w[c].at} ELSE stale
      BY <2>1, <3>1, ReloadFact
    <3>3. w[c].at = "xray" /\ new.status = "down"
      BY <3>1, <3>2 DEF TypeOK, Cores
    <3>4. new \notin Restarted(w[c].at)
      <4>1. file["xray"] # Empty
        BY <2>1, <3>3 DEF AloneInv, Reload
      <4> QED
        BY <3>1, <3>3, <4>1, AloneLoads DEF Restarted
    <3>5. Alone(c)
      BY DEF OneWriter, Alone
    <3> QED
      BY <3>2, <3>3, <3>4, <3>5
  <2>2. ASSUME NEW k \in Cores, Start(k) PROVE FALSE
    <3>1. k # "xray"
      BY <2>2 DEF AloneInv, XrayHasRead, Start, Starting
    <3> QED
      BY <2>2, <3>1 DEF Start, IInv, TypeOK, Cores
  <2>3. ASSUME UNCHANGED core PROVE FALSE
    BY <2>3
  <2>4. ASSUME NEW c \in Writers, Step(c) \/ \E S \in Listings : Begin(c, S)
        PROVE  Reload(c) \/ UNCHANGED core
    BY <2>4 DEF Step, Begin, Open, Write, Test, Close
  <2> QED
    BY <2>1, <2>2, <2>3, <2>4 DEF Next, confVars
<1> QED
  BY <1>1, Invariance, AloneInvariance, PTL DEF Spec, XrayStaysUp

\* With one writer, no core ever serves a mixture of two lists.
THEOREM LoneWriterServesOneList ==
  ASSUME OneWriter
  PROVE  Spec => []ServesOneList
<1>1. AloneInv => ServesOneList
  BY DEF AloneInv
<1> QED
  BY <1>1, AloneInvariance, PTL

-----------------------------------------------------------------------------
(***************************************************************************)
(* What a lone writer leaves behind: text it has not kept in the buffer is *)
(* in the file as it was written, and a core has read it, or is going to,  *)
(* when its manager's sync_users ends.                                     *)
(***************************************************************************)
\* Core k serves what its file lists, or is going to, unless that text fits the buffer.
InForce(k) == file[k].len >= BufSize => core[k] \in {Starting, Up(file[k].users)}

\* c is going to replace the file of core k, or has begun to and is not done with it.
Replacing(c, k) ==
  \/ k \notin Unwritable /\ Unopened(c, k)
  \/ w[c].at = k /\ w[c].pc \in {"write", "test", "reload", "close"}

InOrder(c, k) == InForce(k) \/ k \in stale \/ Replacing(c, k)

LeftBehind(c) ==
  /\ \A k \in Cores : InOrder(c, k)
  /\ stale \intersect Unwritable = {}
  /\ w[c].pc \in {"write", "test", "reload", "close"} => w[c].at \notin Unwritable
  /\ w[c].pc \in {"test", "reload", "close"} =>
       IF w[c].buffered THEN Length[w[c].at][w[c].listed] < BufSize
                        ELSE file[w[c].at] = Text(w[c].at, w[c].listed)
  /\ At(c, "close") /\ ~w[c].buffered /\ w[c].at \notin stale =>
       core[w[c].at] \in {Starting, Up(w[c].listed)}

\* What a core makes of the file in which c has left its text.
LEMMA LoadsWritten ==
  ASSUME TypeOK, NEW c \in Writers, file[w[c].at] = Text(w[c].at, w[c].listed)
  PROVE  Loads(w[c].at, file[w[c].at]) = {Up(w[c].listed)}
BY WholeTexts DEF TypeOK, Sync

LEMMA LeftBehindInit == ASSUME Init, NEW c \in Writers PROVE LeftBehind(c)
BY DEF Init, LeftBehind, InOrder, InForce, Text, At

\* The cores and files that a step does not touch are served as before.
LEMMA InOrderKept ==
  ASSUME NEW c \in Writers, NEW k \in Cores, LeftBehind(c),
         file'[k] = file[k], core'[k] = core[k], k \in stale => k \in stale',
         Replacing(c, k) => Replacing(c, k)'
  PROVE  InOrder(c, k)'
BY DEF LeftBehind, InOrder, InForce

LEMMA LeftBehindStep ==
  ASSUME OneWriter, TypeOK, BufferedInSync, AloneInv, NEW c \in Writers, LeftBehind(c),
         Step(c) \/ \E S \in Listings : Begin(c, S)
  PROVE  LeftBehind(c)'
<1>1. w[c] \in Sync /\ w[c].at \in Cores /\ w[c].listed \in SUBSET Users
  BY DEF TypeOK, Sync
<1>2. /\ Returned(c).pc \in {"open", "idle"} /\ Returned(c).buffered = FALSE
      /\ w[c].at = "xray" => Returned(c).pc = "open" /\ Returned(c).at = "hysteria"
  BY <1>1 DEF Returned, Sync
<1>3. Step(c) => w'[c].listed = w[c].listed
  BY OwnRecord
<1>4. ASSUME NEW S \in Listings, Begin(c, S) PROVE LeftBehind(c)'
  <2>1. /\ w'[c].pc = "open" /\ w'[c].at = "xray" /\ file' = file /\ core' = core /\ stale' = {}
        /\ w[c].pc = "idle"
    BY <1>4, OwnRecord DEF Begin, At
  <2>2. ASSUME NEW k \in Cores PROVE InOrder(c, k)'
    <3>1. CASE k \in Unwritable
      <4>1. InForce(k)
        BY <2>1, <3>1 DEF LeftBehind, InOrder, Replacing
      <4> QED
        BY <2>1, <4>1 DEF InOrder, InForce
    <3>2. CASE k \notin Unwritable
      BY <2>1, <3>2 DEF InOrder, Replacing, Unopened, At, Cores
    <3> QED
      BY <3>1, <3>2
  <2> QED
    BY <2>1, <2>2 DEF LeftBehind, At
<1>5. CASE Open(c) /\ w[c].at \notin Unwritable
  <2>1. /\ w'[c].pc = "write" /\ w'[c].at = w[c].at /\ w[c].pc = "open" /\ core' = core
        /\ stale' = stale
    BY <1>5, OwnRecord DEF Open, At
  <2>2. ASSUME NEW k \in Cores PROVE InOrder(c, k)'
    <3>1. CASE k = w[c].at
      BY <2>1, <3>1 DEF InOrder, Replacing
    <3>2. CASE k # w[c].at
      <4>1. file'[k] = file[k]
        BY <1>1, <1>5, <3>2 DEF Open, TypeOK
      <4> QED
        BY <2>1, <3>2, <4>1, InOrderKept DEF Replacing, Unopened, At
    <3> QED
      BY <3>1, <3>2
  <2> QED
    BY <1>5, <2>1, <2>2 DEF LeftBehind, At
<1>6. CASE Open(c) /\ w[c].at \in Unwritable
  <2>1. /\ w'[c] = Returned(c) /\ file' = file /\ core' = core /\ w[c].pc = "open"
        /\ stale' = stale
    BY <1>6, OwnRecord DEF Open, At
  <2>2. ASSUME NEW k \in Cores PROVE InOrder(c, k)'
    BY <1>1, <1>2, <1>6, <2>1, InOrderKept DEF Replacing, Unopened, At, Cores
  <2> QED
    BY <1>2, <2>1, <2>2 DEF LeftBehind, At
<1>7. CASE Write(c)
  <2>1. /\ w'[c].pc \in {"test", "reload"} /\ w'[c].at = w[c].at /\ w'[c].buffered = Buffers(c)
        /\ core' = core /\ stale' = stale /\ w[c].pc = "write"
    BY <1>7, OwnRecord DEF Write, At
  <2>2. /\ Buffers(c) => Length[w[c].at][w[c].listed] < BufSize
        /\ Buffers(c) \in BOOLEAN
    BY DEF Buffers
  <2>3. ~Buffers(c) => file'[w[c].at] = Text(w[c].at, w[c].listed)
    BY <1>1, <1>7, AloneFlushes DEF Write, TypeOK
  <2>4. ASSUME NEW k \in Cores PROVE InOrder(c, k)'
    <3>1. CASE k = w[c].at
      BY <2>1, <3>1 DEF InOrder, Replacing
    <3>2. CASE k # w[c].at
      <4>1. file'[k] = file[k]
        BY <1>7, <3>2, FlushedFact DEF Write
      <4> QED
        BY <2>1, <3>2, <4>1, InOrderKept DEF Replacing, Unopened, At
    <3> QED
      BY <3>1, <3>2
  <2>5. IF w'[c].buffered THEN Length[w[c].at][w[c].listed] < BufSize
                          ELSE file'[w[c].at] = Text(w[c].at, w[c].listed)
    BY <2>1, <2>2, <2>3
  <2> QED
    BY <1>3, <1>7, <2>1, <2>4, <2>5 DEF LeftBehind, Step, At
<1>8. CASE Test(c)
  <2>1. PICK outcome \in Loads(w[c].at, file[w[c].at]) :
          w' = [w EXCEPT ![c].pc = IF outcome.status = "up" THEN "reload" ELSE "close"]
    BY <1>8 DEF Test
  <2>2. /\ w'[c].pc = IF outcome.status = "up" THEN "reload" ELSE "close"
        /\ w'[c].at = w[c].at /\ w'[c].buffered = w[c].buffered
        /\ file' = file /\ core' = core /\ stale' = stale /\ w[c].pc = "test"
    BY <1>1, <1>8, <2>1 DEF Test, At, TypeOK, Sync
  <2>3. ASSUME NEW k \in Cores PROVE InOrder(c, k)'
    BY <2>2, InOrderKept DEF Replacing, Unopened, At
  <2>4. ~w[c].buffered => w'[c].pc = "reload"
    BY <2>2, LoadsWritten DEF LeftBehind, Up
  <2> QED
    BY <1>3, <1>8, <2>2, <2>3, <2>4 DEF LeftBehind, Step, At
<1>9. CASE Reload(c)
  <2>1. PICK new \in Core :
          /\ core' = [core EXCEPT ![w[c].at] = new]
          /\ \/ new \in Restarted(w[c].at) /\ stale' = stale \ {w[c].at}
             \/ /\ new \in {core[w[c].at], Down}
                /\ stale' = IF Alone(c) THEN stale \union {w[c].at} ELSE stale
    BY <1>9, ReloadFact
  <2>2. /\ w'[c].pc = "close" /\ w'[c].at = w[c].at /\ w'[c].buffered = w[c].buffered
        /\ file' = file /\ w[c].pc = "reload"
    BY <1>1, <1>9 DEF Reload, At, TypeOK, Sync
  <2>3. ASSUME NEW k \in Cores PROVE InOrder(c, k)'
    <3>1. CASE k = w[c].at
      BY <2>2, <3>1 DEF InOrder, Replacing
    <3>2. CASE k # w[c].at
      <4>1. core'[k] = core[k] /\ (k \in stale => k \in stale')
        BY <2>1, <3>2 DEF TypeOK
      <4> QED
        BY <2>2, <3>2, <4>1, InOrderKept DEF Replacing, Unopened, At
    <3> QED
      BY <3>1, <3>2
  <2>4. ~w[c].buffered /\ w[c].at \notin stale' => new \in {Starting, Up(w[c].listed)}
    <3>1. Alone(c)
      BY DEF OneWriter, Alone
    <3>2. w[c].at \notin stale' => new \in Restarted(w[c].at)
      BY <2>1, <3>1
    <3> QED
      BY <2>2, <3>2, LoadsWritten DEF LeftBehind, Restarted
  <2>5. core'[w[c].at] = new /\ stale' \intersect Unwritable = {}
    BY <1>1, <2>1, <2>2 DEF TypeOK, LeftBehind
  <2> QED
    BY <1>3, <1>9, <2>2, <2>3, <2>4, <2>5 DEF LeftBehind, Step, At
<1>10. CASE Close(c)
  <2>1. w'[c] = Returned(c) /\ core' = core /\ stale' = stale /\ w[c].pc = "close"
    BY <1>10, OwnRecord DEF Close, At
  <2>2. PICK k \in Cores : k = w[c].at
    BY <1>1
  <2>3. ASSUME NEW j \in Cores \ {k} PROVE InOrder(c, j)'
    <3>1. file'[j] = file[j]
      BY <1>10, <2>2, FlushedFact DEF Close
    <3>2. Replacing(c, j) => Replacing(c, j)'
      BY <1>1, <1>2, <2>1, <2>2 DEF Replacing, Unopened, At, Cores
    <3> QED
      BY <2>1, <3>1, <3>2, InOrderKept
  <2>4. InForce(k)' \/ k \in stale'
    <3>1. CASE w[c].buffered
      <4>1. file'[k] = Text(k, w[c].listed)
        BY <1>1, <1>10, <2>2, <3>1, AloneFlushes DEF Close, TypeOK
      <4>2. Length[k][w[c].listed] < BufSize /\ Length[k][w[c].listed] \in Nat
        BY <1>1, <2>1, <2>2, <3>1, CoreAssumption DEF LeftBehind
      <4> QED
        BY <4>1, <4>2, CoreAssumption DEF InForce, Text
    <3>2. CASE ~w[c].buffered
      <4>1. file' = file /\ file[k] = Text(k, w[c].listed)
        BY <1>10, <2>1, <2>2, <3>2 DEF Close, LeftBehind
      <4> QED
        BY <2>1, <2>2, <3>2, <4>1 DEF InForce, LeftBehind, Text, At
    <3> QED
      BY <3>1, <3>2
  <2> QED
    BY <1>2, <2>1, <2>2, <2>3, <2>4 DEF LeftBehind, InOrder, At
<1> QED
  BY <1>4, <1>5, <1>6, <1>7, <1>8, <1>9, <1>10 DEF Step

\* A core that reads its file while the writer is not at it finds a whole text.
LEMMA LeftBehindStart ==
  ASSUME OneWriter, IInv, AloneInv, NEW c \in Writers, LeftBehind(c), NEW k \in Cores, Start(k)
  PROVE  LeftBehind(c)'
<1>1. PICK new \in Loads(k, file[k]) : core' = [core EXCEPT ![k] = new]
  BY DEF Start
<1>2. /\ file' = file /\ w' = w /\ TypeOK
      /\ \A j \in Cores : core'[j] = IF j = k THEN new ELSE core[j]
  BY <1>1 DEF Start, IInv, TypeOK
<1>3. ASSUME NEW j \in Cores PROVE InOrder(c, j)'
  <2>1. CASE j # k
    BY <1>2, <2>1, InOrderKept DEF Start, Replacing, Unopened, At
  <2>2. CASE j = k /\ Replacing(c, k)
    BY <1>2, <2>2 DEF InOrder, Replacing, Unopened, At
  <2>3. CASE j = k /\ ~Replacing(c, k)
    <3>1. file[k] # Empty
      <4> SUFFICES ASSUME file[k] = Empty PROVE FALSE
        OBVIOUS
      <4>1. PICK d \in Writers : Holds(d, k)
        BY DEF IInv, EmptyIsOwed, Empty
      <4>2. d = c
        BY DEF OneWriter
      <4> QED
        BY <2>3, <4>1, <4>2 DEF Holds, Replacing, At, IInv, BufferedInSync
    <3>2. PICK S \in Lists : file[k] = Text(k, S)
      BY <3>1 DEF AloneInv
    <3>3. new = Up(S)
      BY <3>2, WholeTexts, CoreAssumption DEF Lists
    <3> QED
      BY <1>2, <2>3, <3>2, <3>3 DEF InOrder, InForce, Text
  <2> QED
    BY <2>1, <2>2, <2>3
<1>4. At(c, "close") /\ ~w[c].buffered /\ w[c].at \notin stale =>
        core'[w[c].at] \in {Starting, Up(w[c].listed)}
  <2> SUFFICES ASSUME At(c, "close"), ~w[c].buffered, w[c].at \notin stale
               PROVE  core'[w[c].at] \in {Starting, Up(w[c].listed)}
    OBVIOUS
  <2>1. Loads(w[c].at, file[w[c].at]) = {Up(w[c].listed)} /\ w[c].at \in Cores
    BY <1>2, LoadsWritten DEF LeftBehind, At, TypeOK, Sync
  <2> QED
    BY <1>1, <1>2, <2>1 DEF LeftBehind
<1> QED
  BY <1>2, <1>3, <1>4 DEF LeftBehind, Start, At

LEMMA LeftBehindInvariance ==
  ASSUME OneWriter
  PROVE  Spec => [](\A c \in Writers : LeftBehind(c))
<1> DEFINE L == \A c \in Writers : LeftBehind(c)
<1>1. Init => L
  BY LeftBehindInit
<1>2. IInv /\ AloneInv /\ L /\ [Next]_confVars => L'
  <2> SUFFICES ASSUME IInv, AloneInv, L, [Next]_confVars, NEW c \in Writers PROVE LeftBehind(c)'
    OBVIOUS
  <2>1. CASE \E d \in Writers : Step(d) \/ \E S \in Listings : Begin(d, S)
    BY <2>1, LeftBehindStep DEF OneWriter, IInv
  <2>2. CASE \E k \in Cores : Start(k)
    BY <2>2, LeftBehindStart
  <2>3. CASE UNCHANGED confVars
    BY <2>3 DEF confVars, LeftBehind, InOrder, InForce, Replacing, Unopened, At
  <2> QED
    BY <2>1, <2>2, <2>3 DEF Next
<1> QED
  BY <1>1, <1>2, Invariance, AloneInvariance, PTL DEF Spec

\* With one writer, reload() never makes a core read its configuration before a text that does
\* not fit the buffer is in the file.
THEOREM LoneWriterWritesFirst ==
  ASSUME OneWriter
  PROVE  Spec => []WrittenWhenReloaded
<1>1. TypeOK /\ (\A c \in Writers : LeftBehind(c)) => WrittenWhenReloaded
  <2> SUFFICES ASSUME TypeOK, NEW c \in Writers, LeftBehind(c), At(c, "reload") \/ At(c, "test"),
                      Length[w[c].at][w[c].listed] >= BufSize
               PROVE  file[w[c].at] = Text(w[c].at, w[c].listed)
    BY DEF WrittenWhenReloaded
  <2>1. Length[w[c].at][w[c].listed] \in Nat
    BY CoreAssumption DEF TypeOK, Sync
  <2> QED
    BY <2>1, CoreAssumption DEF LeftBehind, At
<1> QED
  BY <1>1, LeftBehindInvariance, TypeCorrect, PTL

\* With one writer, each core serves, or is going to serve, the text its file has when the writer
\* is done, if that text did not fit the buffer and systemctl has restarted the core.
THEOREM LoneWriterIsServed ==
  ASSUME OneWriter
  PROVE  Spec => []QuietMeansServed
<1>1. (\A c \in Writers : LeftBehind(c)) => QuietMeansServed
  BY CoreAssumption DEF LeftBehind, Quiet, QuietMeansServed, InOrder, InForce, Replacing, Unopened, At
<1> QED
  BY <1>1, LeftBehindInvariance, PTL

-----------------------------------------------------------------------------
(***************************************************************************)
(* CoreConfig with one writer implements CoreService for the cores that    *)
(* systemctl waits for.  What a reload makes of its core is decided by     *)
(* whether the text is still in the buffer, so the buffer has to say of    *)
(* the text exactly that it is short.                                      *)
(***************************************************************************)
\* A stream has buffered its text if and only if that text is short, only xray's is tested, and
\* only a file that could be opened is written.
StreamInv ==
  \A c \in Writers :
    /\ w[c].pc \in {"test", "reload", "close"} => (w[c].buffered <=> Buffers(c))
    /\ At(c, "test") => w[c].at = "xray"
    /\ w[c].pc \in {"write", "test", "reload", "close"} => w[c].at \notin Unwritable

\* systemctl has seen the start of the cores that it waits for.
NoneStarting == \A k \in Notifying : core[k].status # "starting"

LEMMA StreamStep ==
  ASSUME TypeOK, StreamInv, NEW c \in Writers, Step(c) \/ \E S \in Listings : Begin(c, S)
  PROVE  StreamInv'
<1> DEFINE P(d) == /\ w[d].pc \in {"test", "reload", "close"} => (w[d].buffered <=> Buffers(d))
                   /\ At(d, "test") => w[d].at = "xray"
                   /\ w[d].pc \in {"write", "test", "reload", "close"} => w[d].at \notin Unwritable
<1>1. \A d \in Writers : P(d)
  BY DEF StreamInv
<1>2. ASSUME NEW d \in Writers, d # c PROVE P(d)'
  BY <1>1, <1>2, OthersKeep DEF At, Buffers
<1>3. w[c].at \in Cores /\ Returned(c).pc \in {"open", "idle"}
  BY DEF TypeOK, Sync, Returned
<1>4. P(c)'
  <2>1. ASSUME NEW S \in Listings, Begin(c, S) PROVE P(c)'
    BY <2>1, OwnRecord DEF At
  <2>2. CASE Open(c) /\ w[c].at \notin Unwritable
    BY <2>2, OwnRecord DEF At
  <2>3. CASE (Open(c) /\ w[c].at \in Unwritable) \/ Close(c)
    BY <1>3, <2>3, OwnRecord DEF At
  <2>4. CASE Write(c)
    <3>1. /\ w'[c].pc = IF w[c].at = "xray" THEN "test" ELSE "reload"
          /\ w'[c].at = w[c].at
          /\ w'[c].buffered = Buffers(c)
          /\ w'[c].listed = w[c].listed
      BY <2>4 DEF Write, TypeOK, Sync
    <3>2. Buffers(c)' <=> Buffers(c)
      BY <3>1 DEF Buffers
    <3> QED
      BY <1>1, <2>4, <3>1, <3>2 DEF At, Write
  <2>5. CASE Test(c) \/ Reload(c)
    <3>1. /\ w'[c].pc \in {"reload", "close"}
          /\ w'[c].at = w[c].at
          /\ w'[c].buffered = w[c].buffered
          /\ w'[c].listed = w[c].listed
      BY <2>5, OwnRecord DEF Step
    <3>2. Buffers(c)' <=> Buffers(c)
      BY <3>1 DEF Buffers
    <3> QED
      BY <1>1, <2>5, <3>1, <3>2 DEF At, Test, Reload
  <2> QED
    BY <2>1, <2>2, <2>3, <2>4, <2>5 DEF Step
<1>5. \A d \in Writers : P(d)'
  BY <1>2, <1>4
<1> QED
  BY <1>5 DEF StreamInv

LEMMA NoneStartingStep ==
  ASSUME TypeOK, NoneStarting, [Next]_confVars
  PROVE  NoneStarting'
<1>1. UNCHANGED core => NoneStarting'
  BY DEF NoneStarting
<1>2. ASSUME NEW c \in Writers, Reload(c) PROVE NoneStarting'
  <2>1. PICK new \in Core : /\ core' = [core EXCEPT ![w[c].at] = new]
                            /\ new \in Restarted(w[c].at) \union {core[w[c].at], Down}
    BY <1>2, ReloadFact
  <2>2. w[c].at \in Notifying => new.status # "starting"
    BY <2>1, LoadsEnds DEF Restarted, NoneStarting, Down
  <2> QED
    BY <2>1, <2>2 DEF NoneStarting, TypeOK
<1>3. ASSUME NEW k \in Cores, Start(k) PROVE NoneStarting'
  <2>1. PICK new \in Loads(k, file[k]) : core' = [core EXCEPT ![k] = new]
    BY <1>3 DEF Start
  <2>2. new.status # "starting"
    BY <2>1, LoadsEnds
  <2> QED
    BY <2>1, <2>2 DEF NoneStarting, TypeOK
<1>4. ASSUME NEW c \in Writers, Step(c) \/ \E S \in Listings : Begin(c, S) PROVE NoneStarting'
  BY <1>1, <1>2, <1>4 DEF Step, Begin, Open, Write, Test, Close
<1> QED
  BY <1>1, <1>3, <1>4 DEF Next, confVars

LEMMA StreamInvariance == Spec => [](StreamInv /\ NoneStarting)
<1>1. Init => StreamInv /\ NoneStarting
  BY CoreAssumption DEF Init, StreamInv, NoneStarting, At, Up
<1>2. TypeOK /\ StreamInv /\ NoneStarting /\ [Next]_confVars => (StreamInv /\ NoneStarting)'
  <2> SUFFICES ASSUME TypeOK, StreamInv, NoneStarting, [Next]_confVars PROVE StreamInv'
    BY NoneStartingStep
  <2>1. ASSUME NEW c \in Writers, Step(c) \/ \E S \in Listings : Begin(c, S) PROVE StreamInv'
    BY <2>1, StreamStep
  <2>2. CASE UNCHANGED <<file, w>>
    BY <2>2 DEF StreamInv, At, Buffers
  <2>3. (\E k \in Cores : Start(k)) \/ UNCHANGED confVars => UNCHANGED <<file, w>>
    BY DEF Start, confVars
  <2> QED
    BY <2>1, <2>2, <2>3 DEF Next
<1> QED
  BY <1>1, <1>2, TypeCorrect, PTL DEF Spec

\* The lists that leave core k as it is.
LeavesAlone(k, S) == k \in Unwritable \/ (k = "xray" /\ S \notin Long(k))

\* The step at which c is done with a core, Hand(c, w[c].at) of CoreService when systemctl waits
\* for that core and a stutter otherwise.
LEMMA HandingOver ==
  ASSUME TypeOK, NEW c \in Writers, NEW k \in Cores, NEW S \in SUBSET Users,
         k = w[c].at, S = w[c].listed,
         \A d \in Writers : w'[d].listed = w[d].listed,
         \A d \in Writers \ {c} : Ahead(d)' = Ahead(d),
         k \in Ahead(c), Ahead(c)' = Ahead(c) \ {k},
         \A j \in Cores \ {k} : core'[j] = core[j] /\ (j \in stale' <=> j \in stale),
         k \in Notifying =>
           \/ /\ Served(k)' = IF k \notin Unwritable /\ S \in Long(k) THEN {S}
                              ELSE IF LeavesAlone(k, S) THEN Served(k) ELSE {}
              /\ k \in stale' <=> k \in stale /\ LeavesAlone(k, S)
           \/ /\ ~LeavesAlone(k, S) /\ k \in stale'
              /\ Served(k)' = Served(k) \/ Served(k)' = {}
  PROVE  [Service!Next]_(Service!vars)
<1> DEFINE served == [j \in Notifying |-> Served(j)]
           given == [d \in Writers |-> w[d].listed]
           todo == [d \in Writers |-> Ahead(d) \intersect Notifying]
           kept == [j \in Notifying |-> IF j \in Unwritable THEN SUBSET Users
                                         ELSE IF j = "xray" THEN (SUBSET Users) \ Long(j) ELSE {}]
<1>1. given' = given
  OBVIOUS
<1>2. todo' = [todo EXCEPT ![c] = @ \ {k}]
  OBVIOUS
<1>3. \A j \in Notifying \ {k} : Served(j)' = Served(j)
  BY CoreAssumption DEF Served
<1>4. CASE k \notin Notifying
  <2>1. served' = served
    BY <1>3, <1>4
  <2>2. todo' = todo
    BY <1>2, <1>4
  <2>3. stale' \intersect Notifying = stale \intersect Notifying
    BY <1>4, CoreAssumption
  <2> QED
    BY <1>1, <2>1, <2>2, <2>3 DEF Service!vars
<1>5. CASE k \in Notifying
  <2>1. S \in kept[k] <=> LeavesAlone(k, S)
    BY <1>5 DEF LeavesAlone
  <2>2. Service!Outcome(k, S) = IF k \notin Unwritable /\ S \in Long(k) THEN {S}
                                ELSE IF LeavesAlone(k, S) THEN Served(k) ELSE {}
    <3>1. CASE k \in Unwritable
      BY <1>5, <3>1 DEF Service!Outcome, LeavesAlone
    <3>2. CASE k \notin Unwritable
      BY <1>5, <3>2, <2>1 DEF Service!Outcome, LeavesAlone
    <3> QED
      BY <3>1, <3>2
  <2>3. CASE /\ Served(k)' = Service!Outcome(k, S)
             /\ k \in stale' <=> k \in stale /\ LeavesAlone(k, S)
    <3>1. served' = [served EXCEPT ![k] = Service!Outcome(k, S)]
      BY <1>3, <1>5, <2>3
    <3>2. stale' \intersect Notifying =
            IF S \in kept[k] THEN stale \intersect Notifying ELSE (stale \intersect Notifying) \ {k}
      BY <1>5, <2>1, <2>3, CoreAssumption
    <3>3. Service!Hand(c, k)
      BY <1>1, <1>2, <1>5, <3>1, <3>2 DEF Service!Hand
    <3> QED
      BY <1>5, <3>3 DEF Service!Next
  <2>4. CASE /\ ~LeavesAlone(k, S) /\ k \in stale'
             /\ Served(k)' = Served(k) \/ Served(k)' = {}
    <3>1. served' = served \/ served' = [served EXCEPT ![k] = {}]
      BY <1>3, <1>5, <2>4
    <3>2. stale' \intersect Notifying = (stale \intersect Notifying) \union {k}
      BY <1>5, <2>4, CoreAssumption
    <3>3. S \notin kept[k]
      BY <2>1, <2>4
    <3>4. Service!Hand(c, k)
      BY <1>1, <1>2, <1>5, <3>1, <3>2, <3>3 DEF Service!Hand
    <3> QED
      BY <1>5, <3>4 DEF Service!Next
  <2> QED
    BY <1>5, <2>2, <2>3, <2>4
<1> QED
  BY <1>4, <1>5

LEMMA ServiceStutter ==
  ASSUME \A d \in Writers : w'[d].listed = w[d].listed /\ Ahead(d)' = Ahead(d),
         \A k \in Notifying : core'[k] = core[k], stale' = stale
  PROVE  UNCHANGED Service!vars
BY DEF Service!vars, Served

\* Every step of a lone writer hands its list over, takes a list, or changes nothing that
\* CoreService speaks of.
LEMMA ServiceStep ==
  ASSUME OneWriter, TypeOK, AloneInv, StreamInv, NoneStarting, NEW c \in Writers, LeftBehind(c),
         Step(c) \/ \E S \in Listings : Begin(c, S)
  PROVE  [Service!Next]_(Service!vars)
<1>1. \A d \in Writers : d = c
  BY DEF OneWriter
<1>2. /\ w[c].at \in Cores /\ w[c].listed \in SUBSET Users
      /\ Length[w[c].at][w[c].listed] \in Nat
  BY CoreAssumption DEF TypeOK, Sync
<1>3. Step(c) => w'[c].listed = w[c].listed
  BY OwnRecord
<1>4. /\ w[c].listed \in Long(w[c].at) <=> ~Buffers(c)
      /\ w[c].pc \in {"test", "reload", "close"} => (w[c].buffered <=> Buffers(c))
  BY <1>2, CoreAssumption DEF Long, Buffers, StreamInv
<1>5. ASSUME NEW S \in Listings, Begin(c, S) PROVE Service!Next
  <2>1. /\ w' = [w EXCEPT ![c] = [pc |-> "open", at |-> "xray", listed |-> S, buffered |-> FALSE]]
        /\ w[c].pc = "idle" /\ core' = core /\ stale' = {}
    BY <1>5 DEF Begin, At
  <2>2. w'[c] = [pc |-> "open", at |-> "xray", listed |-> S, buffered |-> FALSE]
    BY <2>1 DEF TypeOK
  <2>3. Ahead(c) = {} /\ Ahead(c)' = Cores
    BY <2>1, <2>2 DEF Ahead, At, Cores
  <2>4. [d \in Writers |-> w'[d].listed] = [[d \in Writers |-> w[d].listed] EXCEPT ![c] = S]
    BY <1>1, <2>2
  <2>5. [d \in Writers |-> Ahead(d)' \intersect Notifying]
          = [[d \in Writers |-> Ahead(d) \intersect Notifying] EXCEPT ![c] = Notifying]
    BY <1>1, <2>3, CoreAssumption
  <2>6. Service!Give(c)
    BY <2>1, <2>3, <2>4, <2>5 DEF Service!Give, Served
  <2> QED
    BY <2>6 DEF Service!Next
<1>6. CASE Open(c) /\ w[c].at \notin Unwritable
  <2>1. /\ w'[c].pc = "write" /\ w'[c].at = w[c].at /\ w[c].pc = "open" /\ core' = core
        /\ stale' = stale
    BY <1>6, OwnRecord DEF Open, At
  <2>2. Ahead(c)' = Ahead(c)
    BY <1>2, <2>1 DEF Ahead, At, Cores
  <2> QED
    BY <1>1, <1>3, <1>6, <2>1, <2>2, ServiceStutter DEF Step
<1>7. CASE Open(c) /\ w[c].at \in Unwritable
  <2>1. /\ w'[c] = Returned(c) /\ w[c].pc = "open" /\ core' = core
        /\ stale' = stale
    BY <1>7, OwnRecord DEF Open, At
  <2>2. w[c].at \in Ahead(c) /\ Ahead(c)' = Ahead(c) \ {w[c].at}
    BY <1>2, <2>1 DEF Ahead, At, Cores, Returned, TypeOK, Sync
  <2>3. PICK k \in Cores, S \in SUBSET Users : k = w[c].at /\ S = w[c].listed
    BY <1>2
  <2>4. Served(k)' = Served(k) /\ LeavesAlone(k, S)
    BY <1>7, <2>1, <2>3 DEF Served, LeavesAlone
  <2> QED
    BY <1>1, <1>3, <1>7, <2>1, <2>2, <2>3, <2>4, HandingOver DEF Step
<1>8. CASE Write(c)
  <2>1. /\ w'[c].pc \in {"test", "reload"} /\ w'[c].at = w[c].at /\ w[c].pc = "write" /\ core' = core
        /\ stale' = stale
    BY <1>8, OwnRecord DEF Write, At
  <2>2. Ahead(c)' = Ahead(c)
    BY <1>2, <2>1 DEF Ahead, At, Cores
  <2> QED
    BY <1>1, <1>3, <1>8, <2>1, <2>2, ServiceStutter DEF Step
<1>9. CASE Test(c)
  <2>1. PICK outcome \in Loads(w[c].at, file[w[c].at]) :
          w' = [w EXCEPT ![c].pc = IF outcome.status = "up" THEN "reload" ELSE "close"]
    BY <1>9 DEF Test
  <2>2. /\ w'[c].pc = IF outcome.status = "up" THEN "reload" ELSE "close"
        /\ w'[c].at = w[c].at /\ core' = core /\ stale' = stale
        /\ w[c].pc = "test" /\ w[c].at = "xray"
    BY <1>9, <2>1 DEF Test, At, TypeOK, Sync, StreamInv
  <2>3. CASE outcome.status = "up"
    <3>1. Ahead(c)' = Ahead(c)
      BY <2>2, <2>3 DEF Ahead, At
    <3> QED
      BY <1>1, <1>3, <1>9, <2>2, <3>1, ServiceStutter DEF Step
  <2>4. CASE outcome.status # "up"
    <3>1. w[c].buffered
      BY <1>2, <2>1, <2>2, <2>4, AloneLoads, WholeTexts DEF LeftBehind
    <3>2. w[c].at \in Ahead(c) /\ Ahead(c)' = Ahead(c) \ {w[c].at}
      BY <2>2, <2>4 DEF Ahead, At, Cores
    <3>3. PICK k \in Cores, S \in SUBSET Users : k = w[c].at /\ S = w[c].listed
      BY <1>2
    <3>4. Served(k)' = Served(k) /\ LeavesAlone(k, S) /\ S \notin Long(k)
      BY <1>4, <2>2, <3>1, <3>3 DEF Served, LeavesAlone
    <3> QED
      BY <1>1, <1>3, <1>9, <2>2, <3>2, <3>3, <3>4, HandingOver DEF Step
  <2> QED
    BY <2>3, <2>4
<1>10. CASE Reload(c)
  <2>1. PICK new \in Core :
          /\ core' = [core EXCEPT ![w[c].at] = new]
          /\ \/ new \in Restarted(w[c].at) /\ stale' = stale \ {w[c].at}
             \/ /\ new \in {core[w[c].at], Down}
                /\ stale' = IF Alone(c) THEN stale \union {w[c].at} ELSE stale
    BY <1>10, ReloadFact
  <2>2. PICK k \in Cores, S \in SUBSET Users : k = w[c].at /\ S = w[c].listed
    BY <1>2
  <2>3. /\ w'[c].pc = "close" /\ w'[c].at = w[c].at /\ w[c].pc = "reload"
        /\ core'[k] = new
        /\ \A j \in Cores \ {k} : core'[j] = core[j] /\ (j \in stale' <=> j \in stale)
    BY <1>10, <2>1, <2>2 DEF Reload, At, TypeOK, Sync
  <2>4. k \in Ahead(c) /\ Ahead(c)' = Ahead(c) \ {k}
    BY <1>2, <2>2, <2>3 DEF Ahead, At, Cores
  <2>5. k \notin Unwritable
    BY <2>2, <2>3 DEF StreamInv
  <2>6. ~LeavesAlone(k, S) /\ (w[c].buffered <=> S \notin Long(k))
    <3>1. w[c].buffered <=> S \notin Long(k)
      BY <1>4, <2>2, <2>3
    <3>2. w[c].buffered => k # "xray"
      BY <2>2, <2>3 DEF AloneInv, At
    <3> QED
      BY <2>5, <3>1, <3>2 DEF LeavesAlone
  <2>7. CASE new \in Restarted(w[c].at) /\ stale' = stale \ {w[c].at}
    <3>1. ASSUME k \in Notifying, w[c].buffered PROVE Served(k)' = {}
      <4>1. file[k] = Empty
        BY <2>2, <3>1 DEF AloneInv
      <4>2. new = Down
        BY <2>2, <2>7, <3>1, <4>1, WholeTexts DEF Restarted
      <4> QED
        BY <2>3, <4>2 DEF Served, Down
    <3>2. ASSUME k \in Notifying, ~w[c].buffered PROVE Served(k)' = {S}
      <4>1. file[w[c].at] = Text(w[c].at, w[c].listed)
        BY <2>3, <3>2 DEF LeftBehind
      <4>2. new = Up(S)
        BY <2>2, <2>7, <3>2, <4>1, LoadsWritten DEF Restarted
      <4> QED
        BY <2>3, <4>2 DEF Served, Up
    <3> QED
      BY <1>1, <1>3, <1>10, <2>2, <2>3, <2>4, <2>5, <2>6, <2>7, <3>1, <3>2, HandingOver DEF Step
  <2>8. CASE /\ new \in {core[w[c].at], Down}
             /\ stale' = IF Alone(c) THEN stale \union {w[c].at} ELSE stale
    <3>1. Served(k)' = Served(k) \/ Served(k)' = {}
      BY <2>2, <2>3, <2>8 DEF Served, Down
    <3>2. k \in stale'
      BY <1>1, <2>2, <2>8 DEF Alone
    <3> QED
      BY <1>1, <1>3, <1>10, <2>2, <2>3, <2>4, <2>6, <3>1, <3>2, HandingOver DEF Step
  <2> QED
    BY <2>1, <2>7, <2>8
<1>11. CASE Close(c)
  <2>1. /\ w'[c] = Returned(c) /\ core' = core /\ w[c].pc = "close"
        /\ stale' = stale
    BY <1>11, OwnRecord DEF Close, At
  <2>2. Ahead(c)' = Ahead(c)
    BY <1>2, <2>1 DEF Ahead, At, Cores, Returned, TypeOK, Sync
  <2> QED
    BY <1>1, <1>3, <1>11, <2>1, <2>2, ServiceStutter DEF Step
<1> QED
  BY <1>5, <1>6, <1>7, <1>8, <1>9, <1>10, <1>11 DEF Step

\* With one writer, opening, writing, testing, reloading and closing amount to one handing over
\* of the list to each core that systemctl waits for: a list longer than the buffer is served at
\* once, a shorter one leaves xray with what it served before and ends Hysteria.
THEOREM LoneWriterImplementsService ==
  ASSUME OneWriter
  PROVE  Spec => ImplementsService
<1> DEFINE L == \A c \in Writers : LeftBehind(c)
<1>1. Init => Service!Init
  BY CoreAssumption DEF Init, Service!Init, Served, Ahead, At, Up
<1>2. /\ TypeOK /\ AloneInv /\ StreamInv /\ NoneStarting /\ L
      /\ [Next]_confVars
      => [Service!Next]_(Service!vars)
  <2> SUFFICES ASSUME TypeOK, AloneInv, StreamInv, NoneStarting, L, [Next]_confVars
               PROVE  [Service!Next]_(Service!vars)
    OBVIOUS
  <2>1. ASSUME NEW c \in Writers, Step(c) \/ \E S \in Listings : Begin(c, S)
        PROVE  [Service!Next]_(Service!vars)
    BY <2>1, ServiceStep
  <2>2. ASSUME NEW k \in Cores, Start(k) PROVE UNCHANGED Service!vars
    <3>1. k \notin Notifying
      BY <2>2 DEF Start, Starting, NoneStarting
    <3>2. \A j \in Notifying : core'[j] = core[j]
      BY <2>2, <3>1, CoreAssumption DEF Start, TypeOK
    <3> QED
      BY <2>2, <3>2, ServiceStutter DEF Start, Ahead, At
  <2>3. CASE UNCHANGED confVars
    BY <2>3, ServiceStutter DEF confVars, Ahead, At
  <2> QED
    BY <2>1, <2>2, <2>3 DEF Next
<1> QED
  BY <1>1, <1>2, TypeCorrect, AloneInvariance, StreamInvariance, LeftBehindInvariance, PTL
     DEF Spec, ImplementsService, Service!Spec
=============================================================================
