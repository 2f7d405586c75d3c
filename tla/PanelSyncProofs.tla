-------------------------- MODULE PanelSyncProofs --------------------------
(***************************************************************************)
(* Proofs about PanelSync, for any number of handler threads, CLI          *)
(* processes, slugs, tenants, user names, requests and lengths of texts: when the *)
(* users of a tenant fit one list and no lock is held but by requests,     *)
(* requests that come one after another leave files and cores as the table *)
(* says, the cores where systemctl does not fail.                          *)
(***************************************************************************)
EXTENDS PanelSync, UserStoreProofs, FiniteSetTheorems

ListFits == IsFiniteSet(Names) /\ Cardinality(Names) <= ListLimit

\* Either there is no second process, or the panel executes nothing but requests: then a statement
\* is refused only if another request is in progress.
LocksAreRequests == OneProcess \/ ~OtherStatements

\* File and core of k are as a completed sync of the users E leaves them.
Good(k, E) ==
  /\ file[k] = Conf!Text(k, E)
  /\ k \notin stale /\ Length[k][E] >= BufSize => core[k] \in {Conf!Starting, Conf!Up(E)}

\* The text for E was given to the stream of c: it is in the buffer or in the file.
Given(c, k, E) ==
  IF w[c].buffered THEN file[k] = Conf!Empty /\ Length[k][E] < BufSize
                   ELSE file[k] = Conf!Text(k, E) /\ Length[k][E] >= BufSize

\* How far c, which nobody disturbs, has come with putting the users E into the file of k.
Phase(c, k, E) ==
  /\ w[c].pc = "idle" => Good(k, E)
  /\ w[c].at = "hysteria" /\ k = "xray" => Good(k, E)
  /\ w[c].at = k /\ w[c].pc = "write" => file[k] = Conf!Empty
  /\ w[c].at = k /\ w[c].pc \in {"test", "reload", "close"} => Given(c, k, E)
  /\ w[c].at = k /\ w[c].pc = "close" /\ ~w[c].buffered => Good(k, E)

Writable == Conf!Cores \ Unwritable

\* The request of c has changed the table, or may have, and is going to list it.
Unsynced(c) ==
  \/ h[c].pc = "list"
  \/ h[c].pc = "check" /\ h[c].req.op = "patch" /\ changes[ConnOf[c]] = 1

\* A request runs the managers only while it is at its sync, with the list it read.
Joined ==
  \A c \in Clients : /\ h[c].pc # "sync" => w[c].pc = "idle"
                     /\ h[c].pc = "sync" => w[c].listed = h[c].listed

\* The panel's lookups end in a tenant that there is or in the fallback; it creates none.
Resolved ==
  \A c \in Clients :
    /\ h[c].pc \in {"ensure", "enroll"} => ConnOf[c] # PanelConn
    /\ h[c].pc \in {"select", "exec", "check", "list", "sync"} => h[c].tid \in Resolvable

Serial ==
  ~overlap => \A c, d \in Clients : h[c].pc # "idle" /\ h[d].pc # "idle" => c = d

\* What a request is going to put into the files.
Due(c) == EntitledOf(h[c].tid)

\* While requests are serial, what the table says of some tenant is in the files, or the one request
\* in progress is on its way to put there what it says of its own.
Settling ==
  ~overlap =>
    /\ \A c \in Clients : h[c].pc = "sync" =>
         h[c].listed = Due(c) /\ \A k \in Writable : Phase(c, k, Due(c))
    /\ (\A c \in Clients : h[c].pc # "sync" /\ ~Unsynced(c)) =>
         \E t \in Resolvable : \A k \in Writable : Good(k, EntitledOf(t))

PInv ==
  /\ TypeInv /\ Conf!TypeOK /\ overlap \in BOOLEAN
  /\ Joined /\ Resolved /\ Serial /\ Settling

-----------------------------------------------------------------------------
\* The types of files, cores and syncs.
LEMMA TextFact ==
  ASSUME NEW k \in Conf!Cores, NEW S \in SUBSET Keys
  PROVE  /\ Length[k][S] \in Nat \ {0}
         /\ Conf!Text(k, S) \in Conf!File
         /\ Conf!Text(k, S) = [users |-> S, len |-> Length[k][S], tail |-> {}]
<1>1. Length[k][S] \in Nat \ {0}
  BY PanelAssumption
<1> QED
  BY <1>1 DEF Conf!Text, Conf!File

LEMMA OverlaidFact ==
  ASSUME NEW k \in Conf!Cores, NEW S \in SUBSET Keys, NEW old \in Conf!File
  PROVE  /\ Conf!Overlay(k, S, old) \in Conf!File
         /\ old = Conf!Empty => Conf!Overlay(k, S, old) = Conf!Text(k, S)
<1>1. Length[k][S] \in Nat \ {0} /\ Conf!Text(k, S) \in Conf!File
  BY TextFact
<1>2. Conf!Empty.len = 0
  BY DEF Conf!Empty
<1> QED
  BY <1>1, <1>2 DEF Conf!Overlay, Conf!File

LEMMA LoadedFact ==
  ASSUME NEW k \in Conf!Cores, NEW f \in Conf!File
  PROVE  /\ Conf!Loads(k, f) \subseteq Conf!Core
         /\ \A S \in SUBSET Keys : f = Conf!Text(k, S) => Conf!Loads(k, f) = {Conf!Up(S)}
<1>1. Conf!Down \in Conf!Core
  BY DEF Conf!Down, Conf!Core
<1>2. ASSUME NEW S \in SUBSET Keys PROVE Conf!Up(S) \in Conf!Core
  BY DEF Conf!Up, Conf!Core
<1>3. f.users \in SUBSET Keys /\ f.tail \in SUBSET Keys
  BY DEF Conf!File
<1>4. CASE f.len = 0 \/ f.len = Length[k][f.users]
  <2>1. Conf!Loads(k, f) \subseteq Conf!Core
    BY <1>1, <1>2, <1>3, <1>4 DEF Conf!Loads
  <2>2. ASSUME NEW S \in SUBSET Keys, f = Conf!Text(k, S) PROVE Conf!Loads(k, f) = {Conf!Up(S)}
    <3>1. f.len = Length[k][S] /\ f.users = S /\ f.len # 0
      BY <2>2, TextFact
    <3> QED
      BY <3>1 DEF Conf!Loads
  <2> QED
    BY <2>1, <2>2
<1>5. CASE ~(f.len = 0 \/ f.len = Length[k][f.users])
  <2>1. Conf!Loads(k, f) =
          {Conf!Down} \union {Conf!Up(f.users \union T) : T \in SUBSET f.tail}
    BY <1>5 DEF Conf!Loads
  <2>2. ASSUME NEW T \in SUBSET f.tail PROVE Conf!Up(f.users \union T) \in Conf!Core
    <3>1. f.users \union T \in SUBSET Keys
      BY <1>3
    <3> QED
      BY <3>1, <1>2
  <2>3. Conf!Loads(k, f) \subseteq Conf!Core
    BY <2>1, <2>2, <1>1
  <2>4. \A S \in SUBSET Keys : f # Conf!Text(k, S)
    BY <1>5, TextFact
  <2> QED
    BY <2>3, <2>4
<1> QED
  BY <1>4, <1>5

LEMMA SyncRecord ==
  ASSUME Conf!TypeOK, NEW c \in Clients
  PROVE  /\ w[c].at \in Conf!Cores /\ w[c].listed \in SUBSET Keys /\ w[c].buffered \in BOOLEAN
         /\ w[c].pc \in {"idle", "open", "write", "test", "reload", "close"}
         /\ file[w[c].at] \in Conf!File
         /\ w \in [Clients -> Conf!Sync]
         /\ file \in [Conf!Cores -> Conf!File]
         /\ core \in [Conf!Cores -> Conf!Core] /\ stale \subseteq Conf!Cores
BY DEF Conf!TypeOK, Conf!Sync

\* What a step of the managers does to the files, the cores and the sync of c.
LEMMA FlushFact ==
  ASSUME Conf!TypeOK, NEW c \in Clients
  PROVE  /\ Conf!Flushed(c) \in [Conf!Cores -> Conf!File]
         /\ \A k \in Conf!Cores : k # w[c].at => Conf!Flushed(c)[k] = file[k]
         /\ file[w[c].at] = Conf!Empty => Conf!Flushed(c)[w[c].at] = Conf!Text(w[c].at, w[c].listed)
<1> DEFINE new == Conf!Overlay(w[c].at, w[c].listed, file[w[c].at])
<1>1. new \in Conf!File /\ (file[w[c].at] = Conf!Empty => new = Conf!Text(w[c].at, w[c].listed))
  BY SyncRecord, OverlaidFact
<1>2. Conf!Flushed(c) = [file EXCEPT ![w[c].at] = new]
  BY DEF Conf!Flushed
<1> HIDE DEF new
<1> QED
  BY <1>1, <1>2, SyncRecord

LEMMA ReturnFact ==
  ASSUME Conf!TypeOK, NEW c \in Clients
  PROVE  /\ Conf!Returned(c) \in Conf!Sync
         /\ Conf!Returned(c).listed = w[c].listed
         /\ Conf!Returned(c).at = IF w[c].at = "xray" THEN "hysteria" ELSE "xray"
         /\ Conf!Returned(c).pc = IF w[c].at = "xray" THEN "open" ELSE "idle"
         /\ Conf!Returned(c).buffered = FALSE
BY SyncRecord DEF Conf!Returned, Conf!Sync, Conf!Cores

LEMMA RestartFact ==
  ASSUME Conf!TypeOK, NEW k \in Conf!Cores
  PROVE  /\ Conf!Restarted(k) \subseteq Conf!Core
         /\ \A S \in SUBSET Keys : file[k] = Conf!Text(k, S) =>
              Conf!Restarted(k) \subseteq {Conf!Starting, Conf!Up(S)}
<1>1. file[k] \in Conf!File
  BY DEF Conf!TypeOK
<1>2. Conf!Starting \in Conf!Core
  BY DEF Conf!Starting, Conf!Core
<1> QED
  BY <1>1, <1>2, LoadedFact DEF Conf!Restarted

\* The types again, the records of the other requests, and how the record of c goes on.
LEMMA SyncStepShape ==
  ASSUME Conf!TypeOK, NEW c \in Clients, Conf!Step(c)
  PROVE  /\ Conf!TypeOK'
         /\ \A d \in Clients \ {c} : w'[d] = w[d]
         /\ w'[c].listed = w[c].listed
         /\ w[c].pc # "idle"
<1> USE SyncRecord
<1>1. CASE Conf!Open(c)
  <2>1. Conf!Empty \in Conf!File
    BY DEF Conf!Empty, Conf!File
  <2>2. file' \in [Conf!Cores -> Conf!File] /\ UNCHANGED <<core, stale>>
    BY <1>1, <2>1 DEF Conf!Open
  <2>3. w' = [w EXCEPT ![c].pc = "write"] \/ w' = [w EXCEPT ![c] = Conf!Returned(c)]
    BY <1>1 DEF Conf!Open
  <2>4. /\ w' \in [Clients -> Conf!Sync] /\ w'[c].listed = w[c].listed
        /\ \A d \in Clients \ {c} : w'[d] = w[d]
    <3>1. CASE w' = [w EXCEPT ![c].pc = "write"]
      BY <3>1 DEF Conf!Sync
    <3>2. CASE w' = [w EXCEPT ![c] = Conf!Returned(c)]
      BY <3>2, ReturnFact
    <3> QED
      BY <2>3, <3>1, <3>2
  <2> QED
    BY <1>1, <2>2, <2>4 DEF Conf!Open, Conf!At, Conf!TypeOK
<1>2. CASE Conf!Write(c)
  <2>1. file' \in [Conf!Cores -> Conf!File] /\ UNCHANGED <<core, stale>>
    BY <1>2, FlushFact DEF Conf!Write
  <2>2. PICK p \in {"test", "reload"}, b \in BOOLEAN :
          w' = [w EXCEPT ![c].pc = p, ![c].buffered = b]
    <3>1. Conf!Buffers(c) \in BOOLEAN
      BY DEF Conf!Buffers
    <3> QED
      BY <1>2, <3>1 DEF Conf!Write
  <2>3. /\ w' \in [Clients -> Conf!Sync] /\ w'[c].listed = w[c].listed
        /\ \A d \in Clients \ {c} : w'[d] = w[d]
    BY <2>2 DEF Conf!Sync
  <2> QED
    BY <1>2, <2>1, <2>3 DEF Conf!Write, Conf!At, Conf!TypeOK
<1>3. CASE Conf!Test(c) \/ Conf!Reload(c)
  <2>1. PICK p \in {"reload", "close"} : w' = [w EXCEPT ![c].pc = p]
    BY <1>3 DEF Conf!Test, Conf!Reload
  <2>2. /\ w' \in [Clients -> Conf!Sync] /\ w'[c].listed = w[c].listed
        /\ \A d \in Clients \ {c} : w'[d] = w[d]
    BY <2>1 DEF Conf!Sync
  <2>3. file' = file /\ core' \in [Conf!Cores -> Conf!Core] /\ stale' \subseteq Conf!Cores
    <3>1. CASE Conf!Test(c)
      BY <3>1 DEF Conf!Test
    <3>2. CASE Conf!Reload(c)
      <4>1. Conf!Down \in Conf!Core
        BY DEF Conf!Down, Conf!Core
      <4>2. \E new \in Conf!Core : core' \in {core, [core EXCEPT ![w[c].at] = new]}
        BY <3>2, <4>1, RestartFact DEF Conf!Reload, Conf!Restarts, Conf!RestartFails
      <4>3. file' = file /\ stale' \subseteq Conf!Cores
        BY <3>2 DEF Conf!Reload, Conf!Restarts
      <4> QED
        BY <4>2, <4>3
    <3> QED
      BY <1>3, <3>1, <3>2
  <2> QED
    BY <1>3, <2>2, <2>3 DEF Conf!Test, Conf!Reload, Conf!At, Conf!TypeOK
<1>4. CASE Conf!Close(c)
  <2>1. file' \in [Conf!Cores -> Conf!File] /\ UNCHANGED <<core, stale>>
    BY <1>4, FlushFact DEF Conf!Close
  <2>2. /\ w' \in [Clients -> Conf!Sync] /\ w'[c].listed = w[c].listed
        /\ \A d \in Clients \ {c} : w'[d] = w[d]
    BY <1>4, ReturnFact DEF Conf!Close
  <2> QED
    BY <1>4, <2>1, <2>2 DEF Conf!Close, Conf!At, Conf!TypeOK
<1> QED
  BY <1>1, <1>2, <1>3, <1>4 DEF Conf!Step

\* An undisturbed sync of the users E goes from one phase to the next.
LEMMA PhaseStep ==
  ASSUME Conf!TypeOK, NEW c \in Clients, NEW E \in SUBSET Keys, w[c].listed = E,
         NEW k \in Writable, Phase(c, k, E), Conf!Alone(c), Conf!Step(c)
  PROVE  Phase(c, k, E)'
<1> DEFINE a == w[c].at
<1>0. /\ k \in Conf!Cores /\ k \notin Unwritable /\ a \in Conf!Cores
      /\ Conf!Cores = {"xray", "hysteria"}
      /\ Length[k][E] \in Nat \ {0} /\ BufSize \in Nat
      /\ w \in [Clients -> Conf!Sync] /\ file \in [Conf!Cores -> Conf!File]
      /\ core \in [Conf!Cores -> Conf!Core] /\ w[c].buffered \in BOOLEAN
  BY SyncRecord, TextFact, PanelAssumption DEF Writable, Conf!Cores
<1>1. CASE Conf!Open(c)
  <2>1. CASE a \in Unwritable
    <3>1. w'[c] = Conf!Returned(c) /\ UNCHANGED <<file, core, stale>>
      BY <1>0, <1>1, <2>1 DEF Conf!Open
    <3> QED
      BY <1>0, <1>1, <2>1, <3>1, ReturnFact DEF Phase, Good, Given, Conf!Open, Conf!At
  <2>2. CASE a \notin Unwritable
    <3>1. /\ w'[c].pc = "write" /\ w'[c].at = a
          /\ file' = [file EXCEPT ![a] = Conf!Empty] /\ UNCHANGED <<core, stale>>
      BY <1>0, <1>1, <2>2 DEF Conf!Open, Conf!Sync
    <3>2. CASE k = a
      BY <1>0, <3>1, <3>2 DEF Phase, Good
    <3>3. CASE k # a
      <4>1. file'[k] = file[k]
        BY <1>0, <3>1, <3>3
      <4> QED
        BY <1>0, <3>1, <3>3, <4>1 DEF Phase, Good
    <3> QED
      BY <3>2, <3>3
  <2> QED
    BY <2>1, <2>2
<1>2. CASE Conf!Write(c)
  <2>1. /\ w'[c].pc \in {"test", "reload"} /\ w'[c].at = a
        /\ w'[c].buffered = Conf!Buffers(c) /\ UNCHANGED <<core, stale>>
        /\ file' = IF Conf!Buffers(c) THEN file ELSE Conf!Flushed(c)
        /\ w[c].pc = "write"
    BY <1>0, <1>2 DEF Conf!Write, Conf!At, Conf!Sync
  <2>2. CASE k = a
    <3>1. file[k] = Conf!Empty
      BY <2>1, <2>2 DEF Phase
    <3>2. Conf!Buffers(c) <=> Length[k][E] < BufSize
      BY <2>2 DEF Conf!Buffers
    <3>3. ~Conf!Buffers(c) => file'[k] = Conf!Text(k, E)
      BY <2>1, <2>2, <3>1, FlushFact
    <3>4. Conf!Buffers(c) => file'[k] = Conf!Empty
      BY <2>1, <3>1
    <3>5. Given(c, k, E)'
      BY <1>0, <2>1, <3>2, <3>3, <3>4 DEF Given
    <3> QED
      BY <1>0, <2>1, <2>2, <3>5 DEF Phase
  <2>3. CASE k # a
    <3>1. file'[k] = file[k]
      BY <1>0, <2>1, <2>3, FlushFact
    <3> QED
      BY <1>0, <2>1, <2>3, <3>1 DEF Phase, Good
  <2> QED
    BY <2>2, <2>3
<1>3. CASE Conf!Test(c)
  <2>1. PICK outcome \in Conf!Loads(a, file[a]) :
          w' = [w EXCEPT ![c].pc = IF outcome.status = "up" THEN "reload" ELSE "close"]
    BY <1>3 DEF Conf!Test
  <2>2. /\ w'[c].pc = (IF outcome.status = "up" THEN "reload" ELSE "close") /\ w'[c].at = a
        /\ w'[c].buffered = w[c].buffered /\ UNCHANGED <<file, core, stale>> /\ w[c].pc = "test"
    BY <1>0, <1>3, <2>1 DEF Conf!Test, Conf!At, Conf!Sync
  <2>3. k = a /\ ~w[c].buffered => outcome.status = "up"
    <3> SUFFICES ASSUME k = a, ~w[c].buffered PROVE outcome.status = "up"
      OBVIOUS
    <3>1. file[k] = Conf!Text(k, E)
      BY <2>2 DEF Phase, Given
    <3>2. outcome = Conf!Up(E)
      BY <1>0, <2>1, <3>1, LoadedFact
    <3> QED
      BY <3>2 DEF Conf!Up
  <2> QED
    BY <1>0, <2>2, <2>3 DEF Phase, Good, Given
<1>4. CASE Conf!Reload(c)
  <2>1. \/ /\ \E new \in Conf!Restarted(a) : core' = [core EXCEPT ![a] = new]
           /\ stale' = stale \ {a}
        \/ /\ core' \in {core, [core EXCEPT ![a] = Conf!Down]}
           /\ stale' = stale \union {a}
    BY <1>4 DEF Conf!Reload, Conf!Restarts, Conf!RestartFails
  <2>2. /\ w'[c].pc = "close" /\ w'[c].at = a /\ w'[c].buffered = w[c].buffered
        /\ file' = file /\ w[c].pc = "reload"
    BY <1>0, <1>4 DEF Conf!Reload, Conf!At, Conf!Sync
  <2>3. CASE k = a
    <3>1. Given(c, k, E)
      BY <2>2, <2>3 DEF Phase
    <3>2. ~w[c].buffered /\ k \notin stale' => core'[k] \in {Conf!Starting, Conf!Up(E)}
      BY <1>0, <2>1, <2>3, <3>1, RestartFact DEF Given
    <3> QED
      BY <1>0, <2>2, <2>3, <3>1, <3>2 DEF Phase, Good, Given
  <2>4. CASE k # a
    <3>1. core'[k] = core[k] /\ (k \in stale' <=> k \in stale)
      BY <1>0, <2>1, <2>4
    <3> QED
      BY <1>0, <2>2, <2>4, <3>1 DEF Phase, Good
  <2> QED
    BY <2>3, <2>4
<1>5. CASE Conf!Close(c)
  <2>1. /\ w'[c] = Conf!Returned(c) /\ UNCHANGED <<core, stale>> /\ w[c].pc = "close"
        /\ file' = IF w[c].buffered THEN Conf!Flushed(c) ELSE file
    BY <1>0, <1>5 DEF Conf!Close, Conf!At
  <2>2. CASE k = a
    <3>1. Given(c, k, E) /\ (~w[c].buffered => Good(k, E))
      BY <2>1, <2>2 DEF Phase
    <3>2. w[c].buffered => file'[k] = Conf!Text(k, E) /\ Length[k][E] < BufSize
      BY <2>1, <2>2, <3>1, FlushFact DEF Given
    <3>3. Good(k, E)'
      BY <1>0, <2>1, <3>1, <3>2 DEF Good
    <3> QED
      BY <1>0, <2>1, <2>2, <3>3, ReturnFact DEF Phase
  <2>3. CASE k # a
    <3>1. file'[k] = file[k]
      BY <1>0, <2>1, <2>3, FlushFact
    <3> QED
      BY <1>0, <2>1, <2>3, <3>1, ReturnFact DEF Phase, Good
  <2> QED
    BY <2>2, <2>3
<1> QED
  BY <1>1, <1>2, <1>3, <1>4, <1>5 DEF Conf!Step

\* A core that reads its file in between does not leave what is good.
LEMMA StartKeeps ==
  ASSUME Conf!TypeOK, NEW j \in Conf!Cores, Conf!Start(j)
  PROVE  /\ Conf!TypeOK' /\ w' = w /\ file' = file
         /\ \A k \in Conf!Cores, E \in SUBSET Keys : Good(k, E) => Good(k, E)'
<1>1. /\ file \in [Conf!Cores -> Conf!File] /\ core \in [Conf!Cores -> Conf!Core]
      /\ w' = w /\ file' = file /\ stale' = stale /\ core[j] = Conf!Starting
  BY DEF Conf!TypeOK, Conf!Start
<1>2. PICK new \in Conf!Loads(j, file[j]) : core' = [core EXCEPT ![j] = new]
  BY DEF Conf!Start
<1>3. new \in Conf!Core
  BY <1>1, LoadedFact
<1>4. Conf!TypeOK'
  BY <1>1, <1>2, <1>3 DEF Conf!TypeOK
<1>5. ASSUME NEW k \in Conf!Cores, NEW E \in SUBSET Keys, Good(k, E) PROVE Good(k, E)'
  <2>1. CASE k = j
    <3>1. core'[k] = Conf!Up(E)
      BY <1>1, <1>2, <1>5, <2>1, LoadedFact DEF Good
    <3> QED
      BY <1>1, <1>5, <3>1 DEF Good
  <2>2. CASE k # j
    BY <1>1, <1>2, <1>5, <2>2 DEF Good
  <2> QED
    BY <2>1, <2>2
<1> QED
  BY <1>1, <1>4, <1>5

-----------------------------------------------------------------------------
\* With room for every row of a tenant, the list is what the table says.
LEMMA EntitledFact ==
  ASSUME TypeInv, NEW t
  PROVE  EntitledOf(t) \in SUBSET Keys
BY DEF EntitledOf, Entitled

\* What is entitled depends on the table alone.
LEMMA EntitledKept ==
  ASSUME users' = users
  PROVE  \A t : EntitledOf(t)' = EntitledOf(t)
BY DEF EntitledOf, Entitled

LEMMA WholeList ==
  ASSUME TypeInv, ListFits, NEW t \in Ids, NEW S \in Pages(t)
  PROVE  Enabled(S) = EntitledOf(t)
<1> DEFINE R == RowsOf(t)
           P == {t} \X Names
<1>1. R \in SUBSET P
  BY DEF RowsOf, Keys
<1>2. IsFiniteSet({t}) /\ Cardinality({t}) = 1
  BY FS_Singleton
<1>3. /\ IsFiniteSet(P) /\ Cardinality(P) = 1 * Cardinality(Names)
      /\ Cardinality(Names) \in Nat
  BY <1>2, FS_Product, FS_CardinalityType DEF ListFits
<1>4. /\ IsFiniteSet(R) /\ Cardinality(R) <= Cardinality(P)
      /\ Cardinality(R) \in Nat
  BY <1>1, <1>3, FS_Subset, FS_CardinalityType
<1>5. S \in SUBSET R /\ Cardinality(S) = Cardinality(R)
  <2>1. /\ S \in SUBSET R
        /\ Cardinality(S) = IF Cardinality(R) < ListLimit THEN Cardinality(R) ELSE ListLimit
    BY DEF Pages
  <2>2. Cardinality(R) <= ListLimit
    BY <1>3, <1>4, StoreAssumption DEF ListFits
  <2> HIDE DEF R
  <2> QED
    BY <1>4, <2>1, <2>2, StoreAssumption
<1>6. S = R
  BY <1>4, <1>5, FS_Subset
<1> QED
  BY <1>6 DEF Enabled, EntitledOf, Entitled, RowsOf

\* No statement of c is refused.
Uncontended(c) == ~Contended(c, WriteSteps) /\ ~Contended(c, ReadSteps)

LEMMA AloneUncontended ==
  ASSUME LocksAreRequests, NEW c \in Clients, OnlyRequest(c)
  PROVE  Uncontended(c)
BY DEF LocksAreRequests, OneProcess, OnlyRequest, Uncontended, Contended, OtherProcessAt, WriteSteps,
       ReadSteps

\* Tenants are only added.
LEMMA ResolvableGrows ==
  ASSUME TypeInv, [Next]_storeVars
  PROVE  Resolvable \subseteq Resolvable'
BY TenantsStay DEF Resolvable

LEMMA ResolvableIds ==
  ASSUME TypeInv
  PROVE  Resolvable \subseteq Ids
BY StoreAssumption DEF Resolvable, TenantIds, TypeInv, TypeOK, Ids, FallbackTenant

\* What a lookup can end in.
LEMMA LookupEnds ==
  ASSUME TypeInv, Resolved, NEW c \in Clients, Resolve(c) \/ Ensure(c) \/ Enroll(c)
  PROVE  /\ h'[c].pc \in {"ensure", "enroll"} => ConnOf[c] # PanelConn
         /\ h'[c].pc \in {"select", "exec"} => h'[c].tid \in Resolvable'
<1>1. CASE ConnOf[c] # PanelConn
  <2>1. h'[c].tid \in Ids
    BY LookupFact DEF Moves, Handler
  <2> QED
    BY <1>1, <2>1 DEF Resolvable
<1>2. CASE ConnOf[c] = PanelConn
  <2>1. Resolve(c) /\ h[c].pc # "idle"
    BY <1>2 DEF Resolved, Ensure, Enroll, Resolve
  <2>2. PICK t \in TenantFound(c) :
          \/ t # NoTenant /\ WorksOn(c, t, "named")
          \/ WorksOn(c, FallbackTenant, "fallback")
    BY <1>2, <2>1 DEF Resolve
  <2>3. /\ t \in Ids /\ FallbackTenant \in Ids /\ {"named", "fallback"} \subseteq Vias
        /\ t # NoTenant => t = idOf[SlugOf(c)]
    BY <2>1, TenantFoundFact, StoreAssumption DEF Ids, FallbackTenant, Vias
  <2>4. TypeOK /\ idOf' = idOf /\ SlugOf(c) \in Slugs
    BY <2>1, BusyHandler DEF TypeInv, Resolve, SlugOf
  <2>5. /\ h'[c].pc \in {"select", "exec"} /\ h'[c].tid \in {t, FallbackTenant}
        /\ \/ h'[c].tid = t /\ t # NoTenant
           \/ h'[c].tid = FallbackTenant
    BY <2>2, <2>3, <2>4, WorksOnFact DEF Moves
  <2>6. h'[c].tid \in Resolvable'
    BY <2>3, <2>4, <2>5 DEF Resolvable, TenantIds
  <2> QED
    BY <2>5, <2>6
<1> QED
  BY <1>1, <1>2

\* What the statements of c leave of the invariant's parts about the handlers and the table: a
\* statement that changes what is enabled leads to a list.
LEMMA StatementFact ==
  ASSUME TypeInv, Resolved, NEW c \in Clients, Statement(c)
  PROVE  /\ h[c].pc # "sync" /\ h'[c].pc # "sync"
         /\ \A d \in Clients \ {c} : h'[d] = h[d]
         /\ Resolved'
         /\ Uncontended(c) => Unsynced(c)' \/ (~Unsynced(c) /\ users' = users)
<1> USE DEF Unsynced
<1>0. /\ TypeOK /\ users \in [Keys -> Row \union {NoRow}]
      /\ changes \in [Conns -> {0, 1}] /\ ConnOf[c] \in Conns
  BY ConnFact DEF TypeInv, TypeOK
<1>s. /\ {"idle", "resolve", "ensure", "enroll", "select", "exec", "check", "list", "sync"} \subseteq Steps
      /\ {"none", "row", "norow", "busy"} \subseteq Outcomes
  BY DEF Steps, Outcomes
<1>g. Resolvable \subseteq Resolvable'
  BY ResolvableGrows DEF Next
<1>r. ASSUME NEW s \in Steps, Moves(c, s),
             s \in {"ensure", "enroll"} => ConnOf[c] # PanelConn,
             s \in {"select", "exec", "check", "list", "sync"} => h'[c].tid \in Resolvable'
      PROVE  Resolved' /\ h'[c].pc = s /\ \A d \in Clients \ {c} : h'[d] = h[d]
  BY <1>g, <1>r DEF Moves, Resolved
<1>1. CASE Begin(c)
  <2>1. PICK r \in Asks[c] : h' = [h EXCEPT ![c].pc = "resolve", ![c].req = r]
    BY <1>1 DEF Begin
  <2>2. r \in RequestType
    BY StoreAssumption
  <2>3. Moves(c, "resolve")
    BY <1>0, <1>s, <2>1, <2>2, MovesWithRequest
  <2> QED
    BY <1>1, <1>r, <1>s, <2>3 DEF Begin
<1>2. CASE Resolve(c) \/ Ensure(c) \/ Enroll(c)
  <2>1. PICK s \in {"ensure", "enroll", "select", "exec"} : Moves(c, s)
    BY <1>2, LookupFact
  <2>2. users' = users /\ h[c].pc \in {"resolve", "ensure", "enroll"}
    BY <1>2 DEF Resolve, Ensure, Enroll
  <2>3. /\ s \in {"ensure", "enroll"} => ConnOf[c] # PanelConn
        /\ s \in {"select", "exec"} => h'[c].tid \in Resolvable'
    BY <1>2, <2>1, LookupEnds DEF Moves
  <2> QED
    BY <1>r, <1>s, <2>1, <2>2, <2>3
<1>3. CASE Select(c)
  <2>1. Moves(c, "exec") /\ users' = users /\ h'[c].tid = h[c].tid
    BY <1>3, SelectFact
  <2>2. h[c].pc = "select" /\ h[c].tid \in Resolvable
    BY <1>3 DEF Select, At, Resolved
  <2> QED
    BY <1>g, <1>r, <1>s, <2>1, <2>2
<1>4. CASE SelectNothing(c) \/ InsertFails(c)
  <2>1. Moves(c, "idle")
    BY <1>0, <1>4, MovesToIdle DEF SelectNothing, InsertFails
  <2> QED
    BY <1>4, <1>r, <1>s, <2>1 DEF SelectNothing, InsertFails, At
<1>5. CASE Insert(c) \/ Delete(c)
  <2>1. PICK o \in {"row", "norow", "busy"} : h' = [h EXCEPT ![c].pc = "list", ![c].outcome = o]
    BY <1>5 DEF Insert, Delete
  <2>2. Moves(c, "list")
    BY <1>0, <1>s, <2>1, MovesWithOutcome
  <2>3. h[c].tid \in Resolvable /\ h[c].pc = "exec"
    BY <1>5 DEF Insert, Delete, At, Resolved
  <2>4. h'[c].tid \in Resolvable
    BY <1>0, <2>1, <2>3 DEF TypeOK, Handler
  <2> QED
    BY <1>g, <1>r, <1>s, <2>2, <2>3, <2>4
<1>6. CASE Update(c) \/ Reset(c)
  <2>1. (\E n \in {0, 1} : Completed(c, n)) \/ Refused(c)
    BY <1>6 DEF Update, Reset
  <2>2. Moves(c, "check") /\ h'[c].req = h[c].req
    BY <1>0, <2>1, CompletedFact, RefusedFact
  <2>3. h[c].tid \in Resolvable /\ h[c].pc = "exec"
    BY <1>6 DEF Update, Reset, At, Resolved
  <2>4. h'[c].tid \in Resolvable
    BY <1>0, <2>1, <2>3 DEF Completed, Refused, TypeOK, Handler
  <2>5. Uncontended(c) => Unsynced(c)' \/ users' = users
    <3> SUFFICES ASSUME ~Refused(c) PROVE Unsynced(c)' \/ users' = users
      BY DEF Uncontended, Refused
    <3>1. CASE users' = users
      BY <3>1
    <3>2. CASE users' # users
      <4>1. Update(c) /\ Completed(c, 1)
        BY <1>6, <3>2 DEF Update, Reset
      <4>2. changes'[ConnOf[c]] = 1
        BY <1>0, <4>1 DEF Completed
      <4>3. h[c].req.op = "patch"
        BY <4>1 DEF Update, At
      <4> QED
        BY <2>2, <4>2, <4>3 DEF Moves
    <3> QED
      BY <3>1, <3>2
  <2> QED
    BY <1>g, <1>r, <1>s, <2>2, <2>3, <2>4, <2>5
<1>7. CASE Check(c)
  <2>1. users' = users /\ h[c].pc = "check" /\ h[c].tid \in Resolvable
    BY <1>7 DEF Check, Resolved
  <2>2. CASE ChangesPositive(c) /\ h[c].req.op = "patch"
    <3>1. h' = [h EXCEPT ![c] = [h[c] EXCEPT !.pc = "list"]]
      BY <1>7, <2>2 DEF Check
    <3>2. Moves(c, "list") /\ h'[c].tid = h[c].tid
      BY <1>0, <1>s, <3>1 DEF Moves, TypeOK, Handler
    <3> QED
      BY <1>g, <1>r, <1>s, <2>1, <3>2
  <2>3. CASE ~(ChangesPositive(c) /\ h[c].req.op = "patch")
    <3>1. Moves(c, "idle")
      BY <1>0, <1>7, <2>3, MovesToIdle DEF Check
    <3>2. ~Unsynced(c)
      BY <1>0, <2>1, <2>3 DEF ChangesPositive
    <3> QED
      BY <1>r, <1>s, <2>1, <3>1, <3>2
  <2> QED
    BY <2>2, <2>3
<1> QED
  BY <1>1, <1>2, <1>3, <1>4, <1>5, <1>6, <1>7 DEF Statement

-----------------------------------------------------------------------------
LEMMA ConfInit ==
  ASSUME Conf!Init
  PROVE  /\ Conf!TypeOK
         /\ \A c \in Clients : w[c].pc = "idle"
         /\ \A k \in Conf!Cores : Good(k, {})
<1>1. \A k \in Conf!Cores : Conf!Text(k, {}) \in Conf!File
  BY TextFact
<1>2. Conf!Up({}) \in Conf!Core
  BY DEF Conf!Up, Conf!Core
<1> QED
  BY <1>1, <1>2 DEF Conf!Init, Conf!TypeOK, Conf!Sync, Conf!Cores, Good

LEMMA PInvInit == PanelInit => PInv
<1> SUFFICES ASSUME PanelInit PROVE PInv
  OBVIOUS
<1>1. TypeInv /\ overlap = FALSE
  BY TypeInvInit DEF PanelInit
<1>2. \A c \in Clients : h[c].pc = "idle"
  BY DEF PanelInit, Init, Idle
<1>3. EntitledOf(FallbackTenant) = {} /\ FallbackTenant \in Resolvable
  BY DEF PanelInit, Init, EntitledOf, Entitled, Resolvable
<1>4. /\ Conf!TypeOK /\ \A c \in Clients : w[c].pc = "idle"
      /\ \A k \in Conf!Cores : Good(k, {})
  BY ConfInit DEF PanelInit
<1>5. Settling
  BY <1>2, <1>3, <1>4 DEF Settling, Writable
<1> QED
  BY <1>1, <1>2, <1>4, <1>5 DEF PInv, Joined, Resolved, Serial

LEMMA HandleStep ==
  ASSUME PInv, LocksAreRequests, NEW c \in Clients, Handle(c)
  PROVE  PInv'
<1>1. TypeInv'
  BY TypeInvStep DEF PInv, Handle, Next
<1>2. /\ h[c].pc # "sync" /\ h'[c].pc # "sync"
      /\ \A d \in Clients \ {c} : h'[d] = h[d]
      /\ Resolved'
      /\ Uncontended(c) => Unsynced(c)' \/ (~Unsynced(c) /\ users' = users)
  BY StatementFact DEF PInv, Handle
<1>3. Conf!TypeOK' /\ w' = w /\ file' = file /\ core' = core /\ stale' = stale
  BY DEF PInv, Handle, Conf!TypeOK, coreVars
<1>8. Resolvable \subseteq Resolvable'
  BY ResolvableGrows DEF PInv, Handle, Next
<1>4. Joined'
  BY <1>2, <1>3 DEF PInv, Joined
<1>5. overlap' \in BOOLEAN /\ (~overlap' => ~overlap /\ OnlyRequest(c))
  BY DEF PInv, Handle, OnlyRequest
<1>6. Serial'
  BY <1>2, <1>5 DEF Serial, OnlyRequest
<1>7. Settling'
  <2> SUFFICES ASSUME ~overlap, OnlyRequest(c)
               PROVE  /\ \A d \in Clients : h'[d].pc # "sync"
                      /\ ~Unsynced(c)' =>
                           \E t \in Resolvable' : \A k \in Writable : Good(k, EntitledOf(t))'
    BY <1>5 DEF Settling
  <2>1. \A d \in Clients : h[d].pc # "sync" /\ h'[d].pc # "sync" /\ (d # c => ~Unsynced(d))
    BY <1>2 DEF OnlyRequest, Unsynced
  <2>2. ASSUME ~Unsynced(c)'
        PROVE  \E t \in Resolvable' : \A k \in Writable : Good(k, EntitledOf(t))'
    <3>1. users' = users /\ ~Unsynced(c)
      BY <1>2, <2>2, AloneUncontended
    <3>2. PICK t \in Resolvable : \A k \in Writable : Good(k, EntitledOf(t))
      BY <2>1, <3>1 DEF PInv, Settling
    <3>3. EntitledOf(t)' = EntitledOf(t)
      BY <3>1, EntitledKept
    <3>4. \A k \in Writable : Good(k, EntitledOf(t))'
      BY <1>3, <3>2, <3>3 DEF Good
    <3> QED
      BY <1>8, <3>4
  <2> QED
    BY <2>1, <2>2
<1> QED
  BY <1>1, <1>2, <1>3, <1>4, <1>5, <1>6, <1>7 DEF PInv

LEMMA ListStep ==
  ASSUME PInv, LocksAreRequests, ListFits, NEW c \in Clients, ListAndBegin(c)
  PROVE  PInv'
<1> DEFINE t == h[c].tid
<1>1. TypeInv'
  BY TypeInvStep DEF PInv, ListAndBegin, Next
<1>2. /\ t \in Resolvable /\ t \in Ids /\ h[c].pc = "list"
      /\ Resolvable \subseteq Resolvable'
  BY ResolvableIds, ResolvableGrows DEF PInv, Resolved, ListAndBegin, List, Next
<1>3. PICK S \in Pages(t) \union {{}} :
        /\ h' = [h EXCEPT ![c].pc = "sync", ![c].listed = Enabled(S)]
        /\ OnlyRequest(c) => S \in Pages(t)
  BY AloneUncontended DEF ListAndBegin, List, Uncontended
<1>4. PICK E \in SUBSET Keys : E = Enabled(S)
  BY DEF Enabled, Pages, RowsOf
<1>5. OnlyRequest(c) => E = EntitledOf(t)
  BY <1>2, <1>3, <1>4, WholeList DEF PInv
<1>6. users' = users /\ EntitledOf(t)' = EntitledOf(t')
  BY EntitledKept DEF ListAndBegin, List
<1>7. /\ h'[c].pc = "sync" /\ h'[c].listed = E /\ h'[c].tid = t
      /\ \A d \in Clients \ {c} : h'[d] = h[d]
  <2>1. Moves(c, "sync")
    BY <1>3, <1>4, MovesWithList DEF PInv, TypeInv, Steps
  <2>2. h \in [Clients -> Handler] /\ h[c] \in Handler
    BY DEF PInv, TypeInv, TypeOK
  <2>3. h'[c] = [[h[c] EXCEPT !.pc = "sync"] EXCEPT !.listed = E]
    BY <1>3, <1>4, <2>2
  <2>4. h'[c].listed = E /\ h'[c].tid = t
    BY <2>2, <2>3 DEF Handler
  <2> QED
    BY <2>1, <2>4 DEF Moves
<1>8. /\ Conf!TypeOK'
      /\ w'[c].pc = "open" /\ w'[c].at = "xray" /\ w'[c].listed = E
      /\ \A d \in Clients \ {c} : w'[d] = w[d]
  <2>1. /\ w' = [w EXCEPT ![c] = [pc |-> "open", at |-> "xray", listed |-> E, buffered |-> FALSE]]
        /\ file' = file /\ core' = core /\ stale' = {}
    BY <1>7 DEF ListAndBegin, Conf!Begin
  <2>2. [pc |-> "open", at |-> "xray", listed |-> E, buffered |-> FALSE] \in Conf!Sync
    BY DEF Conf!Sync, Conf!Cores
  <2> QED
    BY <2>1, <2>2 DEF PInv, Conf!TypeOK
<1>9. Joined' /\ Resolved'
  BY <1>2, <1>7, <1>8 DEF PInv, Joined, Resolved
<1>10. overlap' \in BOOLEAN /\ (~overlap' => OnlyRequest(c))
  BY DEF ListAndBegin, OnlyRequest
<1>11. Serial'
  BY <1>7, <1>10 DEF Serial, OnlyRequest
<1>12. Settling'
  <2> SUFFICES ASSUME OnlyRequest(c), NEW d \in Clients, h'[d].pc = "sync"
               PROVE  h'[d].listed = Due(d)' /\ \A k \in Writable : Phase(d, k, Due(d))'
    BY <1>7, <1>10 DEF Settling
  <2>1. d = c
    BY <1>7 DEF OnlyRequest
  <2>2. \A k \in Writable : Phase(c, k, E)'
    BY <1>8 DEF Phase
  <2>3. Due(c)' = E
    BY <1>5, <1>6, <1>7, EntitledKept DEF Due
  <2> QED
    BY <1>7, <2>1, <2>2, <2>3 DEF Phase, Good, Given
<1> QED
  BY <1>1, <1>8, <1>9, <1>10, <1>11, <1>12 DEF PInv

LEMMA SyncStepStep ==
  ASSUME PInv, NEW c \in Clients, SyncStep(c)
  PROVE  PInv'
<1>1. /\ UNCHANGED <<users, idOf, changes, h, overlap>> /\ h[c].pc = "sync"
      /\ Conf!Step(c) /\ Conf!TypeOK
  BY DEF PInv, SyncStep, storeVars
<1>2. TypeInv' /\ Resolvable' = Resolvable
  BY <1>1, TypeInvStep DEF PInv, storeVars, Resolvable, TenantIds
<1>3. /\ Conf!TypeOK' /\ w'[c].listed = w[c].listed
      /\ \A d \in Clients \ {c} : w'[d] = w[d]
  BY <1>1, SyncStepShape
<1>4. Joined' /\ Resolved' /\ Serial'
  BY <1>1, <1>2, <1>3 DEF PInv, Joined, Resolved, Serial
<1>5. Settling'
  <2> SUFFICES ASSUME ~overlap, NEW d \in Clients, h[d].pc = "sync"
               PROVE  h[d].listed = Due(d)' /\ \A k \in Writable : Phase(d, k, Due(d))'
    BY <1>1 DEF Settling
  <2>1. d = c
    BY <1>1 DEF PInv, Serial
  <2>2. PICK E \in SUBSET Keys : E = Due(c)
    BY EntitledFact DEF PInv, Due
  <2>3. Due(c)' = E
    BY <1>1, <2>2, EntitledKept DEF Due
  <2>4. h[c].listed = E /\ w[c].listed = E /\ \A k \in Writable : Phase(c, k, E)
    BY <1>1, <2>2 DEF PInv, Settling, Joined
  <2>5. Conf!Alone(c)
    BY <1>1 DEF PInv, Serial, Joined, Conf!Alone, Conf!At
  <2>6. \A k \in Writable : Phase(c, k, E)'
    BY <1>1, <2>4, <2>5, PhaseStep
  <2> QED
    BY <2>1, <2>3, <2>4, <2>6 DEF Phase, Good, Given
<1> QED
  BY <1>1, <1>2, <1>3, <1>4, <1>5 DEF PInv

LEMMA AnswerStep ==
  ASSUME PInv, NEW c \in Clients, Answer(c)
  PROVE  PInv'
<1>1. /\ UNCHANGED <<users, idOf, changes, file, core, stale, w, overlap>>
      /\ h[c].pc = "sync" /\ w[c].pc = "idle"
      /\ h' = [h EXCEPT ![c] = Idle]
  BY DEF Answer, Finish, coreVars
<1>2. TypeInv' /\ Resolvable' = Resolvable
  BY <1>1, TypeInvStep DEF PInv, Answer, Next, Resolvable, TenantIds
<1>3. h'[c].pc = "idle" /\ \A d \in Clients \ {c} : h'[d] = h[d]
  BY <1>1, MovesToIdle DEF PInv, TypeInv, Moves
<1>4. Joined' /\ Resolved' /\ Serial' /\ Conf!TypeOK'
  BY <1>1, <1>2, <1>3 DEF PInv, Joined, Resolved, Serial, Conf!TypeOK
<1>5. Settling'
  <2> SUFFICES ASSUME ~overlap
               PROVE  /\ \A d \in Clients : h'[d].pc # "sync"
                      /\ \E t \in Resolvable : \A k \in Writable : Good(k, EntitledOf(t))'
    BY <1>1, <1>2 DEF Settling
  <2>1. \A d \in Clients : h'[d].pc # "sync"
    BY <1>1, <1>3 DEF PInv, Serial
  <2>2. PICK t \in Resolvable : t = h[c].tid
    BY <1>1 DEF PInv, Resolved
  <2>3. \A k \in Writable : Good(k, EntitledOf(t))
    BY <1>1, <2>2 DEF PInv, Settling, Phase, Due
  <2>4. EntitledOf(t)' = EntitledOf(t)
    BY <1>1, EntitledKept
  <2>5. \A k \in Writable : Good(k, EntitledOf(t))'
    BY <1>1, <2>3, <2>4 DEF Good
  <2> QED
    BY <2>1, <2>5
<1> QED
  BY <1>1, <1>2, <1>4, <1>5 DEF PInv

LEMMA ElsewhereStep ==
  ASSUME PInv, LocksAreRequests, Elsewhere
  PROVE  PInv'
<1>1. UNCHANGED <<users, idOf, h, file, core, stale, w, overlap>> /\ OneProcess
  BY DEF Elsewhere, OtherWrite, LocksAreRequests, coreVars
<1>2. TypeInv' /\ Resolvable' = Resolvable
  BY <1>1, TypeInvStep DEF PInv, Elsewhere, Next, Resolvable, TenantIds
<1>3. changes'[PanelConn] = 1
  <2>1. PanelConn \in Conns /\ ~OtherProcessAt(PanelConn, WriteSteps \union ReadSteps)
    BY <1>1 DEF Elsewhere, OtherWrite, OtherProcessAt, OneProcess
  <2>2. changes' = [changes EXCEPT ![PanelConn] = 1]
    BY <2>1 DEF Elsewhere, OtherWrite
  <2> QED
    BY <2>1, <2>2 DEF PInv, TypeInv, TypeOK
<1>4. \A c \in Clients : Unsynced(c) => Unsynced(c)'
  BY <1>1, <1>3 DEF Unsynced, OneProcess
<1>5. Joined' /\ Resolved' /\ Serial' /\ Conf!TypeOK'
  BY <1>1, <1>2 DEF PInv, Joined, Resolved, Serial, Conf!TypeOK
<1>6. Settling'
  <2>1. \A t : EntitledOf(t)' = EntitledOf(t)
    BY <1>1, EntitledKept
  <2>2. \A c \in Clients : Due(c)' = Due(c)
    BY <1>1, <2>1 DEF Due
  <2> QED
    BY <1>1, <1>2, <1>4, <2>1, <2>2 DEF PInv, Settling, Phase, Good, Given
<1> QED
  BY <1>1, <1>2, <1>5, <1>6 DEF PInv

LEMMA CoreStartsStep ==
  ASSUME PInv, CoreStarts
  PROVE  PInv'
<1>1. PICK j \in Conf!Cores : Conf!Start(j) /\ UNCHANGED <<users, idOf, changes, h, overlap>>
  BY DEF CoreStarts, storeVars
<1>2. TypeInv' /\ Resolvable' = Resolvable
  BY <1>1, TypeInvStep DEF PInv, storeVars, Resolvable, TenantIds
<1>3. /\ Conf!TypeOK' /\ w' = w /\ file' = file
      /\ \A k \in Conf!Cores, E \in SUBSET Keys : Good(k, E) => Good(k, E)'
  BY <1>1, StartKeeps DEF PInv
<1>4. Joined' /\ Resolved' /\ Serial'
  BY <1>1, <1>2, <1>3 DEF PInv, Joined, Resolved, Serial
<1>5. \A t : EntitledOf(t) \in SUBSET Keys /\ EntitledOf(t)' = EntitledOf(t)
  BY <1>1, EntitledFact, EntitledKept DEF PInv
<1>6. \A k \in Writable, t \in Resolvable :
        Good(k, EntitledOf(t)) => Good(k, EntitledOf(t))'
  BY <1>3, <1>5 DEF Writable, Good
<1>7. ASSUME NEW c \in Clients, NEW k \in Writable, Phase(c, k, Due(c))
      PROVE  Phase(c, k, Due(c))'
  <2>1. PICK E \in SUBSET Keys : E = Due(c) /\ E = Due(c)'
    BY <1>1, <1>5 DEF Due
  <2>2. Good(k, E) => Good(k, E)'
    BY <1>3 DEF Writable
  <2>3. Phase(c, k, E)'
    BY <1>3, <1>7, <2>1, <2>2 DEF Phase, Given
  <2> QED
    BY <2>1, <2>3 DEF Phase, Good, Given
<1>8. Settling'
  <2>1. \A c \in Clients : Due(c)' = Due(c)
    BY <1>1, <1>5 DEF Due
  <2> QED
    BY <1>1, <1>2, <1>6, <1>7, <2>1 DEF PInv, Settling, Unsynced
<1> QED
  BY <1>1, <1>2, <1>3, <1>4, <1>8 DEF PInv

LEMMA PInvStep ==
  ASSUME LocksAreRequests, ListFits
  PROVE  PInv /\ [PanelNext]_panelVars => PInv'
<1> SUFFICES ASSUME PInv, [PanelNext]_panelVars PROVE PInv'
  OBVIOUS
<1>1. CASE UNCHANGED panelVars
  <2>0. UNCHANGED <<users, idOf, changes, h, file, core, stale, w, overlap>>
    BY <1>1 DEF panelVars, storeVars, coreVars
  <2>1. TypeInv' /\ Resolvable' = Resolvable
    BY <2>0, TypeInvStep DEF PInv, storeVars, Resolvable, TenantIds
  <2>2. \A t : EntitledOf(t)' = EntitledOf(t)
    BY <2>0, EntitledKept
  <2>3. \A c \in Clients : Due(c)' = Due(c)
    BY <2>0, <2>2 DEF Due
  <2>4. Settling'
    BY <2>0, <2>1, <2>2, <2>3 DEF PInv, Settling, Phase, Good, Given, Unsynced
  <2> QED
    BY <2>0, <2>1, <2>4 DEF PInv, Joined, Resolved, Serial, Conf!TypeOK
<1> QED
  BY <1>1, HandleStep, ListStep, SyncStepStep, AnswerStep, ElsewhereStep, CoreStartsStep
     DEF PanelNext

LEMMA PanelInvariance ==
  ASSUME LocksAreRequests, ListFits
  PROVE  PanelSpec => []PInv
<1>1. PanelInit => PInv
  BY PInvInit
<1>2. PInv /\ [PanelNext]_panelVars => PInv'
  BY PInvStep
<1> QED
  BY <1>1, <1>2, PTL DEF PanelSpec

-----------------------------------------------------------------------------
\* As long as a tenant's users fit one list and only requests hold locks, requests that come one
\* after another, of any tenants, leave in both files what the table says of one of them, and the
\* first of them repairs what overlapping requests left (App::sync_vpn_users always writes the
\* whole list).
THEOREM SerialRequestsKeepFiles ==
  ASSUME LocksAreRequests, ListFits
  PROVE  PanelSpec => []SerialRequestsSettleFiles
<1>1. PInv => SerialRequestsSettleFiles
  BY DEF PInv, Settling, Unsynced, SerialRequestsSettleFiles, NoRequest, Good, Writable
<1> QED
  BY <1>1, PanelInvariance, PTL

\* ... and in the cores, whatever their unit's type, if the text is too long for the buffer and
\* systemctl did not fail.
THEOREM SerialRequestsKeepCores ==
  ASSUME LocksAreRequests, ListFits
  PROVE  PanelSpec => []SerialRequestsSettleCores
<1>1. PInv => SerialRequestsSettleCores
  BY DEF PInv, Settling, Unsynced, SerialRequestsSettleCores, NoRequest, Good, Writable
<1> QED
  BY <1>1, PanelInvariance, PTL

-----------------------------------------------------------------------------
(***************************************************************************)
(* The end-to-end model runs its two parts as they are specified: seen     *)
(* from the database a request is a behaviour of UserStore, and seen from  *)
(* the configuration files one of CoreConfig.                              *)
(***************************************************************************)
LEMMA PanelStepsStore == [PanelNext]_panelVars => [Next]_storeVars
<1> SUFFICES ASSUME [PanelNext]_panelVars PROVE [Next]_storeVars
  OBVIOUS
<1>1. CASE UNCHANGED panelVars
  BY <1>1 DEF panelVars, storeVars
<1>2. ASSUME NEW c \in Clients, Handle(c) \/ ListAndBegin(c) \/ Answer(c) PROVE Next
  BY <1>2 DEF Handle, ListAndBegin, Answer, Next
<1>3. ASSUME NEW c \in Clients, SyncStep(c) PROVE UNCHANGED storeVars
  BY <1>3 DEF SyncStep, storeVars
<1>4. CASE Elsewhere
  BY <1>4 DEF Elsewhere, Next
<1>5. CASE CoreStarts
  BY <1>5 DEF CoreStarts, storeVars
<1> QED
  BY <1>1, <1>2, <1>3, <1>4, <1>5 DEF PanelNext

\* What the table goes through does not depend on what the managers do with it: a request of the
\* end-to-end model is one of UserStore (App::sync_vpn_users executes no statement after its list).
THEOREM PanelImplementsStore == PanelSpec => Spec
<1>1. PanelInit => Init
  BY DEF PanelInit
<1> QED
  BY <1>1, PanelStepsStore, PTL DEF PanelSpec, Spec

LEMMA PanelStepsConf == TypeInv' /\ [PanelNext]_panelVars => [Conf!Next]_(Conf!confVars)
<1> SUFFICES ASSUME TypeInv', [PanelNext]_panelVars PROVE [Conf!Next]_(Conf!confVars)
  OBVIOUS
<1> USE DEF Conf!confVars, coreVars
<1>1. CASE UNCHANGED panelVars
  BY <1>1 DEF panelVars
<1>2. ASSUME NEW c \in Clients, Handle(c) \/ Answer(c) PROVE UNCHANGED Conf!confVars
  BY <1>2 DEF Handle, Answer
<1>3. ASSUME NEW c \in Clients, ListAndBegin(c) PROVE Conf!Next
  <2>1. h'[c].listed \in SUBSET Keys
    BY DEF TypeInv, TypeOK, Handler
  <2> QED
    BY <1>3, <2>1 DEF ListAndBegin, Conf!Next
<1>4. ASSUME NEW c \in Clients, SyncStep(c) PROVE Conf!Next
  BY <1>4 DEF SyncStep, Conf!Next
<1>5. CASE Elsewhere
  BY <1>5 DEF Elsewhere
<1>6. CASE CoreStarts
  BY <1>6 DEF CoreStarts, Conf!Next
<1> QED
  BY <1>1, <1>2, <1>3, <1>4, <1>5, <1>6 DEF PanelNext

\* Requests are the writers of CoreConfig and hand over lists of users and nothing else: whatever
\* CoreConfig promises for any writers and lists holds of the files and the cores of the panel.
THEOREM PanelImplementsConf == PanelSpec => Conf!Spec
<1>1. PanelInit => Conf!Init
  BY DEF PanelInit
<1>2. PanelSpec => []TypeInv
  BY PanelImplementsStore, TypeInvariance, PTL
<1> QED
  BY <1>1, <1>2, PanelStepsConf, PTL DEF PanelSpec, Conf!Spec

\* Also end to end a deleted user comes back only through create_user, and a CLI command reports
\* its UPDATE as it ended, unless it has created its tenant and its UPDATE was refused.
THEOREM PanelKeepsStorePromises == PanelSpec => AppearsOnlyByCreate /\ []CliReplyTruthful
BY PanelImplementsStore, OnlyCreateAdds, CliRepliesAreTruthful, PTL

-----------------------------------------------------------------------------
(***************************************************************************)
(* The setting in which the files follow the table: the panel alone, with  *)
(* one tenant whose users fit a list, and files that can be written.       *)
(***************************************************************************)
LonePanel == MaxTenants = 1 /\ OneProcess /\ ListFits /\ Unwritable = {}

\* "Users are synchronised into the configurations of the cores" (README.md) as long as no two
\* requests overlap, and again after the next request that runs alone.
THEOREM LonePanelFollowsTable ==
  ASSUME LonePanel
  PROVE  PanelSpec => [](~overlap => FilesFollowTable)
<1>1. TypeInv => TenantIds \subseteq {FallbackTenant}
  BY DEF LonePanel, TypeInv, TypeOK, TenantIds, Ids, NoTenant, FallbackTenant
<1>2. TypeInv => Resolvable = {FallbackTenant}
  BY <1>1 DEF LonePanel, OneProcess, Resolvable
<1>3. TypeInv /\ NoStrayRow => Entitled = EntitledOf(FallbackTenant)
  BY <1>1 DEF Entitled, EntitledOf, NoStrayRow
<1>4. PInv /\ NoStrayRow => (~overlap => FilesFollowTable)
  BY <1>2, <1>3 DEF PInv, Settling, Unsynced, FilesFollowTable, NoRequest, Good, Writable, LonePanel
<1>5. PanelSpec => []PInv
  BY PanelInvariance DEF LonePanel, LocksAreRequests
<1> QED
  BY <1>4, <1>5, PanelImplementsStore, NoRowWithoutTenant, PTL

\* ... and at all times if the panel has one handler thread.
THEOREM OneHandlerFollowsTable ==
  ASSUME LonePanel, OneHandler
  PROVE  PanelSpec => []FilesFollowTable
<1>1. \A c \in Clients : OnlyRequest(c)
  BY DEF OneHandler, OnlyRequest
<1>2. PanelInit => ~overlap
  BY DEF PanelInit
<1>3. ~overlap /\ [PanelNext]_panelVars => ~overlap'
  BY <1>1 DEF PanelNext, panelVars, Handle, ListAndBegin, SyncStep, Answer, Elsewhere, CoreStarts
<1> QED
  BY <1>2, <1>3, LonePanelFollowsTable, PTL DEF PanelSpec
=============================================================================
