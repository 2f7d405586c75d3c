----------------------------- MODULE PanelSync -----------------------------
(***************************************************************************)
(* A request from its first SQL statement to its answer: the statements of *)
(* UserStore followed by the sync of CoreConfig.  list_users reads the     *)
(* list, App::sync_vpn_users (or the CLI) hands it to XrayManager and then *)
(* to HysteriaManager, and the answer is sent when both have returned.     *)
(* Nothing keeps another request from running in between.                  *)
(*                                                                         *)
(* A configuration lists the users of the one tenant whose request was     *)
(* handled last; the two files are shared by all tenants.                  *)
(***************************************************************************)
EXTENDS UserStore

CONSTANTS
  Length,     \* see CoreConfig
  BufSize,
  Unwritable,
  Notifying

VARIABLES
  file, core, stale, w,  \* see CoreConfig
  overlap                \* history: two requests have been in progress at once since a list was
                         \* last read with no other request in progress

Conf == INSTANCE CoreConfig WITH Writers <- Clients, Users <- Keys, Listings <- SUBSET Keys

ASSUME PanelAssumption ==
  /\ Length \in [Conf!Cores -> [SUBSET Keys -> Nat \ {0}]]
  /\ Clients # {}
  /\ BufSize \in Nat
  /\ Unwritable \subseteq Conf!Cores
  /\ Notifying \subseteq Conf!Cores

coreVars  == <<file, core, stale, w>>
panelVars == <<storeVars, coreVars, overlap>>

OnlyRequest(c) == \A d \in Clients : d # c => h[d].pc = "idle"

-----------------------------------------------------------------------------
PanelInit == Init /\ Conf!Init /\ overlap = FALSE

\* The part of the handler that runs before the list is read.
Handle(c) ==
  /\ Statement(c)
  /\ overlap' = (overlap \/ ~OnlyRequest(c))
  /\ UNCHANGED coreVars

\* auto users = db_->list_users(tenant_id); xray_->sync_users(users)
ListAndBegin(c) ==
  /\ List(c)
  /\ Conf!Begin(c, h'[c].listed)
  /\ overlap' = ~OnlyRequest(c)

\* One step of the two managers.
SyncStep(c) ==
  /\ h[c].pc = "sync"
  /\ Conf!Step(c)
  /\ UNCHANGED <<storeVars, overlap>>

\* Both managers have returned: {"ok":true}, or the end of the CLI process.
Answer(c) ==
  /\ w[c].pc = "idle"
  /\ Finish(c)
  /\ UNCHANGED <<coreVars, overlap>>

\* The health worker and the alerts do not touch the files or the users.
Elsewhere == OtherWrite /\ UNCHANGED <<coreVars, overlap>>

\* A core reads its configuration after systemctl has returned.
CoreStarts == \E k \in Conf!Cores : Conf!Start(k) /\ UNCHANGED <<storeVars, overlap>>

PanelNext ==
  \/ \E c \in Clients : Handle(c) \/ ListAndBegin(c) \/ SyncStep(c) \/ Answer(c)
  \/ Elsewhere
  \/ CoreStarts

PanelSpec == PanelInit /\ [][PanelNext]_panelVars

-----------------------------------------------------------------------------
\* The users that the table says are served, and those of one tenant among them.
Entitled == {k \in Keys : users[k] # NoRow /\ users[k].enabled = 1}

EntitledOf(t) == {k \in Entitled : k[1] = t}

\* What a request can have resolved its tenant to: the CLI goes on with no tenant when a lock keeps
\* it from finding its own, and with one that does not exist when it was rolled back.
Resolvable ==
  TenantIds \union {FallbackTenant} \union {t \in Ids : \E c \in Clients : ConnOf[c] # PanelConn}

NoRequest == \A c \in Clients : h[c].pc = "idle"

\* "Users are synchronised into the configurations of the cores" (README.md): when no request
\* is being handled, each configuration file lists the enabled users of the table
\* (App::sync_vpn_users).
FilesFollowTable ==
  NoRequest => \A k \in Conf!Cores : file[k] = Conf!Text(k, Entitled)

\* Whatever earlier requests left in the files by overlapping each other, one request that
\* reads its list and syncs it while no other is in progress puts them right: both then list the
\* enabled users of one and the same tenant, as the table has them now; and requests that come one
\* after another, of whatever tenants, keep them so, also those that fail (App::sync_vpn_users
\* always writes the whole list, never a difference; a handler that changed the table syncs).
SerialRequestsSettleFiles ==
  NoRequest /\ ~overlap =>
    \E t \in Resolvable : \A k \in Conf!Cores \ Unwritable : file[k] = Conf!Text(k, EntitledOf(t))

\* ... and the cores too, when the texts are too long for the buffer and systemctl does not fail.
SerialRequestsSettleCores ==
  NoRequest /\ ~overlap =>
    \E t \in Resolvable : \A k \in Conf!Cores \ (Unwritable \union stale) :
      Length[k][EntitledOf(t)] >= BufSize =>
        core[k] \in {Conf!Starting, Conf!Up(EntitledOf(t))}
=============================================================================
