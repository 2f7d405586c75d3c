------------------------------ MODULE UserStore ------------------------------
(***************************************************************************)
(* The user requests of ghostroute-panel and of the ghostroute CLI, down   *)
(* to the SQL statements of class Database.                                *)
(*                                                                         *)
(* A client is a handler thread of the panel or one CLI process.  All the  *)
(* threads of the panel share one sqlite3 connection (Database::db_),      *)
(* opened in SQLite's default serialized mode: a sqlite3_step is atomic,   *)
(* the code between two of them is not.  Each CLI process opens a          *)
(* connection of its own.  Nothing sets a busy timeout, so a statement of  *)
(* one process fails at once with SQLITE_BUSY when it meets a statement of *)
(* another, and most of class Database does not look at that result.       *)
(*                                                                         *)
(* A request names its tenant by a slug, which the panel and the CLI look  *)
(* up before they do anything else; module Tenants has more of that.       *)
(* limit and devices are the columns traffic_limit_bytes and device_limit. *)
(* traffic_used_bytes is 0 in every state: no code adds to it.             *)
(***************************************************************************)
EXTENDS Integers, FiniteSets

CONSTANTS
  Slugs,           \* what requests and commands name tenants by
  MaxTenants,      \* bound: the highest id of a tenant
  TenantTables,    \* the tables tenants there may be at first: [Slugs -> the id or 0]
  Names,           \* user names
  Limits,          \* values of the columns limit and devices
  Clients,         \* handler threads of the panel and CLI processes
  ConnOf,          \* [Clients -> connection]
  PanelConn,       \* the panel's connection
  Asks,            \* [Clients -> the requests the client may issue]
  ListLimit,       \* default LIMIT of list_users (100)
  OtherStatements, \* whether the panel also reads and writes other tables: the health worker
                   \* writes at every tick, GET /api/system/stats when it inserts an alert
  NoRow,           \* a key without a row
  Nullopt          \* std::nullopt

FallbackTenant == 1  \* App::resolve_tenant_id's value_or(1)
NoTenant       == 0  \* last_insert_rowid of a connection that has inserted nothing

Ids  == 0..MaxTenants
Keys == Ids \X Names
Row  == [enabled : {0, 1}, limit : Limits, devices : Limits]

RequestType ==
  [op      : {"create", "patch", "reset", "delete"},
   slug    : Slugs,
   name    : Names,
   enabled : {0, 1, Nullopt},
   limit   : Limits \union {Nullopt},
   devices : Limits \union {Nullopt}]

\* The request once its tenant is known.
AddressedTo(t, r) ==
  [op |-> r.op, tenant |-> t, name |-> r.name,
   enabled |-> r.enabled, limit |-> r.limit, devices |-> r.devices]

ASSUME StoreAssumption ==
  /\ MaxTenants \in Nat \ {0}
  /\ TenantTables \subseteq [Slugs -> Ids]
  /\ \A f \in TenantTables : \A s, z \in Slugs :
       /\ s # z /\ f[s] = f[z] => f[s] = NoTenant
       /\ \A i \in 1..f[s] : \E y \in Slugs : f[y] = i
  /\ \A c, d \in Clients : c # d /\ ConnOf[c] = ConnOf[d] => ConnOf[c] = PanelConn
  /\ Asks \in [Clients -> SUBSET RequestType]
  /\ \A c \in Clients : \A r \in Asks[c] : r.op = "create" => Nullopt \notin {r.limit, r.devices}
  /\ NoRow \notin Row
  /\ Nullopt \notin Limits \union {0, 1} \union RequestType
  /\ \A t \in Ids : \A r \in RequestType : Nullopt # AddressedTo(t, r)
  /\ ListLimit \in Nat
  /\ OtherStatements \in BOOLEAN

VARIABLES
  users,    \* table users: [Keys -> Row \union {NoRow}]
  idOf,     \* table tenants: the id of each slug, or NoTenant
  changes,  \* sqlite3_changes of each connection
  h         \* the handler each client is running

storeVars == <<users, idOf, changes, h>>

Conns == {ConnOf[c] : c \in Clients}

(***************************************************************************)
(* A handler: the statement it executes next, its request, the tenant id   *)
(* it resolved, the row update_user read, what became of its write         *)
(* statement and the enabled users list_users gave it.  via is history:    *)
(* where the tenant id comes from.                                         *)
(***************************************************************************)
Idle == [pc |-> "idle", req |-> Nullopt, tid |-> NoTenant, via |-> "none", read |-> NoRow,
         outcome |-> "none", listed |-> {}]

Steps    == {"idle", "resolve", "ensure", "enroll", "select", "exec", "check", "list", "sync"}
Vias     == {"none", "named", "fallback", "enrolled", "lost"}
Outcomes == {"none", "row", "norow", "busy"}

Handler ==
  [pc      : Steps,
   req     : RequestType \union {Nullopt},
   tid     : Ids,
   via     : Vias,
   read    : Row \union {NoRow},
   outcome : Outcomes,
   listed  : SUBSET Keys]

Key(c) == <<h[c].tid, h[c].req.name>>

At(c, op, step) == h[c].pc = step /\ h[c].req.op = op

TenantIds == {idOf[s] : s \in Slugs} \ {NoTenant}

\* The id that an INSERT INTO tenants takes: the one after the last.
NewIds == {i \in 1..MaxTenants : i \notin TenantIds /\ (i = 1 \/ i - 1 \in TenantIds)}

(***************************************************************************)
(* SQLITE_BUSY.  A statement of c meets one of another process when that   *)
(* process is at one of the given statements; a CLI process may meet one   *)
(* of the panel's other statements at any time.                            *)
(***************************************************************************)
WriteSteps == {"enroll", "exec"}
ReadSteps  == {"resolve", "ensure", "select", "list"}

OtherProcessAt(conn, steps) == \E d \in Clients : ConnOf[d] # conn /\ h[d].pc \in steps

Contended(c, steps) ==
  \/ OtherProcessAt(ConnOf[c], steps)
  \/ OtherStatements /\ ConnOf[c] # PanelConn

\* A write statement that ran to completion sets the connection's change counter,
Completed(c, n) ==
  /\ changes' = [changes EXCEPT ![ConnOf[c]] = n]
  /\ h' = [h EXCEPT ![c].pc = "check", ![c].outcome = IF n > 0 THEN "row" ELSE "norow"]

\* one that could not take the lock leaves the counter of the statement before it,
\* one that could not commit is rolled back and counts no row.
Refused(c) ==
  /\ \/ Contended(c, WriteSteps) /\ UNCHANGED changes
     \/ Contended(c, ReadSteps) /\ changes' = [changes EXCEPT ![ConnOf[c]] = 0]
  /\ h' = [h EXCEPT ![c].pc = "check", ![c].outcome = "busy"]
  /\ UNCHANGED users

-----------------------------------------------------------------------------
Init ==
  /\ users = [k \in Keys |-> NoRow]
  /\ idOf \in TenantTables
  /\ changes = [n \in Conns |-> 0]
  /\ h = [c \in Clients |-> Idle]

\* A request reaches a handler thread, or a CLI process starts and opens its connection.
Begin(c) ==
  /\ h[c].pc = "idle"
  /\ \E r \in Asks[c] : h' = [h EXCEPT ![c].pc = "resolve", ![c].req = r]
  /\ changes' = IF ConnOf[c] = PanelConn THEN changes ELSE [changes EXCEPT ![ConnOf[c]] = 0]
  /\ UNCHANGED <<users, idOf>>

\* A variant with a bug: everything is tenant 1's.
TenantIgnored(c) == {FallbackTenant}

\* What tenant_id_by_slug finds: it takes SQLITE_BUSY for "no such tenant".
TenantFound(c) ==
  {idOf[h[c].req.slug]} \union IF Contended(c, WriteSteps) THEN {NoTenant} ELSE {}

\* The handler has its tenant id and goes on.
WorksOn(c, t, via) ==
  h' = [h EXCEPT ![c].tid = t, ![c].via = via,
                 ![c].pc = IF h[c].req.op = "patch" THEN "select" ELSE "exec"]

\* The panel falls back on tenant 1, the CLI calls ensure_tenant.
Resolve(c) ==
  /\ h[c].pc = "resolve"
  /\ \E t \in TenantFound(c) :
       \/ t # NoTenant /\ WorksOn(c, t, "named")
       \/ t = NoTenant /\ ConnOf[c] = PanelConn /\ WorksOn(c, FallbackTenant, "fallback")
       \/ t = NoTenant /\ ConnOf[c] # PanelConn /\ h' = [h EXCEPT ![c].pc = "ensure"]
  /\ UNCHANGED <<users, idOf, changes>>

\* ensure_tenant looks again,
Ensure(c) ==
  /\ h[c].pc = "ensure"
  /\ \E t \in TenantFound(c) :
       \/ t # NoTenant /\ WorksOn(c, t, "named")
       \/ t = NoTenant /\ h' = [h EXCEPT ![c].pc = "enroll"]
  /\ UNCHANGED <<users, idOf, changes>>

\* inserts the slug, and returns last_insert_rowid whatever came of that: an INSERT that was rolled
\* back when it could not commit has left the id it had taken there.
Enroll(c) ==
  /\ h[c].pc = "enroll"
  /\ \/ /\ idOf[h[c].req.slug] = NoTenant
        /\ \E i \in NewIds : /\ idOf' = [idOf EXCEPT ![h[c].req.slug] = i]
                             /\ WorksOn(c, i, "enrolled")
        /\ changes' = [changes EXCEPT ![ConnOf[c]] = 1]
     \/ /\ idOf[h[c].req.slug] # NoTenant \/ Contended(c, WriteSteps)
        /\ WorksOn(c, NoTenant, "none")
        /\ changes' = [changes EXCEPT ![ConnOf[c]] = 0]
        /\ UNCHANGED idOf
     \/ /\ idOf[h[c].req.slug] = NoTenant /\ Contended(c, ReadSteps)
        /\ \E i \in NewIds : WorksOn(c, i, "lost")
        /\ changes' = [changes EXCEPT ![ConnOf[c]] = 0]
        /\ UNCHANGED idOf
  /\ UNCHANGED users

\* update_user, first half: the row is read, and merged with the request later.
Select(c) ==
  /\ At(c, "patch", "select")
  /\ users[Key(c)] # NoRow
  /\ h' = [h EXCEPT ![c].pc = "exec", ![c].read = users[Key(c)]]
  /\ UNCHANGED <<users, idOf, changes>>

\* No row, or SQLITE_BUSY taken for no row: "user not found".
SelectNothing(c) ==
  /\ At(c, "patch", "select")
  /\ users[Key(c)] = NoRow \/ Contended(c, WriteSteps)
  /\ h' = [h EXCEPT ![c] = Idle]
  /\ UNCHANGED <<users, idOf, changes>>

NewRow(req) == [enabled |-> 1, limit |-> req.limit, devices |-> req.devices]

\* A variant with a bug: INSERT OR REPLACE.
InsertOrReplace(c) ==
  /\ At(c, "create", "exec")
  /\ h[c].tid \in TenantIds
  /\ users' = [users EXCEPT ![Key(c)] = NewRow(h[c].req)]
  /\ changes' = [changes EXCEPT ![ConnOf[c]] = 1]
  /\ h' = [h EXCEPT ![c].pc = "list", ![c].outcome = "row"]
  /\ UNCHANGED idOf

\* create_user looks at the result of its INSERT and throws when it failed: UNIQUE(tenant_id,
\* name), the foreign key of a tenant that does not exist, or SQLITE_BUSY.
Insert(c) ==
  /\ At(c, "create", "exec")
  /\ h[c].tid \in TenantIds
  /\ users[Key(c)] = NoRow
  /\ users' = [users EXCEPT ![Key(c)] = NewRow(h[c].req)]
  /\ changes' = [changes EXCEPT ![ConnOf[c]] = 1]
  /\ h' = [h EXCEPT ![c].pc = "list", ![c].outcome = "row"]
  /\ UNCHANGED idOf

\* The generator of uuid_v4 is shared by the threads of a process without a lock: two of them may
\* draw one uuid, which is UNIQUE.
UuidRepeats(c) ==
  /\ \E d \in Clients \ {c} : ConnOf[d] = ConnOf[c]
  /\ \E k \in Keys : users[k] # NoRow

InsertFails(c) ==
  /\ At(c, "create", "exec")
  /\ \/ h[c].tid \notin TenantIds
     \/ users[Key(c)] # NoRow
     \/ UuidRepeats(c)
     \/ Contended(c, WriteSteps \union ReadSteps)
  /\ changes' = [changes EXCEPT ![ConnOf[c]] = 0]
  /\ h' = [h EXCEPT ![c] = Idle]
  /\ UNCHANGED <<users, idOf>>

\* A variant with a bug: the column is written whether the request names it or not.
ValueAlways(opt, current) == opt

\* std::optional::value_or
ValueOr(opt, current) == IF opt = Nullopt THEN current ELSE opt

Merged(req, row) == [enabled |-> ValueOr(req.enabled, row.enabled),
                     limit   |-> ValueOr(req.limit, row.limit),
                     devices |-> ValueOr(req.devices, row.devices)]

\* A variant with a bug: an upsert where the code has an UPDATE.
Upsert(c) ==
  /\ At(c, "patch", "exec")
  /\ \/ /\ users' = [users EXCEPT ![Key(c)] = Merged(h[c].req, h[c].read)]
        /\ Completed(c, 1)
     \/ Refused(c)
  /\ UNCHANGED idOf

\* update_user, second half: UPDATE ... WHERE tenant_id = ? AND name = ?
Update(c) ==
  /\ At(c, "patch", "exec")
  /\ \/ /\ users[Key(c)] # NoRow
        /\ users' = [users EXCEPT ![Key(c)] = Merged(h[c].req, h[c].read)]
        /\ Completed(c, 1)
     \/ /\ users[Key(c)] = NoRow
        /\ UNCHANGED users
        /\ Completed(c, 0)
     \/ Refused(c)
  /\ UNCHANGED idOf

\* reset_user_traffic sets a column that is 0 already, and counts the row.
Reset(c) ==
  /\ At(c, "reset", "exec")
  /\ \/ Completed(c, IF users[Key(c)] # NoRow THEN 1 ELSE 0) /\ UNCHANGED users
     \/ Refused(c)
  /\ UNCHANGED idOf

\* A variant with a bug: >= for >.
ChangesNotNegative(c) == changes[ConnOf[c]] >= 0

\* What update_user and reset_user_traffic return.
ChangesPositive(c) == changes[ConnOf[c]] > 0

\* sqlite3_changes is read back from the connection, then the statement is finalized, which
\* ends one that was refused.  A patch goes on to the sync, a reset returns, and both answer
\* "user not found" when the counter is 0.
Check(c) ==
  /\ h[c].pc = "check"
  /\ changes' = IF h[c].outcome = "busy" THEN [changes EXCEPT ![ConnOf[c]] = 0] ELSE changes
  /\ h' = [h EXCEPT ![c] = IF ChangesPositive(c) /\ h[c].req.op = "patch"
                             THEN [h[c] EXCEPT !.pc = "list"]
                             ELSE Idle]
  /\ UNCHANGED <<users, idOf>>

\* delete_user: neither the handler nor the CLI looks at what it returns.
Delete(c) ==
  /\ At(c, "delete", "exec")
  /\ \/ /\ users' = [users EXCEPT ![Key(c)] = NoRow]
        /\ changes' = [changes EXCEPT ![ConnOf[c]] = IF users[Key(c)] # NoRow THEN 1 ELSE 0]
        /\ h' = [h EXCEPT ![c].pc = "list",
                          ![c].outcome = IF users[Key(c)] # NoRow THEN "row" ELSE "norow"]
     \/ /\ Contended(c, WriteSteps \union ReadSteps)
        /\ changes' = [changes EXCEPT ![ConnOf[c]] = 0]
        /\ h' = [h EXCEPT ![c].pc = "list", ![c].outcome = "busy"]
        /\ UNCHANGED users
  /\ UNCHANGED idOf

\* list_users returns the first ListLimit rows of the tenant in no stated order, disabled
\* ones included, and nothing at all on SQLITE_BUSY.  It steps through the rows one by one; here it
\* reads them at once, as it does unless another thread of the process writes in the middle.
RowsOf(t) == {k \in Keys : k[1] = t /\ users[k] # NoRow}

Pages(t) ==
  {S \in SUBSET RowsOf(t) :
     Cardinality(S) = IF Cardinality(RowsOf(t)) < ListLimit THEN Cardinality(RowsOf(t))
                                                            ELSE ListLimit}

\* A variant with a bug: generate_config without "if (!u.enabled) continue".
WithDisabled(S) == S

\* The users that generate_config and HysteriaManager::sync_users keep of a list.
Enabled(S) == {k \in S : users[k] # NoRow /\ users[k].enabled = 1}

List(c) ==
  /\ h[c].pc = "list"
  /\ \E S \in Pages(h[c].tid) \union (IF Contended(c, WriteSteps) THEN {{}} ELSE {}) :
       h' = [h EXCEPT ![c].pc = "sync", ![c].listed = Enabled(S)]
  /\ UNCHANGED <<users, idOf, changes>>

\* The config files are written (module CoreConfig) and the handler answers.
Finish(c) ==
  /\ h[c].pc = "sync"
  /\ h' = [h EXCEPT ![c] = Idle]
  /\ UNCHANGED <<users, idOf, changes>>

\* Everything a handler does before the list is handed to the cores.
Statement(c) ==
  \/ Begin(c) \/ Resolve(c) \/ Ensure(c) \/ Enroll(c) \/ Select(c) \/ SelectNothing(c)
  \/ Insert(c) \/ InsertFails(c) \/ Update(c) \/ Reset(c) \/ Check(c) \/ Delete(c)

\* update_service_health or insert_alert on the panel's connection: one row, unless the
\* statement is refused, which none of the two looks at.
OtherWrite ==
  /\ OtherStatements
  /\ PanelConn \in Conns
  /\ \E n \in {1} \union IF OtherProcessAt(PanelConn, WriteSteps \union ReadSteps) THEN {0} ELSE {} :
       changes' = [changes EXCEPT ![PanelConn] = n]
  /\ UNCHANGED <<users, idOf, h>>

Next ==
  \/ \E c \in Clients : Statement(c) \/ List(c) \/ Finish(c)
  \/ OtherWrite

Spec == Init /\ [][Next]_storeVars

-----------------------------------------------------------------------------
\* Every variable has its type (types.hpp's User, the columns of schema.sql).
TypeOK ==
  /\ users \in [Keys -> Row \union {NoRow}]
  /\ idOf \in [Slugs -> Ids]
  /\ changes \in [Conns -> {0, 1}]
  /\ h \in [Clients -> Handler]

\* "user not found" is never the answer to a PATCH or a reset whose UPDATE changed a row
\* (what update_user and reset_user_traffic make of sqlite3_changes).
NoFalseNotFound ==
  \A c \in Clients : h[c].pc = "check" /\ h[c].outcome = "row" => ChangesPositive(c)

\* A CLI process, which has its connection to itself, reports its UPDATE as it ended, also
\* when the panel's statements make it fail with SQLITE_BUSY; except that a command which has just
\* created its tenant takes the row of that INSERT for its own when its UPDATE is refused.
CliReplyTruthful ==
  \A c \in Clients : ConnOf[c] # PanelConn /\ h[c].pc = "check" =>
    \/ ChangesPositive(c) <=> h[c].outcome = "row"
    \/ h[c].outcome = "busy" /\ h[c].via = "enrolled"

\* A user that was deleted comes back only through create_user: a PATCH that read the row
\* before the DELETE does not bring it back.
AppearsOnlyByCreate ==
  [][\A k \in Keys : users[k] = NoRow /\ users'[k] # NoRow =>
       \E c \in Clients : At(c, "create", "exec") /\ Key(c) = k]_storeVars

\* A row changes only for a request that named its tenant, in spite of the locks of other processes
\* and of tenants that are created meanwhile; tenant 1's also for one of the panel that did not find
\* its tenant (resolve_tenant_id), any tenant's for a command whose tenant was rolled back (Enroll).
RowsChangeForTheirTenant ==
  [][\A k \in Keys : users[k] # users'[k] =>
       \E c \in Clients :
         /\ h[c].pc = "exec" /\ k = Key(c)
         /\ \/ k[1] = idOf[h[c].req.slug]
            \/ k[1] = FallbackTenant /\ h[c].via = "fallback"
            \/ h[c].via = "lost"]_storeVars

(***************************************************************************)
(* The statements of a request, taken together, are the one atomic         *)
(* operation of UserTable, as long as the panel is alone: then no tenant   *)
(* is created, and a lookup finds what there is.                           *)
(***************************************************************************)
ResolvesTo(table, slug) == IF table[slug] # NoTenant THEN table[slug] ELSE FallbackTenant

Pending ==
  [c \in Clients |->
     IF h[c].pc \in {"resolve", "select", "exec"}
       THEN AddressedTo(ResolvesTo(idOf, h[c].req.slug), h[c].req)
       ELSE Nullopt]

AddressedAsks == {AddressedTo(t, r) : t \in Ids, r \in UNION {Asks[c] : c \in Clients}}

Table ==
  INSTANCE UserTable WITH
    Requests <- AddressedAsks,
    pending  <- Pending

ImplementsTable == Table!Spec
=============================================================================
