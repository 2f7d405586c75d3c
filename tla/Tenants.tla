------------------------------ MODULE Tenants ------------------------------
(***************************************************************************)
(* How tenants come about and how a request or a command finds its own:    *)
(* TenantResolver and App::resolve_tenant_id, App::run, the start of the   *)
(* CLI's main, "tenant add" and "user add", Database::ensure_tenant.       *)
(*                                                                         *)
(* Every CLI process creates the tenant it names when it does not find it; *)
(* the panel creates the default tenant when it starts, and a request for  *)
(* a tenant it does not find works on tenant 1.  ensure_tenant looks, then *)
(* inserts, and returns last_insert_rowid of its connection whatever came  *)
(* of the INSERT.  All statements of one process run on one connection; a  *)
(* statement may be refused (SQLITE_BUSY) while another process is active: *)
(* before it has begun, or when it commits and is rolled back.             *)
(* Tenants and users are not deleted here; UserStore has what else happens *)
(* to users.                                                               *)
(***************************************************************************)
EXTENDS Integers, Sequences

CONSTANTS
  Clis,          \* CLI processes
  Panel,         \* the process of the panel
  Threads,       \* its handler threads
  Slugs,         \* the tenants CLI commands and the configuration name
  Labels,        \* what a request may name: X-Tenant-ID, the first label of Host
  Default,       \* cfg.default_tenant
  Multitenancy,  \* cfg.multitenancy
  Names,         \* names of users
  NoHeader       \* a request without X-Tenant-ID

Procs == Clis \union {Panel}

ASSUME TenantsAssumption ==
  /\ Panel \notin Clis
  /\ Threads \intersect Procs = {}
  /\ Default \in Slugs
  /\ Slugs \subseteq Labels
  /\ NoHeader \notin Labels
  /\ Multitenancy \in BOOLEAN
  /\ Names # {}

VARIABLES
  tenants,  \* the slugs of table tenants, in the order of their ids
  users,    \* table users, with whom each row was added by and for which slug (history)
  p         \* what each process and each handler thread does

vars == <<tenants, users, p>>

User == [tid : Nat, name : Names, by : {"cli", "panel"}, asked : Labels, lost : BOOLEAN]

(***************************************************************************)
(* The step, the tenant that was asked for, the id it was given, the last  *)
(* row the connection has inserted; of a CLI process, its command and the  *)
(* --slug of "tenant add".  alone and lost are history: no other process   *)
(* has been active since the command began, and an INSERT INTO tenants of  *)
(* the command was rolled back.                                            *)
(***************************************************************************)
Doing ==
  [pc    : {"idle", "migrate", "lookup", "ensure", "insert", "create", "done", "up"},
   cmd   : {"user add", "tenant add", "ensured"},
   slug  : Labels,
   named : Slugs,
   name  : Names,
   tid   : Nat,
   rowid : Nat,
   lost  : BOOLEAN,
   alone : BOOLEAN]

Begun(step, cmd, slug, named, name, alone) ==
  [pc |-> step, cmd |-> cmd, slug |-> slug, named |-> named, name |-> name, tid |-> 0,
   rowid |-> 0, lost |-> FALSE, alone |-> alone]

At(c, step) == p[c].pc = step

NotBegun == Begun("idle", "user add", Default, Default, CHOOSE n \in Names : TRUE, FALSE)

Idle(c) == [p EXCEPT ![c] = NotBegun]

ProcessOf(c) == IF c \in Threads THEN Panel ELSE c

\* The other processes that are active: their locks may refuse a statement of c.
Rivals(c) == {q \in Procs \ {ProcessOf(c)} : ~At(q, "idle")}

Contended(c) == Rivals(c) # {}

Ids(slug) == {i \in DOMAIN tenants : tenants[i] = slug}

-----------------------------------------------------------------------------
Init ==
  /\ tenants = <<>>
  /\ users = {}
  /\ p = [c \in Procs \union Threads |-> NotBegun]

\* From now on process c is active, and no command of another one is alone.
Starts(c, doing) ==
  p' = [d \in DOMAIN p |-> IF d = c THEN doing ELSE [p[d] EXCEPT !.alone = FALSE]]

\* main of the CLI: --tenant is given or not, "user add" or "tenant add".
Launch(c) ==
  /\ At(c, "idle")
  /\ \E slug \in Slugs :
       \/ \E name \in Names :
            Starts(c, Begun("migrate", "user add", slug, slug, name, Rivals(c) = {}))
       \/ \E named \in Slugs :
            Starts(c, Begun("migrate", "tenant add", slug, named, NotBegun.name, Rivals(c) = {}))
  /\ UNCHANGED <<tenants, users>>

\* App::run
LaunchPanel ==
  /\ At(Panel, "idle")
  /\ Starts(Panel, [NotBegun EXCEPT !.pc = "migrate"])
  /\ UNCHANGED <<tenants, users>>

\* migrate throws when a statement of the schema is refused, and nobody catches that.
Migrate(c) ==
  /\ At(c, "migrate")
  /\ \/ p' = [p EXCEPT ![c].pc = IF c = Panel THEN "ensure" ELSE "lookup"]
     \/ Contended(c) /\ p' = Idle(c)
  /\ UNCHANGED <<tenants, users>>

\* SELECT id FROM tenants WHERE slug = ?: the id, or 0 for nullopt, as when it is refused.
Found(c) ==
  IF Ids(p[c].slug) = {} THEN {0} ELSE Ids(p[c].slug) \union (IF Contended(c) THEN {0} ELSE {})

\* What follows once a process has the id of its tenant; App::run ignores it.
Ensured(c, id, row, lost) ==
  LET doing == [p[c] EXCEPT !.tid = id, !.rowid = row, !.lost = lost]
  IN IF c = Panel THEN [NotBegun EXCEPT !.pc = "up"]
     ELSE CASE doing.cmd = "user add"   -> [doing EXCEPT !.pc = "create"]
            [] doing.cmd = "tenant add" ->
                 [doing EXCEPT !.pc = "ensure", !.cmd = "ensured", !.slug = doing.named]
            [] doing.cmd = "ensured"    -> [doing EXCEPT !.pc = "done"]

\* main looks for the tenant before it calls ensure_tenant.
Lookup(c) ==
  /\ c \in Clis
  /\ At(c, "lookup")
  /\ \E id \in Found(c) :
       p' = [p EXCEPT ![c] = IF id = 0 THEN [@ EXCEPT !.pc = "ensure"]
                                       ELSE Ensured(c, id, p[c].rowid, p[c].lost)]
  /\ UNCHANGED <<tenants, users>>

\* if (auto id = tenant_id_by_slug(slug)) return *id;
Ensure(c) ==
  /\ At(c, "ensure")
  /\ \E id \in Found(c) :
       p' = [p EXCEPT ![c] = IF id = 0 THEN [@ EXCEPT !.pc = "insert"]
                                       ELSE Ensured(c, id, p[c].rowid, p[c].lost)]
  /\ UNCHANGED <<tenants, users>>

\* A variant with a bug: slug is not UNIQUE.
TakenNever(slug) == FALSE

\* slug TEXT NOT NULL UNIQUE
Taken(slug) == Ids(slug) # {}

\* A variant with a bug: what is refused is taken to be there, as tenant 1.
RowidOr1(c) == IF p[c].rowid = 0 THEN 1 ELSE p[c].rowid

\* A variant with a bug: no row is -1.
RowidOrMinus(c) == IF p[c].rowid = 0 THEN -1 ELSE p[c].rowid

\* sqlite3_last_insert_rowid when this INSERT has not come to insert its row.
LastRowid(c) == p[c].rowid

\* INSERT INTO tenants: it inserts the row, or is refused before it has, or when it commits:
\* then the row is gone again, but last_insert_rowid is the id the row had.
Insert(c) ==
  /\ At(c, "insert")
  /\ LET next == Len(tenants) + 1 IN
       \/ /\ ~Taken(p[c].slug)
          /\ tenants' = Append(tenants, p[c].slug)
          /\ p' = [p EXCEPT ![c] = Ensured(c, next, next, p[c].lost)]
       \/ /\ Taken(p[c].slug) \/ Contended(c)
          /\ p' = [p EXCEPT ![c] = Ensured(c, LastRowid(c), LastRowid(c), p[c].lost)]
          /\ UNCHANGED tenants
       \/ /\ ~Taken(p[c].slug) /\ Contended(c)
          /\ p' = [p EXCEPT ![c] = Ensured(c, next, next, TRUE)]
          /\ UNCHANGED tenants
  /\ UNCHANGED users

-----------------------------------------------------------------------------
\* The slug a request names: host has a first label, which a dot may follow.
Resolved(header, host) ==
  IF Multitenancy /\ header # NoHeader THEN header
  ELSE IF Multitenancy /\ host.dot /\ host.first \in Labels THEN host.first
  ELSE Default

\* "www" and "panel" name no tenant, and before a leading dot there is nothing.
Hosts == [first : Labels \union {"", "www", "panel"}, dot : BOOLEAN]

\* POST /api/users
Request(c) ==
  /\ At(Panel, "up")
  /\ At(c, "idle")
  /\ \E header \in Labels \union {NoHeader}, host \in Hosts, name \in Names :
       p' = [p EXCEPT ![c] =
              Begun("lookup", "user add", Resolved(header, host), Default, name, FALSE)]
  /\ UNCHANGED <<tenants, users>>

\* resolve_tenant_id: id.value_or(1)
Resolve(c) ==
  /\ c \in Threads
  /\ At(c, "lookup")
  /\ \E id \in Found(c) :
       p' = [p EXCEPT ![c].pc = "create", ![c].tid = IF id = 0 THEN 1 ELSE id]
  /\ UNCHANGED <<tenants, users>>

\* A variant with a bug: the row goes to the tenant that was added last.
TenantLast(c) == Len(tenants)

\* create_user(tid, ...)
TenantOf(c) == p[c].tid

\* REFERENCES tenants(id) and UNIQUE(tenant_id, name): create_user throws when the row is refused,
\* which ends a CLI process and makes a request fail.
Create(c) ==
  /\ At(c, "create")
  /\ LET row == [tid   |-> TenantOf(c), name |-> p[c].name,
                 by    |-> IF c \in Clis THEN "cli" ELSE "panel",
                 asked |-> p[c].slug,
                 lost  |-> p[c].lost]
         fits == /\ row.tid \in DOMAIN tenants
                 /\ \A u \in users : <<u.tid, u.name>> # <<row.tid, row.name>>
     IN \/ /\ fits
           /\ users' = users \union {row}
           /\ p' = [p EXCEPT ![c].pc = "done"]
        \/ /\ ~fits \/ Contended(c)
           /\ p' = Idle(c)
           /\ UNCHANGED users
  /\ UNCHANGED tenants

\* The answer is sent, the process ends.
Done(c) ==
  /\ At(c, "done")
  /\ p' = Idle(c)
  /\ UNCHANGED <<tenants, users>>

\* A process ends wherever it is, the panel with its threads.
Ends(c) ==
  /\ ~At(c, "idle")
  /\ p' = [d \in DOMAIN p |-> IF ProcessOf(d) = c THEN NotBegun ELSE p[d]]
  /\ UNCHANGED <<tenants, users>>

Next ==
  \/ LaunchPanel
  \/ \E c \in Clis : Launch(c) \/ Lookup(c)
  \/ \E c \in Procs : Migrate(c) \/ Ensure(c) \/ Insert(c) \/ Ends(c)
  \/ \E c \in Threads : Request(c) \/ Resolve(c)
  \/ \E c \in Clis \union Threads : Create(c) \/ Done(c)

Spec == Init /\ [][Next]_vars

-----------------------------------------------------------------------------
\* Every variable has its type.
TypeOK ==
  /\ tenants \in Seq(Slugs)
  /\ users \subseteq User
  /\ p \in [Procs \union Threads -> Doing]

\* However many processes look for a tenant, do not find it and insert it, it exists once.
OneTenantPerSlug == \A i, j \in DOMAIN tenants : tenants[i] = tenants[j] => i = j

\* No user ends up with a tenant that was not asked for: those the CLI adds belong to the tenant
\* it named, even if the tenant was created meanwhile or its INSERT was refused; those the panel
\* adds belong to the tenant the request named or to tenant 1.  The exception is a command whose
\* INSERT INTO tenants was rolled back at its commit: ensure_tenant returns the id of the row
\* that is gone, and another process may have taken that id for another tenant by then.
UsersInTheirTenant ==
  \A u \in users :
    /\ u.tid \in DOMAIN tenants
    /\ \/ tenants[u.tid] = u.asked
       \/ u.by = "panel" /\ u.tid = 1
       \/ u.by = "cli" /\ u.lost

\* A command that reports success has done what it says, whatever other processes did meanwhile:
\* "user add" has added the user (create_user throws), and to the tenant it named, unless its
\* INSERT INTO tenants was rolled back; and "tenant add" has given the id of its tenant if no
\* other process was active (ensure_tenant does not look at the result of its INSERT).
CommandTakesEffect ==
  \A c \in Clis :
    At(c, "done") =>
      /\ (p[c].cmd = "user add" /\ ~p[c].lost) \/ p[c].alone => p[c].tid \in Ids(p[c].slug)
      /\ p[c].cmd = "user add" => \E u \in users : <<u.tid, u.name>> = <<p[c].tid, p[c].name>>
=============================================================================
