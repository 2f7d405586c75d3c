---------------------------- MODULE TenantsProofs ----------------------------
(***************************************************************************)
(* Proofs about Tenants, for any processes, threads, slugs and requests.   *)
(***************************************************************************)
EXTENDS Tenants, TLAPS

\* The tenant d works on is the one it asked for, if it has one, unless its INSERT was rolled back.
Belongs(d, table) == d.tid = 0 \/ d.lost = TRUE \/ (d.tid \in DOMAIN table /\ table[d.tid] = d.slug)

(***************************************************************************)
(* What holds of a CLI process.  "user add" runs one INSERT INTO tenants   *)
(* at most, so that last_insert_rowid is 0 when it is refused before it    *)
(* has inserted its row: no other tenant's id can be taken for it then.    *)
(***************************************************************************)
CliOK(d, table) ==
  /\ d.slug \in Slugs
  /\ d.pc = "create" => d.cmd = "user add"
  /\ d.cmd = "user add" /\ d.pc \in {"migrate", "lookup", "ensure", "insert"} => d.rowid = 0
  /\ d.cmd = "user add" /\ d.pc \in {"create", "done"} => Belongs(d, table)

\* What holds of a handler thread: it falls back to tenant 1.
ThreadOK(d, table) ==
  /\ d.pc \in {"idle", "lookup", "create", "done"}
  /\ d.lost = FALSE
  /\ d.pc = "create" => d.tid = 1 \/ Belongs(d, table)

Inv ==
  /\ TypeOK
  /\ OneTenantPerSlug
  /\ UsersInTheirTenant
  /\ \A c \in Clis : CliOK(p[c], tenants)
  /\ \A c \in Threads : ThreadOK(p[c], tenants)
  /\ p[Panel].slug \in Slugs

-----------------------------------------------------------------------------
LEMMA NotBegunFact ==
  /\ NotBegun \in Doing
  /\ NotBegun.slug \in Slugs
  /\ NotBegun.pc = "idle"
  /\ NotBegun.lost = FALSE
<1>1. (CHOOSE n \in Names : TRUE) \in Names
  BY TenantsAssumption
<1>2. Default \in Slugs /\ Default \in Labels
  BY TenantsAssumption
<1> QED
  BY <1>1, <1>2 DEF NotBegun, Begun, Doing

\* Appending a tenant takes nothing from the others.
LEMMA AppendFact ==
  ASSUME TypeOK, NEW slug \in Slugs
  PROVE  /\ Append(tenants, slug) \in Seq(Slugs)
         /\ DOMAIN tenants = 1 .. Len(tenants)
         /\ Len(tenants) \in Nat
         /\ DOMAIN Append(tenants, slug) = 1 .. Len(tenants) + 1
         /\ \A i \in DOMAIN tenants : Append(tenants, slug)[i] = tenants[i]
         /\ Append(tenants, slug)[Len(tenants) + 1] = slug
<1>1. tenants \in Seq(Slugs)
  BY DEF TypeOK
<1> QED
  BY <1>1

\* An id that a SELECT has found is that of the tenant asked for.
LEMMA FoundFact ==
  ASSUME TypeOK, NEW c \in Procs \union Threads, NEW id \in Found(c)
  PROVE  id \in Nat /\ (id = 0 \/ (id \in DOMAIN tenants /\ tenants[id] = p[c].slug))
<1>1. tenants \in Seq(Slugs)
  BY DEF TypeOK
<1>2. DOMAIN tenants \subseteq Nat
  BY <1>1
<1> QED
  BY <1>2 DEF Found, Ids

LEMMA InvInit == Init => Inv
<1> SUFFICES ASSUME Init PROVE Inv
  OBVIOUS
<1> USE NotBegunFact DEF Init
<1>1. tenants \in Seq(Slugs) /\ DOMAIN tenants = {}
  OBVIOUS
<1>2. TypeOK
  BY <1>1 DEF TypeOK
<1>3. \A c \in Clis : CliOK(p[c], tenants)
  BY DEF CliOK, Procs
<1>4. \A c \in Threads : ThreadOK(p[c], tenants)
  BY DEF ThreadOK
<1>5. p[Panel].slug \in Slugs
  BY DEF Procs
<1> QED
  BY <1>1, <1>2, <1>3, <1>4, <1>5 DEF Inv, OneTenantPerSlug, UsersInTheirTenant

\* A step that leaves both tables alone preserves Inv if what each process does is in order.
LEMMA TablesKept ==
  ASSUME Inv, UNCHANGED <<tenants, users>>,
         p' \in [Procs \union Threads -> Doing],
         \A c \in Clis : CliOK(p'[c], tenants),
         \A c \in Threads : ThreadOK(p'[c], tenants),
         p'[Panel].slug \in Slugs
  PROVE  Inv'
BY DEF Inv, TypeOK, OneTenantPerSlug, UsersInTheirTenant

\* What follows on ensure_tenant, or on main's own lookup, keeps the record of a process in order.
LEMMA EnsuredFact ==
  ASSUME TypeOK, NEW c \in Procs, NEW id \in Nat, NEW row \in Nat, NEW lost \in BOOLEAN,
         NEW table, c \in Clis => CliOK(p[c], tenants),
         p[c].slug \in Slugs,
         p[c].pc \in {"lookup", "ensure", "insert"},
         id = 0 \/ lost \/ p[c].cmd # "user add" \/ (id \in DOMAIN table /\ table[id] = p[c].slug)
  PROVE  /\ Ensured(c, id, row, lost) \in Doing
         /\ Ensured(c, id, row, lost).slug \in Slugs
         /\ c \in Clis => CliOK(Ensured(c, id, row, lost), table)
<1>1. p[c] \in Doing
  BY DEF TypeOK
<1>2. Slugs \subseteq Labels
  BY TenantsAssumption
<1>3. CASE c = Panel
  <2>1. Ensured(c, id, row, lost) = [NotBegun EXCEPT !.pc = "up"]
    BY <1>3 DEF Ensured
  <2>2. c \notin Clis
    BY <1>3, TenantsAssumption
  <2> QED
    BY <2>1, <2>2, NotBegunFact DEF Doing
<1>4. CASE c # Panel /\ p[c].cmd = "user add"
  <2>1. Ensured(c, id, row, lost) = [p[c] EXCEPT !.tid = id, !.rowid = row, !.lost = lost, !.pc = "create"]
    BY <1>1, <1>4 DEF Ensured, Doing
  <2> QED
    BY <1>1, <1>4, <2>1 DEF Doing, CliOK, Belongs
<1>5. CASE c # Panel /\ p[c].cmd = "tenant add"
  <2>1. Ensured(c, id, row, lost) =
          [p[c] EXCEPT !.tid = id, !.rowid = row, !.lost = lost, !.pc = "ensure",
                       !.cmd = "ensured", !.slug = p[c].named]
    BY <1>1, <1>5 DEF Ensured, Doing
  <2> QED
    BY <1>1, <1>2, <1>5, <2>1 DEF Doing, CliOK
<1>6. CASE c # Panel /\ p[c].cmd = "ensured"
  <2>1. Ensured(c, id, row, lost) = [p[c] EXCEPT !.tid = id, !.rowid = row, !.lost = lost, !.pc = "done"]
    BY <1>1, <1>6 DEF Ensured, Doing
  <2> QED
    BY <1>1, <1>6, <2>1 DEF Doing, CliOK
<1> QED
  BY <1>1, <1>3, <1>4, <1>5, <1>6 DEF Doing
-----------------------------------------------------------------------------
\* When one process or thread moves, only what it does then has to be looked at.
LEMMA OneMoves ==
  ASSUME Inv, UNCHANGED <<tenants, users>>,
         NEW c \in Procs \union Threads, NEW d \in Doing, p' = [p EXCEPT ![c] = d],
         c \in Clis => CliOK(d, tenants),
         c \in Threads => ThreadOK(d, tenants),
         c \in Procs => d.slug \in Slugs
  PROVE  Inv'
<1>1. p \in [Procs \union Threads -> Doing]
  BY DEF Inv, TypeOK
<1>2. Panel \in Procs /\ Clis \subseteq Procs
  BY DEF Procs
<1>3. p' \in [Procs \union Threads -> Doing]
  BY <1>1
<1>4. \A e \in Procs \union Threads : p'[e] = IF e = c THEN d ELSE p[e]
  BY <1>1
<1>5. \A e \in Clis : CliOK(p'[e], tenants)
  BY <1>2, <1>4 DEF Inv
<1>6. \A e \in Threads : ThreadOK(p'[e], tenants)
  BY <1>4 DEF Inv
<1>7. p'[Panel].slug \in Slugs
  BY <1>2, <1>4 DEF Inv
<1> QED
  BY <1>3, <1>5, <1>6, <1>7, TablesKept

LEMMA IdleFact ==
  /\ CliOK(NotBegun, tenants)
  /\ ThreadOK(NotBegun, tenants)
BY NotBegunFact DEF CliOK, ThreadOK

\* The slug of a process is one it may create a tenant for.
LEMMA SlugFact ==
  ASSUME Inv, NEW c \in Procs
  PROVE  p[c] \in Doing /\ p[c].slug \in Slugs
BY DEF Inv, TypeOK, CliOK, Procs

LEMMA StartsFact ==
  ASSUME Inv, NEW c \in Procs, NEW d \in Doing, Starts(c, d), UNCHANGED <<tenants, users>>,
         d.slug \in Slugs, c \in Clis => CliOK(d, tenants)
  PROVE  Inv'
<1>1. p \in [Procs \union Threads -> Doing]
  BY DEF Inv, TypeOK
<1>2. Panel \in Procs /\ Clis \subseteq Procs /\ Threads \intersect Procs = {}
  BY TenantsAssumption DEF Procs
<1>3. p' = [e \in Procs \union Threads |-> IF e = c THEN d ELSE [p[e] EXCEPT !.alone = FALSE]]
  BY <1>1 DEF Starts
<1>4. ASSUME NEW e \in Procs \union Threads
      PROVE  [p[e] EXCEPT !.alone = FALSE] \in Doing
  BY <1>1 DEF Doing
<1>5. p' \in [Procs \union Threads -> Doing]
  BY <1>3, <1>4
<1>6. ASSUME NEW e \in Clis PROVE CliOK(p'[e], tenants)
  <2>1. p[e] \in Doing /\ CliOK(p[e], tenants)
    BY <1>1, <1>2 DEF Inv
  <2> QED
    BY <1>2, <1>3, <2>1 DEF Doing, CliOK, Belongs
<1>7. ASSUME NEW e \in Threads PROVE ThreadOK(p'[e], tenants)
  <2>1. p[e] \in Doing /\ ThreadOK(p[e], tenants) /\ e # c
    BY <1>1, <1>2 DEF Inv
  <2> QED
    BY <1>3, <2>1 DEF Doing, ThreadOK, Belongs
<1>8. p'[Panel].slug \in Slugs
  <2>1. p[Panel] \in Doing /\ p[Panel].slug \in Slugs
    BY <1>1, <1>2 DEF Inv
  <2> QED
    BY <1>2, <1>3, <2>1 DEF Doing
<1> QED
  BY <1>5, <1>6, <1>7, <1>8, TablesKept

LEMMA LaunchStep == ASSUME Inv, NEW c \in Clis, Launch(c) PROVE Inv'
<1>1. c \in Procs
  BY DEF Procs
<1>2. NotBegun.name \in Names
  BY NotBegunFact DEF Doing
<1>3. PICK slug \in Slugs :
        \/ \E name \in Names :
             Starts(c, Begun("migrate", "user add", slug, slug, name, Rivals(c) = {}))
        \/ \E named \in Slugs :
             Starts(c, Begun("migrate", "tenant add", slug, named, NotBegun.name, Rivals(c) = {}))
  BY DEF Launch
<1>4. ASSUME NEW cmd \in {"user add", "tenant add"}, NEW named \in Slugs, NEW name \in Names,
             Starts(c, Begun("migrate", cmd, slug, named, name, Rivals(c) = {}))
      PROVE  Inv'
  <2> DEFINE d == Begun("migrate", cmd, slug, named, name, Rivals(c) = {})
  <2>1. (Rivals(c) = {}) \in BOOLEAN
    OBVIOUS
  <2>2. slug \in Labels
    BY TenantsAssumption
  <2>3. d \in Doing
    BY <2>1, <2>2 DEF Begun, Doing
  <2>4. CliOK(d, tenants) /\ d.slug \in Slugs
    BY DEF Begun, CliOK
  <2>5. UNCHANGED <<tenants, users>>
    BY DEF Launch
  <2> HIDE DEF d
  <2> QED
    BY <1>1, <1>4, <2>3, <2>4, <2>5, StartsFact DEF d
<1> QED
  BY <1>2, <1>3, <1>4

LEMMA LaunchPanelStep == Inv /\ LaunchPanel => Inv'
<1> SUFFICES ASSUME Inv, LaunchPanel PROVE Inv'
  OBVIOUS
<1>1. [NotBegun EXCEPT !.pc = "migrate"] \in Doing
  BY NotBegunFact DEF Doing
<1>2. [NotBegun EXCEPT !.pc = "migrate"].slug \in Slugs
  BY NotBegunFact DEF Doing
<1>3. Panel \in Procs /\ Panel \notin Clis
  BY TenantsAssumption DEF Procs
<1> QED
  BY <1>1, <1>2, <1>3, StartsFact DEF LaunchPanel

LEMMA MigrateStep == ASSUME Inv, NEW c \in Procs, Migrate(c) PROVE Inv'
<1>1. p[c] \in Doing /\ p[c].slug \in Slugs
  BY SlugFact
<1>2. c \notin Threads
  BY TenantsAssumption
<1>3. CASE p' = Idle(c)
  BY <1>2, <1>3, OneMoves, NotBegunFact, IdleFact DEF Idle, Migrate
<1>4. CASE p' = [p EXCEPT ![c].pc = IF c = Panel THEN "ensure" ELSE "lookup"]
  <2> DEFINE d == [p[c] EXCEPT !.pc = IF c = Panel THEN "ensure" ELSE "lookup"]
  <2>1. d \in Doing /\ d.slug \in Slugs
    BY <1>1 DEF Doing
  <2>2. c \in Clis => CliOK(d, tenants)
    BY <1>1 DEF Inv, CliOK, Migrate, At, Doing
  <2>3. p' = [p EXCEPT ![c] = d]
    BY <1>4
  <2>4. UNCHANGED <<tenants, users>>
    BY DEF Migrate
  <2> HIDE DEF d
  <2> QED
    BY <1>2, <2>1, <2>2, <2>3, <2>4, OneMoves
<1> QED
  BY <1>3, <1>4 DEF Migrate

\* A lookup: main's own, or that of ensure_tenant.  next is the step when nothing was found.
LEMMA FindingStep ==
  ASSUME Inv, NEW c \in Procs, NEW id \in Found(c), NEW next \in {"ensure", "insert"},
         p[c].pc \in {"lookup", "ensure"}, UNCHANGED <<tenants, users>>,
         p' = [p EXCEPT ![c] = IF id = 0 THEN [@ EXCEPT !.pc = next]
                                         ELSE Ensured(c, id, p[c].rowid, p[c].lost)]
  PROVE  Inv'
<1>1. p[c] \in Doing /\ p[c].slug \in Slugs /\ TypeOK
  BY SlugFact DEF Inv
<1>2. c \notin Threads
  BY TenantsAssumption
<1>3. id \in Nat /\ (id = 0 \/ (id \in DOMAIN tenants /\ tenants[id] = p[c].slug))
  BY <1>1, FoundFact
<1>4. c \in Clis => CliOK(p[c], tenants)
  BY DEF Inv
<1>5. CASE id = 0
  <2> DEFINE d == [p[c] EXCEPT !.pc = next]
  <2>1. d \in Doing /\ d.slug \in Slugs
    BY <1>1 DEF Doing
  <2>2. c \in Clis => CliOK(d, tenants)
    BY <1>1, <1>4 DEF CliOK, Doing
  <2>3. p' = [p EXCEPT ![c] = d]
    BY <1>5
  <2> HIDE DEF d
  <2> QED
    BY <1>2, <2>1, <2>2, <2>3, OneMoves
<1>6. CASE id # 0
  <2>1. p[c].rowid \in Nat /\ p[c].lost \in BOOLEAN
    BY <1>1 DEF Doing
  <2>2. /\ Ensured(c, id, p[c].rowid, p[c].lost) \in Doing
        /\ Ensured(c, id, p[c].rowid, p[c].lost).slug \in Slugs
        /\ c \in Clis => CliOK(Ensured(c, id, p[c].rowid, p[c].lost), tenants)
    BY <1>1, <1>3, <1>4, <1>6, <2>1, EnsuredFact
  <2>3. p' = [p EXCEPT ![c] = Ensured(c, id, p[c].rowid, p[c].lost)]
    BY <1>6
  <2> QED
    BY <1>2, <2>2, <2>3, OneMoves
<1> QED
  BY <1>5, <1>6

LEMMA LookupStep == ASSUME Inv, NEW c \in Procs, Lookup(c) \/ Ensure(c) PROVE Inv'
<1>1. CASE Lookup(c)
  BY <1>1, FindingStep DEF Lookup, At
<1>2. CASE Ensure(c)
  BY <1>2, FindingStep DEF Ensure, At
<1> QED
  BY <1>1, <1>2

\* INSERT INTO tenants: UNIQUE keeps the slugs apart, and no id changes its slug.
LEMMA InsertStep == ASSUME Inv, NEW c \in Procs, Insert(c) PROVE Inv'
<1>1. p[c] \in Doing /\ p[c].slug \in Slugs /\ TypeOK
  BY SlugFact DEF Inv
<1>2. c \notin Threads
  BY TenantsAssumption
<1>3. c \in Clis => CliOK(p[c], tenants)
  BY DEF Inv
<1>4. p[c].pc = "insert" /\ users' = users
  BY DEF Insert, At
<1>5. CASE /\ ~Taken(p[c].slug)
           /\ tenants' = Append(tenants, p[c].slug)
           /\ p' = [p EXCEPT ![c] = Ensured(c, Len(tenants) + 1, Len(tenants) + 1, p[c].lost)]
  <2> DEFINE n == Len(tenants) + 1
  <2>1. /\ tenants' \in Seq(Slugs)
        /\ DOMAIN tenants = 1 .. Len(tenants)
        /\ Len(tenants) \in Nat
        /\ DOMAIN tenants' = 1 .. Len(tenants) + 1
        /\ \A i \in DOMAIN tenants : tenants'[i] = tenants[i]
        /\ tenants'[n] = p[c].slug
    BY <1>1, <1>5, AppendFact
  <2>2. n \in Nat /\ n \in DOMAIN tenants' /\ DOMAIN tenants \subseteq DOMAIN tenants'
    BY <2>1
  <2> HIDE DEF n
  <2>0. p[c].lost \in BOOLEAN
    BY <1>1 DEF Doing
  <2>3. /\ Ensured(c, n, n, p[c].lost) \in Doing
        /\ Ensured(c, n, n, p[c].lost).slug \in Slugs
        /\ c \in Clis => CliOK(Ensured(c, n, n, p[c].lost), tenants')
    BY <1>1, <1>3, <1>4, <2>0, <2>1, <2>2, EnsuredFact
  <2>4. \A e \in Procs \union Threads : p'[e] = IF e = c THEN Ensured(c, n, n, p[c].lost) ELSE p[e]
    BY <1>1, <1>5 DEF TypeOK, n
  <2>5. TypeOK'
    <3>1. p' \in [Procs \union Threads -> Doing]
      BY <1>1, <1>5, <2>3 DEF TypeOK, n
    <3> QED
      BY <1>1, <1>4, <2>1, <3>1 DEF TypeOK
  <2>6. OneTenantPerSlug'
    <3>1. \A i \in DOMAIN tenants : tenants[i] # p[c].slug
      BY <1>5 DEF Taken, Ids
    <3>2. \A i \in DOMAIN tenants' : i = n \/ i \in DOMAIN tenants
      BY <2>1 DEF n
    <3> QED
      BY <2>1, <3>1, <3>2 DEF Inv, OneTenantPerSlug
  <2>7. UsersInTheirTenant'
    BY <1>4, <2>1, <2>2 DEF Inv, UsersInTheirTenant
  <2>8. ASSUME NEW e \in Clis PROVE CliOK(p'[e], tenants')
    <3>1. e \in Procs /\ CliOK(p[e], tenants)
      BY DEF Procs, Inv
    <3>2. e # c => CliOK(p[e], tenants')
      BY <2>1, <2>2, <3>1 DEF CliOK, Belongs
    <3> QED
      BY <2>3, <2>4, <3>1, <3>2
  <2>9. ASSUME NEW e \in Threads PROVE ThreadOK(p'[e], tenants')
    <3>1. ThreadOK(p[e], tenants)
      BY DEF Inv
    <3>2. ThreadOK(p[e], tenants')
      BY <2>1, <2>2, <3>1 DEF ThreadOK, Belongs
    <3> QED
      BY <1>2, <2>4, <3>2
  <2>10. p'[Panel].slug \in Slugs
    BY <2>3, <2>4 DEF Procs, Inv
  <2> QED
    BY <2>5, <2>6, <2>7, <2>8, <2>9, <2>10 DEF Inv
<1>6. CASE /\ p' = [p EXCEPT ![c] = Ensured(c, LastRowid(c), LastRowid(c), p[c].lost)]
           /\ UNCHANGED tenants
  <2>1. LastRowid(c) \in Nat /\ p[c].lost \in BOOLEAN
    BY <1>1 DEF LastRowid, Doing
  <2>2. c \in Clis => LastRowid(c) = 0 \/ p[c].cmd # "user add"
    BY <1>3, <1>4 DEF LastRowid, CliOK
  <2>3. c = Panel \/ c \in Clis
    BY DEF Procs
  <2>4. /\ Ensured(c, LastRowid(c), LastRowid(c), p[c].lost) \in Doing
        /\ Ensured(c, LastRowid(c), LastRowid(c), p[c].lost).slug \in Slugs
        /\ c \in Clis => CliOK(Ensured(c, LastRowid(c), LastRowid(c), p[c].lost), tenants)
    <3>1. CASE c = Panel
      <4>1. Ensured(c, LastRowid(c), LastRowid(c), p[c].lost) = [NotBegun EXCEPT !.pc = "up"]
        BY <3>1 DEF Ensured
      <4> QED
        BY <3>1, <4>1, NotBegunFact, TenantsAssumption DEF Doing
    <3>2. CASE c \in Clis
      BY <1>1, <1>3, <1>4, <2>1, <2>2, <3>2, EnsuredFact
    <3> QED
      BY <2>3, <3>1, <3>2
  <2> QED
    BY <1>2, <1>4, <1>6, <2>4, OneMoves
<1>7. CASE /\ p' = [p EXCEPT ![c] = Ensured(c, Len(tenants) + 1, Len(tenants) + 1, TRUE)]
           /\ UNCHANGED tenants
  <2> DEFINE n == Len(tenants) + 1
  <2>1. n \in Nat
    BY <1>1, AppendFact
  <2> HIDE DEF n
  <2>2. /\ Ensured(c, n, n, TRUE) \in Doing
        /\ Ensured(c, n, n, TRUE).slug \in Slugs
        /\ c \in Clis => CliOK(Ensured(c, n, n, TRUE), tenants)
    BY <1>1, <1>3, <1>4, <2>1, EnsuredFact
  <2>3. p' = [p EXCEPT ![c] = Ensured(c, n, n, TRUE)]
    BY <1>7 DEF n
  <2> QED
    BY <1>2, <1>4, <1>7, <2>2, <2>3, OneMoves
<1> QED
  BY <1>5, <1>6, <1>7 DEF Insert

LEMMA RequestStep == ASSUME Inv, NEW c \in Threads, Request(c) PROVE Inv'
<1>1. c \notin Procs
  BY TenantsAssumption
<1>2. PICK header \in Labels \union {NoHeader}, host \in Hosts, name \in Names :
        p' = [p EXCEPT ![c] =
               Begun("lookup", "user add", Resolved(header, host), Default, name, FALSE)]
  BY DEF Request
<1> DEFINE d == Begun("lookup", "user add", Resolved(header, host), Default, name, FALSE)
<1>3. Resolved(header, host) \in Labels
  BY TenantsAssumption DEF Resolved
<1>4. d \in Doing /\ d.pc = "lookup" /\ d.lost = FALSE
  BY <1>3, TenantsAssumption DEF Begun, Doing
<1>5. ThreadOK(d, tenants)
  BY <1>4 DEF ThreadOK
<1>6. p' = [p EXCEPT ![c] = d] /\ UNCHANGED <<tenants, users>>
  BY <1>2 DEF Request
<1> HIDE DEF d
<1> QED
  BY <1>1, <1>4, <1>5, <1>6, OneMoves, TenantsAssumption DEF Procs

LEMMA ResolveStep == ASSUME Inv, NEW c \in Threads, Resolve(c) PROVE Inv'
<1>1. c \notin Procs /\ c \notin Clis
  BY TenantsAssumption DEF Procs
<1>2. p[c] \in Doing /\ TypeOK
  BY DEF Inv, TypeOK
<1>3. PICK id \in Found(c) :
        p' = [p EXCEPT ![c].pc = "create", ![c].tid = IF id = 0 THEN 1 ELSE id]
  BY DEF Resolve
<1>4. id \in Nat /\ (id = 0 \/ (id \in DOMAIN tenants /\ tenants[id] = p[c].slug))
  BY <1>2, FoundFact
<1> DEFINE d == [p[c] EXCEPT !.pc = "create", !.tid = IF id = 0 THEN 1 ELSE id]
<1>5. d \in Doing
  BY <1>2, <1>4 DEF Doing
<1>6. ThreadOK(d, tenants)
  BY <1>2, <1>4 DEF Inv, ThreadOK, Belongs, Doing
<1>7. p' = [p EXCEPT ![c] = d] /\ UNCHANGED <<tenants, users>>
  BY <1>2, <1>3 DEF Resolve, TypeOK
<1> HIDE DEF d
<1> QED
  BY <1>1, <1>5, <1>6, <1>7, OneMoves

\* REFERENCES tenants(id) rejects id 0, the only one that is not the tenant asked for as long as
\* no INSERT of the command was rolled back.
LEMMA CreateStep == ASSUME Inv, NEW c \in Clis \union Threads, Create(c) PROVE Inv'
<1> DEFINE row == [tid   |-> TenantOf(c), name |-> p[c].name,
                   by    |-> IF c \in Clis THEN "cli" ELSE "panel", asked |-> p[c].slug,
                   lost  |-> p[c].lost]
<1>1. c \in Procs \union Threads /\ p[c] \in Doing /\ p[c].pc = "create" /\ TypeOK
  BY DEF Inv, TypeOK, Procs, Create, At
<1>2. c \in Clis => CliOK(p[c], tenants)
  BY DEF Inv
<1>3. c \in Threads => ThreadOK(p[c], tenants)
  BY DEF Inv
<1>4. c \in Procs => c \in Clis
  BY TenantsAssumption DEF Procs
<1>5. c \in Threads <=> c \notin Clis
  BY TenantsAssumption DEF Procs
<1>6. UNCHANGED tenants
  BY DEF Create
<1>7. CASE /\ row.tid \in DOMAIN tenants
           /\ users' = users \union {row}
           /\ p' = [p EXCEPT ![c].pc = "done"]
  <2> DEFINE d == [p[c] EXCEPT !.pc = "done"]
  <2>1. /\ d \in Doing /\ d.slug = p[c].slug /\ d.cmd = p[c].cmd /\ d.tid = p[c].tid /\ d.pc = "done"
        /\ d.lost = p[c].lost
    BY <1>1 DEF Doing
  <2>2. c \in Clis => CliOK(d, tenants)
    BY <1>1, <1>2, <2>1 DEF CliOK, Belongs
  <2>3. c \in Threads => ThreadOK(d, tenants)
    BY <1>3, <2>1 DEF ThreadOK
  <2>4. p' \in [Procs \union Threads -> Doing]
    BY <1>1, <1>7, <2>1 DEF TypeOK
  <2>5. \A e \in Procs \union Threads : p'[e] = IF e = c THEN d ELSE p[e]
    BY <1>1, <1>7 DEF TypeOK
  <2>6. row \in User
    BY <1>1 DEF User, Doing, TenantOf
  <2>7. TypeOK'
    BY <1>1, <1>6, <1>7, <2>4, <2>6 DEF TypeOK
  <2>8. \/ tenants[row.tid] = row.asked
        \/ row.by = "panel" /\ row.tid = 1
        \/ row.by = "cli" /\ row.lost
    <3>1. row.tid = p[c].tid /\ row.asked = p[c].slug /\ row.lost = p[c].lost /\ p[c].tid # 0
      <4>1. 0 \notin DOMAIN tenants
        BY <1>1 DEF TypeOK
      <4> QED
        BY <1>7, <4>1 DEF TenantOf
    <3>2. CASE c \in Clis
      <4>1. p[c].cmd = "user add"
        BY <1>1, <1>2, <3>2 DEF CliOK
      <4> QED
        BY <1>1, <1>2, <3>1, <3>2, <4>1 DEF CliOK, Belongs
    <3>3. CASE c \in Threads
      BY <1>1, <1>3, <1>5, <3>1, <3>3 DEF ThreadOK, Belongs
    <3> QED
      BY <3>2, <3>3
  <2>9. UsersInTheirTenant'
    BY <1>6, <1>7, <2>8 DEF Inv, UsersInTheirTenant
  <2>10. (\A e \in Clis : CliOK(p'[e], tenants)) /\ (\A e \in Threads : ThreadOK(p'[e], tenants))
    BY <2>2, <2>3, <2>5 DEF Inv, Procs
  <2>11. p'[Panel].slug \in Slugs
    BY <1>2, <1>4, <2>1, <2>5, TenantsAssumption DEF Inv, Procs
  <2> QED
    BY <1>6, <2>7, <2>9, <2>10, <2>11 DEF Inv, OneTenantPerSlug
<1>8. CASE p' = Idle(c) /\ UNCHANGED users
  BY <1>1, <1>6, <1>8, OneMoves, NotBegunFact, IdleFact DEF Idle
<1> QED
  BY <1>7, <1>8 DEF Create

LEMMA DoneStep == ASSUME Inv, NEW c \in Clis \union Threads, Done(c) PROVE Inv'
BY OneMoves, NotBegunFact, IdleFact DEF Done, Idle, Procs

LEMMA EndsStep == ASSUME Inv, NEW c \in Procs, Ends(c) PROVE Inv'
<1>1. p \in [Procs \union Threads -> Doing]
  BY DEF Inv, TypeOK
<1>2. p' = [e \in Procs \union Threads |-> IF ProcessOf(e) = c THEN NotBegun ELSE p[e]]
  BY <1>1 DEF Ends
<1>3. p' \in [Procs \union Threads -> Doing]
  BY <1>1, <1>2, NotBegunFact
<1>4. \A e \in Clis : CliOK(p'[e], tenants)
  BY <1>2, IdleFact DEF Inv, Procs
<1>5. \A e \in Threads : ThreadOK(p'[e], tenants)
  BY <1>2, IdleFact DEF Inv
<1>6. p'[Panel].slug \in Slugs
  BY <1>2, NotBegunFact DEF Inv, Procs
<1> QED
  BY <1>3, <1>4, <1>5, <1>6, TablesKept DEF Ends

LEMMA Inductive == Inv /\ [Next]_vars => Inv'
<1> SUFFICES ASSUME Inv, [Next]_vars PROVE Inv'
  OBVIOUS
<1>1. CASE UNCHANGED vars
  BY <1>1 DEF vars, Inv, TypeOK, OneTenantPerSlug, UsersInTheirTenant
<1>2. CASE Next
  BY <1>2, LaunchStep, LaunchPanelStep, MigrateStep, LookupStep, InsertStep, RequestStep,
     ResolveStep, CreateStep, DoneStep, EndsStep DEF Next, Procs
<1> QED
  BY <1>1, <1>2

THEOREM Invariance == Spec => []Inv
<1>1. Init => Inv
  BY InvInit
<1>2. Inv /\ [Next]_vars => Inv'
  BY Inductive
<1> QED
  BY <1>1, <1>2, PTL DEF Spec

-----------------------------------------------------------------------------
\* The types of the tables and of what each process does, for any processes and slugs.
THEOREM TypeCorrect == Spec => []TypeOK
<1>1. Inv => TypeOK
  BY DEF Inv
<1> QED
  BY <1>1, Invariance, PTL

\* ensure_tenant looks and inserts in two statements; whatever comes in between, in any number of
\* processes, no slug gets a second row.
THEOREM TenantsAreUnique == Spec => []OneTenantPerSlug
<1>1. Inv => OneTenantPerSlug
  BY DEF Inv
<1> QED
  BY <1>1, Invariance, PTL

\* No user is added to a tenant other than the one asked for, or tenant 1 by the panel, though
\* every result of an INSERT is ignored, unless the INSERT was rolled back at its commit.
THEOREM UsersStayInTheirTenant == Spec => []UsersInTheirTenant
<1>1. Inv => UsersInTheirTenant
  BY DEF Inv
<1> QED
  BY <1>1, Invariance, PTL

-----------------------------------------------------------------------------
(***************************************************************************)
(* What a command has done when it says so.  A command that is alone finds *)
(* its tenant or inserts it, because nobody else can refuse it or get in   *)
(* between; "user add" has its user in any case, for create_user does look *)
(* at its result, and in the right tenant if no INSERT was rolled back.    *)
(***************************************************************************)
IdsIn(table, slug) == {i \in DOMAIN table : table[i] = slug}

AloneOK(c) ==
  p[c].alone /\ p[c].pc # "idle" =>
    /\ \A q \in Procs \ {c} : p[q].pc = "idle"
    /\ p[c].lost = FALSE
    /\ p[c].pc = "insert" => Ids(p[c].slug) = {}
    /\ p[c].pc = "done" => p[c].tid \in Ids(p[c].slug)

AddedOK(c) ==
  p[c].pc = "done" /\ p[c].cmd = "user add" =>
    /\ ~p[c].lost => p[c].tid \in Ids(p[c].slug)
    /\ \E u \in users : u.tid = p[c].tid /\ u.name = p[c].name

CommandOK(c) == AloneOK(c) /\ AddedOK(c)

\* A step of somebody else: nothing is taken from a table, and what c does stays, except that it
\* may no longer be alone.
LEMMA Bystander ==
  ASSUME Inv, NEW c \in Clis, CommandOK(c), users \subseteq users',
         tenants' = tenants \/ \E slug \in Slugs : tenants' = Append(tenants, slug),
         \/ p'[c] = [p[c] EXCEPT !.alone = FALSE]
         \/ p'[c] = p[c] /\ (p[c].pc = "idle" \/ p[c].alone = FALSE)
         \/ /\ p'[c] = p[c] /\ tenants' = tenants
            /\ \A q \in Procs \ {c} : p[q].pc = "idle" => p'[q].pc = "idle"
  PROVE  CommandOK(c)'
<1>1. p[c] \in Doing
  BY DEF Inv, TypeOK, Procs
<1>2. ASSUME NEW i \in Ids(p[c].slug) PROVE i \in DOMAIN tenants' /\ tenants'[i] = p[c].slug
  <2>1. i \in DOMAIN tenants /\ tenants[i] = p[c].slug
    BY DEF Ids
  <2>2. CASE tenants' = tenants
    BY <2>1, <2>2
  <2>3. ASSUME NEW slug \in Slugs, tenants' = Append(tenants, slug)
        PROVE  i \in DOMAIN tenants' /\ tenants'[i] = p[c].slug
    BY <2>1, <2>3, AppendFact DEF Inv
  <2> QED
    BY <2>2, <2>3
<1>3. /\ p'[c].pc = p[c].pc /\ p'[c].cmd = p[c].cmd /\ p'[c].tid = p[c].tid
      /\ p'[c].slug = p[c].slug /\ p'[c].name = p[c].name /\ p'[c].lost = p[c].lost
      /\ p'[c] = p[c] \/ p'[c].alone = FALSE
  BY <1>1 DEF Doing
<1>4. AddedOK(c)'
  BY <1>2, <1>3 DEF CommandOK, AddedOK, Ids
<1>5. AloneOK(c)'
  <2> SUFFICES ASSUME p'[c].alone, p'[c].pc # "idle" PROVE AloneOK(c)'
    BY DEF AloneOK
  <2>1. p'[c].alone # FALSE
    OBVIOUS
  <2>2. /\ p'[c] = p[c] /\ tenants' = tenants
        /\ \A q \in Procs \ {c} : p[q].pc = "idle" => p'[q].pc = "idle"
    BY <1>1, <1>3, <2>1 DEF Doing
  <2> QED
    BY <2>2 DEF CommandOK, AloneOK, Ids
<1> QED
  BY <1>4, <1>5 DEF CommandOK

\* What c does itself: d is what its record becomes.
LEMMA OwnStep ==
  ASSUME Inv, NEW c \in Clis, CommandOK(c), p[c].pc # "idle", NEW d, p' = [p EXCEPT ![c] = d],
         d.pc # "idle" /\ d.alone => p[c].alone /\ d.lost = FALSE,
         d.alone /\ d.pc = "insert" => IdsIn(tenants', d.slug) = {},
         d.pc = "done" =>
           /\ d.alone \/ (d.cmd = "user add" /\ ~d.lost) => d.tid \in IdsIn(tenants', d.slug)
           /\ d.cmd = "user add" => \E u \in users' : u.tid = d.tid /\ u.name = d.name
  PROVE  CommandOK(c)'
<1>1. p'[c] = d /\ \A q \in Procs \ {c} : p'[q] = p[q]
  BY DEF Inv, TypeOK, Procs
<1>2. AddedOK(c)'
  BY <1>1 DEF AddedOK, Ids, IdsIn
<1>3. AloneOK(c)'
  BY <1>1 DEF CommandOK, AloneOK, Ids, IdsIn
<1> QED
  BY <1>2, <1>3 DEF CommandOK

\* What follows on the id of the tenant, for a CLI process.
LEMMA EnsuredCli ==
  ASSUME TypeOK, NEW c \in Clis, NEW id, NEW row, NEW lost
  PROVE  /\ Ensured(c, id, row, lost).alone = p[c].alone
         /\ Ensured(c, id, row, lost).lost = lost
         /\ Ensured(c, id, row, lost).pc \in {"create", "ensure", "done"}
         /\ Ensured(c, id, row, lost).pc = "done" => /\ Ensured(c, id, row, lost).cmd = "ensured"
                                               /\ Ensured(c, id, row, lost).tid = id
                                               /\ Ensured(c, id, row, lost).slug = p[c].slug
<1>1. p[c] \in Doing /\ c # Panel
  BY TenantsAssumption DEF TypeOK, Procs
<1>2. CASE p[c].cmd = "user add"
  <2>1. Ensured(c, id, row, lost) = [p[c] EXCEPT !.tid = id, !.rowid = row, !.lost = lost, !.pc = "create"]
    BY <1>1, <1>2 DEF Ensured, Doing
  <2> QED
    BY <1>1, <2>1 DEF Doing
<1>3. CASE p[c].cmd = "tenant add"
  <2>1. Ensured(c, id, row, lost) =
          [p[c] EXCEPT !.tid = id, !.rowid = row, !.lost = lost, !.pc = "ensure",
                       !.cmd = "ensured", !.slug = p[c].named]
    BY <1>1, <1>3 DEF Ensured, Doing
  <2> QED
    BY <1>1, <2>1 DEF Doing
<1>4. CASE p[c].cmd = "ensured"
  <2>1. Ensured(c, id, row, lost) = [p[c] EXCEPT !.tid = id, !.rowid = row, !.lost = lost, !.pc = "done"]
    BY <1>1, <1>4 DEF Ensured, Doing
  <2> QED
    BY <1>1, <1>4, <2>1 DEF Doing
<1> QED
  BY <1>1, <1>2, <1>3, <1>4 DEF Doing

\* Nobody refuses a statement of a command that is alone.
LEMMA AloneFinds ==
  ASSUME TypeOK, NEW c \in Clis, AloneOK(c), p[c].alone, p[c].pc # "idle"
  PROVE  /\ Rivals(c) = {}
         /\ \A id \in Found(c) : /\ id = 0 => Ids(p[c].slug) = {}
                                 /\ id # 0 => id \in Ids(p[c].slug)
<1>1. ProcessOf(c) = c
  BY TenantsAssumption DEF ProcessOf, Procs
<1>2. Rivals(c) = {}
  BY <1>1 DEF AloneOK, Rivals, At
<1>3. 0 \notin DOMAIN tenants
  BY DEF TypeOK
<1> QED
  BY <1>2, <1>3 DEF Found, Contended, Ids

LEMMA OwnFinding ==
  ASSUME Inv, NEW c \in Clis, CommandOK(c), Lookup(c) \/ Ensure(c)
  PROVE  CommandOK(c)'
<1>1. PICK id \in Found(c), next \in {"ensure", "insert"} :
        /\ p' = [p EXCEPT ![c] = IF id = 0 THEN [p[c] EXCEPT !.pc = next]
                                           ELSE Ensured(c, id, p[c].rowid, p[c].lost)]
        /\ p[c].pc \in {"lookup", "ensure"}
        /\ UNCHANGED <<tenants, users>>
  BY DEF Lookup, Ensure, At
<1>2. TypeOK /\ p[c] \in Doing /\ AloneOK(c)
  BY DEF Inv, TypeOK, Procs, CommandOK
<1>3. CASE id = 0
  <2> DEFINE d == [p[c] EXCEPT !.pc = next]
  <2>1. /\ d.pc = next /\ d.alone = p[c].alone /\ d.slug = p[c].slug /\ d.lost = p[c].lost
        /\ p' = [p EXCEPT ![c] = d]
    BY <1>1, <1>2, <1>3 DEF Doing
  <2> HIDE DEF d
  <2>2. d.alone => IdsIn(tenants', d.slug) = {}
    <3> SUFFICES ASSUME d.alone PROVE IdsIn(tenants', d.slug) = {}
      OBVIOUS
    <3>1. p[c].alone /\ p[c].pc # "idle"
      BY <1>1, <2>1
    <3>2. Ids(p[c].slug) = {}
      BY <1>1, <1>2, <1>3, <3>1, AloneFinds
    <3> QED
      BY <1>1, <2>1, <3>2 DEF Ids, IdsIn
  <2> QED
    BY <1>1, <1>2, <2>1, <2>2, OwnStep DEF AloneOK
<1>4. CASE id # 0
  <2> DEFINE d == Ensured(c, id, p[c].rowid, p[c].lost)
  <2>1. /\ d.alone = p[c].alone
        /\ d.pc \in {"create", "ensure", "done"}
        /\ d.pc = "done" => d.cmd = "ensured" /\ d.tid = id /\ d.slug = p[c].slug
        /\ d.lost = p[c].lost
    BY <1>2, EnsuredCli
  <2>2. p' = [p EXCEPT ![c] = d]
    BY <1>1, <1>4
  <2> HIDE DEF d
  <2>3. d.pc = "done" /\ d.alone => d.tid \in IdsIn(tenants', d.slug)
    BY <1>1, <1>2, <1>4, <2>1, AloneFinds DEF Ids, IdsIn
  <2> QED
    BY <1>1, <1>2, <2>1, <2>2, <2>3, OwnStep DEF AloneOK
<1> QED
  BY <1>3, <1>4

LEMMA OwnInsert ==
  ASSUME Inv, NEW c \in Clis, CommandOK(c), Insert(c)
  PROVE  CommandOK(c)'
<1>1. TypeOK /\ p[c] \in Doing /\ AloneOK(c) /\ p[c].pc = "insert" /\ p[c].slug \in Slugs
  BY SlugFact DEF Inv, TypeOK, Procs, CommandOK, Insert, At
<1>2. CASE /\ tenants' = Append(tenants, p[c].slug)
           /\ p' = [p EXCEPT ![c] = Ensured(c, Len(tenants) + 1, Len(tenants) + 1, p[c].lost)]
  <2> DEFINE n == Len(tenants) + 1
             d == Ensured(c, n, n, p[c].lost)
  <2>1. /\ d.alone = p[c].alone
        /\ d.pc \in {"create", "ensure", "done"}
        /\ d.pc = "done" => d.cmd = "ensured" /\ d.tid = n /\ d.slug = p[c].slug
        /\ d.lost = p[c].lost
    BY <1>1, EnsuredCli
  <2>2. n \in DOMAIN tenants' /\ tenants'[n] = p[c].slug
    BY <1>1, <1>2, AppendFact
  <2>3. p' = [p EXCEPT ![c] = d]
    BY <1>2
  <2> HIDE DEF d, n
  <2>4. d.pc = "done" => d.tid \in IdsIn(tenants', d.slug)
    BY <2>1, <2>2 DEF Ids, IdsIn
  <2> QED
    BY <1>1, <2>1, <2>3, <2>4, OwnStep DEF AloneOK
<1>3. CASE /\ Taken(p[c].slug) \/ Contended(c)
           /\ p' = [p EXCEPT ![c] = Ensured(c, LastRowid(c), LastRowid(c), p[c].lost)]
  <2> DEFINE d == Ensured(c, LastRowid(c), LastRowid(c), p[c].lost)
  <2>1. /\ d.alone = p[c].alone
        /\ d.pc \in {"create", "ensure", "done"}
        /\ d.pc = "done" => d.cmd = "ensured"
    BY <1>1, EnsuredCli
  <2>2. ~p[c].alone
    BY <1>1, <1>3, AloneFinds DEF AloneOK, Taken, Contended
  <2>3. p' = [p EXCEPT ![c] = d]
    BY <1>3
  <2> HIDE DEF d
  <2> QED
    BY <1>1, <2>1, <2>2, <2>3, OwnStep
<1>4. CASE /\ Contended(c)
           /\ p' = [p EXCEPT ![c] = Ensured(c, Len(tenants) + 1, Len(tenants) + 1, TRUE)]
  <2> DEFINE d == Ensured(c, Len(tenants) + 1, Len(tenants) + 1, TRUE)
  <2>1. /\ d.alone = p[c].alone
        /\ d.pc \in {"create", "ensure", "done"}
        /\ d.pc = "done" => d.cmd = "ensured"
    <3> DEFINE n == Len(tenants) + 1
    <3> HIDE DEF n
    <3>1. \A lost : LET e == Ensured(c, n, n, lost)
                    IN /\ e.alone = p[c].alone
                       /\ e.pc \in {"create", "ensure", "done"}
                       /\ e.pc = "done" => e.cmd = "ensured"
      BY <1>1, EnsuredCli
    <3> QED
      BY <3>1 DEF n
  <2>2. ~p[c].alone
    BY <1>1, <1>4, AloneFinds DEF Contended
  <2>3. p' = [p EXCEPT ![c] = d]
    BY <1>4
  <2> HIDE DEF d
  <2> QED
    BY <1>1, <2>1, <2>2, <2>3, OwnStep
<1> QED
  BY <1>2, <1>3, <1>4 DEF Insert

LEMMA OwnCreate ==
  ASSUME Inv, Inv', NEW c \in Clis, CommandOK(c), Create(c)
  PROVE  CommandOK(c)'
<1>1. p[c] \in Doing /\ p[c].pc = "create" /\ CliOK(p[c], tenants)
  BY DEF Inv, TypeOK, Procs, Create, At
<1>2. CASE p' = Idle(c)
  BY <1>1, <1>2, NotBegunFact, OwnStep DEF Idle
<1>3. CASE /\ TenantOf(c) \in DOMAIN tenants
           /\ users' = users \union {[tid   |-> TenantOf(c), name |-> p[c].name,
                                      by    |-> IF c \in Clis THEN "cli" ELSE "panel",
                                      asked |-> p[c].slug,
                                      lost  |-> p[c].lost]}
           /\ p' = [p EXCEPT ![c].pc = "done"]
           /\ tenants' = tenants
  <2> DEFINE d == [p[c] EXCEPT !.pc = "done"]
  <2>1. /\ d.pc = "done" /\ d.alone = p[c].alone /\ d.tid = p[c].tid /\ d.slug = p[c].slug
        /\ d.name = p[c].name /\ d.lost = p[c].lost /\ p' = [p EXCEPT ![c] = d]
    BY <1>1, <1>3 DEF Doing
  <2> HIDE DEF d
  <2>2. p[c].tid \in DOMAIN tenants /\ p[c].tid # 0
    BY <1>3 DEF TenantOf, Inv, TypeOK
  <2>3. ~d.lost => d.tid \in IdsIn(tenants', d.slug)
    BY <1>1, <1>3, <2>1, <2>2 DEF CliOK, Belongs, IdsIn
  <2>5. d.alone => p[c].alone /\ d.lost = FALSE
    BY <1>1, <2>1 DEF CommandOK, AloneOK
  <2>4. \E u \in users' : u.tid = d.tid /\ u.name = d.name
    <3> DEFINE row == [tid   |-> TenantOf(c), name |-> p[c].name,
                       by    |-> IF c \in Clis THEN "cli" ELSE "panel",
                       asked |-> p[c].slug,
                       lost  |-> p[c].lost]
    <3>1. row \in users'
      BY <1>3
    <3>2. row.tid = d.tid /\ row.name = d.name
      BY <2>1 DEF TenantOf
    <3> HIDE DEF row
    <3> QED
      BY <3>1, <3>2
  <2> QED
    BY <1>1, <2>1, <2>3, <2>4, <2>5, OwnStep
<1> QED
  BY <1>2, <1>3 DEF Create

\* A command that begins, or ends, has done nothing yet.
LEMMA OwnOther ==
  ASSUME Inv, NEW c \in Clis, CommandOK(c), Launch(c) \/ Migrate(c) \/ Done(c) \/ Ends(c)
  PROVE  CommandOK(c)'
<1>1. p \in [Procs \union Threads -> Doing] /\ c \in Procs /\ c \notin Threads /\ c # Panel
  BY TenantsAssumption DEF Inv, TypeOK, Procs
<1>2. p[c] \in Doing
  BY <1>1
<1>3. CASE Launch(c)
  <2>0. PICK cmd, slug, named, name :
          Starts(c, Begun("migrate", cmd, slug, named, name, Rivals(c) = {}))
    BY <1>3 DEF Launch
  <2>1. PICK d : Starts(c, d) /\ d = Begun("migrate", cmd, slug, named, name, Rivals(c) = {})
    BY <2>0
  <2>2. d.pc = "migrate" /\ d.lost = FALSE /\ (d.alone => Rivals(c) = {})
    BY <2>1 DEF Begun
  <2>3. p' = [e \in Procs \union Threads |-> IF e = c THEN d ELSE [p[e] EXCEPT !.alone = FALSE]]
    BY <1>1, <2>1 DEF Starts
  <2>4. p'[c] = d /\ \A q \in Procs \ {c} : p'[q].pc = p[q].pc
    BY <1>1, <2>3 DEF Doing
  <2>5. Rivals(c) = {} => \A q \in Procs \ {c} : p[q].pc = "idle"
    BY <1>1 DEF Rivals, ProcessOf, At
  <2> QED
    BY <2>2, <2>4, <2>5 DEF CommandOK, AloneOK, AddedOK
<1>4. CASE Migrate(c)
  <2>1. p[c].pc = "migrate"
    BY <1>4 DEF Migrate, At
  <2>2. CASE p' = Idle(c)
    BY <2>1, <2>2, NotBegunFact, OwnStep DEF Idle
  <2>3. CASE p' = [p EXCEPT ![c].pc = IF c = Panel THEN "ensure" ELSE "lookup"]
    <3> DEFINE d == [p[c] EXCEPT !.pc = "lookup"]
    <3>1. d.pc = "lookup" /\ d.alone = p[c].alone /\ d.lost = p[c].lost /\ p' = [p EXCEPT ![c] = d]
      BY <1>1, <1>2, <2>3 DEF Doing
    <3> HIDE DEF d
    <3> QED
      BY <2>1, <3>1, OwnStep DEF CommandOK, AloneOK
  <2> QED
    BY <1>4, <2>2, <2>3 DEF Migrate
<1>5. CASE Done(c) \/ Ends(c)
  <2>1. p'[c] = NotBegun
    BY <1>1, <1>5 DEF Done, Idle, Ends, ProcessOf
  <2> QED
    BY <2>1, NotBegunFact DEF CommandOK, AloneOK, AddedOK
<1> QED
  BY <1>3, <1>4, <1>5

\* A process or thread other than c changes nothing of what c does, unless it starts.
LEMMA OtherSteps ==
  ASSUME Inv, NEW c \in Clis, CommandOK(c), NEW e \in Procs \union Threads, e # c,
         \/ LaunchPanel
         \/ e \in Clis /\ (Launch(e) \/ Lookup(e))
         \/ e \in Procs /\ (Migrate(e) \/ Ensure(e) \/ Insert(e) \/ Ends(e))
         \/ e \in Threads /\ (Request(e) \/ Resolve(e))
         \/ e \in Clis \union Threads /\ (Create(e) \/ Done(e))
  PROVE  CommandOK(c)'
<1>1. /\ p \in [Procs \union Threads -> Doing] /\ c \in Procs /\ c \notin Threads /\ c # Panel
      /\ Panel \in Procs /\ Procs \intersect Threads = {}
  BY TenantsAssumption DEF Inv, TypeOK, Procs
<1>2. ASSUME NEW q \in Procs, NEW d, q # c, Starts(q, d), UNCHANGED <<tenants, users>>
      PROVE  CommandOK(c)'
  <2>1. p'[c] = [p[c] EXCEPT !.alone = FALSE]
    BY <1>1, <1>2 DEF Starts
  <2> QED
    BY <1>2, <2>1, Bystander
<1>3. CASE LaunchPanel \/ (e \in Clis /\ Launch(e))
  BY <1>1, <1>2, <1>3 DEF Launch, LaunchPanel, Procs
<1>4. ASSUME e \in Procs, p[e].pc # "idle", NEW d, p' = [p EXCEPT ![e] = d], users' = users \/ Create(e),
             tenants' = tenants \/ \E slug \in Slugs : tenants' = Append(tenants, slug)
      PROVE  CommandOK(c)'
  <2>1. p'[c] = p[c]
    BY <1>1, <1>4
  <2>2. p[c].pc = "idle" \/ p[c].alone = FALSE
    BY <1>1, <1>4 DEF CommandOK, AloneOK, Doing
  <2>3. users \subseteq users'
    BY <1>4 DEF Create
  <2> QED
    BY <1>4, <2>1, <2>2, <2>3, Bystander
<1>5. CASE e \in Procs /\ (Migrate(e) \/ Ensure(e) \/ Insert(e))
  <2>1. CASE Migrate(e)
    <3>1. PICK d : p' = [p EXCEPT ![e] = d]
      BY <2>1 DEF Migrate, Idle
    <3> QED
      BY <1>4, <1>5, <2>1, <3>1 DEF Migrate, At
  <2>2. CASE Ensure(e)
    <3>1. PICK d : p' = [p EXCEPT ![e] = d]
      BY <2>2 DEF Ensure
    <3> QED
      BY <1>4, <1>5, <2>2, <3>1 DEF Ensure, At
  <2>3. CASE Insert(e)
    <3>1. PICK d : p' = [p EXCEPT ![e] = d]
      BY <2>3 DEF Insert
    <3>2. p[e].slug \in Slugs
      BY <1>5, SlugFact
    <3> QED
      BY <1>4, <1>5, <2>3, <3>1, <3>2 DEF Insert, At
  <2> QED
    BY <1>5, <2>1, <2>2, <2>3
<1>6. CASE e \in Clis /\ (Lookup(e) \/ Create(e) \/ Done(e))
  <2>1. PICK d : p' = [p EXCEPT ![e] = d]
    BY <1>6 DEF Lookup, Create, Done, Idle
  <2>2. p[e].pc # "idle" /\ e \in Procs /\ (users' = users \/ Create(e)) /\ tenants' = tenants
    BY <1>6 DEF Lookup, Create, Done, At, Procs
  <2> QED
    BY <1>4, <2>1, <2>2
<1>7. CASE e \in Threads /\ (Request(e) \/ Resolve(e) \/ Create(e) \/ Done(e))
  <2>1. PICK d : p' = [p EXCEPT ![e] = d]
    BY <1>7 DEF Request, Resolve, Create, Done, Idle
  <2>2. \A q \in Procs : p'[q] = p[q]
    BY <1>1, <1>7, <2>1
  <2>3. users \subseteq users' /\ tenants' = tenants
    BY <1>7 DEF Request, Resolve, Create, Done
  <2> QED
    BY <1>1, <2>2, <2>3, Bystander
<1>8. CASE e \in Procs /\ Ends(e)
  <2>1. p' = [d \in Procs \union Threads |-> IF ProcessOf(d) = e THEN NotBegun ELSE p[d]]
    BY <1>1, <1>8 DEF Ends
  <2>2. p'[c] = p[c] /\ \A q \in Procs : p[q].pc = "idle" => p'[q].pc = "idle"
    BY <1>1, <2>1, NotBegunFact DEF ProcessOf
  <2> QED
    BY <1>8, <2>2, Bystander DEF Ends
<1> QED
  BY <1>3, <1>5, <1>6, <1>7, <1>8

LEMMA CommandInvariance == Spec => [](\A c \in Clis : CommandOK(c))
<1> DEFINE C == \A c \in Clis : CommandOK(c)
<1>1. Init => C
  BY NotBegunFact DEF Init, CommandOK, AloneOK, AddedOK, Procs
<1>2. Inv /\ Inv' /\ C /\ [Next]_vars => C'
  <2> SUFFICES ASSUME Inv, Inv', C, [Next]_vars, NEW c \in Clis PROVE CommandOK(c)'
    OBVIOUS
  <2>1. CASE UNCHANGED vars
    BY <2>1 DEF vars, CommandOK, AloneOK, AddedOK, Ids
  <2>2. CASE Next
    <3>1. Panel # c /\ c \notin Threads
      BY TenantsAssumption DEF Procs
    <3>2. CASE LaunchPanel
      BY <3>1, <3>2, OtherSteps DEF Procs
    <3>3. ASSUME NEW e \in Clis, Launch(e) \/ Lookup(e) PROVE CommandOK(c)'
      BY <3>3, OwnOther, OwnFinding, OtherSteps DEF Procs
    <3>4. ASSUME NEW e \in Procs, Migrate(e) \/ Ensure(e) \/ Insert(e) \/ Ends(e)
          PROVE  CommandOK(c)'
      BY <3>4, OwnOther, OwnFinding, OwnInsert, OtherSteps
    <3>5. ASSUME NEW e \in Threads, Request(e) \/ Resolve(e) PROVE CommandOK(c)'
      BY <3>1, <3>5, OtherSteps
    <3>6. ASSUME NEW e \in Clis \union Threads, Create(e) \/ Done(e) PROVE CommandOK(c)'
      BY <3>6, OwnCreate, OwnOther, OtherSteps DEF Procs
    <3> QED
      BY <2>2, <3>2, <3>3, <3>4, <3>5, <3>6 DEF Next
  <2> QED
    BY <2>1, <2>2
<1> QED
  BY <1>1, <1>2, Invariance, PTL DEF Spec

\* A command that reports success has had the effect it reports: "user add" whatever other
\* processes do, as far as no INSERT INTO tenants of it is rolled back, "tenant add" if it had
\* the database to itself.
THEOREM CommandsTakeEffect == Spec => []CommandTakesEffect
<1>1. (\A c \in Clis : CommandOK(c)) => CommandTakesEffect
  <2> SUFFICES ASSUME NEW c \in Clis, CommandOK(c), p[c].pc = "done"
               PROVE  /\ (p[c].cmd = "user add" /\ ~p[c].lost) \/ p[c].alone => p[c].tid \in Ids(p[c].slug)
                      /\ p[c].cmd = "user add" =>
                           \E u \in users : <<u.tid, u.name>> = <<p[c].tid, p[c].name>>
    BY DEF CommandTakesEffect, At
  <2> QED
    BY DEF CommandOK, AloneOK, AddedOK
<1> QED
  BY <1>1, CommandInvariance, PTL
=============================================================================
