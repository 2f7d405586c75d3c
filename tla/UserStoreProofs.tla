-------------------------- MODULE UserStoreProofs --------------------------
(***************************************************************************)
(* Proofs about UserStore, for any number of handler threads and CLI       *)
(* processes, slugs, tenants, names and requests.                          *)
(***************************************************************************)
EXTENDS UserStore, TLAPS

-----------------------------------------------------------------------------
\* Besides the types: a handler serves one of the requests its client may issue, and has read
\* a row before it executes the UPDATE of a patch.
TypeInv ==
  /\ TypeOK
  /\ \A c \in Clients : h[c].pc # "idle" => h[c].req \in Asks[c]
  /\ \A c \in Clients : At(c, "patch", "exec") => h[c].read \in Row

\* The request of a busy handler, and the key of its row.
LEMMA BusyHandler ==
  ASSUME TypeInv, NEW c \in Clients, h[c].pc # "idle"
  PROVE  /\ h[c].req \in Asks[c]
         /\ h[c].req \in RequestType
         /\ h[c].req.slug \in Slugs
         /\ Key(c) \in Keys
<1>1. h[c].req \in Asks[c] /\ h[c].req \in RequestType
  BY StoreAssumption DEF TypeInv
<1>2. h[c].tid \in Ids
  BY DEF TypeInv, TypeOK, Handler
<1> QED
  BY <1>1, <1>2 DEF Key, Keys, RequestType

LEMMA ConnFact ==
  ASSUME NEW c \in Clients
  PROVE  ConnOf[c] \in Conns
BY DEF Conns

\* A step of one client: its handler moves to step p, the other handlers stay where they are.
Moves(c, p) ==
  /\ h' \in [Clients -> Handler]
  /\ h'[c].pc = p
  /\ \A d \in Clients \ {c} : h'[d] = h[d]

LEMMA MovesWithRequest ==
  ASSUME TypeOK, NEW c \in Clients, NEW p \in Steps, NEW r \in RequestType,
         h' = [h EXCEPT ![c].pc = p, ![c].req = r]
  PROVE  Moves(c, p) /\ h'[c].req = r
BY DEF Moves, TypeOK, Handler

LEMMA MovesOn ==
  ASSUME TypeOK, NEW c \in Clients, NEW p \in Steps, h' = [h EXCEPT ![c].pc = p]
  PROVE  Moves(c, p) /\ h'[c] = [h[c] EXCEPT !.pc = p]
BY DEF Moves, TypeOK, Handler

LEMMA MovesTo ==
  ASSUME TypeOK, NEW c \in Clients, NEW g \in Handler, h' = [h EXCEPT ![c] = g]
  PROVE  Moves(c, g.pc) /\ h'[c] = g
BY DEF Moves, TypeOK

LEMMA MovesWithRow ==
  ASSUME TypeOK, NEW c \in Clients, NEW p \in Steps, NEW row \in Row,
         h' = [h EXCEPT ![c].pc = p, ![c].read = row]
  PROVE  /\ Moves(c, p) /\ h'[c].read = row
         /\ h'[c].req = h[c].req /\ h'[c].tid = h[c].tid /\ h'[c].via = h[c].via
BY DEF Moves, TypeOK, Handler

LEMMA MovesWithOutcome ==
  ASSUME TypeOK, NEW c \in Clients, NEW p \in Steps, NEW o \in Outcomes,
         h' = [h EXCEPT ![c].pc = p, ![c].outcome = o]
  PROVE  /\ Moves(c, p) /\ h'[c].outcome = o
         /\ h'[c].req = h[c].req /\ h'[c].tid = h[c].tid /\ h'[c].via = h[c].via
BY DEF Moves, TypeOK, Handler

LEMMA MovesWithList ==
  ASSUME TypeOK, NEW c \in Clients, NEW p \in Steps, NEW S \in SUBSET Keys,
         h' = [h EXCEPT ![c].pc = p, ![c].listed = S]
  PROVE  /\ Moves(c, p) /\ h'[c].listed = S
         /\ h'[c].req = h[c].req /\ h'[c].tid = h[c].tid /\ h'[c].via = h[c].via
<1> DEFINE Lists == SUBSET Keys
           Reqs  == RequestType \union {Nullopt}
           Rows  == Row \union {NoRow}
<1>1. Handler = [pc : Steps, req : Reqs, tid : Ids, via : Vias, read : Rows, outcome : Outcomes,
                 listed : Lists]
  BY DEF Handler
<1>2. h \in [Clients -> Handler] /\ S \in Lists
  BY DEF TypeOK
<1> HIDE DEF Lists, Reqs, Rows
<1> QED
  BY <1>1, <1>2 DEF Moves

LEMMA MovesToIdle ==
  ASSUME TypeOK, NEW c \in Clients, h' = [h EXCEPT ![c] = Idle]
  PROVE  Moves(c, "idle")
<1>1. Idle \in Handler /\ Idle.pc = "idle"
  BY StoreAssumption DEF Idle, Handler, Steps, Vias, Outcomes, Ids, NoTenant
<1> QED
  BY <1>1 DEF Moves, TypeOK

(***************************************************************************)
(* The statements that look for the tenant or create it: how c comes by    *)
(* its tenant id.                                                          *)
(***************************************************************************)
SlugOf(c) == h[c].req.slug

Found(c) ==
  \/ /\ h'[c].via = "named" /\ h'[c].tid = idOf[SlugOf(c)] /\ h'[c].tid # NoTenant
     /\ UNCHANGED <<idOf, changes>>
  \/ /\ h'[c].via = "fallback" /\ h'[c].tid = FallbackTenant /\ ConnOf[c] = PanelConn
     /\ UNCHANGED <<idOf, changes>>
  \/ /\ h'[c].via = "enrolled" /\ h'[c].tid # NoTenant
     /\ idOf[SlugOf(c)] = NoTenant /\ idOf' = [idOf EXCEPT ![SlugOf(c)] = h'[c].tid]
     /\ changes' = [changes EXCEPT ![ConnOf[c]] = 1]
  \/ /\ h'[c].via \in {"none", "lost"} /\ (h'[c].via = "none" => h'[c].tid = NoTenant)
     /\ idOf' = idOf
     /\ changes' = [changes EXCEPT ![ConnOf[c]] = 0]

LEMMA WorksOnFact ==
  ASSUME TypeOK, NEW c \in Clients, NEW t \in Ids, NEW v \in Vias, WorksOn(c, t, v)
  PROVE  /\ \E s \in {"select", "exec"} : Moves(c, s) /\ (s = "select" <=> h[c].req.op = "patch")
         /\ h'[c].req = h[c].req /\ h'[c].tid = t /\ h'[c].via = v
<1> DEFINE s == IF h[c].req.op = "patch" THEN "select" ELSE "exec"
<1>1. s \in {"select", "exec"} /\ s \in Steps /\ (s = "select" <=> h[c].req.op = "patch")
  BY DEF Steps
<1> DEFINE Reqs  == RequestType \union {Nullopt}
           Rows  == Row \union {NoRow}
           Lists == SUBSET Keys
<1>2. Handler = [pc : Steps, req : Reqs, tid : Ids, via : Vias, read : Rows, outcome : Outcomes,
                 listed : Lists]
  BY DEF Handler
<1>3. h \in [Clients -> Handler] /\ h[c] \in Handler
  BY DEF TypeOK
<1> HIDE DEF Reqs, Rows, Lists
<1>4. PICK g : g = [h[c] EXCEPT !.tid = t, !.via = v, !.pc = s]
  OBVIOUS
<1>5. h' = [h EXCEPT ![c] = g]
  BY <1>3, <1>4 DEF WorksOn
<1> HIDE DEF s
<1>6. g \in Handler /\ g.pc = s /\ g.req = h[c].req /\ g.tid = t /\ g.via = v
  BY <1>1, <1>2, <1>3, <1>4
<1>7. Moves(c, s) /\ h'[c] = g
  BY <1>5, <1>6, MovesTo
<1>8. \E q \in {"select", "exec"} : Moves(c, q) /\ (q = "select" <=> h[c].req.op = "patch")
  BY <1>1, <1>7
<1> QED
  BY <1>6, <1>7, <1>8

LEMMA TenantFoundFact ==
  ASSUME TypeInv, NEW c \in Clients, h[c].pc # "idle"
  PROVE  /\ TenantFound(c) \subseteq Ids
         /\ \A t \in TenantFound(c) : t # NoTenant => t = idOf[SlugOf(c)]
BY BusyHandler, StoreAssumption DEF TypeInv, TypeOK, TenantFound, SlugOf, Ids, NoTenant

LEMMA LookupFact ==
  ASSUME TypeInv, NEW c \in Clients, Resolve(c) \/ Ensure(c) \/ Enroll(c)
  PROVE  /\ \E s \in {"ensure", "enroll", "select", "exec"} :
              Moves(c, s) /\ (s = "exec" => h[c].req.op # "patch")
         /\ h'[c].req = h[c].req /\ users' = users
         /\ h'[c].pc \in {"ensure", "enroll"} => UNCHANGED <<idOf, changes>>
         /\ h'[c].pc \in {"select", "exec"} => Found(c)
<1>0. TypeOK /\ h[c].pc # "idle" /\ users' = users
  BY DEF TypeInv, Resolve, Ensure, Enroll
<1>v. /\ {"none", "named", "fallback", "enrolled", "lost"} \subseteq Vias
      /\ {"ensure", "enroll"} \subseteq Steps
      /\ NoTenant \in Ids /\ FallbackTenant \in Ids /\ NewIds \subseteq Ids \ {NoTenant}
  BY StoreAssumption DEF Vias, Steps, NoTenant, FallbackTenant, Ids, NewIds
<1>w. ASSUME NEW t \in Ids, NEW v \in Vias, WorksOn(c, t, v),
             h'[c].tid = t /\ h'[c].via = v => Found(c)
      PROVE  /\ \E s \in {"ensure", "enroll", "select", "exec"} :
                  Moves(c, s) /\ (s = "exec" => h[c].req.op # "patch")
             /\ h'[c].req = h[c].req
             /\ h'[c].pc \in {"select", "exec"} /\ Found(c)
  <2>1. PICK s \in {"select", "exec"} : Moves(c, s) /\ (s = "select" <=> h[c].req.op = "patch")
    BY <1>0, <1>w, WorksOnFact
  <2>2. h'[c].req = h[c].req /\ h'[c].tid = t /\ h'[c].via = v
    BY <1>0, <1>w, WorksOnFact
  <2> QED
    BY <1>w, <2>1, <2>2 DEF Moves
<1>1. CASE Enroll(c)
  <2>1. CASE \E i \in NewIds : WorksOn(c, i, "enrolled") /\ idOf[SlugOf(c)] = NoTenant
                              /\ idOf' = [idOf EXCEPT ![SlugOf(c)] = i]
                              /\ changes' = [changes EXCEPT ![ConnOf[c]] = 1]
    BY <1>0, <1>v, <1>w, <2>1 DEF Found
  <2>2. CASE WorksOn(c, NoTenant, "none") /\ changes' = [changes EXCEPT ![ConnOf[c]] = 0]
             /\ idOf' = idOf
    BY <1>0, <1>v, <1>w, <2>2 DEF Found
  <2>3. CASE (\E i \in NewIds : WorksOn(c, i, "lost")) /\ changes' = [changes EXCEPT ![ConnOf[c]] = 0]
             /\ idOf' = idOf
    BY <1>0, <1>v, <1>w, <2>3 DEF Found
  <2> QED
    BY <1>1, <2>1, <2>2, <2>3 DEF Enroll, SlugOf
<1>2. CASE Resolve(c) \/ Ensure(c)
  <2>1. UNCHANGED <<idOf, changes>>
    BY <1>2 DEF Resolve, Ensure
  <2>2. PICK t \in TenantFound(c) :
          \/ t # NoTenant /\ WorksOn(c, t, "named")
          \/ ConnOf[c] = PanelConn /\ WorksOn(c, FallbackTenant, "fallback")
          \/ \E s \in {"ensure", "enroll"} : h' = [h EXCEPT ![c].pc = s]
    BY <1>2 DEF Resolve, Ensure
  <2>3. t \in Ids /\ (t # NoTenant => t = idOf[SlugOf(c)])
    BY <1>0, TenantFoundFact
  <2>4. CASE t # NoTenant /\ WorksOn(c, t, "named")
    BY <1>0, <1>v, <1>w, <2>1, <2>3, <2>4 DEF Found
  <2>5. CASE ConnOf[c] = PanelConn /\ WorksOn(c, FallbackTenant, "fallback")
    BY <1>0, <1>v, <1>w, <2>1, <2>5 DEF Found
  <2>6. CASE \E s \in {"ensure", "enroll"} : h' = [h EXCEPT ![c].pc = s]
    <3>1. PICK s \in {"ensure", "enroll"} : h' = [h EXCEPT ![c].pc = s]
      BY <2>6
    <3>2. Moves(c, s) /\ h'[c] = [h[c] EXCEPT !.pc = s]
      BY <1>0, <1>v, <3>1, MovesOn
    <3>3. h'[c].req = h[c].req
      BY <1>0, <3>2 DEF TypeOK, Handler
    <3> QED
      BY <1>0, <2>1, <3>2, <3>3 DEF Moves
  <2> QED
    BY <2>2, <2>4, <2>5, <2>6
<1> QED
  BY <1>1, <1>2

\* What is left to show of a step once the tables have their types.
LEMMA TypeInvKept ==
  ASSUME TypeInv, NEW c \in Clients, NEW p \in Steps, Moves(c, p),
         users' \in [Keys -> Row \union {NoRow}], changes' \in [Conns -> {0, 1}],
         idOf' \in [Slugs -> Ids],
         p # "idle" => h'[c].req \in Asks[c],
         p = "exec" /\ h'[c].req.op = "patch" => h'[c].read \in Row
  PROVE  TypeInv'
<1>1. TypeOK'
  BY DEF TypeOK, Moves
<1>2. \A d \in Clients : h'[d].pc # "idle" => h'[d].req \in Asks[d]
  BY DEF TypeInv, Moves
<1>3. \A d \in Clients : At(d, "patch", "exec")' => h'[d].read \in Row
  BY DEF TypeInv, Moves, At
<1> QED
  BY <1>1, <1>2, <1>3 DEF TypeInv

\* The counter a statement leaves.
LEMMA CounterType ==
  ASSUME TypeOK, NEW n \in {0, 1}, NEW conn
  PROVE  [changes EXCEPT ![conn] = n] \in [Conns -> {0, 1}]
BY DEF TypeOK

\* A patch that names a column or not leaves a row.
LEMMA MergedFact ==
  ASSUME NEW req \in RequestType, NEW row \in Row
  PROVE  Merged(req, row) \in Row
<1>1. ValueOr(req.enabled, row.enabled) \in {0, 1}
  BY DEF ValueOr, RequestType, Row
<1>2. ValueOr(req.limit, row.limit) \in Limits /\ ValueOr(req.devices, row.devices) \in Limits
  BY DEF ValueOr, RequestType, Row
<1> QED
  BY <1>1, <1>2 DEF Merged, Row

LEMMA RowsTyped ==
  ASSUME TypeOK, NEW k, NEW v \in Row \union {NoRow}
  PROVE  [users EXCEPT ![k] = v] \in [Keys -> Row \union {NoRow}]
BY DEF TypeOK

\* The handlers and the counters after a write statement that completed or was refused.
LEMMA CompletedFact ==
  ASSUME TypeOK, NEW c \in Clients, NEW n \in {0, 1}, Completed(c, n)
  PROVE  /\ Moves(c, "check")
         /\ h'[c].req = h[c].req /\ h'[c].tid = h[c].tid /\ h'[c].via = h[c].via
         /\ h'[c].outcome = IF n > 0 THEN "row" ELSE "norow"
         /\ changes' = [changes EXCEPT ![ConnOf[c]] = n]
         /\ changes' \in [Conns -> {0, 1}]
<1> DEFINE o == IF n > 0 THEN "row" ELSE "norow"
<1>1. o \in Outcomes
  BY DEF Outcomes
<1>2. h' = [h EXCEPT ![c].pc = "check", ![c].outcome = o]
  BY DEF Completed
<1>3. "check" \in Steps
  BY DEF Steps
<1> HIDE DEF o
<1>4. /\ Moves(c, "check") /\ h'[c].outcome = o
      /\ h'[c].req = h[c].req /\ h'[c].tid = h[c].tid /\ h'[c].via = h[c].via
  BY <1>1, <1>2, <1>3, MovesWithOutcome
<1>5. changes' = [changes EXCEPT ![ConnOf[c]] = n]
  BY DEF Completed
<1> QED
  BY <1>4, <1>5, CounterType DEF o

LEMMA RefusedFact ==
  ASSUME TypeOK, NEW c \in Clients, Refused(c)
  PROVE  /\ Moves(c, "check")
         /\ h'[c].req = h[c].req /\ h'[c].tid = h[c].tid /\ h'[c].via = h[c].via
         /\ h'[c].outcome = "busy"
         /\ UNCHANGED changes \/ changes' = [changes EXCEPT ![ConnOf[c]] = 0]
         /\ changes' \in [Conns -> {0, 1}]
         /\ UNCHANGED users
<1>1. h' = [h EXCEPT ![c].pc = "check", ![c].outcome = "busy"]
  BY DEF Refused
<1>2. "check" \in Steps /\ "busy" \in Outcomes
  BY DEF Steps, Outcomes
<1>3. /\ Moves(c, "check") /\ h'[c].outcome = "busy"
      /\ h'[c].req = h[c].req /\ h'[c].tid = h[c].tid /\ h'[c].via = h[c].via
  BY <1>1, <1>2, MovesWithOutcome
<1>4. UNCHANGED changes \/ changes' = [changes EXCEPT ![ConnOf[c]] = 0]
  BY DEF Refused
<1>5. changes' \in [Conns -> {0, 1}]
  BY <1>4, CounterType DEF TypeOK
<1> QED
  BY <1>3, <1>4, <1>5 DEF Refused

-----------------------------------------------------------------------------
LEMMA TypeInvInit == Init => TypeInv
<1> SUFFICES ASSUME Init PROVE TypeInv
  OBVIOUS
<1>1. Idle \in Handler /\ Idle.pc = "idle"
  BY StoreAssumption DEF Idle, Handler, Steps, Vias, Outcomes, Ids, NoTenant
<1>2. TypeOK
  BY <1>1, StoreAssumption DEF Init, TypeOK
<1>3. \A c \in Clients : h[c].pc = "idle"
  BY <1>1 DEF Init
<1> QED
  BY <1>2, <1>3 DEF TypeInv, At

LEMMA TypeInvStep == TypeInv /\ [Next]_storeVars => TypeInv'
<1> SUFFICES ASSUME TypeInv, [Next]_storeVars PROVE TypeInv'
  OBVIOUS
<1>0. /\ TypeOK
      /\ users \in [Keys -> Row \union {NoRow}]
      /\ changes \in [Conns -> {0, 1}]
      /\ idOf \in [Slugs -> Ids]
  BY DEF TypeInv, TypeOK
<1>s. Steps = {"idle", "resolve", "ensure", "enroll", "select", "exec", "check", "list", "sync"}
  BY DEF Steps
<1>1. ASSUME NEW c \in Clients, Begin(c) PROVE TypeInv'
  <2>1. PICK r \in Asks[c] : h' = [h EXCEPT ![c].pc = "resolve", ![c].req = r]
    BY <1>1 DEF Begin
  <2>2. r \in RequestType
    BY StoreAssumption
  <2>3. Moves(c, "resolve") /\ h'[c].req = r
    BY <1>0, <1>s, <2>1, <2>2, MovesWithRequest
  <2>4. changes' \in [Conns -> {0, 1}]
    BY <1>0, <1>1, CounterType DEF Begin
  <2> QED
    BY <1>0, <1>1, <1>s, <2>3, <2>4, TypeInvKept DEF Begin
<1>2. ASSUME NEW c \in Clients, Resolve(c) \/ Ensure(c) \/ Enroll(c) PROVE TypeInv'
  <2>1. h[c].req \in Asks[c] /\ SlugOf(c) \in Slugs
    BY <1>2, BusyHandler DEF Resolve, Ensure, Enroll, SlugOf
  <2>2. PICK s \in {"ensure", "enroll", "select", "exec"} :
          Moves(c, s) /\ (s = "exec" => h[c].req.op # "patch")
    BY <1>2, LookupFact
  <2>3. h'[c].req = h[c].req /\ users' = users /\ (UNCHANGED <<idOf, changes>> \/ Found(c))
    BY <1>2, <2>2, LookupFact DEF Moves
  <2>4. h'[c].tid \in Ids
    BY <2>2 DEF Moves, Handler
  <2>5. changes' \in [Conns -> {0, 1}] /\ idOf' \in [Slugs -> Ids]
    BY <1>0, <2>1, <2>3, <2>4, CounterType DEF Found
  <2> QED
    BY <1>0, <1>s, <2>1, <2>2, <2>3, <2>5, TypeInvKept
<1>3. ASSUME NEW c \in Clients, Select(c) PROVE TypeInv'
  <2>1. h[c].req \in Asks[c] /\ Key(c) \in Keys
    BY <1>3, BusyHandler DEF Select, At
  <2>2. users[Key(c)] \in Row
    BY <1>0, <1>3, <2>1 DEF Select
  <2>3. Moves(c, "exec") /\ h'[c].req = h[c].req /\ h'[c].read = users[Key(c)]
    BY <1>0, <1>3, <1>s, <2>2, MovesWithRow DEF Select
  <2> QED
    BY <1>0, <1>3, <1>s, <2>1, <2>2, <2>3, TypeInvKept DEF Select
<1>4. ASSUME NEW c \in Clients, SelectNothing(c) \/ Finish(c) PROVE TypeInv'
  <2>1. Moves(c, "idle")
    BY <1>0, <1>4, MovesToIdle DEF SelectNothing, Finish
  <2> QED
    BY <1>0, <1>4, <1>s, <2>1, TypeInvKept DEF SelectNothing, Finish
<1>5. ASSUME NEW c \in Clients, Insert(c) PROVE TypeInv'
  <2>1. h[c].req \in Asks[c] /\ h[c].req \in RequestType
    BY <1>5, BusyHandler DEF Insert, At
  <2>2. NewRow(h[c].req) \in Row
    BY <1>5, <2>1, StoreAssumption DEF Insert, At, RequestType, Row, NewRow
  <2>3. users' \in [Keys -> Row \union {NoRow}]
    BY <1>0, <1>5, <2>2, RowsTyped DEF Insert
  <2>4. changes' \in [Conns -> {0, 1}]
    BY <1>0, <1>5, CounterType DEF Insert
  <2>5. "row" \in Outcomes
    BY DEF Outcomes
  <2>6. Moves(c, "list") /\ h'[c].req = h[c].req
    BY <1>0, <1>5, <1>s, <2>5, MovesWithOutcome DEF Insert
  <2> QED
    BY <1>0, <1>5, <1>s, <2>1, <2>3, <2>4, <2>6, TypeInvKept DEF Insert
<1>6. ASSUME NEW c \in Clients, InsertFails(c) PROVE TypeInv'
  <2>1. Moves(c, "idle")
    BY <1>0, <1>6, MovesToIdle DEF InsertFails
  <2>2. changes' \in [Conns -> {0, 1}]
    BY <1>0, <1>6, CounterType DEF InsertFails
  <2> QED
    BY <1>0, <1>6, <1>s, <2>1, <2>2, TypeInvKept DEF InsertFails
<1>7. ASSUME NEW c \in Clients, Update(c) \/ Reset(c) PROVE TypeInv'
  <2>1. h[c].req \in Asks[c] /\ h[c].req \in RequestType
    BY <1>7, BusyHandler DEF Update, Reset, At
  <2>2. users' \in [Keys -> Row \union {NoRow}]
    <3>1. Update(c) => Merged(h[c].req, h[c].read) \in Row
      BY <2>1, MergedFact DEF Update, TypeInv
    <3> QED
      BY <1>0, <1>7, <3>1, RowsTyped DEF Update, Reset, Refused
  <2>3. Moves(c, "check") /\ h'[c].req = h[c].req /\ changes' \in [Conns -> {0, 1}]
    <3>1. Completed(c, 0) \/ Completed(c, 1) \/ Refused(c)
      BY <1>7 DEF Update, Reset
    <3> QED
      BY <1>0, <3>1, CompletedFact, RefusedFact
  <2> QED
    BY <1>0, <1>7, <1>s, <2>1, <2>2, <2>3, TypeInvKept DEF Update, Reset
<1>8. ASSUME NEW c \in Clients, Check(c) PROVE TypeInv'
  <2>1. h[c].req \in Asks[c]
    BY <1>8, BusyHandler DEF Check
  <2>2. changes' \in [Conns -> {0, 1}]
    BY <1>0, <1>8, CounterType DEF Check
  <2>3. CASE ChangesPositive(c) /\ h[c].req.op = "patch"
    <3>1. h' = [h EXCEPT ![c] = [h[c] EXCEPT !.pc = "list"]]
      BY <1>8, <2>3 DEF Check
    <3>2. Moves(c, "list") /\ h'[c].req = h[c].req
      BY <1>0, <1>s, <3>1 DEF Moves, TypeOK, Handler
    <3> QED
      BY <1>0, <1>8, <1>s, <2>1, <2>2, <3>2, TypeInvKept DEF Check
  <2>4. CASE ~(ChangesPositive(c) /\ h[c].req.op = "patch")
    <3>1. Moves(c, "idle")
      BY <1>0, <1>8, <2>4, MovesToIdle DEF Check
    <3> QED
      BY <1>0, <1>8, <1>s, <2>2, <3>1, TypeInvKept DEF Check
  <2> QED
    BY <2>3, <2>4
<1>9. ASSUME NEW c \in Clients, Delete(c) PROVE TypeInv'
  <2>1. h[c].req \in Asks[c]
    BY <1>9, BusyHandler DEF Delete, At
  <2>2. PICK o \in {"row", "norow", "busy"} : h' = [h EXCEPT ![c].pc = "list", ![c].outcome = o]
    BY <1>9 DEF Delete
  <2>3. o \in Outcomes
    BY DEF Outcomes
  <2>4. Moves(c, "list") /\ h'[c].req = h[c].req
    BY <1>0, <1>s, <2>2, <2>3, MovesWithOutcome
  <2>5. PICK n \in {0, 1} : changes' = [changes EXCEPT ![ConnOf[c]] = n]
    BY <1>9 DEF Delete
  <2>6. changes' \in [Conns -> {0, 1}]
    BY <1>0, <2>5, CounterType
  <2>7. users' \in [Keys -> Row \union {NoRow}]
    BY <1>0, <1>9, RowsTyped DEF Delete
  <2> QED
    BY <1>0, <1>9, <1>s, <2>1, <2>4, <2>6, <2>7, TypeInvKept DEF Delete
<1>10. ASSUME NEW c \in Clients, List(c) PROVE TypeInv'
  <2>1. h[c].req \in Asks[c]
    BY <1>10, BusyHandler DEF List
  <2>2. PICK S \in Pages(h[c].tid) \union (IF Contended(c, WriteSteps) THEN {{}} ELSE {}) :
          h' = [h EXCEPT ![c].pc = "sync", ![c].listed = Enabled(S)]
    BY <1>10 DEF List
  <2>3. Enabled(S) \in SUBSET Keys
    BY <2>2 DEF Enabled, Pages, RowsOf
  <2>4. Moves(c, "sync") /\ h'[c].req = h[c].req
    BY <1>0, <1>s, <2>2, <2>3, MovesWithList
  <2> QED
    BY <1>0, <1>10, <1>s, <2>1, <2>4, TypeInvKept DEF List
<1>11. CASE OtherWrite
  <2>1. changes' \in [Conns -> {0, 1}]
    <3>1. PICK n \in {0, 1} : changes' = [changes EXCEPT ![PanelConn] = n]
      BY <1>11 DEF OtherWrite
    <3> QED
      BY <1>0, <3>1, CounterType
  <2> QED
    BY <1>11, <2>1 DEF OtherWrite, TypeInv, TypeOK, At
<1>12. CASE UNCHANGED storeVars
  BY <1>12 DEF storeVars, TypeInv, TypeOK, At
<1> QED
  BY <1>1, <1>2, <1>3, <1>4, <1>5, <1>6, <1>7, <1>8, <1>9, <1>10, <1>11, <1>12 DEF Next, Statement

LEMMA TypeInvariance == Spec => []TypeInv
<1>1. Init => TypeInv
  BY TypeInvInit
<1>2. TypeInv /\ [Next]_storeVars => TypeInv'
  BY TypeInvStep
<1> QED
  BY <1>1, <1>2, PTL DEF Spec

\* Every variable of UserStore has its type in every reachable state.
THEOREM TypeCorrect == Spec => []TypeOK
<1>1. TypeInv => TypeOK
  BY DEF TypeInv
<1> QED
  BY <1>1, TypeInvariance, PTL

-----------------------------------------------------------------------------
(***************************************************************************)
(* A CLI process has its connection to itself: the counter it reads is the *)
(* one its own UPDATE left.  That was 0 before the UPDATE, unless the      *)
(* command had just created its tenant.                                    *)
(***************************************************************************)
CliCounter(c) ==
  /\ h[c].pc \in {"resolve", "ensure", "enroll"} => changes[ConnOf[c]] = 0
  /\ h[c].pc \in {"select", "exec"} =>
       changes[ConnOf[c]] = IF h[c].via = "enrolled" THEN 1 ELSE 0
  /\ h[c].pc = "check" =>
       \/ changes[ConnOf[c]] = IF h[c].outcome = "row" THEN 1 ELSE 0
       \/ h[c].outcome = "busy" /\ h[c].via = "enrolled"

CliInv == \A c \in Clients : ConnOf[c] # PanelConn => CliCounter(c)

\* A client that does not move and whose counter is not written keeps its part of the invariant.
LEMMA CliUntouched ==
  ASSUME CliInv, NEW d \in Clients, ConnOf[d] # PanelConn, h'[d] = h[d],
         changes'[ConnOf[d]] = changes[ConnOf[d]]
  PROVE  CliCounter(d)'
BY DEF CliInv, CliCounter

\* No statement of c writes the counter of a CLI process d.
LEMMA CounterIsPrivate ==
  ASSUME TypeOK, NEW c \in Clients, NEW d \in Clients, c # d, ConnOf[d] # PanelConn,
         \/ UNCHANGED changes
         \/ \E n \in {0, 1} : changes' = [changes EXCEPT ![ConnOf[c]] = n]
  PROVE  changes'[ConnOf[d]] = changes[ConnOf[d]]
<1>1. ConnOf[c] # ConnOf[d]
  BY StoreAssumption
<1>2. ConnOf[d] \in Conns
  BY ConnFact
<1> QED
  BY <1>1, <1>2 DEF TypeOK

\* A statement of c leaves the invariant to be shown of c only.
LEMMA CliInvOfMover ==
  ASSUME TypeOK, CliInv, NEW c \in Clients, NEW p, Moves(c, p),
         \/ UNCHANGED changes
         \/ \E n \in {0, 1} : changes' = [changes EXCEPT ![ConnOf[c]] = n],
         ConnOf[c] # PanelConn => CliCounter(c)'
  PROVE  CliInv'
<1> SUFFICES ASSUME NEW d \in Clients, ConnOf[d] # PanelConn
             PROVE  CliCounter(d)'
  BY DEF CliInv
<1>1. CASE d = c
  BY <1>1
<1>2. CASE d # c
  <2>1. h'[d] = h[d]
    BY <1>2 DEF Moves
  <2> QED
    BY <1>2, <2>1, CounterIsPrivate, CliUntouched
<1> QED
  BY <1>1, <1>2

LEMMA CliInit == Init => CliInv
BY ConnFact DEF Init, CliInv, CliCounter, Idle

LEMMA CliStep == TypeInv /\ CliInv /\ [Next]_storeVars => CliInv'
<1> SUFFICES ASSUME TypeInv, CliInv, [Next]_storeVars PROVE CliInv'
  OBVIOUS
<1>0. TypeOK /\ changes \in [Conns -> {0, 1}]
  BY DEF TypeInv, TypeOK
<1>s. Steps = {"idle", "resolve", "ensure", "enroll", "select", "exec", "check", "list", "sync"}
  BY DEF Steps
<1>1. ASSUME NEW c \in Clients, Begin(c) PROVE CliInv'
  <2>1. PICK r \in Asks[c] : h' = [h EXCEPT ![c].pc = "resolve", ![c].req = r]
    BY <1>1 DEF Begin
  <2>2. Moves(c, "resolve")
    BY <1>0, <1>s, <2>1, StoreAssumption, MovesWithRequest
  <2>3. UNCHANGED changes \/ changes' = [changes EXCEPT ![ConnOf[c]] = 0]
    BY <1>1 DEF Begin
  <2>4. ConnOf[c] # PanelConn => CliCounter(c)'
    BY <1>0, <1>1, <2>2, ConnFact DEF Begin, CliCounter, Moves
  <2> QED
    BY <1>0, <2>2, <2>3, <2>4, CliInvOfMover
<1>2. ASSUME NEW c \in Clients, Resolve(c) \/ Ensure(c) \/ Enroll(c) PROVE CliInv'
  <2>1. PICK s \in {"ensure", "enroll", "select", "exec"} : Moves(c, s)
    BY <1>2, LookupFact
  <2>2. UNCHANGED changes \/ \E n \in {0, 1} : changes' = [changes EXCEPT ![ConnOf[c]] = n]
    BY <1>2, <2>1, LookupFact DEF Moves, Found
  <2>3. ASSUME ConnOf[c] # PanelConn PROVE CliCounter(c)'
    <3>1. changes[ConnOf[c]] = 0
      BY <1>2, <2>3 DEF Resolve, Ensure, Enroll, CliInv, CliCounter
    <3>2. CASE s \in {"ensure", "enroll"}
      <4>1. h'[c].pc = s /\ changes'[ConnOf[c]] = 0
        BY <1>2, <2>1, <3>1, <3>2, LookupFact DEF Moves
      <4> QED
        BY <3>2, <4>1 DEF CliCounter
    <3>3. CASE s \in {"select", "exec"}
      <4>1. h'[c].pc = s /\ Found(c)
        BY <1>2, <2>1, <3>3, LookupFact DEF Moves
      <4>2. changes'[ConnOf[c]] = IF h'[c].via = "enrolled" THEN 1 ELSE 0
        BY <1>0, <3>1, <4>1, ConnFact DEF Found
      <4> QED
        BY <3>3, <4>1, <4>2 DEF CliCounter
    <3> QED
      BY <3>2, <3>3
  <2> QED
    BY <1>0, <2>1, <2>2, <2>3, CliInvOfMover
<1>3. ASSUME NEW c \in Clients, Select(c) PROVE CliInv'
  <2>1. Key(c) \in Keys
    BY <1>3, BusyHandler DEF Select, At
  <2>2. users[Key(c)] \in Row
    BY <1>0, <1>3, <2>1 DEF Select, TypeOK
  <2>3. Moves(c, "exec") /\ h'[c].via = h[c].via
    BY <1>0, <1>3, <1>s, <2>2, MovesWithRow DEF Select
  <2>4. ConnOf[c] # PanelConn => CliCounter(c)'
    BY <1>3, <2>3 DEF Select, At, CliInv, CliCounter, Moves
  <2> QED
    BY <1>0, <1>3, <2>3, <2>4, CliInvOfMover DEF Select
<1>4. ASSUME NEW c \in Clients, Moves(c, "idle"),
             \/ UNCHANGED changes
             \/ changes' = [changes EXCEPT ![ConnOf[c]] = 0]
      PROVE  CliInv'
  <2>1. CliCounter(c)'
    BY <1>4 DEF CliCounter, Moves
  <2> QED
    BY <1>0, <1>4, <2>1, CliInvOfMover
<1>5. ASSUME NEW c \in Clients, Moves(c, "list") \/ Moves(c, "sync"),
             \/ UNCHANGED changes
             \/ \E n \in {0, 1} : changes' = [changes EXCEPT ![ConnOf[c]] = n]
      PROVE  CliInv'
  <2>1. CliCounter(c)'
    BY <1>5 DEF CliCounter, Moves
  <2> QED
    BY <1>0, <1>5, <2>1, CliInvOfMover
<1>6. ASSUME NEW c \in Clients, SelectNothing(c) \/ Finish(c) PROVE CliInv'
  BY <1>0, <1>4, <1>6, MovesToIdle DEF SelectNothing, Finish
<1>7. ASSUME NEW c \in Clients, Insert(c) PROVE CliInv'
  <2>1. Moves(c, "list")
    BY <1>0, <1>7, <1>s, MovesWithOutcome DEF Insert, Outcomes
  <2> QED
    BY <1>5, <1>7, <2>1 DEF Insert
<1>8. ASSUME NEW c \in Clients, InsertFails(c) PROVE CliInv'
  BY <1>0, <1>4, <1>8, MovesToIdle DEF InsertFails
<1>9. ASSUME NEW c \in Clients, Update(c) \/ Reset(c) PROVE CliInv'
  <2>1. h[c].pc = "exec"
    BY <1>9 DEF Update, Reset, At
  <2>2. ASSUME NEW n \in {0, 1}, Completed(c, n) PROVE CliInv'
    <3>1. /\ Moves(c, "check")
          /\ h'[c].outcome = IF n > 0 THEN "row" ELSE "norow"
          /\ changes' = [changes EXCEPT ![ConnOf[c]] = n]
      BY <1>0, <2>2, CompletedFact
    <3>2. changes'[ConnOf[c]] = n
      BY <1>0, <3>1, ConnFact
    <3>3. CliCounter(c)'
      BY <3>1, <3>2 DEF CliCounter, Moves
    <3> QED
      BY <1>0, <3>1, <3>3, CliInvOfMover
  <2>3. ASSUME Refused(c) PROVE CliInv'
    <3>1. /\ Moves(c, "check")
          /\ h'[c].outcome = "busy" /\ h'[c].via = h[c].via
          /\ UNCHANGED changes \/ changes' = [changes EXCEPT ![ConnOf[c]] = 0]
      BY <1>0, <2>3, RefusedFact
    <3>2. ConnOf[c] # PanelConn => changes'[ConnOf[c]] = 0 \/ h[c].via = "enrolled"
      BY <1>0, <2>1, <3>1, ConnFact DEF CliInv, CliCounter
    <3>3. ConnOf[c] # PanelConn => CliCounter(c)'
      BY <3>1, <3>2 DEF CliCounter, Moves
    <3> QED
      BY <1>0, <3>1, <3>3, CliInvOfMover
  <2> QED
    BY <1>9, <2>2, <2>3 DEF Update, Reset
<1>10. ASSUME NEW c \in Clients, Check(c) PROVE CliInv'
  <2>1. UNCHANGED changes \/ changes' = [changes EXCEPT ![ConnOf[c]] = 0]
    BY <1>10 DEF Check
  <2>2. CASE ChangesPositive(c) /\ h[c].req.op = "patch"
    <3>1. h' = [h EXCEPT ![c] = [h[c] EXCEPT !.pc = "list"]]
      BY <1>10, <2>2 DEF Check
    <3>2. Moves(c, "list")
      BY <1>0, <1>s, <3>1 DEF Moves, TypeOK, Handler
    <3> QED
      BY <1>5, <2>1, <3>2
  <2>3. CASE ~(ChangesPositive(c) /\ h[c].req.op = "patch")
    BY <1>0, <1>4, <1>10, <2>1, <2>3, MovesToIdle DEF Check
  <2> QED
    BY <2>2, <2>3
<1>11. ASSUME NEW c \in Clients, Delete(c) PROVE CliInv'
  <2>1. PICK o \in {"row", "norow", "busy"} : h' = [h EXCEPT ![c].pc = "list", ![c].outcome = o]
    BY <1>11 DEF Delete
  <2>2. Moves(c, "list")
    BY <1>0, <1>s, <2>1, MovesWithOutcome DEF Outcomes
  <2>3. \E n \in {0, 1} : changes' = [changes EXCEPT ![ConnOf[c]] = n]
    BY <1>11 DEF Delete
  <2> QED
    BY <1>5, <2>2, <2>3
<1>12. ASSUME NEW c \in Clients, List(c) PROVE CliInv'
  <2>1. PICK S \in Pages(h[c].tid) \union (IF Contended(c, WriteSteps) THEN {{}} ELSE {}) :
          h' = [h EXCEPT ![c].pc = "sync", ![c].listed = Enabled(S)]
    BY <1>12 DEF List
  <2>2. Enabled(S) \in SUBSET Keys
    BY <2>1 DEF Enabled, Pages, RowsOf
  <2>3. Moves(c, "sync")
    BY <1>0, <1>s, <2>1, <2>2, MovesWithList
  <2> QED
    BY <1>5, <1>12, <2>3 DEF List
<1>13. CASE OtherWrite
  <2> SUFFICES ASSUME NEW d \in Clients, ConnOf[d] # PanelConn
               PROVE  CliCounter(d)'
    BY DEF CliInv
  <2>1. h'[d] = h[d] /\ changes'[ConnOf[d]] = changes[ConnOf[d]]
    BY <1>0, <1>13, ConnFact DEF OtherWrite
  <2> QED
    BY <2>1, CliUntouched
<1>14. CASE UNCHANGED storeVars
  BY <1>14 DEF storeVars, CliInv, CliCounter
<1> QED
  BY <1>1, <1>2, <1>3, <1>6, <1>7, <1>8, <1>9, <1>10, <1>11, <1>12, <1>13, <1>14
  DEF Next, Statement

\* However many threads the panel runs and however many CLI processes there are, a CLI process
\* reports its UPDATE as it ended, if the command has not created its tenant (ensure_tenant) or the
\* UPDATE is not refused.
THEOREM CliRepliesAreTruthful == Spec => []CliReplyTruthful
<1>1. Init => CliInv
  BY CliInit
<1>2. TypeInv /\ CliInv /\ [Next]_storeVars => CliInv'
  BY CliStep
<1>3. CliInv => CliReplyTruthful
  BY DEF CliInv, CliCounter, CliReplyTruthful, ChangesPositive
<1> QED
  BY <1>1, <1>2, <1>3, TypeInvariance, PTL DEF Spec

-----------------------------------------------------------------------------
(***************************************************************************)
(* What "user not found" of a request whose row was changed takes: two     *)
(* users of one connection, two handler threads or a handler and another   *)
(* statement of the panel.                                                 *)
(***************************************************************************)
OneClientPerConnection ==
  /\ \A c, d \in Clients : c # d => ConnOf[c] # ConnOf[d]
  /\ OtherStatements => PanelConn \notin Conns

\* A statement moves the handler of its own client.
LEMMA OthersStay ==
  ASSUME TypeInv, NEW c \in Clients, Statement(c) \/ List(c) \/ Finish(c)
  PROVE  \A d \in Clients \ {c} : h'[d] = h[d]
BY DEF TypeInv, TypeOK, Statement, Begin, Resolve, Select, SelectNothing, Insert, InsertFails, Update,
       Reset, Check, Delete, List, Finish, Completed, Refused, Ensure, Enroll, WorksOn

\* ... and counts on its connection only; it comes to the check of the counter from an UPDATE.
LEMMA StepCounts ==
  ASSUME TypeInv, NEW c \in Clients, Statement(c) \/ List(c) \/ Finish(c)
  PROVE  /\ \A n \in Conns \ {ConnOf[c]} : changes'[n] = changes[n]
         /\ h'[c].pc = "check" => (\E n \in {0, 1} : Completed(c, n)) \/ Refused(c)
<1>0. h \in [Clients -> Handler] /\ changes \in [Conns -> {0, 1}]
  BY DEF TypeInv, TypeOK
<1>1. \A n \in Conns \ {ConnOf[c]} : changes'[n] = changes[n]
  BY <1>0 DEF Statement, Begin, Resolve, Ensure, Enroll, Select, SelectNothing, Insert, InsertFails,
              Update, Reset, Check, Delete, List, Finish, Completed, Refused
<1>2. CASE Update(c) \/ Reset(c)
  BY <1>1, <1>2 DEF Update, Reset
<1>3. CASE Begin(c) \/ Resolve(c) \/ Ensure(c) \/ Enroll(c)
  <2>1. CASE Begin(c)
    <3>1. PICK r : h' = [h EXCEPT ![c].pc = "resolve", ![c].req = r]
      BY <2>1 DEF Begin
    <3>2. h'[c].pc = "resolve"
      BY <1>0, <3>1 DEF Handler
    <3> QED
      BY <1>1, <3>2
  <2>2. CASE Resolve(c) \/ Ensure(c) \/ Enroll(c)
    <3>1. h'[c].pc \in {"ensure", "enroll", "select", "exec"}
      BY <2>2, LookupFact DEF Moves
    <3> QED
      BY <1>1, <3>1
  <2> QED
    BY <1>3, <2>1, <2>2
<1>4. CASE Select(c) \/ Insert(c)
  BY <1>0, <1>1, <1>4 DEF Select, Insert, Handler
<1>5. CASE Delete(c)
  <2>1. PICK o \in Outcomes : h' = [h EXCEPT ![c].pc = "list", ![c].outcome = o]
    BY <1>5 DEF Delete, Outcomes
  <2>2. h'[c].pc = "list"
    BY <1>0, <2>1 DEF Handler
  <2> QED
    BY <1>1, <2>2
<1>6. CASE List(c)
  <2>1. PICK S : h' = [h EXCEPT ![c].pc = "sync", ![c].listed = Enabled(S)]
    BY <1>6 DEF List
  <2>2. h'[c].pc = "sync"
    BY <1>0, <2>1 DEF Handler
  <2> QED
    BY <1>1, <2>2
<1>7. CASE SelectNothing(c) \/ InsertFails(c) \/ Finish(c)
  BY <1>0, <1>1, <1>7 DEF SelectNothing, InsertFails, Finish, Idle
<1>8. CASE Check(c)
  BY <1>0, <1>1, <1>8 DEF Check, Idle, Handler
<1> QED
  BY <1>2, <1>3, <1>4, <1>5, <1>6, <1>7, <1>8 DEF Statement

\* With a client to each connection, the counter of a connection is that of its client's UPDATE.
THEOREM LoneRepliesAreTruthful ==
  ASSUME OneClientPerConnection
  PROVE  Spec => []NoFalseNotFound
<1> DEFINE Counted == \A c \in Clients :
                        h[c].pc = "check" /\ h[c].outcome = "row" => changes[ConnOf[c]] = 1
<1>1. Init => Counted
  BY DEF Init, Idle
<1>2. TypeInv /\ Counted /\ [Next]_storeVars => Counted'
  <2> SUFFICES ASSUME TypeInv, Counted, [Next]_storeVars, NEW c \in Clients,
                      h'[c].pc = "check", h'[c].outcome = "row"
               PROVE  changes'[ConnOf[c]] = 1
    OBVIOUS
  <2>0. /\ h \in [Clients -> Handler] /\ changes \in [Conns -> {0, 1}]
        /\ \A d \in Clients : ConnOf[d] \in Conns
    BY ConnFact DEF TypeInv, TypeOK
  <2>1. CASE UNCHANGED storeVars
    BY <2>1 DEF storeVars
  <2>2. CASE OtherWrite
    BY <2>2 DEF OtherWrite, OneClientPerConnection
  <2>3. ASSUME NEW d \in Clients, Statement(d) \/ List(d) \/ Finish(d)
        PROVE  changes'[ConnOf[c]] = 1
    <3>1. CASE d # c
      <4>1. h'[c] = h[c] /\ changes'[ConnOf[c]] = changes[ConnOf[c]]
        BY <2>0, <2>3, <3>1, OthersStay, StepCounts DEF OneClientPerConnection
      <4> QED
        BY <4>1
    <3>2. CASE d = c
      <4>1. (\E n \in {0, 1} : Completed(c, n)) \/ Refused(c)
        BY <2>3, <3>2, StepCounts
      <4>2. ~Refused(c)
        BY <2>0 DEF Refused, Handler
      <4>3. PICK n \in {0, 1} : Completed(c, n)
        BY <4>1, <4>2
      <4>4. h'[c].outcome = (IF n > 0 THEN "row" ELSE "norow") /\ changes'[ConnOf[c]] = n
        BY <2>0, <4>3 DEF Completed, Handler
      <4> QED
        BY <4>4
    <3> QED
      BY <3>1, <3>2
  <2> QED
    BY <2>1, <2>2, <2>3 DEF Next
<1>3. Counted => NoFalseNotFound
  BY DEF NoFalseNotFound, ChangesPositive
<1> QED
  BY <1>1, <1>2, <1>3, TypeInvariance, PTL DEF Spec

-----------------------------------------------------------------------------
\* Only an INSERT makes a row appear.
LEMMA AppearStep ==
  ASSUME TypeInv, [Next]_storeVars, NEW k \in Keys, users[k] = NoRow, users'[k] # NoRow
  PROVE  \E c \in Clients : Insert(c) /\ Key(c) = k
<1>0. users \in [Keys -> Row \union {NoRow}]
  BY DEF TypeInv, TypeOK
<1>1. ~UNCHANGED users
  OBVIOUS
<1>2. PICK c \in Clients : Insert(c) \/ Update(c) \/ Delete(c)
  BY <1>1 DEF Next, Statement, storeVars, Begin, Resolve, Ensure, Enroll, Select, SelectNothing, InsertFails,
              Reset, Check, List, Finish, OtherWrite, Refused
<1>3. CASE Insert(c)
  <2>1. k = Key(c)
    BY <1>0, <1>3 DEF Insert
  <2> QED
    BY <1>3, <2>1
<1>4. CASE Update(c)
  BY <1>0, <1>4 DEF Update, Refused
<1>5. CASE Delete(c)
  BY <1>0, <1>5 DEF Delete
<1> QED
  BY <1>2, <1>3, <1>4, <1>5

\* A deleted user comes back only through create_user, whatever read the row before.
THEOREM OnlyCreateAdds == Spec => AppearsOnlyByCreate
<1>1. TypeInv /\ [Next]_storeVars =>
        [\A k \in Keys : users[k] = NoRow /\ users'[k] # NoRow =>
           \E c \in Clients : At(c, "create", "exec") /\ Key(c) = k]_storeVars
  BY AppearStep DEF Insert
<1> QED
  BY <1>1, TypeInvariance, PTL DEF Spec, AppearsOnlyByCreate

\* No statement takes its id from a tenant.
LEMMA TenantsStay ==
  ASSUME TypeInv, [Next]_storeVars
  PROVE  /\ \A s \in Slugs : idOf[s] # NoTenant => idOf'[s] = idOf[s]
         /\ TenantIds \subseteq TenantIds'
<1>0. idOf \in [Slugs -> Ids]
  BY DEF TypeInv, TypeOK
<1>1. CASE idOf' = idOf
  BY <1>1 DEF TenantIds
<1>2. CASE idOf' # idOf
  <2>1. PICK c \in Clients : Enroll(c)
    BY <1>2 DEF Next, Statement, storeVars, Begin, Resolve, Ensure, Select, SelectNothing, Insert,
                InsertFails, Update, Reset, Check, Delete, List, Finish, OtherWrite
  <2>2. PICK i : idOf[SlugOf(c)] = NoTenant /\ idOf' = [idOf EXCEPT ![SlugOf(c)] = i]
    BY <1>2, <2>1 DEF Enroll, SlugOf
  <2>3. \A s \in Slugs : idOf[s] # NoTenant => idOf'[s] = idOf[s]
    BY <1>0, <2>2
  <2> QED
    BY <2>3 DEF TenantIds
<1> QED
  BY <1>1, <1>2

\* create_user is refused for a tenant that does not exist, and nothing else makes rows.
NoStrayRow == \A k \in Keys : users[k] # NoRow => k[1] \in TenantIds

LEMMA StrayStep ==
  TypeInv /\ NoStrayRow /\ [Next]_storeVars => NoStrayRow'
<1> SUFFICES ASSUME TypeInv, NoStrayRow, [Next]_storeVars, NEW k \in Keys, users'[k] # NoRow
             PROVE  k[1] \in TenantIds'
  BY DEF NoStrayRow
<1>1. CASE users[k] # NoRow
  BY <1>1, TenantsStay DEF NoStrayRow
<1>2. CASE users[k] = NoRow
  <2>1. PICK c \in Clients : Insert(c) /\ Key(c) = k
    BY <1>2, AppearStep
  <2> QED
    BY <2>1, TenantsStay DEF Insert, Key
<1> QED
  BY <1>1, <1>2

\* No user row belongs to a tenant that does not exist (the foreign key of table users).
THEOREM NoRowWithoutTenant == Spec => []NoStrayRow
<1>1. Init => NoStrayRow
  BY DEF Init, NoStrayRow
<1> QED
  BY <1>1, StrayStep, TypeInvariance, PTL DEF Spec

\* The steps after which a handler has no tenant id to work with: they leave the tenants alone.
LEMMA LeavesTable ==
  ASSUME TypeInv, NEW c \in Clients,
         \/ Begin(c) \/ SelectNothing(c) \/ Insert(c) \/ InsertFails(c) \/ Update(c) \/ Reset(c)
         \/ Check(c) \/ Delete(c) \/ List(c) \/ Finish(c)
  PROVE  idOf' = idOf /\ \E s \in {"resolve", "idle", "check", "list", "sync"} : Moves(c, s)
<1>0. TypeOK
  BY DEF TypeInv
<1>i. idOf' = idOf
  BY DEF Begin, SelectNothing, Insert, InsertFails, Update, Reset, Check, Delete, List, Finish
<1>s. /\ {"idle", "resolve", "check", "list", "sync"} \subseteq Steps
      /\ {"none", "row", "norow", "busy"} \subseteq Outcomes
  BY DEF Steps, Outcomes
<1>1. CASE Begin(c)
  <2>1. PICK r \in Asks[c] : h' = [h EXCEPT ![c].pc = "resolve", ![c].req = r]
    BY <1>1 DEF Begin
  <2>2. r \in RequestType
    BY StoreAssumption
  <2>3. Moves(c, "resolve")
    BY <1>0, <1>s, <2>1, <2>2, MovesWithRequest
  <2> QED
    BY <1>i, <2>3
<1>4. CASE SelectNothing(c) \/ InsertFails(c) \/ Finish(c)
  BY <1>0, <1>4, <1>i, MovesToIdle DEF SelectNothing, InsertFails, Finish
<1>5. CASE Insert(c) \/ Delete(c)
  <2>1. PICK o \in {"row", "norow", "busy"} : h' = [h EXCEPT ![c].pc = "list", ![c].outcome = o]
    BY <1>5 DEF Insert, Delete
  <2>2. Moves(c, "list")
    BY <1>0, <1>s, <2>1, MovesWithOutcome
  <2> QED
    BY <1>i, <2>2
<1>6. CASE Update(c) \/ Reset(c)
  <2>1. Completed(c, 0) \/ Completed(c, 1) \/ Refused(c)
    BY <1>6 DEF Update, Reset
  <2>2. Moves(c, "check")
    BY <1>0, <2>1, CompletedFact, RefusedFact
  <2> QED
    BY <1>i, <2>2
<1>7. CASE Check(c)
  <2>1. CASE ChangesPositive(c) /\ h[c].req.op = "patch"
    <3>1. h' = [h EXCEPT ![c] = [h[c] EXCEPT !.pc = "list"]]
      BY <1>7, <2>1 DEF Check
    <3>2. Moves(c, "list")
      BY <1>0, <1>s, <3>1 DEF Moves, TypeOK, Handler
    <3> QED
      BY <1>i, <3>2
  <2>2. CASE ~(ChangesPositive(c) /\ h[c].req.op = "patch")
    BY <1>0, <1>7, <1>i, <2>2, MovesToIdle DEF Check
  <2> QED
    BY <2>1, <2>2
<1>8. CASE List(c)
  <2>1. PICK S \in Pages(h[c].tid) \union {{}} :
          h' = [h EXCEPT ![c].pc = "sync", ![c].listed = Enabled(S)]
    BY <1>8 DEF List
  <2>2. Enabled(S) \in SUBSET Keys
    BY <2>1 DEF Enabled, Pages, RowsOf
  <2>3. Moves(c, "sync")
    BY <1>0, <1>s, <2>1, <2>2, MovesWithList
  <2> QED
    BY <1>i, <2>3
<1> QED
  BY <1>1, <1>4, <1>5, <1>6, <1>7, <1>8

\* update_user keeps the tenant id between its two statements.
LEMMA SelectFact ==
  ASSUME TypeInv, NEW c \in Clients, Select(c)
  PROVE  /\ idOf' = idOf /\ users' = users /\ Moves(c, "exec")
         /\ h'[c].read = users[Key(c)]
         /\ h'[c].req = h[c].req /\ h'[c].tid = h[c].tid /\ h'[c].via = h[c].via
<1>1. users[Key(c)] \in Row /\ "exec" \in Steps
  BY BusyHandler DEF Select, At, TypeInv, TypeOK, Steps
<1>2. h' = [h EXCEPT ![c].pc = "exec", ![c].read = users[Key(c)]] /\ TypeOK
  BY DEF Select, TypeInv
<1> QED
  BY <1>1, <1>2, MovesWithRow DEF Select

-----------------------------------------------------------------------------
(***************************************************************************)
(* Where the tenant id a handler works with comes from.  Tenants that      *)
(* other processes create in the meantime, and refused statements, do not  *)
(* make it another tenant's.                                               *)
(***************************************************************************)
Traced ==
  \A c \in Clients : h[c].pc \in {"select", "exec"} =>
    \/ h[c].tid = idOf[SlugOf(c)] /\ h[c].tid # NoTenant
    \/ h[c].tid = FallbackTenant /\ h[c].via = "fallback"
    \/ h[c].tid = NoTenant
    \/ h[c].via = "lost"

LEMMA TracedStep ==
  TypeInv /\ Traced /\ [Next]_storeVars => Traced'
<1> SUFFICES ASSUME TypeInv, Traced, [Next]_storeVars, NEW d \in Clients,
                    h'[d].pc \in {"select", "exec"}
             PROVE  \/ h'[d].tid = idOf'[SlugOf(d)'] /\ h'[d].tid # NoTenant
                    \/ h'[d].tid = FallbackTenant /\ h'[d].via = "fallback"
                    \/ h'[d].tid = NoTenant
                    \/ h'[d].via = "lost"
  BY DEF Traced
<1>0. idOf \in [Slugs -> Ids]
  BY DEF TypeInv, TypeOK
<1>1. CASE h'[d] = h[d]
  <2>1. SlugOf(d)' = SlugOf(d) /\ SlugOf(d) \in Slugs
    BY <1>1, BusyHandler DEF SlugOf
  <2>2. idOf[SlugOf(d)] # NoTenant => idOf'[SlugOf(d)] = idOf[SlugOf(d)]
    BY <2>1, TenantsStay
  <2> QED
    BY <1>1, <2>1, <2>2 DEF Traced
<1>2. CASE h'[d] # h[d]
  <2>1. Statement(d) \/ List(d) \/ Finish(d)
    BY <1>2, OthersStay DEF Next, OtherWrite, storeVars
  <2>2. CASE Resolve(d) \/ Ensure(d) \/ Enroll(d)
    <3>1. Found(d) /\ SlugOf(d)' = SlugOf(d) /\ SlugOf(d) \in Slugs
      BY <2>2, LookupFact, BusyHandler DEF SlugOf, Resolve, Ensure, Enroll
    <3> QED
      BY <1>0, <3>1 DEF Found
  <2>3. CASE Select(d)
    BY <2>3, SelectFact DEF Traced, SlugOf, Select, At
  <2> QED
    BY <2>1, <2>2, <2>3, LeavesTable DEF Statement, Moves
<1> QED
  BY <1>1, <1>2

LEMMA TracedInvariance == Spec => []Traced
<1>1. Init => Traced
  BY DEF Init, Idle, Traced
<1> QED
  BY <1>1, TracedStep, TypeInvariance, PTL DEF Spec

\* Only the write statement of a request touches a row.
LEMMA TouchStep ==
  ASSUME TypeInv, [Next]_storeVars, NEW k \in Keys, users[k] # users'[k]
  PROVE  \E c \in Clients :
           /\ h[c].pc = "exec" /\ k = Key(c)
           /\ users[k] = NoRow => h[c].tid \in TenantIds
<1>0. users \in [Keys -> Row \union {NoRow}]
  BY DEF TypeInv, TypeOK
<1>1. ~UNCHANGED users
  OBVIOUS
<1>2. PICK c \in Clients : Insert(c) \/ Update(c) \/ Delete(c)
  BY <1>1 DEF Next, Statement, storeVars, Begin, Resolve, Ensure, Enroll, Select, SelectNothing,
              InsertFails, Reset, Check, List, Finish, OtherWrite, Refused
<1>3. h[c].pc = "exec" /\ \E v : users' = [users EXCEPT ![Key(c)] = v]
  BY <1>1, <1>2 DEF Insert, Update, Delete, Refused, At
<1>4. k = Key(c)
  BY <1>0, <1>3
<1>5. users[k] = NoRow => Insert(c)
  BY <1>0, <1>2, <1>4 DEF Update, Delete, Refused
<1> QED
  BY <1>3, <1>4, <1>5 DEF Insert

LEMMA TenantStep ==
  ASSUME TypeInv, Traced, NoStrayRow, [Next]_storeVars, NEW k \in Keys, users[k] # users'[k]
  PROVE  \E c \in Clients :
           /\ h[c].pc = "exec" /\ k = Key(c)
           /\ \/ k[1] = idOf[h[c].req.slug]
              \/ k[1] = FallbackTenant /\ h[c].via = "fallback"
              \/ h[c].via = "lost"
<1>1. PICK c \in Clients :
        /\ h[c].pc = "exec" /\ k = Key(c)
        /\ users[k] = NoRow => h[c].tid \in TenantIds
  BY TouchStep
<1>2. k[1] = h[c].tid
  BY <1>1 DEF Key
<1>3. k[1] \in TenantIds
  <2>1. CASE users[k] = NoRow
    BY <1>1, <1>2, <2>1
  <2>2. CASE users[k] # NoRow
    BY <2>2 DEF NoStrayRow
  <2> QED
    BY <2>1, <2>2
<1>4. k[1] # NoTenant
  BY <1>3 DEF TenantIds
<1>5. \/ h[c].tid = idOf[SlugOf(c)]
      \/ h[c].tid = FallbackTenant /\ h[c].via = "fallback"
      \/ h[c].tid = NoTenant
      \/ h[c].via = "lost"
  BY <1>1 DEF Traced
<1>6. \/ k[1] = idOf[h[c].req.slug]
      \/ k[1] = FallbackTenant /\ h[c].via = "fallback"
      \/ h[c].via = "lost"
  BY <1>2, <1>4, <1>5 DEF SlugOf
<1> QED
  BY <1>1, <1>6

\* Whatever processes share the database, and however their statements interleave and are refused, a
\* request touches no row but those of the tenant it names; the exceptions are tenant 1, on which the
\* panel falls back when it does not find the tenant (resolve_tenant_id), and the id of a tenant whose
\* INSERT was rolled back (ensure_tenant).
THEOREM RowsStayWithTheirTenant == Spec => RowsChangeForTheirTenant
<1>1. TypeInv /\ Traced /\ NoStrayRow /\ [Next]_storeVars =>
        [\A k \in Keys : users[k] # users'[k] =>
           \E c \in Clients :
             /\ h[c].pc = "exec" /\ k = Key(c)
             /\ \/ k[1] = idOf[h[c].req.slug]
                \/ k[1] = FallbackTenant /\ h[c].via = "fallback"
                \/ h[c].via = "lost"]_storeVars
  BY TenantStep
<1> QED
  BY <1>1, TypeInvariance, TracedInvariance, NoRowWithoutTenant, PTL
     DEF Spec, RowsChangeForTheirTenant

-----------------------------------------------------------------------------
(***************************************************************************)
(* The panel without CLI processes: no statement is refused.               *)
(***************************************************************************)
OneProcess == \A c \in Clients : ConnOf[c] = PanelConn

LEMMA NoContention ==
  ASSUME OneProcess, NEW c \in Clients, NEW steps
  PROVE  ~Contended(c, steps) /\ ConnOf[c] = PanelConn /\ ~OtherProcessAt(PanelConn, steps)
BY DEF OneProcess, Contended, OtherProcessAt

\* The tenant that the request of c works on; the table tenants does not change.
TenantOf(c) == ResolvesTo(idOf, SlugOf(c))

Addressed ==
  /\ idOf \in TenantTables
  /\ \A c \in Clients : /\ h[c].pc \notin {"ensure", "enroll"}
                        /\ h[c].pc \in {"select", "exec"} => h[c].tid = TenantOf(c)

LEMMA AddressedStep ==
  ASSUME OneProcess, TypeInv, Addressed, [Next]_storeVars
  PROVE  Addressed' /\ idOf' = idOf
<1>m. ASSUME NEW c \in Clients, NEW s, Moves(c, s), idOf' = idOf, s \notin {"ensure", "enroll"},
             s \in {"select", "exec"} => h'[c].tid = TenantOf(c)'
      PROVE  Addressed' /\ idOf' = idOf
  BY <1>m DEF Moves, Addressed, TenantOf, SlugOf
<1>1. ASSUME NEW c \in Clients, Resolve(c) PROVE Addressed' /\ idOf' = idOf
  <2> DEFINE t == IF idOf[SlugOf(c)] # NoTenant THEN idOf[SlugOf(c)] ELSE FallbackTenant
  <2>1. t \in Ids /\ TypeOK /\ {"named", "fallback"} \subseteq Vias
    BY <1>1, BusyHandler, StoreAssumption
       DEF Resolve, SlugOf, TypeInv, TypeOK, Ids, FallbackTenant, Vias
  <2>2. TenantFound(c) = {idOf[SlugOf(c)]} /\ ConnOf[c] = PanelConn
    BY NoContention DEF TenantFound, SlugOf
  <2>3. PICK v \in {"named", "fallback"} : WorksOn(c, t, v)
    BY <1>1, <2>2 DEF Resolve
  <2> HIDE DEF t
  <2>4. PICK s \in {"select", "exec"} : Moves(c, s)
    BY <2>1, <2>3, WorksOnFact
  <2>5. h'[c].tid = t /\ h'[c].req = h[c].req /\ idOf' = idOf
    BY <1>1, <2>1, <2>3, WorksOnFact DEF Resolve
  <2>6. h'[c].tid = TenantOf(c)'
    BY <2>5 DEF t, TenantOf, SlugOf, ResolvesTo
  <2> QED
    BY <1>m, <2>4, <2>5, <2>6
<1>2. ASSUME NEW c \in Clients, Ensure(c) \/ Enroll(c) PROVE FALSE
  BY <1>2 DEF Addressed, Ensure, Enroll
<1>3. ASSUME NEW c \in Clients, Select(c) PROVE Addressed' /\ idOf' = idOf
  <2>1. h'[c].tid = TenantOf(c)'
    BY <1>3, SelectFact DEF Addressed, TenantOf, SlugOf, Select, At
  <2> QED
    BY <1>3, <1>m, <2>1, SelectFact
<1>4. ASSUME NEW c \in Clients,
             \/ Begin(c) \/ SelectNothing(c) \/ Insert(c) \/ InsertFails(c) \/ Update(c) \/ Reset(c)
             \/ Check(c) \/ Delete(c) \/ List(c) \/ Finish(c)
      PROVE  Addressed' /\ idOf' = idOf
  BY <1>4, <1>m, LeavesTable
<1>9. CASE OtherWrite \/ UNCHANGED storeVars
  BY <1>9 DEF OtherWrite, storeVars, Addressed, TenantOf, SlugOf
<1> QED
  BY <1>1, <1>2, <1>3, <1>4, <1>9 DEF Next, Statement

LEMMA AddressedInvariance ==
  ASSUME OneProcess
  PROVE  Spec => []Addressed
<1>1. Init => Addressed
  BY DEF Init, Idle, Addressed
<1>2. TypeInv /\ Addressed /\ [Next]_storeVars => Addressed'
  BY AddressedStep
<1> QED
  BY <1>1, <1>2, TypeInvariance, PTL DEF Spec

-----------------------------------------------------------------------------
(***************************************************************************)
(* The statements of a request implement UserTable as long as the UPDATE   *)
(* of a patch writes what a merge with the row it meets would write.  Two  *)
(* conditions on the patch see to that: no other client asks for a change  *)
(* of its row, or it leaves nothing of the row it has read.                *)
(***************************************************************************)
MergesCurrent ==
  \A c \in Clients :
    At(c, "patch", "exec") /\ users[Key(c)] # NoRow =>
      Merged(h[c].req, h[c].read) = Merged(h[c].req, users[Key(c)])

\* A patch that leaves no column of the row it has read to be written back: it names every column of
\* which there is more than one value.
Determined(named) == named # Nullopt \/ \A l, m \in Limits : l = m

Overwrites(r) == r.enabled # Nullopt /\ Determined(r.limit) /\ Determined(r.devices)

\* No other client asks for a change of the row of r, a request of c, whatever tenants there are.
HasRowToItself(c, r) ==
  \A d \in Clients \ {c} : \A q \in Asks[d] :
    q.op # "reset" /\ q.name = r.name =>
      \A f \in TenantTables : ResolvesTo(f, q.slug) # ResolvesTo(f, r.slug)

\* The row that such a patch has read is still there when it writes.
ReadHolds ==
  \A c \in Clients :
    At(c, "patch", "exec") /\ HasRowToItself(c, h[c].req) =>
      users[Key(c)] # NoRow /\ h[c].read = users[Key(c)]

\* What a step of one client leaves of the row another client's patch has read.
LEMMA RowLeftAlone ==
  ASSUME TypeInv, Addressed, NEW c \in Clients, At(c, "patch", "exec"),
         HasRowToItself(c, h[c].req), NEW d \in Clients \ {c}, Statement(d) \/ List(d) \/ Finish(d)
  PROVE  users'[Key(c)] = users[Key(c)]
<1>0. users \in [Keys -> Row \union {NoRow}]
  BY DEF TypeInv, TypeOK
<1>1. CASE UNCHANGED users
  BY <1>1
<1>2. CASE ~UNCHANGED users
  <2>1. Insert(d) \/ Update(d) \/ Delete(d)
    BY <1>2 DEF Statement, Begin, Resolve, Ensure, Enroll, Select, SelectNothing, InsertFails, Reset,
                Check, List, Finish, Refused
  <2>2. h[d].pc = "exec" /\ h[d].req.op # "reset"
    BY <2>1 DEF Insert, Update, Delete, At
  <2>3. h[d].req \in Asks[d] /\ h[c].pc = "exec"
    BY <2>2, BusyHandler DEF At
  <2>4. Key(d) # Key(c)
    BY <2>2, <2>3 DEF HasRowToItself, Addressed, TenantOf, SlugOf, Key
  <2>5. \E v : users' = [users EXCEPT ![Key(d)] = v]
    BY <1>2, <2>1 DEF Insert, Update, Delete, Refused
  <2> QED
    BY <1>0, <2>4, <2>5
<1> QED
  BY <1>1, <1>2

LEMMA ReadHoldsStep ==
  ASSUME TypeInv, Addressed, ReadHolds, [Next]_storeVars
  PROVE  ReadHolds'
<1> SUFFICES ASSUME NEW c \in Clients, At(c, "patch", "exec")', HasRowToItself(c, h[c].req)'
             PROVE  (users[Key(c)] # NoRow /\ h[c].read = users[Key(c)])'
  BY DEF ReadHolds
<1>1. CASE Select(c)
  BY <1>1, SelectFact DEF Select, Key
<1>2. CASE UNCHANGED storeVars \/ OtherWrite
  BY <1>2 DEF ReadHolds, OtherWrite, storeVars, At, Key, HasRowToItself
<1>3. CASE Resolve(c) \/ Ensure(c) \/ Enroll(c)
  BY <1>3, LookupFact DEF At, Moves
<1>4. CASE Begin(c) \/ SelectNothing(c) \/ Insert(c) \/ InsertFails(c) \/ Update(c) \/ Reset(c)
             \/ Check(c) \/ Delete(c) \/ List(c) \/ Finish(c)
  BY <1>4, LeavesTable DEF At, Moves
<1>5. ASSUME NEW d \in Clients \ {c}, Statement(d) \/ List(d) \/ Finish(d)
      PROVE  (users[Key(c)] # NoRow /\ h[c].read = users[Key(c)])'
  <2>1. h'[c] = h[c]
    BY <1>5, OthersStay
  <2>2. At(c, "patch", "exec") /\ HasRowToItself(c, h[c].req)
    BY <2>1 DEF At, HasRowToItself
  <2>3. users'[Key(c)] = users[Key(c)]
    BY <1>5, <2>2, RowLeftAlone
  <2> QED
    BY <2>1, <2>2, <2>3 DEF ReadHolds, Key
<1>6. CASE Next
  BY <1>1, <1>2, <1>3, <1>4, <1>5, <1>6 DEF Next, Statement
<1> QED
  BY <1>2, <1>6

\* No interleaving takes its row away from a patch that has the row to itself.
LEMMA ReadHoldsInvariance ==
  ASSUME OneProcess
  PROVE  Spec => []ReadHolds
<1>1. Init => ReadHolds
  BY DEF Init, Idle, ReadHolds, At
<1>2. TypeInv /\ Addressed /\ ReadHolds /\ [Next]_storeVars => ReadHolds'
  BY ReadHoldsStep
<1> QED
  BY <1>1, <1>2, TypeInvariance, AddressedInvariance, PTL DEF Spec

\* Each patch has its row to itself or writes nothing back.
PatchesIndependent ==
  \A c \in Clients : \A r \in Asks[c] :
    r.op = "patch" => Overwrites(r) \/ HasRowToItself(c, r)

\* Such patches merge with the row in the table.
LEMMA MergeHolds ==
  ASSUME PatchesIndependent, TypeInv, ReadHolds
  PROVE  MergesCurrent
<1> SUFFICES ASSUME NEW c \in Clients, At(c, "patch", "exec"), users[Key(c)] # NoRow
             PROVE  Merged(h[c].req, h[c].read) = Merged(h[c].req, users[Key(c)])
  BY DEF MergesCurrent
<1>1. h[c].req \in Asks[c] /\ h[c].req.op = "patch" /\ Key(c) \in Keys
  BY BusyHandler DEF At
<1>2. CASE HasRowToItself(c, h[c].req)
  BY <1>2 DEF ReadHolds
<1>3. CASE Overwrites(h[c].req)
  <2>1. h[c].read \in Row /\ users[Key(c)] \in Row
    BY <1>1 DEF TypeInv, TypeOK
  <2>2. /\ h[c].read.limit \in Limits /\ users[Key(c)].limit \in Limits
        /\ h[c].read.devices \in Limits /\ users[Key(c)].devices \in Limits
    BY <2>1 DEF Row
  <2>3. /\ h[c].req.enabled # Nullopt
        /\ h[c].req.limit # Nullopt \/ h[c].read.limit = users[Key(c)].limit
        /\ h[c].req.devices # Nullopt \/ h[c].read.devices = users[Key(c)].devices
    BY <1>3, <2>2 DEF Overwrites, Determined
  <2> QED
    BY <2>3 DEF Merged, ValueOr
<1> QED
  BY <1>1, <1>2, <1>3 DEF PatchesIndependent

-----------------------------------------------------------------------------
\* The request of c as UserTable sees it.
Req(c) == AddressedTo(TenantOf(c), h[c].req)

\* What the refinement mapping makes of a step that moves the handler of c.
LEMMA PendingFact ==
  ASSUME TypeInv, NEW c \in Clients, h' \in [Clients -> Handler], idOf' = idOf,
         \A d \in Clients \ {c} : h'[d] = h[d]
  PROVE  /\ Pending' = [Pending EXCEPT ![c] = IF h'[c].pc \in {"resolve", "select", "exec"}
                                               THEN Req(c)' ELSE Nullopt]
         /\ h[c].pc \in {"resolve", "select", "exec"} => Pending[c] = Req(c) /\ Req(c) # Nullopt
         /\ h[c].pc \notin {"resolve", "select", "exec"} => Pending[c] = Nullopt
<1>1. h[c].pc # "idle" => Req(c) # Nullopt
  <2> SUFFICES ASSUME h[c].pc # "idle" PROVE Req(c) # Nullopt
    OBVIOUS
  <2>1. h[c].req \in RequestType /\ TenantOf(c) \in Ids
    BY BusyHandler, StoreAssumption
       DEF TypeInv, TypeOK, TenantOf, SlugOf, ResolvesTo, Ids, FallbackTenant
  <2> QED
    BY <2>1, StoreAssumption DEF Req
<1>2. Pending' = [Pending EXCEPT ![c] = IF h'[c].pc \in {"resolve", "select", "exec"}
                                          THEN Req(c)' ELSE Nullopt]
  BY DEF Pending, Req, TenantOf, SlugOf
<1> QED
  BY <1>1, <1>2 DEF Pending, Req, TenantOf, SlugOf

\* The write statement of a request is its one step of UserTable.
LEMMA ApplyFact ==
  ASSUME OneProcess, TypeInv, Addressed, MergesCurrent, NEW c \in Clients,
         Insert(c) \/ Update(c) \/ Delete(c), h' \in [Clients -> Handler],
         Pending[c] = Req(c), Pending[c] # Nullopt,
         Pending' = [Pending EXCEPT ![c] = Nullopt]
  PROVE  Table!Apply(c) \/ Table!Drop(c)
<1>1. /\ Table!KeyOf(Req(c)) = Key(c) /\ Key(c) \in Keys
      /\ users \in [Keys -> Row \union {NoRow}]
  <2>1. h[c].pc = "exec"
    BY DEF Insert, Update, Delete, At
  <2> QED
    BY <2>1, BusyHandler DEF Addressed, Table!KeyOf, Key, Req, AddressedTo, TypeInv, TypeOK
<1>2. CASE Insert(c)
  <2>1. Req(c).op = "create" /\ users[Key(c)] = NoRow
    BY <1>2 DEF Insert, At, Req, AddressedTo
  <2>2. Table!Allowed(Req(c))
    BY <1>1, <2>1 DEF Table!Allowed
  <2>3. Table!Effect(Req(c)) = NewRow(h[c].req)
    BY <2>1 DEF Table!Effect, NewRow, Req, AddressedTo
  <2>4. users' = [users EXCEPT ![Key(c)] = Table!Effect(Req(c))]
    BY <1>2, <2>3 DEF Insert
  <2> QED
    BY <1>1, <2>2, <2>4 DEF Table!Apply
<1>3. CASE Update(c)
  <2>1. Req(c).op = "patch" /\ At(c, "patch", "exec") /\ ~Refused(c)
    BY <1>3, NoContention DEF Update, At, Req, AddressedTo, Refused
  <2>2. CASE users[Key(c)] # NoRow
    <3>1. users' = [users EXCEPT ![Key(c)] = Merged(h[c].req, users[Key(c)])]
      BY <1>3, <2>1, <2>2 DEF Update, MergesCurrent
    <3>2. Table!Allowed(Req(c))
      BY <1>1, <2>1, <2>2 DEF Table!Allowed
    <3>3. Table!Effect(Req(c)) = Merged(h[c].req, users[Key(c)])
      BY <1>1, <2>1 DEF Table!Effect, Merged, ValueOr, Table!Column, Req, AddressedTo
    <3> QED
      BY <1>1, <3>1, <3>2, <3>3 DEF Table!Apply
  <2>3. CASE users[Key(c)] = NoRow
    BY <1>3, <2>1, <2>3 DEF Update, Table!Drop
  <2> QED
    BY <2>2, <2>3
<1>4. CASE Delete(c)
  <2>1. Req(c).op = "delete" /\ users' = [users EXCEPT ![Key(c)] = NoRow]
    BY <1>4, NoContention DEF Delete, At, Req, AddressedTo
  <2>2. CASE users[Key(c)] # NoRow
    <3>1. Table!Allowed(Req(c)) /\ Table!Effect(Req(c)) = NoRow
      BY <1>1, <2>1, <2>2 DEF Table!Allowed, Table!Effect
    <3> QED
      BY <1>1, <2>1, <3>1 DEF Table!Apply
  <2>3. CASE users[Key(c)] = NoRow
    <3>1. users' = users
      BY <1>1, <2>1, <2>3
    <3> QED
      BY <3>1 DEF Table!Drop
  <2> QED
    BY <2>2, <2>3
<1> QED
  BY <1>2, <1>3, <1>4

LEMMA TableStep ==
  ASSUME OneProcess, TypeInv, Addressed, MergesCurrent, [Next]_storeVars
  PROVE  [Table!Next]_(Table!vars)
<1> USE DEF Table!vars
<1>0. TypeOK /\ (TypeInv)' /\ h' \in [Clients -> Handler] /\ idOf' = idOf
  BY TypeInvStep, AddressedStep DEF TypeInv, TypeOK
<1>p. ASSUME NEW c \in Clients, Statement(c) \/ List(c) \/ Finish(c)
      PROVE  /\ Pending' = [Pending EXCEPT ![c] = IF h'[c].pc \in {"resolve", "select", "exec"}
                                                   THEN Req(c)' ELSE Nullopt]
             /\ h[c].pc \in {"resolve", "select", "exec"} => Pending[c] = Req(c) /\ Req(c) # Nullopt
             /\ h[c].pc \notin {"resolve", "select", "exec"} => Pending[c] = Nullopt
  BY <1>0, <1>p, OthersStay, PendingFact
<1>k. ASSUME NEW c \in Clients, Pending' = [Pending EXCEPT ![c] = Pending[c]]
      PROVE  Pending' = Pending
  BY <1>k DEF Pending
<1>1. CASE UNCHANGED storeVars \/ OtherWrite
  BY <1>1 DEF storeVars, OtherWrite, Pending
<1>2. ASSUME NEW c \in Clients, Begin(c) PROVE Table!Next
  <2>1. PICK r \in Asks[c] : h' = [h EXCEPT ![c].pc = "resolve", ![c].req = r]
    BY <1>2 DEF Begin
  <2>2. r \in RequestType
    BY StoreAssumption
  <2>3. h'[c].pc = "resolve" /\ h'[c].req = r
    BY <1>0, <2>1, <2>2, MovesWithRequest DEF Moves, Steps
  <2>4. PICK t \in Ids : t = TenantOf(c)'
    <3>1. TenantOf(c)' = ResolvesTo(idOf, r.slug) /\ r.slug \in Slugs
      BY <1>0, <2>2, <2>3 DEF TenantOf, SlugOf, RequestType
    <3> QED
      BY <3>1, StoreAssumption DEF ResolvesTo, TypeInv, TypeOK, Ids, FallbackTenant
  <2>5. Pending[c] = Nullopt /\ Pending' = [Pending EXCEPT ![c] = AddressedTo(t, r)]
    BY <1>2, <1>p, <2>3, <2>4 DEF Begin, Statement, Req
  <2>6. AddressedTo(t, r) \in AddressedAsks
    <3>1. r \in UNION {Asks[d] : d \in Clients}
      OBVIOUS
    <3> QED
      BY <3>1 DEF AddressedAsks
  <2>7. users' = users
    BY <1>2 DEF Begin
  <2>8. Table!Ask(c)
    BY <2>5, <2>6, <2>7 DEF Table!Ask
  <2> QED
    BY <2>8 DEF Table!Next
<1>3. ASSUME NEW c \in Clients, Resolve(c) \/ Ensure(c) \/ Enroll(c) \/ Select(c)
      PROVE  UNCHANGED <<users, Pending>>
  <2>1. ~Ensure(c) /\ ~Enroll(c)
    BY DEF Addressed, Ensure, Enroll
  <2>2. h'[c].req = h[c].req /\ h'[c].pc \in {"ensure", "enroll", "select", "exec"} /\ users' = users
    BY <1>3, LookupFact, SelectFact DEF Moves
  <2>3. h'[c].pc \in {"select", "exec"} /\ h[c].pc \in {"resolve", "select"}
    BY <1>3, <2>1, <2>2, AddressedStep DEF Addressed, Resolve, Select, At
  <2>4. Req(c)' = Req(c)
    BY <1>0, <2>2 DEF Req, TenantOf, SlugOf
  <2>5. Pending' = [Pending EXCEPT ![c] = Req(c)] /\ Pending[c] = Req(c)
    BY <1>3, <1>p, <2>3, <2>4 DEF Statement
  <2> QED
    BY <1>k, <2>2, <2>5
<1>4. ASSUME NEW c \in Clients,
             \/ SelectNothing(c) \/ InsertFails(c) \/ Reset(c)
             \/ Insert(c) \/ Update(c) \/ Delete(c)
      PROVE  Table!Next
  <2>1. h'[c].pc \in {"idle", "list", "check"}
    BY <1>0, <1>4 DEF SelectNothing, InsertFails, Reset, Insert, Update, Delete, Completed, Refused,
                      Idle, TypeOK, Handler
  <2>2. h[c].pc \in {"select", "exec"}
    BY <1>4 DEF SelectNothing, InsertFails, Reset, Insert, Update, Delete, At
  <2>3. /\ Pending[c] = Req(c) /\ Pending[c] # Nullopt
        /\ Pending' = [Pending EXCEPT ![c] = Nullopt]
    BY <1>4, <2>1, <2>2, <1>p DEF Statement
  <2>4. CASE Insert(c) \/ Update(c) \/ Delete(c)
    BY <1>0, <2>3, <2>4, ApplyFact DEF Table!Next
  <2>5. CASE SelectNothing(c) \/ InsertFails(c) \/ Reset(c)
    BY <2>3, <2>5 DEF Table!Next, Table!Drop, SelectNothing, InsertFails, Reset, Refused
  <2> QED
    BY <1>4, <2>4, <2>5
<1>5. ASSUME NEW c \in Clients, Check(c) \/ List(c) \/ Finish(c)
      PROVE  UNCHANGED <<users, Pending>>
  <2>1. h'[c].pc \in {"idle", "list", "sync"} /\ h[c].pc \in {"check", "list", "sync"}
    BY <1>0, <1>5 DEF Check, List, Finish, Idle, TypeOK, Handler
  <2>2. Pending' = [Pending EXCEPT ![c] = Nullopt] /\ Pending[c] = Nullopt
    BY <1>5, <2>1, <1>p DEF Statement
  <2>3. Pending' = Pending
    BY <1>k, <2>2
  <2> QED
    BY <1>5, <2>3 DEF Check, List, Finish
<1> QED
  BY <1>1, <1>2, <1>3, <1>4, <1>5 DEF Next, Statement

\* Patches that merge with the row in the table are all the refinement needs.
LEMMA TableRefinement ==
  ASSUME OneProcess
  PROVE  Spec /\ []MergesCurrent => ImplementsTable
<1>1. Init => Table!Init
  BY DEF Init, Idle, Table!Init, Pending
<1>2. TypeInv /\ Addressed /\ MergesCurrent /\ [Next]_storeVars => [Table!Next]_(Table!vars)
  BY TableStep
<1> QED
  BY <1>1, <1>2, TypeInvariance, AddressedInvariance, PTL DEF Spec, ImplementsTable, Table!Spec

\* The statements of each request, taken together, are the one atomic operation of UserTable,
\* whatever the slugs, tenants, names, requests, other statements and number of threads, when each patch
\* either has its row to itself or leaves no column to be written back: it takes two requests for one
\* row to undo a change between update_user's SELECT and its UPDATE, and a column left out.
THEOREM IndependentPatchesImplementTable ==
  ASSUME PatchesIndependent, OneProcess
  PROVE  Spec => ImplementsTable
<1>1. TypeInv /\ ReadHolds => MergesCurrent
  BY MergeHolds
<1> QED
  BY <1>1, TableRefinement, ReadHoldsInvariance, TypeInvariance, PTL

\* In particular with one handler at a time (update_user's SELECT, merge and UPDATE see one row).
OneHandler == \A c, d \in Clients : c = d

THEOREM OneHandlerImplementsTable ==
  ASSUME OneHandler, OneProcess
  PROVE  Spec => ImplementsTable
<1>1. PatchesIndependent
  BY DEF OneHandler, PatchesIndependent, HasRowToItself
<1> QED
  BY <1>1, IndependentPatchesImplementTable
=============================================================================
