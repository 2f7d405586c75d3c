---------------------------- MODULE MCUserStore ----------------------------
(***************************************************************************)
(* Instances of UserStore for TLC.                                         *)
(***************************************************************************)
EXTENDS UserStore

CONSTANTS t1, t2, cli, cli2    \* two handler threads of the panel and two CLI processes

\* The threads of the panel share one connection; each CLI process has its own.
MCConnOf == [c \in Clients |-> IF c \in {cli, cli2} THEN c ELSE "panel"]

\* The tenant "home" is there from the start, the tenant "new" may be.
MCTables == {[s \in Slugs |-> IF s = "home" THEN 1 ELSE i] : i \in {0, 2}}

Request(op, slug, enabled, limit, devices) ==
  {[op |-> op, slug |-> slug, name |-> n, enabled |-> enabled, limit |-> limit, devices |-> devices] :
     n \in Names}

Plain(op, slug) == Request(op, slug, Nullopt, 0, 0)

\* Every request, with patches of one column or of several.
MCAsksAll ==
  [c \in Clients |->
     UNION {UNION {Plain(op, s) : op \in {"create", "reset", "delete"}, s \in Slugs},
            UNION {Request("patch", s, e, l, d) :
                     s \in Slugs, e \in {0, 1, Nullopt}, l, d \in {0, 1, Nullopt}}}]

\* Two handlers that can disturb each other.
MCAsksThreads ==
  [c \in Clients |->
     IF c = t1 THEN Plain("create", "home") \union Plain("delete", "home")
                      \union Request("patch", "home", 0, Nullopt, Nullopt)
               ELSE Request("patch", "home", Nullopt, 1, Nullopt) \union Plain("delete", "home")
                      \union Plain("reset", "home")]

\* Only the tenant "home" is there, and two CLI processes create others.
MCTablesHome == {[s \in Slugs |-> IF s = "home" THEN 1 ELSE 0]}

\* A handler of the panel and two CLI processes.
MCAsksClis ==
  [c \in Clients |->
     CASE c = t1   -> Plain("create", "home") \union Plain("delete", "new")
       [] c = cli  -> Plain("create", "new") \union Plain("reset", "new")
                        \union Request("patch", "new", 0, Nullopt, Nullopt)
       [] c = cli2 -> Plain("create", "newer")]
=============================================================================
