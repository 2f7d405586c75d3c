---------------------------- MODULE MCPanelSync ----------------------------
(***************************************************************************)
(* Instances of PanelSync for TLC.                                         *)
(***************************************************************************)
EXTENDS PanelSync

CONSTANTS t1, t2    \* two handler threads of the panel

MCConnOf == [c \in Clients |-> "panel"]

\* Two tenants; a request that names a third one works on tenant 1.
MCTables == {[s \in Slugs |-> CASE s = "home" -> 1 [] s = "other" -> 2 [] OTHER -> 0]}

\* One unit of text for what every configuration contains and one or two for each user.
MCLength ==
  [k \in {"xray", "hysteria"} |->
     [S \in SUBSET Keys |-> 1 + (IF k = "xray" THEN 2 ELSE 1) * Cardinality(S)]]

Request(op, slug, enabled) ==
  {[op |-> op, slug |-> slug, name |-> n, enabled |-> enabled, limit |-> 0, devices |-> 0] :
     n \in Names}

\* Every request that changes which users are enabled.
MCAsks ==
  [c \in Clients |->
     UNION {Request("create", s, Nullopt) \union Request("delete", s, Nullopt)
              \union Request("patch", s, 0) \union Request("patch", s, 1) : s \in Slugs}]

\* One client creates a user of either tenant and disables that of the first, the other deletes it
\* and creates that of the second.
MCFewAsks ==
  [c \in Clients |->
     IF c = t1 THEN Request("create", "home", Nullopt) \union Request("create", "other", Nullopt)
                      \union Request("patch", "home", 0)
               ELSE Request("delete", "unknown", Nullopt) \union Request("create", "other", Nullopt)]
=============================================================================
