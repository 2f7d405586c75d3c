------------------------------- MODULE MCHost -------------------------------
(***************************************************************************)
(* Host for TLC: a thread of the panel and a CLI process, one user.        *)
(***************************************************************************)
EXTENDS Host

CONSTANTS a, t1, cli

\* Every sync lists the user, every script nobody.
MCListings == {{a}}

\* The text of provision-xray.sh is longer than that of a sync, and both are longer than the
\* buffer; Hysteria's fit it.
MCLength ==
  [k \in Cores |-> [S \in SUBSET {a} |->
     CASE k = "xray"     -> IF S = {} THEN 5 ELSE 4
       [] k = "hysteria" -> 2]]
=============================================================================
