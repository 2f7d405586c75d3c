---------------------------- MODULE MCCoreConfig ----------------------------
(***************************************************************************)
(* Instances of CoreConfig for TLC.  A text has one unit for what every    *)
(* configuration of the core contains and some units for each user; a      *)
(* BufSize between the shortest and the longest text lets some texts stay  *)
(* in the buffer and others go to the file at once.                        *)
(***************************************************************************)
EXTENDS CoreConfig, FiniteSets

CONSTANTS a, b, c1, c2, c3

MCLength ==
  [k \in Cores |-> [S \in SUBSET Users |-> 1 + (IF k = "xray" THEN 2 ELSE 1) * Cardinality(S)]]

\* The lists two subsequent requests can read: nobody, one user, both.
MCListings == {{}, {a}, {a, b}}

=============================================================================
