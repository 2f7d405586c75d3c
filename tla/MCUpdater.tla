----------------------------- MODULE MCUpdater -----------------------------
(***************************************************************************)
(* Updater for TLC: three updates, releases of two files.                  *)
(***************************************************************************)
EXTENDS Updater, TLC

CONSTANTS u1, u2, u3, binary, scripts

Symmetry == Permutations(Updates)
=============================================================================
