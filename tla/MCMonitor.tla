----------------------------- MODULE MCMonitor -----------------------------
(***************************************************************************)
(* Monitor for TLC: two handler threads.                                   *)
(***************************************************************************)
EXTENDS Monitor, TLC

CONSTANTS t1, t2

Symmetry == Permutations(Threads)
=============================================================================
