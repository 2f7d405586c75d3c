----------------------------- MODULE MCTenants -----------------------------
(***************************************************************************)
(* Tenants for TLC: two CLI processes and a handler thread, the default    *)
(* tenant and another, which requests may name before it exists.           *)
(***************************************************************************)
EXTENDS Tenants, TLC

CONSTANTS c1, c2, panel, t1, default, acme, n

Symmetry == Permutations(Clis)
=============================================================================
