----------------------------- MODULE MCResolve -----------------------------
(* Two calls, a pool of one thread. *)
EXTENDS Resolve

CONSTANTS c1, c2
=============================================================================
