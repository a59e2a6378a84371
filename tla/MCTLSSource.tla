---------------------------- MODULE MCTLSSource ----------------------------
(***************************************************************************)
(* Two handshakes that wait for one another, and each file rewritten once, *)
(* the bundle twice: together, one by one in any order, or in place.       *)
(***************************************************************************)
EXTENDS TLSSource, TLC

MCRewrites == [cert |-> 1, key |-> 1, bundle |-> 2]

Symmetry == Permutations(Procs)
=============================================================================
