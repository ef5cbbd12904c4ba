---------------------------- MODULE MCPooledWork ----------------------------
(* Small instances of PooledWork for TLC. *)
EXTENDS PooledWork, TLC

Symmetry == Permutations(Calls) \cup Permutations(Conns) \cup Permutations(Orgs)
=============================================================================
