----------------------------- MODULE MCStartup ------------------------------
(* Small instances of Startup for TLC. *)
EXTENDS Startup

Symmetry == Permutations(Requests)

TwoSecrets == {"JWT_SECRET", "ARGON_PEPPER"}
=============================================================================
