-------------------------- MODULE MCSecurityPolicy --------------------------
(* A small instance of SecurityPolicy for TLC. *)
EXTENDS SecurityPolicy, TLC

Symmetry == Permutations(Requests)
=============================================================================
