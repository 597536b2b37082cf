--------------------------- MODULE MCKeyRotation ---------------------------
(* Instances of KeyRotation for TLC. *)
EXTENDS KeyRotation, TLC

\* Channels are created, deleted and encrypted alike.
Symmetry == Permutations(Channels)
=============================================================================
