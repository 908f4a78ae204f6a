------------------------------- MODULE MCBio -------------------------------
(* Instances of the buffer cache for TLC. *)
EXTENDS Bio, TLC

Symmetry == Permutations(Procs) \cup Permutations(Blocks)
=============================================================================
