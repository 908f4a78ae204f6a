------------------------------- MODULE MCLog -------------------------------
(* Instances of the log for TLC. *)
EXTENDS Log, TLC

Symmetry == Permutations(Procs) \cup Permutations(Blocks)
=============================================================================
