------------------------------- MODULE MCProc -------------------------------
(* Instances of the process table for TLC. *)
EXTENDS Proc, TLC

Symmetry == Permutations(CPUs)
=============================================================================
