------------------------------ MODULE MCInode ------------------------------
(* Instances of the inode cache for TLC. *)
EXTENDS Inode, TLC

Symmetry == Permutations(Procs) \cup Permutations(Names) \cup Permutations(Blocks)
=============================================================================
