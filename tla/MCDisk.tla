------------------------------- MODULE MCDisk -------------------------------
(* Processes, blocks and contents are interchangeable. *)
EXTENDS Disk, TLC

Symmetry == Permutations(Proc) \cup Permutations(Block) \cup Permutations(Val)
=============================================================================
