------------------------------ MODULE MCInode -------------------------------
(* Files and inodes are interchangeable. *)
EXTENDS Inode, TLC

Symmetry == Permutations(File) \cup Permutations(Inode)
=============================================================================
