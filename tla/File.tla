-------------------------------- MODULE File --------------------------------
(***************************************************************************)
(* The table of open files, kernel/file.c, and the descriptors of each     *)
(* process that point into it.  Every operator is one critical section of  *)
(* ftable.lock, or work on the caller's own descriptors.                   *)
(***************************************************************************)
EXTENDS Integers, Sequences, FiniteSets, SequencesExt

CONSTANTS Proc, NULL, NFILE, NOFILE

ASSUME FileAssumption ==
  /\ IsFiniteSet(Proc) /\ NFILE \in Nat /\ NOFILE \in Nat

VARIABLES
  ftable,   \* ftable[f]: struct file; obj is its pipe or its inode
  ofile     \* ofile[p][fd]: the file p has open as descriptor fd

Fd == 0..(NOFILE - 1)
FileNo == 0..(NFILE - 1)
Lowest(S) == CHOOSE x \in S : \A y \in S : x <= y

FreshFile == [ref |-> 0, type |-> "FD_NONE", obj |-> NULL, readable |-> FALSE,
              writable |-> FALSE, off |-> 0]
NoFiles == [fd \in Fd |-> NULL]

FileInit ==
  /\ ftable = [f \in FileNo |-> FreshFile]
  /\ ofile = [p \in Proc |-> NoFiles]

(* filealloc returns f, or 0. *)
Unused == {f \in FileNo : ftable[f].ref = 0}
filealloc(f) ==
  /\ Unused # {} /\ f = Lowest(Unused)
  /\ ftable' = [ftable EXCEPT ![f].ref = 1]

filedup(f) == ftable' = [ftable EXCEPT ![f].ref = @ + 1]

(* fileclose: the caller that takes ref to 0 has a copy of the file, frees *)
(* the entry, and goes on to close what the file stands for.               *)
LastClose(f) == ftable[f].ref = 1
fileclose(f) ==
  ftable' = [ftable EXCEPT ![f] =
               IF LastClose(f) THEN [@ EXCEPT !.ref = 0, !.type = "FD_NONE"]
               ELSE [@ EXCEPT !.ref = @ - 1]]

(* fdalloc: the lowest descriptor that is not in use. *)
FreeFds(p) == {fd \in Fd : ofile[p][fd] = NULL}
fdalloc(p, f) == [ofile EXCEPT ![p][Lowest(FreeFds(p))] = f]

(* The files p has open, in the order in which exit closes them. *)
OpenFiles(p) == SelectSeq([i \in 1..NOFILE |-> ofile[p][i - 1]], LAMBDA f : f # NULL)
=============================================================================
