----------------------------- MODULE PipeQueue ------------------------------
(***************************************************************************)
(* What a pipe promises to the processes at its two ends: a queue of at    *)
(* most Capacity bytes, which come out in the order they went in, each     *)
(* once, as long as both ends exist; what is in it when the writing end    *)
(* goes away can still be read.                                            *)
(***************************************************************************)
EXTENDS Integers, Sequences

CONSTANTS Pipe, Byte, Capacity

VARIABLES q, reader, writer   \* for each pipe: contents, and whether an end is open

vars == <<q, reader, writer>>

Init ==
  /\ q = [pi \in Pipe |-> <<>>]
  /\ reader = [pi \in Pipe |-> FALSE] /\ writer = [pi \in Pipe |-> FALSE]

Create(pi) ==
  /\ ~reader[pi] /\ ~writer[pi]
  /\ q' = [q EXCEPT ![pi] = <<>>]
  /\ reader' = [reader EXCEPT ![pi] = TRUE] /\ writer' = [writer EXCEPT ![pi] = TRUE]

Put(pi, b) ==
  /\ reader[pi] /\ writer[pi] /\ Len(q[pi]) < Capacity
  /\ q' = [q EXCEPT ![pi] = Append(@, b)]
  /\ UNCHANGED <<reader, writer>>

Get(pi) ==
  /\ reader[pi]
  /\ \E k \in 1..Len(q[pi]) : q' = [q EXCEPT ![pi] = SubSeq(@, k + 1, Len(@))]
  /\ UNCHANGED <<reader, writer>>

CloseReader(pi) ==
  /\ reader[pi] /\ reader' = [reader EXCEPT ![pi] = FALSE]
  /\ UNCHANGED writer
  /\ q' = IF writer[pi] THEN q ELSE [q EXCEPT ![pi] = <<>>]

CloseWriter(pi) ==
  /\ writer[pi] /\ writer' = [writer EXCEPT ![pi] = FALSE]
  /\ UNCHANGED reader
  /\ q' = IF reader[pi] THEN q ELSE [q EXCEPT ![pi] = <<>>]

Next == \E pi \in Pipe :
  \/ Create(pi) \/ Get(pi) \/ CloseReader(pi) \/ CloseWriter(pi)
  \/ \E b \in Byte : Put(pi, b)

Spec == Init /\ [][Next]_vars
=============================================================================
