----------------------------- MODULE AtomicDisk -----------------------------
(***************************************************************************)
(* What the log of kernel/log.c promises: a disk on which the blocks       *)
(* written between begin_op and end_op reach stable storage together or    *)
(* not at all, whatever is running when the machine crashes.               *)
(***************************************************************************)
EXTENDS Integers

CONSTANTS Block, Val

VARIABLES cur,      \* what file-system calls read
          stable,   \* what a crash goes back to
          open      \* how many calls are between begin_op and end_op

vars == <<cur, stable, open>>

Init == cur \in [Block -> Val] /\ stable = cur /\ open = 0

Begin == open' = open + 1 /\ UNCHANGED <<cur, stable>>
End   == open > 0 /\ open' = open - 1 /\ UNCHANGED <<cur, stable>>

(* Only a call that is open may write. *)
Write == \E b \in Block, v \in Val :
  open > 0 /\ cur' = [cur EXCEPT ![b] = v] /\ UNCHANGED <<stable, open>>

(* A commit takes in every write, and no half-done call. *)
Commit == open = 0 /\ stable' = cur /\ UNCHANGED <<cur, open>>

Crash == cur' = stable /\ open' = 0 /\ UNCHANGED stable

Next == Begin \/ End \/ Write \/ Commit \/ Crash

Spec == Init /\ [][Next]_vars
=============================================================================
