----------------------------- MODULE BlockStore -----------------------------
(***************************************************************************)
(* What the buffer cache and the disk driver promise: a store of blocks.   *)
(* A process that has a block to itself sees what was stored last, may     *)
(* store something new, and may make it reach the disk.                    *)
(***************************************************************************)
CONSTANTS Proc, Block, Val, NULL

VARIABLES
  mem,     \* the contents of every block
  stable,  \* what the disk has of it
  owner    \* the process that has locked it

vars == <<mem, stable, owner>>

Init ==
  /\ mem \in [Block -> Val] /\ stable = mem
  /\ owner = [b \in Block |-> NULL]

Lock(p, b) ==
  /\ owner[b] = NULL /\ owner' = [owner EXCEPT ![b] = p]
  /\ UNCHANGED <<mem, stable>>

Unlock(p, b) ==
  /\ owner[b] = p /\ owner' = [owner EXCEPT ![b] = NULL]
  /\ UNCHANGED <<mem, stable>>

Store(p, b, v) ==
  /\ owner[b] = p /\ mem' = [mem EXCEPT ![b] = v]
  /\ UNCHANGED <<stable, owner>>

Flush(p, b) ==
  /\ owner[b] = p /\ stable' = [stable EXCEPT ![b] = mem[b]]
  /\ UNCHANGED <<mem, owner>>

Next == \E p \in Proc, b \in Block :
  Lock(p, b) \/ Unlock(p, b) \/ Flush(p, b) \/ \E v \in Val : Store(p, b, v)

Spec == Init /\ [][Next]_vars
=============================================================================
