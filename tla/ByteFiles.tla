----------------------------- MODULE ByteFiles ------------------------------
(***************************************************************************)
(* What inodes and open files are to their users: sequences of bytes, and  *)
(* positions in them from which one reads and writes on.                   *)
(***************************************************************************)
EXTENDS Integers, Sequences

CONSTANTS Inode, File, Byte, MaxBytes

VARIABLES
  bytes,   \* bytes[i]: the contents of file i
  kept,    \* kept[i]: the same without what failed writes have left there
  at       \* at[f]: the inode an open file is for, 0 if none, and its offset

Init ==
  /\ bytes = [i \in Inode |-> <<>>] /\ kept = bytes
  /\ at = [f \in File |-> [ip |-> 0, off |-> 0]]

Empty(i) == bytes' = [bytes EXCEPT ![i] = <<>>] /\ kept' = [kept EXCEPT ![i] = <<>>]

(* Open at the start, after emptying the file or not. *)
Open(f, i, trunc) ==
  /\ at[f].ip = 0
  /\ at' = [at EXCEPT ![f] = [ip |-> i, off |-> 0]]
  /\ IF trunc THEN Empty(i) ELSE UNCHANGED <<bytes, kept>>

Close(f) ==
  /\ at' = [at EXCEPT ![f] = [ip |-> 0, off |-> 0]]
  /\ UNCHANGED <<bytes, kept>>

(* Remove a file nobody has open. *)
Remove(i) ==
  /\ UNCHANGED at
  /\ \A f \in File : at[f].ip # i
  /\ Empty(i)

Read(f, n) ==
  /\ at[f].ip # 0
  /\ at' = [at EXCEPT ![f].off = @ + n]
  /\ at[f].off + n <= Len(bytes[at[f].ip])
  /\ UNCHANGED <<bytes, kept>>

(* g is s but for places where it is t. *)
Between(g, s, t) == Len(g) = Len(s) /\ \A j \in DOMAIN g : g[j] \in {s[j], t[j]}

(* Bytes off + 1 to off + n of s are v from now on. *)
Put(s, off, n, v) ==
  [j \in 1..(IF off + n > Len(s) THEN off + n ELSE Len(s)) |-> IF j > off /\ j <= off + n THEN v ELSE s[j]]

(* No file but i changes. *)
Only(i) == \A j \in Inode \ {i} : bytes'[j] = bytes[j] /\ kept'[j] = kept[j]

(* Write n bytes at the offset, which is not past the end.  A write that   *)
(* fails may have changed k more bytes that were there already, not to be  *)
(* kept; but a write may keep what earlier ones have left.                 *)
Write(f, n) ==
  LET i == at[f].ip
      off == at[f].off
      old == bytes[i]
      new == bytes'[i]
  IN  /\ i # 0 /\ at' = [at EXCEPT ![f].off = @ + n]
      /\ off <= Len(old)
      /\ \E v \in Byte, k \in 0..MaxBytes :
           /\ k > 0 => off + n + k <= Len(old)
           /\ new = Put(old, off, n + k, v)
           /\ Between(kept'[i], Put(kept[i], off, n, v), new)
      /\ Only(i)

(* What failed writes have left is taken back, all of it or in part. *)
Revert(i) ==
  /\ UNCHANGED <<at, kept>> /\ Only(i)
  /\ Between(bytes'[i], bytes[i], kept[i])

Next ==
  \/ \E f \in File, n \in 0..MaxBytes : Write(f, n) \/ Read(f, n)
  \/ \E f \in File, i \in Inode, trunc \in BOOLEAN : Open(f, i, trunc)
  \/ \E f \in File : Close(f)
  \/ \E i \in Inode : Remove(i) \/ Revert(i)

Spec == Init /\ [][Next]_<<at, bytes, kept>>
=============================================================================
