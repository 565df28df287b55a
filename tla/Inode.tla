------------------------------- MODULE Inode --------------------------------
(***************************************************************************)
(* The contents of files: block allocation, the block map of an inode and  *)
(* the reads and writes through it (kernel/fs.c), by open files that have  *)
(* an offset each (file.c).                                                *)
(*                                                                         *)
(* A step is what is done while the inode is locked.  filewrite does       *)
(* several, and other processes' steps come between them.  A set of state  *)
(* and of the blocks given to log_write is handed through the functions of *)
(* the code: a disk s = [used, ino, blk, home, logged].  The step is also  *)
(* a transaction that commits; home is what it leaves on the disk, and     *)
(* differs from a cached block that was changed without log_write.         *)
(***************************************************************************)
EXTENDS Integers, Sequences, FiniteSets

CONSTANTS
  File, Inode,           \* a process writes the name of its file, as a byte
  NBLOCKS,               \* bound: blocks for data, numbered from 1
  BSIZE, NDIRECT, NINDIRECT,
  MAXOPBLOCKS,
  Counts                 \* bound: the numbers of bytes in a read or write

ASSUME InodeAssumption ==
  /\ {BSIZE, NDIRECT, NINDIRECT, MAXOPBLOCKS} \subseteq Nat \ {0}
  /\ NINDIRECT <= BSIZE /\ 0 \notin File /\ Counts \subseteq Nat \ {0}

Block == 1..NBLOCKS
MAXFILE == NDIRECT + NINDIRECT

VARIABLES
  disk,   \* used: the bitmap; ino[i]: size and addrs; blk[b]: the contents,
          \* as the buffer cache has them; home[b]: as the disk has them;
          \* logged: the blocks a transaction has written so far
  at,     \* at[f]: ip and off of an open file, ip = 0 if it is not in use
  left    \* left[f]: bytes left of the write that f is used for

vars == <<disk, at, left>>

NoAddrs == [k \in 0..NDIRECT |-> 0]
Zeroes == [k \in 0..(BSIZE - 1) |-> 0]
Stale == [k \in 0..(BSIZE - 1) |-> 1]
Closed == [ip |-> 0, off |-> 0]

Init ==
  /\ disk = [used |-> {}, ino |-> [i \in Inode |-> [size |-> 0, addrs |-> NoAddrs]],
             blk |-> [b \in Block |-> Stale], home |-> [b \in Block |-> Stale], logged |-> {}]
  /\ at = [f \in File |-> Closed] /\ left = [f \in File |-> 0]

-----------------------------------------------------------------------------
(* Blocks.                                                                 *)

(* Mutant: a block that is written again is logged again. *)
log_write_again(s, b) == [s EXCEPT !.logged = @ \cup {Append(b, Cardinality(@))}]
log_write(s, b) == [s EXCEPT !.logged = @ \cup {b}]
Bitmap == <<"bitmap", 0>>
Inodes == <<"inodes", 0>>
Data(b) == <<"data", b>>

Lowest(S) == CHOOSE b \in S : \A c \in S : b <= c

(* Mutant: a new block keeps what was in it. *)
bzero_not(s, b) == s
bzero(s, b) == log_write([s EXCEPT !.blk[b] = Zeroes], Data(b))

(* The disk after, and the block, 0 if there is none. *)
balloc(s) ==
  LET b == Lowest(Block \ s.used)
  IN  IF s.used = Block THEN [s |-> s, addr |-> 0]
      ELSE [s |-> bzero(log_write([s EXCEPT !.used = @ \cup {b}], Bitmap), b), addr |-> b]

(* What was in the blocks is not needed any more: it may be anything that  *)
(* is not zero.                                                            *)
bfree(s, B) ==
  IF B = {} THEN s
  ELSE log_write([s EXCEPT !.used = @ \ B,
                           !.blk = [b \in Block |-> IF b \in B THEN Stale ELSE @[b]],
                           !.home = [b \in Block |-> IF b \in B THEN Stale ELSE @[b]]], Bitmap)

(* The block of the bn-th block of i, allocated if it has none. *)
bmap(s, i, bn) ==
  LET addrs == s.ino[i].addrs
      new == balloc(s)
      ind == IF addrs[NDIRECT] # 0 THEN [s |-> s, addr |-> addrs[NDIRECT]]
             ELSE IF new.addr = 0 THEN new
             ELSE [new EXCEPT !.s = [@ EXCEPT !.ino[i].addrs[NDIRECT] = new.addr]]
      leaf == ind.s.blk[ind.addr][bn - NDIRECT]
      newleaf == balloc(ind.s)
  IN  IF bn < NDIRECT
      THEN IF addrs[bn] # 0 THEN [s |-> s, addr |-> addrs[bn]]
           ELSE IF new.addr = 0 THEN new
           ELSE [new EXCEPT !.s.ino[i].addrs[bn] = new.addr]
      ELSE IF ind.addr = 0 THEN ind
           ELSE IF leaf # 0 THEN [s |-> ind.s, addr |-> leaf]
           ELSE IF newleaf.addr = 0 THEN newleaf
           ELSE [newleaf EXCEPT !.s = log_write([@ EXCEPT !.blk[ind.addr][bn - NDIRECT] = newleaf.addr],
                                                Data(ind.addr))]

iupdate(s) == log_write(s, Inodes)

(* What is in the inode's indirect block. *)
Indirect(s, i) ==
  LET a == s.ino[i].addrs[NDIRECT]
  IN  IF a = 0 THEN {} ELSE {s.blk[a][k] : k \in 0..(NINDIRECT - 1)} \ {0}
Direct(s, i) == {s.ino[i].addrs[k] : k \in 0..NDIRECT} \ {0}

Blocks(s, i) == Direct(s, i) \cup Indirect(s, i)

itrunc(s, i) == iupdate([bfree(s, Blocks(s, i)) EXCEPT !.ino[i] = [size |-> 0, addrs |-> NoAddrs]])

-----------------------------------------------------------------------------
(* Reads and writes.                                                       *)

Least(a, b) == IF a < b THEN a ELSE b

(* What readi gives for n bytes from off on. *)
readi(s, i, off, n) ==
  LET size == s.ino[i].size
      m == IF off > size THEN 0 ELSE Least(n, size - off)
      byte(k) == s.blk[bmap(s, i, k \div BSIZE).addr][k % BSIZE]
  IN  [k \in 1..m |-> byte(off + k - 1)]

(* Mutant: the size is that of the file if all had been written. *)
NewSize_n(size, off, tot, n) == IF off + n > size THEN off + n ELSE size
NewSize(size, off, tot, n) == IF off + tot > size THEN off + tot ELSE size

(* The loop of writei, tot bytes done of n: user memory has got bytes that *)
(* can be read.  If copyin fails, what it has copied is in the buffer, but *)
(* not in the log.                                                         *)
RECURSIVE WriteLoop(_, _, _, _, _, _, _)
WriteLoop(s, i, off, n, v, got, tot) ==
  LET o == off + tot
      mp == bmap(s, i, o \div BSIZE)
      pos == o % BSIZE
      m == Least(n - tot, BSIZE - pos)
      k == Least(m, got - tot)
      put == [mp.s EXCEPT !.blk[mp.addr] = [j \in DOMAIN @ |->
                            IF j >= pos /\ j < pos + k THEN v ELSE @[j]]]
  IN  IF tot >= n THEN [s |-> s, tot |-> tot]
      ELSE IF mp.addr = 0 THEN [s |-> mp.s, tot |-> tot]
      ELSE IF k < m THEN [s |-> put, tot |-> tot]
      ELSE WriteLoop(log_write(put, Data(mp.addr)), i, off, n, v, got, tot + m)

(* writei; tot is what it returns. *)
writei(s, i, off, n, v, got) ==
  LET w == WriteLoop(s, i, off, n, v, got, 0)
  IN  IF off > s.ino[i].size \/ off + n > MAXFILE * BSIZE THEN [s |-> s, tot |-> -1]
      ELSE [w EXCEPT !.s = iupdate([@ EXCEPT !.ino[i].size = NewSize(@, off, w.tot, n)])]

-----------------------------------------------------------------------------
(* System calls.                                                           *)

(* The end of the transaction: what was given to log_write, and all that   *)
(* is in those buffers by now, goes to the disk.                           *)
Commit(s) ==
  [s EXCEPT !.logged = {}, !.home = [b \in Block |-> IF Data(b) \in s.logged THEN s.blk[b] ELSE @[b]]]

(* bget gives the buffer of b, which is not pinned, to another block: next *)
(* time b is read from the disk.                                           *)
bget(b) ==
  /\ disk.blk[b] # disk.home[b]
  /\ disk' = [disk EXCEPT !.blk[b] = disk.home[b]]
  /\ UNCHANGED <<at, left>>

sys_open(f, i, trunc) ==
  /\ at[f].ip = 0
  /\ at' = [at EXCEPT ![f] = [ip |-> i, off |-> 0]]
  /\ disk' = IF trunc THEN Commit(itrunc(disk, i)) ELSE disk
  /\ UNCHANGED left

fileclose(f) ==
  /\ at[f].ip # 0 /\ left[f] = 0
  /\ at' = [at EXCEPT ![f] = Closed]
  /\ UNCHANGED <<disk, left>>

(* iput of an inode without names or users. *)
ifree(i) ==
  /\ \A f \in File : at[f].ip # i
  /\ disk' = Commit(itrunc(disk, i))
  /\ UNCHANGED <<at, left>>

(* fileread.  (If copyout fails the offset stays, and there is no step.) *)
fileread(f, n) ==
  LET r == Len(readi(disk, at[f].ip, at[f].off, n))
  IN  /\ at[f].ip # 0 /\ left[f] = 0 /\ r > 0
      /\ at' = [at EXCEPT ![f].off = @ + r]
      /\ UNCHANGED <<disk, left>>

MaxWrite == ((MAXOPBLOCKS - 1 - 1 - 2) \div 2) * BSIZE

Moved(off, r) == IF r > 0 THEN off + r ELSE off

Left(n, n1, r) == IF r # n1 THEN 0 ELSE n - r

(* The bytes filewrite still has to write: those of a new call, or the rest. *)
ToWrite(f) == IF left[f] = 0 THEN Counts ELSE {left[f]}
Chunk(n) == Least(n, MaxWrite)
Write(f, n, got) == writei(disk, at[f].ip, at[f].off, Chunk(n), f, got)

(* One transaction of filewrite, n bytes to go; got bytes of the user's    *)
(* can be read.                                                            *)
filewrite(f, n, got) ==
  LET n1 == Chunk(n)
      w == Write(f, n, got)
  IN  /\ at[f].ip # 0 /\ n \in ToWrite(f) /\ got <= n1
      /\ disk' = Commit(w.s)
      /\ at' = [at EXCEPT ![f].off = Moved(@, w.tot)]
      /\ left' = [left EXCEPT ![f] = Left(n, n1, w.tot)]

-----------------------------------------------------------------------------
MaxCount == CHOOSE n \in Counts : \A m \in Counts : m <= n

Next ==
  \/ \E f \in File, i \in Inode, trunc \in BOOLEAN : sys_open(f, i, trunc)
  \/ \E i \in Inode : ifree(i)
  \/ \E b \in Block : bget(b)
  \/ \E f \in File :
       \/ fileclose(f)
       \/ \E n \in Counts : fileread(f, n)
       \/ \E n \in 1..MaxCount, got \in 0..MaxCount : filewrite(f, n, got)

Spec == Init /\ [][Next]_vars

-----------------------------------------------------------------------------
(* Properties.                                                             *)

(* The bitmap says exactly which blocks files have, no block is in two     *)
(* places, and every byte of a file has a block: also after a write that   *)
(* ran out of blocks or of user memory half way.                           *)
BlocksExact ==
  /\ disk.used = UNION {Direct(disk, i) \cup Indirect(disk, i) : i \in Inode}
  /\ \A i \in Inode :
       /\ \A j \in Inode \ {i} : (Direct(disk, i) \cup Indirect(disk, i))
                                 \cap (Direct(disk, j) \cup Indirect(disk, j)) = {}
       /\ Direct(disk, i) \cap Indirect(disk, i) = {}
       /\ \A bn \in 0..(MAXFILE - 1) :
            bn * BSIZE < disk.ino[i].size =>
              LET mp == bmap(disk, i, bn) IN mp.addr # 0 /\ mp.s = disk

(* No write that may come next gives the log more blocks than begin_op     *)
(* has reserved for it.                                                    *)
OpFits ==
  \A f \in File : at[f].ip # 0 =>
    \A n \in ToWrite(f) : \A got \in 0..Chunk(n) : Cardinality(Write(f, n, got).s.logged) <= MAXOPBLOCKS

(* The bytes of every file, if blk is in the blocks. *)
Contents(blk) ==
  [i \in Inode |->
     LET addrs == disk.ino[i].addrs
         addr(bn) == IF bn < NDIRECT THEN addrs[bn] ELSE blk[addrs[NDIRECT]][bn - NDIRECT]
     IN  [k \in 1..disk.ino[i].size |-> blk[addr((k - 1) \div BSIZE)][(k - 1) % BSIZE]]]

BF == INSTANCE ByteFiles WITH
        bytes <- Contents(disk.blk), kept <- Contents(disk.home),
        Byte <- File, MaxBytes <- MaxCount

(* Files behave as sequences of bytes read and written at the offsets of   *)
(* open files: no byte of another file, or of one that was removed, shows. *)
(* A write whose copyin fails may change bytes it does not report, and     *)
(* only those may change back, when the buffer is recycled.                *)
FilesAreBytes == BF!Spec
=============================================================================
