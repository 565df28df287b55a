-------------------------------- MODULE Disk --------------------------------
(***************************************************************************)
(* The buffer cache (kernel/bio.c) with its sleep locks (sleeplock.c) over *)
(* the virtio disk driver (virtio_disk.c), a device that completes         *)
(* requests in any order, and its interrupt.                               *)
(*                                                                         *)
(* A step is a critical section of bcache.lock, of a sleep lock's spin     *)
(* lock or of vdisk_lock.  The interrupt handler holds vdisk_lock over     *)
(* several steps, because the device runs at the same time.                *)
(***************************************************************************)
EXTENDS Integers, FiniteSets

CONSTANTS
  Proc, NULL,
  Block, Val,
  NBUF,
  Nums,         \* bound: the values of NUM, which is 8 in the code
  Wraps,        \* avail->idx and used->idx count modulo Wraps * NUM, 2^16 in the code
  MaxPinned     \* bound: blocks the log has pinned at a time

ASSUME DiskAssumption ==
  /\ NBUF \in Nat /\ Nums \subseteq Nat \ 0..2 /\ Wraps \in Nat \ {0}
  /\ IsFiniteSet(Proc) /\ NULL \notin Proc /\ NULL \notin Block /\ NULL \notin Nat

Buf == 1..NBUF

VARIABLES
  buf,      \* buf[i]: struct buf; lock: the holder of its sleep lock
  lru,      \* the buffers, most recently used first
  free,     \* disk.free: descriptors not in use
  desc,     \* desc[d]: next descriptor of the chain, NULL at its end
  req,      \* req[d]: the request whose chain starts at d, with disk.info[d]
  avail,    \* ring and idx of requests; seen: how far the device has looked
  used,     \* ring and idx of completions; seen: disk.used_idx
  blk,      \* device: contents of the blocks
  inflight, \* device: heads of the chains it is working on
  isr,      \* device: it asks for an interrupt
  handler,  \* virtio_disk_intr is running, with vdisk_lock
  pinned,   \* blocks pinned by the log
  th        \* th[p]: pc, block wanted, buffer, head of the chain, and for
            \* virtio_disk_rw: whether it writes and where it returns to

(* NUM is a parameter that never changes: desc has NUM entries. *)
Desc == DOMAIN desc
NUM == Cardinality(Desc)
IDX == Wraps * NUM

cvars == <<buf, lru, pinned>>
dvars == <<free, desc, req, avail, used>>
devvars == <<blk, inflight, isr>>
vars == <<cvars, dvars, devvars, handler, th>>

Idle == [pc |-> "idle", b |-> NULL, i |-> NULL, d |-> NULL, write |-> FALSE]
NoReq == [write |-> FALSE, sector |-> NULL, i |-> NULL, status |-> "ok"]

(* Blocks of no device in the buffers. *)
binit ==
  /\ buf = [i \in Buf |-> [b |-> NULL, valid |-> FALSE, disk |-> FALSE, lock |-> NULL,
                           refcnt |-> 0, data |-> NULL]]
  /\ lru = [k \in Buf |-> NBUF + 1 - k]

virtio_disk_init ==
  /\ \E n \in Nums : desc = [d \in 0..(n - 1) |-> NULL]
  /\ free = Desc /\ req = [d \in Desc |-> NoReq]
  /\ avail = [ring |-> [k \in Desc |-> NULL], idx |-> 0, seen |-> 0]
  /\ used = [ring |-> [k \in Desc |-> NULL], idx |-> 0, seen |-> 0]

Init ==
  /\ binit /\ virtio_disk_init
  /\ blk \in [Block -> Val] /\ inflight = {} /\ isr = FALSE
  /\ handler = FALSE /\ pinned = {}
  /\ th = [p \in Proc |-> Idle]

Goto(p, pc) == th' = [th EXCEPT ![p].pc = pc]

(* wakeup: those of S go on at pc. *)
Wake(T, S, pc) == [q \in Proc |-> IF q \in S THEN [T[q] EXCEPT !.pc = pc] ELSE T[q]]

-----------------------------------------------------------------------------
(* The cache.                                                              *)

Cached(b) == {i \in Buf : buf[i].b = b}

(* Mutant: a buffer somebody is waiting for is taken as unused. *)
Unused_unlocked(i) == buf[i].lock = NULL
Unused(i) == buf[i].refcnt = 0

(* The least recently used buffer that is not in use: {} if all are. *)
Victims ==
  {lru[k] : k \in {k \in Buf : Unused(lru[k]) /\ \A j \in Buf : Unused(lru[j]) => j <= k}}

(* bread(b) starts with bget, and goes on to acquiresleep.  If no buffer   *)
(* is unused the kernel panics: there is no step.                          *)
bget(p, b) ==
  /\ th[p].pc = "idle"
  /\ \E i \in Buf :
       /\ \/ /\ i \in Cached(b)
             /\ buf' = [buf EXCEPT ![i].refcnt = @ + 1]
          \/ /\ Cached(b) = {} /\ i \in Victims
             /\ buf' = [buf EXCEPT ![i].b = b, ![i].valid = FALSE, ![i].refcnt = 1]
       /\ th' = [th EXCEPT ![p] = [Idle EXCEPT !.pc = "acquiresleep", !.b = b, !.i = i]]
  /\ UNCHANGED <<lru, pinned, dvars, devvars, handler>>

(* Mutant: bread takes what is in the buffer. *)
MustRead_not(i) == FALSE
MustRead(i) == ~buf[i].valid

(* acquiresleep, and bread's look at b->valid. *)
acquiresleep(p) ==
  LET i == th[p].i
  IN  /\ th[p].pc = "acquiresleep"
      /\ IF buf[i].lock # NULL THEN Goto(p, "sleep_lock") /\ UNCHANGED buf
         ELSE /\ buf' = [buf EXCEPT ![i].lock = p]
              /\ Goto(p, IF MustRead(i) THEN "rw" ELSE "held")
      /\ UNCHANGED <<lru, pinned, dvars, devvars, handler>>

(* The caller changes the data; then it must bwrite, or have the log pin   *)
(* the buffer.                                                             *)
Store(p, v) ==
  /\ th[p].pc = "held"
  /\ buf' = [buf EXCEPT ![th[p].i].data = v]
  /\ Goto(p, "dirty")
  /\ UNCHANGED <<lru, pinned, dvars, devvars, handler>>

bpin(p) ==
  LET b == th[p].b
  IN  /\ th[p].pc = "dirty"
      /\ IF b \in pinned THEN UNCHANGED <<buf, pinned>>
         ELSE /\ Cardinality(pinned) < MaxPinned /\ pinned' = pinned \cup {b}
              /\ buf' = [buf EXCEPT ![th[p].i].refcnt = @ + 1]
      /\ Goto(p, "held")
      /\ UNCHANGED <<lru, dvars, devvars, handler>>

(* bwrite; the log goes on to bunpin the block if it was pinned. *)
bwrite(p) ==
  /\ th[p].pc = "dirty" \/ (th[p].pc = "held" /\ th[p].b \in pinned)
  /\ th' = [th EXCEPT ![p].pc = "rw", ![p].write = TRUE]
  /\ UNCHANGED <<cvars, dvars, devvars, handler>>

bunpin(p) ==
  LET b == th[p].b
  IN  /\ th[p].pc = "written"
      /\ IF b \in pinned
         THEN pinned' = pinned \ {b} /\ buf' = [buf EXCEPT ![th[p].i].refcnt = @ - 1]
         ELSE UNCHANGED <<buf, pinned>>
      /\ Goto(p, "held")
      /\ UNCHANGED <<lru, dvars, devvars, handler>>

(* Mutant: nobody is told that the buffer's lock is free. *)
LockWakes_not(T, i) == T
LockWakes(T, i) == Wake(T, {q \in Proc : T[q].pc = "sleep_lock" /\ T[q].i = i}, "acquiresleep")

(* brelse: releasesleep, and then with bcache.lock the rest. *)
releasesleep(p) ==
  /\ th[p].pc = "held"
  /\ buf' = [buf EXCEPT ![th[p].i].lock = NULL]
  /\ th' = [LockWakes(th, th[p].i) EXCEPT ![p].pc = "brelse"]
  /\ UNCHANGED <<lru, pinned, dvars, devvars, handler>>

(* The list with i taken out of its place and put to the front. *)
Front(i) ==
  LET k == CHOOSE j \in Buf : lru[j] = i
  IN  [j \in Buf |-> IF j = 1 THEN i ELSE IF j <= k THEN lru[j - 1] ELSE lru[j]]

brelse(p) ==
  LET i == th[p].i
  IN  /\ th[p].pc = "brelse"
      /\ buf' = [buf EXCEPT ![i].refcnt = @ - 1]
      /\ lru' = IF buf[i].refcnt = 1 THEN Front(i) ELSE lru
      /\ th' = [th EXCEPT ![p] = Idle]
      /\ UNCHANGED <<pinned, dvars, devvars, handler>>

-----------------------------------------------------------------------------
(* The driver.                                                             *)

(* alloc_desc takes the lowest descriptor that is free. *)
alloc_desc(d, S) == d \in S /\ \A e \in S : d <= e

(* Its three calls in alloc3_desc: {} if they do not all succeed. *)
alloc3_desc ==
  {d \in free \X free \X free : /\ alloc_desc(d[1], free)
                                 /\ alloc_desc(d[2], free \ {d[1]})
                                 /\ alloc_desc(d[3], free \ {d[1], d[2]})}

(* free_desc wakes all who wait for descriptors. *)
FreeWakes(T) == Wake(T, {q \in Proc : T[q].pc = "sleep_free"}, "rw")

Slot(idx) == idx % NUM

Inc(idx) == (idx + 1) % IDX

(* virtio_disk_rw up to its sleep: format the chain and tell the device.   *)
(* Short of descriptors, alloc3_desc gives back those it got, which wakes  *)
(* the other sleepers.                                                     *)
virtio_disk_rw(p) ==
  LET t == th[p]
  IN  /\ t.pc = "rw" /\ ~handler
      /\ \/ /\ Cardinality(free) < 3
            /\ th' = [(IF free = {} THEN th ELSE FreeWakes(th)) EXCEPT ![p].pc = "sleep_free"]
            /\ UNCHANGED <<buf, dvars>>
         \/ \E d \in alloc3_desc :
            /\ free' = free \ {d[1], d[2], d[3]}
            /\ desc' = [desc EXCEPT ![d[1]] = d[2], ![d[2]] = d[3], ![d[3]] = NULL]
            /\ req' = [req EXCEPT ![d[1]] = [write |-> t.write, sector |-> t.b, i |-> t.i,
                                             status |-> "none"]]
            /\ buf' = [buf EXCEPT ![t.i].disk = TRUE]
            /\ avail' = [avail EXCEPT !.ring[Slot(avail.idx)] = d[1], !.idx = Inc(avail.idx)]
            /\ th' = [th EXCEPT ![p].pc = "sleep_buf", ![p].d = d[1]]
            /\ UNCHANGED used
      /\ UNCHANGED <<lru, pinned, devvars, handler>>

(* free_chain follows the next fields from d. *)
Chain(d) == {d, desc[d]} \cup (IF desc[d] = NULL THEN {} ELSE {desc[desc[d]]})

(* Mutant: the last descriptor of the chain is not freed. *)
Freed_two(d) == {d, desc[d]}
Freed(d) == Chain(d) \ {NULL}

(* Woken by the interrupt: look at b->disk again, free the chain, return. *)
virtio_disk_rw_done(p) ==
  LET t == th[p]
  IN  /\ t.pc = "rw_done" /\ ~handler
      /\ IF buf[t.i].disk THEN Goto(p, "sleep_buf") /\ UNCHANGED <<buf, free, desc, req>>
         ELSE /\ req' = [req EXCEPT ![t.d] = NoReq]
              /\ free' = free \cup Freed(t.d)
              /\ desc' = [d \in Desc |-> IF d \in Freed(t.d) THEN NULL ELSE desc[d]]
              /\ th' = [FreeWakes(th) EXCEPT ![p].pc = IF t.write THEN "written" ELSE "held",
                                             ![p].d = NULL, ![p].write = FALSE]
              /\ buf' = IF t.write THEN buf ELSE [buf EXCEPT ![t.i].valid = TRUE]
      /\ UNCHANGED <<lru, pinned, avail, used, devvars, handler>>

(* The interrupt handler: acknowledge, then take the completions one by    *)
(* one until there is none left.                                           *)
virtio_disk_intr ==
  /\ isr /\ ~handler
  /\ isr' = FALSE /\ handler' = TRUE
  /\ UNCHANGED <<cvars, dvars, blk, inflight, th>>

intr_next ==
  LET i == req[used.ring[Slot(used.seen)]].i
  IN  /\ handler /\ used.seen # used.idx
      /\ buf' = [buf EXCEPT ![i].disk = FALSE]
      /\ th' = Wake(th, {q \in Proc : th[q].pc = "sleep_buf" /\ th[q].i = i}, "rw_done")
      /\ used' = [used EXCEPT !.seen = Inc(used.seen), !.ring[Slot(used.seen)] = NULL]
      /\ UNCHANGED <<lru, pinned, free, desc, req, avail, devvars, handler>>

intr_done ==
  /\ handler /\ used.seen = used.idx
  /\ handler' = FALSE
  /\ UNCHANGED <<cvars, dvars, devvars, th>>

-----------------------------------------------------------------------------
(* The device.  A ring slot is emptied when it has been read: what is left *)
(* in it is never looked at.                                               *)

DevFetch ==
  /\ avail.seen # avail.idx
  /\ inflight' = inflight \cup {avail.ring[Slot(avail.seen)]}
  /\ avail' = [avail EXCEPT !.seen = Inc(avail.seen), !.ring[Slot(avail.seen)] = NULL]
  /\ UNCHANGED <<cvars, free, desc, req, used, blk, isr, handler, th>>

(* Transfer the data, write the status and announce the completion. *)
DevDone(d) ==
  LET r == req[d]
  IN  /\ d \in inflight
      /\ inflight' = inflight \ {d}
      /\ blk' = IF r.write THEN [blk EXCEPT ![r.sector] = buf[r.i].data] ELSE blk
      /\ buf' = IF r.write THEN buf ELSE [buf EXCEPT ![r.i].data = blk[r.sector]]
      /\ req' = [req EXCEPT ![d].status = "ok"]
      /\ used' = [used EXCEPT !.ring[Slot(used.idx)] = d, !.idx = Inc(used.idx)]
      /\ isr' = TRUE
      /\ UNCHANGED <<lru, pinned, free, desc, avail, handler, th>>

-----------------------------------------------------------------------------
Next ==
  \/ \E p \in Proc :
       \/ \E b \in Block : bget(p, b)
       \/ \E v \in Val : Store(p, v)
       \/ bpin(p) \/ bwrite(p) \/ bunpin(p) \/ releasesleep(p) \/ brelse(p)
       \/ acquiresleep(p) \/ virtio_disk_rw(p) \/ virtio_disk_rw_done(p)
  \/ virtio_disk_intr \/ intr_next \/ intr_done
  \/ DevFetch \/ \E d \in Desc : DevDone(d)

Spec == Init /\ [][Next]_vars

-----------------------------------------------------------------------------
(* Properties.                                                             *)

(* The buffer of a block, if it has been read; what bread returns. *)
Valid(b) == {i \in Cached(b) : buf[i].valid}

Contents(b) == IF Valid(b) = {} THEN blk[b] ELSE buf[CHOOSE i \in Valid(b) : TRUE].data

(* Who has the block to itself. *)
Owners(b) == {buf[i].lock : i \in Cached(b)} \ {NULL}
Owner(b) == IF Owners(b) = {} THEN NULL ELSE CHOOSE p \in Owners(b) : TRUE

BS == INSTANCE BlockStore WITH
        mem    <- [b \in Block |-> Contents(b)],
        stable <- blk,
        owner  <- [b \in Block |-> Owner(b)]

(* Cache, driver and device together are a store of blocks: a block has    *)
(* one owner at a time, contents change by the owner's stores only,        *)
(* whichever buffers are recycled and in whatever order requests complete, *)
(* and only what the owner has stored reaches the disk.                    *)
DiskIsStore == BS!Spec

(* There is one buffer for a block at most, and a buffer's count is that   *)
(* of its users and its pin: it is not recycled under anybody.             *)
BuffersExact ==
  /\ \A b \in Block : Cardinality(Cached(b)) <= 1
  /\ \A i \in Buf : buf[i].refcnt = Cardinality({p \in Proc : th[p].i = i})
                                    + (IF buf[i].b \in pinned THEN 1 ELSE 0)
  /\ \A p \in Proc : th[p].i # NULL => buf[th[p].i].b = th[p].b

(* A descriptor is free or in the chain of one request; a completion that  *)
(* the handler finds has its status and its buffer.                        *)
DescriptorsExact ==
  LET busy == {p \in Proc : th[p].d # NULL} IN
    /\ Cardinality(free) + 3 * Cardinality(busy) = NUM
    /\ \A p \in busy : Freed(th[p].d) \cap free = {}
    /\ \A p, q \in busy : p # q => Freed(th[p].d) \cap Freed(th[q].d) = {}
    /\ used.seen # used.idx => LET r == req[used.ring[Slot(used.seen)]]
                               IN  r.status = "ok" /\ r.i # NULL /\ buf[r.i].disk

(* Nobody sleeps for what has happened already: a lock that is free,       *)
(* descriptors that are there, a request the handler is done with.         *)
NoLostWakeup ==
  \A p \in Proc :
    /\ th[p].pc = "sleep_lock" => buf[th[p].i].lock # NULL
    /\ th[p].pc = "sleep_free" => Cardinality(free) < 3
    /\ th[p].pc = "sleep_buf" => buf[th[p].i].disk
=============================================================================
